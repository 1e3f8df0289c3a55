SPECIFICATION AssocSpec
CONSTANTS
  Forbidden = Forbidden
  Infinity = Infinity
  Matrices <- MCMatrices
INVARIANTS
  PotentialsAreFeasible
  LinksAreOptimal
