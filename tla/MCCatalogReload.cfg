\* One resident, whose metadata and embeddings change in two commits.
CONSTANTS
  Residents = {r1}
  Metas = {m1, m2}
  Embeddings = {good, bad}
  Malformed = {bad}
  Nothing = Nothing
  MaxCommits = 2
  PollInterval = 1
  FirstBackoff = 1
  MaxBackoff = 2
SPECIFICATION FairSpec
INVARIANTS
  SkipIsSound
  RuntimeIsWhole
PROPERTIES
  Converges
