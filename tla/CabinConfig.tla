---------------------------- MODULE CabinConfig ----------------------------
(***************************************************************************)
(* The runtime configuration of a cabin (cabin_config.cpp): each value is  *)
(* taken from the command line, else from the cabin's row, else from the   *)
(* defaults, and then brought into range.  The row is written by patches   *)
(* that validate_cabin_patch has passed.  A program that has no database   *)
(* it can open runs with the command line and the defaults as they are.    *)
(*                                                                         *)
(* Of a camera URL only its kind is kept: none, one of the three schemes   *)
(* that are allowed, or anything else.  match_thr is in hundredths.        *)
(***************************************************************************)
EXTENDS Integers

CONSTANTS
  Defaults,  \* the compiled-in values, which are those of a new row, too
  NoRow      \* a model value: the cabin is not in the database

DbOnly == {"floors_min", "floors_max"}
CliFields == {"source", "gst_latency_ms", "match_thr", "confirm_streak",
              "cooldown_ms", "unknown_after_ms", "reconnect_min_ms",
              "reconnect_max_ms"}
Fields == CliFields \cup DbOnly

Urls == {"none", "allowed", "other"}

\* Some of the fields with values: what is passed, or what a patch flags.
WellFormed(values, fields) ==
  /\ DOMAIN values \subseteq fields
  /\ \A f \in DOMAIN values : IF f = "source" THEN values[f] \in Urls
                              ELSE values[f] \in Int

ASSUME ConfigAssumption ==
  /\ DOMAIN Defaults = Fields
  /\ Defaults["source"] \in Urls
  /\ \A f \in Fields \ {"source"} : Defaults[f] \in Int
  /\ Defaults["floors_min"] <= Defaults["floors_max"]
  /\ Defaults["reconnect_max_ms"] >= 1

\* What R4 of cabin-runtime-config asks of the values the program runs with.
InRange(c) ==
  /\ c["match_thr"] \in 5 .. 95
  /\ c["confirm_streak"] >= 1
  /\ \A f \in {"cooldown_ms", "unknown_after_ms", "gst_latency_ms"} : c[f] >= 0
  /\ 1 <= c["reconnect_min_ms"] /\ c["reconnect_min_ms"] <= c["reconnect_max_ms"]
  /\ c["floors_min"] <= c["floors_max"]

-----------------------------------------------------------------------------
(* resolve_cabin_config.  cli has the fields that were passed.              *)

\* A URL of the row must have an allowed scheme, one of the command line is
\* trusted.
Chosen(f, cli, row) ==
  IF f \in DOMAIN cli \ DbOnly THEN cli[f]
  ELSE IF row = NoRow THEN Defaults[f]
  ELSE IF f = "source" /\ row[f] # "allowed" THEN "none"
  ELSE row[f]

AtLeast(n, low) == IF n < low THEN low ELSE n

Clamped(c) ==
  [c EXCEPT !["match_thr"] = IF @ > 95 THEN 95 ELSE AtLeast(@, 5),
            !["confirm_streak"] = AtLeast(@, 1),
            !["cooldown_ms"] = AtLeast(@, 0),
            !["unknown_after_ms"] = AtLeast(@, 0),
            !["gst_latency_ms"] = AtLeast(@, 0),
            !["reconnect_min_ms"] = AtLeast(@, 1)]

\* Slip: only the floors are compared, the patches have looked at the rest.
OrderedFloors(c) ==
  IF c["floors_min"] <= c["floors_max"] THEN c
  ELSE [c EXCEPT !["floors_min"] = Defaults["floors_min"],
                 !["floors_max"] = Defaults["floors_max"]]

\* Bounds in the wrong order are swapped; floors fall back to the defaults.
Ordered(c) ==
  LET swap == c["reconnect_min_ms"] > c["reconnect_max_ms"]
      reset == c["floors_min"] > c["floors_max"]
  IN [c EXCEPT
        !["reconnect_min_ms"] = IF swap THEN c["reconnect_max_ms"] ELSE @,
        !["reconnect_max_ms"] = IF swap THEN c["reconnect_min_ms"] ELSE @,
        !["floors_min"] = IF reset THEN Defaults["floors_min"] ELSE @,
        !["floors_max"] = IF reset THEN Defaults["floors_max"] ELSE @]

Selected(cli, row) == [f \in Fields |-> Chosen(f, cli, row)]
Resolved(cli, row) == Ordered(Clamped(Selected(cli, row)))

\* parse_args looks at one of the values: --confirm-streak is at least 1.
Parsed(line) ==
  [f \in DOMAIN line |-> IF f = "confirm_streak" THEN AtLeast(line[f], 1)
                          ELSE line[f]]

\* eff as main() initialises it; the floors are the defaults.
Unresolved(cli) == Selected(cli, NoRow)

-----------------------------------------------------------------------------
(* validate_cabin_patch and update_cabin_config.  A patch has the fields    *)
(* that are flagged; each bound is looked at alone unless both are there.   *)

InOrder(patch, low, high) ==
  {low, high} \subseteq DOMAIN patch => patch[low] <= patch[high]

Passes(patch) ==
  LET has(f) == f \in DOMAIN patch
  IN /\ has("source") => patch["source"] = "allowed"
     /\ has("match_thr") => patch["match_thr"] \in 5 .. 95
     /\ has("confirm_streak") => patch["confirm_streak"] >= 1
     /\ \A f \in {"cooldown_ms", "unknown_after_ms", "gst_latency_ms"} :
          has(f) => patch[f] >= 0
     /\ has("reconnect_min_ms") => patch["reconnect_min_ms"] >= 1
     /\ InOrder(patch, "reconnect_min_ms", "reconnect_max_ms")
     /\ InOrder(patch, "floors_min", "floors_max")

Patched(row, patch) ==
  [f \in Fields |-> IF f \in DOMAIN patch THEN patch[f] ELSE row[f]]
=============================================================================
