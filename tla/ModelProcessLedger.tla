------------------------- MODULE ModelProcessLedger -------------------------
(***************************************************************************)
(* What a campaign promises about model processes: an item's authorization *)
(* is consumed once and for all, within a budget, and buys at most one     *)
(* process.  Neither a consumed authorization nor a started process is     *)
(* ever given back.                                                        *)
(***************************************************************************)
EXTENDS Integers, FiniteSets

CONSTANTS
  Bearing,    \* the items that need a model process
  Budget,     \* how many may be authorized, or Unlimited
  Unlimited

VARIABLES consumed, started

Init == consumed = {} /\ started = {}

Authorize(i) ==
  /\ i \notin consumed
  /\ Budget # Unlimited => Cardinality(consumed) < Budget
  /\ consumed' = consumed \cup {i}
  /\ UNCHANGED started

Launch(i) ==
  /\ i \in consumed /\ i \notin started
  /\ started' = started \cup {i}
  /\ UNCHANGED consumed

Next == \E i \in Bearing : Authorize(i) \/ Launch(i)

Spec == Init /\ [][Next]_<<consumed, started>>
=============================================================================
