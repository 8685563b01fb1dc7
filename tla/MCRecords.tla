------------------------------ MODULE MCRecords ------------------------------
(***************************************************************************)
(* What is recorded of entries and parts: the findings of the analyst as   *)
(* they are kept, the findings of the rules about the duty of a line, and  *)
(* the code of a part.  They share no table: a behaviour runs one of them  *)
(* while the others stay at their start, which reaches every state of      *)
(* each.  Bases, texts, runs, requests and codes are interchangeable;      *)
(* dates are not.                                                          *)
(***************************************************************************)
EXTENDS FindingReconcile, DutyAudit, PartClassification, TLC

VARIABLE running

Symmetry ==
  Permutations(Bases) \cup Permutations(Texts) \cup Permutations(Writers)

H(code, exempt, program, authority, percent) ==
  [code |-> code, exempt |-> exempt, program |-> program, authority |-> authority, percent |-> percent,
   covers |-> TRUE, active |-> TRUE, specific |-> FALSE, after |-> Unset, before |-> Unset,
   inLieu |-> FALSE, below |-> Unset, trigger |-> Unset, from |-> 1]

\* The reciprocal baseline, a country rate of the program split by sail dates
\* under one code, the surcharge, split by sail dates under one code and one
\* rate, that the metals program displaces, metals, a fee of no computable rate,
\* and a ceiling heading.
MCHeadings == {
  H("baseline", "baseExempt", "reciprocal", "ieepa", 10),
  [H("country", Unset, "reciprocal", "ieepa", 8) EXCEPT !.specific = TRUE, !.before = 1],
  [H("country", Unset, "reciprocal", "ieepa", 34) EXCEPT !.specific = TRUE, !.after = 2, !.from = 2],
  [H("surcharge", "surExempt", "s122", "s122", 12) EXCEPT !.trigger = "metals", !.after = 2],
  [H("surcharge", "surExempt", "s122", "s122", 12) EXCEPT !.trigger = "metals", !.before = 1, !.from = 2],
  H("metals", "metalsExempt", "metals", "s232", 25),
  H("fee", Unset, Unset, "s301", Unset),
  [H("ceiling", "ceilExempt", "ceiling", "trade", 15) EXCEPT !.inLieu = TRUE, !.below = 15]}

MCLines == {[general |-> 5, special |-> Unset, claim |-> "none"],
            [general |-> 5, special |-> 0, claim |-> "eligible"],
            [general |-> 20, special |-> Unset, claim |-> "unverifiable"],
            [general |-> Unset, special |-> Unset, claim |-> "none"]}

MCStacking == <<[winner |-> "s232", loser |-> "ieepa"]>>

\* A row that is written for a part gets the lowest free id, no row is ever
\* deleted, and which id it gets makes no difference.
InOrder(rows) == \A i, j \in DOMAIN rows : rows[i] # None /\ j < i => rows[j] # None

RecordsInit ==
  /\ running \in {"reconcile", "duty", "part"}
  /\ Init /\ DutyInit /\ ClassInit
  /\ running # "duty" => duties = {} /\ goods.general = 20
  /\ running # "part" => part.code = NoCode
  /\ InOrder(window)

RecordsNext ==
  \/ running = "reconcile" /\ Next /\ UNCHANGED <<running, dutyVars, classVars>>
  \/ running = "duty" /\ DutyNext /\ UNCHANGED <<running, vars, classVars>>
  \/ /\ running = "part" /\ ClassNext /\ InOrder(window') /\ InOrder(item')
     /\ UNCHANGED <<running, vars, dutyVars>>

RecordsSpec == RecordsInit /\ [][RecordsNext]_<<running, vars, dutyVars, classVars>>
=============================================================================
