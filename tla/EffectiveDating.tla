--------------------------- MODULE EffectiveDating ---------------------------
(***************************************************************************)
(* The pure functions of src/lib/effective-dating.ts.  A window is a       *)
(* record with a first day "from" and a last day "to", both inclusive.     *)
(* A day is a number from 1 on; a null valid_from (open start) is day 0    *)
(* and so is an effective date nobody gave; a null valid_to (the current   *)
(* window) is Open.                                                        *)
(***************************************************************************)
EXTENDS Naturals, FiniteSets

CONSTANTS
  Days,   \* dates a request may carry
  Open    \* a null valid_to

ASSUME DaysAssumption == Days \subseteq Nat \ {0}
ASSUME OpenAssumption == Open \notin Nat

Undated == 0

\* planWindow: a change that post-dates the start of the current window opens
\* a successor; any other corrects the window in place.
Tiles(from, eff) == eff # Undated /\ eff > from

\* planCommitWindow, when there is a current window that starts on "from".
CommitPlan(from, eff) == IF Tiles(from, eff) THEN "tile" ELSE "update_in_place"

\* Mutant: the last day is not clamped to the start of the window.
CloseDateBefore(from, eff) == eff - 1

\* planCloseDate: the last day of a window that is retired on day eff.
CloseDate(from, eff) == IF eff - 1 < from THEN from ELSE eff - 1

CoversDay(w, day) == w.from <= day /\ (w.to = Open \/ day <= w.to)

\* resolveWindow: find() answers with the first hit of the order the rows come
\* in, hence with any element of this set.
Resolved(windows, day) ==
  LET hits == {w \in windows : CoversDay(w, day)}
  IN IF hits # {} THEN hits ELSE {w \in windows : w.to = Open}
=============================================================================
