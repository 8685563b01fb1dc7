----------------------------- MODULE TariffGate -----------------------------
(***************************************************************************)
(* What the tariff review promises of the reference tables: a change of    *)
(* the tariff is proposed once, waits, and takes effect at most once, in   *)
(* the step in which it is approved, with all the changes approved         *)
(* together with it.  How the queue, the sync and the decisions bring that *)
(* about is TariffReview.                                                  *)
(***************************************************************************)
EXTENDS Naturals

CONSTANT Proposals  \* revisions that may ever be staged

VARIABLES
  staged,   \* proposals in the queue or decided
  applied,  \* proposals in force
  quiet,    \* no sync has overlapped a decision so far
  effects   \* how often each proposal has changed the reference tables

gateVars == <<staged, applied, quiet, effects>>

GateInit ==
  /\ staged = {}
  /\ applied = {}
  /\ quiet = TRUE
  /\ effects = [p \in Proposals |-> 0]

Propose(S) ==
  /\ S \cap staged = {}
  /\ staged' = staged \cup S
  /\ UNCHANGED <<applied, effects>>

Approve(S) ==
  /\ S \subseteq staged \ applied
  /\ applied' = applied \cup S
  /\ effects' = [p \in Proposals |-> IF p \in S THEN effects[p] + 1 ELSE effects[p]]
  /\ UNCHANGED staged

GateNext ==
  \/ quiet /\ quiet' /\ \E S \in SUBSET Proposals : Propose(S) \/ Approve(S)
  \/ ~quiet'

GateSpec == GateInit /\ [][GateNext]_gateVars
=============================================================================
