------------------------ MODULE AnalysisQueueProofs ------------------------
(***************************************************************************)
(* Theorems about AnalysisQueue, for every set of entries, rows, drains,   *)
(* slots, requests and handlers, and every value of the bounds: with no    *)
(* bound in the way MaxRequests and MaxFaults may be as large as one likes.*)
(*                                                                         *)
(* QueueInv is inductive together with TypeOK.  Its parts depend on each   *)
(* other in one direction only, so each has a lemma of its own:            *)
(*   TypeStep                   types                                      *)
(*   HeldStep, ShapeStep        who holds a row; the shape of a call       *)
(*   PendingStep                one pending row per entry (uses shape)     *)
(*   OutcomeKept, DeadStay      what has ended stays as it ended           *)
(*   FewExpire, ReclaimStep     the dead runs are few, and owed by a sweep *)
(*   ServedStep                 no document lost (uses all of these)       *)
(*   RetryStep                  retries are paid for (uses QueueInv)       *)
(***************************************************************************)
EXTENDS AnalysisQueue, FiniteSetTheorems, TLAPS

-----------------------------------------------------------------------------
(* Types.                                                                  *)

\* The frame a selection leaves is a frame: its targets are entries
\* (SelectAnalyzed).
LEMMA SelectFrame ==
  ASSUME NEW c \in Changers, TypeOK, SelectAnalyzed(c)
  PROVE  queuing' \in [Callers -> Call]
<1> DEFINE T == {e \in queuing[c].affected : Analyzed(e)}
<1>1. queuing \in [Callers -> Call] /\ c \in Callers
  BY DEF TypeOK, Callers
<1>2. T \in SUBSET Entries
  BY <1>1 DEF Call
<1>3. queuing' = [queuing EXCEPT ![c] = [@ EXCEPT !.pc = "touch", !.targets = T]]
  BY DEF SelectAnalyzed
<1> HIDE DEF T
<1> QED
  BY <1>1, <1>2, <1>3 DEF Call

\* The frame left by the touch of the pending rows is a frame (TouchPending).
LEMMA TouchFrame ==
  ASSUME NEW c \in Callers, TypeOK, TouchPending(c)
  PROVE  queuing' \in [Callers -> Call]
<1> DEFINE touched == {r \in RunIds : Pending(r) /\ entryOf[r] \in queuing[c].targets}
<1> DEFINE T == queuing[c].targets \ {entryOf[r] : r \in touched}
<1> DEFINE L == IF queuing[c].kind = "tariff" THEN touched ELSE {}
<1>1. queuing \in [Callers -> Call]
  BY DEF TypeOK
<1>2. T \in SUBSET Entries /\ L \in SUBSET RunIds
  BY <1>1 DEF Call
<1>3. queuing' = [queuing EXCEPT ![c] =
        [@ EXCEPT !.pc = "insert", !.targets = T, !.locked = L]]
  BY <1>1, Zenon DEF TouchPending
<1> HIDE DEF T, L
<1> QED
  BY <1>1, <1>2, <1>3 DEF Call

\* The frame left by an insert is a frame, committed or inside a transaction
\* (InsertPending, InsertInTransaction).
LEMMA InsertFrame ==
  ASSUME NEW c \in Callers, NEW e \in Entries, TypeOK,
         \/ InsertInTransaction(c, e)
         \/ \E r \in RunIds : InsertPending(c, e, r)
  PROVE  queuing' \in [Callers -> Call]
<1> DEFINE v == [queuing[c] EXCEPT !.targets = queuing[c].targets \ {e},
                                   !.inserted = queuing[c].inserted \cup {e}]
<1>1. queuing \in [Callers -> Call]
  BY DEF TypeOK
<1>2. v \in Call
  BY <1>1 DEF Call
<1>3. queuing' = [queuing EXCEPT ![c] = v]
  BY <1>1, Zenon DEF InsertPending, InsertInTransaction
<1> HIDE DEF v
<1> QED
  BY <1>1, <1>2, <1>3

\* The frame of a caller whose queueing call returns is a frame (Queued).
LEMMA QueuedFrame ==
  ASSUME NEW c \in Callers, TypeOK, Queued(c)
  PROVE  queuing' \in [Callers -> Call]
<1>1. queuing \in [Callers -> Call]
  BY DEF TypeOK
<1>2. [queuing[c] EXCEPT !.pc = "commit"] \in Call
  BY <1>1 DEF Call
<1>3. IdleCall \in Call /\ AfterResponse(c) \in Call
  BY DEF Call, IdleCall, AfterResponse
<1>4. PICK v \in Call : queuing' = [queuing EXCEPT ![c] = v]
  BY <1>1, <1>2, <1>3 DEF Queued
<1> QED
  BY <1>1, <1>4

\* A drain that has reclaimed rows remembers rows only (ReclaimExpired).
LEMMA ReclaimFrame ==
  ASSUME NEW d \in Drains, TypeOK, ReclaimExpired(d)
  PROVE  drain' \in [Drains -> Drain]
<1> DEFINE dead == {r \in RunIds : status[r] = "running" /\ expired[r]}
<1> DEFINE p == IF dead = {} THEN "seed" ELSE "deaths"
<1>1. drain \in [Drains -> Drain]
  BY DEF TypeOK
<1>2. dead \in SUBSET RunIds
  OBVIOUS
<1>3. drain' = [drain EXCEPT ![d].pc = p, ![d].reclaimed = dead]
  BY DEF ReclaimExpired
<1>4. p \in {"seed", "deaths"}
  OBVIOUS
<1> HIDE DEF p, dead
<1> QED
  BY <1>1, <1>2, <1>3, <1>4 DEF Drain

\* A drain that has read the deaths, or has handed a batch of rows to its
\* queueing call, remembers rows it had (CountDeaths, RequeueReclaimed).
LEMMA RequeueFrame ==
  ASSUME NEW d \in Drains, NEW left, NEW p \in {"seed", "requeue"}, TypeOK,
         left \subseteq drain[d].reclaimed,
         drain' = [drain EXCEPT ![d].pc = p, ![d].reclaimed = left]
  PROVE  drain' \in [Drains -> Drain]
<1>1. drain \in [Drains -> Drain]
  BY DEF TypeOK
<1>2. drain[d].reclaimed \in SUBSET RunIds
  BY <1>1 DEF Drain
<1>3. left \in SUBSET RunIds
  BY <1>2
<1> QED
  BY <1>1, <1>3 DEF Drain

\* The list a drain works through holds row ids only (ListPending).
LEMMA ListFrame ==
  ASSUME NEW d \in Drains, TypeOK, ListPending(d)
  PROVE  drain' \in [Drains -> Drain]
<1> DEFINE R == Oldest({r \in RunIds : Pending(r) /\ (drain[d].settle => settled[r])})
<1>1. /\ drain \in [Drains -> Drain]
      /\ drain' = [drain EXCEPT ![d].pc = "draining", ![d].list = R]
  BY DEF TypeOK, ListPending
<1>2. R \in SUBSET RunIds
  BY DEF Oldest
<1> HIDE DEF R
<1> QED
  BY <1>1, <1>2 DEF Drain

\* A manual request that inserted its own row holds it (ManualInsert).
LEMMA ManualFrame ==
  ASSUME NEW m \in Manuals, NEW r \in RunIds, TypeOK, ManualInsert(m, r)
  PROVE  exec' \in [Executors -> Exec]
<1>1. exec \in [Executors -> Exec] /\ m \in Executors
  BY DEF TypeOK, Executors
<1>2. exec' = [exec EXCEPT ![m].pc = "claimed", ![m].run = r]
  BY DEF ManualInsert
<1> QED
  BY <1>1, <1>2 DEF Exec

\* Every step keeps every variable in its type.
LEMMA TypeStep == TypeOK /\ [Next]_vars => TypeOK'
<1> SUFFICES ASSUME TypeOK, [Next]_vars PROVE TypeOK'
  OBVIOUS
<1> USE DEF ghostVars
<1>1. ASSUME NEW c \in Changers, NEW E \in SUBSET Entries, LinkDocument(c, E)
      PROVE TypeOK'
  <2>1. missed' \in [RunIds -> SUBSET Kinds]
    BY <1>1 DEF TypeOK, LinkDocument, Kinds, Miss
  <2>2. queuing' \in [Callers -> Call]
    BY <1>1 DEF TypeOK, LinkDocument, Call, Callers, Kinds, IdleCall
  <2>3. requests' \in Nat
    BY <1>1 DEF TypeOK, LinkDocument
  <2> QED
    BY <1>1, <2>1, <2>2, <2>3 DEF TypeOK, rowVars, LinkDocument
<1>2. ASSUME NEW c \in Changers, NEW E \in SUBSET Entries, ChangeRule(c, E)
      PROVE TypeOK'
  <2>1. missed' \in [RunIds -> SUBSET Kinds]
    BY <1>2 DEF TypeOK, ChangeRule, Kinds, Miss
  <2>2. queuing' \in [Callers -> Call]
    BY <1>2 DEF TypeOK, ChangeRule, Call, Callers, Kinds, IdleCall
  <2>3. requests' \in Nat
    BY <1>2 DEF TypeOK, ChangeRule
  <2> QED
    BY <1>2, <2>1, <2>2, <2>3 DEF TypeOK, rowVars, ChangeRule
<1>3. ASSUME NEW c \in Changers, NEW E \in SUBSET Entries, ApplyTariff(c, E)
      PROVE TypeOK'
  <2>1. queuing' \in [Callers -> Call]
    BY <1>3 DEF TypeOK, ApplyTariff, Call, Callers, Kinds, IdleCall
  <2>2. requests' \in Nat
    BY <1>3 DEF TypeOK, ApplyTariff
  <2> QED
    BY <1>3, <2>1, <2>2 DEF TypeOK, rowVars, ApplyTariff
<1>4. ASSUME NEW c \in Changers, SelectAnalyzed(c) PROVE TypeOK'
  <2>1. queuing' \in [Callers -> Call]
    BY <1>4, SelectFrame DEF Callers
  <2> QED
    BY <1>4, <2>1 DEF TypeOK, rowVars, SelectAnalyzed
<1>5. ASSUME NEW c \in Changers, CommitTariff(c) PROVE TypeOK'
  <2>1. status' \in [RunIds -> Status]
    BY <1>5 DEF TypeOK, CommitTariff, Status
  <2>2. entryOf' \in [RunIds -> Entries \cup {NoEntry}]
    BY <1>5 DEF TypeOK, CommitTariff, Call, Callers
  <2>3. missed' \in [RunIds -> SUBSET Kinds]
    BY <1>5 DEF TypeOK, CommitTariff, Kinds, Miss
  <2>4. queuing' \in [Callers -> Call]
    BY <1>5 DEF TypeOK, CommitTariff, Call, Callers, Kinds, IdleCall,
         AfterResponse
  <2> QED
    BY <1>5, <2>1, <2>2, <2>3, <2>4 DEF TypeOK, rowVars,
       CommitTariff
<1>6. ASSUME NEW c \in Changers, NEW d \in Drains, StartAfterResponseDrain(c, d)
      PROVE TypeOK'
  <2>1. drain' \in [Drains -> Drain]
    BY <1>6 DEF TypeOK, StartAfterResponseDrain, Drain, OffDrain
  <2>2. queuing' \in [Callers -> Call]
    BY <1>6 DEF TypeOK, StartAfterResponseDrain, Call, Callers, Kinds,
         IdleCall
  <2> QED
    BY <1>6, <2>1, <2>2 DEF TypeOK, rowVars,
       StartAfterResponseDrain
<1>7. ASSUME NEW c \in Changers, CrashChanger(c) PROVE TypeOK'
  <2>1. queuing' \in [Callers -> Call]
    BY <1>7 DEF TypeOK, CrashChanger, Call, Callers, Kinds, IdleCall
  <2>2. faults' \in Nat
    BY <1>7 DEF TypeOK, CrashChanger
  <2> QED
    BY <1>7, <2>1, <2>2 DEF TypeOK, rowVars, CrashChanger
<1>8. ASSUME NEW c \in Callers, TouchPending(c) PROVE TypeOK'
  <2>1. settled' \in [RunIds -> BOOLEAN]
    BY <1>8 DEF TypeOK, TouchPending
  <2>2. queuing' \in [Callers -> Call]
    BY <1>8, TouchFrame
  <2> QED
    BY <1>8, <2>1, <2>2 DEF TypeOK, rowVars, TouchPending
<1>9. ASSUME NEW c \in Callers, NEW e \in Entries, InsertConflict(c, e)
      PROVE TypeOK'
  <2>1. queuing' \in [Callers -> Call]
    BY <1>9 DEF TypeOK, InsertConflict, Call, Callers
  <2> QED
    BY <1>9, <2>1 DEF TypeOK, rowVars, InsertConflict
<1>10. ASSUME NEW c \in Callers, NEW e \in Entries, InsertInTransaction(c, e)
      PROVE TypeOK'
  <2>1. queuing' \in [Callers -> Call]
    BY <1>10, InsertFrame
  <2> QED
    BY <1>10, <2>1 DEF TypeOK, rowVars, InsertInTransaction
<1>11. ASSUME NEW c \in Callers, NEW e \in Entries, NEW r \in RunIds, InsertPending(c, e, r)
      PROVE TypeOK'
  <2>1. status' \in [RunIds -> Status]
    BY <1>11 DEF TypeOK, InsertPending, Status, InsertRow
  <2>2. entryOf' \in [RunIds -> Entries \cup {NoEntry}]
    BY <1>11 DEF TypeOK, InsertPending, InsertRow
  <2>3. queuing' \in [Callers -> Call]
    BY <1>11, InsertFrame
  <2>4. requeues' \in [Entries -> Nat]
    BY <1>11 DEF TypeOK, InsertPending
  <2> QED
    BY <1>11, <2>1, <2>2, <2>3, <2>4 DEF TypeOK, rowVars,
       InsertPending, InsertRow
<1>12. ASSUME NEW c \in Callers, Queued(c) PROVE TypeOK'
  <2>1. queuing' \in [Callers -> Call]
    BY <1>12, QueuedFrame
  <2>2. onFile' \in SUBSET Entries
    BY <1>12 DEF TypeOK, Queued, Call, Callers
  <2> QED
    BY <1>12, <2>1, <2>2 DEF TypeOK, rowVars, Queued
<1>13. ASSUME NEW d \in Drains, StartSweep(d) PROVE TypeOK'
  <2>1. drain' \in [Drains -> Drain]
    BY <1>13 DEF TypeOK, StartSweep, Drain, OffDrain
  <2> QED
    BY <1>13, <2>1 DEF TypeOK, rowVars, StartSweep
<1>14. ASSUME NEW d \in Drains, ReclaimExpired(d) PROVE TypeOK'
  <2>1. status' \in [RunIds -> Status]
    BY <1>14 DEF TypeOK, ReclaimExpired, Status
  <2>2. expired' \in [RunIds -> BOOLEAN]
    BY <1>14 DEF TypeOK, ReclaimExpired
  <2>3. drain' \in [Drains -> Drain]
    BY <1>14, ReclaimFrame
  <2> QED
    BY <1>14, <2>1, <2>2, <2>3 DEF TypeOK, rowVars, ReclaimExpired
<1>15. ASSUME NEW d \in Drains, NEW rows \in SUBSET RunIds, RequeueReclaimed(d, rows)
       PROVE TypeOK'
  <2> DEFINE left == drain[d].reclaimed \ rows
             p == IF left = {} THEN "seed" ELSE "requeue"
  <2>1. queuing' \in [Callers -> Call]
    <3> DEFINE E == {e \in Entries : \E r \in rows : entryOf[r] = e}
    <3>1. E \in SUBSET Entries
      OBVIOUS
    <3>2. queuing' = [queuing EXCEPT ![d] =
            [IdleCall EXCEPT !.pc = "touch", !.kind = "requeue", !.targets = E]]
      BY <1>15 DEF RequeueReclaimed
    <3> HIDE DEF E
    <3> QED
      BY <3>1, <3>2 DEF TypeOK, Call, Callers, Kinds, IdleCall
  <2>2. drain' \in [Drains -> Drain]
    <3>1. /\ p \in {"seed", "requeue"} /\ left \subseteq drain[d].reclaimed
          /\ drain' = [drain EXCEPT ![d].pc = p, ![d].reclaimed = left]
      BY <1>15 DEF RequeueReclaimed
    <3> HIDE DEF left, p
    <3> QED
      BY <3>1, RequeueFrame
  <2> QED
    BY <1>15, <2>1, <2>2 DEF TypeOK, rowVars, ghostVars, RequeueReclaimed
<1>34. ASSUME NEW d \in Drains, CountDeaths(d) PROVE TypeOK'
  <2> DEFINE left == {r \in drain[d].reclaimed : ~RetriesSpent(entryOf[r])}
             p == IF left = {} THEN "seed" ELSE "requeue"
  <2>1. /\ p \in {"seed", "requeue"} /\ left \subseteq drain[d].reclaimed
        /\ drain' = [drain EXCEPT ![d].pc = p, ![d].reclaimed = left]
    BY <1>34 DEF CountDeaths
  <2> HIDE DEF left, p
  <2>2. drain' \in [Drains -> Drain]
    BY <2>1, RequeueFrame
  <2> QED
    BY <1>34, <2>2 DEF TypeOK, rowVars, ghostVars, CountDeaths
<1>16. ASSUME NEW d \in Drains, SeedUnanalyzed(d) PROVE TypeOK'
  <2>1. queuing' \in [Callers -> Call]
    BY <1>16 DEF TypeOK, SeedUnanalyzed, Call, Callers, Kinds, IdleCall
  <2>2. drain' \in [Drains -> Drain]
    BY <1>16 DEF TypeOK, SeedUnanalyzed, Drain
  <2> QED
    BY <1>16, <2>1, <2>2 DEF TypeOK, rowVars, SeedUnanalyzed
<1>17. ASSUME NEW d \in Drains, ListPending(d) PROVE TypeOK'
  <2>1. drain' \in [Drains -> Drain]
    BY <1>17, ListFrame
  <2>2. exec' \in [Executors -> Exec]
    BY <1>17 DEF TypeOK, ListPending, Exec, Executors
  <2> QED
    BY <1>17, <2>1, <2>2 DEF TypeOK, rowVars, ListPending
<1>18. ASSUME NEW d \in Drains, EndDrain(d) PROVE TypeOK'
  <2>1. drain' \in [Drains -> Drain]
    BY <1>18 DEF TypeOK, EndDrain, Drain, OffDrain
  <2> QED
    BY <1>18, <2>1 DEF TypeOK, rowVars, EndDrain
<1>19. ASSUME NEW d \in Drains, CrashDrain(d) PROVE TypeOK'
  <2>1. drain' \in [Drains -> Drain]
    BY <1>19 DEF TypeOK, CrashDrain, Drain, OffDrain
  <2>2. queuing' \in [Callers -> Call]
    BY <1>19 DEF TypeOK, CrashDrain, Call, Callers, Kinds, IdleCall
  <2>3. exec' \in [Executors -> Exec]
    BY <1>19 DEF TypeOK, CrashDrain, Exec, Executors, OffExec
  <2>4. faults' \in Nat /\ forsaken' \in SUBSET RunIds
    BY <1>19 DEF TypeOK, CrashDrain
  <2> QED
    BY <1>19, <2>1, <2>2, <2>3, <2>4 DEF TypeOK, rowVars,
       CrashDrain
<1>20. ASSUME NEW d \in Drains, NEW s \in Slots, NEW r \in RunIds, ClaimListed(d, s, r)
      PROVE TypeOK'
  <2>1. status' \in [RunIds -> Status]
    BY <1>20 DEF TypeOK, ClaimListed, Status, ClaimRow
  <2>2. settled' \in [RunIds -> BOOLEAN]
    BY <1>20 DEF TypeOK, ClaimListed, ClaimRow
  <2>3. exec' \in [Executors -> Exec]
    BY <1>20 DEF TypeOK, ClaimListed, Exec, Executors
  <2>4. drain' \in [Drains -> Drain]
    BY <1>20 DEF TypeOK, ClaimListed, Drain
  <2> QED
    BY <1>20, <2>1, <2>2, <2>3, <2>4 DEF TypeOK, rowVars,
       ClaimListed, ClaimRow
<1>21. ASSUME NEW d \in Drains, NEW s \in Slots, NEW r \in RunIds, SkipListed(d, s, r)
      PROVE TypeOK'
  <2>1. exec' \in [Executors -> Exec]
    BY <1>21 DEF TypeOK, SkipListed, Exec, Executors
  <2>2. drain' \in [Drains -> Drain]
    BY <1>21 DEF TypeOK, SkipListed, Drain
  <2> QED
    BY <1>21, <2>1, <2>2 DEF TypeOK, rowVars, SkipListed
<1>22. ASSUME NEW d \in Drains, NEW s \in Slots, StopSlot(d, s) PROVE TypeOK'
  <2>1. exec' \in [Executors -> Exec]
    BY <1>22 DEF TypeOK, StopSlot, Exec, Executors
  <2> QED
    BY <1>22, <2>1 DEF TypeOK, rowVars, StopSlot
<1>23. ASSUME NEW m \in Manuals, NEW e \in Entries, ManualRead(m, e)
      PROVE TypeOK'
  <2>1. exec' \in [Executors -> Exec]
    BY <1>23 DEF TypeOK, ManualRead, Exec, Executors, PendingOf
  <2>2. requests' \in Nat
    BY <1>23 DEF TypeOK, ManualRead
  <2> QED
    BY <1>23, <2>1, <2>2 DEF TypeOK, rowVars, ManualRead
<1>24. ASSUME NEW m \in Manuals, NEW r \in RunIds, ManualClaim(m, r)
      PROVE TypeOK'
  <2>1. status' \in [RunIds -> Status]
    BY <1>24 DEF TypeOK, ManualClaim, Status, ClaimRow
  <2>2. settled' \in [RunIds -> BOOLEAN]
    BY <1>24 DEF TypeOK, ManualClaim, ClaimRow
  <2>3. exec' \in [Executors -> Exec]
    BY <1>24 DEF TypeOK, ManualClaim, Exec, Executors
  <2> QED
    BY <1>24, <2>1, <2>2, <2>3 DEF TypeOK, rowVars, ManualClaim,
       ClaimRow
<1>25. ASSUME NEW m \in Manuals, NEW r \in RunIds, ManualInsert(m, r)
      PROVE TypeOK'
  <2>1. status' \in [RunIds -> Status]
    BY <1>25 DEF TypeOK, ManualInsert, Status, InsertRow
  <2>2. entryOf' \in [RunIds -> Entries \cup {NoEntry}]
    BY <1>25 DEF TypeOK, ManualInsert, InsertRow, Exec, Executors
  <2>3. exec' \in [Executors -> Exec]
    BY <1>25, ManualFrame
  <2> QED
    BY <1>25, <2>1, <2>2, <2>3 DEF TypeOK, rowVars, ManualInsert,
       InsertRow
<1>26. ASSUME NEW m \in Manuals, CrashManual(m) PROVE TypeOK'
  <2>1. exec' \in [Executors -> Exec]
    BY <1>26 DEF TypeOK, CrashManual, Exec, Executors, OffExec
  <2>2. faults' \in Nat
    BY <1>26 DEF TypeOK, CrashManual
  <2> QED
    BY <1>26, <2>1, <2>2 DEF TypeOK, rowVars, CrashManual
<1>27. ASSUME NEW x \in Executors, LoadBundle(x) PROVE TypeOK'
  <2>1. loaded' \in [RunIds -> BOOLEAN]
    BY <1>27 DEF TypeOK, LoadBundle
  <2>2. missed' \in [RunIds -> SUBSET Kinds]
    BY <1>27 DEF TypeOK, LoadBundle, Kinds
  <2>3. exec' \in [Executors -> Exec]
    BY <1>27 DEF TypeOK, LoadBundle, Exec, Executors
  <2> QED
    BY <1>27, <2>1, <2>2, <2>3 DEF TypeOK, rowVars, LoadBundle
<1>28. ASSUME NEW x \in Executors, LoadFails(x) PROVE TypeOK'
  <2>1. status' \in [RunIds -> Status]
    BY <1>28 DEF TypeOK, LoadFails, Status
  <2>2. exec' \in [Executors -> Exec]
    BY <1>28 DEF TypeOK, LoadFails, Exec, Executors, AfterRow, OffExec
  <2>3. faults' \in Nat
    BY <1>28 DEF TypeOK, LoadFails
  <2> QED
    BY <1>28, <2>1, <2>2, <2>3 DEF TypeOK, rowVars, LoadFails
<1>29. ASSUME NEW x \in Executors, RecordThrows(x) PROVE TypeOK'
  <2>1. exec' \in [Executors -> Exec]
    BY <1>29 DEF TypeOK, RecordThrows, Exec, Executors, OffExec
  <2>2. faults' \in Nat
    BY <1>29 DEF TypeOK, RecordThrows
  <2> QED
    BY <1>29, <2>1, <2>2 DEF TypeOK, rowVars, RecordThrows
<1>30. ASSUME NEW x \in Executors, NEW o \in {"succeeded", "failed"}, RecordResult(x, o)
      PROVE TypeOK'
  <2>1. status' \in [RunIds -> Status]
    BY <1>30 DEF TypeOK, RecordResult, Status
  <2>2. exec' \in [Executors -> Exec]
    BY <1>30 DEF TypeOK, RecordResult, Exec, Executors, AfterRow, OffExec
  <2> QED
    BY <1>30, <2>1, <2>2 DEF TypeOK, rowVars, RecordResult
<1>31. ASSUME NEW r \in RunIds, Settle(r) PROVE TypeOK'
  <2>1. settled' \in [RunIds -> BOOLEAN]
    BY <1>31 DEF TypeOK, Settle
  <2> QED
    BY <1>31, <2>1 DEF TypeOK, rowVars, Settle
<1>32. ASSUME NEW r \in RunIds, Expire(r) PROVE TypeOK'
  <2>1. expired' \in [RunIds -> BOOLEAN]
    BY <1>32 DEF TypeOK, Expire
  <2> QED
    BY <1>32, <2>1 DEF TypeOK, rowVars, Expire
<1>33. CASE UNCHANGED vars
  BY <1>33 DEF TypeOK, vars, rowVars
<1> QED
  BY <1>1, <1>2, <1>3, <1>4, <1>5, <1>6, <1>7, <1>8, <1>9, <1>10, <1>11,
       <1>12, <1>13, <1>14, <1>15, <1>16, <1>17, <1>18, <1>19, <1>20,
       <1>21, <1>22, <1>23, <1>24, <1>25, <1>26, <1>27, <1>28, <1>29,
       <1>30, <1>31, <1>32, <1>33, <1>34
  DEF Next, ChangerStep, QueueStep, SweepStep, PullStep, ManualStep,
      ExecuteStep

-----------------------------------------------------------------------------
(* Held rows.                                                              *)

\* A row that an executor holds is running, inside its cutoff and held by no
\* other executor, and every step keeps it so: the guarded claim, the reclaim of
\* expired rows only and the release with the outcome carry the argument.
LEMMA HeldStep ==
  TypeOK /\ HeldRunning /\ SoleRunner /\ ExpiredRunning /\ [Next]_vars
    => (HeldRunning /\ SoleRunner /\ ExpiredRunning)'
<1> DEFINE Held == HeldRunning /\ SoleRunner /\ ExpiredRunning
<1> SUFFICES ASSUME TypeOK, Held, [Next]_vars PROVE Held'
  OBVIOUS
<1> USE DEF HeldRunning, SoleRunner, ExpiredRunning, Holding
<1>q. CASE UNCHANGED <<status, expired, exec>>
  BY <1>q
<1>1. ASSUME NEW c \in Changers, CommitTariff(c) PROVE Held'
  <2>1. \A r \in RunIds : status[r] # "absent" => status'[r] = status[r]
    BY <1>1 DEF CommitTariff, Present
  <2>2. UNCHANGED <<expired, exec>>
    BY <1>1 DEF CommitTariff
  <2> QED
    BY <2>1, <2>2
<1>2. ASSUME NEW c \in Callers, NEW e \in Entries, NEW r \in RunIds,
             InsertPending(c, e, r)
      PROVE Held'
  BY <1>2 DEF InsertPending, InsertRow, Fresh, Present, TypeOK
<1>3. ASSUME NEW d \in Drains, ReclaimExpired(d) PROVE Held'
  <2>1. /\ \A r \in RunIds : ~expired[r] => status'[r] = status[r]
        /\ \A r \in RunIds : expired'[r] => expired[r] /\ status[r] # "running"
    BY <1>3 DEF ReclaimExpired, TypeOK
  <2>2. UNCHANGED exec
    BY <1>3 DEF ReclaimExpired
  <2> QED
    BY <2>1, <2>2 DEF TypeOK
<1>4. ASSUME NEW d \in Drains, ListPending(d) PROVE Held'
  <2>1. /\ UNCHANGED <<status, expired>>
        /\ \A x \in Executors : exec'[x].run = exec[x].run
        /\ \A x \in Executors : exec'[x].pc \in {exec[x].pc, "start"}
    BY <1>4 DEF ListPending, rowVars, TypeOK, Exec
  <2> QED
    BY <2>1
<1>5. ASSUME NEW d \in Drains, CrashDrain(d) PROVE Held'
  <2>1. /\ UNCHANGED <<status, expired>>
        /\ \A x \in Executors : exec'[x] \in {exec[x], OffExec}
    BY <1>5 DEF CrashDrain, rowVars
  <2> QED
    BY <2>1 DEF OffExec
<1>6. ASSUME NEW d \in Drains, NEW s \in Slots, NEW r \in RunIds, ClaimListed(d, s, r)
      PROVE Held'
  <2>1. /\ status' = [status EXCEPT ![r] = "running"]
        /\ UNCHANGED expired
        /\ status[r] = "pending"
    BY <1>6 DEF ClaimListed, ClaimRow, Pending
  <2>2. /\ \A x \in Executors : x # <<d, s>> => exec'[x] = exec[x]
        /\ <<d, s>> \in Executors
        /\ exec'[<<d, s>>].run = r
    BY <1>6 DEF ClaimListed, TypeOK, Exec, Executors
  <2> QED
    BY <2>1, <2>2 DEF TypeOK
<1>7. ASSUME NEW d \in Drains, NEW s \in Slots, NEW r \in RunIds, SkipListed(d, s, r)
      PROVE Held'
  <2>1. /\ UNCHANGED <<status, expired>>
        /\ \A x \in Executors : x # <<d, s>> => exec'[x] = exec[x]
        /\ <<d, s>> \in Executors
        /\ exec'[<<d, s>>].pc = "pull"
    BY <1>7 DEF SkipListed, rowVars, TypeOK, Exec, Executors
  <2> QED
    BY <2>1
<1>8. ASSUME NEW d \in Drains, NEW s \in Slots, StopSlot(d, s) PROVE Held'
  <2>1. /\ UNCHANGED <<status, expired>>
        /\ \A x \in Executors : x # <<d, s>> => exec'[x] = exec[x]
        /\ <<d, s>> \in Executors
        /\ exec'[<<d, s>>].pc = "off"
    BY <1>8 DEF StopSlot, rowVars, TypeOK, Exec, Executors
  <2> QED
    BY <2>1
<1>9. ASSUME NEW m \in Manuals, NEW e \in Entries, ManualRead(m, e) PROVE Held'
  <2>1. /\ UNCHANGED <<status, expired>>
        /\ \A x \in Executors : x # m => exec'[x] = exec[x]
        /\ m \in Executors
        /\ exec'[m].pc = "read"
    BY <1>9 DEF ManualRead, rowVars, TypeOK, Exec, Executors
  <2> QED
    BY <2>1
<1>10. ASSUME NEW m \in Manuals, NEW r \in RunIds, ManualClaim(m, r) PROVE Held'
  <2>1. /\ status' = [status EXCEPT ![r] = "running"]
        /\ UNCHANGED expired
        /\ status[r] = "pending"
    BY <1>10 DEF ManualClaim, ClaimRow, Pending
  <2>2. /\ \A x \in Executors : x # m => exec'[x] = exec[x]
        /\ m \in Executors
        /\ exec'[m].run = r
    BY <1>10 DEF ManualClaim, TypeOK, Exec, Executors
  <2> QED
    BY <2>1, <2>2 DEF TypeOK
<1>11. ASSUME NEW m \in Manuals, NEW r \in RunIds, ManualInsert(m, r) PROVE Held'
  <2>1. /\ status' = [status EXCEPT ![r] = "running"]
        /\ UNCHANGED expired
        /\ status[r] = "absent"
    BY <1>11 DEF ManualInsert, InsertRow, Fresh, Present
  <2>2. /\ \A x \in Executors : x # m => exec'[x] = exec[x]
        /\ m \in Executors
        /\ exec'[m].run = r
    BY <1>11 DEF ManualInsert, TypeOK, Exec, Executors
  <2> QED
    BY <2>1, <2>2 DEF TypeOK
<1>12. ASSUME NEW m \in Manuals, CrashManual(m) PROVE Held'
  <2>1. /\ UNCHANGED <<status, expired>>
        /\ \A x \in Executors : exec'[x] \in {exec[x], OffExec}
    BY <1>12 DEF CrashManual, rowVars, TypeOK
  <2> QED
    BY <2>1 DEF OffExec
<1>13. ASSUME NEW x \in Executors, LoadBundle(x) PROVE Held'
  <2>1. /\ UNCHANGED <<status, expired>>
        /\ \A y \in Executors : exec'[y].run = exec[y].run
        /\ \A y \in Executors : y # x => exec'[y].pc = exec[y].pc
        /\ exec[x].pc = "claimed"
    BY <1>13 DEF LoadBundle, TypeOK, Exec
  <2> QED
    BY <2>1
<1>14. ASSUME NEW x \in Executors, NEW o \in {"succeeded", "failed"},
              LoadFails(x) \/ RecordResult(x, o)
       PROVE Held'
  <2>1. PICK p \in Status : /\ status' = [status EXCEPT ![exec[x].run] = p]
                            /\ p # "running"
    BY <1>14 DEF LoadFails, RecordResult, Status
  <2>2. /\ UNCHANGED expired
        /\ \A y \in Executors : y # x => exec'[y] = exec[y]
        /\ exec'[x].pc \in {"off", "pull"}
        /\ exec[x].pc \in {"claimed", "loaded"}
    BY <1>14 DEF LoadFails, RecordResult, AfterRow, OffExec, TypeOK
  <2> QED
    BY <2>1, <2>2 DEF TypeOK
<1>15. ASSUME NEW x \in Executors, RecordThrows(x) PROVE Held'
  <2>1. /\ UNCHANGED <<status, expired>>
        /\ \A y \in Executors : exec'[y] \in {exec[y], OffExec}
    BY <1>15 DEF RecordThrows, rowVars, TypeOK
  <2> QED
    BY <2>1 DEF OffExec
<1>16. ASSUME NEW r \in RunIds, Expire(r) PROVE Held'
  BY <1>16 DEF Expire, TypeOK
<1>17. \/ UNCHANGED <<status, expired, exec>>
       \/ \E c \in Changers : CommitTariff(c)
       \/ \E c \in Callers, e \in Entries, r \in RunIds : InsertPending(c, e, r)
       \/ \E d \in Drains : ReclaimExpired(d) \/ ListPending(d) \/ CrashDrain(d)
       \/ \E d \in Drains, s \in Slots, r \in RunIds :
            ClaimListed(d, s, r) \/ SkipListed(d, s, r)
       \/ \E d \in Drains, s \in Slots : StopSlot(d, s)
       \/ \E m \in Manuals : \/ CrashManual(m)
                             \/ \E e \in Entries : ManualRead(m, e)
                             \/ \E r \in RunIds : ManualClaim(m, r) \/ ManualInsert(m, r)
       \/ \E x \in Executors : ExecuteStep(x)
       \/ \E r \in RunIds : Expire(r)
  BY DEF Next, vars, rowVars, ChangerStep, QueueStep, SweepStep, PullStep, ManualStep,
         LinkDocument, ChangeRule, ApplyTariff, SelectAnalyzed, StartAfterResponseDrain,
         CrashChanger, TouchPending, InsertConflict, InsertInTransaction, Queued,
         StartSweep, CountDeaths, RequeueReclaimed, SeedUnanalyzed, EndDrain, Settle
<1> QED
  BY <1>q, <1>1, <1>2, <1>3, <1>4, <1>5, <1>6, <1>7, <1>8, <1>9, <1>10, <1>11,
     <1>12, <1>13, <1>14, <1>15, <1>16, <1>17 DEF ExecuteStep

-----------------------------------------------------------------------------
(* One pending row per entry.                                              *)

\* The step makes no row pending.
NoNewPending ==
  \A r \in RunIds : Pending(r)' => Pending(r) /\ entryOf'[r] = entryOf[r]

\* The step inserts no row inside a transaction.
NoNewReservation ==
  \A c \in Changers : queuing'[c].kind = "tariff" =>
    \/ queuing'[c].inserted = {}
    \/ queuing[c].kind = "tariff" /\ queuing'[c].inserted = queuing[c].inserted

\* The step leaves each frame's inserted rows alone or drops them.
FramesKept ==
  \A c \in Callers :
    \/ queuing'[c].inserted = {}
    \/ queuing'[c].kind = queuing[c].kind /\ queuing'[c].inserted = queuing[c].inserted

\* A step that makes no row pending and inserts none keeps at most one pending
\* row per entry.
LEMMA PendingKept ==
  OnePending /\ Uncommitted /\ NoNewPending /\ NoNewReservation
    => (OnePending /\ Uncommitted)'
<1> SUFFICES ASSUME OnePending, Uncommitted, NoNewPending, NoNewReservation
             PROVE (OnePending /\ Uncommitted)'
  OBVIOUS
<1>1. OnePending'
  BY DEF OnePending, NoNewPending
<1>2. ASSUME NEW c \in Changers, queuing'[c].kind = "tariff",
             NEW e \in queuing'[c].inserted
      PROVE (PendingOf(e) = {} /\ ~ReservedByOther(c, e))'
  <2>1. queuing[c].kind = "tariff" /\ e \in queuing[c].inserted
    BY <1>2 DEF NoNewReservation
  <2>2. PendingOf(e) = {} /\ ~ReservedByOther(c, e)
    BY <2>1 DEF Uncommitted
  <2>3. PendingOf(e)' = {}
    BY <2>2 DEF PendingOf, NoNewPending
  <2>4. ~ReservedByOther(c, e)'
    BY <2>2 DEF ReservedByOther, NoNewReservation
  <2> QED
    BY <2>3, <2>4
<1> QED
  BY <1>1, <1>2 DEF Uncommitted

\* Every step keeps at most one pending row per entry, the rows an apply
\* transaction has inserted and not committed counted in (the unique index).
LEMMA PendingStep ==
  TypeOK /\ QueueShape /\ OnePending /\ Uncommitted /\ [Next]_vars
    => (OnePending /\ Uncommitted)'
<1> SUFFICES ASSUME TypeOK, QueueShape, OnePending, Uncommitted, [Next]_vars
             PROVE (OnePending /\ Uncommitted)'
  OBVIOUS
<1>t. /\ queuing \in [Callers -> Call]
      /\ status \in [RunIds -> Status] /\ entryOf \in [RunIds -> Entries \cup {NoEntry}]
      /\ Changers \subseteq Callers
  BY DEF TypeOK, Callers
<1>1. ASSUME NEW c \in Callers, NEW e \in Entries, NEW r \in RunIds,
             InsertPending(c, e, r)
      PROVE (OnePending /\ Uncommitted)'
  <2>1. /\ status' = [status EXCEPT ![r] = "pending"]
        /\ entryOf' = [entryOf EXCEPT ![r] = e]
        /\ PendingOf(e) = {}
        /\ \A d \in Changers \ {c} : queuing[d].kind = "tariff" => e \notin queuing[d].inserted
        /\ queuing[c].kind # "tariff"
    BY <1>1 DEF InsertPending, InsertRow, ReservedByOther
  <2>2. /\ \A d \in Callers : queuing'[d].kind = queuing[d].kind
        /\ \A d \in Callers : d # c => queuing'[d].inserted = queuing[d].inserted
    BY <1>1, <1>t DEF InsertPending, Call
  <2>3. OnePending'
    BY <2>1, <1>t DEF OnePending, Pending, PendingOf
  <2>4. ASSUME NEW d \in Changers, queuing'[d].kind = "tariff",
               NEW f \in queuing'[d].inserted
        PROVE (PendingOf(f) = {} /\ ~ReservedByOther(d, f))'
    <3>1. d # c /\ queuing[d].kind = "tariff" /\ f \in queuing[d].inserted /\ f # e
      BY <2>1, <2>2, <2>4, <1>t
    <3>2. PendingOf(f) = {} /\ ~ReservedByOther(d, f)
      BY <3>1 DEF Uncommitted
    <3>3. PendingOf(f)' = {}
      BY <3>1, <3>2, <2>1, <1>t DEF PendingOf, Pending
    <3>4. ~ReservedByOther(d, f)'
      BY <3>2, <2>1, <2>2, <1>t DEF ReservedByOther
    <3> QED
      BY <3>3, <3>4
  <2> QED
    BY <2>3, <2>4 DEF Uncommitted
<1>2. ASSUME NEW c \in Callers, NEW e \in Entries, InsertInTransaction(c, e)
      PROVE (OnePending /\ Uncommitted)'
  <2>1. /\ UNCHANGED <<status, entryOf>>
        /\ PendingOf(e) = {}
        /\ \A d \in Changers \ {c} : queuing[d].kind = "tariff" => e \notin queuing[d].inserted
    BY <1>2 DEF InsertInTransaction, rowVars, ReservedByOther
  <2>2. /\ \A d \in Callers : queuing'[d].kind = queuing[d].kind
        /\ \A d \in Callers : d # c => queuing'[d].inserted = queuing[d].inserted
        /\ queuing'[c].inserted = queuing[c].inserted \cup {e}
    BY <1>2, <1>t DEF InsertInTransaction, Call
  <2>3. OnePending'
    BY <2>1 DEF OnePending, Pending
  <2>4. ASSUME NEW d \in Changers, queuing'[d].kind = "tariff",
               NEW f \in queuing'[d].inserted
        PROVE (PendingOf(f) = {} /\ ~ReservedByOther(d, f))'
    <3>1. PendingOf(f)' = PendingOf(f)
      BY <2>1 DEF PendingOf, Pending
    <3>2. CASE f \in queuing[d].inserted
      <4>1. PendingOf(f) = {} /\ ~ReservedByOther(d, f)
        BY <3>2, <2>4, <2>2, <1>t DEF Uncommitted
      <4>2. d = c \/ f # e
        BY <3>2, <2>4, <2>1, <2>2, <1>t
      <4>3. ~ReservedByOther(d, f)'
        BY <4>1, <4>2, <2>2, <1>t DEF ReservedByOther
      <4> QED
        BY <3>1, <4>1, <4>3
    <3>3. CASE f \notin queuing[d].inserted
      <4>1. d = c /\ f = e
        BY <3>3, <2>4, <2>2, <1>t
      <4>2. ~ReservedByOther(d, f)'
        BY <4>1, <2>1, <2>2, <1>t DEF ReservedByOther
      <4> QED
        BY <3>1, <4>1, <4>2, <2>1
    <3> QED
      BY <3>2, <3>3
  <2> QED
    BY <2>3, <2>4 DEF Uncommitted
<1>3. ASSUME NEW c \in Changers, CommitTariff(c) PROVE (OnePending /\ Uncommitted)'
  <2> DEFINE E == queuing[c].inserted
  <2>1. PICK id \in [E -> {r \in RunIds : ~Present(r)}] :
          /\ \A e, f \in E : id[e] = id[f] => e = f
          /\ status' = [r \in RunIds |->
               IF \E e \in E : id[e] = r THEN "pending" ELSE status[r]]
          /\ entryOf' = [r \in RunIds |->
               IF \E e \in E : id[e] = r
                 THEN CHOOSE e \in E : id[e] = r ELSE entryOf[r]]
    BY <1>3 DEF CommitTariff
  <2>2. \A d \in Callers : d # c => queuing'[d] = queuing[d]
    BY <1>3, <1>t DEF CommitTariff
  <2>3. queuing'[c].inserted = {}
    BY <1>3, <1>t DEF CommitTariff, AfterResponse, IdleCall
  <2>k. queuing[c].kind = "tariff"
    BY <1>3 DEF CommitTariff, QueueShape
  <2>4. \A e \in E : PendingOf(e) = {} /\ ~ReservedByOther(c, e)
    BY <2>k DEF Uncommitted
  <2>5. \A r \in RunIds : Pending(r)' =>
          \/ r \notin {id[e] : e \in E} /\ Pending(r) /\ entryOf'[r] = entryOf[r]
          \/ entryOf'[r] \in E /\ id[entryOf'[r]] = r
    BY <2>1 DEF Pending
  <2>6. OnePending'
    <3> SUFFICES ASSUME NEW r \in RunIds, NEW q \in RunIds, Pending(r)', Pending(q)',
                        entryOf'[r] = entryOf'[q]
                 PROVE r = q
      BY DEF OnePending
    <3> QED
      BY <2>5, <2>4 DEF OnePending, PendingOf
  <2>7. ASSUME NEW d \in Changers, queuing'[d].kind = "tariff",
               NEW f \in queuing'[d].inserted
        PROVE (PendingOf(f) = {} /\ ~ReservedByOther(d, f))'
    <3>1. d # c /\ queuing[d].kind = "tariff" /\ f \in queuing[d].inserted
      BY <2>2, <2>3, <2>7, <1>t
    <3>2. PendingOf(f) = {} /\ ~ReservedByOther(d, f) /\ f \notin E
      BY <3>1, <2>4, <2>k DEF Uncommitted, ReservedByOther
    <3>3. PendingOf(f)' = {}
      BY <3>2, <2>5 DEF PendingOf
    <3>4. ~ReservedByOther(d, f)'
      BY <3>2, <2>2, <2>3, <1>t DEF ReservedByOther
    <3> QED
      BY <3>3, <3>4
  <2> QED
    BY <2>6, <2>7 DEF Uncommitted
<1>4. ASSUME NEW m \in Manuals, NEW r \in RunIds, ManualInsert(m, r)
      PROVE (OnePending /\ Uncommitted)'
  BY <1>4, <1>t, PendingKept DEF ManualInsert, InsertRow, NoNewPending, NoNewReservation, Pending
<1>5. ASSUME NEW d \in Drains, ReclaimExpired(d) PROVE (OnePending /\ Uncommitted)'
  BY <1>5, <1>t, PendingKept DEF ReclaimExpired, NoNewPending, NoNewReservation, Pending
<1>6. ASSUME NEW r \in RunIds, ClaimRow(r), UNCHANGED queuing
      PROVE (OnePending /\ Uncommitted)'
  BY <1>6, <1>t, PendingKept DEF ClaimRow, NoNewPending, NoNewReservation, Pending
<1>7. ASSUME NEW x \in Executors, NEW o \in {"succeeded", "failed"},
             LoadFails(x) \/ RecordResult(x, o)
      PROVE (OnePending /\ Uncommitted)'
  BY <1>7, <1>t, PendingKept DEF LoadFails, RecordResult, NoNewPending, NoNewReservation, Pending
<1>8. ASSUME UNCHANGED <<status, entryOf, queuing>> PROVE (OnePending /\ Uncommitted)'
  BY <1>8, PendingKept DEF NoNewPending, NoNewReservation, Pending
<1>9. ASSUME UNCHANGED <<status, entryOf>>, FramesKept PROVE (OnePending /\ Uncommitted)'
  BY <1>9, <1>t, PendingKept DEF NoNewPending, NoNewReservation, FramesKept, Pending
<1>10. ASSUME NEW c \in Changers, NEW E \in SUBSET Entries, LinkDocument(c, E)
       PROVE UNCHANGED <<status, entryOf>> /\ FramesKept
  BY <1>10, <1>t DEF LinkDocument, FramesKept, rowVars, Call, IdleCall
<1>11. ASSUME NEW c \in Changers, NEW E \in SUBSET Entries, ChangeRule(c, E)
       PROVE UNCHANGED <<status, entryOf>> /\ FramesKept
  BY <1>11, <1>t DEF ChangeRule, FramesKept, rowVars, Call, IdleCall
<1>12. ASSUME NEW c \in Changers, NEW E \in SUBSET Entries, ApplyTariff(c, E)
       PROVE UNCHANGED <<status, entryOf>> /\ FramesKept
  BY <1>12, <1>t DEF ApplyTariff, FramesKept, rowVars, Call, IdleCall
<1>13. ASSUME NEW c \in Changers, SelectAnalyzed(c)
       PROVE UNCHANGED <<status, entryOf>> /\ FramesKept
  BY <1>13, <1>t DEF SelectAnalyzed, FramesKept, rowVars, Call
<1>14. ASSUME NEW c \in Changers, NEW d \in Drains, StartAfterResponseDrain(c, d)
       PROVE UNCHANGED <<status, entryOf>> /\ FramesKept
  BY <1>14, <1>t DEF StartAfterResponseDrain, FramesKept, rowVars, Call, IdleCall
<1>15. ASSUME NEW c \in Changers, CrashChanger(c)
       PROVE UNCHANGED <<status, entryOf>> /\ FramesKept
  BY <1>15, <1>t DEF CrashChanger, FramesKept, rowVars, Call, IdleCall
<1>16. ASSUME NEW c \in Callers, TouchPending(c)
       PROVE UNCHANGED <<status, entryOf>> /\ FramesKept
  BY <1>16, <1>t DEF TouchPending, FramesKept, rowVars, Call
<1>17. ASSUME NEW c \in Callers, NEW e \in Entries, InsertConflict(c, e)
       PROVE UNCHANGED <<status, entryOf>> /\ FramesKept
  BY <1>17, <1>t DEF InsertConflict, FramesKept, rowVars, Call
<1>18. ASSUME NEW c \in Callers, Queued(c)
       PROVE UNCHANGED <<status, entryOf>> /\ FramesKept
  BY <1>18, <1>t DEF Queued, FramesKept, rowVars, Call, IdleCall, AfterResponse
<1>19. ASSUME NEW d \in Drains, NEW rows \in SUBSET RunIds, RequeueReclaimed(d, rows)
       PROVE UNCHANGED <<status, entryOf>> /\ FramesKept
  BY <1>19, <1>t DEF RequeueReclaimed, FramesKept, rowVars, Call, IdleCall
<1>20. ASSUME NEW d \in Drains, SeedUnanalyzed(d)
       PROVE UNCHANGED <<status, entryOf>> /\ FramesKept
  BY <1>20, <1>t DEF SeedUnanalyzed, FramesKept, rowVars, Call, IdleCall
<1>21. ASSUME NEW d \in Drains, CrashDrain(d)
       PROVE UNCHANGED <<status, entryOf>> /\ FramesKept
  BY <1>21, <1>t DEF CrashDrain, FramesKept, rowVars, Call, IdleCall
<1>22. ASSUME NEW c \in Changers, ChangerStep(c) \/ CrashChanger(c)
       PROVE (OnePending /\ Uncommitted)'
  BY <1>3, <1>9, <1>10, <1>11, <1>12, <1>13, <1>14, <1>15, <1>22 DEF ChangerStep
<1>23. ASSUME NEW c \in Callers, QueueStep(c) PROVE (OnePending /\ Uncommitted)'
  BY <1>1, <1>2, <1>9, <1>16, <1>17, <1>18, <1>23 DEF QueueStep
<1>24. ASSUME NEW d \in Drains, SweepStep(d) \/ CrashDrain(d)
       PROVE (OnePending /\ Uncommitted)'
  <2>1. StartSweep(d) \/ CountDeaths(d) \/ ListPending(d) \/ EndDrain(d)
          => UNCHANGED <<status, entryOf, queuing>>
    BY DEF StartSweep, CountDeaths, ListPending, EndDrain, rowVars
  <2> QED
    BY <1>5, <1>8, <1>9, <1>19, <1>20, <1>21, <1>24, <2>1 DEF SweepStep
<1>25. ASSUME NEW d \in Drains, NEW s \in Slots, PullStep(d, s)
       PROVE (OnePending /\ Uncommitted)'
  BY <1>6, <1>8, <1>25 DEF PullStep, ClaimListed, SkipListed, StopSlot, rowVars
<1>26. ASSUME NEW m \in Manuals, ManualStep(m) \/ CrashManual(m)
       PROVE (OnePending /\ Uncommitted)'
  BY <1>4, <1>6, <1>8, <1>26 DEF ManualStep, ManualRead, ManualClaim, CrashManual, rowVars
<1>27. ASSUME NEW x \in Executors, ExecuteStep(x) PROVE (OnePending /\ Uncommitted)'
  <2>1. LoadBundle(x) \/ RecordThrows(x) => UNCHANGED <<status, entryOf, queuing>>
    BY DEF LoadBundle, RecordThrows, rowVars
  <2> QED
    BY <1>7, <1>8, <1>27, <2>1 DEF ExecuteStep
<1>28. ASSUME NEW r \in RunIds, Settle(r) \/ Expire(r) PROVE (OnePending /\ Uncommitted)'
  BY <1>8, <1>28 DEF Settle, Expire
<1>29. CASE UNCHANGED vars
  BY <1>8, <1>29 DEF vars, rowVars
<1> QED
  BY <1>22, <1>23, <1>24, <1>25, <1>26, <1>27, <1>28, <1>29 DEF Next

-----------------------------------------------------------------------------
(* What has ended stays as it ended.                                       *)

\* A step leaves the outcome of a finished row alone: the writers by id
\* (recordAnalysisResult, the failed load) hold a running row.
LEMMA OutcomeKept ==
  ASSUME TypeOK, HeldRunning, [Next]_vars, NEW r \in RunIds, status[r] \in Terminal
  PROVE  status'[r] = status[r]
<1> USE DEF Terminal
<1>1. ASSUME NEW c \in Changers, CommitTariff(c) PROVE status'[r] = status[r]
  BY <1>1 DEF CommitTariff, Present
<1>2. ASSUME NEW c \in Callers, NEW e \in Entries, NEW q \in RunIds,
             InsertPending(c, e, q)
      PROVE status'[r] = status[r]
  BY <1>2 DEF InsertPending, InsertRow, Fresh, Present, TypeOK
<1>3. ASSUME NEW m \in Manuals, NEW q \in RunIds, ManualInsert(m, q)
      PROVE status'[r] = status[r]
  BY <1>3 DEF ManualInsert, InsertRow, Fresh, Present, TypeOK
<1>4. ASSUME NEW d \in Drains, ReclaimExpired(d) PROVE status'[r] = status[r]
  BY <1>4 DEF ReclaimExpired, TypeOK
<1>5. ASSUME NEW q \in RunIds, ClaimRow(q) PROVE status'[r] = status[r]
  BY <1>5 DEF ClaimRow, Pending, TypeOK
<1>6. ASSUME NEW x \in Executors, NEW o \in {"succeeded", "failed"},
             LoadFails(x) \/ RecordResult(x, o)
      PROVE status'[r] = status[r]
  BY <1>6 DEF LoadFails, RecordResult, HeldRunning, Holding, TypeOK
<1>7. ASSUME UNCHANGED status PROVE status'[r] = status[r]
  BY <1>7
<1>8. ASSUME NEW c \in Changers, ChangerStep(c) \/ CrashChanger(c)
      PROVE status'[r] = status[r]
  BY <1>1, <1>7, <1>8 DEF ChangerStep, LinkDocument, ChangeRule, ApplyTariff,
     SelectAnalyzed, StartAfterResponseDrain, CrashChanger, rowVars
<1>9. ASSUME NEW c \in Callers, QueueStep(c) PROVE status'[r] = status[r]
  BY <1>2, <1>7, <1>9 DEF QueueStep, TouchPending, InsertConflict,
     InsertInTransaction, Queued, rowVars
<1>10. ASSUME NEW d \in Drains, SweepStep(d) \/ CrashDrain(d)
       PROVE status'[r] = status[r]
  BY <1>4, <1>7, <1>10 DEF SweepStep, StartSweep, CountDeaths, RequeueReclaimed,
     SeedUnanalyzed, ListPending, EndDrain, CrashDrain, rowVars
<1>11. ASSUME NEW d \in Drains, NEW s \in Slots, PullStep(d, s)
       PROVE status'[r] = status[r]
  BY <1>5, <1>7, <1>11 DEF PullStep, ClaimListed, SkipListed, StopSlot, rowVars
<1>12. ASSUME NEW m \in Manuals, ManualStep(m) \/ CrashManual(m)
       PROVE status'[r] = status[r]
  BY <1>3, <1>5, <1>7, <1>12 DEF ManualStep, ManualRead, ManualClaim,
     CrashManual, rowVars
<1>13. ASSUME NEW x \in Executors, ExecuteStep(x) PROVE status'[r] = status[r]
  BY <1>6, <1>7, <1>13 DEF ExecuteStep, LoadBundle, RecordThrows, rowVars
<1>14. ASSUME NEW q \in RunIds, Settle(q) \/ Expire(q) PROVE status'[r] = status[r]
  BY <1>7, <1>14 DEF Settle, Expire
<1>15. CASE UNCHANGED vars
  BY <1>7, <1>15 DEF vars, rowVars
<1> QED
  BY <1>8, <1>9, <1>10, <1>11, <1>12, <1>13, <1>14, <1>15 DEF Next

\* A dead run stays dead and keeps its entry: no writer by id holds it, and an
\* insert takes an absent row.
LEMMA DeadStay ==
  ASSUME TypeOK, HeldRunning, [Next]_vars, NEW e \in Entries \cup {NoEntry}
  PROVE  DeadRuns(e) \subseteq DeadRuns(e)'
<1> SUFFICES ASSUME NEW r \in RunIds, status[r] = "abandoned", entryOf[r] = e
             PROVE  status'[r] = "abandoned" /\ entryOf'[r] = e
  BY DEF DeadRuns
<1>1. status'[r] = "abandoned"
  BY OutcomeKept DEF Terminal
<1>2. ASSUME NEW q \in RunIds, NEW f \in Entries \cup {NoEntry},
             NEW s \in {"pending", "running"}, Fresh(q), InsertRow(q, f, s)
      PROVE  entryOf'[r] = e
  BY <1>2 DEF InsertRow, Fresh, Present, TypeOK
<1>3. ASSUME NEW c \in Changers, CommitTariff(c) PROVE entryOf'[r] = e
  BY <1>3 DEF CommitTariff, Present
<1>4. ASSUME UNCHANGED entryOf PROVE entryOf'[r] = e
  BY <1>4
<1>5. ASSUME NEW c \in Changers, ChangerStep(c) \/ CrashChanger(c)
      PROVE entryOf'[r] = e
  BY <1>3, <1>4, <1>5 DEF ChangerStep, LinkDocument, ChangeRule, ApplyTariff,
     SelectAnalyzed, StartAfterResponseDrain, CrashChanger, rowVars
<1>6. ASSUME NEW c \in Callers, QueueStep(c) PROVE entryOf'[r] = e
  BY <1>2, <1>4, <1>6 DEF QueueStep, TouchPending, InsertConflict, InsertPending,
     InsertInTransaction, Queued, rowVars
<1>7. ASSUME NEW d \in Drains, SweepStep(d) \/ CrashDrain(d) PROVE entryOf'[r] = e
  BY <1>4, <1>7 DEF SweepStep, StartSweep, ReclaimExpired, CountDeaths, RequeueReclaimed,
     SeedUnanalyzed, ListPending, EndDrain, CrashDrain, rowVars
<1>8. ASSUME NEW d \in Drains, NEW s \in Slots, PullStep(d, s) PROVE entryOf'[r] = e
  BY <1>4, <1>8 DEF PullStep, ClaimListed, ClaimRow, SkipListed, StopSlot, rowVars
<1>9. ASSUME NEW m \in Manuals, ManualStep(m) \/ CrashManual(m)
      PROVE entryOf'[r] = e
  <2>1. exec[m].entry \in Entries \cup {NoEntry}
    BY DEF TypeOK, Exec, Executors
  <2> QED
    BY <1>2, <1>4, <1>9, <2>1 DEF ManualStep, ManualRead, ManualClaim, ClaimRow,
       ManualInsert, CrashManual, rowVars
<1>10. ASSUME NEW x \in Executors, ExecuteStep(x) PROVE entryOf'[r] = e
  BY <1>4, <1>10 DEF ExecuteStep, LoadBundle, LoadFails, RecordThrows,
     RecordResult, rowVars
<1>11. ASSUME NEW q \in RunIds, Settle(q) \/ Expire(q) PROVE entryOf'[r] = e
  BY <1>4, <1>11 DEF Settle, Expire
<1>12. CASE UNCHANGED vars
  BY <1>4, <1>12 DEF vars, rowVars
<1> QED
  BY <1>1, <1>5, <1>6, <1>7, <1>8, <1>9, <1>10, <1>11, <1>12 DEF Next

\* The rows past the cutoff stay finitely many: time puts one more there at a
\* step. Only the reclaim makes a run abandoned, and only one of those rows.
LEMMA FewExpire ==
  ASSUME TypeOK, IsFiniteSet({r \in RunIds : expired[r]}), [Next]_vars
  PROVE  /\ IsFiniteSet({r \in RunIds : expired[r]})'
         /\ \A e \in Entries :
              DeadRuns(e)' \subseteq DeadRuns(e) \cup {r \in RunIds : expired[r]}
<1> DEFINE Late == {r \in RunIds : expired[r]}
           Goal == /\ IsFiniteSet(Late')
                   /\ \A r \in RunIds : status'[r] = "abandoned" =>
                        expired[r] \/ (status[r] = "abandoned" /\ entryOf'[r] = entryOf[r])
<1>s. SUFFICES Goal
  BY DEF DeadRuns
<1>t. TypeOK
  OBVIOUS
<1>1. ASSUME NEW q \in RunIds, Expire(q) PROVE Goal
  <2>1. Late' = Late \cup {q}
    BY <1>1, <1>t DEF Expire, TypeOK
  <2>2. IsFiniteSet(Late')
    BY <2>1, FS_AddElement
  <2> QED
    BY <1>1, <2>2 DEF Expire
<1>2. ASSUME NEW d \in Drains, ReclaimExpired(d) PROVE Goal
  <2>1. Late' \subseteq Late
    BY <1>2 DEF ReclaimExpired
  <2>2. IsFiniteSet(Late')
    BY <2>1, FS_Subset
  <2> QED
    BY <1>2, <2>2 DEF ReclaimExpired
<1>3. ASSUME UNCHANGED expired,
             \A r \in RunIds :
               \/ status'[r] \in {"pending", "running", "succeeded", "failed"}
               \/ status'[r] = status[r] /\ entryOf'[r] = entryOf[r]
      PROVE  Goal
  BY <1>3
<1>4. ASSUME UNCHANGED <<status, entryOf, expired>> PROVE Goal
  BY <1>3, <1>4
<1>5. ASSUME NEW q \in RunIds, NEW f, NEW s \in {"pending", "running"}, InsertRow(q, f, s)
      PROVE  Goal
  BY <1>3, <1>5, <1>t DEF InsertRow, TypeOK
<1>6. ASSUME NEW q \in RunIds, ClaimRow(q) PROVE Goal
  BY <1>3, <1>6, <1>t DEF ClaimRow, TypeOK
<1>7. ASSUME NEW c \in Changers, CommitTariff(c) PROVE Goal
  <2>1. UNCHANGED expired
    BY <1>7 DEF CommitTariff
  <2>2. \A r \in RunIds :
          status'[r] = "pending" \/ (status'[r] = status[r] /\ entryOf'[r] = entryOf[r])
    BY <1>7 DEF CommitTariff
  <2> QED
    BY <1>3, <2>1, <2>2
<1>8. ASSUME NEW x \in Executors, NEW o \in {"succeeded", "failed"},
             LoadFails(x) \/ RecordResult(x, o)
      PROVE  Goal
  BY <1>3, <1>8, <1>t DEF LoadFails, RecordResult, TypeOK
<1> HIDE DEF Goal
<1>9. ASSUME NEW c \in Changers, ChangerStep(c) \/ CrashChanger(c) PROVE Goal
  BY <1>4, <1>7, <1>9 DEF ChangerStep, LinkDocument, ChangeRule, ApplyTariff,
     SelectAnalyzed, StartAfterResponseDrain, CrashChanger, rowVars
<1>10. ASSUME NEW c \in Callers, QueueStep(c) PROVE Goal
  BY <1>4, <1>5, <1>10 DEF QueueStep, TouchPending, InsertConflict, InsertPending,
     InsertInTransaction, Queued, rowVars
<1>11. ASSUME NEW d \in Drains, SweepStep(d) \/ CrashDrain(d) PROVE Goal
  BY <1>2, <1>4, <1>11 DEF SweepStep, StartSweep, CountDeaths, RequeueReclaimed,
     SeedUnanalyzed, ListPending, EndDrain, CrashDrain, rowVars
<1>12. ASSUME NEW d \in Drains, NEW s \in Slots, PullStep(d, s) PROVE Goal
  BY <1>4, <1>6, <1>12 DEF PullStep, ClaimListed, SkipListed, StopSlot, rowVars
<1>13. ASSUME NEW m \in Manuals, ManualStep(m) \/ CrashManual(m) PROVE Goal
  BY <1>4, <1>5, <1>6, <1>13 DEF ManualStep, ManualRead, ManualClaim,
     ManualInsert, CrashManual, rowVars
<1>14. ASSUME NEW x \in Executors, ExecuteStep(x) PROVE Goal
  BY <1>4, <1>8, <1>14 DEF ExecuteStep, LoadBundle, RecordThrows, rowVars
<1>15. ASSUME NEW q \in RunIds, Settle(q) PROVE Goal
  BY <1>4, <1>15 DEF Settle
<1>16. CASE UNCHANGED vars
  BY <1>4, <1>16 DEF vars, rowVars
<1> QED
  BY <1>1, <1>9, <1>10, <1>11, <1>12, <1>13, <1>14, <1>15, <1>16 DEF Next
\* What is counted stays finite (FewDead).
LEMMA FewStep == TypeOK /\ FewDead /\ [Next]_vars => FewDead'
<1> SUFFICES ASSUME TypeOK, FewDead, [Next]_vars PROVE FewDead'
  OBVIOUS
<1> DEFINE Late == {r \in RunIds : expired[r]}
<1>1. IsFiniteSet(Late) /\ \A e \in Entries : IsFiniteSet(DeadRuns(e))
  BY DEF FewDead
<1>2. /\ IsFiniteSet(Late)'
      /\ \A e \in Entries : DeadRuns(e)' \subseteq DeadRuns(e) \cup Late
  BY <1>1, FewExpire
<1>3. ASSUME NEW e \in Entries PROVE IsFiniteSet(DeadRuns(e)')
  <2> HIDE DEF Late
  <2>1. IsFiniteSet(DeadRuns(e) \cup Late)
    BY <1>1, FS_Union
  <2> QED
    BY <1>2, <2>1, FS_Subset
<1> QED
  BY <1>2, <1>3 DEF FewDead

\* Deaths do not go back: a dead run stays dead and the dead are few.
LEMMA DeathsGrow ==
  ASSUME TypeOK, HeldRunning, FewDead, [Next]_vars, NEW e \in Entries
  PROVE  RetriesSpent(e) => RetriesSpent(e)'
<1>1. DeadRuns(e) \subseteq DeadRuns(e)'
  BY DeadStay
<1>2. IsFiniteSet(DeadRuns(e)')
  BY FewStep DEF FewDead
<1> DEFINE A == DeadRuns(e)  B == DeadRuns(e)'
<1>3. Cardinality(A) \in Nat /\ Cardinality(B) \in Nat /\ Cardinality(A) <= Cardinality(B)
  <2> HIDE DEF A, B
  <2> QED
    BY <1>1, <1>2, FS_Subset, FS_CardinalityType DEF A, B
<1> QED
  BY <1>3, BoundsAssumption DEF RetriesSpent, Deaths

\* The step gives no sweep a row it did not owe, and a sweep that goes on owing
\* one is where it was, or has counted the deaths.
DebtsKept ==
  \A d \in Drains :
    /\ drain'[d].reclaimed \subseteq drain[d].reclaimed
    /\ \/ drain'[d].reclaimed = {}
       \/ drain'[d].pc = drain[d].pc
       \/ CountDeaths(d) /\ drain'[d].pc = "requeue"

\* The step makes nobody re-queue, and a call that re-queues goes on or ends.
CallsKept ==
  \A c \in Callers : queuing'[c].kind = "requeue" =>
    /\ queuing[c].kind = "requeue"
    /\ queuing'[c].pc \in {"touch", "insert"}
    /\ queuing'[c].targets \subseteq queuing[c].targets

\* Every step but the reclaim leaves sweeps with rows they owed, and every step
\* but their re-queueing leaves the calls that re-queue as they are.
LEMMA DebtStep ==
  ASSUME TypeOK, QueueShape, ReclaimShape, [Next]_vars
  PROVE  /\ DebtsKept \/ \E d \in Drains : ReclaimExpired(d)
         /\ CallsKept \/ \E d \in Drains, rows \in SUBSET RunIds : RequeueReclaimed(d, rows)
<1>t. /\ queuing \in [Callers -> Call] /\ drain \in [Drains -> Drain]
      /\ Changers \subseteq Callers /\ Drains \subseteq Callers
      /\ \A d \in Drains : d \notin Changers
  BY ProcessesAssumption DEF TypeOK, Callers
<1>s. /\ \A d \in Drains :
           drain[d].reclaimed = {} \/ drain[d].pc \in {"deaths", "requeue"}
      /\ \A c \in Callers : queuing[c].kind = "requeue" =>
           c \in Drains /\ queuing[c].pc \in {"touch", "insert"}
  BY DEF ReclaimShape
<1>1. ASSUME UNCHANGED drain PROVE DebtsKept
  BY <1>1, <1>s DEF DebtsKept
<1>2. ASSUME UNCHANGED queuing PROVE CallsKept
  BY <1>2, <1>s DEF CallsKept
<1>3. ASSUME NEW d \in Drains, \A b \in Drains : b # d => drain'[b] = drain[b],
             drain'[d].reclaimed \subseteq drain[d].reclaimed,
             \/ drain'[d].reclaimed = {}
             \/ drain'[d].pc = drain[d].pc
             \/ CountDeaths(d) /\ drain'[d].pc = "requeue"
      PROVE DebtsKept
  BY <1>3, <1>s DEF DebtsKept
<1>4. ASSUME NEW c \in Callers, \A b \in Callers : b # c => queuing'[b] = queuing[b],
             \/ queuing'[c].kind # "requeue"
             \/ /\ queuing[c].kind = "requeue"
                /\ queuing'[c].pc \in {"touch", "insert"}
                /\ queuing'[c].targets \subseteq queuing[c].targets
      PROVE CallsKept
  BY <1>4, <1>s DEF CallsKept
<1>5. ASSUME NEW c \in Changers, ChangerStep(c) \/ CrashChanger(c)
      PROVE DebtsKept /\ CallsKept
  <2>1. ASSUME NEW E \in SUBSET Entries,
               LinkDocument(c, E) \/ ChangeRule(c, E) \/ ApplyTariff(c, E)
        PROVE DebtsKept /\ CallsKept
    BY <1>1, <1>4, <2>1, <1>t DEF LinkDocument, ChangeRule, ApplyTariff, IdleCall
  <2>2. ASSUME SelectAnalyzed(c) PROVE DebtsKept /\ CallsKept
    <3>1. /\ queuing[c].kind \in {"tariff", "rule"} /\ queuing'[c].kind = queuing[c].kind
          /\ \A d \in Callers : d # c => queuing'[d] = queuing[d]
          /\ UNCHANGED drain
      BY <2>2, <1>t DEF SelectAnalyzed, QueueShape, Call
    <3> QED
      BY <3>1, <1>1, <1>4, <1>t
  <2>3. ASSUME CommitTariff(c) \/ CrashChanger(c) PROVE DebtsKept /\ CallsKept
    <3>1. /\ queuing'[c] \in {IdleCall, AfterResponse(c)}
          /\ \A d \in Callers : d # c => queuing'[d] = queuing[d]
          /\ UNCHANGED drain
      BY <2>3, <1>t DEF CommitTariff, CrashChanger
    <3>2. queuing'[c].kind # "requeue"
      BY <3>1 DEF IdleCall, AfterResponse
    <3> QED
      BY <3>1, <3>2, <1>1, <1>4, <1>t
  <2>4. ASSUME NEW d \in Drains, StartAfterResponseDrain(c, d) PROVE DebtsKept /\ CallsKept
    <3>1. /\ queuing'[c].kind # "requeue"
          /\ \A b \in Callers : b # c => queuing'[b] = queuing[b]
          /\ \A b \in Drains : b # d => drain'[b] = drain[b]
          /\ drain'[d].reclaimed = {}
      BY <2>4, <1>t DEF StartAfterResponseDrain, IdleCall, OffDrain
    <3> QED
      BY <3>1, <1>3, <1>4, <1>t
  <2> QED
    BY <1>5, <2>1, <2>2, <2>3, <2>4 DEF ChangerStep
<1>6. ASSUME NEW c \in Callers, QueueStep(c) PROVE DebtsKept /\ CallsKept
  <2>1. ASSUME TouchPending(c) PROVE DebtsKept /\ CallsKept
    <3>1. /\ queuing'[c].kind = queuing[c].kind /\ queuing'[c].pc = "insert"
          /\ queuing'[c].targets \subseteq queuing[c].targets
          /\ \A d \in Callers : d # c => queuing'[d] = queuing[d]
          /\ UNCHANGED drain
      BY <2>1, <1>t DEF TouchPending, Call
    <3> QED
      BY <3>1, <1>1, <1>4
  <2>2. ASSUME NEW f \in Entries, InsertConflict(c, f) \/ InsertInTransaction(c, f)
        PROVE  DebtsKept /\ CallsKept
    <3>1. /\ queuing'[c].kind = queuing[c].kind /\ queuing'[c].pc = queuing[c].pc
          /\ queuing'[c].targets \subseteq queuing[c].targets
          /\ \A d \in Callers : d # c => queuing'[d] = queuing[d]
          /\ UNCHANGED drain
      <4>1. queuing[c] \in Call
        BY <1>t
      <4>2. CASE InsertConflict(c, f)
        BY <4>1, <4>2, <1>t DEF InsertConflict, Call
      <4>3. CASE InsertInTransaction(c, f)
        BY <4>1, <4>3, <1>t DEF InsertInTransaction, Call
      <4> QED
        BY <2>2, <4>2, <4>3
    <3> QED
      BY <3>1, <1>1, <1>4, <1>s
  <2>3. ASSUME NEW f \in Entries, NEW r \in RunIds, InsertPending(c, f, r)
        PROVE  DebtsKept /\ CallsKept
    <3>1. /\ queuing'[c].kind = queuing[c].kind /\ queuing'[c].pc = queuing[c].pc
          /\ queuing'[c].targets \subseteq queuing[c].targets
          /\ \A d \in Callers : d # c => queuing'[d] = queuing[d]
          /\ UNCHANGED drain
      BY <2>3, <1>t DEF InsertPending, Call
    <3> QED
      BY <3>1, <1>1, <1>4, <1>s
  <2>4. ASSUME Queued(c) PROVE DebtsKept /\ CallsKept
    <3>1. /\ queuing'[c].kind # "requeue"
          /\ \A d \in Callers : d # c => queuing'[d] = queuing[d]
          /\ UNCHANGED drain
      BY <2>4, <1>t DEF Queued, IdleCall, AfterResponse, Call
    <3> QED
      BY <3>1, <1>1, <1>4
  <2> QED
    BY <1>6, <2>1, <2>2, <2>3, <2>4 DEF QueueStep
<1>7. ASSUME NEW d \in Drains, SweepStep(d) \/ CrashDrain(d)
      PROVE  /\ DebtsKept \/ ReclaimExpired(d)
             /\ CallsKept \/ \E rows \in SUBSET RunIds : RequeueReclaimed(d, rows)
  <2>1. ASSUME StartSweep(d) \/ EndDrain(d) PROVE DebtsKept /\ CallsKept
    <3>1. /\ drain'[d].reclaimed = {} /\ UNCHANGED queuing
          /\ \A b \in Drains : b # d => drain'[b] = drain[b]
      <4>1. CASE StartSweep(d)
        BY <4>1, <1>t DEF StartSweep, OffDrain
      <4>2. CASE EndDrain(d)
        BY <4>2, <1>t DEF EndDrain, OffDrain
      <4> QED
        BY <2>1, <4>1, <4>2
    <3> QED
      BY <3>1, <1>2, <1>3, <1>t
  <2>2. ASSUME CountDeaths(d) PROVE DebtsKept /\ CallsKept
    <3> DEFINE left == {r \in drain[d].reclaimed : ~RetriesSpent(entryOf[r])}
               q == IF left = {} THEN "seed" ELSE "requeue"
    <3>1. drain' = [drain EXCEPT ![d].pc = q, ![d].reclaimed = left] /\ UNCHANGED queuing
      BY <2>2 DEF CountDeaths
    <3>2. left \subseteq drain[d].reclaimed /\ (left = {} \/ q = "requeue")
      OBVIOUS
    <3> HIDE DEF left, q
    <3> QED
      BY <2>2, <3>1, <3>2, <1>2, <1>3, <1>t DEF Drain
  <2>3. ASSUME NEW rows \in SUBSET RunIds, RequeueReclaimed(d, rows) PROVE DebtsKept
    <3> DEFINE left == drain[d].reclaimed \ rows
               q == IF left = {} THEN "seed" ELSE "requeue"
    <3>1. drain' = [drain EXCEPT ![d].pc = q, ![d].reclaimed = left]
      BY <2>3 DEF RequeueReclaimed
    <3>2. left \subseteq drain[d].reclaimed /\ (left = {} \/ q = drain[d].pc)
      BY <2>3 DEF RequeueReclaimed
    <3> HIDE DEF left, q
    <3> QED
      BY <3>1, <3>2, <1>3, <1>t DEF Drain
  <2>4. ASSUME ListPending(d) PROVE DebtsKept /\ CallsKept
    <3>1. PICK L : drain' = [drain EXCEPT ![d].pc = "draining", ![d].list = L]
      BY <2>4 DEF ListPending
    <3>2. drain[d].pc = "list" /\ UNCHANGED queuing
      BY <2>4 DEF ListPending
    <3> QED
      BY <3>1, <3>2, <1>2, <1>3, <1>s, <1>t DEF Drain
  <2>5. ASSUME SeedUnanalyzed(d) PROVE DebtsKept /\ CallsKept
    <3>1. /\ queuing'[d].kind # "requeue" /\ drain[d].pc = "seed"
          /\ drain'[d].reclaimed = drain[d].reclaimed
          /\ \A c \in Callers : c # d => queuing'[c] = queuing[c]
          /\ \A b \in Drains : b # d => drain'[b] = drain[b]
      BY <2>5, <1>t DEF SeedUnanalyzed, IdleCall, Drain
    <3> QED
      BY <3>1, <1>3, <1>4, <1>s, <1>t
  <2>6. ASSUME CrashDrain(d) PROVE DebtsKept /\ CallsKept
    <3>1. /\ queuing'[d].kind # "requeue" /\ drain'[d].reclaimed = {}
          /\ \A c \in Callers : c # d => queuing'[c] = queuing[c]
          /\ \A b \in Drains : b # d => drain'[b] = drain[b]
      BY <2>6, <1>t DEF CrashDrain, IdleCall, OffDrain
    <3> QED
      BY <3>1, <1>3, <1>4, <1>t
  <2>7. ASSUME ReclaimExpired(d) PROVE CallsKept
    BY <2>7, <1>2 DEF ReclaimExpired
  <2> QED
    BY <1>7, <2>1, <2>2, <2>3, <2>4, <2>5, <2>6, <2>7 DEF SweepStep
<1>8. ASSUME NEW d \in Drains, NEW s \in Slots, PullStep(d, s) PROVE DebtsKept /\ CallsKept
  <2>1. ASSUME NEW r \in RunIds, ClaimListed(d, s, r) \/ SkipListed(d, s, r)
        PROVE  DebtsKept /\ CallsKept
    <3>1. UNCHANGED queuing /\ drain' = [drain EXCEPT ![d].list = @ \ {r}]
      BY <2>1 DEF ClaimListed, SkipListed
    <3>2. /\ drain'[d].pc = drain[d].pc /\ drain'[d].reclaimed = drain[d].reclaimed
          /\ \A b \in Drains : b # d => drain'[b] = drain[b]
      BY <3>1, <1>t DEF Drain
    <3> QED
      BY <3>1, <3>2, <1>2, <1>3, <1>s
  <2>2. ASSUME StopSlot(d, s) PROVE UNCHANGED <<queuing, drain>>
    BY <2>2 DEF StopSlot
  <2> QED
    BY <1>1, <1>2, <1>8, <2>1, <2>2 DEF PullStep
<1>9. ASSUME UNCHANGED <<queuing, drain>> PROVE DebtsKept /\ CallsKept
  BY <1>1, <1>2, <1>9
<1>10. ASSUME NEW m \in Manuals, ManualStep(m) \/ CrashManual(m)
       PROVE UNCHANGED <<queuing, drain>>
  BY <1>10 DEF ManualStep, ManualRead, ManualClaim, ManualInsert, CrashManual
<1>11. ASSUME NEW x \in Executors, ExecuteStep(x) PROVE UNCHANGED <<queuing, drain>>
  BY <1>11 DEF ExecuteStep, LoadBundle, LoadFails, RecordThrows, RecordResult
<1>12. ASSUME NEW q \in RunIds, Settle(q) \/ Expire(q) PROVE UNCHANGED <<queuing, drain>>
  BY <1>12 DEF Settle, Expire
<1>13. CASE UNCHANGED vars
  BY <1>9, <1>13 DEF vars
<1> QED
  BY <1>5, <1>6, <1>7, <1>8, <1>9, <1>10, <1>11, <1>12, <1>13 DEF Next

\* A sweep owes dead rows only, no two owe the same row, and only the calls of
\* sweeps re-queue (ReclaimShape): the reclaim takes running rows.
LEMMA ReclaimStep ==
  TypeOK /\ HeldRunning /\ QueueShape /\ ReclaimShape /\ [Next]_vars => ReclaimShape'
<1> SUFFICES ASSUME TypeOK, HeldRunning, QueueShape, ReclaimShape, [Next]_vars
             PROVE ReclaimShape'
  OBVIOUS
<1>t. /\ queuing \in [Callers -> Call] /\ drain \in [Drains -> Drain]
      /\ Drains \subseteq Callers /\ \A d \in Drains : drain[d].reclaimed \subseteq RunIds
      /\ status \in [RunIds -> Status]
  BY DEF TypeOK, Callers, Drain
<1>1. \A c \in Callers : queuing'[c].kind = "requeue" =>
        c \in Drains /\ queuing'[c].pc \in {"touch", "insert"}
  <2>1. ASSUME NEW d \in Drains, NEW rows \in SUBSET RunIds, RequeueReclaimed(d, rows)
        PROVE  \A c \in Callers : \/ queuing'[c] = queuing[c]
                                  \/ c = d /\ queuing'[c].pc = "touch"
    BY <2>1, <1>t DEF RequeueReclaimed, IdleCall
  <2> QED
    BY <2>1, DebtStep DEF CallsKept, ReclaimShape
<1>2. CASE DebtsKept
  <2>2. \A d \in Drains : drain'[d].reclaimed = {} \/ drain'[d].pc \in {"deaths", "requeue"}
    BY <1>2 DEF DebtsKept, ReclaimShape
  <2>1. \A d \in Drains : \A r \in drain'[d].reclaimed : status'[r] = "abandoned"
    BY <1>2, <1>t, OutcomeKept DEF DebtsKept, ReclaimShape, Terminal
  <2> QED
    BY <1>1, <1>2, <2>1, <2>2 DEF DebtsKept, ReclaimShape
<1>3. ASSUME NEW d \in Drains, ReclaimExpired(d) PROVE ReclaimShape'
  <2> DEFINE dead == {r \in RunIds : status[r] = "running" /\ expired[r]}
  <2>1. /\ \A b \in Drains : b # d => drain'[b] = drain[b]
        /\ drain'[d].reclaimed = dead
        /\ drain'[d].pc = IF dead = {} THEN "seed" ELSE "deaths"
        /\ \A r \in RunIds : status'[r] = IF r \in dead THEN "abandoned" ELSE status[r]
    BY <1>3, <1>t DEF ReclaimExpired, Drain
  <2>2. \A b \in Drains : drain[b].reclaimed \cap dead = {}
    BY DEF ReclaimShape
  <2> HIDE DEF dead
  <2>3. dead \subseteq RunIds
    BY DEF dead
  <2> QED
    BY <1>1, <2>1, <2>2, <2>3, <1>t DEF ReclaimShape
<1> QED
  BY <1>2, <1>3, DebtStep

-----------------------------------------------------------------------------
(* No document lost.                                                       *)

\* A row of e serves every document so far, or is excused.
Stands(e) ==
  \E q \in RunIds : entryOf[q] = e /\ (Serves(q, "document") \/ Excused(q, "document"))

\* The step makes no row miss a document.
RowsKept ==
  /\ \A r \in RunIds : "document" \in missed'[r] =>
       "document" \in missed[r] /\ entryOf'[r] = entryOf[r]
  /\ \A q \in RunIds : Present(q) /\ "document" \notin missed[q] =>
       entryOf'[q] = entryOf[q] /\ "document" \notin missed'[q]

\* A handler about to queue e for a document still is, or a row stands.
HandlersKept ==
  \A c \in Changers, e \in Entries :
    QueuingChange(c, "document", e) => QueuingChange(c, "document", e)' \/ Stands(e)'

\* Only the filtered changes select and only the transaction commits.
LEMMA ShapeStep == TypeOK /\ QueueShape /\ [Next]_vars => QueueShape'
<1> SUFFICES ASSUME TypeOK, QueueShape, [Next]_vars PROVE QueueShape'
  OBVIOUS
<1>t. queuing \in [Callers -> Call] /\ Changers \subseteq Callers
  BY DEF TypeOK, Callers
<1> USE DEF QueueShape
<1>1. ASSUME NEW c \in Changers, NEW E \in SUBSET Entries,
             LinkDocument(c, E) \/ ChangeRule(c, E) \/ ApplyTariff(c, E)
      PROVE QueueShape'
  BY <1>1, <1>t DEF LinkDocument, ChangeRule, ApplyTariff, IdleCall
<1>2. ASSUME NEW c \in Changers, SelectAnalyzed(c) PROVE QueueShape'
  BY <1>2, <1>t DEF SelectAnalyzed, Call
<1>3. ASSUME NEW c \in Changers, CommitTariff(c) \/ CrashChanger(c) PROVE QueueShape'
  BY <1>3, <1>t DEF CommitTariff, CrashChanger, AfterResponse, IdleCall
<1>4. ASSUME NEW c \in Changers, NEW d \in Drains, StartAfterResponseDrain(c, d)
      PROVE QueueShape'
  BY <1>4, <1>t DEF StartAfterResponseDrain, IdleCall
<1>5. ASSUME NEW c \in Callers, TouchPending(c) PROVE QueueShape'
  BY <1>5, <1>t DEF TouchPending, Call
<1>6. ASSUME NEW c \in Callers, NEW e \in Entries,
             \/ InsertConflict(c, e) \/ InsertInTransaction(c, e)
             \/ \E r \in RunIds : InsertPending(c, e, r)
      PROVE QueueShape'
  BY <1>6, <1>t DEF InsertConflict, InsertInTransaction, InsertPending, Call
<1>7. ASSUME NEW c \in Callers, Queued(c) PROVE QueueShape'
  BY <1>7, <1>t DEF Queued, AfterResponse, IdleCall, Call
<1>8. ASSUME NEW d \in Drains,
             \/ SeedUnanalyzed(d) \/ CrashDrain(d)
             \/ \E rows \in SUBSET RunIds : RequeueReclaimed(d, rows)
      PROVE QueueShape'
  <2>1. PICK p \in {"touch", "idle"} :
          \A c \in Callers : queuing'[c] = queuing[c] \/ queuing'[c].pc = p
    <3>1. ASSUME NEW rows \in SUBSET RunIds, RequeueReclaimed(d, rows)
          PROVE \A c \in Callers : queuing'[c] = queuing[c] \/ queuing'[c].pc = "touch"
      BY <3>1, <1>t DEF RequeueReclaimed, IdleCall
    <3>2. ASSUME SeedUnanalyzed(d)
          PROVE \A c \in Callers : queuing'[c] = queuing[c] \/ queuing'[c].pc = "touch"
      BY <3>2, <1>t DEF SeedUnanalyzed, IdleCall
    <3>3. ASSUME CrashDrain(d)
          PROVE \A c \in Callers : queuing'[c] = queuing[c] \/ queuing'[c].pc = "idle"
      BY <3>3, <1>t DEF CrashDrain, IdleCall
    <3> QED
      BY <1>8, <3>1, <3>2, <3>3
  <2> QED
    BY <2>1, <1>t
<1>9. ASSUME UNCHANGED queuing PROVE QueueShape'
  BY <1>9
<1>10. ASSUME NEW d \in Drains, SweepStep(d) \/ CrashDrain(d) PROVE QueueShape'
  BY <1>8, <1>9, <1>10
  DEF SweepStep, StartSweep, ReclaimExpired, CountDeaths, ListPending, EndDrain
<1>11. ASSUME NEW d \in Drains, NEW s \in Slots, PullStep(d, s) PROVE UNCHANGED queuing
  BY <1>11 DEF PullStep, ClaimListed, SkipListed, StopSlot
<1>12. ASSUME NEW m \in Manuals, ManualStep(m) \/ CrashManual(m) PROVE UNCHANGED queuing
  BY <1>12 DEF ManualStep, ManualRead, ManualClaim, ManualInsert, CrashManual
<1>13. ASSUME NEW x \in Executors, ExecuteStep(x) PROVE UNCHANGED queuing
  BY <1>13 DEF ExecuteStep, LoadBundle, LoadFails, RecordThrows, RecordResult
<1>14. ASSUME NEW r \in RunIds, Settle(r) \/ Expire(r) PROVE UNCHANGED queuing
  BY <1>14 DEF Settle, Expire
<1>15. ASSUME NEW c \in Changers, ChangerStep(c) \/ CrashChanger(c) PROVE QueueShape'
  BY <1>1, <1>2, <1>3, <1>4, <1>15 DEF ChangerStep
<1>16. ASSUME NEW c \in Callers, QueueStep(c) PROVE QueueShape'
  BY <1>5, <1>6, <1>7, <1>16 DEF QueueStep
<1>17. CASE UNCHANGED vars
  BY <1>9, <1>17 DEF vars
<1> QED
  BY <1>9, <1>10, <1>11, <1>12, <1>13, <1>14, <1>15, <1>16, <1>17 DEF Next

\* Rows miss a document only when one is linked; a row nobody has read facts
\* for has missed none.
LEMMA RowStep ==
  ASSUME TypeOK, HeldRunning, Unread, [Next]_vars
  PROVE  /\ Unread'
         /\ RowsKept \/ \E c \in Changers, E \in SUBSET Entries : LinkDocument(c, E)
<1> DEFINE Goal == Unread' /\ RowsKept
<1>t. /\ status \in [RunIds -> Status] /\ missed \in [RunIds -> SUBSET Kinds]
      /\ entryOf \in [RunIds -> Entries \cup {NoEntry}] /\ loaded \in [RunIds -> BOOLEAN]
  BY DEF TypeOK
<1> USE DEF Unread, RowsKept, Present, DoneReading, Terminal
<1>1. ASSUME NEW k \in {"tariff", "rule"}, NEW E \in SUBSET Entries, Miss(k, E),
             UNCHANGED <<status, entryOf, loaded>>
      PROVE Goal
  BY <1>1, <1>t DEF Miss
<1>2. ASSUME NEW r \in RunIds, NEW e \in Entries, NEW s \in {"pending", "running"},
             status[r] = "absent", InsertRow(r, e, s)
      PROVE Goal
  BY <1>2, <1>t DEF InsertRow
<1>3. ASSUME NEW c \in Changers, CommitTariff(c) PROVE Goal
  <2>1. \A r \in RunIds :
          \/ status'[r] = status[r] /\ entryOf'[r] = entryOf[r]
          \/ status[r] = "absent" /\ status'[r] = "pending"
    BY <1>3 DEF CommitTariff
  <2>2. /\ UNCHANGED loaded
        /\ \A r \in RunIds : missed'[r] \in {missed[r], missed[r] \cup {"tariff"}}
        /\ \A r \in RunIds : missed'[r] # missed[r] => DoneReading(r) /\ entryOf[r] \in Entries
    <3>1. queuing[c].affected \in SUBSET Entries
      BY DEF TypeOK, Call, Callers
    <3>2. Miss("tariff", queuing[c].affected) /\ UNCHANGED loaded
      BY <1>3 DEF CommitTariff
    <3> QED
      BY <3>1, <3>2 DEF Miss
  <2> QED
    BY <2>1, <2>2, <1>t
<1>4. ASSUME NEW d \in Drains, ReclaimExpired(d) PROVE Goal
  BY <1>4, <1>t DEF ReclaimExpired
<1>5. ASSUME NEW r \in RunIds, ClaimRow(r) PROVE Goal
  BY <1>5, <1>t DEF ClaimRow, Pending
<1>6. ASSUME NEW x \in Executors, LoadBundle(x) PROVE Goal
  <2>1. exec[x].run \in RunIds /\ status[exec[x].run] = "running"
    BY <1>6 DEF LoadBundle, HeldRunning, Holding
  <2> QED
    BY <1>6, <1>t, <2>1 DEF LoadBundle
<1>7. ASSUME NEW x \in Executors, NEW o \in {"succeeded", "failed"},
             LoadFails(x) \/ RecordResult(x, o)
      PROVE Goal
  BY <1>7, <1>t DEF LoadFails, RecordResult
<1>8. ASSUME UNCHANGED <<status, entryOf, loaded, missed>> PROVE Goal
  BY <1>8
<1>9. ASSUME NEW c \in Changers, ChangerStep(c) \/ CrashChanger(c)
      PROVE Unread' /\ (RowsKept \/ \E E \in SUBSET Entries : LinkDocument(c, E))
  <2>1. ASSUME NEW E \in SUBSET Entries, LinkDocument(c, E) PROVE Unread'
    BY <2>1, <1>t DEF LinkDocument, Miss
  <2>2. ASSUME NEW E \in SUBSET Entries, ChangeRule(c, E) PROVE Goal
    BY <2>2, <1>1 DEF ChangeRule
  <2>3. ASSUME NEW d \in Drains,
               SelectAnalyzed(c) \/ CrashChanger(c) \/ StartAfterResponseDrain(c, d)
        PROVE Goal
    BY <2>3, <1>8 DEF SelectAnalyzed, CrashChanger, StartAfterResponseDrain, rowVars
  <2>4. ASSUME NEW E \in SUBSET Entries,
               SelectAnalyzed(c) \/ CrashChanger(c) \/ ApplyTariff(c, E)
        PROVE Goal
    BY <2>4, <1>8 DEF SelectAnalyzed, CrashChanger, ApplyTariff, rowVars
  <2> QED
    BY <1>9, <1>3, <2>1, <2>2, <2>3, <2>4 DEF ChangerStep
<1>10. ASSUME NEW c \in Callers, QueueStep(c) PROVE Goal
  <2>1. ASSUME NEW e \in Entries, NEW r \in RunIds, InsertPending(c, e, r) PROVE Goal
    BY <2>1, <1>2 DEF InsertPending, Fresh
  <2>2. ASSUME NEW e \in Entries, InsertConflict(c, e) \/ InsertInTransaction(c, e)
        PROVE Goal
    BY <2>2, <1>8 DEF InsertConflict, InsertInTransaction, rowVars
  <2>3. ASSUME TouchPending(c) \/ Queued(c) PROVE Goal
    BY <2>3, <1>8 DEF TouchPending, Queued, rowVars
  <2> QED
    BY <1>10, <2>1, <2>2, <2>3 DEF QueueStep
<1>11. ASSUME NEW d \in Drains, SweepStep(d) \/ CrashDrain(d) PROVE Goal
  <2>1. ASSUME ~ReclaimExpired(d) PROVE Goal
    BY <1>8, <1>11, <2>1 DEF SweepStep, StartSweep, CountDeaths, RequeueReclaimed,
       SeedUnanalyzed,
       ListPending, EndDrain, CrashDrain, rowVars
  <2> QED
    BY <1>4, <2>1
<1>12. ASSUME NEW d \in Drains, NEW s \in Slots, PullStep(d, s) PROVE Goal
  BY <1>5, <1>8, <1>12 DEF PullStep, ClaimListed, SkipListed, StopSlot, rowVars
<1>13. ASSUME NEW m \in Manuals, ManualStep(m) \/ CrashManual(m) PROVE Goal
  <2>1. ASSUME NEW r \in RunIds, ManualInsert(m, r) PROVE Goal
    <3>1. exec[m].entry \in Entries \cup {NoEntry}
      BY DEF TypeOK, Exec, Executors
    <3> QED
      BY <2>1, <1>t DEF ManualInsert, InsertRow, Fresh
  <2> QED
    BY <1>5, <1>8, <1>13, <2>1 DEF ManualStep, ManualRead, ManualClaim, CrashManual, rowVars
<1>14. ASSUME NEW x \in Executors, ExecuteStep(x) PROVE Goal
  <2>1. ASSUME RecordThrows(x) PROVE Goal
    BY <1>8, <2>1 DEF RecordThrows, rowVars
  <2> QED
    BY <1>6, <1>7, <1>14, <2>1 DEF ExecuteStep
<1>15. ASSUME NEW r \in RunIds, Settle(r) \/ Expire(r) PROVE Goal
  BY <1>8, <1>15 DEF Settle, Expire
<1>16. CASE UNCHANGED vars
  BY <1>8, <1>16 DEF vars, rowVars
<1> HIDE DEF Unread, RowsKept
<1> QED
  BY <1>9, <1>10, <1>11, <1>12, <1>13, <1>14, <1>15, <1>16 DEF Next

\* A handler drops a target only when a pending row stands for it: a touched
\* one, one in conflict or the inserted one.
LEMMA HandlerStep ==
  ASSUME TypeOK, QueueShape, Unread, [Next]_vars
  PROVE  HandlersKept \/ \E c \in Changers, E \in SUBSET Entries : LinkDocument(c, E)
<1>t. /\ queuing \in [Callers -> Call] /\ Changers \subseteq Callers
      /\ status \in [RunIds -> Status] /\ entryOf \in [RunIds -> Entries \cup {NoEntry}]
  BY DEF TypeOK, Callers
<1>d. \A d \in Drains : d \notin Changers
  BY ProcessesAssumption
<1> USE DEF HandlersKept, QueuingChange
<1>1. ASSUME NEW c \in Callers, TouchPending(c) PROVE HandlersKept
  <2>1. \A e \in Entries : (\E r \in RunIds : Pending(r) /\ entryOf[r] = e) => Stands(e)'
    BY <1>1 DEF TouchPending, Unread, Pending, DoneReading, Terminal, Stands, Serves
  <2>2. \A d \in Callers : d # c => queuing'[d] = queuing[d]
    BY <1>1, <1>t DEF TouchPending
  <2>3. /\ queuing[c].pc = "touch"
        /\ queuing'[c].pc = "insert" /\ queuing'[c].kind = queuing[c].kind
        /\ \A e \in queuing[c].targets :
             \/ e \in queuing'[c].targets
             \/ \E r \in RunIds : Pending(r) /\ entryOf[r] = e
    BY <1>1, <1>t DEF TouchPending, Call
  <2> QED
    BY <2>1, <2>2, <2>3, <1>t
<1>2. ASSUME NEW c \in Callers, NEW e \in Entries, InsertConflict(c, e) PROVE HandlersKept
  <2>1. Stands(e)'
    BY <1>2 DEF InsertConflict, PendingOf, Unread, Pending, DoneReading, Terminal, Stands,
       Serves, rowVars
  <2>2. \A d \in Callers : d # c => queuing'[d] = queuing[d]
    BY <1>2, <1>t DEF InsertConflict
  <2>3. /\ queuing[c].pc = "insert"
        /\ queuing'[c].pc = "insert" /\ queuing'[c].kind = queuing[c].kind
        /\ queuing'[c].targets = queuing[c].targets \ {e}
    BY <1>2, <1>t DEF InsertConflict, Call
  <2> QED
    BY <2>1, <2>2, <2>3, <1>t
<1>3. ASSUME NEW c \in Callers, NEW e \in Entries, NEW r \in RunIds, InsertPending(c, e, r)
      PROVE HandlersKept
  <2>1. Stands(e)'
    BY <1>3, <1>t DEF InsertPending, InsertRow, Fresh, Unread, Present, DoneReading, Terminal,
       Stands, Serves
  <2>2. \A d \in Callers : d # c => queuing'[d] = queuing[d]
    BY <1>3, <1>t DEF InsertPending
  <2>3. /\ queuing[c].pc = "insert"
        /\ queuing'[c].pc = "insert" /\ queuing'[c].kind = queuing[c].kind
        /\ queuing'[c].targets = queuing[c].targets \ {e}
    BY <1>3, <1>t DEF InsertPending, Call
  <2> QED
    BY <2>1, <2>2, <2>3, <1>t
<1>4. ASSUME NEW c \in Callers,
             \/ queuing[c].kind # "document"
             \/ queuing[c].pc \in {"idle", "select", "commit", "after"}
             \/ queuing[c].pc = "insert" /\ queuing[c].targets = {}
             \/ c \in Drains,
             \A d \in Callers : d # c => queuing'[d] = queuing[d]
      PROVE HandlersKept
  BY <1>4, <1>t, <1>d DEF QueueShape
<1>5. ASSUME NEW c \in Changers, ChangerStep(c) \/ CrashChanger(c)
      PROVE HandlersKept \/ \E E \in SUBSET Entries : LinkDocument(c, E)
  <2>1. ASSUME NEW E \in SUBSET Entries, ChangeRule(c, E) \/ ApplyTariff(c, E)
        PROVE HandlersKept
    BY <1>4, <2>1, <1>t DEF ChangeRule, ApplyTariff
  <2>2. ASSUME SelectAnalyzed(c) \/ CommitTariff(c) \/ CrashChanger(c) PROVE HandlersKept
    <3>1. /\ queuing[c].pc \in {"select", "commit"} \/ queuing[c].kind # "document"
          /\ \A d \in Callers : d # c => queuing'[d] = queuing[d]
      BY <2>2, <1>t DEF SelectAnalyzed, CommitTariff, CrashChanger
    <3> QED
      BY <3>1, <1>4, <1>t
  <2>3. ASSUME NEW d \in Drains, StartAfterResponseDrain(c, d) PROVE HandlersKept
    BY <1>4, <2>3, <1>t DEF StartAfterResponseDrain
  <2> QED
    BY <1>5, <2>1, <2>2, <2>3 DEF ChangerStep
<1>6. ASSUME NEW c \in Callers, QueueStep(c) PROVE HandlersKept
  <2>1. ASSUME NEW e \in Entries, InsertInTransaction(c, e) PROVE HandlersKept
    BY <1>4, <2>1, <1>t DEF InsertInTransaction
  <2>2. ASSUME Queued(c) PROVE HandlersKept
    BY <1>4, <2>2, <1>t DEF Queued
  <2> QED
    BY <1>1, <1>2, <1>3, <1>6, <2>1, <2>2 DEF QueueStep
<1>7. ASSUME UNCHANGED queuing PROVE HandlersKept
  BY <1>7
<1>8. ASSUME NEW d \in Drains, SweepStep(d) \/ CrashDrain(d) PROVE HandlersKept
  <2>1. ASSUME SeedUnanalyzed(d) \/ CrashDrain(d) PROVE HandlersKept
    BY <1>4, <2>1, <1>t DEF SeedUnanalyzed, CrashDrain, Callers
  <2>2. ASSUME NEW rows \in SUBSET RunIds, RequeueReclaimed(d, rows) PROVE HandlersKept
    BY <1>4, <2>2, <1>t DEF RequeueReclaimed, Callers
  <2> QED
    BY <1>7, <1>8, <2>1, <2>2
    DEF SweepStep, StartSweep, ReclaimExpired, CountDeaths, ListPending, EndDrain
<1>9. ASSUME NEW d \in Drains, NEW s \in Slots, PullStep(d, s) PROVE HandlersKept
  BY <1>7, <1>9 DEF PullStep, ClaimListed, SkipListed, StopSlot
<1>10. ASSUME NEW m \in Manuals, ManualStep(m) \/ CrashManual(m) PROVE HandlersKept
  BY <1>7, <1>10 DEF ManualStep, ManualRead, ManualClaim, ManualInsert, CrashManual
<1>11. ASSUME NEW x \in Executors, ExecuteStep(x) PROVE HandlersKept
  BY <1>7, <1>11 DEF ExecuteStep, LoadBundle, LoadFails, RecordThrows, RecordResult
<1>12. ASSUME NEW r \in RunIds, Settle(r) \/ Expire(r) PROVE HandlersKept
  BY <1>7, <1>12 DEF Settle, Expire
<1>13. CASE UNCHANGED vars
  BY <1>7, <1>13 DEF vars
<1> HIDE DEF HandlersKept
<1> QED
  BY <1>5, <1>6, <1>8, <1>9, <1>10, <1>11, <1>12, <1>13 DEF Next

\* A run that is not dead goes on, ends, or dies in a reclaim whose sweep owes
\* its retry.
LEMMA AliveStep ==
  ASSUME TypeOK, [Next]_vars, NEW q \in RunIds,
         status[q] \in {"pending", "running", "succeeded", "failed"}
  PROVE  \/ status'[q] \in {"pending", "running", "succeeded", "failed"}
         \/ status'[q] = "abandoned" /\ \E d \in Drains : q \in drain'[d].reclaimed
<1> DEFINE Goal == \/ status'[q] \in {"pending", "running", "succeeded", "failed"}
                   \/ status'[q] = "abandoned" /\ \E d \in Drains : q \in drain'[d].reclaimed
<1>t. status \in [RunIds -> Status] /\ drain \in [Drains -> Drain]
  BY DEF TypeOK
<1>1. ASSUME NEW d \in Drains, ReclaimExpired(d) PROVE Goal
  <2> DEFINE dead == {r \in RunIds : status[r] = "running" /\ expired[r]}
  <2>1. /\ status'[q] = IF q \in dead THEN "abandoned" ELSE status[q]
        /\ drain'[d].reclaimed = dead
    BY <1>1, <1>t DEF ReclaimExpired, Drain
  <2> HIDE DEF dead
  <2> QED
    BY <2>1
<1>2. ASSUME UNCHANGED status PROVE Goal
  BY <1>2
<1>3. ASSUME NEW r \in RunIds, NEW f, NEW s \in {"pending", "running"}, InsertRow(r, f, s)
      PROVE Goal
  BY <1>3, <1>t DEF InsertRow
<1>4. ASSUME NEW r \in RunIds, ClaimRow(r) PROVE Goal
  BY <1>4, <1>t DEF ClaimRow
<1>5. ASSUME NEW c \in Changers, CommitTariff(c) PROVE Goal
  BY <1>5 DEF CommitTariff
<1>6. ASSUME NEW x \in Executors, NEW o \in {"succeeded", "failed"},
             LoadFails(x) \/ RecordResult(x, o)
      PROVE Goal
  BY <1>6, <1>t DEF LoadFails, RecordResult
<1> HIDE DEF Goal
<1>7. ASSUME NEW c \in Changers, ChangerStep(c) \/ CrashChanger(c) PROVE Goal
  BY <1>2, <1>5, <1>7 DEF ChangerStep, LinkDocument, ChangeRule, ApplyTariff,
     SelectAnalyzed, StartAfterResponseDrain, CrashChanger, rowVars
<1>8. ASSUME NEW c \in Callers, QueueStep(c) PROVE Goal
  BY <1>2, <1>3, <1>8 DEF QueueStep, TouchPending, InsertConflict, InsertPending,
     InsertInTransaction, Queued, rowVars
<1>9. ASSUME NEW d \in Drains, SweepStep(d) \/ CrashDrain(d) PROVE Goal
  BY <1>1, <1>2, <1>9 DEF SweepStep, StartSweep, CountDeaths, RequeueReclaimed,
     SeedUnanalyzed, ListPending, EndDrain, CrashDrain, rowVars
<1>10. ASSUME NEW d \in Drains, NEW s \in Slots, PullStep(d, s) PROVE Goal
  BY <1>2, <1>4, <1>10 DEF PullStep, ClaimListed, SkipListed, StopSlot, rowVars
<1>11. ASSUME NEW m \in Manuals, ManualStep(m) \/ CrashManual(m) PROVE Goal
  BY <1>2, <1>3, <1>4, <1>11 DEF ManualStep, ManualRead, ManualClaim,
     ManualInsert, CrashManual, rowVars
<1>12. ASSUME NEW x \in Executors, ExecuteStep(x) PROVE Goal
  BY <1>2, <1>6, <1>12 DEF ExecuteStep, LoadBundle, RecordThrows, rowVars
<1>13. ASSUME NEW r \in RunIds, Settle(r) \/ Expire(r) PROVE Goal
  BY <1>2, <1>13 DEF Settle, Expire
<1>14. CASE UNCHANGED vars
  BY <1>2, <1>14 DEF vars, rowVars
<1> QED
  BY <1>7, <1>8, <1>9, <1>10, <1>11, <1>12, <1>13, <1>14 DEF Next, Goal

\* The retry a sweep owes a dead run of e stays owed until the entry has a
\* pending row, has spent its retries, or the sweep is cut off.
LEMMA OwedStep ==
  ASSUME TypeOK, HeldRunning, QueueShape, ReclaimShape, Unread, [Next]_vars,
         NEW q \in RunIds, NEW e \in Entries, entryOf[q] = e,
         status[q] = "abandoned", NEW b \in Drains, OwesRetry(b, q)
  PROVE  OwesRetry(b, q)' \/ RetriesSpent(e) \/ q \in forsaken' \/ Stands(e)'
<1> DEFINE Goal == OwesRetry(b, q)' \/ RetriesSpent(e) \/ q \in forsaken' \/ Stands(e)'
<1>t. /\ queuing \in [Callers -> Call] /\ drain \in [Drains -> Drain]
      /\ Changers \subseteq Callers /\ Drains \subseteq Callers
      /\ status \in [RunIds -> Status] /\ missed \in [RunIds -> SUBSET Kinds]
      /\ entryOf \in [RunIds -> Entries \cup {NoEntry}] /\ b \notin Changers
  BY ProcessesAssumption DEF TypeOK, Callers
<1>s. /\ queuing[b].kind = "requeue" => queuing[b].pc \in {"touch", "insert"}
      /\ drain[b].reclaimed = {} \/ drain[b].pc \in {"deaths", "requeue"}
  BY <1>t DEF ReclaimShape
<1>d. status'[q] = "abandoned" /\ entryOf'[q] = e
  BY DeadStay DEF DeadRuns
<1>1. ASSUME drain'[b].reclaimed = drain[b].reclaimed, queuing'[b] = queuing[b] PROVE Goal
  BY <1>1, <1>d DEF OwesRetry
<1>2. ASSUME NEW p \in RunIds, status'[p] = "pending", entryOf'[p] = e, missed'[p] = {}
      PROVE Goal
  BY <1>2 DEF Stands, Serves
<1>p. ASSUME NEW p \in RunIds, Pending(p) PROVE missed[p] = {}
  BY <1>p DEF Unread, Pending, DoneReading, Terminal
<1>3. ASSUME NEW c \in Changers, ChangerStep(c) \/ CrashChanger(c) PROVE Goal
  <2>1. ASSUME NEW d \in Drains, StartAfterResponseDrain(c, d) PROVE Goal
    <3>1. /\ queuing'[b] = queuing[b]
          /\ \A a \in Drains : a # d => drain'[a] = drain[a]
          /\ drain[d].pc = "off" /\ drain'[d].reclaimed = {}
      BY <2>1, <1>t DEF StartAfterResponseDrain, OffDrain
    <3> QED
      BY <3>1, <1>1, <1>s
  <2>2. ASSUME ~\E d \in Drains : StartAfterResponseDrain(c, d) PROVE Goal
    <3>1. UNCHANGED drain /\ queuing'[b] = queuing[b]
      BY <1>3, <2>2, <1>t DEF ChangerStep, LinkDocument, ChangeRule, ApplyTariff,
         SelectAnalyzed, CommitTariff, CrashChanger
    <3> QED
      BY <3>1, <1>1
  <2> QED
    BY <2>1, <2>2
<1>4. ASSUME NEW c \in Callers, QueueStep(c) PROVE Goal
  <2>1. ASSUME c # b PROVE Goal
    <3>1. UNCHANGED drain /\ queuing'[b] = queuing[b]
      BY <1>4, <2>1, <1>t DEF QueueStep, TouchPending, InsertConflict, InsertPending,
         InsertInTransaction, Queued
    <3> QED
      BY <3>1, <1>1
  <2>2. ASSUME TouchPending(b) PROVE Goal
    <3>1. /\ UNCHANGED <<drain, status, entryOf, missed>>
          /\ queuing'[b].kind = queuing[b].kind
          /\ \A f \in queuing[b].targets :
               \/ f \in queuing'[b].targets
               \/ \E p \in RunIds : Pending(p) /\ entryOf[p] = f
      BY <2>2, <1>t DEF TouchPending, Call
    <3> QED
      BY <3>1, <1>2, <1>p, <1>d DEF OwesRetry, Pending
  <2>3. ASSUME NEW f \in Entries, InsertConflict(b, f) PROVE Goal
    <3>1. /\ UNCHANGED <<drain, status, entryOf, missed>>
          /\ queuing'[b].kind = queuing[b].kind
          /\ queuing'[b].targets = queuing[b].targets \ {f}
          /\ \E p \in RunIds : Pending(p) /\ entryOf[p] = f
      BY <2>3, <1>t DEF InsertConflict, Call, PendingOf, rowVars
    <3> QED
      BY <3>1, <1>2, <1>p, <1>d DEF OwesRetry, Pending
  <2>4. ASSUME NEW f \in Entries, NEW r \in RunIds, InsertPending(b, f, r) PROVE Goal
    <3>1. /\ UNCHANGED <<drain, missed>> /\ missed[r] = {}
          /\ status'[r] = "pending" /\ entryOf'[r] = f
          /\ queuing'[b].kind = queuing[b].kind
          /\ queuing'[b].targets = queuing[b].targets \ {f}
      BY <2>4, <1>t DEF InsertPending, InsertRow, Fresh, Present, Call, Unread, DoneReading,
         Terminal
    <3> QED
      BY <3>1, <1>2, <1>d DEF OwesRetry
  <2>5. ASSUME NEW f \in Entries, InsertInTransaction(b, f) PROVE Goal
    <3>1. UNCHANGED drain /\ queuing[b].kind = "tariff"
      BY <2>5 DEF InsertInTransaction
    <3> QED
      BY <3>1, <1>d DEF OwesRetry
  <2>6. ASSUME Queued(b) PROVE Goal
    <3>1. UNCHANGED drain /\ queuing[b].targets = {}
      BY <2>6 DEF Queued
    <3> QED
      BY <3>1, <1>d DEF OwesRetry
  <2> QED
    BY <1>4, <2>1, <2>2, <2>3, <2>4, <2>5, <2>6 DEF QueueStep
<1>5. ASSUME NEW d \in Drains, d # b, SweepStep(d) \/ CrashDrain(d) PROVE Goal
  <2>1. queuing'[b] = queuing[b] /\ drain'[b] = drain[b]
    BY <1>5, <1>t DEF SweepStep, StartSweep, ReclaimExpired, CountDeaths, RequeueReclaimed,
       SeedUnanalyzed, ListPending, EndDrain, CrashDrain
  <2> QED
    BY <2>1, <1>1
<1>6. ASSUME StartSweep(b) \/ EndDrain(b) \/ ReclaimExpired(b) PROVE Goal
  <2>1. drain[b].reclaimed = {} /\ queuing'[b] = queuing[b]
    BY <1>6, <1>s DEF StartSweep, EndDrain, ReclaimExpired
  <2> QED
    BY <2>1, <1>d DEF OwesRetry
<1>7. ASSUME CountDeaths(b) PROVE Goal
  <2> DEFINE left == {r \in drain[b].reclaimed : ~RetriesSpent(entryOf[r])}
  <2>1. drain'[b].reclaimed = left /\ queuing'[b] = queuing[b]
    BY <1>7, <1>t DEF CountDeaths, Drain
  <2> QED
    BY <2>1, <1>d DEF OwesRetry
<1>8. ASSUME NEW rows \in SUBSET RunIds, RequeueReclaimed(b, rows) PROVE Goal
  <2> DEFINE left == drain[b].reclaimed \ rows
             E == {f \in Entries : \E r \in rows : entryOf[r] = f}
  <2>1. drain'[b].reclaimed = left
    BY <1>8, <1>t DEF RequeueReclaimed, Drain
  <2>2. queuing'[b].kind = "requeue" /\ queuing'[b].targets = E
    BY <1>8, <1>t DEF RequeueReclaimed, IdleCall
  <2>3. queuing[b].kind # "requeue"
    BY <1>8, <1>s DEF RequeueReclaimed
  <2> QED
    BY <2>1, <2>2, <2>3, <1>d DEF OwesRetry
<1>9. ASSUME SeedUnanalyzed(b) PROVE Goal
  <2>1. queuing[b].kind # "requeue" /\ drain[b].reclaimed = {}
    BY <1>9, <1>s DEF SeedUnanalyzed
  <2> QED
    BY <2>1 DEF OwesRetry
<1>10. ASSUME ListPending(b) PROVE Goal
  <2>1. drain[b].reclaimed = {} /\ queuing'[b] = queuing[b]
    BY <1>10, <1>s DEF ListPending
  <2> QED
    BY <2>1, <1>d DEF OwesRetry
<1>11. ASSUME CrashDrain(b) PROVE Goal
  BY <1>11 DEF CrashDrain
<1>12. ASSUME NEW d \in Drains, NEW s \in Slots, PullStep(d, s) PROVE Goal
  <2>1. ASSUME NEW r \in RunIds, ClaimListed(d, s, r) \/ SkipListed(d, s, r) PROVE Goal
    <3>1. UNCHANGED queuing /\ drain' = [drain EXCEPT ![d].list = @ \ {r}]
      BY <2>1 DEF ClaimListed, SkipListed
    <3>2. drain'[b].reclaimed = drain[b].reclaimed
      BY <3>1, <1>t DEF Drain
    <3> QED
      BY <3>1, <3>2, <1>1
  <2>2. ASSUME StopSlot(d, s) PROVE Goal
    BY <2>2, <1>1 DEF StopSlot
  <2> QED
    BY <1>12, <2>1, <2>2 DEF PullStep
<1>13. ASSUME UNCHANGED <<queuing, drain>> PROVE Goal
  BY <1>1, <1>13
<1> HIDE DEF Goal
<1>14. ASSUME NEW m \in Manuals, ManualStep(m) \/ CrashManual(m) PROVE Goal
  BY <1>13, <1>14 DEF ManualStep, ManualRead, ManualClaim, ManualInsert, CrashManual
<1>15. ASSUME NEW x \in Executors, ExecuteStep(x) PROVE Goal
  BY <1>13, <1>15 DEF ExecuteStep, LoadBundle, LoadFails, RecordThrows, RecordResult
<1>16. ASSUME NEW r \in RunIds, Settle(r) \/ Expire(r) PROVE Goal
  BY <1>13, <1>16 DEF Settle, Expire
<1>17. ASSUME UNCHANGED vars PROVE Goal
  BY <1>13, <1>17 DEF vars
<1>18. ASSUME NEW d \in Drains, SweepStep(d) \/ CrashDrain(d) PROVE Goal
  BY <1>5, <1>6, <1>7, <1>8, <1>9, <1>10, <1>11, <1>18 DEF SweepStep
<1> QED
  BY <1>3, <1>4, <1>12, <1>14, <1>15, <1>16, <1>17, <1>18 DEF Next, Goal

\* A row that stands for e and still has not missed a document leaves e with a
\* row that stands.
LEMMA StandStep ==
  ASSUME TypeOK, HeldRunning, QueueShape, ReclaimShape, Unread, FewDead, [Next]_vars,
         NEW q \in RunIds, NEW e \in Entries, entryOf[q] = e, entryOf'[q] = e,
         Serves(q, "document") \/ Excused(q, "document"), "document" \notin missed'[q]
  PROVE  Stands(e)'
<1>t. status \in [RunIds -> Status]
  BY DEF TypeOK
<1>1. ASSUME Serves(q, "document")' \/ Excused(q, "document")' PROVE Stands(e)'
  BY <1>1 DEF Stands
<1>2. CASE status[q] # "abandoned"
  <2>1. status[q] \in {"pending", "running", "succeeded", "failed"}
    BY <1>2 DEF Serves, Excused
  <2>2. \/ status'[q] \in {"pending", "running", "succeeded", "failed"}
        \/ status'[q] = "abandoned" /\ \E d \in Drains : q \in drain'[d].reclaimed
    BY <2>1, AliveStep
  <2> QED
    BY <2>2, <1>1 DEF Serves, Excused, OwesRetry
<1>3. CASE status[q] = "abandoned"
  <2>1. \/ \E d \in Drains : OwesRetry(d, q)
        \/ RetriesSpent(e)
        \/ q \in forsaken
    BY <1>3 DEF Serves, Excused
  <2>2. status'[q] = "abandoned"
    BY <1>3, OutcomeKept DEF Terminal
  <2>3. RetriesSpent(e) => RetriesSpent(e)'
    BY DeathsGrow
  <2>4. forsaken \subseteq forsaken'
    <3>1. (\E d \in Drains : CrashDrain(d)) \/ UNCHANGED forsaken
      BY DEF Next, vars, ghostVars, ChangerStep, QueueStep, SweepStep, PullStep, ManualStep,
         ExecuteStep, LinkDocument, ChangeRule, ApplyTariff, SelectAnalyzed, CommitTariff,
         StartAfterResponseDrain, CrashChanger, TouchPending, InsertConflict, InsertPending,
         InsertInTransaction, Queued, StartSweep, ReclaimExpired, CountDeaths,
         RequeueReclaimed, SeedUnanalyzed, ListPending, EndDrain, ClaimListed, SkipListed,
         StopSlot, ManualRead, ManualClaim, ManualInsert, CrashManual, LoadBundle, LoadFails,
         RecordThrows, RecordResult, Settle, Expire
    <3> QED
      BY <3>1 DEF CrashDrain
  <2>5. ASSUME NEW d \in Drains, OwesRetry(d, q)
        PROVE  OwesRetry(d, q)' \/ RetriesSpent(e) \/ q \in forsaken' \/ Stands(e)'
    BY <1>3, <2>5, OwedStep
  <2>6. ASSUME (\E d \in Drains : OwesRetry(d, q)') \/ RetriesSpent(e)' \/ q \in forsaken'
        PROVE  Excused(q, "document")'
    BY <2>2, <2>6 DEF Excused
  <2> QED
    BY <1>1, <2>1, <2>3, <2>4, <2>5, <2>6
<1> QED
  BY <1>2, <1>3

\* A step that makes no row miss a document, and drops a handler's target only
\* when a row stands for it, loses no document.
LEMMA ServedKept ==
  ASSUME TypeOK, HeldRunning, QueueShape, ReclaimShape, Unread, FewDead, [Next]_vars,
         DocumentChangeServed, RowsKept, HandlersKept
  PROVE  DocumentChangeServed'
<1> SUFFICES ASSUME NEW r \in RunIds, "document" \in missed'[r], NEW e, e = entryOf'[r]
             PROVE Stands(e)' \/ \E c \in Changers : QueuingChange(c, "document", e)'
  BY DEF DocumentChangeServed, ChangeServed, Stands
<1>1. "document" \in missed[r] /\ entryOf[r] = e /\ e \in Entries
  BY DEF RowsKept, Unread
<1>2. Stands(e) \/ \E c \in Changers : QueuingChange(c, "document", e)
  BY <1>1 DEF DocumentChangeServed, ChangeServed, Stands
<1>3. ASSUME Stands(e) PROVE Stands(e)'
  <2>1. PICK q \in RunIds : /\ entryOf[q] = e
                            /\ Serves(q, "document") \/ Excused(q, "document")
    BY <1>3 DEF Stands
  <2>2. Present(q) /\ "document" \notin missed[q]
    BY <2>1 DEF Serves, Excused, Present
  <2>3. entryOf'[q] = e /\ "document" \notin missed'[q]
    BY <2>1, <2>2 DEF RowsKept
  <2> QED
    BY <1>1, <2>1, <2>3, StandStep
<1>4. ASSUME NEW c \in Changers, QueuingChange(c, "document", e)
      PROVE  QueuingChange(c, "document", e)' \/ Stands(e)'
  BY <1>1, <1>4 DEF HandlersKept
<1> QED
  BY <1>2, <1>3, <1>4

\* A handler that links a document holds every entry the document touches.
LEMMA LinkServes ==
  ASSUME TypeOK, HeldRunning, QueueShape, ReclaimShape, Unread, FewDead, [Next]_vars,
         DocumentChangeServed, NEW c \in Changers, NEW E \in SUBSET Entries,
         LinkDocument(c, E)
  PROVE  DocumentChangeServed'
<1>t. queuing \in [Callers -> Call] /\ Changers \subseteq Callers
  BY DEF TypeOK, Callers
<1>1. /\ queuing'[c].kind = "document" /\ queuing'[c].pc = "touch"
      /\ queuing'[c].targets = E /\ queuing[c].pc = "idle"
      /\ \A d \in Changers : d # c => queuing'[d] = queuing[d]
      /\ UNCHANGED <<status, entryOf>>
  BY <1>t DEF LinkDocument, IdleCall
<1>2. \A r \in RunIds :
        missed'[r] = IF DoneReading(r) /\ entryOf[r] \in E
                       THEN missed[r] \cup {"document"} ELSE missed[r]
  BY DEF LinkDocument, Miss
<1> SUFFICES ASSUME NEW r \in RunIds, "document" \in missed'[r], NEW e, e = entryOf[r]
             PROVE Stands(e)' \/ \E d \in Changers : QueuingChange(d, "document", e)'
  BY <1>1 DEF DocumentChangeServed, ChangeServed, Stands
<1>3. CASE e \in E
  BY <1>1, <1>3 DEF QueuingChange
<1>4. CASE e \notin E
  <2>1. "document" \in missed[r] /\ e \in Entries
    BY <1>2, <1>4 DEF Unread
  <2>2. ASSUME Stands(e) PROVE Stands(e)'
    <3>1. PICK q \in RunIds : /\ entryOf[q] = e
                              /\ Serves(q, "document") \/ Excused(q, "document")
      BY <2>2 DEF Stands
    <3>2. entryOf'[q] = e /\ "document" \notin missed'[q]
      BY <3>1, <1>1, <1>2, <1>4 DEF Serves, Excused
    <3> QED
      BY <2>1, <3>1, <3>2, StandStep
  <2>3. ASSUME NEW d \in Changers, QueuingChange(d, "document", e)
        PROVE  QueuingChange(d, "document", e)'
    BY <1>1, <2>3 DEF QueuingChange
  <2> QED
    BY <2>1, <2>2, <2>3 DEF DocumentChangeServed, ChangeServed, Stands
<1> QED
  BY <1>3, <1>4

\* Every step serves every linked document.
LEMMA ServedStep ==
  ASSUME TypeOK, HeldRunning, QueueShape, ReclaimShape, Unread, FewDead,
         DocumentChangeServed, [Next]_vars
  PROVE  Unread' /\ DocumentChangeServed'
<1>1. Unread' /\ (RowsKept \/ \E c \in Changers, E \in SUBSET Entries : LinkDocument(c, E))
  BY RowStep
<1>2. HandlersKept \/ \E c \in Changers, E \in SUBSET Entries : LinkDocument(c, E)
  BY HandlerStep
<1>3. ASSUME NEW c \in Changers, NEW E \in SUBSET Entries, LinkDocument(c, E)
      PROVE  DocumentChangeServed'
  BY <1>3, LinkServes
<1>4. RowsKept /\ HandlersKept => DocumentChangeServed'
  BY ServedKept
<1> QED
  BY <1>1, <1>2, <1>3, <1>4

-----------------------------------------------------------------------------
(* The theorems.                                                           *)

\* The initial states are well-typed and satisfy the invariant.
LEMMA QueueInit == Init => TypeOK /\ QueueInv
<1> SUFFICES ASSUME Init PROVE TypeOK /\ QueueInv
  OBVIOUS
<1>1. TypeOK
  BY DEF Init, TypeOK, Status, Call, IdleCall, Kinds, Drain, OffDrain, Exec, OffExec
<1>2. HeldRunning /\ SoleRunner /\ ExpiredRunning
  BY DEF Init, HeldRunning, SoleRunner, ExpiredRunning, Holding, OffExec
<1>3. OnePending
  BY DEF Init, OnePending, Pending
<1>4. QueueShape /\ Uncommitted
  BY DEF Init, QueueShape, Uncommitted, IdleCall, Callers
<1>5. Unread /\ DocumentChangeServed
  BY DEF Init, Unread, DocumentChangeServed, ChangeServed
<1>6. ReclaimShape
  BY DEF Init, ReclaimShape, OffDrain, IdleCall, Callers
<1>7. FewDead
  <2>1. {r \in RunIds : expired[r]} = {} /\ \A e \in Entries : DeadRuns(e) = {}
    BY DEF Init, DeadRuns
  <2> QED
    BY <2>1, FS_EmptySet DEF FewDead
<1> QED
  BY <1>1, <1>2, <1>3, <1>4, <1>5, <1>6, <1>7 DEF QueueInv

\* Every step keeps the invariant.
LEMMA QueueStepInv == TypeOK /\ QueueInv /\ [Next]_vars => (TypeOK /\ QueueInv)'
BY TypeStep, HeldStep, ShapeStep, PendingStep, ReclaimStep, FewStep, ServedStep DEF QueueInv

\* The statements of the queue and its runners keep every column and frame in
\* its type, however they interleave and crash.
THEOREM TypeCorrect == Spec => []TypeOK
BY QueueInit, TypeStep, PTL DEF Spec

\* QueueInv and TypeOK hold in every reachable state.
THEOREM QueueInvariant == Spec => [](TypeOK /\ QueueInv)
BY QueueInit, QueueStepInv, PTL DEF Spec

\* An entry never has two pending rows: concurrent queueing calls, an apply
\* transaction and the re-queue of dead runs cannot double-enqueue it.
THEOREM OnePendingAlways == Spec => []OnePending
<1>1. TypeOK /\ QueueInv => OnePending
  BY DEF QueueInv
<1> QED
  BY <1>1, QueueInvariant, PTL

\* A row is held by one executor at most: overlapping drains and requests
\* never run one row twice (claimPendingRun).
THEOREM SoleRunnerAlways == Spec => []SoleRunner
<1>1. TypeOK /\ QueueInv => SoleRunner
  BY DEF QueueInv
<1> QED
  BY <1>1, QueueInvariant, PTL

\* No linked document is lost in silence, whatever runs when it lands and
\* whoever dies: a row serves it, or its handler is still queueing the entry,
\* or the run that was to read it failed and says so, or died and is owed a
\* retry, has spent them, or was forsaken by a sweep that was cut off.
THEOREM DocumentChangeServedAlways == Spec => []DocumentChangeServed
<1>1. TypeOK /\ QueueInv => DocumentChangeServed
  BY DEF QueueInv
<1> QED
  BY <1>1, QueueInvariant, PTL

\* An outcome is written once: no runner, late or not, and no reclaim rewrites
\* a row that has succeeded or failed.
THEOREM OutcomeFinalAlways == Spec => OutcomeFinal
<1>1. TypeOK /\ QueueInv /\ [Next]_vars
        => [\A r \in RunIds : status[r] \in Terminal => status'[r] = status[r]]_vars
  BY OutcomeKept DEF QueueInv
<1> QED
  BY <1>1, QueueInvariant, PTL DEF Spec, OutcomeFinal
-----------------------------------------------------------------------------
(* Retries are bounded: each is paid for by a death of its own.            *)

\* The step adds no retry of e, and no sweep comes to owe a run of e that was
\* dead already.
Spends(e) ==
  /\ requeues'[e] = requeues[e]
  /\ Retrying(e)' \subseteq Retrying(e)
  /\ Granted(e)' \subseteq Granted(e)
  /\ Owed(e)' \cap DeadRuns(e) \subseteq Owed(e)

\* An insert makes a retry of a call's target.
Inserts(e) ==
  \E c \in Retrying(e) :
    /\ requeues'[e] = requeues[e] + 1
    /\ Retrying(e)' \subseteq Retrying(e) \ {c}
    /\ Granted(e)' \subseteq Granted(e)
    /\ Owed(e)' \subseteq Owed(e)

\* A count within the bound grants the rows a sweep owes.
Grants(e) ==
  /\ requeues'[e] = requeues[e]
  /\ Deaths(e) <= MaxRetries
  /\ Retrying(e)' \subseteq Retrying(e)
  /\ Granted(e)' \subseteq Owed(e)
  /\ Owed(e)' \subseteq Owed(e)

\* A batch turns a granted row into a call's target.
Batches(e) ==
  \E r \in Granted(e), d \in Drains :
    /\ requeues'[e] = requeues[e]
    /\ Retrying(e)' \subseteq Retrying(e) \cup {d}
    /\ Granted(e)' \subseteq Granted(e) \ {r}
    /\ Owed(e)' \subseteq Owed(e) \ {r}

\* A step is one of these to an entry: only failAbandonedRuns and the inserts
\* of its own queueing calls deal in retries.
LEMMA TokenStep ==
  ASSUME TypeOK, HeldRunning, QueueShape, ReclaimShape, FewDead, [Next]_vars,
         NEW e \in Entries
  PROVE  Spends(e) \/ Inserts(e) \/ Grants(e) \/ Batches(e)
<1> DEFINE Goal == Spends(e) \/ Inserts(e) \/ Grants(e) \/ Batches(e)
<1>t. /\ queuing \in [Callers -> Call] /\ drain \in [Drains -> Drain]
      /\ requeues \in [Entries -> Nat] /\ Drains \subseteq Callers
      /\ status \in [RunIds -> Status] /\ entryOf \in [RunIds -> Entries \cup {NoEntry}]
  BY DEF TypeOK, Callers
<1>d. \A d \in Drains : \A r \in drain[d].reclaimed :
        r \in RunIds /\ status[r] = "abandoned" /\ entryOf'[r] = entryOf[r]
  <2> TAKE d \in Drains
  <2> TAKE r \in drain[d].reclaimed
  <2>1. r \in RunIds /\ status[r] = "abandoned"
    BY <1>t DEF Drain, ReclaimShape
  <2>2. entryOf[r] \in Entries \cup {NoEntry}
    BY <2>1, <1>t
  <2> QED
    BY <2>1, <2>2, DeadStay DEF DeadRuns
<1>1. ASSUME NEW c \in Callers, NEW f \in Entries, NEW r \in RunIds, InsertPending(c, f, r)
      PROVE  Goal
  <2>1. /\ \A d \in Callers : d # c => queuing'[d] = queuing[d]
        /\ queuing'[c].kind = queuing[c].kind
        /\ queuing'[c].targets = queuing[c].targets \ {f}
        /\ f \in queuing[c].targets /\ UNCHANGED drain
        /\ requeues'[e] = IF e = f /\ queuing[c].kind = "requeue"
                            THEN requeues[e] + 1 ELSE requeues[e]
    BY <1>1, <1>t DEF InsertPending, Call
  <2>2. /\ Retrying(e)' \subseteq Retrying(e)
        /\ Granted(e)' \subseteq Granted(e) /\ Owed(e)' \subseteq Owed(e)
    BY <2>1, <1>d DEF Granted, Retrying, Owed
  <2>3. CASE e = f /\ queuing[c].kind = "requeue"
    <3>1. c \in Retrying(e) /\ c \notin Retrying(e)'
      BY <2>1, <2>3 DEF Retrying
    <3> QED
      BY <2>1, <2>2, <2>3, <3>1 DEF Inserts
  <2>4. CASE ~(e = f /\ queuing[c].kind = "requeue")
    BY <2>1, <2>2, <2>4 DEF Spends
  <2> QED
    BY <2>3, <2>4
<1>2. ASSUME NEW d \in Drains, ReclaimExpired(d) PROVE Goal
  <2> DEFINE dead == {r \in RunIds : status[r] = "running" /\ expired[r]}
  <2>1. /\ UNCHANGED <<queuing, requeues, entryOf>>
        /\ \A b \in Drains : b # d => drain'[b] = drain[b]
        /\ drain'[d].reclaimed = dead /\ drain'[d].pc # "requeue"
    BY <1>2, <1>t DEF ReclaimExpired, Drain, ghostVars
  <2>2. \A r \in dead : r \notin DeadRuns(e)
    BY DEF DeadRuns
  <2> HIDE DEF dead
  <2> QED
    BY <2>1, <2>2 DEF Spends, Retrying, Granted, Owed
<1>3. ASSUME NEW d \in Drains, NEW rows \in SUBSET RunIds, RequeueReclaimed(d, rows)
      PROVE  Goal
  <2>1. /\ \A c \in Callers : c # d => queuing'[c] = queuing[c]
        /\ queuing'[d].targets = {f \in Entries : \E r \in rows : entryOf[r] = f}
        /\ UNCHANGED <<requeues, entryOf>>
    BY <1>3, <1>t DEF RequeueReclaimed, IdleCall, ghostVars, rowVars
  <2>2. /\ \A b \in Drains : b # d => drain'[b] = drain[b]
        /\ drain'[d].reclaimed = drain[d].reclaimed \ rows
        /\ drain[d].pc = "requeue" /\ rows \subseteq drain[d].reclaimed
    BY <1>3, <1>t DEF RequeueReclaimed, Drain
  <2>3. Granted(e)' \subseteq Granted(e) /\ Owed(e)' \subseteq Owed(e)
    BY <2>1, <2>2 DEF Granted, Owed
  <2>4. Retrying(e)' \subseteq Retrying(e) \cup {d}
    BY <2>1 DEF Retrying
  <2>5. ASSUME NEW r \in rows, entryOf[r] = e PROVE Goal
    <3>1. r \in Granted(e)
      BY <2>2, <2>5 DEF Granted
    <3>2. \A b \in Drains : r \notin drain'[b].reclaimed
      BY <2>2, <2>5 DEF ReclaimShape
    <3>3. r \notin Granted(e)' /\ r \notin Owed(e)'
      BY <3>2 DEF Granted, Owed
    <3> QED
      BY <2>1, <2>3, <2>4, <3>1, <3>3 DEF Batches
  <2>6. ASSUME ~\E r \in rows : entryOf[r] = e PROVE Goal
    <3>1. Retrying(e)' \subseteq Retrying(e)
      BY <2>1, <2>6 DEF Retrying
    <3> QED
      BY <2>1, <2>3, <3>1 DEF Spends
  <2> QED
    BY <2>5, <2>6
<1>4. ASSUME NEW d \in Drains, CountDeaths(d) PROVE Goal
  <2> DEFINE left == {r \in drain[d].reclaimed : ~RetriesSpent(entryOf[r])}
  <2>1. UNCHANGED <<queuing, requeues, entryOf>>
    BY <1>4 DEF CountDeaths, rowVars, ghostVars
  <2>2. /\ \A b \in Drains : b # d => drain'[b] = drain[b]
        /\ drain'[d].reclaimed = left
    BY <1>4, <1>t DEF CountDeaths, Drain
  <2>3. Retrying(e)' = Retrying(e) /\ Owed(e)' \subseteq Owed(e) /\ Granted(e)' \subseteq Owed(e)
    BY <2>1, <2>2 DEF Retrying, Owed, Granted
  <2>4. CASE RetriesSpent(e)
    <3>1. Granted(e)' \subseteq Granted(e)
      BY <2>1, <2>2, <2>4 DEF Granted
    <3> QED
      BY <2>1, <2>3, <3>1 DEF Spends
  <2>5. CASE ~RetriesSpent(e)
    <3>1. Deaths(e) <= MaxRetries
      <4>1. IsFiniteSet(DeadRuns(e)) => Cardinality(DeadRuns(e)) \in Nat
        BY FS_CardinalityType
      <4> QED
        BY <4>1, <2>5, BoundsAssumption DEF RetriesSpent, Deaths, FewDead
    <3> QED
      BY <2>1, <2>3, <3>1 DEF Grants
  <2> QED
    BY <2>4, <2>5
<1>5. ASSUME UNCHANGED requeues, DebtsKept, CallsKept, ~\E d \in Drains : CountDeaths(d)
      PROVE  Goal
  <2>1. Retrying(e)' \subseteq Retrying(e)
    BY <1>5 DEF CallsKept, Retrying
  <2>2. Granted(e)' \subseteq Granted(e) /\ Owed(e)' \subseteq Owed(e)
    BY <1>5, <1>d DEF DebtsKept, Granted, Owed
  <2> QED
    BY <1>5, <2>1, <2>2 DEF Spends
<1>6. \/ \E c \in Callers, f \in Entries, r \in RunIds : InsertPending(c, f, r)
      \/ UNCHANGED requeues
  BY DEF Next, vars, ghostVars, ChangerStep, QueueStep, SweepStep, PullStep, ManualStep,
     ExecuteStep, LinkDocument, ChangeRule, ApplyTariff, SelectAnalyzed, CommitTariff,
     StartAfterResponseDrain, CrashChanger, TouchPending, InsertConflict,
     InsertInTransaction, Queued, StartSweep, ReclaimExpired, CountDeaths,
     RequeueReclaimed, SeedUnanalyzed, ListPending, EndDrain, CrashDrain, ClaimListed,
     SkipListed, StopSlot, ManualRead, ManualClaim, ManualInsert, CrashManual, LoadBundle,
     LoadFails, RecordThrows, RecordResult, Settle, Expire
<1> HIDE DEF Goal
<1>7. Goal
  BY <1>1, <1>2, <1>3, <1>4, <1>5, <1>6, DebtStep
<1> QED
  BY <1>7 DEF Goal

\* Whatever a step does to an entry, its retries stay paid for.
LEMMA RetryStep ==
  ASSUME TypeOK, QueueInv, RetriesPaid, [Next]_vars
  PROVE  RetriesPaid'
<1>1. HeldRunning /\ QueueShape /\ ReclaimShape /\ FewDead
  BY DEF QueueInv
<1> SUFFICES ASSUME NEW e \in Entries
             PROVE  /\ IsFiniteSet(Retrying(e)')
                    /\ requeues'[e] + Cardinality(Retrying(e)')
                         <= Cardinality(DeadRuns(e)' \ Owed(e)')
                    /\ requeues'[e] + Cardinality(Retrying(e)') + Cardinality(Granted(e)')
                         <= MaxRetries
  BY DEF RetriesPaid
<1> DEFINE D == DeadRuns(e)   D2 == DeadRuns(e)'
           R == Retrying(e)   R2 == Retrying(e)'
           G == Granted(e)    G2 == Granted(e)'
           O == Owed(e)       O2 == Owed(e)'
           n == requeues[e]   n2 == requeues'[e]
<1>2. IsFiniteSet(D) /\ IsFiniteSet(D2) /\ IsFiniteSet(R) /\ D \subseteq D2
  BY <1>1, FewStep, DeadStay DEF FewDead, RetriesPaid
<1>3. O \subseteq D /\ G \subseteq O
  BY <1>1 DEF Owed, Granted, DeadRuns, ReclaimShape
<1>4. /\ n + Cardinality(R) <= Cardinality(D \ O)
      /\ n + Cardinality(R) + Cardinality(G) <= MaxRetries
      /\ n \in Nat /\ MaxRetries \in Nat
  BY BoundsAssumption DEF RetriesPaid, TypeOK
<1>5. \A S, T : IsFiniteSet(T) /\ S \subseteq T =>
         IsFiniteSet(S) /\ Cardinality(S) \in Nat /\ Cardinality(T) \in Nat
         /\ Cardinality(S) <= Cardinality(T)
  BY FS_Subset, FS_CardinalityType
<1>6. Spends(e) \/ Inserts(e) \/ Grants(e) \/ Batches(e)
  BY <1>1, TokenStep
<1>7. CASE Spends(e)
  <2>1. n2 = n /\ R2 \subseteq R /\ G2 \subseteq G /\ O2 \cap D \subseteq O
    BY <1>7 DEF Spends
  <2> HIDE DEF D, D2, R, R2, G, G2, O, O2, n, n2
  <2>2. D \ O \subseteq D2 \ O2
    BY <1>2, <2>1
  <2>3. IsFiniteSet(G) /\ IsFiniteSet(D2 \ O2)
    BY <1>2, <1>3, <1>5
  <2>4. /\ IsFiniteSet(R2) /\ Cardinality(R2) \in Nat /\ Cardinality(R) \in Nat
        /\ Cardinality(R2) <= Cardinality(R)
    BY <1>2, <1>5, <2>1
  <2>5. /\ Cardinality(G2) \in Nat /\ Cardinality(G) \in Nat
        /\ Cardinality(G2) <= Cardinality(G)
    BY <1>5, <2>1, <2>3
  <2>6. /\ Cardinality(D \ O) \in Nat /\ Cardinality(D2 \ O2) \in Nat
        /\ Cardinality(D \ O) <= Cardinality(D2 \ O2)
    BY <1>5, <2>2, <2>3
  <2> QED
    BY <1>4, <2>1, <2>4, <2>5, <2>6 DEF D2, R2, G2, O2, n2
<1>8. CASE Inserts(e)
  <2>1. PICK c \in R : n2 = n + 1 /\ R2 \subseteq R \ {c} /\ G2 \subseteq G /\ O2 \subseteq O
    BY <1>8 DEF Inserts
  <2> HIDE DEF D, D2, R, R2, G, G2, O, O2, n, n2
  <2>2. D \ O \subseteq D2 \ O2
    BY <1>2, <2>1
  <2>3. IsFiniteSet(G) /\ IsFiniteSet(D2 \ O2)
    BY <1>2, <1>3, <1>5
  <2>4. IsFiniteSet(R \ {c}) /\ Cardinality(R \ {c}) = Cardinality(R) - 1
    BY <1>2, FS_RemoveElement
  <2>5. /\ IsFiniteSet(R2) /\ Cardinality(R2) \in Nat /\ Cardinality(R) \in Nat
        /\ Cardinality(R2) <= Cardinality(R) - 1
    BY <1>2, <1>5, <2>1, <2>4
  <2>6. /\ Cardinality(G2) \in Nat /\ Cardinality(G) \in Nat
        /\ Cardinality(G2) <= Cardinality(G)
    BY <1>5, <2>1, <2>3
  <2>7. /\ Cardinality(D \ O) \in Nat /\ Cardinality(D2 \ O2) \in Nat
        /\ Cardinality(D \ O) <= Cardinality(D2 \ O2)
    BY <1>5, <2>2, <2>3
  <2> QED
    BY <1>4, <2>1, <2>5, <2>6, <2>7 DEF D2, R2, G2, O2, n2
<1>9. CASE Grants(e)
  <2>1. n2 = n /\ R2 \subseteq R /\ G2 \subseteq O /\ O2 \subseteq O
    BY <1>9 DEF Grants
  <2>2. Cardinality(D) <= MaxRetries
    BY <1>9 DEF Grants, Deaths
  <2> HIDE DEF D, D2, R, R2, G, G2, O, O2, n, n2
  <2>3. D \ O \subseteq D2 \ O2
    BY <1>2, <2>1
  <2>4. IsFiniteSet(O) /\ IsFiniteSet(D \ O) /\ IsFiniteSet(D2 \ O2)
    BY <1>2, <1>3, <1>5
  <2>5. /\ IsFiniteSet(R2) /\ Cardinality(R2) \in Nat /\ Cardinality(R) \in Nat
        /\ Cardinality(R2) <= Cardinality(R)
    BY <1>2, <1>5, <2>1
  <2>6. /\ Cardinality(G2) \in Nat /\ Cardinality(O) \in Nat
        /\ Cardinality(G2) <= Cardinality(O)
    BY <1>5, <2>1, <2>4
  <2>7. /\ Cardinality(D \ O) \in Nat /\ Cardinality(D2 \ O2) \in Nat
        /\ Cardinality(D \ O) <= Cardinality(D2 \ O2)
    BY <1>5, <2>3, <2>4
  <2>8. Cardinality(D) = Cardinality(D \ O) + Cardinality(O)
    <3>1. (D \ O) \cup O = D /\ (D \ O) \cap O = {}
      BY <1>3
    <3>2. Cardinality((D \ O) \cup O) =
            Cardinality(D \ O) + Cardinality(O) - Cardinality((D \ O) \cap O)
      BY <2>4, FS_Union
    <3>3. Cardinality((D \ O) \cap O) = 0
      BY <3>1, FS_EmptySet
    <3>4. Cardinality((D \ O) \cup O) = Cardinality(D)
      BY <3>1
    <3> DEFINE a == Cardinality(D \ O)
               b == Cardinality(O)
               z == Cardinality((D \ O) \cap O)
    <3>5. a \in Nat /\ b \in Nat /\ z = 0 /\ Cardinality(D) = a + b - z
      BY <3>2, <3>3, <3>4, <2>6, <2>7
    <3> HIDE DEF a, b, z
    <3>6. Cardinality(D) = a + b
      BY <3>5
    <3> QED
      BY <3>6 DEF a, b
  <2> QED
    BY <1>4, <2>1, <2>2, <2>5, <2>6, <2>7, <2>8 DEF D2, R2, G2, O2, n2
<1>10. CASE Batches(e)
  <2>1. PICK r \in G, d \in Drains :
          n2 = n /\ R2 \subseteq R \cup {d} /\ G2 \subseteq G \ {r} /\ O2 \subseteq O \ {r}
    BY <1>10 DEF Batches
  <2> HIDE DEF D, D2, R, R2, G, G2, O, O2, n, n2
  <2>2. (D \ O) \cup {r} \subseteq D2 \ O2 /\ r \notin D \ O
    BY <1>2, <1>3, <2>1
  <2>3. IsFiniteSet(G) /\ IsFiniteSet(D \ O) /\ IsFiniteSet(D2 \ O2)
    BY <1>2, <1>3, <1>5
  <2>4. Cardinality((D \ O) \cup {r}) = Cardinality(D \ O) + 1
    BY <2>2, <2>3, FS_AddElement
  <2>5. /\ Cardinality(D \ O) \in Nat /\ Cardinality(D2 \ O2) \in Nat
        /\ Cardinality(D \ O) + 1 <= Cardinality(D2 \ O2)
    BY <1>5, <2>2, <2>3, <2>4
  <2>6. /\ IsFiniteSet(R \cup {d}) /\ Cardinality(R) \in Nat
        /\ Cardinality(R \cup {d}) \in Nat /\ Cardinality(R \cup {d}) <= Cardinality(R) + 1
    <3>1. Cardinality(R) \in Nat
      BY <1>2, FS_CardinalityType
    <3>2. /\ IsFiniteSet(R \cup {d})
          /\ Cardinality(R \cup {d}) = IF d \in R THEN Cardinality(R) ELSE Cardinality(R) + 1
      BY <1>2, FS_AddElement
    <3> QED
      BY <3>1, <3>2
  <2>7. /\ IsFiniteSet(R2) /\ Cardinality(R2) \in Nat
        /\ Cardinality(R2) <= Cardinality(R \cup {d})
    BY <1>5, <2>1, <2>6
  <2>8. IsFiniteSet(G \ {r}) /\ Cardinality(G \ {r}) = Cardinality(G) - 1
    BY <2>1, <2>3, FS_RemoveElement
  <2>9. /\ Cardinality(G2) \in Nat /\ Cardinality(G) \in Nat
        /\ Cardinality(G2) <= Cardinality(G) - 1
    BY <1>5, <2>1, <2>3, <2>8
  <2> QED
    BY <1>4, <2>1, <2>5, <2>6, <2>7, <2>9 DEF D2, R2, G2, O2, n2
<1> QED
  BY <1>6, <1>7, <1>8, <1>9, <1>10

\* At the start nothing has died and nobody owes a retry.
LEMMA RetryInit == Init => RetriesPaid
<1> SUFFICES ASSUME Init PROVE RetriesPaid
  OBVIOUS
<1>1. \A e \in Entries :
        Retrying(e) = {} /\ Granted(e) = {} /\ DeadRuns(e) \ Owed(e) = {} /\ requeues[e] = 0
  BY DEF Init, DeadRuns, Granted, Retrying, IdleCall, OffDrain
<1>2. IsFiniteSet({}) /\ Cardinality({}) = 0 /\ MaxRetries \in Nat
  BY FS_EmptySet, BoundsAssumption
<1> QED
  BY <1>1, <1>2 DEF RetriesPaid

\* The reclaim re-queues an entry at most MAX_ABANDONED_RETRIES times, however
\* many sweeps reclaim, count deaths and insert at the same time: each retry is
\* paid for by a death of its own, and grants stop at the bound.
THEOREM RetriesBoundedAlways == Spec => []RetriesBounded
<1>1. TypeOK /\ QueueInv /\ RetriesPaid /\ [Next]_vars => RetriesPaid'
  BY RetryStep
<1>2. TypeOK /\ QueueInv /\ RetriesPaid => RetriesBounded
  <2> SUFFICES ASSUME TypeOK, QueueInv, RetriesPaid, NEW e \in Entries
               PROVE  requeues[e] <= MaxRetries
    BY DEF RetriesBounded
  <2>1. /\ IsFiniteSet(Retrying(e))
        /\ requeues[e] + Cardinality(Retrying(e)) + Cardinality(Granted(e)) <= MaxRetries
    BY DEF RetriesPaid
  <2>2. Granted(e) \subseteq DeadRuns(e) /\ IsFiniteSet(DeadRuns(e))
    BY DEF QueueInv, ReclaimShape, FewDead, Granted, DeadRuns
  <2>3. Cardinality(Retrying(e)) \in Nat /\ Cardinality(Granted(e)) \in Nat
    BY <2>1, <2>2, FS_Subset, FS_CardinalityType
  <2>4. requeues[e] \in Nat /\ MaxRetries \in Nat
    BY BoundsAssumption DEF TypeOK
  <2> QED
    BY <2>1, <2>3, <2>4
<1> QED
  BY <1>1, <1>2, RetryInit, QueueInvariant, PTL DEF Spec
=============================================================================
