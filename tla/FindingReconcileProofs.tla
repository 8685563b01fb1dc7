----------------------- MODULE FindingReconcileProofs -----------------------
(* Theorems about what is found.  FindingReconcile: type correctness, that  *)
(* a judgment taken in peace is kept for ever, and that an undisturbed      *)
(* reconcile heals the entry, for every number of runs, requests, findings  *)
(* and decisions.  DutyAudit: that what is expected of a line is decided by *)
(* what is on file, and that the findings about money are fair, for every   *)
(* reference, line, sail dates and filing; its loops are characterised one  *)
(* by one.                                                                  *)
EXTENDS FindingReconcile, DutyAudit, Induction, SequenceTheorems

-----------------------------------------------------------------------------
(* The keys of a report.                                                   *)

LEMMA ReportShape ==
  ASSUME NEW report \in Reports
  PROVE  \E n \in 0..MaxReport :
           DOMAIN report = 1..n /\ \A i \in 1..n : report[i] \in Finding
  BY DEF Reports

\* Every finding of a report has a key of the table.
LEMMA KeyOfType ==
  ASSUME NEW report \in Reports, NEW i \in DOMAIN report
  PROVE  KeyOf(report, i) \in Keys
<1>1. PICK n \in 0..MaxReport :
        DOMAIN report = 1..n /\ \A j \in 1..n : report[j] \in Finding
  BY ReportShape
<1> DEFINE Same == {j \in 1..i : report[j].base = report[i].base}
<1>2. i \in 1..MaxReport /\ n \in Nat /\ i \in Nat /\ i <= n
  BY <1>1, BoundsAssumption
<1>3. IsFiniteSet(1..i) /\ Cardinality(1..i) = i
  BY <1>2, FS_Interval
<1>4. IsFiniteSet(Same) /\ Cardinality(Same) <= i
  BY <1>3, FS_Subset
<1>5. Cardinality(Same) # 0
  <2>1. i \in Same
    BY <1>2
  <2> QED BY <2>1, <1>4, FS_EmptySet
<1>6. Cardinality(Same) \in 1..MaxReport
  BY <1>4, <1>5, <1>2, FS_CardinalityType, BoundsAssumption
<1>7. report[i].base \in Bases
  BY <1>1 DEF Finding
<1> QED BY <1>6, <1>7 DEF KeyOf, Keys

\* assignFindingKeys never gives one key to two findings of a report.
THEOREM KeysDistinct ==
  ASSUME NEW report \in Reports,
         NEW i \in DOMAIN report, NEW j \in DOMAIN report,
         KeyOf(report, i) = KeyOf(report, j)
  PROVE  i = j
<1>1. PICK n \in 0..MaxReport :
        DOMAIN report = 1..n /\ \A m \in 1..n : report[m] \in Finding
  BY ReportShape
<1>2. n \in Nat /\ i \in Nat /\ j \in Nat
  BY <1>1, BoundsAssumption
<1> DEFINE Upto(m) == {l \in 1..m : report[l].base = report[m].base}
<1>3. report[i].base = report[j].base /\ Cardinality(Upto(i)) = Cardinality(Upto(j))
  BY DEF KeyOf
<1>4. ASSUME NEW a \in DOMAIN report, NEW b \in DOMAIN report,
             report[a].base = report[b].base, a < b
      PROVE  Cardinality(Upto(a)) # Cardinality(Upto(b))
  <2>1. a \in Nat /\ b \in Nat /\ 1 <= b /\ 1 <= a
    BY <1>1, <1>2
  <2>2. IsFiniteSet(1..b)
    BY <2>1, FS_Interval
  <2>3. IsFiniteSet(Upto(b))
    BY <2>2, FS_Subset
  <2>4. Upto(a) \subseteq Upto(b)
    BY <2>1, <1>4
  <2>5. b \in Upto(b) /\ b \notin Upto(a)
    BY <2>1, <1>4
  <2>6. Cardinality(Upto(a)) = Cardinality(Upto(b)) => Upto(a) = Upto(b)
    BY <2>3, <2>4, FS_Subset
  <2> QED BY <2>5, <2>6
<1>5. ~(i < j) /\ ~(j < i)
  BY <1>3, <1>4
<1> QED BY <1>2, <1>5

\* What a report wants under each key.
LEMMA DesiredType ==
  ASSUME NEW report \in Reports
  PROVE  /\ Desired(report) \in [Keys -> Texts \cup {NoText}]
         /\ \A i \in DOMAIN report :
              Desired(report)[KeyOf(report, i)] = report[i].text
         /\ \A k \in Keys : Desired(report)[k] # NoText =>
              \E i \in DOMAIN report : KeyOf(report, i) = k
         /\ \A i \in DOMAIN report : report[i].text \in Texts
<1>1. PICK n \in 0..MaxReport :
        DOMAIN report = 1..n /\ \A m \in 1..n : report[m] \in Finding
  BY ReportShape
<1>2. \A i \in DOMAIN report : report[i].text \in Texts
  BY <1>1 DEF Finding
<1>3. ASSUME NEW k \in Keys
      PROVE  Desired(report)[k] \in Texts \cup {NoText}
  BY <1>2 DEF Desired
<1>4. ASSUME NEW i \in DOMAIN report
      PROVE  Desired(report)[KeyOf(report, i)] = report[i].text
  <2> DEFINE j == CHOOSE m \in DOMAIN report : KeyOf(report, m) = KeyOf(report, i)
  <2>1. j \in DOMAIN report /\ KeyOf(report, j) = KeyOf(report, i)
    OBVIOUS
  <2>2. j = i
    BY <2>1, KeysDistinct
  <2> QED BY <2>2, KeyOfType DEF Desired
<1> QED BY <1>2, <1>3, <1>4 DEF Desired

-----------------------------------------------------------------------------
(* Type correctness.                                                       *)

LEMMA IdleTypes ==
  /\ NoRow \in Row
  /\ <<>> \in Reports
  /\ IdleWriter \in Writer
  /\ Off \in Human
<1>1. NoRow \in Row
  BY DEF Row
<1>2. <<>> \in [1..0 -> Finding]
  OBVIOUS
<1>3. 0 \in 0..MaxReport
  BY BoundsAssumption
<1>4. <<>> \in Reports
  BY <1>2, <1>3 DEF Reports
<1> QED BY <1>1, <1>4 DEF IdleWriter, Writer, Off, Human

LEMMA TypeInit == Init => TypeOK
<1> SUFFICES ASSUME Init PROVE TypeOK
  OBVIOUS
<1> USE DEF Init, TypeOK
<1>1. row \in [Keys -> Row]
  BY IdleTypes
<1>2. writer \in [Writers -> Writer] /\ human \in [Humans -> Human]
  BY IdleTypes
<1> QED BY <1>1, <1>2

\* A refreshed row is a row.
LEMMA RefreshedRow ==
  ASSUME NEW r \in Row, r.status # "none", NEW t \in Texts
  PROVE  [r EXCEPT !.text = t] \in Row
  BY DEF Row, NoRow, Decided

LEMMA DecidedRow ==
  ASSUME NEW r \in Row, r.id # 0, NEW to \in {"open"} \cup Decided
  PROVE  [r EXCEPT !.status = to] \in Row
  BY DEF Row, NoRow, Decided

\* A step that moves a run on leaves its plan alone.
LEMMA MovesOn ==
  ASSUME TypeOK, NEW v \in Writers, NEW pc,
         writer' = [writer EXCEPT ![v].pc = pc], NEW w \in Writers
  PROVE  /\ writer'[w].pc = IF w = v THEN pc ELSE writer[w].pc
         /\ writer'[w].todo = writer[w].todo
         /\ writer'[w].report = writer[w].report
         /\ writer'[w].seen = writer[w].seen
         /\ Want(w)' = Want(w)
         /\ Inserts(w)' = Inserts(w)
         /\ Deletes(w)' = Deletes(w)
<1>1. writer[w] \in Writer
  BY DEF TypeOK
<1>2. writer'[w] = IF w = v THEN [writer[w] EXCEPT !.pc = pc] ELSE writer[w]
  BY DEF TypeOK
<1>3. /\ writer'[w].pc = IF w = v THEN pc ELSE writer[w].pc
      /\ writer'[w].todo = writer[w].todo
      /\ writer'[w].report = writer[w].report
      /\ writer'[w].seen = writer[w].seen
  BY <1>1, <1>2 DEF Writer
<1> QED BY <1>3 DEF Want, Inserts, Deletes

LEMMA PlanningStep ==
  ASSUME TypeOK, [Next]_vars, NEW w \in Writers, Planning(w)
  PROVE  Planning(w)'
<1> USE DEF TypeOK, Planning, Want, Writer
<1>1. ASSUME NEW v \in Writers, NEW report \in Reports, Plan(v, report)
      PROVE  Planning(w)'
  BY <1>1 DEF Plan
<1>2. ASSUME NEW v \in Writers,
             InsertNew(v) \/ InsertThrows(v) \/ UpdatesEnd(v) \/ DeleteStale(v) \/ Crash(v)
      PROVE  Planning(w)'
  <2>1. /\ writer'[w].todo = writer[w].todo
        /\ writer'[w].report = writer[w].report
        /\ writer'[w].seen = writer[w].seen
    <3>1. \/ writer' = [writer EXCEPT ![v].pc = "update"]
          \/ writer' = [writer EXCEPT ![v].pc = "delete"]
          \/ writer' = [writer EXCEPT ![v].pc = "done"]
          \/ writer' = [writer EXCEPT ![v].pc = "failed"]
      BY <1>2 DEF InsertNew, InsertThrows, UpdatesEnd, DeleteStale, Crash
    <3> QED BY <3>1, MovesOn
  <2> QED BY <2>1
<1>3. ASSUME NEW v \in Writers, NEW k \in Keys, UpdateOne(v, k)
      PROVE  Planning(w)'
  <2>1. /\ writer'[w].todo \subseteq writer[w].todo
        /\ writer'[w].report = writer[w].report
        /\ writer'[w].seen = writer[w].seen
    BY <1>3 DEF UpdateOne
  <2> QED BY <2>1
<1>4. ASSUME UNCHANGED writer
      PROVE  Planning(w)'
  BY <1>4
<1>5. (\E h \in Humans : HumanStep(h)) \/ UNCHANGED vars => UNCHANGED writer
  BY DEF HumanStep, PatchFinds, PatchWrites, vars
<1> QED BY <1>1, <1>2, <1>3, <1>4, <1>5 DEF Next, WriterStep

LEMMA TypeStep ==
  ASSUME TypeOK, \A w \in Writers : Planning(w), [Next]_vars
  PROVE  TypeOK'
<1> USE DEF TypeOK
<1>1. ASSUME NEW w \in Writers, NEW report \in Reports, Plan(w, report)
      PROVE  TypeOK'
  <2>1. Drifted(Desired(report), row) \subseteq Keys
    BY DEF Drifted
  <2>2. writer' \in [Writers -> Writer]
    BY <1>1, <2>1 DEF Plan, Writer
  <2> QED BY <1>1, <2>2 DEF Plan
<1>2. ASSUME NEW w \in Writers, InsertNew(w)
      PROVE  TypeOK'
  <2>1. writer[w].report \in Reports
    BY DEF Writer
  <2>2. \A k \in Inserts(w) : k \in Keys /\ Want(w)[k] \in Texts
    BY <2>1, DesiredType DEF Inserts, Want
  <2>3. row' \in [Keys -> Row]
    <3> SUFFICES ASSUME NEW k \in Keys PROVE row'[k] \in Row
      BY <1>2 DEF InsertNew
    <3>1. CASE k \in Inserts(w)
      <4>1. row'[k] = [status |-> "open", text |-> Want(w)[k], id |-> issued[k] + 1]
        BY <1>2, <3>1 DEF InsertNew
      <4>2. issued[k] + 1 \in Nat \ {0}
        OBVIOUS
      <4> QED BY <4>1, <4>2, <2>2, <3>1 DEF Row
    <3>2. CASE k \notin Inserts(w)
      BY <1>2, <3>2 DEF InsertNew
    <3> QED BY <3>1, <3>2
  <2>4. writer' \in [Writers -> Writer]
    BY <1>2 DEF InsertNew, Writer
  <2>5. issued' \in [Keys -> Nat] /\ alone' \in [Writers -> BOOLEAN]
    BY <1>2 DEF InsertNew, Wrote
  <2> QED BY <1>2, <2>3, <2>4, <2>5 DEF InsertNew
<1>3. ASSUME NEW w \in Writers, InsertThrows(w) \/ Crash(w)
      PROVE  TypeOK'
  <2>1. writer' = [writer EXCEPT ![w].pc = "failed"]
    BY <1>3 DEF InsertThrows, Crash
  <2>2. writer' \in [Writers -> Writer]
    BY <2>1 DEF Writer
  <2> QED BY <1>3, <2>2 DEF InsertThrows, Crash
<1>4. ASSUME NEW w \in Writers, NEW k \in Keys, UpdateOne(w, k)
      PROVE  TypeOK'
  <2>1. writer' \in [Writers -> Writer]
    BY <1>4 DEF UpdateOne, Writer
  <2>2. row' \in [Keys -> Row]
    <3>1. CASE row[k].id # writer[w].seen[k].id
      BY <1>4, <3>1 DEF UpdateOne
    <3>2. CASE row[k].id = writer[w].seen[k].id
      <4>1. /\ writer[w].seen[k] \in Row
            /\ writer[w].seen[k].status = "open"
            /\ Want(w)[k] # NoText
        BY <1>4 DEF UpdateOne, Planning, Drifted, Writer
      <4>a. row[k] \in Row /\ row[k].id # 0
        BY <3>2, <4>1 DEF Row, NoRow
      <4>2. row[k].status # "none"
        BY <4>a DEF Row, NoRow, Decided
      <4>3. Want(w)[k] \in Texts
        BY <4>1, DesiredType DEF Want, Writer
      <4>4. [row[k] EXCEPT !.text = Want(w)[k]] \in Row
        BY <4>2, <4>3, RefreshedRow
      <4> QED BY <1>4, <3>2, <4>4 DEF UpdateOne
    <3> QED BY <3>1, <3>2
  <2> QED BY <1>4, <2>1, <2>2 DEF UpdateOne, Wrote
<1>5. ASSUME NEW w \in Writers, UpdatesEnd(w)
      PROVE  TypeOK'
  <2>1. writer' \in [Writers -> Writer]
    BY <1>5 DEF UpdatesEnd, Writer
  <2> QED BY <1>5, <2>1 DEF UpdatesEnd
<1>6. ASSUME NEW w \in Writers, DeleteStale(w)
      PROVE  TypeOK'
  <2>1. writer' \in [Writers -> Writer]
    BY <1>6 DEF DeleteStale, Writer
  <2>2. row' \in [Keys -> Row]
    BY <1>6, IdleTypes DEF DeleteStale
  <2> QED BY <1>6, <2>1, <2>2 DEF DeleteStale, Wrote
<1>7. ASSUME NEW h \in Humans, NEW k \in Keys, NEW to \in {"open"} \cup Decided,
             PatchFinds(h, k, to)
      PROVE  TypeOK'
  <2>1. row[k].id \in Nat \ {0}
    BY <1>7 DEF PatchFinds, Row
  <2>2. human' \in [Humans -> Human]
    BY <1>7, <2>1 DEF PatchFinds, Human
  <2> QED BY <1>7, <2>2 DEF PatchFinds
<1>8. ASSUME NEW h \in Humans, PatchWrites(h)
      PROVE  TypeOK'
  <2> DEFINE k == human[h].key
  <2>1. k \in Keys /\ human[h].id # 0 /\ human[h].to \in {"open"} \cup Decided
    BY <1>8 DEF PatchWrites, Human
  <2>2. row' \in [Keys -> Row]
    <3>1. CASE row[k].id # human[h].id
      BY <1>8, <3>1 DEF PatchWrites
    <3>2. CASE row[k].id = human[h].id
      <4>1. [row[k] EXCEPT !.status = human[h].to] \in Row
        BY <2>1, <3>2, DecidedRow
      <4> QED BY <1>8, <2>1, <3>2, <4>1 DEF PatchWrites
    <3> QED BY <3>1, <3>2
  <2>3. human' \in [Humans -> Human]
    BY <1>8, IdleTypes DEF PatchWrites
  <2>4. judged' \in SUBSET Keys
    BY <1>8, <2>1 DEF PatchWrites
  <2> QED BY <1>8, <2>2, <2>3, <2>4 DEF PatchWrites
<1>9. ASSUME UNCHANGED vars
      PROVE  TypeOK'
  BY <1>9 DEF vars
<1> QED BY <1>1, <1>2, <1>3, <1>4, <1>5, <1>6, <1>7, <1>8, <1>9
      DEF Next, WriterStep, HumanStep
-----------------------------------------------------------------------------
(* A judgment taken in peace.                                              *)

\* Which plans name the row under k, once nothing but other rows, other
\* plans or this row's status and text have changed.
LEMMA SafeRow ==
  ASSUME TypeOK, NEW k \in Keys, ~Threatened(k),
         row'[k].id = row[k].id,
         \A w \in Writers : Planned(w, k)' =>
           Planned(w, k) /\ writer'[w].seen[k].id = writer[w].seen[k].id
  PROVE  ~Threatened(k)'
  BY DEF Threatened

\* A run that goes on with its plan names no row it did not name before.
LEMMA PlanNarrows ==
  ASSUME TypeOK, NEW v \in Writers,
         \/ InsertNew(v) \/ InsertThrows(v) \/ UpdatesEnd(v)
         \/ DeleteStale(v) \/ Crash(v) \/ (\E j \in Keys : UpdateOne(v, j)),
         NEW w \in Writers, NEW k \in Keys, Planned(w, k)'
  PROVE  Planned(w, k) /\ writer'[w].seen = writer[w].seen
<1>1. CASE InsertNew(v) \/ InsertThrows(v) \/ UpdatesEnd(v) \/ DeleteStale(v) \/ Crash(v)
  <2>1. \/ /\ writer[v].pc = "insert"
           /\ writer' = [writer EXCEPT ![v].pc = "update"]
        \/ /\ writer[v].pc = "update"
           /\ writer' = [writer EXCEPT ![v].pc = "delete"]
        \/ writer' = [writer EXCEPT ![v].pc = "done"]
        \/ writer' = [writer EXCEPT ![v].pc = "failed"]
    BY <1>1 DEF InsertNew, InsertThrows, UpdatesEnd, DeleteStale, Crash
  <2> QED BY <2>1, MovesOn DEF Planned
<1>2. ASSUME NEW j \in Keys, UpdateOne(v, j)
      PROVE  Planned(w, k) /\ writer'[w].seen = writer[w].seen
  BY <1>2 DEF UpdateOne, Planned, Deletes, Want, TypeOK, Writer
<1> QED BY <1>1, <1>2

\* No step of a run changes a judged row, and none makes a plan for it; a
\* decision adds only rows that no plan names.
LEMMA JudgedStep ==
  ASSUME TypeOK, TypeOK', [Next]_vars, \A k \in judged : Guarded(k)
  PROVE  /\ \A k \in judged' : Guarded(k)'
         /\ \A k \in judged : row'[k] = row[k] \/ \E h \in Humans : PatchWrites(h)
<1> USE DEF TypeOK
<1>1. ASSUME NEW w \in Writers, NEW report \in Reports, Plan(w, report),
             NEW k \in judged
      PROVE  Guarded(k)' /\ row'[k] = row[k]
  <2>1. row' = row /\ k \in Keys /\ Guarded(k)
    BY <1>1 DEF Plan
  <2>2. ~Planned(w, k)'
    BY <1>1, <2>1 DEF Plan, Planned, Deletes, Want, Drifted, Guarded, Decided
  <2>3. \A v \in Writers : v # w => writer'[v] = writer[v]
    BY <1>1 DEF Plan
  <2>4. \A v \in Writers : v # w => (Planned(v, k)' <=> Planned(v, k))
    BY <2>3 DEF Planned, Deletes, Want
  <2>5. ~Threatened(k)'
    BY <2>1, <2>2, <2>3, <2>4 DEF Guarded, Threatened
  <2> QED BY <2>1, <2>5 DEF Guarded
<1>2. ASSUME NEW w \in Writers,
             \/ InsertNew(w) \/ InsertThrows(w) \/ UpdatesEnd(w)
             \/ DeleteStale(w) \/ Crash(w) \/ (\E j \in Keys : UpdateOne(w, j)),
             NEW k \in judged
      PROVE  Guarded(k)' /\ row'[k] = row[k]
  <2>1. k \in Keys /\ Guarded(k) /\ row[k] # NoRow
    BY DEF Guarded, Decided, NoRow
  <2>2. row'[k] = row[k]
    <3>1. CASE InsertNew(w)
      BY <3>1, <2>1 DEF InsertNew
    <3>2. CASE InsertThrows(w) \/ UpdatesEnd(w) \/ Crash(w)
      BY <3>2 DEF InsertThrows, UpdatesEnd, Crash
    <3>3. CASE DeleteStale(w)
      BY <3>3, <2>1 DEF DeleteStale, Guarded, Threatened, Planned
    <3>4. ASSUME NEW j \in Keys, UpdateOne(w, j)
          PROVE  row'[k] = row[k]
      BY <3>4, <2>1 DEF UpdateOne, Guarded, Threatened, Planned
    <3> QED BY <1>2, <3>1, <3>2, <3>3, <3>4
  <2>3. ~Threatened(k)'
    BY <1>2, <2>1, <2>2, PlanNarrows, SafeRow DEF Guarded
  <2> QED BY <2>1, <2>2, <2>3 DEF Guarded
<1>3. ASSUME NEW h \in Humans, PatchWrites(h), NEW k \in judged'
      PROVE  Guarded(k)'
  <2>1. writer' = writer /\ k \in Keys
    BY <1>3 DEF PatchWrites
  <2>2. row'[k].id = row[k].id
    BY <1>3 DEF PatchWrites, Row
  <2>3. row'[k].status \in Decided /\ ~Threatened(k)
    <3>1. CASE k # human[h].key \/ row[k].id # human[h].id
      BY <1>3, <3>1 DEF PatchWrites, Guarded
    <3>2. CASE k = human[h].key /\ row[k].id = human[h].id
      <4>1. human[h].to # "open" /\ ~Threatened(k)
        BY <1>3, <3>2 DEF PatchWrites
      <4>2. human[h].to \in Decided
        BY <1>3, <4>1 DEF PatchWrites, Human
      <4>3. row'[k] = [row[k] EXCEPT !.status = human[h].to]
        BY <1>3, <3>2, <2>1 DEF PatchWrites
      <4>4. row'[k].status = human[h].to
        BY <4>3, <2>1 DEF Row, NoRow
      <4> QED BY <4>1, <4>2, <4>4
    <3> QED BY <3>1, <3>2
  <2>4. ~Threatened(k)'
    BY <2>1, <2>2, <2>3 DEF Threatened, Planned, Deletes, Want
  <2> QED BY <2>3, <2>4 DEF Guarded
<1>4. ASSUME UNCHANGED <<row, writer, judged>>
      PROVE  /\ \A k \in judged' : Guarded(k)'
             /\ \A k \in judged : row'[k] = row[k]
  BY <1>4 DEF Guarded, Threatened, Planned, Deletes, Want
<1>5. \A h \in Humans : HumanStep(h) => PatchWrites(h) \/ UNCHANGED <<row, writer, judged>>
  BY DEF HumanStep, PatchFinds
<1>6. UNCHANGED vars => UNCHANGED <<row, writer, judged>>
  BY DEF vars
<1>7. \A w \in Writers : WriterStep(w) => judged' = judged
  BY DEF WriterStep, Plan, InsertNew, InsertThrows, UpdateOne, UpdatesEnd,
         DeleteStale, Crash
<1> QED BY <1>1, <1>2, <1>3, <1>4, <1>5, <1>6, <1>7 DEF Next, WriterStep
-----------------------------------------------------------------------------
(* An undisturbed reconcile.                                               *)

LEMMA StillReached ==
  ASSUME NEW w \in Writers, Reached(w), row' = row, writer'[w] = writer[w]
  PROVE  Reached(w)'
  BY DEF Reached, Want, Inserts, Deletes, Drifted

\* A run whose rows nobody else has written is as far as its statements say.
LEMMA ReachedStep ==
  ASSUME TypeOK, [Next]_vars, NEW w \in Writers, Planning(w),
         alone[w] => Reached(w), alone'[w]
  PROVE  Reached(w)'
<1> DEFINE drifted == Drifted(Want(w), writer[w].seen)
<1>w. /\ writer[w] \in Writer
      /\ writer[w].todo \subseteq Keys
      /\ DOMAIN writer = Writers
      /\ writer[w].seen \in [Keys -> Row]
      /\ row \in [Keys -> Row]
  BY DEF TypeOK, Writer
<1>1. ASSUME NEW report \in Reports, Plan(w, report)
      PROVE  Reached(w)'
  <2>1. writer'[w] = [pc |-> "insert", report |-> report, seen |-> row,
                      todo |-> Drifted(Desired(report), row)]
    BY <1>1, <1>w DEF Plan
  <2>2. row' = row
    BY <1>1 DEF Plan
  <2> QED BY <2>1, <2>2 DEF Reached, Want, Drifted
<1>2. ASSUME InsertNew(w)
      PROVE  Reached(w)'
  <2>1. alone[w] /\ writer[w].pc = "insert"
    BY <1>2 DEF InsertNew, Wrote
  <2>2. row = writer[w].seen /\ writer[w].todo = drifted
    BY <2>1 DEF Reached
  <2>3. writer' = [writer EXCEPT ![w].pc = "update"]
    BY <1>2 DEF InsertNew
  <2>4. \A k \in Inserts(w) : k \in Keys => row'[k].status = "open" /\ row'[k].text = Want(w)[k]
    BY <1>2 DEF InsertNew
  <2>5. \A k \in Keys \ Inserts(w) : row'[k] = writer[w].seen[k]
    BY <1>2, <2>2 DEF InsertNew
  <2>6. Inserts(w) \subseteq Keys /\ Deletes(w) \subseteq Keys \ Inserts(w)
    BY DEF Inserts, Deletes
  <2>m. /\ writer'[w].pc = "update"
        /\ writer'[w].todo = writer[w].todo
        /\ writer'[w].seen = writer[w].seen
        /\ Want(w)' = Want(w)
        /\ Inserts(w)' = Inserts(w)
        /\ Deletes(w)' = Deletes(w)
    <3>1. writer'[w] = [writer[w] EXCEPT !.pc = "update"]
      BY <2>3, <1>w
    <3> QED BY <3>1, <1>w DEF Writer, Want, Inserts, Deletes
  <2> QED BY <2>2, <2>3, <2>4, <2>5, <2>6, <2>m DEF Reached
<1>3. ASSUME InsertThrows(w) \/ Crash(w)
      PROVE  Reached(w)'
  <2>1. writer' = [writer EXCEPT ![w].pc = "failed"]
    BY <1>3 DEF InsertThrows, Crash
  <2>2. writer'[w].pc = "failed"
    BY <2>1, <1>w DEF Writer
  <2> QED BY <2>2 DEF Reached
<1>4. ASSUME NEW j \in Keys, UpdateOne(w, j)
      PROVE  Reached(w)'
  <2>1. alone[w] /\ writer[w].pc = "update" /\ j \in writer[w].todo
    BY <1>4 DEF UpdateOne, Wrote
  <2>2. /\ writer'[w] = [writer[w] EXCEPT !.todo = @ \ {j}]
        /\ writer'[w].todo = writer[w].todo \ {j}
        /\ writer'[w].pc = "update"
        /\ writer'[w].seen = writer[w].seen
        /\ writer'[w].report = writer[w].report
    BY <1>4, <1>w, <2>1 DEF UpdateOne, Writer
  <2>3. Want(w)' = Want(w) /\ Inserts(w)' = Inserts(w) /\ Deletes(w)' = Deletes(w)
    BY <2>2 DEF Want, Inserts, Deletes
  <2>4. j \in drifted /\ j \notin Inserts(w) /\ j \notin Deletes(w)
    BY <2>1 DEF Planning, Drifted, Inserts, Deletes
  <2>5. row[j] = writer[w].seen[j] /\ row[j].status = "open"
    BY <2>1, <2>4 DEF Reached, Drifted
  <2>6. row' = [row EXCEPT ![j].text = Want(w)[j]]
    BY <1>4, <2>5 DEF UpdateOne
  <2>7. row'[j].status = "open" /\ row'[j].text = Want(w)[j]
    BY <2>5, <2>6, <1>w DEF Row, NoRow
  <2>8. \A k \in Keys : k # j => row'[k] = row[k]
    BY <2>6, <1>w
  <2>9. Inserts(w) \subseteq Keys /\ Deletes(w) \subseteq Keys /\ drifted \subseteq Keys
    BY DEF Inserts, Deletes, Drifted
  <2>10. /\ \A k \in Inserts(w) : row'[k].status = "open" /\ row'[k].text = Want(w)[k]
         /\ \A k \in drifted \ (writer[w].todo \ {j}) :
              row'[k].status = "open" /\ row'[k].text = Want(w)[k]
         /\ \A k \in Deletes(w) : row'[k] = writer[w].seen[k]
         /\ \A k \in Keys \ (Inserts(w) \cup Deletes(w) \cup
                             (drifted \ (writer[w].todo \ {j}))) :
              row'[k] = writer[w].seen[k]
    BY <2>1, <2>4, <2>7, <2>8, <2>9 DEF Reached
  <2> QED BY <2>2, <2>3, <2>10 DEF Reached
<1>5. ASSUME UpdatesEnd(w)
      PROVE  Reached(w)'
  <2>1. alone[w] /\ writer[w].pc = "update" /\ writer[w].todo = {} /\ row' = row
    BY <1>5 DEF UpdatesEnd
  <2>2. writer' = [writer EXCEPT ![w].pc = "delete"]
    BY <1>5 DEF UpdatesEnd
  <2>m. /\ writer'[w].pc = "delete"
        /\ writer'[w].todo = writer[w].todo
        /\ writer'[w].seen = writer[w].seen
        /\ Want(w)' = Want(w)
        /\ Inserts(w)' = Inserts(w)
        /\ Deletes(w)' = Deletes(w)
    <3>1. writer'[w] = [writer[w] EXCEPT !.pc = "delete"]
      BY <2>2, <1>w
    <3> QED BY <3>1, <1>w DEF Writer, Want, Inserts, Deletes
  <2> QED BY <2>1, <2>2, <2>m DEF Reached
<1>6. ASSUME DeleteStale(w)
      PROVE  Reached(w)'
  <2>1. alone[w] /\ writer[w].pc = "delete" /\ writer[w].todo = {}
    BY <1>6 DEF DeleteStale, Wrote, Reached
  <2>2. writer' = [writer EXCEPT ![w].pc = "done"]
    BY <1>6 DEF DeleteStale
  <2>3. \A k \in Deletes(w) : k \in Keys /\ row'[k] = NoRow
    BY <1>6, <2>1 DEF DeleteStale, Reached, Deletes
  <2>4. \A k \in Keys \ Deletes(w) : row'[k] = row[k]
    BY <1>6 DEF DeleteStale
  <2>5. Inserts(w) \subseteq Keys \ Deletes(w) /\ drifted \subseteq Keys \ Deletes(w)
    BY DEF Inserts, Deletes, Drifted
  <2>m. /\ writer'[w].pc = "done"
        /\ writer'[w].todo = writer[w].todo
        /\ writer'[w].seen = writer[w].seen
        /\ Want(w)' = Want(w)
        /\ Inserts(w)' = Inserts(w)
        /\ Deletes(w)' = Deletes(w)
    <3>1. writer'[w] = [writer[w] EXCEPT !.pc = "done"]
      BY <2>2, <1>w
    <3> QED BY <3>1, <1>w DEF Writer, Want, Inserts, Deletes
  <2> QED BY <2>1, <2>2, <2>3, <2>4, <2>5, <2>m DEF Reached
<1>7. ASSUME NEW v \in Writers, v # w, WriterStep(v)
      PROVE  Reached(w)'
  <2>1. writer'[w] = writer[w]
    BY <1>7, <1>w DEF WriterStep, Plan, InsertNew, InsertThrows, UpdateOne,
       UpdatesEnd, DeleteStale, Crash
  <2>2. alone[w] /\ row' = row
    BY <1>7 DEF TypeOK, WriterStep, Plan, InsertNew, InsertThrows, UpdateOne,
       UpdatesEnd, DeleteStale, Crash, Wrote
  <2> QED BY <2>1, <2>2, StillReached
<1>8. ASSUME NEW h \in Humans, HumanStep(h)
      PROVE  Reached(w)'
  <2>1. writer' = writer /\ alone[w] /\ row' = row
    BY <1>8 DEF HumanStep, PatchFinds, PatchWrites
  <2> QED BY <2>1, StillReached
<1>9. ASSUME UNCHANGED vars
      PROVE  Reached(w)'
  BY <1>9, StillReached DEF vars
<1> QED BY <1>1, <1>2, <1>3, <1>4, <1>5, <1>6, <1>7, <1>8, <1>9
      DEF Next, WriterStep

\* What an undisturbed reconcile has reached at its end is the report.
LEMMA ReachedSettles ==
  ASSUME TypeOK, NEW w \in Writers, Reached(w), writer[w].pc = "done"
  PROVE  Settled(w)
<1> DEFINE report == writer[w].report
           seen == writer[w].seen
           drifted == Drifted(Want(w), seen)
<1>1. report \in Reports /\ seen \in [Keys -> Row]
  BY DEF TypeOK, Writer
<1>2. /\ writer[w].todo = {}
      /\ \A k \in Inserts(w) \cup drifted : row[k].status = "open" /\ row[k].text = Want(w)[k]
      /\ \A k \in Deletes(w) : row[k] = NoRow
      /\ \A k \in Keys \ (Inserts(w) \cup Deletes(w) \cup drifted) : row[k] = seen[k]
  BY DEF Reached
<1>3. \A k \in Keys : seen[k].status \in {"none", "open"} \cup Decided
  BY <1>1 DEF Row, NoRow
<1>4. ASSUME NEW i \in DOMAIN report, seen[KeyOf(report, i)].status \notin Decided
      PROVE  /\ row[KeyOf(report, i)].status = "open"
             /\ row[KeyOf(report, i)].text = report[i].text
  <2> DEFINE k == KeyOf(report, i)
  <2>1. k \in Keys /\ Want(w)[k] = report[i].text /\ Want(w)[k] # NoText
    BY <1>1, KeyOfType, DesiredType, NoTextAssumption DEF Want
  <2>2. CASE k \in Inserts(w) \cup drifted
    BY <2>1, <2>2, <1>2
  <2>3. CASE k \notin Inserts(w) \cup drifted
    <3>1. seen[k].status = "open" /\ seen[k].text = Want(w)[k]
      BY <2>1, <2>3, <1>3, <1>4 DEF Inserts, Drifted
    <3>2. k \notin Deletes(w)
      BY <2>1 DEF Deletes
    <3> QED BY <3>1, <3>2, <2>1, <2>3, <1>2
  <2> QED BY <2>2, <2>3
<1>5. ASSUME NEW k \in Keys, row[k].status = "open"
      PROVE  \E i \in DOMAIN report : KeyOf(report, i) = k
  <2>1. Want(w)[k] # NoText
    <3>1. CASE k \in Inserts(w) \cup drifted
      BY <3>1 DEF Inserts, Drifted
    <3>2. CASE k \in Deletes(w)
      BY <3>2, <1>2, <1>5 DEF NoRow
    <3>3. CASE k \notin Inserts(w) \cup Deletes(w) \cup drifted
      <4>1. seen[k].status = "open"
        BY <3>3, <1>2, <1>5
      <4> QED BY <3>3, <4>1 DEF Deletes
    <3> QED BY <3>1, <3>2, <3>3
  <2> QED BY <1>1, <2>1, DesiredType DEF Want
<1>6. ASSUME NEW k \in Keys, seen[k].status \in Decided
      PROVE  row[k] = seen[k]
  BY <1>6, <1>2 DEF Inserts, Deletes, Drifted, Decided
<1>7. \A i, j \in DOMAIN report : KeyOf(report, i) = KeyOf(report, j) => i = j
  BY <1>1, KeysDistinct
<1>8. \A i \in DOMAIN report : KeyOf(report, i) \in Keys
  BY <1>1, KeyOfType
<1> QED BY <1>4, <1>5, <1>6, <1>7, <1>8 DEF Settled

-----------------------------------------------------------------------------
(* The theorems.                                                           *)

LEMMA FindingInit == Init => TypeOK /\ FindingInv
<1> SUFFICES ASSUME Init PROVE TypeOK /\ FindingInv
  OBVIOUS
<1>1. TypeOK
  BY TypeInit
<1>2. \A w \in Writers : Planning(w) /\ ~alone[w]
  BY DEF Init, Planning, IdleWriter
<1>3. judged = {}
  BY DEF Init
<1> QED BY <1>1, <1>2, <1>3 DEF FindingInv

LEMMA FindingStep ==
  ASSUME TypeOK, FindingInv, [Next]_vars
  PROVE  TypeOK' /\ FindingInv'
<1>1. TypeOK'
  BY TypeStep DEF FindingInv
<1>2. \A w \in Writers : Planning(w)'
  BY PlanningStep DEF FindingInv
<1>3. \A w \in Writers : alone'[w] => Reached(w)'
  BY ReachedStep DEF FindingInv
<1>4. \A k \in judged' : Guarded(k)'
  BY <1>1, JudgedStep DEF FindingInv
<1> QED BY <1>1, <1>2, <1>3, <1>4 DEF FindingInv

\* The inductive invariant holds for every number of runs, requests, findings
\* and decisions.
THEOREM FindingInvariant == Spec => [](TypeOK /\ FindingInv)
<1>1. (TypeOK /\ FindingInv) /\ [Next]_vars => (TypeOK /\ FindingInv)'
  BY FindingStep
<1> QED BY <1>1, FindingInit, PTL DEF Spec

\* Every variable keeps its type: an UPDATE by id never writes into a row that
\* is not there.
THEOREM FindingTypes == Spec => []TypeOK
  BY FindingInvariant, PTL

\* A clean run that nobody interfered with leaves exactly its report, whatever
\* an earlier run that died half way left on the entry.
THEOREM HealedAlways == Spec => []Healed
<1>1. TypeOK /\ FindingInv => Healed
  BY ReachedSettles DEF FindingInv, Healed
<1> QED BY <1>1, FindingInvariant, PTL

\* A judgment taken in peace is changed by nobody but a person.
THEOREM JudgmentKeptAlways == Spec => JudgmentKept
<1>1. TypeOK /\ FindingInv /\ [Next]_vars =>
        [\A k \in judged : row'[k] = row[k] \/ \E h \in Humans : PatchWrites(h)]_vars
  BY FindingStep, JudgedStep DEF FindingInv
<1> QED BY <1>1, FindingInvariant, PTL DEF Spec, JudgmentKept

-----------------------------------------------------------------------------
(* DutyAudit: the loops of the calculator, step by step.                   *)

\* What a filter has found after the first n rows.
AmongSteps(h, read, kept) ==
  /\ h[0] = <<>>
  /\ \A n \in 1..Len(read) : h[n] = IF read[n] \in kept THEN Append(h[n - 1], read[n]) ELSE h[n - 1]

LEMMA AmongExists ==
  ASSUME NEW S, NEW read \in Seq(S), NEW kept
  PROVE  \E h : AmongSteps(h, read, kept) /\ Among(read, kept) = h[Len(read)]
<1> DEFINE N == Len(read)
           X == Seq(S)
           After(x, n) == IF read[n] \in kept THEN Append(x, read[n]) ELSE x
           g == [x \in X \X (1..N) |-> After(x[1], x[2])]
           Is(f) == f = [n \in 0..N |-> IF n = 0 THEN <<>> ELSE After(f[n - 1], n)]
           h == CHOOSE f : Is(f)
<1>1. N \in Nat /\ <<>> \in X
  OBVIOUS
<1>2. ASSUME NEW x \in X, NEW n \in 1..N PROVE After(x, n) \in X
  BY <1>2
<1>3. Among(read, kept) = h[N]
  BY DEF Among, Loop
<1>4. ASSUME Is(h) PROVE AmongSteps(h, read, kept)
  <2> HIDE DEF h
  <2>1. h[0] = <<>>
    BY <1>1, <1>4
  <2>2. ASSUME NEW n \in 1..N PROVE h[n] = After(h[n - 1], n)
    <3>1. n \in 0..N /\ n # 0
      BY <1>1
    <3> HIDE DEF N, After
    <3> QED BY <3>1, <1>4
  <2> QED BY <2>1, <2>2 DEF AmongSteps
<1> HIDE DEF N, X, After
<1>5. g \in StepsWithin(X, N)
  BY <1>2 DEF StepsWithin
<1>6. \E f : Is(f)
  <2>1. PICK f : f \in Iterates(N, X, <<>>, g)
    <3> HIDE DEF g
    <3> QED BY <1>1, <1>5, Recursion
  <2>2. ASSUME NEW n \in 1..N PROVE f[n] = After(f[n - 1], n)
    <3>1. n - 1 \in 0..N
      BY <1>1
    <3>2. <<f[n - 1], n>> \in X \X (1..N)
      BY <2>1, <3>1 DEF Iterates
    <3> QED BY <2>1, <3>2 DEF Iterates
  <2>3. Is(f)
    BY <1>1, <2>1, <2>2 DEF Iterates
  <2> QED BY <2>3
<1>7. Is(h)
  <2> HIDE DEF Is
  <2> QED BY <1>6
<1> HIDE DEF h
<1> QED BY <1>3, <1>4, <1>7 DEF N

\* A filter keeps the rows it lets through, and their order: its values, how
\* many there are, and that none is kept twice if none is read twice.
LEMMA AmongFacts ==
  ASSUME NEW S, NEW read \in Seq(S), NEW kept
  PROVE  /\ Among(read, kept) \in Seq(S)
         /\ Range(Among(read, kept)) = Range(read) \cap kept
         /\ IsInjective(read) => IsInjective(Among(read, kept))
<1>1. PICK h : AmongSteps(h, read, kept) /\ Among(read, kept) = h[Len(read)]
  BY AmongExists
<1> DEFINE N == Len(read)
           Found(n) == {i \in 1..n : read[i] \in kept}
           G == {n \in 0..N : /\ h[n] \in Seq(S)
                              /\ \A k \in DOMAIN h[n] : \E i \in Found(n) : h[n][k] = read[i]
                              /\ \A i \in Found(n) : \E k \in DOMAIN h[n] : h[n][k] = read[i]
                              /\ IsInjective(read) =>
                                   \A j, k \in DOMAIN h[n] : h[n][j] = h[n][k] => j = k}
<1>2. N \in Nat
  OBVIOUS
<1>3. 0 \in G
  <2>1. Found(0) = {} /\ 0 \in 0..N
    BY <1>2
  <2>2. h[0] = <<>>
    BY <1>1 DEF AmongSteps
  <2>3. <<>> \in Seq(S) /\ DOMAIN <<>> = {}
    OBVIOUS
  <2> HIDE DEF Found
  <2> QED BY <2>1, <2>2, <2>3
<1>4. ASSUME NEW n \in 1..N, n - 1 \in G PROVE n \in G
  <2>1. n \in 0..N /\ read[n] \in S /\ n \in DOMAIN read
    BY <1>2
  <2> DEFINE s == h[n - 1]
  <2>2. s \in Seq(S)
    BY <1>4
  <2>3. CASE read[n] \notin kept
    <3>1. Found(n) = Found(n - 1)
      BY <2>1, <2>3
    <3>2. h[n] = s
      BY <1>1, <2>3 DEF AmongSteps
    <3> HIDE DEF Found
    <3> QED BY <1>4, <2>1, <3>1, <3>2
  <2>4. CASE read[n] \in kept
    <3>1. Found(n) = Found(n - 1) \cup {n}
      BY <2>1, <2>4
    <3> DEFINE t == Append(s, read[n])
    <3>2. h[n] = t
      BY <1>1, <2>4 DEF AmongSteps
    <3>3. /\ t \in Seq(S) /\ DOMAIN t = DOMAIN s \cup {Len(s) + 1}
          /\ \A k \in DOMAIN s : t[k] = s[k] /\ k # Len(s) + 1
          /\ t[Len(s) + 1] = read[n]
      BY <2>1, <2>2
    <3> HIDE DEF t
    <3>4. ASSUME NEW k \in DOMAIN t PROVE \E i \in Found(n) : t[k] = read[i]
      <4> HIDE DEF Found
      <4> QED BY <1>4, <3>1, <3>3
    <3>5. ASSUME NEW i \in Found(n) PROVE \E k \in DOMAIN t : t[k] = read[i]
      <4> HIDE DEF Found
      <4> QED BY <1>4, <3>1, <3>3
    <3>6. ASSUME IsInjective(read), NEW j \in DOMAIN t, NEW k \in DOMAIN t, t[j] = t[k] PROVE j = k
      <4>1. ASSUME NEW l \in DOMAIN s PROVE s[l] # read[n]
        <5>1. PICK i \in Found(n - 1) : s[l] = read[i]
          BY <1>4
        <5>2. i \in DOMAIN read /\ i # n
          BY <1>2
        <5> QED BY <2>1, <3>6, <5>1, <5>2 DEF IsInjective
      <4> QED BY <1>4, <3>3, <3>6, <4>1
    <3> HIDE DEF Found
    <3> QED BY <2>1, <3>2, <3>3, <3>4, <3>5, <3>6
  <2> QED BY <2>3, <2>4
<1>5. N \in G
  <2> HIDE DEF G
  <2>1. \A n \in 0..N : n \in G
    BY <1>2, <1>3, <1>4, UpTo
  <2> QED BY <1>2, <2>1
<1>6. Found(N) = {i \in DOMAIN read : read[i] \in kept}
  OBVIOUS
<1> HIDE DEF Found
<1>7. Range(h[N]) = Range(read) \cap kept
  BY <1>5, <1>6 DEF Range
<1>8. IsInjective(read) => IsInjective(h[N])
  BY <1>5 DEF IsInjective
<1> QED BY <1>1, <1>5, <1>7, <1>8

LEMMA PriceType == \A m \in Headings : Price(m) \in Int
<1> SUFFICES ASSUME NEW m \in Headings PROVE Price(m) \in Int
  OBVIOUS
<1>1. m \in Heading
  BY HeadingsAssumption
<1>2. m.percent \in Nat \cup {Unset}
  BY <1>1 DEF Heading
<1> QED BY <1>2 DEF Price

\* Two rows of equal price have equal rates: of one code they ask for the same
\* duty, of two codes in one program one is the younger.
LEMMA EqualPrices ==
  ASSUME NEW m \in Headings, NEW n \in Headings, Price(m) = Price(n)
  PROVE  /\ m.percent = n.percent
         /\ m.code = n.code => Duty(m) = Duty(n) /\ m.specific = n.specific
         /\ m.code # n.code /\ m.program = n.program /\ m.program # Unset => m.from # n.from
<1>1. m \in Heading /\ n \in Heading
  BY HeadingsAssumption
<1>2. /\ m.percent \in Nat \cup {Unset} /\ n.percent \in Nat \cup {Unset}
      /\ m.from \in Int /\ n.from \in Int
  BY <1>1 DEF Heading
<1>3. m.percent = n.percent
  BY <1>2 DEF Price
<1>4. m.code # n.code /\ m.program = n.program /\ m.program # Unset => m.from < n.from \/ m.from > n.from
  BY <1>3, HeadingsAssumption
<1> QED BY <1>2, <1>3, <1>4, HeadingsAssumption

LEMMA KeepCostlierType ==
  ASSUME NEW S, NEW kept \in Seq(S), NEW m \in S
  PROVE  KeepCostlier(kept, m) \in Seq(S)
<1> DEFINE changed == [i \in DOMAIN kept |->
             IF kept[i].code = m.code /\ Price(m) > Price(kept[i]) THEN m ELSE kept[i]]
<1>1. changed \in Seq(S)
  <2>1. DOMAIN kept = 1..Len(kept) /\ Len(kept) \in Nat
    OBVIOUS
  <2>2. ASSUME NEW i \in DOMAIN kept, NEW P \in BOOLEAN PROVE (IF P THEN m ELSE kept[i]) \in S
    OBVIOUS
  <2>3. changed \in [1..Len(kept) -> S]
    BY <2>1, <2>2
  <2> HIDE DEF changed
  <2> QED BY <2>1, <2>3
<1>2. Append(kept, m) \in Seq(S)
  OBVIOUS
<1> HIDE DEF changed
<1>3. KeepCostlier(kept, m) \in {changed, Append(kept, m)}
  BY DEF KeepCostlier, changed
<1> QED BY <1>1, <1>2, <1>3

\* What is kept of the first n rows.
OnePerCodeSteps(h, read) ==
  /\ h[0] = <<>>
  /\ \A n \in 1..Len(read) : h[n] = KeepCostlier(h[n - 1], read[n])

LEMMA OnePerCodeExists ==
  ASSUME NEW S, NEW read \in Seq(S)
  PROVE  \E h : OnePerCodeSteps(h, read) /\ OnePerCode(read) = h[Len(read)]
<1> DEFINE N == Len(read)
           X == Seq(S)
           After(x, n) == KeepCostlier(x, read[n])
           g == [x \in X \X (1..N) |-> After(x[1], x[2])]
           Is(f) == f = [n \in 0..N |-> IF n = 0 THEN <<>> ELSE After(f[n - 1], n)]
           h == CHOOSE f : Is(f)
<1>1. N \in Nat /\ <<>> \in X
  OBVIOUS
<1>2. ASSUME NEW x \in X, NEW n \in 1..N PROVE After(x, n) \in X
  BY <1>2, KeepCostlierType
<1>3. OnePerCode(read) = h[N]
  BY DEF OnePerCode, Loop
<1>4. ASSUME Is(h) PROVE OnePerCodeSteps(h, read)
  <2> HIDE DEF h
  <2>1. h[0] = <<>>
    BY <1>1, <1>4
  <2>2. ASSUME NEW n \in 1..N PROVE h[n] = After(h[n - 1], n)
    <3>1. n \in 0..N /\ n # 0
      BY <1>1
    <3> HIDE DEF N, After
    <3> QED BY <3>1, <1>4
  <2> QED BY <2>1, <2>2 DEF OnePerCodeSteps
<1> HIDE DEF N, X, After
<1>5. g \in StepsWithin(X, N)
  BY <1>2 DEF StepsWithin
<1>6. \E f : Is(f)
  <2>1. PICK f : f \in Iterates(N, X, <<>>, g)
    <3> HIDE DEF g
    <3> QED BY <1>1, <1>5, Recursion
  <2>2. ASSUME NEW n \in 1..N PROVE f[n] = After(f[n - 1], n)
    <3>1. n - 1 \in 0..N
      BY <1>1
    <3>2. <<f[n - 1], n>> \in X \X (1..N)
      BY <2>1, <3>1 DEF Iterates
    <3> QED BY <2>1, <3>2 DEF Iterates
  <2>3. Is(f)
    BY <1>1, <2>1, <2>2 DEF Iterates
  <2> QED BY <2>3
<1>7. Is(h)
  <2> HIDE DEF Is
  <2> QED BY <1>6
<1> HIDE DEF h
<1> QED BY <1>3, <1>4, <1>7 DEF N

\* What is kept of the first n rows: one of each code, none costlier.
KeptOne(kept, read, n) ==
  /\ \A k \in DOMAIN kept : \E i \in 1..n : kept[k] = read[i]
  /\ \A j, k \in DOMAIN kept : kept[j].code = kept[k].code => j = k
  /\ \A i \in 1..n : \E k \in DOMAIN kept :
       kept[k].code = read[i].code /\ Price(read[i]) <= Price(kept[k])

LEMMA KeepCostlierStep ==
  ASSUME NEW S \in SUBSET Headings, NEW read \in Seq(S), NEW n \in 1..Len(read),
         NEW kept \in Seq(S), KeptOne(kept, read, n - 1)
  PROVE  KeptOne(KeepCostlier(kept, read[n]), read, n)
<1> DEFINE m == read[n]
           new == KeepCostlier(kept, m)
<1>1. m \in S /\ n \in Nat /\ n - 1 \in Nat /\ Price(m) \in Int
  BY PriceType
<1>2. \A k \in DOMAIN kept : Price(kept[k]) \in Int
  BY PriceType
<1>3. \A i \in 1..(n - 1) : i \in 1..n /\ read[i] \in S /\ Price(read[i]) \in Int
  BY PriceType
<1>4. n \in 1..n /\ \A i \in 1..n : i \in 1..(n - 1) \/ i = n
  OBVIOUS
<1>5. CASE \A i \in DOMAIN kept : kept[i].code # m.code
  <2>1. new = Append(kept, m)
    BY <1>5 DEF KeepCostlier
  <2>2. /\ DOMAIN new = DOMAIN kept \cup {Len(kept) + 1}
        /\ \A k \in DOMAIN kept : new[k] = kept[k] /\ k # Len(kept) + 1
        /\ new[Len(kept) + 1] = m
    BY <1>1, <2>1
  <2> HIDE DEF new
  <2>3. ASSUME NEW k \in DOMAIN new PROVE \E i \in 1..n : new[k] = read[i]
    <3>1. CASE k \in DOMAIN kept
      <4>1. PICK i \in 1..(n - 1) : kept[k] = read[i]
        BY <3>1 DEF KeptOne
      <4> QED BY <4>1, <3>1, <1>3, <2>2
    <3>2. CASE k = Len(kept) + 1
      BY <3>2, <1>4, <2>2
    <3> QED BY <3>1, <3>2, <2>2
  <2>4. \A j, k \in DOMAIN new : new[j].code = new[k].code => j = k
    BY <1>5, <2>2 DEF KeptOne
  <2>5. ASSUME NEW i \in 1..n
        PROVE  \E k \in DOMAIN new : new[k].code = read[i].code /\ Price(read[i]) <= Price(new[k])
    <3>1. CASE i = n
      BY <3>1, <1>1, <2>2
    <3>2. CASE i # n
      <4>1. PICK k \in DOMAIN kept : kept[k].code = read[i].code /\ Price(read[i]) <= Price(kept[k])
        BY <3>2, <1>4 DEF KeptOne
      <4> QED BY <4>1, <2>2
    <3> QED BY <3>1, <3>2
  <2> QED BY <2>3, <2>4, <2>5 DEF KeptOne, new
<1>6. CASE \E i \in DOMAIN kept : kept[i].code = m.code
  <2> DEFINE Costlier(k) == kept[k].code = m.code /\ Price(m) > Price(kept[k])
  <2>1. new = [k \in DOMAIN kept |-> IF Costlier(k) THEN m ELSE kept[k]]
    BY <1>6 DEF KeepCostlier
  <2>2. /\ DOMAIN new = DOMAIN kept
        /\ \A k \in DOMAIN kept : Costlier(k) => new[k] = m
        /\ \A k \in DOMAIN kept : ~Costlier(k) => new[k] = kept[k]
    BY <2>1
  <2> HIDE DEF new
  <2>3. \A k \in DOMAIN kept : new[k].code = kept[k].code /\ Price(kept[k]) <= Price(new[k])
    <3> SUFFICES ASSUME NEW k \in DOMAIN kept
                 PROVE  new[k].code = kept[k].code /\ Price(kept[k]) <= Price(new[k])
      OBVIOUS
    <3>1. CASE Costlier(k)
      BY <3>1, <1>1, <1>2, <2>2
    <3>2. CASE ~Costlier(k)
      BY <3>2, <1>1, <1>2, <2>2
    <3> QED BY <3>1, <3>2
  <2>4. ASSUME NEW k \in DOMAIN new PROVE \E i \in 1..n : new[k] = read[i]
    <3>1. CASE Costlier(k)
      BY <3>1, <1>4, <2>2
    <3>2. CASE ~Costlier(k)
      <4>1. PICK i \in 1..(n - 1) : kept[k] = read[i]
        BY <2>2 DEF KeptOne
      <4> QED BY <3>2, <4>1, <1>3, <2>2
    <3> QED BY <3>1, <3>2
  <2>5. \A j, k \in DOMAIN new : new[j].code = new[k].code => j = k
    BY <2>2, <2>3 DEF KeptOne
  <2>6. ASSUME NEW i \in 1..n
        PROVE  \E k \in DOMAIN new : new[k].code = read[i].code /\ Price(read[i]) <= Price(new[k])
    <3>1. CASE i = n
      <4>1. PICK k \in DOMAIN kept : kept[k].code = m.code
        BY <1>6
      <4>2. Price(m) <= Price(new[k])
        <5>1. CASE Costlier(k)
          BY <5>1, <1>1, <2>2
        <5>2. CASE ~Costlier(k)
          BY <5>2, <4>1, <1>1, <1>2, <2>2
        <5> QED BY <5>1, <5>2
      <4> QED BY <3>1, <4>1, <4>2, <2>2, <2>3
    <3>2. CASE i # n
      <4>1. PICK k \in DOMAIN kept : kept[k].code = read[i].code /\ Price(read[i]) <= Price(kept[k])
        BY <3>2, <1>4 DEF KeptOne
      <4>2. Price(read[i]) \in Int /\ Price(kept[k]) \in Int /\ Price(new[k]) \in Int
        <5>1. i \in 1..(n - 1)
          BY <3>2, <1>4
        <5>2. new[k] \in S
          BY <1>1, <2>2
        <5> QED BY <5>1, <5>2, <1>2, <1>3, PriceType
      <4> QED BY <4>1, <4>2, <2>2, <2>3
    <3> QED BY <3>1, <3>2
  <2> QED BY <2>4, <2>5, <2>6 DEF KeptOne, new
<1> QED BY <1>5, <1>6

\* No two rows of one code.
OneOfEach(rows) == \A m, n \in rows : m.code = n.code => m = n

\* The costliest rows of each code, of which one is kept.
Costliest(rows) == {m \in rows : \A o \in rows : o.code = m.code => Price(o) <= Price(m)}

LEMMA OnePerCodeFacts ==
  ASSUME NEW S \in SUBSET Headings, NEW read \in Seq(S)
  PROVE  /\ OnePerCode(read) \in Seq(S)
         /\ \A j, k \in DOMAIN OnePerCode(read) :
              OnePerCode(read)[j].code = OnePerCode(read)[k].code => j = k
         /\ Range(OnePerCode(read)) \subseteq Costliest(Range(read))
         /\ \A m \in Range(read) : \E n \in Range(OnePerCode(read)) : n.code = m.code
<1>1. PICK h : OnePerCodeSteps(h, read) /\ OnePerCode(read) = h[Len(read)]
  BY OnePerCodeExists
<1> DEFINE N == Len(read)
           G == {n \in 0..N : h[n] \in Seq(S) /\ KeptOne(h[n], read, n)}
<1>2. N \in Nat
  OBVIOUS
<1>3. 0 \in G
  <2>1. 0 \in 0..N /\ 1..0 = {}
    BY <1>2
  <2>2. h[0] = <<>>
    BY <1>1 DEF OnePerCodeSteps
  <2>3. <<>> \in Seq(S) /\ DOMAIN <<>> = {}
    OBVIOUS
  <2>4. KeptOne(<<>>, read, 0)
    BY <2>1, <2>3 DEF KeptOne
  <2> QED BY <2>1, <2>2, <2>3, <2>4
<1>4. ASSUME NEW n \in 1..N, n - 1 \in G PROVE n \in G
  <2>1. h[n] = KeepCostlier(h[n - 1], read[n]) /\ read[n] \in S
    BY <1>1 DEF OnePerCodeSteps
  <2>2. h[n] \in Seq(S)
    BY <1>4, <2>1, KeepCostlierType
  <2>3. KeptOne(h[n], read, n)
    BY <1>4, <2>1, KeepCostlierStep
  <2> QED BY <2>2, <2>3
<1>5. h[N] \in Seq(S) /\ KeptOne(h[N], read, N)
  <2> HIDE DEF G
  <2>1. \A n \in 0..N : n \in G
    BY <1>2, <1>3, <1>4, UpTo
  <2>2. N \in G
    BY <1>2, <2>1
  <2> QED BY <2>2 DEF G
<1> DEFINE kept == h[N]
<1>6. DOMAIN read = 1..N /\ Range(read) = {read[i] : i \in 1..N} /\ Range(read) \subseteq Headings
  BY DEF Range
<1>7. ASSUME NEW m \in Range(kept) PROVE m \in Costliest(Range(read))
  <2>1. PICK k \in DOMAIN kept : m = kept[k]
    BY <1>7 DEF Range
  <2>2. m \in Range(read)
    BY <1>5, <1>6, <2>1 DEF KeptOne
  <2>3. ASSUME NEW i \in 1..N, read[i].code = m.code PROVE Price(read[i]) <= Price(m)
    <3>1. PICK j \in DOMAIN kept : kept[j].code = read[i].code /\ Price(read[i]) <= Price(kept[j])
      BY <1>5 DEF KeptOne
    <3>2. j = k
      BY <1>5, <2>1, <2>3, <3>1 DEF KeptOne
    <3> QED BY <2>1, <3>1, <3>2
  <2> QED BY <1>6, <2>2, <2>3 DEF Costliest
<1>8. ASSUME NEW m \in Range(read) PROVE \E n \in Range(kept) : n.code = m.code
  <2>1. PICK i \in 1..N : m = read[i]
    BY <1>6
  <2>2. PICK k \in DOMAIN kept : kept[k].code = read[i].code
    BY <1>5 DEF KeptOne
  <2> QED BY <2>1, <2>2 DEF Range
<1> QED BY <1>1, <1>5, <1>7, <1>8 DEF KeptOne

\* Who leads among the first n of a tier.
LeaderSteps(h, tier) ==
  /\ h[0] = tier[1]
  /\ \A n \in 1..Len(tier) : h[n] = IF Beats(tier[n], h[n - 1]) THEN tier[n] ELSE h[n - 1]

LEMMA LeaderExists ==
  ASSUME NEW S, NEW tier \in Seq(S), tier # <<>>
  PROVE  \E h : LeaderSteps(h, tier) /\ Leader(tier) = h[Len(tier)]
<1> DEFINE N == Len(tier)
           X == S
           After(x, n) == IF Beats(tier[n], x) THEN tier[n] ELSE x
           g == [x \in X \X (1..N) |-> After(x[1], x[2])]
           Is(f) == f = [n \in 0..N |-> IF n = 0 THEN tier[1] ELSE After(f[n - 1], n)]
           h == CHOOSE f : Is(f)
<1>1. N \in Nat /\ tier[1] \in X
  OBVIOUS
<1>2. ASSUME NEW x \in X, NEW n \in 1..N PROVE After(x, n) \in X
  BY <1>2
<1>3. Leader(tier) = h[N]
  BY DEF Leader, Loop
<1>4. ASSUME Is(h) PROVE LeaderSteps(h, tier)
  <2> HIDE DEF h
  <2>1. h[0] = tier[1]
    BY <1>1, <1>4
  <2>2. ASSUME NEW n \in 1..N PROVE h[n] = After(h[n - 1], n)
    <3>1. n \in 0..N /\ n # 0
      BY <1>1
    <3> HIDE DEF N, After
    <3> QED BY <3>1, <1>4
  <2> QED BY <2>1, <2>2 DEF LeaderSteps
<1> HIDE DEF N, X, After
<1>5. g \in StepsWithin(X, N)
  BY <1>2 DEF StepsWithin
<1>6. \E f : Is(f)
  <2>1. PICK f : f \in Iterates(N, X, tier[1], g)
    <3> HIDE DEF g
    <3> QED BY <1>1, <1>5, Recursion
  <2>2. ASSUME NEW n \in 1..N PROVE f[n] = After(f[n - 1], n)
    <3>1. n - 1 \in 0..N
      BY <1>1
    <3>2. <<f[n - 1], n>> \in X \X (1..N)
      BY <2>1, <3>1 DEF Iterates
    <3> QED BY <2>1, <3>2 DEF Iterates
  <2>3. Is(f)
    BY <1>1, <2>1, <2>2 DEF Iterates
  <2> QED BY <2>3
<1>7. Is(h)
  <2> HIDE DEF Is
  <2> QED BY <1>6
<1> HIDE DEF h
<1> QED BY <1>3, <1>4, <1>7 DEF N

LEMMA BeatsOrder ==
  ASSUME NEW m \in Headings, NEW n \in Headings, NEW o \in Headings
  PROVE  /\ ~Beats(m, m)
         /\ Beats(m, n) => ~Beats(n, m)
         /\ ~Beats(o, n) /\ Beats(m, n) => ~Beats(o, m)
         /\ m.code # n.code /\ m.program = n.program /\ m.program # Unset => Beats(m, n) \/ Beats(n, m)
<1>1. m.from \in Int /\ n.from \in Int /\ o.from \in Int
  <2>1. m \in Heading /\ n \in Heading /\ o \in Heading
    BY HeadingsAssumption
  <2> QED BY <2>1 DEF Heading
<1>2. Price(m) \in Int /\ Price(n) \in Int /\ Price(o) \in Int
  BY PriceType
<1>3. m.code # n.code /\ m.program = n.program /\ m.program # Unset => Price(m) # Price(n) \/ m.from # n.from
  BY EqualPrices
<1> QED BY <1>1, <1>2, <1>3 DEF Beats

\* The leader of a tier is one of its rows, and none beats it.
LEMMA LeaderFacts ==
  ASSUME NEW S \in SUBSET Headings, NEW tier \in Seq(S), tier # <<>>
  PROVE  Leader(tier) \in Range(tier) /\ \A m \in Range(tier) : ~Beats(m, Leader(tier))
<1>1. PICK h : LeaderSteps(h, tier) /\ Leader(tier) = h[Len(tier)]
  BY LeaderExists
<1> DEFINE N == Len(tier)
           G == {n \in 0..N : /\ \E i \in 1..N : h[n] = tier[i]
                              /\ \A i \in 1..n : ~Beats(tier[i], h[n])}
<1>2. N \in Nat /\ 1 \in 1..N /\ DOMAIN tier = 1..N /\ \A i \in 1..N : tier[i] \in Headings
  OBVIOUS
<1>3. 0 \in G
  <2>1. 0 \in 0..N /\ 1..0 = {}
    BY <1>2
  <2>2. h[0] = tier[1]
    BY <1>1 DEF LeaderSteps
  <2> QED BY <1>2, <2>1, <2>2
<1>4. ASSUME NEW n \in 1..N, n - 1 \in G PROVE n \in G
  <2>1. h[n] = IF Beats(tier[n], h[n - 1]) THEN tier[n] ELSE h[n - 1]
    BY <1>1 DEF LeaderSteps
  <2>2. PICK w \in 1..N : h[n - 1] = tier[w]
    BY <1>4
  <2>3. \A i \in 1..n : i \in 1..(n - 1) \/ i = n
    OBVIOUS
  <2>4. \A i \in 1..n : i \in 1..N
    BY <1>2
  <2>5. \E i \in 1..N : h[n] = tier[i]
    BY <2>1, <2>2
  <2>6. ASSUME NEW i \in 1..n PROVE ~Beats(tier[i], h[n])
    <3>1. i = n \/ ~Beats(tier[i], tier[w])
      BY <1>4, <2>2, <2>3
    <3>2. tier[i] \in Headings /\ tier[n] \in Headings /\ tier[w] \in Headings
      BY <1>2, <2>4
    <3> QED BY <2>1, <2>2, <3>1, <3>2, BeatsOrder
  <2>7. n \in 0..N
    BY <1>2
  <2> QED BY <2>5, <2>6, <2>7
<1>5. N \in G
  <2> HIDE DEF G
  <2>1. \A n \in 0..N : n \in G
    BY <1>2, <1>3, <1>4, UpTo
  <2> QED BY <1>2, <2>1
<1> QED BY <1>1, <1>2, <1>5 DEF Range

\* Of each program the row stands that no other row of its tier beats.
Unbeaten(rows) ==
  {m \in rows : \/ m.program = Unset
                \/ /\ m \in Tier(rows, m.program)
                   /\ \A o \in Tier(rows, m.program) : ~Beats(o, m)}

LEMMA WinnerFacts ==
  ASSUME NEW S \in SUBSET Headings, NEW read \in Seq(S), NEW m \in Range(read), m.program # Unset
  PROVE  /\ Winner(read, m.program) \in Tier(Range(read), m.program)
         /\ \A o \in Tier(Range(read), m.program) : ~Beats(o, Winner(read, m.program))
<1> DEFINE T == Tier(Range(read), m.program)
           tier == Among(read, T)
<1>1. T # {} /\ T \subseteq Range(read)
  BY DEF Tier, Group
<1> HIDE DEF T
<1>2. tier \in Seq(S) /\ Range(tier) = T
  <2>1. Among(read, T) \in Seq(S) /\ Range(Among(read, T)) = Range(read) \cap T
    BY AmongFacts
  <2> QED BY <1>1, <2>1
<1> HIDE DEF tier
<1>3. tier # <<>>
  BY <1>1, <1>2 DEF Range
<1>4. Winner(read, m.program) = Leader(tier)
  BY DEF Winner, T, tier
<1>5. Leader(tier) \in T /\ \A o \in T : ~Beats(o, Leader(tier))
  BY <1>2, <1>3, LeaderFacts
<1> QED BY <1>4, <1>5 DEF T

LEMMA OnePerProgramFacts ==
  ASSUME NEW S \in SUBSET Headings, NEW read \in Seq(S), OneOfEach(Range(read))
  PROVE  /\ OnePerProgram(read) \in Seq(S)
         /\ Range(OnePerProgram(read)) = Unbeaten(Range(read))
         /\ IsInjective(read) => IsInjective(OnePerProgram(read))
<1> DEFINE kept == {m \in Range(read) : m.program = Unset \/ m = Winner(read, m.program)}
<1>1. Range(read) \subseteq Headings
  BY DEF Range
<1>2. ASSUME NEW m \in Range(read) PROVE m \in kept <=> m \in Unbeaten(Range(read))
  <2>1. CASE m.program = Unset
    BY <2>1 DEF Unbeaten
  <2>2. CASE m.program # Unset
    <3> DEFINE w == Winner(read, m.program)
               T == Tier(Range(read), m.program)
    <3>1. w \in T /\ \A o \in T : ~Beats(o, w)
      BY <2>2, WinnerFacts
    <3>2. T \subseteq Range(read) /\ \A o \in T : o.program = m.program
      BY DEF Tier, Group
    <3> HIDE DEF w, T
    <3>3. m \in Unbeaten(Range(read)) <=> m \in T /\ \A o \in T : ~Beats(o, m)
      BY <2>2 DEF Unbeaten, T
    <3>4. ASSUME m \in T, \A o \in T : ~Beats(o, m) PROVE m = w
      <4>1. m \in Headings /\ w \in Headings /\ m.program = w.program /\ m.program # Unset
        BY <1>1, <2>2, <3>1, <3>2
      <4>2. m.code = w.code
        BY <3>1, <3>4, <4>1, BeatsOrder
      <4> QED BY <3>1, <3>2, <4>2 DEF OneOfEach
    <3>5. m \in kept <=> m = w
      BY <2>2 DEF w
    <3> QED BY <3>1, <3>3, <3>4, <3>5
  <2> QED BY <2>1, <2>2
<1>3. kept = Unbeaten(Range(read))
  BY <1>2 DEF Unbeaten
<1>4. OnePerProgram(read) = Among(read, kept)
  BY DEF OnePerProgram
<1>5. kept \subseteq Range(read)
  OBVIOUS
<1> HIDE DEF kept
<1>6. /\ Among(read, kept) \in Seq(S)
      /\ Range(Among(read, kept)) = Range(read) \cap kept
      /\ IsInjective(read) => IsInjective(Among(read, kept))
  BY AmongFacts
<1> QED BY <1>3, <1>4, <1>5, <1>6

\* Rows that ask for the same duties, whichever rows they are.
Match(rows, others) ==
  \A m \in rows : \E n \in others : Duty(m) = Duty(n) /\ m.specific = n.specific
Alike(rows, others) ==
  /\ rows \subseteq Headings /\ others \subseteq Headings
  /\ OneOfEach(rows) /\ OneOfEach(others)
  /\ Match(rows, others) /\ Match(others, rows)

LEMMA SameDuty ==
  ASSUME NEW m, NEW n, Duty(m) = Duty(n)
  PROVE  /\ m.code = n.code /\ m.program = n.program /\ m.authority = n.authority
         /\ m.percent = n.percent /\ m.trigger = n.trigger /\ Price(m) = Price(n)
BY DEF Duty, Price

\* One of each code in two orders: the same codes at the same rates.
LEMMA OnePerCodeAlike ==
  ASSUME NEW S \in SUBSET Headings, NEW read \in Seq(S), NEW other \in Seq(S),
         Range(read) = Range(other)
  PROVE  Alike(Range(OnePerCode(read)), Range(OnePerCode(other)))
<1> DEFINE C == Range(read)
           k(r) == Range(OnePerCode(r))
<1>1. ASSUME NEW r \in {read, other}
      PROVE  /\ k(r) \subseteq Costliest(C) /\ OneOfEach(k(r))
             /\ \A m \in C : \E n \in k(r) : n.code = m.code
  <2>1. r \in Seq(S) /\ Range(r) = C
    OBVIOUS
  <2>2. /\ k(r) \subseteq Costliest(Range(r))
        /\ \A i, j \in DOMAIN OnePerCode(r) : OnePerCode(r)[i].code = OnePerCode(r)[j].code => i = j
        /\ \A m \in Range(r) : \E n \in k(r) : n.code = m.code
    <3> HIDE DEF C
    <3> QED BY <2>1, OnePerCodeFacts
  <2>3. OneOfEach(k(r))
    BY <2>2 DEF OneOfEach, Range
  <2> HIDE DEF C, k
  <2> QED BY <2>1, <2>2, <2>3
<1>2. C \subseteq Headings
  BY DEF Range
<1> HIDE DEF C, k
<1>3. Costliest(C) \subseteq C
  BY DEF Costliest
<1>4. ASSUME NEW r \in {read, other}, NEW q \in {read, other} PROVE Match(k(r), k(q))
  <2> SUFFICES ASSUME NEW m \in k(r)
               PROVE  \E n \in k(q) : Duty(m) = Duty(n) /\ m.specific = n.specific
    BY DEF Match
  <2>1. m \in Costliest(C) /\ m \in C
    BY <1>1, <1>3
  <2>2. PICK n \in k(q) : n.code = m.code
    BY <1>1, <2>1
  <2>3. n \in Costliest(C) /\ n \in C
    BY <1>1, <1>3, <2>2
  <2>4. Price(m) <= Price(n) /\ Price(n) <= Price(m)
    BY <2>1, <2>2, <2>3 DEF Costliest
  <2>5. Price(m) = Price(n)
    BY <1>2, <2>1, <2>3, <2>4, PriceType
  <2> QED BY <1>2, <2>1, <2>2, <2>3, <2>5, EqualPrices
<1> QED BY <1>1, <1>2, <1>3, <1>4 DEF Alike, k

LEMMA AlikeSymmetric ==
  ASSUME NEW rows, NEW others, Alike(rows, others)
  PROVE  Alike(others, rows)
BY DEF Alike

\* A row leads its program if one that asks for the same does.
LEMMA UnbeatenMatch ==
  ASSUME NEW rows, NEW others, Alike(rows, others), NEW m \in rows, NEW n \in others,
         Duty(m) = Duty(n), m.specific = n.specific, m \in Unbeaten(rows)
  PROVE  n \in Unbeaten(others)
<1>1. m.program = n.program /\ m.code = n.code /\ m.percent = n.percent /\ Price(m) = Price(n)
  BY SameDuty
<1>2. CASE n.program = Unset
  BY <1>2 DEF Unbeaten
<1>3. CASE n.program # Unset
  <2> DEFINE p == n.program
  <2>1. m \in Tier(rows, p) /\ \A o \in Tier(rows, p) : ~Beats(o, m)
    BY <1>1, <1>3 DEF Unbeaten
  <2>2. \A a \in others : \E b \in rows :
          Duty(b) = Duty(a) /\ b.specific = a.specific /\ b.program = a.program
    BY SameDuty DEF Alike, Match
  <2>3. (\E a \in Group(others, p) : a.specific) => (\E b \in Group(rows, p) : b.specific)
    BY <2>2 DEF Group
  <2>4. n \in Tier(others, p)
    BY <1>1, <2>1, <2>3 DEF Tier, Group
  <2>5. ASSUME NEW o \in Tier(others, p), Beats(o, n) PROVE FALSE
    <3>1. o \in others /\ o.program = p
      BY DEF Tier, Group
    <3>2. PICK q \in rows : Duty(q) = Duty(o) /\ q.specific = o.specific
      BY <2>2, <3>1
    <3>3. q.program = p /\ q.code = o.code /\ q.percent = o.percent /\ Price(q) = Price(o)
      BY <3>1, <3>2, SameDuty
    <3>4. (\E b \in Group(rows, p) : b.specific) => o.specific
      <4>1. \A b \in rows : \E a \in others :
              Duty(b) = Duty(a) /\ b.specific = a.specific /\ b.program = a.program
        BY SameDuty DEF Alike, Match
      <4>2. (\E b \in Group(rows, p) : b.specific) => (\E a \in Group(others, p) : a.specific)
        BY <4>1 DEF Group
      <4> QED BY <4>2 DEF Tier
    <3>5. q \in Tier(rows, p)
      BY <3>2, <3>3, <3>4 DEF Tier, Group
    <3>6. /\ m \in Headings /\ n \in Headings /\ o \in Headings /\ q \in Headings
          /\ m.from \in Int /\ n.from \in Int /\ o.from \in Int /\ q.from \in Int
          /\ Price(n) \in Int /\ Price(o) \in Int
      <4>1. m \in Headings /\ n \in Headings /\ o \in Headings /\ q \in Headings
        BY <3>1 DEF Alike
      <4>2. m \in Heading /\ n \in Heading /\ o \in Heading /\ q \in Heading
        BY <4>1, HeadingsAssumption
      <4> QED BY <4>1, <4>2, PriceType DEF Heading
    <3>7. ~Beats(q, m)
      BY <2>1, <3>5
    <3>8. Price(o) = Price(n) /\ o.from > n.from
      BY <1>1, <2>5, <3>3, <3>6, <3>7 DEF Beats
    <3>9. o.code # n.code
      BY <3>1, <3>6, <3>8 DEF Alike, OneOfEach
    <3>10. o.percent = n.percent
      BY <3>6, <3>8, EqualPrices
    <3>11. q.from > n.from
      BY <1>3, <3>1, <3>3, <3>6, <3>8, <3>9, <3>10, HeadingsAssumption
    <3>12. q.from > m.from
      BY <1>1, <1>3, <3>3, <3>6, <3>9, <3>10, <3>11, HeadingsAssumption
    <3> QED BY <1>1, <3>3, <3>7, <3>8, <3>12 DEF Beats
  <2> QED BY <1>3, <2>4, <2>5 DEF Unbeaten
<1> QED BY <1>2, <1>3

LEMMA UnbeatenAlike ==
  ASSUME NEW rows, NEW others, Alike(rows, others)
  PROVE  Alike(Unbeaten(rows), Unbeaten(others))
<1>1. Unbeaten(rows) \subseteq rows /\ Unbeaten(others) \subseteq others
  BY DEF Unbeaten
<1>2. Match(Unbeaten(rows), Unbeaten(others))
  <2> SUFFICES ASSUME NEW m \in Unbeaten(rows)
               PROVE  \E n \in Unbeaten(others) : Duty(m) = Duty(n) /\ m.specific = n.specific
    BY DEF Match
  <2>1. PICK n \in others : Duty(m) = Duty(n) /\ m.specific = n.specific
    BY <1>1 DEF Alike, Match
  <2> QED BY <1>1, <2>1, UnbeatenMatch
<1>3. Match(Unbeaten(others), Unbeaten(rows))
  <2>1. Alike(others, rows)
    BY AlikeSymmetric
  <2> SUFFICES ASSUME NEW m \in Unbeaten(others)
               PROVE  \E n \in Unbeaten(rows) : Duty(m) = Duty(n) /\ m.specific = n.specific
    BY DEF Match
  <2>2. PICK n \in rows : Duty(m) = Duty(n) /\ m.specific = n.specific
    BY <1>1 DEF Alike, Match
  <2> QED BY <1>1, <2>1, <2>2, UnbeatenMatch
<1> QED BY <1>1, <1>2, <1>3 DEF Alike, OneOfEach

\* A suppressed loser goes, in whatever order the rows stand.
Suppressed(rows, rule) ==
  IF \E m \in rows : m.authority = rule.winner THEN {m \in rows : m.authority # rule.loser} ELSE rows

LEMMA SuppressFacts ==
  ASSUME NEW S, NEW left \in Seq(S), NEW rule
  PROVE  /\ Suppress(left, rule) \in Seq(S)
         /\ Range(Suppress(left, rule)) = Suppressed(Range(left), rule)
         /\ IsInjective(left) => IsInjective(Suppress(left, rule))
<1> DEFINE kept == {m \in Range(left) : m.authority # rule.loser}
<1>1. (\E i \in DOMAIN left : left[i].authority = rule.winner) <=>
      (\E m \in Range(left) : m.authority = rule.winner)
  BY DEF Range
<1>2. /\ Among(left, kept) \in Seq(S)
      /\ Range(Among(left, kept)) = Range(left) \cap kept
      /\ IsInjective(left) => IsInjective(Among(left, kept))
  BY AmongFacts
<1>3. CASE \E i \in DOMAIN left : left[i].authority = rule.winner
  <2>1. Suppress(left, rule) = Among(left, kept)
    BY <1>3 DEF Suppress
  <2>2. Suppressed(Range(left), rule) = Range(left) \cap kept
    BY <1>1, <1>3 DEF Suppressed
  <2> HIDE DEF kept
  <2> QED BY <1>2, <2>1, <2>2
<1>4. CASE ~\E i \in DOMAIN left : left[i].authority = rule.winner
  <2>1. Suppress(left, rule) = left
    BY <1>4 DEF Suppress
  <2>2. Suppressed(Range(left), rule) = Range(left)
    BY <1>1, <1>4 DEF Suppressed
  <2> QED BY <2>1, <2>2
<1> QED BY <1>3, <1>4

LEMMA SuppressedAlike ==
  ASSUME NEW rows, NEW others, Alike(rows, others), NEW rule
  PROVE  Alike(Suppressed(rows, rule), Suppressed(others, rule))
<1>1. /\ \A m \in rows : \E n \in others :
           Duty(m) = Duty(n) /\ m.specific = n.specific /\ m.authority = n.authority
      /\ \A m \in others : \E n \in rows :
           Duty(m) = Duty(n) /\ m.specific = n.specific /\ m.authority = n.authority
  BY SameDuty DEF Alike, Match
<1>2. (\E m \in rows : m.authority = rule.winner) <=> (\E m \in others : m.authority = rule.winner)
  BY <1>1
<1>3. CASE \E m \in rows : m.authority = rule.winner
  <2>1. /\ Suppressed(rows, rule) = {m \in rows : m.authority # rule.loser}
        /\ Suppressed(others, rule) = {m \in others : m.authority # rule.loser}
    BY <1>2, <1>3 DEF Suppressed
  <2> QED BY <1>1, <2>1 DEF Alike, Match, OneOfEach
<1>4. CASE ~\E m \in rows : m.authority = rule.winner
  BY <1>2, <1>4 DEF Suppressed
<1> QED BY <1>3, <1>4

\* What the first n rules leave.
StackedSteps(h, read) ==
  /\ h[0] = read
  /\ \A n \in 1..Len(StackingRules) : h[n] = Suppress(h[n - 1], StackingRules[n])

LEMMA StackedExists ==
  ASSUME NEW S, NEW read \in Seq(S)
  PROVE  \E h : StackedSteps(h, read) /\ Stacked(read) = h[Len(StackingRules)]
<1> DEFINE N == Len(StackingRules)
           X == Seq(S)
           After(x, n) == Suppress(x, StackingRules[n])
           g == [x \in X \X (1..N) |-> After(x[1], x[2])]
           Is(f) == f = [n \in 0..N |-> IF n = 0 THEN read ELSE After(f[n - 1], n)]
           h == CHOOSE f : Is(f)
<1>1. N \in Nat /\ read \in X
  BY StackingAssumption
<1>2. ASSUME NEW x \in X, NEW n \in 1..N PROVE After(x, n) \in X
  BY <1>2, SuppressFacts
<1>3. Stacked(read) = h[N]
  BY DEF Stacked, Loop
<1>4. ASSUME Is(h) PROVE StackedSteps(h, read)
  <2> HIDE DEF h
  <2>1. h[0] = read
    BY <1>1, <1>4
  <2>2. ASSUME NEW n \in 1..N PROVE h[n] = After(h[n - 1], n)
    <3>1. n \in 0..N /\ n # 0
      BY <1>1
    <3> HIDE DEF N, After
    <3> QED BY <3>1, <1>4
  <2> QED BY <2>1, <2>2 DEF StackedSteps
<1> HIDE DEF N, X, After
<1>5. g \in StepsWithin(X, N)
  BY <1>2 DEF StepsWithin
<1>6. \E f : Is(f)
  <2>1. PICK f : f \in Iterates(N, X, read, g)
    <3> HIDE DEF g
    <3> QED BY <1>1, <1>5, Recursion
  <2>2. ASSUME NEW n \in 1..N PROVE f[n] = After(f[n - 1], n)
    <3>1. n - 1 \in 0..N
      BY <1>1
    <3>2. <<f[n - 1], n>> \in X \X (1..N)
      BY <2>1, <3>1 DEF Iterates
    <3> QED BY <2>1, <3>2 DEF Iterates
  <2>3. Is(f)
    BY <1>1, <2>1, <2>2 DEF Iterates
  <2> QED BY <2>3
<1>7. Is(h)
  <2> HIDE DEF Is
  <2> QED BY <1>6
<1> HIDE DEF h
<1> QED BY <1>3, <1>4, <1>7 DEF N

LEMMA RulesType == Len(StackingRules) \in Nat
  BY StackingAssumption

\* The rules leave some of the rows; and which ones does not depend on the order.
LEMMA StackedFacts ==
  ASSUME NEW S, NEW read \in Seq(S)
  PROVE  /\ Stacked(read) \in Seq(S)
         /\ Range(Stacked(read)) \subseteq Range(read)
         /\ IsInjective(read) => IsInjective(Stacked(read))
<1>1. PICK h : StackedSteps(h, read) /\ Stacked(read) = h[Len(StackingRules)]
  BY StackedExists
<1> DEFINE N == Len(StackingRules)
           G == {n \in 0..N : /\ h[n] \in Seq(S)
                              /\ Range(h[n]) \subseteq Range(read)
                              /\ IsInjective(read) => IsInjective(h[n])}
<1>2. N \in Nat
  BY RulesType
<1>3. 0 \in G
  BY <1>1, <1>2 DEF StackedSteps
<1>4. ASSUME NEW n \in 1..N, n - 1 \in G PROVE n \in G
  <2>1. h[n] = Suppress(h[n - 1], StackingRules[n])
    BY <1>1 DEF StackedSteps
  <2> DEFINE s == h[n - 1]
             rule == StackingRules[n]
  <2>2. s \in Seq(S)
    BY <1>4
  <2>3. /\ Suppress(s, rule) \in Seq(S)
        /\ Range(Suppress(s, rule)) = Suppressed(Range(s), rule)
        /\ IsInjective(s) => IsInjective(Suppress(s, rule))
    <3> HIDE DEF s, rule
    <3> QED BY <2>2, SuppressFacts
  <2>4. Suppressed(Range(s), rule) \subseteq Range(s)
    BY DEF Suppressed
  <2>5. n \in 0..N
    BY <1>2
  <2> QED BY <1>4, <2>1, <2>3, <2>4, <2>5
<1>5. N \in G
  <2> HIDE DEF G
  <2>1. \A n \in 0..N : n \in G
    BY <1>2, <1>3, <1>4, UpTo
  <2> QED BY <1>2, <2>1
<1> QED BY <1>1, <1>5

LEMMA StackedAlike ==
  ASSUME NEW S, NEW read \in Seq(S), NEW other \in Seq(S), Alike(Range(read), Range(other))
  PROVE  Alike(Range(Stacked(read)), Range(Stacked(other)))
<1>1. PICK h : StackedSteps(h, read) /\ Stacked(read) = h[Len(StackingRules)]
  BY StackedExists
<1>2. PICK f : StackedSteps(f, other) /\ Stacked(other) = f[Len(StackingRules)]
  BY StackedExists
<1> DEFINE N == Len(StackingRules)
           G == {n \in 0..N : /\ h[n] \in Seq(S) /\ f[n] \in Seq(S)
                              /\ Alike(Range(h[n]), Range(f[n]))}
<1>3. N \in Nat
  BY RulesType
<1>4. 0 \in G
  BY <1>1, <1>2, <1>3 DEF StackedSteps
<1>5. ASSUME NEW n \in 1..N, n - 1 \in G PROVE n \in G
  <2> DEFINE s == h[n - 1]
             t == f[n - 1]
             rule == StackingRules[n]
  <2>1. h[n] = Suppress(s, rule) /\ f[n] = Suppress(t, rule)
    BY <1>1, <1>2 DEF StackedSteps
  <2>2. s \in Seq(S) /\ t \in Seq(S) /\ Alike(Range(s), Range(t))
    BY <1>5
  <2>3. /\ Suppress(s, rule) \in Seq(S) /\ Suppress(t, rule) \in Seq(S)
        /\ Range(Suppress(s, rule)) = Suppressed(Range(s), rule)
        /\ Range(Suppress(t, rule)) = Suppressed(Range(t), rule)
    <3> HIDE DEF s, t, rule
    <3> QED BY <2>2, SuppressFacts
  <2>4. n \in 0..N
    BY <1>3
  <2>5. Alike(Suppressed(Range(s), rule), Suppressed(Range(t), rule))
    <3> HIDE DEF s, t, rule
    <3> QED BY <2>2, SuppressedAlike
  <2> HIDE DEF s, t, rule
  <2> QED BY <2>1, <2>3, <2>4, <2>5
<1>6. N \in G
  <2> HIDE DEF G
  <2>1. \A n \in 0..N : n \in G
    BY <1>3, <1>4, <1>5, UpTo
  <2> QED BY <1>3, <2>1
<1> QED BY <1>1, <1>2, <1>6

\* One row less.
LEMMA DropFacts ==
  ASSUME NEW S, NEW s \in Seq(S), NEW i \in 1..Len(s)
  PROVE  LET t == SubSeq(s, 1, i - 1) \o SubSeq(s, i + 1, Len(s)) IN
         /\ t \in Seq(S) /\ Len(t) = Len(s) - 1
         /\ Range(t) \subseteq Range(s) /\ Range(s) \subseteq Range(t) \cup {s[i]}
         /\ IsInjective(s) => IsInjective(t)
<1> DEFINE N == Len(s)
           u == SubSeq(s, 1, i - 1)
           v == SubSeq(s, i + 1, N)
           t == u \o v
<1>1. N \in Nat /\ i \in 1..N /\ i \in Nat /\ i - 1 \in Nat /\ DOMAIN s = 1..N /\ \A k \in 1..N : s[k] \in S
  OBVIOUS
<1> HIDE DEF N
<1>2. u \in Seq(S) /\ Len(u) = i - 1 /\ \A k \in 1..(i - 1) : u[k] = s[k]
  <2>1. \A k \in 1..(i - 1) : k \in 1..N /\ 1 + k - 1 = k
    BY <1>1
  <2>2. 1 \in Int /\ i - 1 \in Int /\ (IF 1 <= i - 1 THEN i - 1 - 1 + 1 ELSE 0) = i - 1 /\ i - 1 - 1 + 1 = i - 1
    BY <1>1
  <2>3. \A k \in 1..(i - 1) : s[k] \in S
    BY <1>1, <2>1
  <2>4. /\ u \in Seq(S) /\ Len(u) = IF 1 <= i - 1 THEN i - 1 - 1 + 1 ELSE 0
        /\ \A k \in 1..(i - 1 - 1 + 1) : u[k] = s[1 + k - 1]
    BY <2>2, <2>3, SubSeqProperties
  <2> QED BY <2>1, <2>2, <2>4
<1>3. v \in Seq(S) /\ Len(v) = N - i /\ \A k \in 1..(N - i) : v[k] = s[k + i]
  <2>1. \A k \in (i + 1)..N : k \in 1..N
    BY <1>1
  <2>2. i + 1 \in Int /\ N \in Int /\ (IF i + 1 <= N THEN N - (i + 1) + 1 ELSE 0) = N - i /\ N - (i + 1) + 1 = N - i
    BY <1>1
  <2>3. \A k \in (i + 1)..N : s[k] \in S
    BY <1>1, <2>1
  <2>4. /\ v \in Seq(S) /\ Len(v) = IF i + 1 <= N THEN N - (i + 1) + 1 ELSE 0
        /\ \A k \in 1..(N - (i + 1) + 1) : v[k] = s[i + 1 + k - 1]
    BY <2>2, <2>3, SubSeqProperties
  <2>5. \A k \in 1..(N - i) : i + 1 + k - 1 = k + i
    BY <1>1
  <2> QED BY <2>2, <2>4, <2>5
<1> HIDE DEF u, v
<1>4. t \in Seq(S) /\ Len(t) = N - 1 /\ DOMAIN t = 1..(N - 1)
  <2>1. t \in Seq(S) /\ Len(t) = Len(u) + Len(v)
    BY <1>2, <1>3, ConcatProperties
  <2>2. Len(u) + Len(v) = N - 1
    BY <1>1, <1>2, <1>3
  <2>3. DOMAIN t = 1..Len(t)
    BY <2>1
  <2> QED BY <2>1, <2>2, <2>3
<1>5. \A k \in 1..(Len(u) + Len(v)) : t[k] = IF k <= Len(u) THEN u[k] ELSE v[k - Len(u)]
  BY <1>2, <1>3, ConcatProperties
<1> HIDE DEF t
<1>6. \A k \in 1..(i - 1) : t[k] = s[k]
  BY <1>1, <1>2, <1>3, <1>5
<1>7. \A k \in i..(N - 1) : t[k] = s[k + 1]
  <2> SUFFICES ASSUME NEW k \in i..(N - 1) PROVE t[k] = s[k + 1]
    OBVIOUS
  <2>1. k - (i - 1) \in 1..(N - i) /\ k \in 1..(Len(u) + Len(v)) /\ ~(k <= Len(u))
    BY <1>1, <1>2, <1>3
  <2>2. t[k] = v[k - (i - 1)]
    BY <1>2, <1>5, <2>1
  <2>3. v[k - (i - 1)] = s[k - (i - 1) + i]
    BY <1>3, <2>1
  <2>4. k - (i - 1) + i = k + 1
    BY <1>1
  <2> QED BY <2>2, <2>3, <2>4
<1>8. Range(t) \subseteq Range(s)
  <2>1. ASSUME NEW k \in DOMAIN t PROVE \E j \in DOMAIN s : t[k] = s[j]
    <3>1. CASE k < i
      BY <1>1, <1>4, <1>6, <3>1
    <3>2. CASE k >= i
      BY <1>1, <1>4, <1>7, <3>2
    <3> QED BY <1>1, <1>4, <3>1, <3>2
  <2> QED BY <2>1 DEF Range
<1>9. Range(s) \subseteq Range(t) \cup {s[i]}
  <2>1. ASSUME NEW j \in DOMAIN s, j # i PROVE \E k \in DOMAIN t : t[k] = s[j]
    <3>1. CASE j < i
      BY <1>1, <1>4, <1>6, <2>1, <3>1
    <3>2. CASE j > i
      <4>1. j - 1 \in i..(N - 1) /\ j - 1 + 1 = j
        BY <1>1, <3>2
      <4>2. t[j - 1] = s[j]
        BY <1>7, <4>1
      <4> QED BY <1>1, <1>4, <4>1, <4>2
    <3> QED BY <1>1, <2>1, <3>1, <3>2
  <2> QED BY <2>1 DEF Range
<1>10. ASSUME IsInjective(s), NEW j \in DOMAIN t, NEW k \in DOMAIN t, t[j] = t[k] PROVE j = k
  <2> DEFINE At(l) == IF l < i THEN l ELSE l + 1
  <2>1. ASSUME NEW l \in DOMAIN t PROVE t[l] = s[At(l)] /\ At(l) \in DOMAIN s
    <3>1. CASE l < i
      BY <1>1, <1>4, <1>6, <3>1
    <3>2. CASE l >= i
      BY <1>1, <1>4, <1>7, <3>2
    <3> QED BY <1>1, <1>4, <3>1, <3>2
  <2>2. At(j) = At(k)
    <3> HIDE DEF At
    <3> QED BY <1>10, <2>1 DEF IsInjective
  <2> QED BY <1>1, <1>4, <2>2
<1> QED BY <1>4, <1>8, <1>9, <1>10 DEF IsInjective, N, t, u, v

\* The rows another one displaces.
Displaced(rows) == {m \in rows : m.trigger # Unset /\ \E n \in rows \ {m} : n.program = m.trigger}

LEMMA DisplaceFacts ==
  ASSUME NEW S, NEW left \in Seq(S)
  PROVE  /\ Displace(left) \in Seq(S)
         /\ Range(Displace(left)) \subseteq Range(left)
         /\ Triggered(left) = {} => Displace(left) = left
         /\ Triggered(left) # {} => Len(Displace(left)) = Len(left) - 1
         /\ IsInjective(left) => /\ IsInjective(Displace(left))
                                 /\ Range(left) \ Displaced(Range(left)) \subseteq Range(Displace(left))
<1>1. CASE Triggered(left) = {}
  <2>1. Displace(left) = left
    BY <1>1 DEF Displace
  <2> QED BY <1>1, <2>1
<1>2. CASE Triggered(left) # {}
  <2> DEFINE First(k) == \A j \in Triggered(left) : k <= j
             i == CHOOSE k \in Triggered(left) : First(k)
             t == SubSeq(left, 1, i - 1) \o SubSeq(left, i + 1, Len(left))
  <2>1. Displace(left) = t
    BY <1>2 DEF Displace
  <2>2. \E k \in Triggered(left) : First(k)
    <3>1. Triggered(left) \in SUBSET Nat
      BY DEF Triggered
    <3> QED BY <1>2, <3>1, Least
  <2>3. i \in Triggered(left)
    <3> HIDE DEF First
    <3> QED BY <2>2
  <2> HIDE DEF i
  <2>4. i \in 1..Len(left) /\ DOMAIN left = 1..Len(left)
    BY <2>3 DEF Triggered
  <2>5. /\ t \in Seq(S) /\ Len(t) = Len(left) - 1
        /\ Range(t) \subseteq Range(left) /\ Range(left) \subseteq Range(t) \cup {left[i]}
        /\ IsInjective(left) => IsInjective(t)
    BY <2>4, DropFacts
  <2> HIDE DEF t
  <2>6. ASSUME IsInjective(left) PROVE left[i] \in Displaced(Range(left))
    <3>1. PICK j \in DOMAIN left \ {i} : left[j].program = left[i].trigger
      BY <2>3 DEF Triggered
    <3>2. left[j] # left[i]
      BY <2>4, <2>6, <3>1 DEF IsInjective
    <3> QED BY <2>3, <2>4, <3>1, <3>2 DEF Triggered, Displaced, Range
  <2> QED BY <1>2, <2>1, <2>5, <2>6
<1> QED BY <1>1, <1>2

\* What the first n rounds leave.
CarvedOutSteps(h, read) ==
  /\ h[0] = read
  /\ \A n \in 1..Len(read) : h[n] = Displace(h[n - 1])

LEMMA CarvedOutExists ==
  ASSUME NEW S, NEW read \in Seq(S)
  PROVE  \E h : CarvedOutSteps(h, read) /\ CarvedOut(read) = h[Len(read)]
<1> DEFINE N == Len(read)
           X == Seq(S)
           After(x, n) == Displace(x)
           g == [x \in X \X (1..N) |-> After(x[1], x[2])]
           Is(f) == f = [n \in 0..N |-> IF n = 0 THEN read ELSE After(f[n - 1], n)]
           h == CHOOSE f : Is(f)
<1>1. N \in Nat /\ read \in X
  OBVIOUS
<1>2. ASSUME NEW x \in X, NEW n \in 1..N PROVE After(x, n) \in X
  BY <1>2, DisplaceFacts
<1>3. CarvedOut(read) = h[N]
  BY DEF CarvedOut, Loop
<1>4. ASSUME Is(h) PROVE CarvedOutSteps(h, read)
  <2> HIDE DEF h
  <2>1. h[0] = read
    BY <1>1, <1>4
  <2>2. ASSUME NEW n \in 1..N PROVE h[n] = After(h[n - 1], n)
    <3>1. n \in 0..N /\ n # 0
      BY <1>1
    <3> HIDE DEF N, After
    <3> QED BY <3>1, <1>4
  <2> QED BY <2>1, <2>2 DEF CarvedOutSteps
<1> HIDE DEF N, X, After
<1>5. g \in StepsWithin(X, N)
  BY <1>2 DEF StepsWithin
<1>6. \E f : Is(f)
  <2>1. PICK f : f \in Iterates(N, X, read, g)
    <3> HIDE DEF g
    <3> QED BY <1>1, <1>5, Recursion
  <2>2. ASSUME NEW n \in 1..N PROVE f[n] = After(f[n - 1], n)
    <3>1. n - 1 \in 0..N
      BY <1>1
    <3>2. <<f[n - 1], n>> \in X \X (1..N)
      BY <2>1, <3>1 DEF Iterates
    <3> QED BY <2>1, <3>2 DEF Iterates
  <2>3. Is(f)
    BY <1>1, <2>1, <2>2 DEF Iterates
  <2> QED BY <2>3
<1>7. Is(h)
  <2> HIDE DEF Is
  <2> QED BY <1>6
<1> HIDE DEF h
<1> QED BY <1>3, <1>4, <1>7 DEF N

LEMMA CarvedOutType ==
  ASSUME NEW S, NEW read \in Seq(S)
  PROVE  CarvedOut(read) \in Seq(S) /\ Range(CarvedOut(read)) \subseteq Range(read)
<1>1. PICK h : CarvedOutSteps(h, read) /\ CarvedOut(read) = h[Len(read)]
  BY CarvedOutExists
<1> DEFINE N == Len(read)
           G == {n \in 0..N : h[n] \in Seq(S) /\ Range(h[n]) \subseteq Range(read)}
<1>2. N \in Nat
  OBVIOUS
<1>3. 0 \in G
  BY <1>1, <1>2 DEF CarvedOutSteps
<1>4. ASSUME NEW n \in 1..N, n - 1 \in G PROVE n \in G
  <2>1. h[n] = Displace(h[n - 1])
    BY <1>1 DEF CarvedOutSteps
  <2>2. Displace(h[n - 1]) \in Seq(S) /\ Range(Displace(h[n - 1])) \subseteq Range(h[n - 1])
    BY <1>4, DisplaceFacts
  <2>3. n \in 0..N
    BY <1>2
  <2> QED BY <1>4, <2>1, <2>2, <2>3
<1>5. N \in G
  <2> HIDE DEF G
  <2>1. \A n \in 0..N : n \in G
    BY <1>2, <1>3, <1>4, UpTo
  <2> QED BY <1>2, <2>1
<1> QED BY <1>1, <1>5

\* The rounds end with the rows that none of the rows they started with
\* displaces: what displaces is not displaced itself.
LEMMA CarvedOutFacts ==
  ASSUME NEW S \in SUBSET Headings, NEW read \in Seq(S), IsInjective(read)
  PROVE  Range(CarvedOut(read)) = Range(read) \ Displaced(Range(read))
<1>1. PICK h : CarvedOutSteps(h, read) /\ CarvedOut(read) = h[Len(read)]
  BY CarvedOutExists
<1> DEFINE N == Len(read)
           R == Range(read)
           G == {n \in 0..N : /\ h[n] \in Seq(S) /\ IsInjective(h[n])
                              /\ Range(h[n]) \subseteq R /\ R \ Displaced(R) \subseteq Range(h[n])
                              /\ Triggered(h[n]) = {} \/ Len(h[n]) <= N - n}
<1>2. N \in Nat
  OBVIOUS
<1>3. 0 \in G
  <2>1. h[0] = read /\ Len(read) <= N - 0 /\ 0 \in 0..N
    BY <1>1, <1>2 DEF CarvedOutSteps
  <2> HIDE DEF N, R
  <2>2. Range(read) = R
    BY DEF R
  <2> QED BY <2>1, <2>2
<1>4. ASSUME NEW n \in 1..N, n - 1 \in G PROVE n \in G
  <2> DEFINE s == h[n - 1]
             t == h[n]
  <2>1. t = Displace(s)
    BY <1>1 DEF CarvedOutSteps
  <2>2. /\ s \in Seq(S) /\ IsInjective(s) /\ Range(s) \subseteq R /\ R \ Displaced(R) \subseteq Range(s)
        /\ Triggered(s) = {} \/ Len(s) <= N - (n - 1)
    BY <1>4
  <2> HIDE DEF s, t, N, R
  <2>3. /\ t \in Seq(S) /\ IsInjective(t) /\ Range(t) \subseteq Range(s)
        /\ Triggered(s) = {} => t = s
        /\ Triggered(s) # {} => Len(t) = Len(s) - 1
        /\ Range(s) \ Displaced(Range(s)) \subseteq Range(t)
    BY <2>1, <2>2, DisplaceFacts
  <2>4. Displaced(Range(s)) \subseteq Displaced(R)
    BY <2>2 DEF Displaced
  <2>5. R \ Displaced(R) \subseteq Range(t)
    BY <2>2, <2>3, <2>4
  <2>6. Triggered(t) = {} \/ Len(t) <= N - n
    <3>1. Len(s) \in Nat
      BY <2>2
    <3> QED BY <1>2, <2>2, <2>3, <3>1
  <2>7. n \in 0..N
    BY <1>2
  <2> QED BY <2>2, <2>3, <2>5, <2>6, <2>7 DEF t
<1>5. N \in G
  <2> HIDE DEF G
  <2>1. \A n \in 0..N : n \in G
    BY <1>2, <1>3, <1>4, UpTo
  <2> QED BY <1>2, <2>1
<1> DEFINE left == h[N]
<1>6. /\ left \in Seq(S) /\ IsInjective(left)
      /\ Range(left) \subseteq R /\ R \ Displaced(R) \subseteq Range(left)
      /\ Triggered(left) = {} \/ Len(left) <= N - N
  BY <1>5
<1> HIDE DEF left
<1>7. Triggered(left) = {}
  <2>1. CASE Len(left) <= N - N
    <3>1. Len(left) \in Nat /\ DOMAIN left = 1..Len(left)
      BY <1>6
    <3>2. DOMAIN left = {}
      BY <1>2, <2>1, <3>1
    <3> QED BY <3>2 DEF Triggered
  <2> QED BY <1>6, <2>1
<1>8. ASSUME NEW m \in Range(left) PROVE m \notin Displaced(R)
  <2> SUFFICES ASSUME m \in Displaced(R) PROVE FALSE
    OBVIOUS
  <2>1. PICK n \in R : n # m /\ n.program = m.trigger /\ m.trigger # Unset
    BY DEF Displaced
  <2>2. m \in Headings /\ n \in Headings
    BY <1>6 DEF Range
  <2>3. n.trigger = Unset
    BY <2>1, <2>2, HeadingsAssumption
  <2>4. n \in Range(left)
    BY <1>6, <2>3 DEF Displaced
  <2>5. PICK i \in DOMAIN left, j \in DOMAIN left : left[i] = m /\ left[j] = n
    BY <1>8, <2>4 DEF Range
  <2>6. i \in Triggered(left)
    BY <2>1, <2>5 DEF Triggered
  <2> QED BY <1>7, <2>6
<1> QED BY <1>1, <1>6, <1>8 DEF left

LEMMA DisplacedAlike ==
  ASSUME NEW rows, NEW others, Alike(rows, others)
  PROVE  Alike(rows \ Displaced(rows), others \ Displaced(others))
<1>1. ASSUME NEW A, NEW B, Alike(A, B) PROVE Match(A \ Displaced(A), B \ Displaced(B))
  <2> SUFFICES ASSUME NEW m \in A \ Displaced(A)
               PROVE  \E n \in B \ Displaced(B) : Duty(m) = Duty(n) /\ m.specific = n.specific
    BY DEF Match
  <2>1. PICK n \in B : Duty(m) = Duty(n) /\ m.specific = n.specific
    BY <1>1 DEF Alike, Match
  <2>2. m.code = n.code /\ m.trigger = n.trigger
    BY <2>1, SameDuty
  <2>3. ASSUME n \in Displaced(B) PROVE FALSE
    <3>1. PICK o \in B : o # n /\ o.program = n.trigger /\ n.trigger # Unset
      BY <2>3 DEF Displaced
    <3>2. PICK q \in A : Duty(o) = Duty(q)
      BY <1>1 DEF Alike, Match
    <3>3. q.program = o.program /\ q.code = o.code
      BY <3>2, SameDuty
    <3>4. q # m
      BY <1>1, <2>1, <2>2, <3>1, <3>3 DEF Alike, OneOfEach
    <3> QED BY <2>2, <3>1, <3>3, <3>4 DEF Displaced
  <2> QED BY <2>1, <2>3
<1>2. Match(rows \ Displaced(rows), others \ Displaced(others))
  BY <1>1
<1>3. Match(others \ Displaced(others), rows \ Displaced(rows))
  BY <1>1, AlikeSymmetric
<1> QED BY <1>2, <1>3 DEF Alike, OneOfEach

\* As many rows as there are, in whatever order they are read.
LEMMA RowsCounted ==
  ASSUME NEW S, NEW u \in Seq(S), IsInjective(u)
  PROVE  IsFiniteSet(Range(u)) /\ Cardinality(Range(u)) = Len(u) /\ Len(u) \in Nat
<1>1. Len(u) \in Nat /\ DOMAIN u = 1..Len(u)
  OBVIOUS
<1>2. u \in Bijection(1..Len(u), Range(u))
  BY <1>1 DEF Bijection, Injection, Surjection, Range
<1>3. ExistsBijection(1..Len(u), Range(u))
  BY <1>2 DEF ExistsBijection
<1>4. IsFiniteSet(1..Len(u)) /\ Cardinality(1..Len(u)) = Len(u)
  BY <1>1, FS_Interval
<1> QED BY <1>1, <1>3, <1>4, FS_Bijection

LEMMA SameLength ==
  ASSUME NEW S, NEW s \in Seq(S), NEW t \in Seq(S),
         IsInjective(s), IsInjective(t), Range(s) = Range(t)
  PROVE  Len(s) = Len(t)
BY RowsCounted

\* As many of the rows as there are is all of them.
LEMMA AllKept ==
  ASSUME NEW S, NEW s \in Seq(S), NEW t \in Seq(S), IsInjective(s), IsInjective(t),
         Range(t) \subseteq Range(s)
  PROVE  /\ Len(t) <= Len(s)
         /\ Len(t) = Len(s) => Range(t) = Range(s)
<1>1. /\ IsFiniteSet(Range(s)) /\ Cardinality(Range(s)) = Len(s) /\ Len(s) \in Nat
      /\ Cardinality(Range(t)) = Len(t) /\ Len(t) \in Nat
  BY RowsCounted
<1> QED BY <1>1, FS_Subset

LEMMA CandidatesFacts ==
  ASSUME NEW S, NEW read \in Seq(S), NEW line, NEW days
  PROVE  /\ Candidates(read, line, days) \in Seq(S)
         /\ Range(Candidates(read, line, days)) = {m \in Range(read) : Candidate(m, line, days)}
         /\ IsInjective(read) => IsInjective(Candidates(read, line, days))
<1> DEFINE kept == {m \in Range(read) : Candidate(m, line, days)}
<1>1. /\ Among(read, kept) \in Seq(S)
      /\ Range(Among(read, kept)) = Range(read) \cap kept
      /\ IsInjective(read) => IsInjective(Among(read, kept))
  BY AmongFacts
<1>2. Candidates(read, line, days) = Among(read, kept)
  BY DEF Candidates
<1>3. Range(read) \cap kept = kept
  OBVIOUS
<1> QED BY <1>1, <1>2, <1>3

LEMMA OnePerCodeInjective ==
  ASSUME NEW S \in SUBSET Headings, NEW read \in Seq(S)
  PROVE  IsInjective(OnePerCode(read))
  BY OnePerCodeFacts DEF IsInjective

LEMMA AlikeLength ==
  ASSUME NEW S \in SUBSET Headings, NEW s \in Seq(S), NEW t \in Seq(S),
         IsInjective(s), IsInjective(t), Alike(Range(s), Range(t))
  PROVE  Len(s) = Len(t)
<1> DEFINE Codename(u) == [i \in 1..Len(u) |-> u[i].code]
<1>1. ASSUME NEW u \in {s, t}
      PROVE  /\ Codename(u) \in Seq(STRING) /\ Len(Codename(u)) = Len(u)
             /\ IsInjective(Codename(u))
             /\ Range(Codename(u)) = {m.code : m \in Range(u)}
  <2>1. /\ u \in Seq(S) /\ Len(u) \in Nat /\ DOMAIN u = 1..Len(u) /\ IsInjective(u)
        /\ OneOfEach(Range(u))
    BY DEF Alike
  <2>2. \A i \in 1..Len(u) : u[i] \in Range(u) /\ u[i].code \in STRING
    <3>1. \A i \in 1..Len(u) : u[i] \in Headings
      BY <2>1
    <3>2. \A i \in 1..Len(u) : u[i] \in Heading
      BY <3>1, HeadingsAssumption
    <3> QED BY <2>1, <3>2 DEF Range, Heading
  <2>3. Codename(u) \in [1..Len(u) -> STRING] /\ DOMAIN Codename(u) = 1..Len(u)
    BY <2>2
  <2>4. Codename(u) \in Seq(STRING) /\ Len(Codename(u)) = Len(u)
    BY <2>1, <2>3
  <2>5. IsInjective(Codename(u))
    BY <2>1, <2>2 DEF IsInjective, OneOfEach
  <2>6. Range(Codename(u)) = {m.code : m \in Range(u)}
    BY <2>1 DEF Range
  <2> QED BY <2>4, <2>5, <2>6
<1>2. \A m \in Range(s) : \E n \in Range(t) : m.code = n.code
  BY SameDuty DEF Alike, Match
<1>3. \A n \in Range(t) : \E m \in Range(s) : n.code = m.code
  BY SameDuty DEF Alike, Match
<1>5. {m.code : m \in Range(s)} = {m.code : m \in Range(t)}
  BY <1>2, <1>3
<1> HIDE DEF Codename
<1>4. Len(Codename(s)) = Len(Codename(t))
  BY <1>1, <1>5, SameLength
<1> QED BY <1>1, <1>4

\* What stands before the carve-outs.
LEMMA BeforeFacts ==
  ASSUME NEW S \in SUBSET Headings, NEW read \in Seq(S), NEW line, NEW days
  PROVE  LET before == BeforeCarveOuts(read, line, days) IN
         /\ before \in Seq(S) /\ IsInjective(before) /\ OneOfEach(Range(before))
         /\ Range(before) \subseteq {m \in Range(read) : Candidate(m, line, days)}
<1> DEFINE c == Candidates(read, line, days)
           d == OnePerCode(c)
           p == OnePerProgram(d)
           b == Stacked(p)
<1>1. c \in Seq(S) /\ Range(c) = {m \in Range(read) : Candidate(m, line, days)}
  BY CandidatesFacts
<1> HIDE DEF c
<1>2. /\ d \in Seq(S) /\ Range(d) \subseteq Costliest(Range(c)) /\ IsInjective(d)
      /\ OneOfEach(Range(d))
  <2>1. /\ d \in Seq(S) /\ Range(d) \subseteq Costliest(Range(c)) /\ IsInjective(d)
        /\ \A j, k \in DOMAIN d : d[j].code = d[k].code => j = k
    BY <1>1, OnePerCodeFacts, OnePerCodeInjective
  <2> HIDE DEF d
  <2> QED BY <2>1 DEF OneOfEach, Range
<1> HIDE DEF d
<1>3. p \in Seq(S) /\ Range(p) = Unbeaten(Range(d)) /\ IsInjective(p)
  BY <1>2, OnePerProgramFacts
<1> HIDE DEF p
<1>4. b \in Seq(S) /\ Range(b) \subseteq Range(p) /\ IsInjective(b)
  BY <1>3, StackedFacts
<1> HIDE DEF b
<1>5. b = BeforeCarveOuts(read, line, days)
  BY DEF BeforeCarveOuts, b, p, d, c
<1>6. Range(p) \subseteq Range(d)
  BY <1>3 DEF Unbeaten
<1>7. Range(d) \subseteq Range(c)
  BY <1>2 DEF Costliest
<1>8. OneOfEach(Range(b))
  BY <1>2, <1>4, <1>6 DEF OneOfEach
<1> QED BY <1>1, <1>4, <1>5, <1>6, <1>7, <1>8

\* Which duties are expected does not depend on the order the rows are read in.
LEMMA ExpectedOrderFree ==
  ASSUME NEW S \in SUBSET Headings, NEW read \in Seq(S), NEW other \in Seq(S), NEW line, NEW days,
         IsInjective(read), IsInjective(other), Range(read) = Range(other)
  PROVE  /\ Duties(Expected(read, line, days)) = Duties(Expected(other, line, days))
         /\ SailAssumed(read, line, days) = SailAssumed(other, line, days)
<1> DEFINE c(r) == Candidates(r, line, days)
           d(r) == OnePerCode(c(r))
           p(r) == OnePerProgram(d(r))
           b(r) == BeforeCarveOuts(r, line, days)
<1>1. /\ c(read) \in Seq(S) /\ c(other) \in Seq(S) /\ Range(c(read)) = Range(c(other))
      /\ IsInjective(c(read)) /\ IsInjective(c(other))
  <2>1. \A r \in {read, other} : /\ c(r) \in Seq(S) /\ IsInjective(c(r))
                                 /\ Range(c(r)) = {m \in Range(r) : Candidate(m, line, days)}
    BY CandidatesFacts
  <2> HIDE DEF c
  <2> QED BY <2>1
<1> HIDE DEF c
<1>2. /\ d(read) \in Seq(S) /\ d(other) \in Seq(S) /\ Alike(Range(d(read)), Range(d(other)))
      /\ IsInjective(d(read)) /\ IsInjective(d(other))
      /\ Range(d(read)) \subseteq Range(c(read)) /\ Range(d(other)) \subseteq Range(c(other))
  <2>1. \A r \in {read, other} :
          d(r) \in Seq(S) /\ IsInjective(d(r)) /\ Range(d(r)) \subseteq Costliest(Range(c(r)))
    BY <1>1, OnePerCodeFacts, OnePerCodeInjective
  <2>2. Alike(Range(d(read)), Range(d(other)))
    BY <1>1, OnePerCodeAlike
  <2> HIDE DEF d
  <2> QED BY <2>1, <2>2 DEF Costliest
<1> HIDE DEF d
<1>3. p(read) \in Seq(S) /\ p(other) \in Seq(S) /\ Alike(Range(p(read)), Range(p(other)))
  <2>1. OneOfEach(Range(d(read))) /\ OneOfEach(Range(d(other)))
    BY <1>2 DEF Alike
  <2>2. \A r \in {read, other} : p(r) \in Seq(S) /\ Range(p(r)) = Unbeaten(Range(d(r)))
    BY <1>2, <2>1, OnePerProgramFacts
  <2> HIDE DEF p
  <2> QED BY <1>2, <2>2, UnbeatenAlike
<1> HIDE DEF p
<1>4. Alike(Range(b(read)), Range(b(other)))
  <2>1. b(read) = Stacked(p(read)) /\ b(other) = Stacked(p(other))
    BY DEF BeforeCarveOuts, p, d, c
  <2> HIDE DEF b
  <2> QED BY <1>3, <2>1, StackedAlike
<1>5. \A r \in {read, other} : b(r) \in Seq(S) /\ IsInjective(b(r))
  BY BeforeFacts
<1>6. \A r \in {read, other} : Range(Expected(r, line, days)) = Range(b(r)) \ Displaced(Range(b(r)))
  <2>1. \A r \in {read, other} : Expected(r, line, days) = CarvedOut(b(r))
    BY DEF Expected
  <2> HIDE DEF b
  <2> QED BY <1>5, <2>1, CarvedOutFacts
<1>7. Duties(Expected(read, line, days)) = Duties(Expected(other, line, days))
  <2>1. Alike(Range(Expected(read, line, days)), Range(Expected(other, line, days)))
    <3> HIDE DEF b
    <3> QED BY <1>4, <1>6, DisplacedAlike
  <2> QED BY <2>1 DEF Alike, Match, Duties
<1>8. /\ Len(c(read)) = Len(c(other))
      /\ Len(d(read)) < Len(c(read)) <=> Len(d(other)) < Len(c(other))
      /\ Len(d(read)) < Len(c(read)) \/ Range(d(read)) = Range(d(other))
  <2>1. Len(c(read)) = Len(c(other))
    BY <1>1, SameLength
  <2>2. Len(d(read)) = Len(d(other))
    BY <1>2, AlikeLength
  <2>3. \A r \in {read, other} : /\ Len(d(r)) <= Len(c(r))
                                 /\ Len(d(r)) = Len(c(r)) => Range(d(r)) = Range(c(r))
    BY <1>1, <1>2, AllKept
  <2>4. Len(d(read)) \in Nat /\ Len(c(read)) \in Nat
    BY <1>1, <1>2
  <2> QED BY <1>1, <2>1, <2>2, <2>3, <2>4
<1>9. SailAssumed(read, line, days) = SailAssumed(other, line, days)
  <2>1. CASE Len(d(read)) < Len(c(read))
    BY <1>8, <2>1 DEF SailAssumed, d, c
  <2>2. CASE Range(d(read)) = Range(d(other))
    BY <1>8, <2>2 DEF SailAssumed, d, c
  <2> QED BY <1>8, <2>1, <2>2
<1> QED BY <1>7, <1>9

\* Where nothing is undecided, each of the days decides alike.
LEMMA CandidateEachDay ==
  ASSUME NEW m \in Headings, NEW line, NEW days \in SUBSET SailDays, NEW day \in SailDays,
         days # {} => day \in days,
         ~(Reaches(m, line) /\ Undecided(m, days))
  PROVE  Candidate(m, line, {day}) <=> Candidate(m, line, days)
<1>1. m \in Heading /\ SailDays \subseteq Int
  BY HeadingsAssumption, LinesAssumption
<1>2. m.after \in Int \cup {Unset} /\ m.before \in Int \cup {Unset}
  BY <1>1 DEF Heading
<1>3. ASSUME ~Undecided(m, days)
      PROVE  ~TooEarly(m, {day}) /\ ~TooLate(m, {day}) <=> ~TooEarly(m, days) /\ ~TooLate(m, days)
  BY <1>1, <1>2, <1>3 DEF Undecided, TooEarly, TooLate
<1> QED BY <1>3 DEF Candidate

-----------------------------------------------------------------------------
(* DutyAudit: the findings.                                                *)

Charges == [base : BOOLEAN, code : STRING \cup {Unset}, percent : Int \cup {Unset}, amount : Int]

LEMMA HeadingTypes ==
  ASSUME NEW m \in Headings
  PROVE  /\ m.code \in STRING /\ m.code # Unset
         /\ m.exempt \in STRING \cup {Unset} /\ m.percent \in Nat \cup {Unset}
<1>1. m \in Heading
  BY HeadingsAssumption
<1> QED BY <1>1, UnsetAssumption DEF Heading

LEMMA ColumnOneType ==
  ASSUME NEW line \in Lines
  PROVE  ColumnOne(line) \in Nat \cup {Unset} /\ Unset \notin Int
<1>1. line \in [general : Nat \cup {Unset}, special : Nat \cup {Unset}, claim : Claims]
  BY LinesAssumption
<1> QED BY <1>1, UnsetAssumption DEF ColumnOne

\* What is expected reaches the line, one measure of each code.
LEMMA ExpectedFacts ==
  ASSUME NEW S \in SUBSET Headings, NEW read \in Seq(S), NEW line, NEW days
  PROVE  /\ Expected(read, line, days) \in Seq(S)
         /\ Range(Expected(read, line, days)) \subseteq {m \in Range(read) : Reaches(m, line)}
         /\ OneOfEach(Range(Expected(read, line, days)))
<1> DEFINE b == BeforeCarveOuts(read, line, days)
           c == {m \in Range(read) : Candidate(m, line, days)}
<1>1. b \in Seq(S) /\ Range(b) \subseteq c /\ OneOfEach(Range(b))
  BY BeforeFacts
<1>2. Expected(read, line, days) = CarvedOut(b)
  BY DEF Expected
<1>3. Range(read) \subseteq Headings
  BY DEF Range
<1>4. c \subseteq {m \in Range(read) : Reaches(m, line)}
  BY DEF Candidate
<1> HIDE DEF b, c
<1>5. CarvedOut(b) \in Seq(S) /\ Range(CarvedOut(b)) \subseteq Range(b)
  BY <1>1, CarvedOutType
<1> QED BY <1>1, <1>2, <1>4, <1>5 DEF OneOfEach

LEMMA InLieuFacts ==
  ASSUME NEW expected \in Seq(Headings), NEW line, NEW charges,
         \A m \in Range(expected) : Reaches(m, line), OneOfEach(Range(expected))
  PROVE  /\ Replaced(expected, charges) <=>
              \E m \in Range(expected) : m.inLieu /\ m.exempt \notin Codes(charges)
         /\ BaseOwed(expected, line, charges) = BaseDue(expected, line, charges)
<1> DEFINE T == {m \in Range(expected) : m.inLieu}
           in == InLieu(expected)
<1>1. in \in Seq(Headings) /\ Range(in) = T
  <2>1. Among(expected, T) \in Seq(Headings) /\ Range(Among(expected, T)) = Range(expected) \cap T
    BY AmongFacts
  <2> QED BY <2>1 DEF InLieu
<1>2. ASSUME NEW m \in T, NEW n \in T PROVE m = n
  <2>1. m \in Headings /\ n \in Headings
    BY DEF Range
  <2>2. m.inLieu /\ n.inLieu /\ m.covers /\ n.covers /\ m.active /\ n.active
    BY DEF Reaches
  <2>3. m.code = n.code
    BY <2>1, <2>2, HeadingsAssumption
  <2> QED BY <2>3 DEF OneOfEach
<1> HIDE DEF in, T
<1>3. in = <<>> => T = {}
  BY <1>1 DEF Range
<1>4. in # <<>> => in[1] \in T
  BY <1>1 DEF Range
<1>5. Replaced(expected, charges) <=> \E m \in T : m.exempt \notin Codes(charges)
  BY <1>2, <1>3, <1>4 DEF Replaced, in
<1>6. Replaced(expected, charges) <=>
        \E m \in Range(expected) : m.inLieu /\ m.exempt \notin Codes(charges)
  BY <1>5 DEF T
<1> QED BY <1>6 DEF BaseOwed, BaseDue

\* The measure a charge is compared with is the expected one of its code.
LEMMA OfficialRateFacts ==
  ASSUME NEW expected \in Seq(Headings), OneOfEach(Range(expected)),
         NEW line \in Lines, NEW charges, NEW c \in Charges, ~c.base
  PROVE  /\ OfficialRate(c, expected, line, charges) # Unset =>
              \E m \in Range(expected) : m.code = c.code
         /\ \A m \in Range(expected) : m.code = c.code =>
              OfficialRate(c, expected, line, charges) = m.percent
<1> DEFINE T == {m \in Range(expected) : m.code = c.code}
           same == Among(expected, T)
<1>1. same \in Seq(Headings) /\ Range(same) = T
  <2>1. Among(expected, T) \in Seq(Headings) /\ Range(Among(expected, T)) = Range(expected) \cap T
    BY AmongFacts
  <2> QED BY <2>1
<1>2. OfficialRate(c, expected, line, charges) =
        IF c.code = Unset \/ same = <<>> THEN Unset ELSE same[1].percent
  BY DEF OfficialRate
<1>3. \A m \in T : m \in Range(expected) /\ m.code = c.code /\ m.code # Unset
  BY HeadingTypes DEF Range
<1>4. \A m \in Range(expected) : m.code = c.code => m \in T
  OBVIOUS
<1> HIDE DEF same, T
<1>5. same # <<>> => same[1] \in T
  BY <1>1 DEF Range
<1>6. T # {} => same # <<>>
  BY <1>1 DEF Range
<1>7. \A m, n \in T : m = n
  BY <1>3 DEF OneOfEach
<1> QED BY <1>2, <1>3, <1>4, <1>5, <1>6, <1>7

LEMMA MismatchFacts ==
  ASSUME NEW expected, NEW line, NEW charges, NEW c \in Range(charges),
         OfficialRate(c, expected, line, charges) # Unset,
         c.amount # 0, Gap(c.amount, OfficialRate(c, expected, line, charges)) > Tolerance
  PROVE  Mismatches(expected, line, charges) # {}
<1> DEFINE Against(d) == OfficialRate(d, expected, line, charges)
           Compared == {d \in Range(charges) : Against(d) # Unset}
           short == {<<"amount", d.code>> : d \in {e \in Compared :
                       e.amount # 0 /\ Gap(e.amount, Against(e)) > Tolerance}}
<1>1. short \subseteq Mismatches(expected, line, charges)
  BY DEF Mismatches
<1>2. c \in {e \in Compared : e.amount # 0 /\ Gap(e.amount, Against(e)) > Tolerance}
  OBVIOUS
<1>3. <<"amount", c.code>> \in short
  <2> DEFINE S == {e \in Compared : e.amount # 0 /\ Gap(e.amount, Against(e)) > Tolerance}
  <2>1. c \in S
    BY <1>2
  <2> HIDE DEF S
  <2>2. <<"amount", c.code>> \in {<<"amount", d.code>> : d \in S}
    BY <2>1
  <2> QED BY <2>2 DEF S
<1> HIDE DEF short
<1> QED BY <1>1, <1>3

\* Charges that are waived, or are at the official rate and of its amount, are
\* not contested.
LEMMA NoMismatch ==
  ASSUME NEW expected, NEW line, NEW charges,
         \A c \in Range(charges) :
           LET rate == OfficialRate(c, expected, line, charges) IN
           rate # Unset => rate \in Int /\ c.amount = rate /\ c.percent \in {Unset, rate}
  PROVE  Mismatches(expected, line, charges) = {}
<1> DEFINE Against(d) == OfficialRate(d, expected, line, charges)
           Compared == {d \in Range(charges) : Against(d) # Unset}
<1>1. \A c \in Compared : Gap(c.amount, Against(c)) = 0 /\ (c.percent = Unset \/ c.percent = Against(c))
  BY DEF Gap
<1>2. ~ 0 > Tolerance
  BY DEF Tolerance
<1> DEFINE Backed(c) == /\ Gap(c.amount, Against(c)) <= Tolerance
                        /\ Gap(c.amount, Against(c)) < Gap(c.amount, c.percent)
           rates == {d \in Compared : d.percent # Unset /\ d.percent # Against(d) /\ ~Backed(d)}
           amounts == {d \in Compared : d.amount # 0 /\ Gap(d.amount, Against(d)) > Tolerance}
<1>3. Mismatches(expected, line, charges) =
        {<<"rate", c.code>> : c \in rates} \cup {<<"amount", c.code>> : c \in amounts}
  BY DEF Mismatches
<1>4. rates = {}
  <2> HIDE DEF Compared, Against, Backed
  <2> QED BY <1>1
<1>5. amounts = {}
  <2> HIDE DEF Compared, Against
  <2> QED BY <1>1, <1>2
<1> HIDE DEF rates, amounts
<1> QED BY <1>3, <1>4, <1>5

\* A correct filing of a line has no finding.
LEMMA CorrectHasNone ==
  ASSUME NEW S \in SUBSET Headings, NEW read \in Seq(S), NEW line \in Lines, NEW days,
         NEW charges \in Seq(Charges), Correct(read, line, days, charges)
  PROVE  Findings(read, line, days, charges) = {}
<1> DEFINE expected == Expected(read, line, days)
           E == Range(expected)
           owed == BaseDue(expected, line, charges)
           Paid(m) == \E i \in Of(charges, m.code) :
             /\ Of(charges, m.code) = {i}
             /\ charges[i].percent \in {Unset, m.percent}
             /\ m.percent # Unset => charges[i].amount = m.percent
           Claimed(m) == /\ m.exempt # Unset /\ Of(charges, m.exempt) # {}
                         /\ \A i \in Of(charges, m.exempt) : charges[i].amount = 0
<1>1. /\ \A m \in E : IF Claimed(m) THEN Of(charges, m.code) = {} ELSE Paid(m)
      /\ \A i \in DOMAIN charges :
           \/ i \in BaseOf(charges)
           \/ \E m \in E : charges[i].code \in {m.code, m.exempt}
           \/ Negated(charges[i].code, read, expected, line, days, charges)
      /\ \/ ColumnOne(line) = Unset
         \/ \E i \in BaseOf(charges) : /\ BaseOf(charges) = {i}
                                       /\ charges[i].percent = owed /\ charges[i].amount = owed
         \/ owed = 0 /\ BaseOf(charges) = {}
  BY DEF Correct
<1>2. /\ expected \in Seq(S) /\ expected \in Seq(Headings)
      /\ E \subseteq {m \in Range(read) : Reaches(m, line)} /\ OneOfEach(E)
  BY ExpectedFacts
<1>3. E \subseteq Headings /\ E \subseteq Range(read) /\ \A m \in E : m.active /\ Reaches(m, line)
  <2> HIDE DEF expected
  <2>1. E \subseteq Range(read) /\ \A m \in E : Reaches(m, line)
    BY <1>2
  <2>2. Range(read) \subseteq Headings
    BY DEF Range
  <2> QED BY <2>1, <2>2 DEF Reaches
<1>4. BaseOwed(expected, line, charges) = owed
  BY <1>2, <1>3, InLieuFacts
<1>5. owed \in Nat /\ (ColumnOne(line) = Unset => owed = 0) /\ owed # Unset
  BY ColumnOneType DEF BaseDue
<1>6. \A i \in DOMAIN charges : charges[i] \in Charges
  OBVIOUS
<1> HIDE DEF expected
<1>7. MissingMeasures(expected, charges) = {}
  <2>1. ASSUME NEW m \in E PROVE {m.code, m.exempt} \cap Codes(charges) # {}
    <3>1. m.code # Unset
      BY <1>3, HeadingTypes
    <3>2. CASE Claimed(m)
      BY <3>2 DEF Of, Codes, Range
    <3>3. CASE ~Claimed(m)
      <4>1. Paid(m)
        BY <1>1, <3>3
      <4> QED BY <3>1, <4>1 DEF Of, Codes, Range
    <3> QED BY <3>2, <3>3
  <2>2. {n \in E : {n.code, n.exempt} \cap Codes(charges) = {}} = {}
    BY <2>1
  <2> QED BY <2>2 DEF MissingMeasures
<1>8. MissingBase(expected, line, charges) = {}
  <2>1. CASE owed = 0
    BY <1>4, <2>1 DEF MissingBase
  <2>2. CASE owed # 0
    <3>1. PICK i \in BaseOf(charges) : TRUE
      BY <1>1, <1>5, <2>2
    <3>2. \E c \in Range(charges) : c.base
      BY <3>1 DEF BaseOf, Range
    <3> QED BY <3>2 DEF MissingBase
  <2> QED BY <2>1, <2>2
<1>9. UnexpectedMeasures(read, expected, line, days, charges) = {}
  <2> DEFINE Unexpected(d) ==
               /\ ~d.base /\ d.amount # 0 /\ d.code # Unset
               /\ ~\E m \in Range(expected) : m.code = d.code
               /\ ~\E m \in Range(read) : m.exempt = d.code /\ m.active
               /\ ~\E m \in Range(read) : m.code = d.code /\
                     \E n \in Range(expected) : n.authority = m.authority
               /\ ~Negated(d.code, read, expected, line, days, charges)
  <2>1. ASSUME NEW d \in Range(charges) PROVE ~Unexpected(d)
    <3>1. PICK i \in DOMAIN charges : d = charges[i]
      BY DEF Range
    <3>2. CASE i \in BaseOf(charges)
      BY <3>1, <3>2 DEF BaseOf
    <3>3. CASE \E m \in E : charges[i].code \in {m.code, m.exempt}
      BY <1>3, <3>1, <3>3
    <3>4. CASE Negated(charges[i].code, read, expected, line, days, charges)
      BY <3>1, <3>4
    <3> QED BY <1>1, <3>2, <3>3, <3>4
  <2>2. {d \in Range(charges) : Unexpected(d)} = {}
    <3> HIDE DEF Unexpected
    <3> QED BY <2>1
  <2>3. UnexpectedMeasures(read, expected, line, days, charges) =
          {<<"unexpected", c.code>> : c \in {d \in Range(charges) : Unexpected(d)}}
    BY DEF UnexpectedMeasures
  <2> HIDE DEF Unexpected
  <2> QED BY <2>2, <2>3
<1>10. Mismatches(expected, line, charges) = {}
  <2>1. ASSUME NEW c \in Range(charges),
               OfficialRate(c, expected, line, charges) # Unset
        PROVE  /\ OfficialRate(c, expected, line, charges) \in Int
               /\ c.amount = OfficialRate(c, expected, line, charges)
               /\ c.percent \in {Unset, OfficialRate(c, expected, line, charges)}
    <3>1. PICK i \in DOMAIN charges : c = charges[i]
      BY DEF Range
    <3>2. CASE c.base
      <4>1. OfficialRate(c, expected, line, charges) = owed /\ ColumnOne(line) # Unset
        BY <1>4, <2>1, <3>2 DEF OfficialRate
      <4>2. i \in BaseOf(charges)
        BY <3>1, <3>2 DEF BaseOf
      <4>3. c.percent = owed /\ c.amount = owed
        BY <1>1, <3>1, <4>1, <4>2
      <4> QED BY <1>5, <4>1, <4>3
    <3>3. CASE ~c.base
      <4>1. c \in Charges
        BY <1>6, <3>1
      <4>2. /\ \E m \in E : m.code = c.code
            /\ \A m \in E : m.code = c.code => OfficialRate(c, expected, line, charges) = m.percent
        BY <1>2, <2>1, <3>3, <4>1, OfficialRateFacts
      <4>3. PICK m \in E : m.code = c.code /\ OfficialRate(c, expected, line, charges) = m.percent
        BY <4>2
      <4>4. m.percent \in Nat
        BY <1>3, <2>1, <4>3, HeadingTypes
      <4>5. i \in Of(charges, m.code)
        BY <3>1, <4>3 DEF Of
      <4>6. Paid(m)
        BY <1>1, <4>5
      <4>7. c.percent \in {Unset, m.percent} /\ c.amount = m.percent
        BY <2>1, <3>1, <4>3, <4>5, <4>6
      <4> QED BY <4>3, <4>4, <4>7
    <3> QED BY <3>2, <3>3
  <2> QED BY <2>1, NoMismatch
<1> QED BY <1>7, <1>8, <1>9, <1>10 DEF Findings, expected

\* Silence pays: for an expected measure, and for the base duty.
LEMMA SilencePaysMeasure ==
  ASSUME NEW S \in SUBSET Headings, NEW read \in Seq(S), NEW line \in Lines, NEW days,
         NEW charges \in Seq(Charges), \A c \in Range(charges) : c.base => c.code = Unset,
         charges # <<>>, Findings(read, line, days, charges) = {},
         NEW m \in Range(Expected(read, line, days)),
         m.percent # Unset, m.exempt \notin Codes(charges)
  PROVE  \E i \in Of(charges, m.code) :
           charges[i].amount = 0 \/ charges[i].amount >= m.percent - Tolerance
<1> DEFINE expected == Expected(read, line, days)
<1>1. /\ expected \in Seq(Headings) /\ OneOfEach(Range(expected)) /\ m \in Range(expected)
  BY ExpectedFacts
<1>2. MissingMeasures(expected, charges) = {} /\ Mismatches(expected, line, charges) = {}
  BY DEF Findings
<1> HIDE DEF expected
<1>3. m \in Headings
  BY <1>1 DEF Range
<1>4. m.code \in Codes(charges)
  <2> DEFINE Left == {n \in Range(expected) : {n.code, n.exempt} \cap Codes(charges) = {}}
  <2>1. MissingMeasures(expected, charges) = {<<"missing", n.code>> : n \in Left}
    BY DEF MissingMeasures
  <2>2. m \notin Left
    <3> HIDE DEF Left
    <3> QED BY <1>2, <2>1
  <2> QED BY <1>1, <2>2
<1>5. PICK i \in DOMAIN charges : charges[i].code = m.code
  BY <1>4 DEF Codes, Range
<1> DEFINE c == charges[i]
<1>6. c \in Charges /\ c \in Range(charges) /\ ~c.base
  <2>1. c \in Charges /\ c \in Range(charges)
    BY DEF Range
  <2>2. m.code # Unset
    BY <1>3, HeadingTypes
  <2> QED BY <1>5, <2>1, <2>2
<1>7. OfficialRate(c, expected, line, charges) = m.percent
  BY <1>1, <1>5, <1>6, OfficialRateFacts
<1>8. c.amount = 0 \/ ~(Gap(c.amount, m.percent) > Tolerance)
  BY <1>2, <1>6, <1>7, MismatchFacts
<1>9. c.amount \in Int /\ m.percent \in Nat
  BY <1>3, <1>6, HeadingTypes DEF Charges
<1>10. c.amount = 0 \/ c.amount >= m.percent - Tolerance
  BY <1>8, <1>9 DEF Gap, Tolerance
<1> QED BY <1>5, <1>10 DEF Of

LEMMA SilencePaysBase ==
  ASSUME NEW S \in SUBSET Headings, NEW read \in Seq(S), NEW line \in Lines, NEW days,
         NEW charges \in Seq(Charges), charges # <<>>, Findings(read, line, days, charges) = {},
         NEW owed, owed = BaseDue(Expected(read, line, days), line, charges),
         owed # 0, line.claim \notin {"unverifiable", "lapsed"}
  PROVE  \E i \in BaseOf(charges) :
           charges[i].amount = 0 \/ charges[i].amount >= owed - Tolerance
<1> DEFINE expected == Expected(read, line, days)
<1>1. /\ expected \in Seq(Headings) /\ OneOfEach(Range(expected))
      /\ \A m \in Range(expected) : Reaches(m, line)
  BY ExpectedFacts
<1>2. MissingBase(expected, line, charges) = {} /\ Mismatches(expected, line, charges) = {}
  BY DEF Findings
<1>3. owed = BaseDue(expected, line, charges)
  OBVIOUS
<1> HIDE DEF expected
<1>4. /\ BaseOwed(expected, line, charges) = owed
      /\ Replaced(expected, charges) <=> \E m \in Range(expected) : m.inLieu /\ m.exempt \notin Codes(charges)
  BY <1>1, <1>3, InLieuFacts
<1>5. ColumnOne(line) # Unset /\ ~Replaced(expected, charges) /\ owed \in Nat /\ owed > 0 /\ owed # Unset
  BY <1>3, <1>4, ColumnOneType DEF BaseDue
<1>6. PICK i \in DOMAIN charges : charges[i].base
  <2>1. \E c \in Range(charges) : c.base
    BY <1>2, <1>4, <1>5 DEF MissingBase
  <2> QED BY <2>1 DEF Range
<1> DEFINE c == charges[i]
<1>7. c \in Charges /\ c \in Range(charges)
  BY DEF Range
<1>8. OfficialRate(c, expected, line, charges) = owed
  BY <1>4, <1>5, <1>6 DEF OfficialRate, Closes
<1>9. c.amount = 0 \/ ~(Gap(c.amount, owed) > Tolerance)
  BY <1>2, <1>5, <1>7, <1>8, MismatchFacts
<1>10. c.amount \in Int
  BY <1>7 DEF Charges
<1>11. c.amount = 0 \/ c.amount >= owed - Tolerance
  BY <1>5, <1>9, <1>10 DEF Gap, Tolerance
<1> QED BY <1>6, <1>11 DEF BaseOf

-----------------------------------------------------------------------------
(* DutyAudit: what is on file.                                             *)

\* The line and the rows are the reference's, and only charges of the base duty
\* have no code.
DutyTypeOK ==
  /\ duties \subseteq Headings /\ goods \in Lines /\ sailed \subseteq SailDays
  /\ declared \in Seq(Charges)
  /\ \A c \in Range(declared) : c.base => c.code = Unset

LEMMA OrdersFacts ==
  ASSUME duties \subseteq Headings
  PROVE  /\ AsRead \in Orders
         /\ \A read \in Orders : read \in Seq(duties) /\ IsInjective(read) /\ Range(read) = duties
<1>1. IsFiniteSet(duties)
  BY LinesAssumption, FS_Subset
<1>2. Cardinality(duties) \in Nat /\ ExistsBijection(1..Cardinality(duties), duties)
  BY <1>1, FS_CardinalityType
<1>3. Orders # {}
  BY <1>2 DEF Orders, ExistsBijection
<1>4. ASSUME NEW read \in Orders
      PROVE  read \in Seq(duties) /\ IsInjective(read) /\ Range(read) = duties
  <2>1. /\ read \in [1..Cardinality(duties) -> duties] /\ IsInjective(read)
        /\ \A m \in duties : \E i \in 1..Cardinality(duties) : read[i] = m
    BY DEF Orders, Bijection, Injection, Surjection
  <2>2. read \in Seq(duties)
    BY <1>2, <2>1
  <2> QED BY <2>1, <2>2 DEF Range
<1> QED BY <1>3, <1>4 DEF AsRead

LEMMA FairOfTypes ==
  ASSUME DutyTypeOK
  PROVE  FindingsFair
<1>1. duties \in SUBSET Headings /\ goods \in Lines /\ declared \in Seq(Charges) /\ AsRead \in Seq(duties)
  BY OrdersFacts DEF DutyTypeOK
<1> DEFINE found == Findings(AsRead, goods, sailed, declared)
<1>2. Correct(AsRead, goods, sailed, declared) => found = {}
  BY <1>1, CorrectHasNone
<1>3. ASSUME declared # <<>>, found = {}
      PROVE  LET expected == Expected(AsRead, goods, sailed)
                 owed == BaseDue(expected, goods, declared)
                 Pays(charges, amount) == \E i \in charges :
                   declared[i].amount = 0 \/ declared[i].amount >= amount - Tolerance
             IN /\ \A m \in Range(expected) :
                     \/ m.percent = Unset \/ m.exempt \in Codes(declared)
                     \/ Pays(Of(declared, m.code), m.percent)
                /\ \/ owed = 0 \/ goods.claim \in {"unverifiable", "lapsed"}
                   \/ Pays(BaseOf(declared), owed)
  <2>1. ASSUME NEW m \in Range(Expected(AsRead, goods, sailed)),
               m.percent # Unset, m.exempt \notin Codes(declared)
        PROVE  \E i \in Of(declared, m.code) :
                 declared[i].amount = 0 \/ declared[i].amount >= m.percent - Tolerance
    BY <1>1, <1>3, <2>1, SilencePaysMeasure DEF DutyTypeOK
  <2> DEFINE owed == BaseDue(Expected(AsRead, goods, sailed), goods, declared)
  <2>2. ASSUME owed # 0, goods.claim \notin {"unverifiable", "lapsed"}
        PROVE  \E i \in BaseOf(declared) :
                 declared[i].amount = 0 \/ declared[i].amount >= owed - Tolerance
    BY <1>1, <1>3, <2>2, SilencePaysBase
  <2> QED BY <2>1, <2>2
<1> HIDE DEF found
<1>4. CorrectIsSilent(found)
  BY <1>2 DEF CorrectIsSilent
<1>5. SilenceIsPaid(found)
  BY <1>3 DEF SilenceIsPaid
<1> QED BY <1>4, <1>5 DEF FindingsFair, found

LEMMA StandsOfTypes ==
  ASSUME DutyTypeOK
  PROVE  ExpectationStands
<1>1. duties \in SUBSET Headings /\ sailed \in SUBSET SailDays
  BY DEF DutyTypeOK
<1>2. /\ AsRead \in Seq(duties) /\ IsInjective(AsRead) /\ Range(AsRead) = duties
      /\ \A read \in Orders : read \in Seq(duties) /\ IsInjective(read) /\ Range(read) = duties
  BY <1>1, OrdersFacts
<1>3. OrderFree
  <2>1. ASSUME NEW read \in Orders
        PROVE  /\ Duties(Expected(read, goods, sailed)) = Duties(Expected(AsRead, goods, sailed))
               /\ SailAssumed(read, goods, sailed) = SailAssumed(AsRead, goods, sailed)
    <3>1. read \in Seq(duties) /\ IsInjective(read) /\ Range(read) = Range(AsRead)
      BY <1>2
    <3> QED BY <1>1, <1>2, <3>1, ExpectedOrderFree
  <2> QED BY <2>1 DEF OrderFree
<1>4. SailBasisSound
  <2>1. ASSUME ~SailAssumed(AsRead, goods, sailed),
               NEW day \in (IF sailed = {} THEN SailDays ELSE sailed)
        PROVE  Expected(AsRead, goods, {day}) = Expected(AsRead, goods, sailed)
    <3>1. day \in SailDays /\ (sailed # {} => day \in sailed)
      BY <1>1
    <3>2. ASSUME NEW m \in Range(AsRead)
          PROVE  ~(Reaches(m, goods) /\ Undecided(m, sailed))
      <4>1. Undecided(m, sailed) => Dated(m)
        BY DEF Undecided, Dated
      <4> QED BY <2>1, <4>1 DEF SailAssumed
    <3>3. ASSUME NEW m \in Range(AsRead)
          PROVE  Candidate(m, goods, {day}) <=> Candidate(m, goods, sailed)
      <4>1. m \in Headings
        BY <1>1, <1>2
      <4> QED BY <1>1, <3>1, <3>2, <4>1, CandidateEachDay
    <3>4. {m \in Range(AsRead) : Candidate(m, goods, {day})} =
          {m \in Range(AsRead) : Candidate(m, goods, sailed)}
      BY <3>3
    <3>5. Candidates(AsRead, goods, {day}) = Candidates(AsRead, goods, sailed)
      BY <3>4 DEF Candidates
    <3> QED BY <3>5 DEF Expected, BeforeCarveOuts
  <2> QED BY <2>1 DEF SailBasisSound
<1> QED BY <1>3, <1>4 DEF ExpectationStands

LEMMA OneCharge ==
  ASSUME NEW b \in BOOLEAN, NEW code \in STRING \cup {Unset},
         NEW percent \in Int \cup {Unset}, NEW amount \in Int, b => code = Unset
  PROVE  /\ <<Charge(b, code, percent, amount)>> \in Seq(Charges)
         /\ \A c \in Range(<<Charge(b, code, percent, amount)>>) : c.base => c.code = Unset
<1> DEFINE c == Charge(b, code, percent, amount)
<1>1. c \in Charges /\ (c.base => c.code = Unset)
  BY DEF Charge, Charges
<1> HIDE DEF c
<1>2. <<c>> \in Seq(Charges) /\ Range(<<c>>) = {c}
  BY <1>1 DEF Range
<1> QED BY <1>1, <1>2 DEF c

LEMMA NoCharge == <<>> \in Seq(Charges) /\ \A c \in Range(<<>>) : c.base => c.code = Unset
  BY DEF Range

LEMMA WaysType ==
  ASSUME NEW m \in Headings, NEW w \in Ways(m)
  PROVE  w \in Seq(Charges) /\ \A c \in Range(w) : c.base => c.code = Unset
<1>1. m.code \in STRING /\ m.exempt \in STRING \cup {Unset} /\ m.percent \in Nat \cup {Unset}
  BY HeadingTypes
<1> DEFINE p == IF m.percent = Unset THEN 3 ELSE m.percent
<1>2. p \in Int /\ p + 20 \in Int /\ p - 2 \in Int /\ 0 \in Int /\ m.percent \in Int \cup {Unset}
  BY <1>1
<1>3. \/ w = <<>>
      \/ w = <<Charge(FALSE, m.code, m.percent, p)>>
      \/ w = <<Charge(FALSE, m.code, p + 20, p)>>
      \/ w = <<Charge(FALSE, m.code, p, p - 2)>>
      \/ w = <<Charge(FALSE, m.code, Unset, 0)>>
      \/ w = <<Charge(FALSE, m.exempt, Unset, 0)>>
  BY DEF Ways
<1> HIDE DEF p
<1>4. CASE w = <<>>
  BY <1>4, NoCharge
<1>5. CASE w = <<Charge(FALSE, m.code, m.percent, p)>>
  BY <1>1, <1>2, <1>5, OneCharge
<1>6. CASE w = <<Charge(FALSE, m.code, p + 20, p)>>
  BY <1>1, <1>2, <1>6, OneCharge
<1>7. CASE w = <<Charge(FALSE, m.code, p, p - 2)>>
  BY <1>1, <1>2, <1>7, OneCharge
<1>8. CASE w = <<Charge(FALSE, m.code, Unset, 0)>>
  BY <1>1, <1>2, <1>8, OneCharge
<1>9. CASE w = <<Charge(FALSE, m.exempt, Unset, 0)>>
  BY <1>1, <1>2, <1>9, OneCharge
<1> QED BY <1>3, <1>4, <1>5, <1>6, <1>7, <1>8, <1>9

LEMMA BaseWaysType ==
  ASSUME NEW line \in Lines, NEW w \in BaseWays(line)
  PROVE  w \in Seq(Charges) /\ \A c \in Range(w) : c.base => c.code = Unset
<1>1. line.general \in Nat \cup {Unset} /\ line.special \in Nat \cup {Unset}
  BY LinesAssumption
<1>2. w = <<>> \/ \E p \in {0} \cup ({line.general, line.special, 15} \ {Unset}) : w = <<Charge(TRUE, Unset, p, p)>>
  BY DEF BaseWays
<1>3. \A p \in {0} \cup ({line.general, line.special, 15} \ {Unset}) : p \in Int
  BY <1>1
<1>4. ASSUME NEW p \in Int, w = <<Charge(TRUE, Unset, p, p)>>
      PROVE  w \in Seq(Charges) /\ \A c \in Range(w) : c.base => c.code = Unset
  BY <1>4, OneCharge
<1> QED BY <1>2, <1>3, <1>4, NoCharge

LEMMA ConcatType ==
  ASSUME NEW v \in Seq(Charges), NEW w \in Seq(Charges),
         \A c \in Range(v) \cup Range(w) : c.base => c.code = Unset
  PROVE  v \o w \in Seq(Charges) /\ \A c \in Range(v \o w) : c.base => c.code = Unset
<1>1. v \o w \in Seq(Charges)
  OBVIOUS
<1>2. Range(v \o w) = Range(v) \cup Range(w)
  BY RangeConcatenation
<1> QED BY <1>1, <1>2

\* On file are rows of the reference, a line, sail days and typed charges.
THEOREM DutyTypeCorrect == DutySpec => []DutyTypeOK
<1>1. DutyInit => DutyTypeOK
  BY DEF DutyInit, DutyTypeOK, Range
<1>2. DutyTypeOK /\ [DutyNext]_dutyVars => DutyTypeOK'
  <2> SUFFICES ASSUME DutyTypeOK, [DutyNext]_dutyVars PROVE DutyTypeOK'
    OBVIOUS
  <2>1. CASE LinkShipment
    BY <2>1 DEF LinkShipment, DutyTypeOK
  <2>2. CASE Ingest
    <3> DEFINE Declarations(i) == IF i \in DOMAIN AsRead THEN Ways(AsRead[i]) ELSE {<<>>}
    <3>0. PICK i \in 1..MaxHeadings : \E j \in i..MaxHeadings :
            \E base \in BaseWays(goods), first \in Declarations(i),
               second \in IF j = i THEN {<<>>} ELSE Declarations(j) :
              declared' = base \o first \o second
      BY <2>2 DEF Ingest
    <3>1. PICK j, base, first, second :
            /\ base \in BaseWays(goods) /\ first \in Declarations(i)
            /\ second \in IF j = i THEN {<<>>} ELSE Declarations(j)
            /\ declared' = base \o first \o second
      <4> HIDE DEF Declarations
      <4> QED BY <3>0
    <3>2. AsRead \in Seq(Headings)
      BY OrdersFacts DEF DutyTypeOK
    <3>4. ASSUME NEW k, NEW w \in Declarations(k)
          PROVE  w \in Seq(Charges) /\ \A c \in Range(w) : c.base => c.code = Unset
      <4>1. CASE k \in DOMAIN AsRead
        <5>1. AsRead[k] \in Headings
          BY <3>2, <4>1
        <5> QED BY <4>1, <5>1, WaysType
      <4>2. CASE k \notin DOMAIN AsRead
        BY <4>2, NoCharge
      <4> QED BY <4>1, <4>2
    <3>5. base \in Seq(Charges) /\ \A c \in Range(base) : c.base => c.code = Unset
      BY <3>1, BaseWaysType DEF DutyTypeOK
    <3>6. first \in Seq(Charges) /\ \A c \in Range(first) : c.base => c.code = Unset
      BY <3>1, <3>4
    <3>7. second \in Seq(Charges) /\ \A c \in Range(second) : c.base => c.code = Unset
      BY <3>1, <3>4, NoCharge
    <3> HIDE DEF Declarations
    <3>8. base \o first \in Seq(Charges) /\ \A c \in Range(base \o first) : c.base => c.code = Unset
      BY <3>5, <3>6, ConcatType
    <3>9. declared' \in Seq(Charges) /\ \A c \in Range(declared') : c.base => c.code = Unset
      <4> DEFINE both == base \o first
      <4>1. both \in Seq(Charges) /\ \A c \in Range(both) : c.base => c.code = Unset
        BY <3>8
      <4> HIDE DEF both
      <4>2. both \o second \in Seq(Charges) /\ \A c \in Range(both \o second) : c.base => c.code = Unset
        BY <4>1, <3>7, ConcatType
      <4> QED BY <4>2, <3>1 DEF both
    <3> QED BY <2>2, <3>9 DEF Ingest, DutyTypeOK
  <2>3. CASE UNCHANGED dutyVars
    BY <2>3 DEF dutyVars, DutyTypeOK
  <2> QED BY <2>1, <2>2, <2>3 DEF DutyNext
<1> QED BY <1>1, <1>2, PTL DEF DutySpec

\* What is expected of a line is decided by what is on file, whatever order the
\* rows come in and whichever shipment it was on, or says that it is not.
THEOREM ExpectationStandsAlways == DutySpec => []ExpectationStands
<1>1. DutyTypeOK => ExpectationStands
  BY StandsOfTypes
<1> QED BY <1>1, DutyTypeCorrect, PTL

\* A correct filing has no finding, and one without findings has paid.
THEOREM FindingsFairAlways == DutySpec => []FindingsFair
<1>1. DutyTypeOK => FindingsFair
  BY FairOfTypes
<1> QED BY <1>1, DutyTypeCorrect, PTL
=============================================================================
