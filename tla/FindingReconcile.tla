-------------------------- MODULE FindingReconcile --------------------------
(***************************************************************************)
(* The findings of one entry (rows of analysis_findings) and the two       *)
(* parties that write them: reconcileFindings of                           *)
(* src/lib/analysis/service.ts, which brings the rows to the report of a   *)
(* clean run, and the PATCH handlers through which a person resolves,      *)
(* dismisses or reopens a finding.                                         *)
(*                                                                         *)
(* reconcileFindings reads the rows, then issues one INSERT, one UPDATE    *)
(* per drifted row and one DELETE, each a transaction of its own; every    *)
(* step here is one of those statements.                                   *)
(***************************************************************************)
EXTENDS Naturals, FiniteSets

CONSTANTS
  Bases,          \* category and line scope of a finding ("ai:<category>:<line>")
  Texts,          \* contents of a finding: the columns the plan compares
  NoText,         \* not in the report
  MaxReport,      \* bound: findings of one report
  Writers,        \* concurrent runs over the entry
  Humans,         \* concurrent PATCH requests
  MaxReconciles,  \* bound: reconciles of a behaviour
  MaxDecisions    \* bound: PATCH requests of a behaviour

ASSUME NoTextAssumption == NoText \notin Texts
ASSUME BoundsAssumption ==
  /\ MaxReport \in Nat
  /\ MaxReconciles \in Nat
  /\ MaxDecisions \in Nat

VARIABLES
  row,        \* analysis_findings, by finding_key
  issued,     \* ids given out under each key: every INSERT makes a new row
  writer,     \* a run inside reconcileFindings
  human,      \* a PATCH request between its SELECT and its UPDATE
  alone,      \* ghost: nobody else has written since this run read the rows
  judged,     \* ghost: keys decided while no run held a plan for their row
  reconciles, \* bound counter
  decisions   \* bound counter

vars == <<row, issued, writer, human, alone, judged, reconciles, decisions>>

-----------------------------------------------------------------------------
(* Keys.                                                                   *)

\* One run may flag the same category and line more than once; the ordinal
\* tells the repetitions apart.
Keys == Bases \X (1..MaxReport)

Finding == [base : Bases, text : Texts]
Reports == UNION {[1..n -> Finding] : n \in 0..MaxReport}

\* Mutant: the key has no ordinal.
KeyWithoutOrdinal(report, i) == <<report[i].base, 1>>

\* assignFindingKeys: the i-th finding of a report.
KeyOf(report, i) ==
  <<report[i].base,
    Cardinality({j \in 1..i : report[j].base = report[i].base})>>

\* What a report wants to find under each key.
Desired(report) ==
  [k \in Keys |->
     IF \E i \in DOMAIN report : KeyOf(report, i) = k
       THEN report[CHOOSE i \in DOMAIN report : KeyOf(report, i) = k].text
       ELSE NoText]

-----------------------------------------------------------------------------
(* Rows, runs and requests.                                                *)

Decided == {"resolved", "dismissed"}

NoRow == [status |-> "none", text |-> NoText, id |-> 0]

Row == {NoRow} \cup [status : {"open"} \cup Decided, text : Texts, id : Nat \ {0}]

\* seen: "existing", the rows as the run read them.  todo: drifted rows whose
\* UPDATE is still to come.
Writer == [pc : {"idle", "insert", "update", "delete", "done", "failed"},
           report : Reports, seen : [Keys -> Row], todo : SUBSET Keys]

IdleWriter == [pc |-> "idle", report |-> <<>>,
               seen |-> [k \in Keys |-> NoRow], todo |-> {}]

\* key and id: the row the handler found; to: the status it will set.
Human == [pc : {"off"}] \cup
         [pc : {"found"}, key : Keys, id : Nat \ {0}, to : {"open"} \cup Decided]

Off == [pc |-> "off"]

Want(w) == Desired(writer[w].report)

\* planFindingReconcile: toInsert, toDeleteIds and toUpdate.
Inserts(w) ==
  {k \in Keys : Want(w)[k] # NoText /\ writer[w].seen[k].status = "none"}

Deletes(w) ==
  {k \in Keys : Want(w)[k] = NoText /\ writer[w].seen[k].status = "open"}

\* Mutant: a decided row whose content drifted is refreshed too.
DriftedAny(want, existing) ==
  {k \in Keys : /\ want[k] # NoText
                /\ existing[k].status # "none"
                /\ existing[k].text # want[k]}

Drifted(want, existing) ==
  {k \in Keys : /\ want[k] # NoText
                /\ existing[k].status = "open"
                /\ existing[k].text # want[k]}

\* The run may still write to the row it saw under k.
Planned(w, k) ==
  \/ writer[w].pc \in {"insert", "update"} /\ k \in writer[w].todo
  \/ writer[w].pc \in {"insert", "update", "delete"} /\ k \in Deletes(w)

\* Some run's plan names the very row that now stands under k.
Threatened(k) ==
  \E w \in Writers : Planned(w, k) /\ writer[w].seen[k].id = row[k].id

\* Everybody but w learns, through the ghost, that the rows have changed.
Wrote(w) == alone' = [v \in Writers |-> alone[v] /\ (v = w \/ row' = row)]

TypeOK ==
  /\ row \in [Keys -> Row]
  /\ issued \in [Keys -> Nat]
  /\ writer \in [Writers -> Writer]
  /\ human \in [Humans -> Human]
  /\ alone \in [Writers -> BOOLEAN]
  /\ judged \in SUBSET Keys
  /\ reconciles \in Nat
  /\ decisions \in Nat

Init ==
  /\ row = [k \in Keys |-> NoRow]
  /\ issued = [k \in Keys |-> 0]
  /\ writer = [w \in Writers |-> IdleWriter]
  /\ human = [h \in Humans |-> Off]
  /\ alone = [w \in Writers |-> FALSE]
  /\ judged = {}
  /\ reconciles = 0
  /\ decisions = 0

-----------------------------------------------------------------------------
(* reconcileFindings.                                                      *)

\* A clean run has its report: its findings get their keys, the entry's rows
\* are read and the plan is made.
Plan(w, report) ==
  /\ writer[w].pc \in {"idle", "done", "failed"}
  /\ reconciles < MaxReconciles
  /\ writer' = [writer EXCEPT ![w] =
       [pc |-> "insert", report |-> report, seen |-> row,
        todo |-> Drifted(Desired(report), row)]]
  /\ alone' = [alone EXCEPT ![w] = TRUE]
  /\ reconciles' = reconciles + 1
  /\ UNCHANGED <<row, issued, human, judged, decisions>>

\* One INSERT of all the new keys; no statement when there are none.
InsertNew(w) ==
  /\ writer[w].pc = "insert"
  /\ \A k \in Inserts(w) : row[k] = NoRow
  /\ issued' = [k \in Keys |->
       IF k \in Inserts(w) THEN issued[k] + 1 ELSE issued[k]]
  /\ row' = [k \in Keys |->
       IF k \in Inserts(w)
         THEN [status |-> "open", text |-> Want(w)[k], id |-> issued[k] + 1]
         ELSE row[k]]
  /\ writer' = [writer EXCEPT ![w].pc = "update"]
  /\ Wrote(w)
  /\ UNCHANGED <<human, judged, reconciles, decisions>>

\* analysis_findings_entry_key_uq: a key another run inserted meanwhile makes
\* the whole INSERT fail, and the reconcile with it.
InsertThrows(w) ==
  /\ writer[w].pc = "insert"
  /\ \E k \in Inserts(w) : row[k] # NoRow
  /\ writer' = [writer EXCEPT ![w].pc = "failed"]
  /\ UNCHANGED <<row, issued, human, alone, judged, reconciles, decisions>>

\* One UPDATE, by the id the plan holds; it changes nothing when that row is
\* gone, and it does not ask whether the row is still open.
UpdateOne(w, k) ==
  /\ writer[w].pc = "update"
  /\ k \in writer[w].todo
  /\ row' = IF row[k].id = writer[w].seen[k].id
              THEN [row EXCEPT ![k].text = Want(w)[k]]
              ELSE row
  /\ writer' = [writer EXCEPT ![w].todo = @ \ {k}]
  /\ Wrote(w)
  /\ UNCHANGED <<issued, human, judged, reconciles, decisions>>

UpdatesEnd(w) ==
  /\ writer[w].pc = "update"
  /\ writer[w].todo = {}
  /\ writer' = [writer EXCEPT ![w].pc = "delete"]
  /\ UNCHANGED <<row, issued, human, alone, judged, reconciles, decisions>>

\* One DELETE, by ids, of the rows that were open and are not reported.
DeleteStale(w) ==
  /\ writer[w].pc = "delete"
  /\ row' = [k \in Keys |->
       IF k \in Deletes(w) /\ row[k].id = writer[w].seen[k].id
         THEN NoRow ELSE row[k]]
  /\ writer' = [writer EXCEPT ![w].pc = "done"]
  /\ Wrote(w)
  /\ UNCHANGED <<issued, human, judged, reconciles, decisions>>

\* The process dies, or a statement fails, between two statements.
Crash(w) ==
  /\ writer[w].pc \in {"insert", "update", "delete"}
  /\ writer' = [writer EXCEPT ![w].pc = "failed"]
  /\ UNCHANGED <<row, issued, human, alone, judged, reconciles, decisions>>

-----------------------------------------------------------------------------
(* PATCH of a finding (both routes decide findings by id).                 *)

PatchFinds(h, k, to) ==
  /\ human[h].pc = "off"
  /\ decisions < MaxDecisions
  /\ row[k] # NoRow
  /\ human' = [human EXCEPT ![h] =
       [pc |-> "found", key |-> k, id |-> row[k].id, to |-> to]]
  /\ decisions' = decisions + 1
  /\ UNCHANGED <<row, issued, writer, alone, judged, reconciles>>

\* The UPDATE by id; a row deleted meanwhile is not updated, and the answer
\* is a success all the same.
PatchWrites(h) ==
  LET k == human[h].key
      hit == row[k].id = human[h].id
  IN /\ human[h].pc = "found"
     /\ row' = IF hit THEN [row EXCEPT ![k].status = human[h].to] ELSE row
     /\ judged' = CASE ~hit -> judged
                    [] hit /\ (human[h].to = "open" \/ Threatened(k)) ->
                         judged \ {k}
                    [] OTHER -> judged \cup {k}
     /\ alone' = [w \in Writers |-> alone[w] /\ row' = row]
     /\ human' = [human EXCEPT ![h] = Off]
     /\ UNCHANGED <<issued, writer, reconciles, decisions>>

-----------------------------------------------------------------------------
WriterStep(w) ==
  \/ \E report \in Reports : Plan(w, report)
  \/ InsertNew(w)
  \/ InsertThrows(w)
  \/ \E k \in Keys : UpdateOne(w, k)
  \/ UpdatesEnd(w)
  \/ DeleteStale(w)
  \/ Crash(w)

HumanStep(h) ==
  \/ \E k \in Keys, to \in {"open"} \cup Decided : PatchFinds(h, k, to)
  \/ PatchWrites(h)

Next == (\E w \in Writers : WriterStep(w)) \/ (\E h \in Humans : HumanStep(h))

Spec == Init /\ [][Next]_vars

-----------------------------------------------------------------------------
(* What a clean run promises.                                              *)

\* A reconcile nobody interfered with leaves exactly the report on the entry:
\* every finding of the report has a key of its own and stands open under it
\* with its text, unless a person had decided that key before; what the report
\* does not name is gone, whatever an earlier run that died half way left
\* behind; and what was decided is as it was.
Settled(w) ==
  LET report == writer[w].report
      seen == writer[w].seen
  IN /\ \A i, j \in DOMAIN report :
          KeyOf(report, i) = KeyOf(report, j) => i = j
     /\ \A i \in DOMAIN report :
          LET k == KeyOf(report, i) IN
            /\ k \in Keys
            /\ seen[k].status \notin Decided =>
                 row[k].status = "open" /\ row[k].text = report[i].text
     /\ \A k \in Keys :
          row[k].status = "open" => \E i \in DOMAIN report : KeyOf(report, i) = k
     /\ \A k \in Keys : seen[k].status \in Decided => row[k] = seen[k]

Healed == \A w \in Writers : writer[w].pc = "done" /\ alone[w] => Settled(w)

\* How far an undisturbed reconcile has brought the rows it read.
Reached(w) ==
  LET pc == writer[w].pc
      want == Want(w)
      seen == writer[w].seen
      todo == writer[w].todo
      drifted == Drifted(want, seen)
  IN /\ pc = "insert" => row = seen /\ todo = drifted
     /\ pc \in {"delete", "done"} => todo = {}
     /\ pc \in {"update", "delete", "done"} =>
          /\ \A k \in Inserts(w) : row[k].status = "open" /\ row[k].text = want[k]
          /\ \A k \in drifted \ todo :
               row[k].status = "open" /\ row[k].text = want[k]
          /\ \A k \in Deletes(w) : row[k] = IF pc = "done" THEN NoRow ELSE seen[k]
          /\ \A k \in Keys \ (Inserts(w) \cup Deletes(w) \cup (drifted \ todo)) :
               row[k] = seen[k]

\* A judged row is decided, and no plan in progress names it.
Guarded(k) == row[k].status \in Decided /\ ~Threatened(k)

\* Only rows that were open when the plan was made are to be refreshed.
Planning(w) == writer[w].todo \subseteq Drifted(Want(w), writer[w].seen)

\* The inductive invariant.
FindingInv ==
  /\ \A w \in Writers : Planning(w)
  /\ \A w \in Writers : alone[w] => Reached(w)
  /\ \A k \in judged : Guarded(k)

\* A decision taken while no run held a plan for that row outlives every later
\* reconcile: only another decision of a person changes the row again.
JudgmentKept ==
  [][\A k \in judged : row'[k] = row[k] \/ \E h \in Humans : PatchWrites(h)]_vars

=============================================================================
