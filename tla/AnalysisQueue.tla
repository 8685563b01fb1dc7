--------------------------- MODULE AnalysisQueue ---------------------------
(***************************************************************************)
(* The AI-analysis queue of src/lib/analysis/service.ts: the rows of       *)
(* analysis_runs, the handlers that queue work because a fact about an     *)
(* entry changed, the drains that claim and execute pending rows (the cron *)
(* sweep and the after-response drains), the manual "analyze" request, and *)
(* the reclaim of rows whose runner died.                                  *)
(*                                                                         *)
(* Every step of this module is one SQL statement, or one transaction's    *)
(* commit, of the code; everything between two statements (the model call  *)
(* of several minutes among it) is where another process may run.          *)
(***************************************************************************)
EXTENDS Naturals, FiniteSets

CONSTANTS
  Entries,        \* customs entries
  RunIds,         \* ids of analysis_runs rows, in creation order
  Drains,         \* concurrent invocations of processPendingAnalyses
  Slots,          \* parallel investigations of one drain ("concurrency")
  Manuals,        \* concurrent "analyze" requests
  Changers,       \* concurrent handlers that change a fact and queue work
  Limit,          \* rows one drain considers ("limit")
  MaxRetries,     \* MAX_ABANDONED_RETRIES
  MaxRequests,    \* bound: requests (changes and manual runs) of a behaviour
  MaxFaults,      \* bound: crashes and thrown errors of a behaviour
  NoRun,          \* no row
  NoEntry         \* no entry

ASSUME RunIdsAssumption == RunIds \subseteq Nat
ASSUME NoRunAssumption == NoRun \notin RunIds
ASSUME NoEntryAssumption == NoEntry \notin Entries
ASSUME BoundsAssumption ==
  /\ Limit \in Nat
  /\ MaxRetries \in Nat
  /\ MaxRequests \in Nat
  /\ MaxFaults \in Nat
ASSUME ProcessesAssumption ==
  /\ Drains \cap Changers = {}
  /\ Manuals \cap (Drains \X Slots) = {}

VARIABLES
  status,   \* analysis_runs.status, per row
  entryOf,  \* analysis_runs.entry_id
  settled,  \* updated_at is older than the settle window
  expired,  \* started_at is older than the reclaim cutoff
  loaded,   \* the row's runner has read the entry's facts
  missed,   \* kinds of change committed since it read them, or since it ended
  queuing,  \* a caller's progress inside queueAnalysesForEntries
  drain,    \* a drain invocation: the sweep's legs, its list, its cutoff
  exec,     \* a slot or a manual request: the row it holds and how far it is
  onFile,   \* entries with a processed 7501 linked to them
  requeues, \* ghost: rows the reclaim has re-queued, per entry
  forsaken, \* ghost: dead rows whose sweep was cut off before it re-queued
  requests, \* bound counter
  faults    \* bound counter

rowVars == <<status, entryOf, settled, expired, loaded, missed>>
ghostVars == <<requeues, forsaken>>
vars ==
  <<rowVars, queuing, drain, exec, onFile, requeues, forsaken, requests, faults>>

-----------------------------------------------------------------------------
(* Tables and frames.                                                      *)

\* What changed: a primary document was (re)linked, an approved tariff
\* measure was applied, an organisation rule was written.
Kinds == {"document", "tariff", "rule"}

\* "abandoned" is the failed row whose error begins "abandoned:".
Status ==
  {"absent", "pending", "running", "succeeded", "failed", "abandoned"}
Terminal == {"succeeded", "failed", "abandoned"}

Callers == Drains \cup Changers

\* locked: rows a transaction touched and holds until it commits.
\* inserted: entries it has inserted a row for; inside a transaction nobody
\* else sees that row yet.
Call == [pc : {"idle", "select", "touch", "insert", "commit", "after"},
         kind : Kinds \cup {"requeue", "backfill"},
         affected : SUBSET Entries, targets : SUBSET Entries,
         locked : SUBSET RunIds, inserted : SUBSET Entries]

IdleCall == [pc |-> "idle", kind |-> "backfill", affected |-> {},
             targets |-> {}, locked |-> {}, inserted |-> {}]

\* reclaimed: rows it has given up on and not re-queued yet.
Drain ==
  [pc : {"off", "reclaim", "deaths", "requeue", "seed", "list", "draining"},
   settle : BOOLEAN, list : SUBSET RunIds, reclaimed : SUBSET RunIds]

OffDrain == [pc |-> "off", settle |-> FALSE, list |-> {}, reclaimed |-> {}]

Executors == (Drains \X Slots) \cup Manuals

Exec == [pc : {"off", "start", "pull", "read", "claimed", "loaded"},
         run : RunIds \cup {NoRun},
         entry : Entries \cup {NoEntry}]

OffExec == [pc |-> "off", run |-> NoRun, entry |-> NoEntry]

\* The executor holds a row it has claimed.
Holding(x) == exec[x].pc \in {"claimed", "loaded"}

Present(r) == status[r] # "absent"
Pending(r) == status[r] = "pending"
PendingOf(e) == {r \in RunIds : Pending(r) /\ entryOf[r] = e}
HasRun(e) == \E r \in RunIds : Present(r) /\ entryOf[r] = e
Analyzed(e) == \E r \in RunIds : status[r] = "succeeded" /\ entryOf[r] = e

\* A row another transaction has updated and not committed: a writer waits.
LockedByOther(c, r) == \E d \in Changers \ {c} : r \in queuing[d].locked
Locked(r) == \E d \in Changers : r \in queuing[d].locked
\* A pending row of e another transaction has inserted and not committed.
ReservedByOther(c, e) ==
  \E d \in Changers \ {c} :
    queuing[d].kind = "tariff" /\ e \in queuing[d].inserted

Fresh(r) == ~Present(r) /\ \A q \in RunIds : q < r => Present(q)

\* The row will not read its entry's facts any more: it has, or it has ended.
DoneReading(r) == loaded[r] \/ status[r] \in Terminal

\* Facts of kind k about the entries E are committed: whoever has read them,
\* or has ended without, is now behind.
Miss(k, E) ==
  missed' = [r \in RunIds |->
    IF DoneReading(r) /\ entryOf[r] \in E THEN missed[r] \cup {k} ELSE missed[r]]

TypeOK ==
  /\ status \in [RunIds -> Status]
  /\ entryOf \in [RunIds -> Entries \cup {NoEntry}]
  /\ settled \in [RunIds -> BOOLEAN]
  /\ expired \in [RunIds -> BOOLEAN]
  /\ loaded \in [RunIds -> BOOLEAN]
  /\ missed \in [RunIds -> SUBSET Kinds]
  /\ queuing \in [Callers -> Call]
  /\ drain \in [Drains -> Drain]
  /\ exec \in [Executors -> Exec]
  /\ onFile \in SUBSET Entries
  /\ requeues \in [Entries -> Nat]
  /\ forsaken \in SUBSET RunIds
  /\ requests \in Nat
  /\ faults \in Nat

\* Before the processing hook existed entries arrived with a processed 7501
\* and no run: those are what the backfill leg is for.
Init ==
  /\ status = [r \in RunIds |-> "absent"]
  /\ entryOf = [r \in RunIds |-> NoEntry]
  /\ settled = [r \in RunIds |-> FALSE]
  /\ expired = [r \in RunIds |-> FALSE]
  /\ loaded = [r \in RunIds |-> FALSE]
  /\ missed = [r \in RunIds |-> {}]
  /\ queuing = [c \in Callers |-> IdleCall]
  /\ drain = [d \in Drains |-> OffDrain]
  /\ exec = [x \in Executors |-> OffExec]
  /\ onFile \in SUBSET Entries
  /\ requeues = [e \in Entries |-> 0]
  /\ forsaken = {}
  /\ requests = 0
  /\ faults = 0

-----------------------------------------------------------------------------
(* Handlers that change a fact.                                            *)

\* linkExtraction has committed the document's facts about the entries E;
\* findEntriesForDocument returns E and processDocumentRow queues them.
LinkDocument(c, E) ==
  /\ queuing[c].pc = "idle"
  /\ requests < MaxRequests
  /\ Miss("document", E)
  /\ queuing' = [queuing EXCEPT ![c] =
       [IdleCall EXCEPT !.pc = "touch", !.kind = "document",
                        !.affected = E, !.targets = E]]
  /\ requests' = requests + 1
  /\ UNCHANGED <<status, entryOf, settled, expired, loaded>>
  /\ UNCHANGED <<drain, exec, onFile, ghostVars, faults>>

\* A rule write is committed before the response; after the response
\* queueReanalysesForOrgRule selects the analysed entries it reaches.
ChangeRule(c, E) ==
  /\ queuing[c].pc = "idle"
  /\ requests < MaxRequests
  /\ Miss("rule", E)
  /\ queuing' = [queuing EXCEPT ![c] =
       [IdleCall EXCEPT !.pc = "select", !.kind = "rule", !.affected = E]]
  /\ requests' = requests + 1
  /\ UNCHANGED <<status, entryOf, settled, expired, loaded>>
  /\ UNCHANGED <<drain, exec, onFile, ghostVars, faults>>

\* An approval opens a transaction, applies the revision (visible to nobody
\* until the commit) and goes on to queue the touched entries E inside it.
ApplyTariff(c, E) ==
  /\ queuing[c].pc = "idle"
  /\ requests < MaxRequests
  /\ queuing' = [queuing EXCEPT ![c] =
       [IdleCall EXCEPT !.pc = "select", !.kind = "tariff", !.affected = E]]
  /\ requests' = requests + 1
  /\ UNCHANGED <<rowVars, drain, exec, onFile, ghostVars, faults>>

\* queueReanalysesForEntries / ForOrgRule / AllOrgs: only entries with a
\* succeeded run are re-queued.
SelectAnalyzed(c) ==
  /\ queuing[c].pc = "select"
  /\ queuing' = [queuing EXCEPT ![c] =
       [@ EXCEPT !.pc = "touch",
                 !.targets = {e \in queuing[c].affected : Analyzed(e)}]]
  /\ UNCHANGED <<rowVars, drain, exec, onFile, ghostVars, requests, faults>>

-----------------------------------------------------------------------------
(* queueAnalysesForEntries: touch the pending rows, insert the others.     *)

\* Mutant: a running row is taken to stand for the change as a pending one does.
TouchOpen(c) ==
  LET touched == {r \in RunIds : /\ status[r] \in {"pending", "running"}
                                /\ entryOf[r] \in queuing[c].targets}
  IN /\ queuing[c].pc = "touch"
     /\ \A r \in touched : ~LockedByOther(c, r)
     /\ settled' = [r \in RunIds |-> settled[r] /\ r \notin touched]
     /\ queuing' = [queuing EXCEPT ![c] =
          [@ EXCEPT
             !.pc = "insert",
             !.targets = queuing[c].targets \ {entryOf[r] : r \in touched},
             !.locked = IF queuing[c].kind = "tariff" THEN touched ELSE {}]]
     /\ UNCHANGED <<status, entryOf, expired, loaded, missed>>
     /\ UNCHANGED <<drain, exec, onFile, ghostVars, requests, faults>>

TouchPending(c) ==
  LET touched == {r \in RunIds : Pending(r) /\ entryOf[r] \in queuing[c].targets}
  IN /\ queuing[c].pc = "touch"
     /\ \A r \in touched : ~LockedByOther(c, r)
     /\ settled' = [r \in RunIds |-> settled[r] /\ r \notin touched]
     /\ queuing' = [queuing EXCEPT ![c] =
          [@ EXCEPT
             !.pc = "insert",
             !.targets = queuing[c].targets \ {entryOf[r] : r \in touched},
             !.locked = IF queuing[c].kind = "tariff" THEN touched ELSE {}]]
     /\ UNCHANGED <<status, entryOf, expired, loaded, missed>>
     /\ UNCHANGED <<drain, exec, onFile, ghostVars, requests, faults>>

\* onConflictDoNothing: a row that became pending since the touch stands for
\* this change too.
InsertConflict(c, e) ==
  /\ queuing[c].pc = "insert"
  /\ e \in queuing[c].targets
  /\ PendingOf(e) # {}
  /\ queuing' = [queuing EXCEPT ![c].targets = @ \ {e}]
  /\ UNCHANGED <<rowVars, drain, exec, onFile, ghostVars, requests, faults>>

\* A new row; the other columns of an absent row have their defaults.
InsertRow(r, e, s) ==
  /\ status' = [status EXCEPT ![r] = s]
  /\ entryOf' = [entryOf EXCEPT ![r] = e]
  /\ UNCHANGED <<settled, expired, loaded, missed>>

\* Mutant: no partial unique index, so no conflict.
InsertPendingUnchecked(c, e, r) ==
  /\ queuing[c].pc = "insert"
  /\ queuing[c].kind # "tariff"
  /\ e \in queuing[c].targets
  /\ Fresh(r)
  /\ InsertRow(r, e, "pending")
  /\ queuing' = [queuing EXCEPT ![c] =
       [@ EXCEPT !.targets = queuing[c].targets \ {e},
                 !.inserted = queuing[c].inserted \cup {e}]]
  /\ requeues' = [requeues EXCEPT
       ![e] = IF queuing[c].kind = "requeue" THEN @ + 1 ELSE @]
  /\ UNCHANGED <<drain, exec, onFile, forsaken, requests, faults>>

InsertPending(c, e, r) ==
  /\ queuing[c].pc = "insert"
  /\ queuing[c].kind # "tariff"
  /\ e \in queuing[c].targets
  /\ PendingOf(e) = {}
  /\ ~ReservedByOther(c, e)
  /\ Fresh(r)
  /\ InsertRow(r, e, "pending")
  /\ queuing' = [queuing EXCEPT ![c] =
       [@ EXCEPT !.targets = queuing[c].targets \ {e},
                 !.inserted = queuing[c].inserted \cup {e}]]
  /\ requeues' = [requeues EXCEPT
       ![e] = IF queuing[c].kind = "requeue" THEN @ + 1 ELSE @]
  /\ UNCHANGED <<drain, exec, onFile, forsaken, requests, faults>>

\* Inside the apply transaction the inserted row stays invisible.
InsertInTransaction(c, e) ==
  /\ queuing[c].pc = "insert"
  /\ queuing[c].kind = "tariff"
  /\ e \in queuing[c].targets
  /\ PendingOf(e) = {}
  /\ ~ReservedByOther(c, e)
  /\ queuing' = [queuing EXCEPT ![c] =
       [@ EXCEPT !.targets = queuing[c].targets \ {e},
                 !.inserted = queuing[c].inserted \cup {e}]]
  /\ UNCHANGED <<rowVars, drain, exec, onFile, ghostVars, requests, faults>>

\* A handler whose call is over; it drains only if the call added a row.
AfterResponse(c) ==
  IF queuing[c].inserted = {} THEN IdleCall ELSE [IdleCall EXCEPT !.pc = "after"]

\* queueAnalysesForEntries returns.  A document is then marked processed,
\* which puts its 7501 on file; a rule handler goes on to drain; a tariff
\* transaction has its commit left; a sweep goes on to its next leg.
Queued(c) ==
  /\ queuing[c].pc = "insert"
  /\ queuing[c].targets = {}
  /\ queuing' = [queuing EXCEPT ![c] =
       CASE queuing[c].kind = "tariff" -> [@ EXCEPT !.pc = "commit"]
         [] queuing[c].kind = "rule" -> AfterResponse(c)
         [] OTHER -> IdleCall]
  /\ onFile' = IF queuing[c].kind = "document"
                 THEN onFile \cup queuing[c].affected
                 ELSE onFile
  /\ UNCHANGED <<rowVars, drain, exec, ghostVars, requests, faults>>

\* The apply transaction commits: the measures and the queued rows appear
\* together.
CommitTariff(c) ==
  LET E == queuing[c].inserted IN
  /\ queuing[c].pc = "commit"
  /\ \E id \in [E -> {r \in RunIds : ~Present(r)}] :
       /\ \A e, f \in E : id[e] = id[f] => e = f
       /\ \A e \in E : \A q \in RunIds :
            q < id[e] => Present(q) \/ \E f \in E : id[f] = q
       /\ status' = [r \in RunIds |->
            IF \E e \in E : id[e] = r THEN "pending" ELSE status[r]]
       /\ entryOf' = [r \in RunIds |->
            IF \E e \in E : id[e] = r
              THEN CHOOSE e \in E : id[e] = r ELSE entryOf[r]]
  /\ Miss("tariff", queuing[c].affected)
  /\ queuing' = [queuing EXCEPT ![c] = AfterResponse(c)]
  /\ UNCHANGED <<settled, expired, loaded>>
  /\ UNCHANGED <<drain, exec, onFile, ghostVars, requests, faults>>

-----------------------------------------------------------------------------
(* Drains.                                                                 *)

\* The cron sweep: reclaim and re-queue, seed, drain with a settle window.
StartSweep(d) ==
  /\ drain[d].pc = "off"
  /\ drain' = [drain EXCEPT ![d] =
       [OffDrain EXCEPT !.pc = "reclaim", !.settle = TRUE]]
  /\ UNCHANGED <<rowVars, queuing, exec, onFile, ghostVars, requests, faults>>

\* after(): a rule or tariff handler drains what it queued, no settle window.
StartAfterResponseDrain(c, d) ==
  /\ queuing[c].pc = "after"
  /\ drain[d].pc = "off"
  /\ drain' = [drain EXCEPT ![d] = [OffDrain EXCEPT !.pc = "list"]]
  /\ queuing' = [queuing EXCEPT ![c] = IdleCall]
  /\ UNCHANGED <<rowVars, exec, onFile, ghostVars, requests, faults>>

\* Mutant: the reclaim forgets the cutoff.
ReclaimRunning(d) ==
  LET dead == {r \in RunIds : status[r] = "running"}
  IN /\ drain[d].pc = "reclaim"
     /\ status' = [r \in RunIds |->
          IF r \in dead THEN "abandoned" ELSE status[r]]
     /\ expired' = [r \in RunIds |-> expired[r] /\ r \notin dead]
     /\ drain' = [drain EXCEPT
          ![d].pc = IF dead = {} THEN "seed" ELSE "deaths",
          ![d].reclaimed = dead]
     /\ UNCHANGED <<entryOf, settled, loaded, missed>>
     /\ UNCHANGED <<queuing, exec, onFile, ghostVars, requests, faults>>

\* Mutant: the reclaim passes over rows whose runner died before it read
\* anything.
ReclaimStarted(d) ==
  LET dead == {r \in RunIds : status[r] = "running" /\ expired[r] /\ loaded[r]}
  IN /\ drain[d].pc = "reclaim"
     /\ status' = [r \in RunIds |->
          IF r \in dead THEN "abandoned" ELSE status[r]]
     /\ expired' = [r \in RunIds |-> expired[r] /\ r \notin dead]
     /\ drain' = [drain EXCEPT
          ![d].pc = IF dead = {} THEN "seed" ELSE "deaths",
          ![d].reclaimed = dead]
     /\ UNCHANGED <<entryOf, settled, loaded, missed>>
     /\ UNCHANGED <<queuing, exec, onFile, ghostVars, requests, faults>>

\* failAbandonedRuns, its UPDATE.
ReclaimExpired(d) ==
  LET dead == {r \in RunIds : status[r] = "running" /\ expired[r]}
  IN /\ drain[d].pc = "reclaim"
     /\ status' = [r \in RunIds |->
          IF r \in dead THEN "abandoned" ELSE status[r]]
     /\ expired' = [r \in RunIds |-> expired[r] /\ r \notin dead]
     /\ drain' = [drain EXCEPT
          ![d].pc = IF dead = {} THEN "seed" ELSE "deaths",
          ![d].reclaimed = dead]
     /\ UNCHANGED <<entryOf, settled, loaded, missed>>
     /\ UNCHANGED <<queuing, exec, onFile, ghostVars, requests, faults>>

DeadRuns(e) == {r \in RunIds : status[r] = "abandoned" /\ entryOf[r] = e}

Deaths(e) == Cardinality(DeadRuns(e))

RetriesSpent(e) == Deaths(e) > MaxRetries

\* Mutant: the bound is off by one.
CountDeathsOnceMore(d) ==
  LET again == {r \in drain[d].reclaimed : Deaths(entryOf[r]) <= MaxRetries + 1}
  IN /\ drain[d].pc = "deaths"
     /\ drain' = [drain EXCEPT
          ![d].pc = IF again = {} THEN "seed" ELSE "requeue",
          ![d].reclaimed = again]
     /\ UNCHANGED <<rowVars, queuing, exec, onFile, ghostVars, requests, faults>>

\* failAbandonedRuns, its count of deaths: an entry that has spent its retries
\* is passed over.
CountDeaths(d) ==
  LET again == {r \in drain[d].reclaimed : ~RetriesSpent(entryOf[r])}
  IN /\ drain[d].pc = "deaths"
     /\ drain' = [drain EXCEPT
          ![d].pc = IF again = {} THEN "seed" ELSE "requeue",
          ![d].reclaimed = again]
     /\ UNCHANGED <<rowVars, queuing, exec, onFile, ghostVars, requests, faults>>

\* failAbandonedRuns, one turn of its loop: the reclaimed rows of one trigger,
\* any of them, get fresh pending rows for their entries by a call of their own.
RequeueReclaimed(d, rows) ==
  LET left == drain[d].reclaimed \ rows
  IN /\ drain[d].pc = "requeue"
     /\ queuing[d].pc = "idle"
     /\ rows \subseteq drain[d].reclaimed
     /\ queuing' = [queuing EXCEPT ![d] =
          [IdleCall EXCEPT !.pc = "touch", !.kind = "requeue",
                           !.targets =
                             {e \in Entries : \E r \in rows : entryOf[r] = e}]]
     /\ drain' = [drain EXCEPT
          ![d].pc = IF left = {} THEN "seed" ELSE "requeue",
          ![d].reclaimed = left]
     /\ UNCHANGED <<rowVars, exec, onFile, ghostVars, requests, faults>>

\* Mutant: an inner join where the outer one is meant.
SeedUnfinished(d) ==
  /\ drain[d].pc = "seed"
  /\ queuing[d].pc = "idle"
  /\ queuing' = [queuing EXCEPT ![d] =
       [IdleCall EXCEPT !.pc = "touch",
                        !.targets = {e \in onFile : HasRun(e) /\ ~Analyzed(e)}]]
  /\ drain' = [drain EXCEPT ![d].pc = "list"]
  /\ UNCHANGED <<rowVars, exec, onFile, ghostVars, requests, faults>>

\* queueAnalysesForUnanalyzedEntries, its read.
SeedUnanalyzed(d) ==
  /\ drain[d].pc = "seed"
  /\ queuing[d].pc = "idle"
  /\ queuing' = [queuing EXCEPT ![d] =
       [IdleCall EXCEPT !.pc = "touch",
                        !.targets = {e \in onFile : ~HasRun(e)}]]
  /\ drain' = [drain EXCEPT ![d].pc = "list"]
  /\ UNCHANGED <<rowVars, exec, onFile, ghostVars, requests, faults>>

\* Mutant: the comparison is off by one.
OldestButOne(ripe) ==
  {r \in ripe : Cardinality({q \in ripe : q < r}) + 1 < Limit}

\* The oldest Limit pending rows a drain may consider.
Oldest(ripe) ==
  {r \in ripe : Cardinality({q \in ripe : q < r}) < Limit}

\* processPendingAnalyses, its read of the pending rows.
ListPending(d) ==
  LET ripe == {r \in RunIds : Pending(r) /\ (drain[d].settle => settled[r])}
  IN /\ drain[d].pc = "list"
     /\ queuing[d].pc = "idle"
     /\ drain' = [drain EXCEPT ![d].pc = "draining", ![d].list = Oldest(ripe)]
     /\ exec' = [x \in Executors |->
          IF \E s \in Slots : x = <<d, s>>
            THEN [exec[x] EXCEPT !.pc = "start"]
            ELSE exec[x]]
     /\ UNCHANGED <<rowVars, queuing, onFile, ghostVars, requests, faults>>

\* Mutant: the claim is not guarded by the status.
ClaimAnyRow(r) ==
  /\ ~Locked(r)
  /\ status' = [status EXCEPT ![r] = "running"]
  /\ settled' = [settled EXCEPT ![r] = FALSE]
  /\ UNCHANGED <<entryOf, expired, loaded, missed>>

\* The guarded UPDATE: pending becomes running, updated_at is now.
ClaimRow(r) ==
  /\ Pending(r)
  /\ ~Locked(r)
  /\ status' = [status EXCEPT ![r] = "running"]
  /\ settled' = [settled EXCEPT ![r] = FALSE]
  /\ UNCHANGED <<entryOf, expired, loaded, missed>>

NextListed(d, r) ==
  /\ r \in drain[d].list
  /\ \A q \in drain[d].list : r <= q

\* claimPendingRun by a slot of a drain: pending becomes running ...
ClaimListed(d, s, r) ==
  /\ exec[<<d, s>>].pc \in {"start", "pull"}
  /\ NextListed(d, r)
  /\ ClaimRow(r)
  /\ exec' = [exec EXCEPT ![<<d, s>>].pc = "claimed", ![<<d, s>>].run = r]
  /\ drain' = [drain EXCEPT ![d].list = @ \ {r}]
  /\ UNCHANGED <<queuing, onFile, ghostVars, requests, faults>>

\* ... or somebody else claimed the row since it was listed: skipped.
SkipListed(d, s, r) ==
  /\ exec[<<d, s>>].pc \in {"start", "pull"}
  /\ NextListed(d, r)
  /\ ~Pending(r)
  /\ drain' = [drain EXCEPT ![d].list = @ \ {r}]
  /\ exec' = [exec EXCEPT ![<<d, s>>].pc = "pull"]
  /\ UNCHANGED <<rowVars, queuing, onFile, ghostVars, requests, faults>>

\* A slot stops: nothing is left, or the claim budget is spent, which it is
\* not before the first turn of the loop.
StopSlot(d, s) ==
  /\ exec[<<d, s>>].pc \in {"start", "pull"}
  /\ exec[<<d, s>>].pc = "start" => drain[d].list = {}
  /\ exec' = [exec EXCEPT ![<<d, s>>].pc = "off"]
  /\ UNCHANGED <<rowVars, queuing, drain, onFile, ghostVars, requests, faults>>

EndDrain(d) ==
  /\ drain[d].pc = "draining"
  /\ \A s \in Slots : exec[<<d, s>>].pc = "off"
  /\ drain' = [drain EXCEPT ![d] = OffDrain]
  /\ UNCHANGED <<rowVars, queuing, exec, onFile, ghostVars, requests, faults>>

-----------------------------------------------------------------------------
(* The manual request, runEntryAnalysis.                                   *)

ManualRead(m, e) ==
  /\ exec[m].pc = "off"
  /\ requests < MaxRequests
  /\ \E r \in PendingOf(e) \cup {NoRun} :
       /\ r = NoRun => PendingOf(e) = {}
       /\ exec' = [exec EXCEPT ![m] = [pc |-> "read", run |-> r, entry |-> e]]
  /\ requests' = requests + 1
  /\ UNCHANGED <<rowVars, queuing, drain, onFile, ghostVars, faults>>

ManualClaim(m, r) ==
  /\ exec[m].pc = "read"
  /\ exec[m].run = r
  /\ ClaimRow(r)
  /\ exec' = [exec EXCEPT ![m].pc = "claimed"]
  /\ UNCHANGED <<queuing, drain, onFile, ghostVars, requests, faults>>

\* No pending row, or it was claimed first: the request gets its own row.
ManualInsert(m, r) ==
  /\ exec[m].pc = "read"
  /\ exec[m].run \in RunIds => ~Pending(exec[m].run)
  /\ Fresh(r)
  /\ InsertRow(r, exec[m].entry, "running")
  /\ exec' = [exec EXCEPT ![m].pc = "claimed", ![m].run = r]
  /\ UNCHANGED <<queuing, drain, onFile, ghostVars, requests, faults>>

-----------------------------------------------------------------------------
(* executeRun and recordAnalysisResult, by whoever holds the row.          *)

\* Where an executor goes after a row: a slot pulls the next, a request ends.
AfterRow(x) ==
  IF x \in Manuals THEN OffExec ELSE [OffExec EXCEPT !.pc = "pull"]

LoadBundle(x) ==
  /\ exec[x].pc = "claimed"
  /\ loaded' = [loaded EXCEPT ![exec[x].run] = TRUE]
  /\ missed' = [missed EXCEPT ![exec[x].run] = {}]
  /\ exec' = [exec EXCEPT ![x].pc = "loaded"]
  /\ UNCHANGED <<status, entryOf, settled, expired>>
  /\ UNCHANGED <<queuing, drain, onFile, ghostVars, requests, faults>>

\* The bundle or the reference data could not be read.
LoadFails(x) ==
  /\ exec[x].pc = "claimed"
  /\ faults < MaxFaults
  /\ status' = [status EXCEPT ![exec[x].run] = "failed"]
  /\ exec' = [exec EXCEPT ![x] = AfterRow(x)]
  /\ UNCHANGED <<entryOf, settled, expired, loaded, missed>>
  /\ faults' = faults + 1
  /\ UNCHANGED <<queuing, drain, onFile, ghostVars, requests>>

\* The outcome is written by id, whatever the row's status; error is set from
\* the result, which clears an "abandoned:" mark.
RecordResult(x, outcome) ==
  /\ exec[x].pc = "loaded"
  /\ status' = [status EXCEPT ![exec[x].run] = outcome]
  /\ exec' = [exec EXCEPT ![x] = AfterRow(x)]
  /\ UNCHANGED <<entryOf, settled, expired, loaded, missed>>
  /\ UNCHANGED <<queuing, drain, onFile, ghostVars, requests, faults>>

\* The reconcile throws (a dropped connection, or the unique finding_key two
\* runs of one entry both insert): nobody writes the row's outcome.
RecordThrows(x) ==
  /\ exec[x].pc = "loaded"
  /\ faults < MaxFaults
  /\ exec' = [exec EXCEPT ![x] = OffExec]
  /\ faults' = faults + 1
  /\ UNCHANGED <<rowVars, queuing, drain, onFile, ghostVars, requests>>

-----------------------------------------------------------------------------
(* Time and crashes.                                                       *)

Settle(r) ==
  /\ Pending(r)
  /\ ~settled[r]
  /\ settled' = [settled EXCEPT ![r] = TRUE]
  /\ UNCHANGED <<status, entryOf, expired, loaded, missed>>
  /\ UNCHANGED <<queuing, drain, exec, onFile, ghostVars, requests, faults>>

\* The platform stops a function after maxDuration = 800 s, well before the
\* 20-minute cutoff, so a row passes the cutoff only when nobody holds it.
Expire(r) ==
  /\ status[r] = "running"
  /\ ~expired[r]
  /\ \A x \in Executors : Holding(x) => exec[x].run # r
  /\ expired' = [expired EXCEPT ![r] = TRUE]
  /\ UNCHANGED <<status, entryOf, settled, loaded, missed>>
  /\ UNCHANGED <<queuing, drain, exec, onFile, ghostVars, requests, faults>>

\* The sweep d has given up on the row r, and the pending row that is to
\* replace it is still to come.
OwesRetry(d, r) ==
  \/ r \in drain[d].reclaimed
  \/ /\ queuing[d].kind = "requeue"
     /\ entryOf[r] \in queuing[d].targets
     /\ status[r] = "abandoned"

\* A drain's function is cut off: its legs and all its slots are gone, and
\* the retries it still owed with them.
CrashDrain(d) ==
  /\ drain[d].pc # "off"
  /\ faults < MaxFaults
  /\ drain' = [drain EXCEPT ![d] = OffDrain]
  /\ queuing' = [queuing EXCEPT ![d] = IdleCall]
  /\ exec' = [x \in Executors |->
       IF \E s \in Slots : x = <<d, s>>
         THEN OffExec
         ELSE exec[x]]
  /\ forsaken' = forsaken \cup {r \in RunIds : OwesRetry(d, r)}
  /\ faults' = faults + 1
  /\ UNCHANGED <<rowVars, onFile, requeues, requests>>

\* A tariff transaction rolls back; a rule handler dies after its response.
\* A document handler that dies is run again by the document sweep, which
\* links and queues anew: it is not cut short here.
CrashChanger(c) ==
  /\ queuing[c].pc # "idle"
  /\ queuing[c].kind \in {"tariff", "rule"}
  /\ faults < MaxFaults
  /\ queuing' = [queuing EXCEPT ![c] = IdleCall]
  /\ faults' = faults + 1
  /\ UNCHANGED <<rowVars, drain, exec, onFile, ghostVars, requests>>

CrashManual(m) ==
  /\ exec[m].pc # "off"
  /\ faults < MaxFaults
  /\ exec' = [exec EXCEPT ![m] = OffExec]
  /\ faults' = faults + 1
  /\ UNCHANGED <<rowVars, queuing, drain, onFile, ghostVars, requests>>

-----------------------------------------------------------------------------
ChangerStep(c) ==
  \/ \E E \in SUBSET Entries \ {{}} :
       LinkDocument(c, E) \/ ChangeRule(c, E) \/ ApplyTariff(c, E)
  \/ SelectAnalyzed(c)
  \/ CommitTariff(c)
  \/ \E d \in Drains : StartAfterResponseDrain(c, d)

QueueStep(c) ==
  \/ TouchPending(c)
  \/ \E e \in Entries : InsertConflict(c, e) \/ InsertInTransaction(c, e)
  \/ \E e \in Entries, r \in RunIds : InsertPending(c, e, r)
  \/ Queued(c)

SweepStep(d) ==
  \/ StartSweep(d) \/ ReclaimExpired(d) \/ CountDeaths(d)
  \/ \E rows \in SUBSET RunIds \ {{}} : RequeueReclaimed(d, rows)
  \/ SeedUnanalyzed(d) \/ ListPending(d) \/ EndDrain(d)

PullStep(d, s) ==
  \/ \E r \in RunIds : ClaimListed(d, s, r) \/ SkipListed(d, s, r)
  \/ StopSlot(d, s)

ManualStep(m) ==
  \/ \E e \in Entries : ManualRead(m, e)
  \/ \E r \in RunIds : ManualClaim(m, r) \/ ManualInsert(m, r)

ExecuteStep(x) ==
  \/ LoadBundle(x) \/ LoadFails(x) \/ RecordThrows(x)
  \/ \E outcome \in {"succeeded", "failed"} : RecordResult(x, outcome)

Next ==
  \/ \E c \in Changers : ChangerStep(c) \/ CrashChanger(c)
  \/ \E c \in Callers : QueueStep(c)
  \/ \E d \in Drains : SweepStep(d) \/ CrashDrain(d)
  \/ \E d \in Drains, s \in Slots : PullStep(d, s)
  \/ \E m \in Manuals : ManualStep(m) \/ CrashManual(m)
  \/ \E x \in Executors : ExecuteStep(x)
  \/ \E r \in RunIds : Settle(r) \/ Expire(r)

Spec == Init /\ [][Next]_vars

-----------------------------------------------------------------------------
(* What the queue promises.                                                *)

\* An entry has at most one pending row, whoever touches, inserts, commits
\* or re-queues concurrently: a second change must not double-enqueue an
\* investigation (analysis_runs_entry_pending_uq and the two statements of
\* queueAnalysesForEntries around it).
OnePending ==
  \A r, q \in RunIds :
    Pending(r) /\ Pending(q) /\ entryOf[r] = entryOf[q] => r = q

\* No two executors hold one row, although every drain works through a list
\* it read minutes ago and manual requests claim beside it
\* (claimPendingRun: "resolve to exactly one runner").
SoleRunner ==
  \A x, y \in Executors :
    Holding(x) /\ Holding(y) /\ exec[x].run = exec[y].run => x = y

\* The outcome of a run is written once: neither the reclaim nor a runner
\* that the reclaim gave up on ever rewrites a succeeded or failed row.
OutcomeFinal ==
  [][\A r \in RunIds : status[r] \in Terminal => status'[r] = status[r]]_vars

\* The reclaim re-queues an entry at most MAX_ABANDONED_RETRIES times, even
\* when two sweeps reclaim and count deaths concurrently: a run that kills
\* its runner every time stops costing money.
RetriesBounded == \A e \in Entries : requeues[e] <= MaxRetries

\* The handler c still has the entry e of a change of kind k to queue.
QueuingChange(c, k, e) ==
  /\ queuing[c].kind = k
  /\ \/ queuing[c].pc \in {"touch", "insert"} /\ e \in queuing[c].targets
     \/ queuing[c].pc \in {"select", "commit"} /\ e \in queuing[c].affected

\* The row r reads the last change of kind k, has read it, or had read it and
\* succeeded.
Serves(r, k) ==
  k \notin missed[r] /\ status[r] \in {"pending", "running", "succeeded"}

\* What the code accepts as the end of a change of kind k, or does about a run
\* that died on it: the run has failed and says so ("Entries whose only runs
\* failed are NOT re-seeded"); its runner died and the sweep that found out
\* owes the retry, or did and was cut off; or the entry has spent its retries.
Excused(r, k) ==
  /\ k \notin missed[r]
  /\ \/ status[r] = "failed"
     \/ /\ status[r] = "abandoned"
        /\ \/ \E d \in Drains : OwesRetry(d, r)
           \/ RetriesSpent(entryOf[r])
           \/ r \in forsaken

\* No change of kind k is lost in silence: once a run has missed it, the entry
\* has another run that serves it or that is excused, or the handler of the
\* change is still queuing.
ChangeServed(k) ==
  \A r \in RunIds : k \in missed[r] =>
    \/ \E q \in RunIds :
         entryOf[q] = entryOf[r] /\ (Serves(q, k) \/ Excused(q, k))
    \/ \E c \in Changers : QueuingChange(c, k, entryOf[r])

\* A primary document that lands while an analysis of its entry is running,
\* queued or over is followed by an analysis that reads it, through deaths of
\* runners and their retries, unless that analysis failed and says so, its
\* entry died once too often, or a sweep was cut off between giving a dead run
\* up and re-queueing it (which loses the retry: two statements, no
\* transaction).
DocumentChangeServed == ChangeServed("document")

\* "An apply only ever pays for the re-runs it actually invalidates ...
\* Entries never analyzed are left to the sweep's backfill leg (they get a
\* first run regardless)": no cleanly analysed entry stays on measures that
\* were replaced under it.
TariffChangeServed ==
  \A e \in Entries : Analyzed(e) =>
    \/ \E q \in RunIds :
         Present(q) /\ entryOf[q] = e /\ "tariff" \notin missed[q]
    \/ \E c \in Changers : QueuingChange(c, "tariff", e)

-----------------------------------------------------------------------------
(* What the promises rest on: with TypeOK, an inductive invariant.         *)

\* A held row is running and inside the cutoff: the reclaim cannot take it.
HeldRunning ==
  \A x \in Executors : Holding(x) =>
    /\ exec[x].run \in RunIds
    /\ status[exec[x].run] = "running"
    /\ ~expired[exec[x].run]

ExpiredRunning == \A r \in RunIds : expired[r] => status[r] = "running"

\* The rows an apply transaction has inserted will not collide with a pending
\* row when they appear: the unique index has made everybody else wait.
Uncommitted ==
  \A c \in Changers : queuing[c].kind = "tariff" =>
    \A e \in queuing[c].inserted : PendingOf(e) = {} /\ ~ReservedByOther(c, e)

\* A row that is still to read the facts has missed none.
Unread ==
  \A r \in RunIds :
    /\ status[r] \in {"absent", "pending"} => ~loaded[r]
    /\ ~DoneReading(r) => missed[r] = {}
    /\ missed[r] # {} => entryOf[r] \in Entries

\* A sweep has given up on dead rows only, each row is given up on once, and
\* only a sweep's call re-queues.
ReclaimShape ==
  /\ \A d \in Drains : \A r \in drain[d].reclaimed :
       /\ status[r] = "abandoned"
       /\ drain[d].pc \in {"deaths", "requeue"}
  /\ \A c, d \in Drains : c # d => drain[c].reclaimed \cap drain[d].reclaimed = {}
  /\ \A c \in Callers : queuing[c].kind = "requeue" =>
       c \in Drains /\ queuing[c].pc \in {"touch", "insert"}

\* What is counted is finite, however many rows there are.
FewDead ==
  /\ IsFiniteSet({r \in RunIds : expired[r]})
  /\ \A e \in Entries : IsFiniteSet(DeadRuns(e))

\* Only the filtered changes select, only a transaction commits.
QueueShape ==
  \A c \in Changers :
    /\ queuing[c].pc = "select" => queuing[c].kind \in {"tariff", "rule"}
    /\ queuing[c].pc = "commit" => queuing[c].kind = "tariff"

QueueInv ==
  /\ HeldRunning /\ SoleRunner /\ ExpiredRunning
  /\ OnePending /\ Uncommitted
  /\ Unread /\ QueueShape /\ ReclaimShape /\ FewDead
  /\ DocumentChangeServed

\* Calls that may still insert a retry of e; dead runs of e that a sweep is
\* still to re-queue, and those of them it has been granted a retry for.
Retrying(e) ==
  {c \in Callers : queuing[c].kind = "requeue" /\ e \in queuing[c].targets}
Owed(e) ==
  {r \in RunIds : entryOf[r] = e /\ \E d \in Drains : r \in drain[d].reclaimed}
Granted(e) ==
  {r \in RunIds :
     entryOf[r] = e
     /\ \E d \in Drains : drain[d].pc = "requeue" /\ r \in drain[d].reclaimed}

\* Every retry, inserted or about to be, is paid for by a death of its own
\* that no sweep counts on any more, and the grants stop at MaxRetries.
RetriesPaid ==
  \A e \in Entries :
    /\ IsFiniteSet(Retrying(e))
    /\ requeues[e] + Cardinality(Retrying(e)) <= Cardinality(DeadRuns(e) \ Owed(e))
    /\ requeues[e] + Cardinality(Retrying(e)) + Cardinality(Granted(e)) <= MaxRetries

-----------------------------------------------------------------------------
(* Fairness: the cron fires again and again, the platform lets a started   *)
(* function go on until it ends or is cut off, and time passes.  Requests  *)
(* and faults are not fair: nobody has to make one.                        *)
Fairness ==
  /\ \A d \in Drains : WF_vars(SweepStep(d))
  /\ \A c \in Callers : WF_vars(QueueStep(c))
  /\ \A c \in Changers : WF_vars(SelectAnalyzed(c) \/ CommitTariff(c))
  /\ \A d \in Drains, s \in Slots :
       WF_vars(\E r \in RunIds : ClaimListed(d, s, r) \/ SkipListed(d, s, r))
  /\ \A d \in Drains, s \in Slots :
       WF_vars(drain[d].list = {} /\ StopSlot(d, s))
  /\ \A x \in Executors :
       WF_vars(LoadBundle(x) \/ \E o \in {"succeeded", "failed"} : RecordResult(x, o))
  /\ \A r \in RunIds : WF_vars(Settle(r)) /\ WF_vars(Expire(r))

FairSpec == Spec /\ Fairness

\* A queued analysis does not stay queued: the sweeps claim it, however
\* drains and requests overlap and crash.
PendingClaimed == \A r \in RunIds : Pending(r) ~> ~Pending(r)

\* A claimed run reaches an outcome even when its runner dies: it does not
\* pin the entry page's "running" state forever.
RunningEnds ==
  \A r \in RunIds : (status[r] = "running") ~> (status[r] \in Terminal)

\* Every entry with a processed 7501 on file gets a first run and its outcome,
\* although a drain considers Limit rows only, oldest first.
FirstRun ==
  \A e \in Entries :
    (e \in onFile) ~>
      \E r \in RunIds : entryOf[r] = e /\ status[r] \in Terminal
=============================================================================
