---------------------------- MODULE TariffReview ----------------------------
(***************************************************************************)
(* The Chapter 99 review: the sync that compares a USITC release with the  *)
(* live measures and stages its changes (src/lib/tariff-sync/sync.ts,      *)
(* differ.ts, state.ts), the two routes by which a person decides them     *)
(* (a single revision; a family of new codes), and the apply that rewrites *)
(* the measure windows (apply.ts, programs.ts).                            *)
(*                                                                         *)
(* Every decision is one READ COMMITTED transaction: it reads the item     *)
(* without a lock, takes the row locks of the rows it updates, reads live  *)
(* measures, writes by id and commits.  The steps here are its reads and   *)
(* its writes; what it has written stays in its frame until Commit.  The   *)
(* sync reads outside its transaction.                                     *)
(***************************************************************************)
EXTENDS Naturals, FiniteSets, Sequences

CONSTANTS
  Codes,        \* Chapter 99 codes (numbers: a family is applied in order)
  Family,       \* in place of a code: the item of a whole family
  Contents,     \* rate and wording of a row, as its content hash tells them
  Tracked,      \* codes that have a measure at first
  Initial,      \* the content of those measures
  Absent,       \* the code is not in the release
  MaxRelease,   \* bound: releases published
  MeasureIds,   \* ids of trade_measures rows
  None,         \* no row
  LastDay,      \* bound: days of the calendar
  Exclusive,    \* the codes of one program (program # null)
  Deciders,     \* decisions in progress
  Syncs,        \* sync requests in progress (the cron and "Sync now")
  MaxDecisions, MaxSyncs, \* bounds: decisions and syncs of a behaviour
  Feeds         \* what the releases may contain

Releases == 1..MaxRelease
Days == 1..LastDay
Open == LastDay + 1   \* end_date is null

ASSUME CodesAssumption == Codes \subseteq Nat /\ MeasureIds \subseteq Nat \ {0}
ASSUME BoundsAssumption == MaxRelease \in Nat \ {0} /\ LastDay \in Nat \ {0}
ASSUME FeedsAssumption == Feeds \subseteq [Releases -> [Codes -> Contents \cup {Absent}]]
ASSUME DistinctAssumption == Family \notin Codes /\ Absent \notin Contents
ASSUME TrackedAssumption == Tracked \subseteq Codes \cap MeasureIds /\ Initial \in Contents

VARIABLES
  feed,        \* the releases
  published,   \* the latest release
  measure,     \* trade_measures with their hts_codes row, by id
  revision,    \* measure_revisions with their own review item
  familyItems, \* review items of the family of each release, oldest first
  announcement,\* tariff_announcements.status
  decision,    \* decisions in progress
  sync,        \* syncs in progress
  effects,     \* ghost: how often each revision has changed the measures
  mishaps,     \* ghost: which unusual things have happened
  decisions, syncs \* bound counters

tables == <<measure, revision, familyItems, announcement>>
bounds == <<decisions, syncs>>
vars == <<feed, published, tables, decision, sync, effects, mishaps, bounds>>

-----------------------------------------------------------------------------
(* Tables.                                                                 *)

Status == {"pending", "approved", "rejected", "superseded"}

Measure == [code : Codes, from : Days, to : 0..Open, content : Contents]

Change == {"create_measure", "rate_change", "end_measure"}

\* (announcement, code) is unique, so a revision is named by the two.
Proposals == Releases \X Codes

Revision ==
  [change : Change, target : MeasureIds \cup {None}, content : Contents \cup {Absent},
   grouped : BOOLEAN, item : Status \cup {"none"}, applied : BOOLEAN, superseded : BOOLEAN]

Exists(p) == revision[p] # None
Staged == {p \in Proposals : Exists(p)}
Applied == {p \in Staged : revision[p].applied}

PendingItems(rel) == {i \in DOMAIN familyItems[rel] : familyItems[rel][i] = "pending"}

\* loadOpenRevisions.
IsOpen(p) ==
  /\ Exists(p) /\ ~revision[p].applied /\ ~revision[p].superseded
  /\ IF revision[p].grouped THEN PendingItems(p[1]) # {} ELSE revision[p].item = "pending"

OpenOf(c) == {p \in Staged : p[2] = c /\ IsOpen(p)}

\* The gate of a revision: the family's latest item, or its own.
Gate(r, items) ==
  IF ~r.grouped THEN r.item ELSE IF items = <<>> THEN "none" ELSE items[Len(items)]

\* Windows of a table t of measures.
WindowsOf(t, c) == {i \in MeasureIds : t[i] # None /\ t[i].code = c}

\* loadTariffSyncState: a window that starts last.
LiveWindows(c) ==
  IF WindowsOf(measure, c) = {} THEN {None}
  ELSE {i \in WindowsOf(measure, c) :
          \A j \in WindowsOf(measure, c) : measure[j].from <= measure[i].from}

-----------------------------------------------------------------------------
(* Frames.                                                                 *)

NoPlan == [shut |-> {}, at |-> 0, fix |-> None, window |-> None]
Plan ==
  [shut : SUBSET MeasureIds, at : 0..Open, fix : MeasureIds \cup {None},
   window : Measure \cup {None}]

Idle == [pc |-> "idle"]

Subject == [rel : Releases, code : Codes \cup {Family}, index : Nat]

NoWrites == [i \in MeasureIds |-> None]

Decision ==
  {Idle}
  \cup [pc : {"read"}, on : Subject]
  \cup [pc : {"apply", "write", "resolve", "commit"}, on : Subject,
        verdict : {"approved", "rejected"},
        todo : SUBSET Codes, skip : SUBSET Codes, done : SUBSET Codes,
        plan : Plan, put : [MeasureIds -> Measure \cup {None}], resolves : BOOLEAN]

Proposed ==
  [change : Change, target : MeasureIds \cup {None}, content : Contents \cup {Absent}]

ASSUME NoneAssumption == None \notin MeasureIds \cup Measure \cup Revision \cup Proposed

Sync ==
  {Idle}
  \cup [pc : {"state"}, rel : Releases, live : [Codes -> MeasureIds \cup {None}],
        content : [Codes -> Contents \cup {Absent}]]
  \cup [pc : {"diff", "stage"}, rel : Releases,
        stage : [Codes -> Proposed \cup {None}], gone : SUBSET Proposals,
        own : SUBSET Proposals, existing : Nat]

TypeOK ==
  /\ feed \in Feeds /\ published \in Releases
  /\ measure \in [MeasureIds -> Measure \cup {None}]
  /\ revision \in [Proposals -> Revision \cup {None}]
  /\ familyItems \in [Releases -> Seq(Status)]
  /\ announcement \in [Releases -> {"none", "open", "resolved"}]
  /\ decision \in [Deciders -> Decision]
  /\ sync \in [Syncs -> Sync]
  /\ effects \in [Proposals -> Nat]
  /\ mishaps \subseteq {"race", "crossing", "backdating"}
  /\ decisions \in Nat /\ syncs \in Nat

Init ==
  /\ feed \in Feeds /\ published = 1
  /\ measure = [i \in MeasureIds |->
       IF i \in Tracked THEN [code |-> i, from |-> 1, to |-> Open, content |-> Initial] ELSE None]
  /\ revision = [p \in Proposals |-> None]
  /\ familyItems = [rel \in Releases |-> <<>>]
  /\ announcement = [rel \in Releases |-> "none"]
  /\ decision = [d \in Deciders |-> Idle]
  /\ sync = [s \in Syncs |-> Idle]
  /\ effects = [p \in Proposals |-> 0]
  /\ mishaps = {} /\ decisions = 0 /\ syncs = 0

-----------------------------------------------------------------------------
(* Row locks: the rows a transaction has updated wait for its end.         *)

ItemRow(on) == <<"item", on.rel, on.code, on.index>>
RevisionRow(p) == <<"revision", p[1], p[2]>>

Writing(d) == decision[d].pc \in {"apply", "write", "resolve", "commit"}

HeldBy(d) ==
  IF ~Writing(d) THEN {}
  ELSE LET f == decision[d] IN
       {ItemRow(f.on)}
       \cup {RevisionRow(<<f.on.rel, c>>) : c \in f.done \cup f.skip}
       \cup IF f.on.code \in f.todo THEN {RevisionRow(<<f.on.rel, f.on.code>>)} ELSE {}

HeldBySync(s) ==
  IF sync[s].pc # "stage" THEN {}
  ELSE {RevisionRow(p) : p \in sync[s].gone}
       \cup {ItemRow([rel |-> p[1], code |-> p[2], index |-> 0]) : p \in sync[s].own}

\* d may update the rows.
Free(d, rows) ==
  /\ \A e \in Deciders \ {d} : rows \cap HeldBy(e) = {}
  /\ \A s \in Syncs : rows \cap HeldBySync(s) = {}

FreeMeasures(d, ids) ==
  \A e \in Deciders \ {d} : Writing(e) => \A i \in ids : decision[e].put[i] = None

\* The announcement of a release is locked by the sync that stages into it.
FreeAnnouncement(rel) == \A s \in Syncs : sync[s].pc = "stage" => sync[s].rel # rel

-----------------------------------------------------------------------------
(* Decisions.                                                              *)

\* A race: a sync overlaps a decision or another sync.  A crossing: two
\* decisions overlap.  Backdating: a correction moves the start of a window.
Mark(name, happens) == IF happens THEN {name} ELSE {}

InProgress(frames, S) == {x \in S : frames[x] # Idle}

Continues(d, frame) ==
  /\ decision' = [decision EXCEPT ![d] = frame]
  /\ UNCHANGED <<feed, published, tables, sync, effects, mishaps, bounds>>

Starts(d, on) ==
  /\ decision[d] = Idle /\ decisions < MaxDecisions
  /\ decision' = [decision EXCEPT ![d] = [pc |-> "read", on |-> on]]
  /\ mishaps' = mishaps \cup Mark("race", InProgress(sync, Syncs) # {})
                        \cup Mark("crossing", InProgress(decision, Deciders) # {})
  /\ decisions' = decisions + 1
  /\ UNCHANGED <<feed, published, tables, sync, effects, syncs>>

\* PATCH of a revision: it is not applied and its item is pending.
ReadRevision(d) ==
  \E p \in Staged :
    /\ ~revision[p].applied /\ revision[p].item = "pending"
    /\ Starts(d, [rel |-> p[1], code |-> p[2], index |-> 0])

\* PATCH of a family: it has a pending item.
ReadFamily(d) ==
  \E rel \in Releases : \E i \in PendingItems(rel) :
    Starts(d, [rel |-> rel, code |-> Family, index |-> i])

Deciding(d, verdict, todo, skip) ==
  Continues(d, [pc |-> "apply", on |-> decision[d].on, verdict |-> verdict,
                todo |-> todo, skip |-> skip, done |-> {}, plan |-> NoPlan,
                put |-> NoWrites, resolves |-> FALSE])

\* The UPDATE addresses the item by id, whatever its status is by now.
Reject(d) ==
  /\ decision[d].pc = "read"
  /\ Free(d, {ItemRow(decision[d].on)})
  /\ Deciding(d, "rejected", {}, {})

\* Mutant: the revision is not read again.
ApproveRevisionAsRead(d) ==
  LET on == decision[d].on IN
  /\ decision[d].pc = "read" /\ on.code # Family
  /\ Free(d, {ItemRow(on), RevisionRow(<<on.rel, on.code>>)})
  /\ Deciding(d, "approved", {on.code}, {})

\* applyRevision reads the revision again, under the lock of its UPDATE.
ApproveRevision(d) ==
  LET on == decision[d].on IN
  /\ decision[d].pc = "read" /\ on.code # Family
  /\ Free(d, {ItemRow(on), RevisionRow(<<on.rel, on.code>>)})
  /\ ~revision[<<on.rel, on.code>>].applied
  /\ Deciding(d, "approved", {on.code}, {})

Members(rel) ==
  {c \in Codes : LET p == <<rel, c>> IN
     Exists(p) /\ revision[p].grouped /\ ~revision[p].applied /\ ~revision[p].superseded}

\* applyRevisionGroup: the family's latest item is approved; the members that
\* are not skipped are applied one by one.
ApproveFamily(d) ==
  LET on == decision[d].on
      items == familyItems[on.rel]
  IN /\ decision[d].pc = "read" /\ on.code = Family
     /\ on.index = Len(items) \/ items[Len(items)] = "approved"
     /\ \E skip \in SUBSET Members(on.rel) :
          /\ Free(d, {ItemRow(on)} \cup {RevisionRow(<<on.rel, c>>) : c \in skip})
          /\ Deciding(d, "approved", Members(on.rel) \ skip, skip)

\* The measures as the transaction of d sees them.
Row(d, i) == IF decision[d].put[i] # None THEN decision[d].put[i] ELSE measure[i]

\* The members of a family are applied in the order of their codes.
IsNext(c, todo) == c \in todo /\ \A e \in todo : c <= e

\* findProgramConflicts, for a window without an end.
Conflicts(d, c, eff) ==
  {i \in MeasureIds :
     /\ c \in Exclusive /\ Row(d, i) # None
     /\ Row(d, i).code \in Exclusive /\ Row(d, i).to >= eff}

\* planRevisionApply and planProgramResolution: what applyOne reads.  A plan
\* that fails rolls the decision back (Abort).
PlanCreate(d, c, content, eff) ==
  LET shut == Conflicts(d, c, eff) IN
  /\ \A i \in shut : Row(d, i).from < eff
  /\ Continues(d, [decision[d] EXCEPT !.pc = "write", !.plan =
       [shut |-> shut, at |-> eff - 1, fix |-> None,
        window |-> [code |-> c, from |-> eff, to |-> Open, content |-> content]]])

\* Mutant: the live window stays valid on the effective date.
PlanChangeSameDay(d, c, target, content, eff) ==
  LET live == Row(d, target)
      tiles == eff > live.from
  IN Continues(d, [decision[d] EXCEPT !.pc = "write", !.plan =
       [shut |-> IF tiles /\ live.to >= eff THEN {target} ELSE {}, at |-> eff,
        fix |-> IF tiles THEN None ELSE target,
        window |-> [code |-> c, from |-> eff, to |-> Open, content |-> content]]])

PlanChange(d, c, target, content, eff) ==
  LET live == Row(d, target)
      tiles == eff > live.from
  IN Continues(d, [decision[d] EXCEPT !.pc = "write", !.plan =
       [shut |-> IF tiles /\ live.to >= eff THEN {target} ELSE {}, at |-> eff - 1,
        fix |-> IF tiles THEN None ELSE target,
        window |-> [code |-> c, from |-> eff, to |-> Open, content |-> content]]])

PlanEnd(d, target, end) ==
  Continues(d, [decision[d] EXCEPT !.pc = "write", !.plan =
    [shut |-> {target}, at |-> end, fix |-> None, window |-> None]])

PlanMember(d) ==
  /\ decision[d].pc = "apply"
  /\ \E c \in Codes, day \in Days :
       /\ IsNext(c, decision[d].todo)
       /\ LET r == revision[<<decision[d].on.rel, c>>] IN
          \/ r.change = "create_measure" /\ PlanCreate(d, c, r.content, day)
          \/ r.change = "rate_change" /\ PlanChange(d, c, r.target, r.content, day)
          \/ r.change = "end_measure" /\ PlanEnd(d, r.target, day)

InUse(i) == measure[i] # None \/ \E d \in Deciders : Writing(d) /\ decision[d].put[i] # None

\* applyOne writes by id: the windows it has planned to close get their end
\* date whatever it is by now.
WriteMember(d) ==
  LET f == decision[d]
      closed == [i \in MeasureIds |->
                   IF i \in f.plan.shut THEN [Row(d, i) EXCEPT !.to = f.plan.at] ELSE f.put[i]]
      Written(c, put) ==
        Continues(d, [f EXCEPT !.pc = "apply", !.todo = @ \ {c}, !.done = @ \cup {c},
                               !.plan = NoPlan, !.put = put])
  IN /\ f.pc = "write"
     /\ FreeMeasures(d, f.plan.shut \cup ({f.plan.fix} \ {None}))
     /\ \E c \in Codes :
          /\ IsNext(c, f.todo) /\ Free(d, {RevisionRow(<<f.on.rel, c>>)})
          /\ \/ f.plan.window = None /\ Written(c, closed)
             \/ f.plan.fix # None /\ Written(c, [closed EXCEPT ![f.plan.fix] = f.plan.window])
             \/ /\ f.plan.window # None /\ f.plan.fix = None
                /\ \E i \in MeasureIds :
                     /\ ~InUse(i) /\ \A j \in MeasureIds : j < i => InUse(j)
                     /\ Written(c, [closed EXCEPT ![i] = f.plan.window])

\* Mutant: a skipped member stays in its family.
RevisionAfterInFamily(d) ==
  LET f == decision[d] IN
  [p \in Proposals |->
     IF p[1] # f.on.rel \/ ~Exists(p) THEN revision[p]
     ELSE IF p[2] \in f.skip THEN [revision[p] EXCEPT !.item = "rejected"]
     ELSE [revision[p] EXCEPT !.applied = @ \/ p[2] \in f.done,
                              !.item = IF p[2] = f.on.code THEN f.verdict ELSE @]]

\* The rows of the queue with the writes of d.
RevisionAfter(d) ==
  LET f == decision[d] IN
  [p \in Proposals |->
     IF p[1] # f.on.rel \/ ~Exists(p) THEN revision[p]
     ELSE IF p[2] \in f.skip THEN [revision[p] EXCEPT !.grouped = FALSE, !.item = "rejected"]
     ELSE [revision[p] EXCEPT !.applied = @ \/ p[2] \in f.done,
                              !.item = IF p[2] = f.on.code THEN f.verdict ELSE @]]

ItemsAfter(d) ==
  LET on == decision[d].on IN
  IF on.code = Family
  THEN [familyItems EXCEPT ![on.rel][on.index] = decision[d].verdict] ELSE familyItems

Terminal(r, items) ==
  r.applied \/ r.superseded \/ Gate(r, items) \in {"rejected", "superseded"}

\* resolveAnnouncementIfTerminal reads the revisions of the announcement ...
Resolve(d) ==
  /\ decision[d].pc = "apply" /\ decision[d].todo = {}
  /\ LET rel == decision[d].on.rel IN
     Continues(d, [decision[d] EXCEPT !.pc = "commit", !.resolves =
       \A c \in Codes : Exists(<<rel, c>>) =>
         Terminal(RevisionAfter(d)[<<rel, c>>], ItemsAfter(d)[rel])])

\* ... and marks it; the transaction commits.
Commit(d) ==
  LET f == decision[d] IN
  /\ f.pc = "commit"
  /\ f.resolves => FreeAnnouncement(f.on.rel)
  /\ measure' = [i \in MeasureIds |-> Row(d, i)]
  /\ revision' = RevisionAfter(d)
  /\ familyItems' = ItemsAfter(d)
  /\ announcement' =
       IF f.resolves THEN [announcement EXCEPT ![f.on.rel] = "resolved"] ELSE announcement
  /\ effects' = [p \in Proposals |->
       effects[p] + IF p[1] = f.on.rel /\ p[2] \in f.done THEN 1 ELSE 0]
  /\ decision' = [decision EXCEPT ![d] = Idle]
  /\ mishaps' = mishaps \cup Mark("backdating", \E i \in MeasureIds :
       measure[i] # None /\ measure'[i] # None /\ measure'[i].from < measure[i].from)
  /\ UNCHANGED <<feed, published, sync, bounds>>

\* A validation error, a status that has changed, a deadlock or a crash.
Abort(d) ==
  /\ decision[d] # Idle
  /\ Continues(d, Idle)

-----------------------------------------------------------------------------
(* The sync.                                                               *)

Publish ==
  /\ published < MaxRelease
  /\ published' = published + 1
  /\ UNCHANGED <<feed, tables, decision, sync, effects, mishaps, bounds>>

SyncContinues(s, frame) ==
  /\ sync' = [sync EXCEPT ![s] = frame]
  /\ UNCHANGED <<feed, published, tables, decision, effects, mishaps, bounds>>

\* The release is fetched and loadTariffSyncState reads the live measures.
SyncState(s) ==
  /\ sync[s] = Idle /\ syncs < MaxSyncs
  /\ \E live \in [Codes -> MeasureIds \cup {None}] :
       /\ \A c \in Codes : live[c] \in LiveWindows(c)
       /\ sync' = [sync EXCEPT ![s] =
            [pc |-> "state", rel |-> published, live |-> live,
             content |-> [c \in Codes |->
               IF live[c] = None THEN Absent ELSE measure[live[c]].content]]]
  /\ mishaps' = mishaps \cup Mark("race", InProgress(decision, Deciders) # {}
                                         \/ InProgress(sync, Syncs) # {})
  /\ syncs' = syncs + 1
  /\ UNCHANGED <<feed, published, tables, decision, effects, decisions>>

\* diffRelease, of one code: already staged with this content, or not.
AlreadyStaged(c, x) == \E p \in OpenOf(c) : revision[p].content = x

Change1(f, c) ==
  LET x == feed[f.rel][c]
      Change0(change) == [change |-> change, target |-> f.live[c], content |-> x]
  IN IF AlreadyStaged(c, x) THEN None
     ELSE IF f.live[c] = None THEN IF x = Absent THEN None ELSE Change0("create_measure")
     ELSE IF x = Absent THEN Change0("end_measure")
     ELSE IF x # f.content[c] THEN Change0("rate_change") ELSE None

\* Mutant: only the revisions that have an item of their own.
GoneOwn(f) ==
  UNION {{p \in OpenOf(c) : ~revision[p].grouped} :
           c \in {e \in Codes : /\ ~AlreadyStaged(e, feed[f.rel][e])
                                /\ feed[f.rel][e] # Absent \/ f.live[e] # None}}

\* Mutant: also those whose content is the release's.
GoneAll(f) ==
  UNION {OpenOf(c) : c \in {e \in Codes : feed[f.rel][e] # Absent \/ f.live[e] # None}}

\* The open revisions whose content has moved on.
Gone(f) ==
  UNION {OpenOf(c) : c \in {e \in Codes : /\ ~AlreadyStaged(e, feed[f.rel][e])
                                          /\ feed[f.rel][e] # Absent \/ f.live[e] # None}}

\* loadOpenRevisions, the diff and the extraction.
SyncDiff(s) ==
  LET f == sync[s] IN
  /\ f.pc = "state"
  /\ SyncContinues(s,
       [pc |-> "diff", rel |-> f.rel, stage |-> [c \in Codes |-> Change1(f, c)],
        gone |-> Gone(f), own |-> {p \in Gone(f) : ~revision[p].grouped}, existing |-> 0])

Changes(f) == {c \in Codes : f.stage[c] # None}
Creates(f) == {c \in Changes(f) : f.stage[c].change = "create_measure"}

\* The staging transaction: the upsert of the announcement, the rows it
\* supersedes, and the pending item of the family, if there is one.
SyncBegin(s) ==
  LET f == sync[s] IN
  /\ f.pc = "diff"
  /\ IF Changes(f) = {} /\ f.gone = {} THEN SyncContinues(s, Idle)
     ELSE /\ FreeAnnouncement(f.rel)
          /\ \A d \in Deciders :
               ({RevisionRow(p) : p \in f.gone}
                  \cup {ItemRow([rel |-> p[1], code |-> p[2], index |-> 0]) : p \in f.own})
               \cap HeldBy(d) = {}
          /\ \E i \in {0} \cup PendingItems(f.rel) :
               /\ i = 0 => PendingItems(f.rel) = {}
               /\ SyncContinues(s, [f EXCEPT !.pc = "stage", !.existing = i])

\* onConflictDoNothing: a code that has a revision in this release keeps it.
StagedRevision(f, p) ==
  IF Exists(p) \/ p[1] # f.rel \/ f.stage[p[2]] = None
  THEN IF p \notin f.gone THEN revision[p]
       ELSE [revision[p] EXCEPT !.superseded = TRUE,
                                !.item = IF p \in f.own THEN "superseded" ELSE @]
  ELSE LET r == f.stage[p[2]] IN
       [change |-> r.change, target |-> r.target, content |-> r.content,
        grouped |-> r.change = "create_measure",
        item |-> IF r.change = "create_measure" THEN "none" ELSE "pending",
        applied |-> FALSE, superseded |-> FALSE]

SyncCommit(s) ==
  LET f == sync[s]
      family == [rel |-> f.rel, code |-> Family, index |-> f.existing]
  IN /\ f.pc = "stage"
     /\ f.existing # 0 /\ Creates(f) # {} =>
          \A d \in Deciders : ItemRow(family) \notin HeldBy(d)
     /\ revision' = [p \in Proposals |-> StagedRevision(f, p)]
     /\ familyItems' =
          IF Creates(f) = {} \/ f.existing # 0 THEN familyItems
          ELSE [familyItems EXCEPT ![f.rel] = Append(@, "pending")]
     /\ announcement' = [announcement EXCEPT ![f.rel] = "open"]
     /\ sync' = [sync EXCEPT ![s] = Idle]
     /\ UNCHANGED <<feed, published, measure, decision, effects, mishaps, bounds>>

SyncFails(s) ==
  /\ sync[s] # Idle
  /\ SyncContinues(s, Idle)

-----------------------------------------------------------------------------
Next ==
  \/ Publish
  \/ \E d \in Deciders :
       \/ ReadRevision(d) \/ ReadFamily(d)
       \/ Reject(d) \/ ApproveRevision(d) \/ ApproveFamily(d)
       \/ PlanMember(d) \/ WriteMember(d) \/ Resolve(d) \/ Commit(d) \/ Abort(d)
  \/ \E s \in Syncs :
       SyncState(s) \/ SyncDiff(s) \/ SyncBegin(s) \/ SyncCommit(s) \/ SyncFails(s)

Spec == Init /\ [][Next]_vars

-----------------------------------------------------------------------------
(* Properties.                                                             *)

(* "race", "backdating" and "crossing" in mishaps: what has to happen for  *)
(* the code not to keep a property.                                        *)

\* The review is a gate (TariffGate): as long as no sync has overlapped a
\* decision, a revision changes the measures at most once, in the commit that
\* makes it applied, and applied it stays, however its approvals and
\* rejections overlap (PATCH reads without a lock).
Gates == INSTANCE TariffGate WITH
  staged <- Staged, applied <- Applied, quiet <- ("race" \notin mishaps)

Implements == Gates!GateSpec

\* A code has at most one revision a person can still decide: the diff stages
\* none beside one with the same content and supersedes the others, members of
\* families too.
OneOpenRevision == "race" \in mishaps \/ \A c \in Codes : Cardinality(OpenOf(c)) <= 1

\* The windows of a code never overlap: re-rating, ending, and the conflicts
\* that a new code of the program closes leave every day to one of them.
WindowsTile ==
  mishaps # {} \/ \A c \in Codes : \A i, j \in WindowsOf(measure, c) :
    i = j \/ measure[i].to < measure[j].from \/ measure[j].to < measure[i].from

\* "No member is ever stranded unapplied inside an approved group", and no
\* revision behind an approved item of its own.
NothingStranded ==
  "race" \in mishaps \/ \A p \in Staged :
    LET r == revision[p] IN
    Gate(r, familyItems[p[1]]) = "approved" => r.applied \/ r.superseded

NewestStaged(rel) ==
  announcement[rel] # "none" /\ \A later \in Releases : later > rel => announcement[later] = "none"

\* What the newest release changes does not escape the queue: a code whose live
\* content differs from it has a revision of that content, open or decided by
\* a person, or one that is staged for this release.  Except a code that
\* vanished while its creation was pending: the diff, which goes through the
\* live codes, leaves that revision open.
EveryChangeProposed ==
  "race" \in mishaps \/ \A rel \in Releases, c \in Codes :
    NewestStaged(rel) =>
      \/ \E i \in LiveWindows(c) :
           feed[rel][c] = IF i = None THEN Absent ELSE measure[i].content
      \/ Exists(<<rel, c>>)
      \/ \E p \in Staged : /\ p[2] = c /\ revision[p].content = feed[rel][c]
                            /\ ~revision[p].superseded
      \/ \E p \in Applied : /\ p[1] < rel /\ p[2] = c /\ feed[rel][c] = Absent
                             /\ revision[p].change = "create_measure"
=============================================================================
