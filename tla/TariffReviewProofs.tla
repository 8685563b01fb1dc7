------------------------- MODULE TariffReviewProofs -------------------------
(***************************************************************************)
(* Theorems about TariffReview: type correctness, that the review is the   *)
(* gate of TariffGate, and the four safety invariants of its run, for      *)
(* every number of codes, releases, days, deciders and syncs.              *)
(*                                                                         *)
(* The invariant has three layers.  Some of its parts hold whatever        *)
(* overlaps (Sound); most hold until a sync has overlapped something       *)
(* (Calm); those about the windows of a code need decisions that take      *)
(* turns as well (Orderly).                                                *)
(***************************************************************************)
EXTENDS TariffReview, FiniteSetTheorems, TLAPS

Quiet == "race" \notin mishaps

Busy(d) == decision[d] # Idle
Syncing(s) == sync[s] # Idle

\* A sync that has compared the release with what is there.
Knows(f) == f.pc \in {"diff", "stage"}

-----------------------------------------------------------------------------
(* What holds whatever overlaps.                                           *)

\* A row of code c that is there.
IsRowOf(i, c) == i \in MeasureIds /\ measure[i] # None /\ measure[i].code = c

\* What a change is made of.
WellFormed(r, c) ==
  /\ r.change # "create_measure" => IsRowOf(r.target, c)
  /\ r.change # "end_measure" => r.content \in Contents

RevisionsSound ==
  \A p \in Staged :
    /\ WellFormed(revision[p], p[2])
    /\ revision[p].grouped => revision[p].item = "none" /\ revision[p].change = "create_measure"
    /\ p[1] <= published /\ announcement[p[1]] # "none"

FamiliesSound ==
  \A rel \in Releases : /\ familyItems[rel] # <<>> => announcement[rel] # "none"
                        /\ announcement[rel] # "none" => rel <= published

SyncSound(f) ==
  /\ f # Idle => f.rel <= published
  /\ f.pc = "state" => \A c \in Codes :
       f.live[c] # None => IsRowOf(f.live[c], c) /\ f.content[c] \in Contents
  /\ Knows(f) => /\ f.gone \subseteq Staged /\ f.own \subseteq f.gone
                 /\ \A p \in f.own : ~revision[p].grouped
                 /\ \A c \in Codes : f.stage[c] # None => WellFormed(f.stage[c], c)

SyncsSound == \A s \in Syncs : SyncSound(sync[s])

\* The subject of a decision is there.
SubjectSound(on) ==
  /\ on.code # Family => Exists(<<on.rel, on.code>>) /\ ~revision[<<on.rel, on.code>>].grouped
                         /\ on.index = 0
  /\ on.code = Family => on.index \in 1..Len(familyItems[on.rel])

\* The rows a decision has written are rows of the codes it has done, or
\* rows of other codes with another end.
PutsSound(f) ==
  \A i \in MeasureIds : f.put[i] # None =>
    /\ measure[i] = None => f.put[i].code \in f.done
    /\ measure[i] # None => /\ f.put[i].code = measure[i].code
                            /\ f.put[i].code \notin f.done =>
                                 /\ f.put[i].from = measure[i].from
                                 /\ f.put[i].content = measure[i].content

\* A measure as a transaction sees it.
Seen(f, i) == IF f.put[i] # None THEN f.put[i] ELSE measure[i]

PlanSound(f) ==
  /\ \A i \in f.plan.shut : Seen(f, i) # None
  /\ f.plan.fix # None => /\ f.plan.window # None /\ Seen(f, f.plan.fix) # None
                          /\ Seen(f, f.plan.fix).code = f.plan.window.code
  /\ f.plan.window # None => IsNext(f.plan.window.code, f.todo)

WritesSound(f) ==
  /\ f.todo \cap f.done = {} /\ f.skip \cap (f.todo \cup f.done) = {}
  /\ \A c \in f.todo \cup f.done \cup f.skip : Exists(<<f.on.rel, c>>)
  /\ f.on.code # Family => /\ f.skip = {}
                           /\ f.todo \cup f.done = IF f.verdict = "approved" THEN {f.on.code} ELSE {}
  /\ f.verdict = "rejected" => f.todo = {} /\ f.done = {} /\ f.skip = {}
  /\ f.pc = "commit" => f.todo = {}
  /\ PutsSound(f)
  /\ f.pc = "write" => PlanSound(f)

DecisionsSound ==
  \A d \in Deciders :
    /\ Busy(d) => SubjectSound(decision[d].on)
    /\ Writing(d) => WritesSound(decision[d])

\* The row locks: two transactions write neither one item nor one measure.
LocksApart ==
  \A d, e \in Deciders : Writing(d) /\ Writing(e) /\ d # e =>
    /\ decision[d].on # decision[e].on
    /\ \A i \in MeasureIds : decision[d].put[i] = None \/ decision[e].put[i] = None

Sound ==
  TypeOK /\ RevisionsSound /\ FamiliesSound /\ SyncsSound /\ DecisionsSound /\ LocksApart

-----------------------------------------------------------------------------
(* What holds until a sync has overlapped a decision or another sync.      *)

SyncApart ==
  /\ \A d \in Deciders, s \in Syncs : Busy(d) => ~Syncing(s)
  /\ \A s, t \in Syncs : Syncing(s) /\ Syncing(t) => s = t

\* No release is synced after a later one.
SyncNewest(f) ==
  f # Idle => /\ \A p \in Staged : p[1] <= f.rel
              /\ \A rel \in Releases : announcement[rel] # "none" => rel <= f.rel

\* A revision that has a successor cannot be decided any more.
OlderClosed ==
  \A p, q \in Staged : p[2] = q[2] /\ p[1] < q[1] => ~IsOpen(p)

OwnSuperseded ==
  \A p \in Staged :
    revision[p].superseded /\ ~revision[p].grouped => revision[p].item # "pending"

\* Only the last item of a family is pending.
PendingLast ==
  \A rel \in Releases : \A i \in PendingItems(rel) : i = Len(familyItems[rel])

\* What a sync has found about a code still holds when it commits: the change
\* is to be staged; or is; or there is none.
SyncFound(f, c) ==
  LET x == feed[f.rel][c] IN
  \/ f.stage[c] # None /\ OpenOf(c) \subseteq f.gone
  \/ /\ f.stage[c] = None
     /\ \/ \E p \in OpenOf(c) \ f.gone : revision[p].content = x
        \/ x = Absent /\ WindowsOf(measure, c) = {}
        \/ /\ OpenOf(c) \subseteq f.gone
           /\ \E i \in LiveWindows(c) : i # None /\ measure[i].content = x

SyncCalm(f) ==
  /\ SyncNewest(f)
  /\ f.pc = "state" => \A c \in Codes :
       /\ f.live[c] \in LiveWindows(c)
       /\ f.live[c] # None => f.content[c] = measure[f.live[c]].content
  /\ Knows(f) => /\ \A c \in Codes : SyncFound(f, c)
                 /\ \A p \in f.gone : IsOpen(p)
                 /\ f.own = {p \in f.gone : ~revision[p].grouped}
  /\ f.pc = "stage" =>
       IF f.existing = 0 THEN PendingItems(f.rel) = {} ELSE f.existing \in PendingItems(f.rel)

SyncsCalm == \A s \in Syncs : SyncCalm(sync[s])

\* Decisions on one family are decisions on one item of it, which stays its
\* only pending one.
OneFamilyItem ==
  \A d \in Deciders : Busy(d) /\ decision[d].on.code = Family =>
    LET on == decision[d].on IN
    /\ PendingItems(on.rel) \subseteq {on.index}
    /\ \A e \in Deciders : Busy(e) /\ decision[e].on.code = Family /\ decision[e].on.rel = on.rel
         => decision[e].on = on

\* What a transaction has locked nobody else applies.
UnappliedIn(f) ==
  /\ \A c \in f.todo \cup f.done : ~revision[<<f.on.rel, c>>].applied
  /\ f.on.code = Family =>
       /\ \A c \in f.todo \cup f.done \cup f.skip : revision[<<f.on.rel, c>>].grouped
       /\ f.verdict = "approved" => Members(f.on.rel) \subseteq f.todo \cup f.done \cup f.skip

Unapplied == \A d \in Deciders : Writing(d) => UnappliedIn(decision[d])

\* What a revision says of the newest release if it is decided.
Accounted(p, rel) ==
  \/ p[1] = rel
  \/ revision[p].content = feed[rel][p[2]] /\ ~revision[p].superseded
  \/ p[1] < rel /\ feed[rel][p[2]] = Absent /\ revision[p].change = "create_measure"

\* The codes a decision may apply a revision of.
Subjects(f) ==
  IF f.pc # "read" THEN f.todo \cup f.done
  ELSE IF f.on.code = Family THEN Members(f.on.rel) ELSE {f.on.code}

AllAccounted ==
  \A rel \in Releases : NewestStaged(rel) =>
    /\ \A p \in Staged : IsOpen(p) => Accounted(p, rel)
    /\ \A d \in Deciders : Busy(d) => \A c \in Subjects(decision[d]) : Accounted(<<decision[d].on.rel, c>>, rel)

Calm ==
  Quiet =>
    /\ SyncApart /\ OlderClosed /\ OwnSuperseded /\ PendingLast /\ SyncsCalm
    /\ OneFamilyItem /\ Unapplied /\ AllAccounted

-----------------------------------------------------------------------------
(* What holds as long as decisions take turns and none moves a first day   *)
(* back.                                                                   *)

OneDecision == \A d, e \in Deciders : Busy(d) /\ Busy(e) => d = e

\* The subject of a decision is still open.
SubjectOpen ==
  \A d \in Deciders : Busy(d) =>
    LET on == decision[d].on IN
    /\ on.code # Family => IsOpen(<<on.rel, on.code>>)
    /\ on.code = Family => on.index \in PendingItems(on.rel)
    /\ \A c \in Subjects(decision[d]) : IsOpen(<<on.rel, c>>)

\* The windows of a code in a table t, one after the other.
TableTiles(t) ==
  \A c \in Codes : \A i, j \in WindowsOf(t, c) : i # j =>
    \/ t[i].from < t[j].from /\ t[i].to < t[j].from
    \/ t[j].from < t[i].from /\ t[j].to < t[i].from

\* Nothing of code c, or the window a change is about, is live in t.
Fits(t, c, r) ==
  IF r.change = "create_measure" THEN WindowsOf(t, c) = {}
  ELSE r.target \in WindowsOf(t, c) /\ \A j \in WindowsOf(t, c) : t[j].from <= t[r.target].from

NewestFits ==
  \A p \in Staged :
    ~revision[p].applied /\ (\A q \in Staged : q[2] = p[2] => q[1] <= p[1]) =>
      Fits(measure, p[2], revision[p])

SyncFits(f) ==
  Knows(f) => \A c \in Codes : f.stage[c] # None => Fits(measure, c, f.stage[c])

SyncsFit == \A s \in Syncs : SyncFits(sync[s])

\* The table of measures as a transaction sees it.
View(f) == [i \in MeasureIds |-> Seen(f, i)]

MovesBack(f) ==
  \E i \in MeasureIds : /\ f.put[i] # None /\ measure[i] # None
                        /\ f.put[i].from < measure[i].from

\* A plan is made for a view and is carried out on the same.
PlanFor(f, c, eff, r) ==
  LET live == Seen(f, r.target)
      new == [code |-> c, from |-> eff, to |-> Open, content |-> r.content]
  IN \/ /\ r.change = "create_measure" /\ f.plan.window = new /\ f.plan.fix = None
        /\ f.plan.at = eff - 1 /\ \A i \in f.plan.shut : Seen(f, i).to >= eff
     \/ /\ r.change = "rate_change" /\ f.plan.window = new
        /\ f.plan.fix = IF eff > live.from THEN None ELSE r.target
        /\ f.plan.at = eff - 1
        /\ f.plan.shut = IF eff > live.from /\ live.to >= eff THEN {r.target} ELSE {}
     \/ r.change = "end_measure" /\ f.plan.window = None /\ f.plan.shut = {r.target}

PlanFits(f) ==
  \E c \in Codes, eff \in Days :
    IsNext(c, f.todo) /\ PlanFor(f, c, eff, revision[<<f.on.rel, c>>])

ViewTiles(f) ==
  /\ MovesBack(f) \/ TableTiles(View(f))
  /\ f.pc = "write" => PlanFits(f)

ViewsTile == \A d \in Deciders : Writing(d) => ViewTiles(decision[d])

Orderly ==
  mishaps = {} =>
    OneDecision /\ SubjectOpen /\ TableTiles(measure) /\ NewestFits /\ SyncsFit /\ ViewsTile

ReviewInv == Sound /\ Calm /\ NothingStranded /\ EveryChangeProposed /\ Orderly

-----------------------------------------------------------------------------
(* Shapes.                                                                 *)

Phases == {"apply", "write", "resolve", "commit"}

Puts == [MeasureIds -> Measure \cup {None}]

\* Releases, days and codes are numbers.
LEMMA Numbers ==
  /\ Releases \subseteq Nat /\ Days \subseteq Nat /\ Codes \subseteq Nat /\ Open \in Nat
  /\ 1 \in Releases /\ 1 \in Days /\ Open \in 0..Open /\ \A t \in Days : t \in 0..Open /\ t - 1 \in 0..Open
BY CodesAssumption, BoundsAssumption DEF Releases, Days, Open

\* None is nothing else.
LEMMA NoneIsNone ==
  /\ None \notin MeasureIds /\ None \notin Measure /\ None \notin Revision /\ None \notin Proposed
BY NoneAssumption

\* The fields of a decision in progress, by its phase.
LEMMA DecisionShape ==
  ASSUME NEW f \in Decision
  PROVE  /\ f.pc \in {"idle", "read"} \cup Phases
         /\ f # Idle <=> f.pc # "idle"
         /\ f # Idle => f.on \in Subject
         /\ f.pc \in Phases =>
              /\ f.verdict \in {"approved", "rejected"} /\ f.resolves \in BOOLEAN
              /\ f.todo \in SUBSET Codes /\ f.skip \in SUBSET Codes /\ f.done \in SUBSET Codes
              /\ f.plan \in Plan /\ f.put \in Puts
BY DEF Decision, Idle, Phases, Puts

\* What is decided: a revision of a release, or its family.
LEMMA SubjectShape ==
  ASSUME NEW on \in Subject
  PROVE  on.rel \in Releases /\ on.code \in Codes \cup {Family} /\ on.index \in Nat
BY DEF Subject

\* A transaction goes on with another plan, or with what it has written.
LEMMA FrameShape ==
  ASSUME NEW f \in Decision, f.pc \in Phases
  PROVE  /\ \A pc \in Phases, plan \in Plan : [f EXCEPT !.pc = pc, !.plan = plan] \in Decision
         /\ \A pc \in Phases, res \in BOOLEAN : [f EXCEPT !.pc = pc, !.resolves = res] \in Decision
         /\ \A todo \in SUBSET Codes, done \in SUBSET Codes, put \in Puts :
              [f EXCEPT !.pc = "apply", !.todo = todo, !.done = done, !.plan = NoPlan, !.put = put]
                \in Decision
<1> DEFINE Transaction ==
      [pc : Phases, on : Subject, verdict : {"approved", "rejected"},
       todo : SUBSET Codes, skip : SUBSET Codes, done : SUBSET Codes,
       plan : Plan, put : Puts, resolves : BOOLEAN]
<1>1. f \in Transaction
  BY DEF Decision, Idle, Phases, Puts
<1>2. Transaction \subseteq Decision
  BY DEF Decision, Phases, Puts
<1>3. NoPlan \in Plan
  BY Numbers DEF NoPlan, Plan
<1>4. \A pc \in Phases, plan \in Plan : [f EXCEPT !.pc = pc, !.plan = plan] \in Transaction
  BY <1>1
<1>5. \A pc \in Phases, res \in BOOLEAN : [f EXCEPT !.pc = pc, !.resolves = res] \in Transaction
  BY <1>1
<1>6. ASSUME NEW todo \in SUBSET Codes, NEW done \in SUBSET Codes, NEW put \in Puts
      PROVE  [f EXCEPT !.pc = "apply", !.todo = todo, !.done = done, !.plan = NoPlan, !.put = put]
               \in Transaction
  BY <1>1, <1>3 DEF Phases
<1> HIDE DEF Transaction
<1> QED BY <1>2, <1>4, <1>5, <1>6

\* The fields of a sync in progress, by its phase.
LEMMA SyncShape ==
  ASSUME NEW f \in Sync
  PROVE  /\ f.pc \in {"idle", "state", "diff", "stage"}
         /\ f # Idle <=> f.pc # "idle"
         /\ f # Idle => f.rel \in Releases
         /\ f.pc = "state" => /\ f.live \in [Codes -> MeasureIds \cup {None}]
                              /\ f.content \in [Codes -> Contents \cup {Absent}]
         /\ f.pc \in {"diff", "stage"} =>
              /\ f.stage \in [Codes -> Proposed \cup {None}] /\ f.existing \in Nat
              /\ f.gone \in SUBSET Proposals /\ f.own \in SUBSET Proposals
BY DEF Sync, Idle

\* The fields of a row of the queue.
LEMMA RevisionShape ==
  ASSUME NEW r \in Revision
  PROVE  /\ r # None /\ r.change \in Change /\ r.target \in MeasureIds \cup {None}
         /\ r.content \in Contents \cup {Absent} /\ r.item \in Status \cup {"none"}
         /\ r.grouped \in BOOLEAN /\ r.applied \in BOOLEAN /\ r.superseded \in BOOLEAN
BY NoneIsNone DEF Revision

\* The fields of a measure; it stays one with another end.
LEMMA MeasureShape ==
  ASSUME NEW w \in Measure
  PROVE  /\ w # None /\ w.code \in Codes /\ w.code \in Nat /\ w.from \in Days /\ w.from \in Nat
         /\ w.to \in 0..Open /\ w.to \in Nat /\ w.content \in Contents
         /\ \A t \in 0..Open : [w EXCEPT !.to = t] \in Measure
BY NoneIsNone, Numbers DEF Measure

\* A staged revision is a pair of a release and a code.
LEMMA StagedShape ==
  ASSUME TypeOK, NEW p \in Staged
  PROVE  /\ p \in Proposals /\ revision[p] \in Revision /\ Exists(p)
         /\ p[1] \in Releases /\ p[2] \in Codes /\ p = <<p[1], p[2]>>
BY DEF TypeOK, Staged, Exists, Proposals

\* The revision of a code in a release exists iff it is staged.
LEMMA Proposal ==
  ASSUME NEW rel \in Releases, NEW c \in Codes
  PROVE  /\ <<rel, c>> \in Proposals /\ <<rel, c>>[1] = rel /\ <<rel, c>>[2] = c
         /\ Exists(<<rel, c>>) <=> <<rel, c>> \in Staged
BY DEF Proposals, Staged

\* The items of a family; the pending ones are among them.
LEMMA ItemsShape ==
  ASSUME TypeOK, NEW rel \in Releases
  PROVE  /\ familyItems[rel] \in Seq(Status) /\ Len(familyItems[rel]) \in Nat
         /\ DOMAIN familyItems[rel] = 1..Len(familyItems[rel])
         /\ PendingItems(rel) \subseteq 1..Len(familyItems[rel])
         /\ \A i \in PendingItems(rel) : i \in Nat /\ i # 0
BY DEF TypeOK, PendingItems

-----------------------------------------------------------------------------
(* The start, and steps that leave the tables alone.                       *)

\* The invariant holds at the start.
LEMMA ReviewInit == Init => ReviewInv
<1> SUFFICES ASSUME Init PROVE ReviewInv
  OBVIOUS
<1>1. measure \in [MeasureIds -> Measure \cup {None}]
  <2>1. ASSUME NEW i \in Tracked
        PROVE  [code |-> i, from |-> 1, to |-> Open, content |-> Initial] \in Measure
    BY TrackedAssumption, Numbers DEF Measure
  <2> QED BY <2>1 DEF Init
<1>2. TypeOK
  BY <1>1, Numbers DEF Init, TypeOK, Decision, Sync
<1>3. /\ Staged = {} /\ \A d \in Deciders : ~Busy(d) /\ decision[d].pc = "idle" /\ ~Writing(d)
      /\ \A s \in Syncs : ~Syncing(s) /\ sync[s] = Idle /\ sync[s].pc = "idle" /\ ~Knows(sync[s])
  BY DEF Init, Staged, Exists, Busy, Syncing, Knows, Writing, Idle
<1>4. /\ \A rel \in Releases : PendingItems(rel) = {} /\ familyItems[rel] = <<>> /\ ~NewestStaged(rel)
      /\ \A c \in Codes : OpenOf(c) = {}
  BY <1>3 DEF Init, PendingItems, NewestStaged, OpenOf
<1>5. Sound
  BY <1>2, <1>3, <1>4 DEF Init, Sound, RevisionsSound, FamiliesSound, SyncsSound, SyncSound, DecisionsSound,
     LocksApart
<1>6. Calm
  BY <1>3, <1>4 DEF Calm, SyncApart, SyncNewest, OlderClosed, OwnSuperseded, PendingLast, SyncsCalm, SyncCalm,
     OneFamilyItem, Unapplied, AllAccounted
<1>7. NothingStranded /\ EveryChangeProposed
  BY <1>3, <1>4 DEF NothingStranded, EveryChangeProposed
<1>8. TableTiles(measure)
  <2>1. ASSUME NEW c \in Codes, NEW i \in WindowsOf(measure, c)
        PROVE  i = c
    <3>1. i \in MeasureIds /\ measure[i] # None /\ measure[i].code = c
      BY DEF WindowsOf
    <3>2. i \in Tracked
      BY <3>1 DEF Init
    <3> QED BY <3>1, <3>2 DEF Init
  <2> QED BY <2>1 DEF TableTiles
<1>9. Orderly
  BY <1>3, <1>8 DEF Orderly, OneDecision, SubjectOpen, NewestFits, SyncsFit, SyncFits, ViewsTile
<1> QED BY <1>5, <1>6, <1>7, <1>9 DEF ReviewInv

\* What is derived from the tables is the same while they are.
LEMMA SameTables ==
  ASSUME UNCHANGED <<feed, tables>>
  PROVE  /\ UNCHANGED <<feed, measure, revision, familyItems, announcement>>
         /\ Staged' = Staged /\ Applied' = Applied
         /\ \A p : Exists(p)' <=> Exists(p)
         /\ \A p : IsOpen(p)' <=> IsOpen(p)
         /\ \A c : OpenOf(c)' = OpenOf(c) /\ LiveWindows(c)' = LiveWindows(c)
         /\ \A rel : /\ PendingItems(rel)' = PendingItems(rel) /\ Members(rel)' = Members(rel)
                     /\ NewestStaged(rel)' <=> NewestStaged(rel)
         /\ \A i, c : IsRowOf(i, c)' <=> IsRowOf(i, c)
         /\ \A p, rel : Accounted(p, rel)' <=> Accounted(p, rel)
<1>1. UNCHANGED <<feed, measure, revision, familyItems, announcement>>
  BY DEF tables
<1>2. Staged' = Staged /\ Applied' = Applied /\ \A p : Exists(p)' <=> Exists(p)
  BY <1>1 DEF Staged, Applied, Exists
<1>3. \A rel : PendingItems(rel)' = PendingItems(rel)
  BY <1>1 DEF PendingItems
<1>4. \A p : IsOpen(p)' <=> IsOpen(p)
  BY <1>1, <1>2, <1>3 DEF IsOpen
<1>5. \A c : OpenOf(c)' = OpenOf(c) /\ LiveWindows(c)' = LiveWindows(c)
  BY <1>1, <1>2, <1>4 DEF OpenOf, LiveWindows
<1>6. \A rel : Members(rel)' = Members(rel) /\ (NewestStaged(rel)' <=> NewestStaged(rel))
  BY <1>1, <1>2 DEF Members, NewestStaged
<1>7. /\ \A i, c : IsRowOf(i, c)' <=> IsRowOf(i, c)
      /\ \A p, rel : Accounted(p, rel)' <=> Accounted(p, rel)
  BY <1>1 DEF IsRowOf, Accounted
<1> QED BY <1>1, <1>2, <1>3, <1>4, <1>5, <1>6, <1>7

\* What the tables say of themselves.
LEMMA TablesKept ==
  ASSUME ReviewInv, UNCHANGED <<feed, tables>>, published' \in Releases, published <= published',
         mishaps \subseteq mishaps'
  PROVE  /\ RevisionsSound' /\ FamiliesSound'
         /\ Quiet' => Quiet /\ OlderClosed' /\ OwnSuperseded' /\ PendingLast'
         /\ NothingStranded' /\ EveryChangeProposed'
         /\ mishaps' = {} => mishaps = {} /\ TableTiles(measure)' /\ NewestFits'
<1>1. TypeOK /\ RevisionsSound /\ FamiliesSound
  BY DEF ReviewInv, Sound
<1>2. RevisionsSound'
  <2> SUFFICES ASSUME NEW p \in Staged
               PROVE  /\ WellFormed(revision[p], p[2])'
                      /\ revision[p].grouped => revision[p].item = "none" /\ revision[p].change = "create_measure"
                      /\ p[1] <= published' /\ announcement[p[1]] # "none"
    BY SameTables DEF RevisionsSound
  <2>1. WellFormed(revision[p], p[2])'
    BY <1>1, SameTables DEF RevisionsSound, WellFormed
  <2>2. p[1] \in Nat /\ published \in Nat /\ published' \in Nat
    BY <1>1, StagedShape, Numbers DEF TypeOK
  <2> QED BY <1>1, <2>1, <2>2 DEF RevisionsSound
<1>3. FamiliesSound'
  <2> SUFFICES ASSUME NEW rel \in Releases
               PROVE  /\ familyItems[rel] # <<>> => announcement[rel] # "none"
                      /\ announcement[rel] # "none" => rel <= published'
    BY SameTables DEF FamiliesSound
  <2>1. rel \in Nat /\ published \in Nat /\ published' \in Nat
    BY <1>1, Numbers DEF TypeOK
  <2> QED BY <1>1, <2>1 DEF FamiliesSound
<1>4. Quiet' => Quiet /\ OlderClosed' /\ OwnSuperseded' /\ PendingLast'
  BY SameTables DEF Quiet, ReviewInv, Calm, OlderClosed, OwnSuperseded, PendingLast
<1>5. NothingStranded'
  BY SameTables DEF ReviewInv, NothingStranded
<1>6. EveryChangeProposed'
  <2>1. CASE "race" \in mishaps'
    BY <2>1 DEF EveryChangeProposed
  <2>2. CASE "race" \notin mishaps
    BY <2>2, SameTables DEF ReviewInv, EveryChangeProposed
  <2> QED BY <2>1, <2>2
<1>7. mishaps' = {} => mishaps = {} /\ TableTiles(measure)' /\ NewestFits'
  BY SameTables DEF ReviewInv, Orderly, TableTiles, NewestFits, Fits
<1> QED BY <1>2, <1>3, <1>4, <1>5, <1>6, <1>7

-----------------------------------------------------------------------------
(* Steps that write only the frame of one decision.                        *)

\* The frames of the other decisions and of the syncs say the same of the
\* same tables.
LEMMA FramesKept ==
  ASSUME UNCHANGED <<feed, tables>>
  PROVE  /\ \A f : WritesSound(f)' <=> WritesSound(f)
         /\ \A on : SubjectSound(on)' <=> SubjectSound(on)
         /\ \A f : UnappliedIn(f)' <=> UnappliedIn(f)
         /\ \A f : Subjects(f)' = Subjects(f)
         /\ \A f : ViewTiles(f)' <=> ViewTiles(f)
         /\ \A f : SyncNewest(f)' <=> SyncNewest(f)
         /\ \A f : SyncCalm(f)' <=> SyncCalm(f)
         /\ \A f : SyncFits(f)' <=> SyncFits(f)
<1> USE SameTables
<1>1. \A f, i : Seen(f, i)' = Seen(f, i)
  BY DEF Seen
<1>2. \A f : PlanSound(f)' <=> PlanSound(f)
  BY <1>1 DEF PlanSound
<1>3. \A f : PutsSound(f)' <=> PutsSound(f)
  BY DEF PutsSound
<1>4. \A f : WritesSound(f)' <=> WritesSound(f)
  BY <1>2, <1>3 DEF WritesSound
<1>5. \A on : SubjectSound(on)' <=> SubjectSound(on)
  BY DEF SubjectSound
<1>6. \A f : UnappliedIn(f)' <=> UnappliedIn(f)
  BY DEF UnappliedIn
<1>7. \A f : Subjects(f)' = Subjects(f)
  BY DEF Subjects
<1>8. ASSUME NEW f
      PROVE  /\ MovesBack(f)' <=> MovesBack(f)
             /\ View(f)' = View(f)
             /\ PlanFits(f)' <=> PlanFits(f)
  <2>1. (MovesBack(f)' <=> MovesBack(f)) /\ View(f)' = View(f)
    BY <1>1 DEF MovesBack, View
  <2>2. revision' = revision /\ \A i : Seen(f, i)' = Seen(f, i)
    BY <1>1
  <2>3. \A c, eff, r : PlanFor(f, c, eff, r)' <=> PlanFor(f, c, eff, r)
    BY <2>2 DEF PlanFor
  <2>4. PlanFits(f)' <=> PlanFits(f)
    BY <2>2, <2>3 DEF PlanFits
  <2> QED BY <2>1, <2>4
<1>9. \A f : ViewTiles(f)' <=> ViewTiles(f)
  BY <1>8 DEF ViewTiles
<1>10. \A f : SyncNewest(f)' <=> SyncNewest(f)
  BY DEF SyncNewest
<1>11. \A f : SyncCalm(f)' <=> SyncCalm(f)
  <2>1. \A f, c : SyncFound(f, c)' <=> SyncFound(f, c)
    BY DEF SyncFound
  <2> QED BY <1>10, <2>1 DEF SyncCalm
<1>12. \A f : SyncFits(f)' <=> SyncFits(f)
  BY DEF SyncFits, Fits
<1> QED BY <1>4, <1>5, <1>6, <1>7, <1>9, <1>10, <1>11, <1>12

\* What a sync knows stays true when releases are published.
LEMMA SyncSoundKept ==
  ASSUME TypeOK, UNCHANGED <<feed, tables>>, published' \in Releases, published <= published',
         NEW f \in Sync, SyncSound(f)
  PROVE  SyncSound(f)'
<1>1. f # Idle => f.rel <= published'
  <2>1. f # Idle => f.rel \in Nat
    BY SyncShape, Numbers
  <2>2. published \in Nat /\ published' \in Nat
    BY Numbers DEF TypeOK
  <2> QED BY <2>1, <2>2 DEF SyncSound
<1> QED BY <1>1, SameTables DEF SyncSound, Knows, WellFormed

\* A decision that goes on is still about its subject; what it has locked and
\* written is locked and written by nobody else.
LEMMA ContinueSound ==
  ASSUME ReviewInv, NEW d \in Deciders, Busy(d), NEW frame \in Decision, Continues(d, frame),
         frame = Idle \/ (frame.pc \in Phases /\ frame.on = decision[d].on),
         frame.pc \in Phases => WritesSound(frame),
         frame.pc \in Phases => \A e \in Deciders \ {d} : Writing(e) =>
           /\ frame.on # decision[e].on
           /\ \A i \in MeasureIds : frame.put[i] = None \/ decision[e].put[i] = None
  PROVE  Sound'
<1>1. /\ decision' = [decision EXCEPT ![d] = frame]
      /\ UNCHANGED <<feed, published, tables, sync, effects, mishaps, bounds>>
  BY DEF Continues
<1>2. Sound /\ TypeOK
  BY DEF ReviewInv, Sound
<1>3. TypeOK'
  BY <1>1, <1>2 DEF TypeOK, tables, bounds
<1>4. decision'[d] = frame /\ \A e \in Deciders \ {d} : decision'[e] = decision[e]
  BY <1>1, <1>2 DEF TypeOK
<1>5. RevisionsSound' /\ FamiliesSound'
  <2>1. published' \in Releases /\ published <= published' /\ mishaps \subseteq mishaps'
    BY <1>1, <1>2, Numbers DEF TypeOK
  <2> QED BY <1>1, <2>1, TablesKept
<1>6. SyncsSound'
  <2>1. published' \in Releases /\ published <= published'
    BY <1>1, <1>2, Numbers DEF TypeOK
  <2> QED BY <1>1, <1>2, <2>1, SyncSoundKept DEF Sound, SyncsSound, TypeOK
<1>7. DecisionsSound'
  <2>1. ASSUME NEW e \in Deciders, Busy(e)' PROVE SubjectSound(decision[e].on)'
    <3>1. Busy(e) /\ decision'[e].on = decision[e].on
      BY <1>4, <2>1 DEF Busy
    <3> QED BY <1>1, <1>2, <3>1, FramesKept DEF Sound, DecisionsSound
  <2>2. ASSUME NEW e \in Deciders, Writing(e)' PROVE WritesSound(decision[e])'
    <3>1. WritesSound(decision'[e])
      BY <1>2, <1>4, <2>2 DEF Sound, DecisionsSound, Writing, Phases
    <3> QED BY <1>1, <3>1, FramesKept
  <2> QED BY <2>1, <2>2 DEF DecisionsSound
<1>8. LocksApart'
  BY <1>2, <1>4 DEF Sound, LocksApart, Writing, Phases
<1> QED BY <1>3, <1>5, <1>6, <1>7, <1>8 DEF Sound

\* A decision goes on: the part that holds until a sync overlaps.
LEMMA ContinueCalm ==
  ASSUME ReviewInv, NEW d \in Deciders, Busy(d), NEW frame \in Decision, Continues(d, frame),
         frame = Idle \/ (frame.pc \in Phases /\ frame.on = decision[d].on),
         Quiet /\ frame.pc \in Phases => UnappliedIn(frame) /\ Subjects(frame) \subseteq Subjects(decision[d])
  PROVE  Calm' /\ NothingStranded' /\ EveryChangeProposed'
<1>1. /\ decision' = [decision EXCEPT ![d] = frame]
      /\ UNCHANGED <<feed, published, tables, sync, effects, mishaps, bounds>>
  BY DEF Continues
<1>2. TypeOK /\ Calm
  BY DEF ReviewInv, Sound
<1>3. decision'[d] = frame /\ \A e \in Deciders \ {d} : decision'[e] = decision[e]
  BY <1>1, <1>2 DEF TypeOK
<1>4. published' \in Releases /\ published <= published' /\ mishaps \subseteq mishaps'
  BY <1>1, <1>2, Numbers DEF TypeOK
<1>5. SUFFICES ASSUME Quiet'
      PROVE  /\ SyncApart' /\ SyncsCalm'
             /\ OneFamilyItem' /\ Unapplied' /\ AllAccounted'
  BY <1>1, <1>4, TablesKept DEF Calm
<1>6. /\ Quiet /\ SyncApart /\ SyncsCalm /\ OneFamilyItem /\ Unapplied /\ AllAccounted
  BY <1>1, <1>2, <1>5 DEF Calm, Quiet
<1>7. \A e \in Deciders : Busy(e)' => Busy(e) /\ decision'[e].on = decision[e].on
  BY <1>3 DEF Busy
<1>8. SyncApart'
  BY <1>1, <1>6, <1>7 DEF SyncApart, Syncing
<1>10. SyncsCalm'
  BY <1>1, <1>6, FramesKept DEF SyncsCalm
<1>11. OneFamilyItem'
  <2>1. \A rel : PendingItems(rel)' = PendingItems(rel)
    BY <1>1, SameTables
  <2> SUFFICES ASSUME NEW e \in Deciders, Busy(e)', decision'[e].on.code = Family
               PROVE  /\ PendingItems(decision[e].on.rel)' \subseteq {decision'[e].on.index}
                      /\ \A b \in Deciders :
                           Busy(b)' /\ decision'[b].on.code = Family
                             /\ decision'[b].on.rel = decision'[e].on.rel
                           => decision'[b].on = decision'[e].on
    BY Zenon DEF OneFamilyItem
  <2>2. Busy(e) /\ decision'[e].on = decision[e].on
    BY <1>7
  <2>3. /\ PendingItems(decision[e].on.rel) \subseteq {decision[e].on.index}
        /\ \A b \in Deciders :
             Busy(b) /\ decision[b].on.code = Family /\ decision[b].on.rel = decision[e].on.rel
             => decision[b].on = decision[e].on
    BY <1>6, <2>2 DEF OneFamilyItem
  <2> QED BY <1>7, <2>1, <2>2, <2>3
<1>12. Unapplied'
  <2>1. ASSUME NEW e \in Deciders, Writing(e)' PROVE UnappliedIn(decision'[e])
    BY <1>3, <1>6, <2>1 DEF Unapplied, Writing, Phases
  <2> QED BY <1>1, <2>1, FramesKept DEF Unapplied
<1>13. AllAccounted'
  <2>1. ASSUME NEW e \in Deciders, Busy(e)' PROVE Subjects(decision'[e]) \subseteq Subjects(decision[e])
    <3>1. CASE e # d
      BY <1>3, <3>1
    <3>2. CASE e = d /\ frame.pc \in Phases
      BY <1>3, <1>6, <3>2
    <3> QED BY <1>3, <2>1, <3>1, <3>2 DEF Busy
  <2> QED BY <1>1, <1>6, <1>7, <2>1, SameTables, FramesKept DEF AllAccounted
<1> QED BY <1>8, <1>10, <1>11, <1>12, <1>13

\* A decision goes on: the part about the windows.
LEMMA ContinueOrderly ==
  ASSUME ReviewInv, NEW d \in Deciders, Busy(d), NEW frame \in Decision, Continues(d, frame),
         frame = Idle \/ (frame.pc \in Phases /\ frame.on = decision[d].on),
         mishaps = {} /\ frame.pc \in Phases =>
           ViewTiles(frame) /\ Subjects(frame) \subseteq Subjects(decision[d])
  PROVE  Orderly'
<1>1. /\ decision' = [decision EXCEPT ![d] = frame]
      /\ UNCHANGED <<feed, published, tables, sync, effects, mishaps, bounds>>
  BY DEF Continues
<1>2. TypeOK /\ Orderly
  BY DEF ReviewInv, Sound
<1>3. decision'[d] = frame /\ \A e \in Deciders \ {d} : decision'[e] = decision[e]
  BY <1>1, <1>2 DEF TypeOK
<1>4. published' \in Releases /\ published <= published' /\ mishaps \subseteq mishaps'
  BY <1>1, <1>2, Numbers DEF TypeOK
<1>5. SUFFICES ASSUME mishaps = {}
      PROVE  OneDecision' /\ SubjectOpen' /\ SyncsFit' /\ ViewsTile'
  BY <1>1, <1>4, TablesKept DEF Orderly
<1>6. OneDecision /\ SubjectOpen /\ SyncsFit /\ ViewsTile
  BY <1>2, <1>5 DEF Orderly
<1>7. \A e \in Deciders : Busy(e)' => Busy(e) /\ decision'[e].on = decision[e].on
  BY <1>3 DEF Busy
<1>8. OneDecision'
  BY <1>6, <1>7 DEF OneDecision
<1>9. SubjectOpen'
  <2>1. ASSUME NEW e \in Deciders, Busy(e)' PROVE Subjects(decision'[e]) \subseteq Subjects(decision[e])
    <3>1. CASE e # d
      BY <1>3, <3>1
    <3>2. CASE e = d /\ frame.pc \in Phases
      BY <1>3, <1>5, <3>2
    <3> QED BY <1>3, <2>1, <3>1, <3>2 DEF Busy
  <2> QED BY <1>1, <1>6, <1>7, <2>1, SameTables, FramesKept DEF SubjectOpen
<1>10. SyncsFit'
  BY <1>1, <1>6, FramesKept DEF SyncsFit
<1>11. ViewsTile'
  <2>1. ASSUME NEW e \in Deciders, Writing(e)' PROVE ViewTiles(decision'[e])
    BY <1>3, <1>5, <1>6, <2>1 DEF ViewsTile, Writing, Phases
  <2> QED BY <1>1, <2>1, FramesKept DEF ViewsTile
<1> QED BY <1>8, <1>9, <1>10, <1>11

-----------------------------------------------------------------------------
(* A decision starts.                                                      *)

\* While no sync has overlapped, what a person is shown as pending is open.
LEMMA ShownIsOpen ==
  ASSUME ReviewInv, Quiet
  PROVE  /\ \A p \in Staged : ~revision[p].applied /\ revision[p].item = "pending" => IsOpen(p)
         /\ \A rel \in Releases : PendingItems(rel) # {} => \A c \in Members(rel) : IsOpen(<<rel, c>>)
<1>1. TypeOK /\ RevisionsSound /\ OwnSuperseded
  BY DEF ReviewInv, Sound, Calm
<1>2. ASSUME NEW p \in Staged, ~revision[p].applied, revision[p].item = "pending" PROVE IsOpen(p)
  <2>1. Exists(p) /\ ~revision[p].grouped
    BY <1>1, <1>2, StagedShape DEF RevisionsSound
  <2> QED BY <1>1, <1>2, <2>1 DEF IsOpen, OwnSuperseded
<1>3. ASSUME NEW rel \in Releases, PendingItems(rel) # {}, NEW c \in Members(rel) PROVE IsOpen(<<rel, c>>)
  BY <1>3, Proposal DEF Members, IsOpen
<1> QED BY <1>2, <1>3

\* A decision begins.
LEMMA StartsKeeps ==
  ASSUME ReviewInv, NEW d \in Deciders, NEW on \in Subject, Starts(d, on), SubjectSound(on),
         Quiet /\ on.code # Family => IsOpen(<<on.rel, on.code>>),
         on.code = Family => on.index \in PendingItems(on.rel)
  PROVE  ReviewInv'
<1> DEFINE frame == [pc |-> "read", on |-> on]
<1>1. /\ decision[d] = Idle
      /\ decision' = [decision EXCEPT ![d] = frame]
      /\ mishaps' = mishaps \cup Mark("race", InProgress(sync, Syncs) # {})
                            \cup Mark("crossing", InProgress(decision, Deciders) # {})
      /\ decisions' = decisions + 1
      /\ UNCHANGED <<feed, published, tables, sync, effects, syncs>>
  BY DEF Starts
<1>2. Sound /\ TypeOK /\ Calm /\ Orderly
  BY DEF ReviewInv, Sound
<1>3. frame \in Decision
  BY DEF Decision
<1>4. mishaps \subseteq mishaps' /\ mishaps' \subseteq {"race", "crossing", "backdating"}
  BY <1>1, <1>2 DEF Mark, TypeOK
<1>5. TypeOK'
  BY <1>1, <1>2, <1>3, <1>4 DEF TypeOK, tables
<1>6. decision'[d] = frame /\ \A e \in Deciders \ {d} : decision'[e] = decision[e]
  BY <1>1, <1>2 DEF TypeOK
<1> HIDE DEF frame
<1>7. frame.pc = "read" /\ frame.on = on
  BY DEF frame
<1>8. on.rel \in Releases
  BY SubjectShape
<1>9. /\ \A e \in Deciders : Writing(e)' => e # d /\ Writing(e) /\ decision'[e] = decision[e]
      /\ \A e \in Deciders : Busy(e)' => e = d \/ (Busy(e) /\ decision'[e] = decision[e])
  BY <1>6, <1>7 DEF Writing, Busy
<1>10. published' \in Releases /\ published <= published'
  BY <1>1, <1>2, Numbers DEF TypeOK
<1>11. RevisionsSound' /\ FamiliesSound' /\ NothingStranded' /\ EveryChangeProposed'
  BY <1>1, <1>4, <1>10, TablesKept
<1>12. SyncsSound'
  BY <1>1, <1>2, <1>10, SyncSoundKept DEF Sound, SyncsSound, TypeOK
<1>13. DecisionsSound' /\ LocksApart'
  <2>1. DecisionsSound'
    BY <1>1, <1>2, <1>6, <1>7, <1>9, FramesKept DEF Sound, DecisionsSound
  <2>2. LocksApart'
    BY <1>2, <1>9 DEF Sound, LocksApart
  <2> QED BY <2>1, <2>2
<1>14. Subjects(frame) = IF on.code = Family THEN Members(on.rel) ELSE {on.code}
  BY <1>7 DEF Subjects
<1>15. Quiet => /\ \A c \in Subjects(frame) : IsOpen(<<on.rel, c>>) /\ <<on.rel, c>> \in Staged
  <2> SUFFICES ASSUME Quiet, NEW c \in Subjects(frame)
               PROVE  IsOpen(<<on.rel, c>>) /\ <<on.rel, c>> \in Staged
    OBVIOUS
  <2>1. c \in Codes
    BY <1>14, SubjectShape DEF Members
  <2>2. IsOpen(<<on.rel, c>>)
    BY <1>8, <1>14, ShownIsOpen
  <2> QED BY <1>8, <2>1, <2>2, Proposal DEF IsOpen
<1>16. Calm'
  <2> SUFFICES ASSUME Quiet'
               PROVE  /\ SyncApart' /\ OlderClosed' /\ OwnSuperseded' /\ PendingLast' /\ SyncsCalm'
                      /\ OneFamilyItem' /\ Unapplied' /\ AllAccounted'
    BY DEF Calm
  <2>1. OlderClosed' /\ OwnSuperseded' /\ PendingLast' /\ Quiet
    BY <1>1, <1>4, <1>10, TablesKept
  <2>2. /\ SyncApart /\ SyncsCalm /\ OneFamilyItem /\ Unapplied /\ AllAccounted /\ PendingLast
    BY <1>2, <2>1 DEF Calm
  <2>3. \A s \in Syncs : ~Syncing(s)
    BY <1>1 DEF Quiet, Mark, InProgress, Syncing
  <2>4. SyncApart'
    BY <1>1, <2>3 DEF SyncApart, Syncing
  <2>5. SyncsCalm'
    BY <1>1, <2>2, FramesKept DEF SyncsCalm
  <2>6. OneFamilyItem'
    <3> SUFFICES ASSUME NEW e \in Deciders, Busy(e)', decision'[e].on.code = Family
                 PROVE  /\ PendingItems(decision[e].on.rel)' \subseteq {decision'[e].on.index}
                        /\ \A b \in Deciders :
                             Busy(b)' /\ decision'[b].on.code = Family
                               /\ decision'[b].on.rel = decision'[e].on.rel
                             => decision'[b].on = decision'[e].on
      BY Zenon DEF OneFamilyItem
    <3>1. \A rel : PendingItems(rel)' = PendingItems(rel)
      BY <1>1, SameTables
    <3>2. ASSUME NEW b \in Deciders, Busy(b), decision[b].on.code = Family
          PROVE  /\ PendingItems(decision[b].on.rel) \subseteq {decision[b].on.index}
                 /\ on.code = Family /\ on.rel = decision[b].on.rel => on = decision[b].on
      <4>1. PendingItems(decision[b].on.rel) \subseteq {decision[b].on.index}
        BY <2>2, <3>2 DEF OneFamilyItem
      <4>2. decision[b].on \in Subject
        BY <1>2, <3>2, DecisionShape DEF TypeOK, Busy
      <4>3. on.code = Family /\ on.rel = decision[b].on.rel => on.index = decision[b].on.index
        BY <4>1
      <4>4. \A o1, o2 \in Subject : o1.rel = o2.rel /\ o1.code = o2.code /\ o1.index = o2.index => o1 = o2
        BY DEF Subject
      <4> QED BY <3>2, <4>1, <4>2, <4>3, <4>4
    <3>3. on.code = Family => PendingItems(on.rel) \subseteq {on.index}
      BY <1>8, <2>2 DEF PendingLast
    <3>4. \A b \in Deciders : Busy(b)' /\ decision'[b].on.code = Family =>
            \/ Busy(b) /\ decision'[b].on = decision[b].on /\ decision[b].on.code = Family
            \/ decision'[b].on = on /\ on.code = Family
      BY <1>6, <1>7, <1>9
    <3>5. \A a, b \in Deciders :
            Busy(a) /\ Busy(b) /\ decision[a].on.code = Family /\ decision[b].on.code = Family
              /\ decision[b].on.rel = decision[a].on.rel => decision[b].on = decision[a].on
      BY <2>2 DEF OneFamilyItem
    <3>6. PendingItems(decision'[e].on.rel) \subseteq {decision'[e].on.index}
      BY <3>2, <3>3, <3>4
    <3> QED BY <3>1, <3>2, <3>4, <3>5, <3>6
  <2>7. Unapplied'
    BY <1>1, <1>9, <2>2, FramesKept DEF Unapplied
  <2>8. AllAccounted'
    <3> SUFFICES ASSUME NEW rel \in Releases, NewestStaged(rel)
                 PROVE  /\ \A p \in Staged : IsOpen(p) => Accounted(p, rel)
                        /\ \A e \in Deciders : Busy(e)' =>
                             \A c \in Subjects(decision'[e]) : Accounted(<<decision'[e].on.rel, c>>, rel)
      BY <1>1, SameTables, FramesKept DEF AllAccounted
    <3>1. /\ \A p \in Staged : IsOpen(p) => Accounted(p, rel)
          /\ \A e \in Deciders : Busy(e) =>
               \A c \in Subjects(decision[e]) : Accounted(<<decision[e].on.rel, c>>, rel)
      BY <2>2 DEF AllAccounted
    <3>2. \A c \in Subjects(frame) : Accounted(<<on.rel, c>>, rel)
      BY <1>15, <2>1, <3>1
    <3> QED BY <1>6, <1>7, <1>9, <3>1, <3>2
  <2> QED BY <2>1, <2>4, <2>5, <2>6, <2>7, <2>8
<1>17. Orderly'
  <2> SUFFICES ASSUME mishaps' = {}
               PROVE  /\ OneDecision' /\ SubjectOpen' /\ TableTiles(measure)' /\ NewestFits'
                      /\ SyncsFit' /\ ViewsTile'
    BY DEF Orderly
  <2>1. mishaps = {} /\ TableTiles(measure)' /\ NewestFits'
    BY <1>1, <1>4, <1>10, TablesKept
  <2>2. OneDecision /\ SubjectOpen /\ SyncsFit /\ ViewsTile /\ Quiet
    BY <1>2, <2>1 DEF Orderly, Quiet
  <2>3. \A e \in Deciders : ~Busy(e)
    BY <1>1 DEF Mark, InProgress, Busy
  <2>4. \A e \in Deciders : Busy(e)' => e = d
    BY <1>9, <2>3
  <2>5. OneDecision' /\ ViewsTile'
    BY <1>9, <2>3, <2>4, DecisionShape, <1>2 DEF OneDecision, ViewsTile, Writing, Busy, Idle
  <2>6. SubjectOpen'
    BY <1>1, <1>6, <1>7, <1>15, <2>2, <2>4, SameTables, FramesKept DEF SubjectOpen
  <2>7. SyncsFit'
    BY <1>1, <2>2, FramesKept DEF SyncsFit
  <2> QED BY <2>1, <2>5, <2>6, <2>7
<1> QED BY <1>5, <1>11, <1>12, <1>13, <1>16, <1>17 DEF ReviewInv, Sound

\* A PATCH of a revision begins.
LEMMA ReadRevisionKeeps ==
  ASSUME ReviewInv, NEW d \in Deciders, ReadRevision(d) PROVE ReviewInv'
<1>1. TypeOK /\ RevisionsSound
  BY DEF ReviewInv, Sound
<1>2. PICK p \in Staged : /\ ~revision[p].applied /\ revision[p].item = "pending"
                          /\ Starts(d, [rel |-> p[1], code |-> p[2], index |-> 0])
  BY DEF ReadRevision
<1> DEFINE on == [rel |-> p[1], code |-> p[2], index |-> 0]
<1>3. on \in Subject /\ on.code # Family /\ <<on.rel, on.code>> = p
  BY <1>1, StagedShape, DistinctAssumption DEF Subject
<1>4. SubjectSound(on)
  BY <1>1, <1>2, <1>3, StagedShape DEF SubjectSound, RevisionsSound
<1>5. Quiet => IsOpen(<<on.rel, on.code>>)
  BY <1>2, <1>3, ShownIsOpen
<1> HIDE DEF on
<1>6. Starts(d, on)
  BY <1>2 DEF on
<1> QED BY <1>3, <1>4, <1>5, <1>6, StartsKeeps

\* A PATCH of a family begins.
LEMMA ReadFamilyKeeps ==
  ASSUME ReviewInv, NEW d \in Deciders, ReadFamily(d) PROVE ReviewInv'
<1>1. TypeOK
  BY DEF ReviewInv, Sound
<1>2. PICK rel \in Releases :
        \E i \in PendingItems(rel) : Starts(d, [rel |-> rel, code |-> Family, index |-> i])
  BY DEF ReadFamily
<1>0. PICK i \in PendingItems(rel) : Starts(d, [rel |-> rel, code |-> Family, index |-> i])
  BY <1>2
<1> DEFINE on == [rel |-> rel, code |-> Family, index |-> i]
<1>3. on \in Subject /\ on.code = Family /\ on.rel = rel /\ on.index = i
  BY <1>1, ItemsShape DEF Subject
<1>4. SubjectSound(on)
  BY <1>1, <1>0, <1>3, ItemsShape DEF SubjectSound
<1> HIDE DEF on
<1>5. Starts(d, on)
  BY <1>0 DEF on
<1> QED BY <1>3, <1>4, <1>5, StartsKeeps

-----------------------------------------------------------------------------
(* A decision is taken: its transaction begins.                            *)

\* A decision becomes a transaction.
LEMMA DecidingKeeps ==
  ASSUME ReviewInv, NEW d \in Deciders, decision[d].pc = "read",
         NEW verdict \in {"approved", "rejected"}, NEW todo \in SUBSET Codes, NEW skip \in SUBSET Codes,
         Deciding(d, verdict, todo, skip), Free(d, {ItemRow(decision[d].on)}),
         todo \cap skip = {}, \A c \in todo \cup skip : Exists(<<decision[d].on.rel, c>>),
         decision[d].on.code # Family =>
           skip = {} /\ todo = IF verdict = "approved" THEN {decision[d].on.code} ELSE {},
         verdict = "rejected" => todo = {} /\ skip = {},
         \A c \in todo : ~revision[<<decision[d].on.rel, c>>].applied,
         decision[d].on.code = Family =>
           /\ \A c \in todo \cup skip : revision[<<decision[d].on.rel, c>>].grouped
           /\ verdict = "approved" => Members(decision[d].on.rel) \subseteq todo \cup skip,
         todo \subseteq Subjects(decision[d])
  PROVE  ReviewInv'
<1> DEFINE frame == [pc |-> "apply", on |-> decision[d].on, verdict |-> verdict,
                     todo |-> todo, skip |-> skip, done |-> {}, plan |-> NoPlan,
                     put |-> NoWrites, resolves |-> FALSE]
<1>1. TypeOK /\ Orderly
  BY DEF ReviewInv, Sound
<1>2. Busy(d) /\ decision[d].on \in Subject
  BY <1>1, DecisionShape DEF TypeOK, Busy
<1>3. Continues(d, frame)
  BY DEF Deciding
<1>4. frame \in Decision
  <2>1. NoPlan \in Plan /\ NoWrites \in Puts
    BY Numbers DEF NoPlan, Plan, NoWrites, Puts
  <2> QED BY <1>2, <2>1 DEF Decision, Puts
<1>5. /\ frame.pc = "apply" /\ frame.on = decision[d].on /\ frame.verdict = verdict
      /\ frame.todo = todo /\ frame.done = {} /\ frame.skip = skip
      /\ \A i \in MeasureIds : frame.put[i] = None
  BY DEF NoWrites
<1> HIDE DEF frame
<1>6. frame.pc \in Phases /\ frame.pc # "write" /\ frame.pc # "commit" /\ frame.pc # "read"
  BY <1>5 DEF Phases
<1>7. WritesSound(frame)
  BY <1>5, <1>6 DEF WritesSound, PutsSound
<1>8. \A e \in Deciders \ {d} : Writing(e) =>
        /\ frame.on # decision[e].on
        /\ \A i \in MeasureIds : frame.put[i] = None \/ decision[e].put[i] = None
  BY <1>5 DEF Free, HeldBy
<1>9. Sound'
  BY <1>2, <1>3, <1>4, <1>5, <1>6, <1>7, <1>8, ContinueSound
<1>10. Subjects(frame) = todo
  BY <1>5, <1>6 DEF Subjects
<1>11. UnappliedIn(frame)
  BY <1>5 DEF UnappliedIn
<1>12. Calm' /\ NothingStranded' /\ EveryChangeProposed'
  BY <1>2, <1>3, <1>4, <1>5, <1>6, <1>10, <1>11, ContinueCalm
<1>13. mishaps = {} => ViewTiles(frame)
  <2>1. View(frame) = measure
    BY <1>1, <1>5 DEF TypeOK, View, Seen
  <2> QED BY <1>1, <1>6, <2>1 DEF ViewTiles, Orderly
<1>14. Orderly'
  BY <1>2, <1>3, <1>4, <1>5, <1>6, <1>10, <1>13, ContinueOrderly
<1> QED BY <1>9, <1>12, <1>14 DEF ReviewInv

\* A rejection.
LEMMA RejectKeeps ==
  ASSUME ReviewInv, NEW d \in Deciders, Reject(d) PROVE ReviewInv'
BY DecidingKeeps DEF Reject

\* The approval of one revision.
LEMMA ApproveRevisionKeeps ==
  ASSUME ReviewInv, NEW d \in Deciders, ApproveRevision(d) PROVE ReviewInv'
<1> DEFINE on == decision[d].on
<1>1. TypeOK /\ DecisionsSound
  BY DEF ReviewInv, Sound
<1>2. /\ decision[d].pc = "read" /\ on.code # Family
      /\ Free(d, {ItemRow(on), RevisionRow(<<on.rel, on.code>>)})
      /\ ~revision[<<on.rel, on.code>>].applied
      /\ Deciding(d, "approved", {on.code}, {})
  BY DEF ApproveRevision
<1>3. Busy(d) /\ on \in Subject /\ SubjectSound(on)
  BY <1>1, <1>2, DecisionShape DEF TypeOK, Busy, DecisionsSound
<1>4. on.code \in Codes /\ Exists(<<on.rel, on.code>>)
  BY <1>2, <1>3, SubjectShape DEF SubjectSound
<1>5. Free(d, {ItemRow(on)})
  BY <1>2 DEF Free
<1>6. Subjects(decision[d]) = {on.code}
  BY <1>2 DEF Subjects
<1> QED BY <1>2, <1>4, <1>5, <1>6, DecidingKeeps

\* The approval of a family, less what is skipped.
LEMMA ApproveFamilyKeeps ==
  ASSUME ReviewInv, NEW d \in Deciders, ApproveFamily(d) PROVE ReviewInv'
<1> DEFINE on == decision[d].on
<1>1. decision[d].pc = "read" /\ on.code = Family
  BY DEF ApproveFamily
<1>2. PICK skip \in SUBSET Members(on.rel) :
        /\ Free(d, {ItemRow(on)} \cup {RevisionRow(<<on.rel, c>>) : c \in skip})
        /\ Deciding(d, "approved", Members(on.rel) \ skip, skip)
  BY DEF ApproveFamily
<1>3. Free(d, {ItemRow(on)})
  BY <1>2 DEF Free
<1>4. /\ Members(on.rel) \subseteq Codes
      /\ \A c \in Members(on.rel) : /\ Exists(<<on.rel, c>>) /\ revision[<<on.rel, c>>].grouped
                                    /\ ~revision[<<on.rel, c>>].applied
  BY DEF Members
<1>5. Subjects(decision[d]) = Members(on.rel)
  BY <1>1 DEF Subjects
<1> DEFINE todo == Members(on.rel) \ skip
<1>6. /\ todo \in SUBSET Codes /\ skip \in SUBSET Codes /\ todo \cap skip = {}
      /\ todo \cup skip = Members(on.rel) /\ todo \subseteq Members(on.rel)
  BY <1>4
<1>7. Deciding(d, "approved", todo, skip)
  BY <1>2
<1> HIDE DEF todo, on
<1> QED BY <1>1, <1>3, <1>4, <1>5, <1>6, <1>7, DecidingKeeps DEF on

-----------------------------------------------------------------------------
(* A transaction goes on without writing.                                  *)

\* A decision that fails changes nothing.
LEMMA AbortKeeps ==
  ASSUME ReviewInv, NEW d \in Deciders, Abort(d) PROVE ReviewInv'
<1>1. Busy(d) /\ Continues(d, Idle)
  BY DEF Abort, Busy
<1>2. Idle \in Decision /\ Idle.pc \notin Phases
  BY DEF Decision, Idle, Phases
<1>3. Sound'
  BY <1>1, <1>2, ContinueSound
<1>4. Calm' /\ NothingStranded' /\ EveryChangeProposed'
  BY <1>1, <1>2, ContinueCalm
<1>5. Orderly'
  BY <1>1, <1>2, ContinueOrderly
<1> QED BY <1>3, <1>4, <1>5 DEF ReviewInv

\* A transaction plans its next write, or has made its last one.
LEMMA SameWritesKeeps ==
  ASSUME ReviewInv, NEW d \in Deciders, Writing(d),
         NEW frame \in Decision, frame.pc \in {"write", "commit"}, Continues(d, frame),
         frame.on = decision[d].on, frame.verdict = decision[d].verdict,
         frame.todo = decision[d].todo, frame.skip = decision[d].skip, frame.done = decision[d].done,
         frame.put = decision[d].put,
         frame.pc = "commit" => frame.todo = {},
         frame.pc = "write" => PlanSound(frame) /\ PlanFits(frame)
  PROVE  ReviewInv'
<1> DEFINE f == decision[d]
<1>1. TypeOK /\ DecisionsSound /\ LocksApart /\ Calm /\ Orderly
  BY DEF ReviewInv, Sound
<1>2. /\ Busy(d) /\ f.pc \in Phases /\ WritesSound(f)
      /\ frame.pc \in Phases /\ frame.pc # "read" /\ f.pc # "read"
  BY <1>1, DecisionShape DEF TypeOK, Busy, Writing, Phases, DecisionsSound
<1>3. WritesSound(frame)
  BY <1>2 DEF WritesSound, PutsSound
<1>4. Sound'
  BY <1>1, <1>2, <1>3, ContinueSound DEF LocksApart
<1>5. Subjects(frame) = Subjects(f)
  BY <1>2 DEF Subjects
<1>6. Quiet => UnappliedIn(frame)
  BY <1>1 DEF Calm, Unapplied, UnappliedIn
<1>7. Calm' /\ NothingStranded' /\ EveryChangeProposed'
  BY <1>2, <1>5, <1>6, ContinueCalm
<1>8. mishaps = {} => ViewTiles(frame)
  <2>1. View(frame) = View(f) /\ (MovesBack(frame) <=> MovesBack(f))
    BY DEF View, Seen, MovesBack
  <2> QED BY <1>1, <2>1 DEF ViewTiles, Orderly, ViewsTile
<1>9. Orderly'
  BY <1>2, <1>5, <1>8, ContinueOrderly
<1> QED BY <1>4, <1>7, <1>9 DEF ReviewInv

\* A transaction looks whether its announcement is done.
LEMMA ResolveKeeps ==
  ASSUME ReviewInv, NEW d \in Deciders, Resolve(d) PROVE ReviewInv'
<1> DEFINE f == decision[d]
           rel == f.on.rel
           res == \A c \in Codes : Exists(<<rel, c>>) =>
                    Terminal(RevisionAfter(d)[<<rel, c>>], ItemsAfter(d)[rel])
           frame == [f EXCEPT !.pc = "commit", !.resolves = res]
<1>1. f.pc = "apply" /\ f.todo = {} /\ Continues(d, frame)
  BY DEF Resolve
<1>2. f \in Decision /\ Writing(d) /\ f.pc \in Phases
  BY <1>1 DEF ReviewInv, Sound, TypeOK, Writing, Phases
<1>3. res \in BOOLEAN
  OBVIOUS
<1>4. frame \in Decision
  <2> HIDE DEF res
  <2> QED BY <1>2, <1>3, FrameShape DEF Phases
<1>5. /\ frame.pc = "commit" /\ frame.on = f.on /\ frame.verdict = f.verdict
      /\ frame.todo = f.todo /\ frame.skip = f.skip /\ frame.done = f.done /\ frame.put = f.put
  BY <1>1, <1>2 DEF Decision, Idle
<1> HIDE DEF frame
<1> QED BY <1>1, <1>2, <1>4, <1>5, SameWritesKeeps

\* A row of a code stays a row of that code in the view of a transaction.
LEMMA SeenRow ==
  ASSUME NEW f, PutsSound(f), NEW i \in MeasureIds
  PROVE  \A c : IsRowOf(i, c) => Seen(f, i) # None /\ Seen(f, i).code = c
BY DEF PutsSound, Seen, IsRowOf

\* The plan for the next code.
LEMMA PlanKeeps ==
  ASSUME ReviewInv, NEW d \in Deciders, decision[d].pc = "apply", NEW plan \in Plan,
         Continues(d, [decision[d] EXCEPT !.pc = "write", !.plan = plan]),
         \A frame : frame.put = decision[d].put /\ frame.todo = decision[d].todo
                      /\ frame.on = decision[d].on /\ frame.plan = plan
                    => PlanSound(frame) /\ PlanFits(frame)
  PROVE  ReviewInv'
<1> DEFINE f == decision[d]
           frame == [f EXCEPT !.pc = "write", !.plan = plan]
<1>1. f \in Decision /\ Writing(d) /\ f.pc \in Phases
  BY DEF ReviewInv, Sound, TypeOK, Writing, Phases
<1>2. frame \in Decision
  BY <1>1, FrameShape DEF Phases
<1>3. /\ frame.pc = "write" /\ frame.on = f.on /\ frame.verdict = f.verdict /\ frame.plan = plan
      /\ frame.todo = f.todo /\ frame.skip = f.skip /\ frame.done = f.done /\ frame.put = f.put
  BY <1>1 DEF Decision, Idle
<1>4. Continues(d, frame)
  OBVIOUS
<1> HIDE DEF frame
<1> QED BY <1>1, <1>2, <1>3, <1>4, SameWritesKeeps

\* Each of the three kinds of plan.
LEMMA PlanMemberKeeps ==
  ASSUME ReviewInv, NEW d \in Deciders, PlanMember(d) PROVE ReviewInv'
<1> DEFINE f == decision[d]
<1>1. TypeOK /\ RevisionsSound /\ DecisionsSound
  BY DEF ReviewInv, Sound
<1>2. f.pc = "apply"
  BY DEF PlanMember
<1>3. PICK c \in Codes, day \in Days :
        /\ IsNext(c, f.todo)
        /\ LET r == revision[<<f.on.rel, c>>] IN
           \/ r.change = "create_measure" /\ PlanCreate(d, c, r.content, day)
           \/ r.change = "rate_change" /\ PlanChange(d, c, r.target, r.content, day)
           \/ r.change = "end_measure" /\ PlanEnd(d, r.target, day)
  BY DEF PlanMember
<1> DEFINE r == revision[<<f.on.rel, c>>]
<1>4. f \in Decision /\ Writing(d) /\ Busy(d) /\ f.on.rel \in Releases
  BY <1>1, <1>2, DecisionShape, SubjectShape DEF TypeOK, Writing, Busy
<1>5. WritesSound(f) /\ PutsSound(f) /\ c \in f.todo /\ Exists(<<f.on.rel, c>>)
  BY <1>1, <1>3, <1>4 DEF DecisionsSound, WritesSound, IsNext
<1>6. r \in Revision /\ WellFormed(r, c)
  <2>1. <<f.on.rel, c>> \in Staged
    BY <1>4, <1>5, Proposal
  <2> QED BY <1>1, <1>4, <2>1, StagedShape, Proposal DEF RevisionsSound
<1>7. \A i : Row(d, i) = Seen(f, i)
  BY DEF Row, Seen
<1>8. /\ r.change \in Change
      /\ r.change # "create_measure" => r.target \in MeasureIds /\ Seen(f, r.target) # None
                                        /\ Seen(f, r.target).code = c
      /\ r.change # "end_measure" => r.content \in Contents
  BY <1>5, <1>6, RevisionShape, SeenRow DEF WellFormed, IsRowOf
<1> DEFINE new == [code |-> c, from |-> day, to |-> Open, content |-> r.content]
<1>9. day \in 0..Open /\ day - 1 \in 0..Open
  BY Numbers
<1>10. r.change # "end_measure" => new \in Measure /\ new # None /\ new.code = c
  BY <1>8, Numbers, NoneIsNone DEF Measure
<1>11. \A g, i : g.put = f.put => Seen(g, i) = Seen(f, i)
  BY DEF Seen
<1>12. CASE r.change = "create_measure" /\ PlanCreate(d, c, r.content, day)
  <2> DEFINE shut == Conflicts(d, c, day)
             plan == [shut |-> shut, at |-> day - 1, fix |-> None, window |-> new]
  <2>1. Continues(d, [f EXCEPT !.pc = "write", !.plan = plan])
    BY <1>12 DEF PlanCreate
  <2>2. shut \subseteq MeasureIds /\ \A i \in shut : Seen(f, i) # None /\ Seen(f, i).to >= day
    BY <1>7 DEF Conflicts
  <2> HIDE DEF shut, new
  <2>3. plan \in Plan
    BY <1>9, <1>10, <1>12, <2>2 DEF Plan
  <2>4. /\ plan.shut = shut /\ plan.at = day - 1 /\ plan.fix = None /\ plan.window = new
    OBVIOUS
  <2> HIDE DEF plan, r
  <2>5. ASSUME NEW g, g.put = f.put, g.todo = f.todo, g.on = f.on, g.plan = plan
        PROVE  PlanSound(g) /\ PlanFits(g)
    <3>1. PlanSound(g)
      BY <1>3, <1>10, <1>11, <1>12, <2>2, <2>4, <2>5 DEF PlanSound
    <3>2. PlanFor(g, c, day, r)
      BY <1>11, <1>12, <2>2, <2>4, <2>5 DEF PlanFor, new
    <3> QED BY <1>3, <2>5, <3>1, <3>2 DEF PlanFits, r
  <2> QED BY <1>2, <2>1, <2>3, <2>5, PlanKeeps
<1>13. CASE r.change = "rate_change" /\ PlanChange(d, c, r.target, r.content, day)
  <2> DEFINE live == Row(d, r.target)
             tiles == day > live.from
             plan == [shut |-> IF tiles /\ live.to >= day THEN {r.target} ELSE {}, at |-> day - 1,
                      fix |-> IF tiles THEN None ELSE r.target, window |-> new]
  <2>1. Continues(d, [f EXCEPT !.pc = "write", !.plan = plan])
    BY <1>13 DEF PlanChange
  <2>0. live = Seen(f, r.target)
    BY <1>7
  <2> HIDE DEF live
  <2>2. plan \in Plan
    <3> HIDE DEF new, r
    <3> QED BY <1>8, <1>9, <1>10, <1>13 DEF Plan
  <2>3. /\ plan.shut = IF tiles /\ live.to >= day THEN {r.target} ELSE {}
        /\ plan.at = day - 1 /\ plan.fix = (IF tiles THEN None ELSE r.target) /\ plan.window = new
    OBVIOUS
  <2> HIDE DEF plan, r, new
  <2>4. ASSUME NEW g, g.put = f.put, g.todo = f.todo, g.on = f.on, g.plan = plan
        PROVE  PlanSound(g) /\ PlanFits(g)
    <3>1. PlanSound(g)
      BY <1>3, <1>8, <1>10, <1>11, <1>13, <2>3, <2>4 DEF PlanSound
    <3>2. PlanFor(g, c, day, r)
      BY <1>11, <1>13, <2>0, <2>3, <2>4 DEF PlanFor, new
    <3> QED BY <1>3, <2>4, <3>1, <3>2 DEF PlanFits, r
  <2> QED BY <1>2, <2>1, <2>2, <2>4, PlanKeeps
<1>14. CASE r.change = "end_measure" /\ PlanEnd(d, r.target, day)
  <2> DEFINE plan == [shut |-> {r.target}, at |-> day, fix |-> None, window |-> None]
  <2>1. Continues(d, [f EXCEPT !.pc = "write", !.plan = plan])
    BY <1>14 DEF PlanEnd
  <2>2. plan \in Plan
    <3> HIDE DEF r
    <3> QED BY <1>8, <1>9, <1>14 DEF Plan
  <2>3. plan.shut = {r.target} /\ plan.fix = None /\ plan.window = None
    OBVIOUS
  <2> HIDE DEF plan, r
  <2>4. ASSUME NEW g, g.put = f.put, g.todo = f.todo, g.on = f.on, g.plan = plan
        PROVE  PlanSound(g) /\ PlanFits(g)
    <3>1. PlanSound(g)
      BY <1>8, <1>11, <1>14, <2>3, <2>4 DEF PlanSound
    <3>2. PlanFor(g, c, day, r)
      BY <1>14, <2>3, <2>4 DEF PlanFor
    <3> QED BY <1>3, <2>4, <3>1, <3>2 DEF PlanFits, r
  <2> QED BY <1>2, <2>1, <2>2, <2>4, PlanKeeps
<1> QED BY <1>3, <1>12, <1>13, <1>14

-----------------------------------------------------------------------------
(* A transaction writes.                                                   *)

\* The writes of f once the windows of its plan are closed.
Closing(f) ==
  [i \in MeasureIds |->
     IF i \in f.plan.shut THEN [Seen(f, i) EXCEPT !.to = f.plan.at] ELSE f.put[i]]

\* put: its writes once the window of its plan is at x.
WritesTo(f, x, put) ==
  /\ put \in Puts /\ x \in MeasureIds \cup {None}
  /\ (x = None) <=> (f.plan.window = None)
  /\ x # None => put[x] = f.plan.window /\ (x = f.plan.fix \/ (f.plan.fix = None /\ ~InUse(x)))
  /\ \A i \in MeasureIds : i # x => put[i] = Closing(f)[i]

\* The rows that a plan closes keep everything but their end.
LEMMA ClosingShape ==
  ASSUME TypeOK, NEW f \in Decision, f.pc \in Phases, PlanSound(f)
  PROVE  /\ Closing(f) \in Puts
         /\ \A i \in f.plan.shut :
              /\ i \in MeasureIds /\ Seen(f, i) \in Measure /\ Closing(f)[i] \in Measure
              /\ Closing(f)[i].code = Seen(f, i).code /\ Closing(f)[i].from = Seen(f, i).from
              /\ Closing(f)[i].content = Seen(f, i).content /\ Closing(f)[i].to = f.plan.at
         /\ \A i \in MeasureIds \ f.plan.shut : Closing(f)[i] = f.put[i]
<1>1. /\ f.plan.shut \subseteq MeasureIds /\ f.plan.at \in 0..Open
      /\ f.put \in Puts /\ measure \in Puts
  BY DecisionShape DEF Plan, TypeOK, Puts
<1>2. ASSUME NEW i \in f.plan.shut
      PROVE  /\ i \in MeasureIds /\ Seen(f, i) \in Measure
             /\ Closing(f)[i] = [Seen(f, i) EXCEPT !.to = f.plan.at]
  <2>1. i \in MeasureIds /\ Seen(f, i) # None
    BY <1>1 DEF PlanSound
  <2>2. Seen(f, i) \in Measure
    BY <1>1, <2>1 DEF Seen, Puts
  <2> QED BY <2>1, <2>2 DEF Closing
<1>3. \A i \in MeasureIds \ f.plan.shut : Closing(f)[i] = f.put[i]
  BY DEF Closing
<1>4. \A w \in Measure : LET v == [w EXCEPT !.to = f.plan.at] IN
        /\ v \in Measure /\ v.code = w.code /\ v.from = w.from /\ v.content = w.content
        /\ v.to = f.plan.at
  BY <1>1 DEF Measure
<1>5. Closing(f) \in Puts
  <2>1. ASSUME NEW i \in MeasureIds PROVE Closing(f)[i] \in Measure \cup {None}
    <3>1. CASE i \in f.plan.shut
      BY <1>2, <1>4, <3>1
    <3>2. CASE i \notin f.plan.shut
      <4>1. Closing(f)[i] = f.put[i]
        BY <1>3, <3>2
      <4> QED BY <1>1, <4>1 DEF Puts
    <3> QED BY <3>1, <3>2
  <2>2. Closing(f) = [i \in MeasureIds |-> Closing(f)[i]]
    BY DEF Closing
  <2> QED BY <2>1, <2>2 DEF Puts
<1>6. ASSUME NEW i \in f.plan.shut
      PROVE  /\ i \in MeasureIds /\ Seen(f, i) \in Measure /\ Closing(f)[i] \in Measure
             /\ Closing(f)[i].code = Seen(f, i).code /\ Closing(f)[i].from = Seen(f, i).from
             /\ Closing(f)[i].content = Seen(f, i).content /\ Closing(f)[i].to = f.plan.at
  <2>1. i \in MeasureIds /\ Seen(f, i) \in Measure
    BY <1>2
  <2>2. Closing(f)[i] = [Seen(f, i) EXCEPT !.to = f.plan.at]
    BY <1>2
  <2> QED BY <1>4, <2>1, <2>2
<1> QED BY <1>3, <1>5, <1>6

\* What a member writes.
LEMMA WriteMemberWrites ==
  ASSUME ReviewInv, NEW d \in Deciders, WriteMember(d)
  PROVE  LET f == decision[d] IN
         \E c \in Codes, x \in MeasureIds \cup {None}, put \in Puts :
           /\ IsNext(c, f.todo) /\ WritesTo(f, x, put)
           /\ Continues(d, [f EXCEPT !.pc = "apply", !.todo = @ \ {c}, !.done = @ \cup {c},
                                     !.plan = NoPlan, !.put = put])
<1> DEFINE f == decision[d]
           closed == [i \in MeasureIds |->
                   IF i \in f.plan.shut THEN [Row(d, i) EXCEPT !.to = f.plan.at] ELSE f.put[i]]
           Written(c, put) ==
             Continues(d, [f EXCEPT !.pc = "apply", !.todo = @ \ {c}, !.done = @ \cup {c},
                               !.plan = NoPlan, !.put = put])
<1>1. f.pc = "write" /\ f \in Decision /\ f.pc \in Phases /\ TypeOK /\ PlanSound(f)
  BY DEF WriteMember, ReviewInv, Sound, TypeOK, Phases, DecisionsSound, WritesSound, Writing
<1>2. closed = Closing(f)
  BY DEF Closing, Row, Seen
<1>3. PICK c \in Codes :
        /\ IsNext(c, f.todo) /\ Free(d, {RevisionRow(<<f.on.rel, c>>)})
        /\ \/ f.plan.window = None /\ Written(c, closed)
           \/ f.plan.fix # None /\ Written(c, [closed EXCEPT ![f.plan.fix] = f.plan.window])
           \/ /\ f.plan.window # None /\ f.plan.fix = None
              /\ \E i \in MeasureIds :
                   /\ ~InUse(i) /\ \A j \in MeasureIds : j < i => InUse(j)
                   /\ Written(c, [closed EXCEPT ![i] = f.plan.window])
  BY DEF WriteMember
<1>4. /\ Closing(f) \in Puts /\ f.plan.fix \in MeasureIds \cup {None}
      /\ f.plan.window \in Measure \cup {None} /\ None \notin MeasureIds
      /\ f.plan.fix # None => f.plan.window # None
  BY <1>1, ClosingShape, DecisionShape, NoneIsNone DEF Plan, PlanSound
<1>5. \E x \in MeasureIds \cup {None}, put \in Puts : WritesTo(f, x, put) /\ Written(c, put)
  <2> HIDE DEF Written, closed, f
  <2>1. CASE f.plan.window = None /\ Written(c, closed)
    BY <1>2, <1>4, <2>1 DEF WritesTo
  <2>2. CASE f.plan.fix # None /\ Written(c, [closed EXCEPT ![f.plan.fix] = f.plan.window])
    <3> DEFINE put == [Closing(f) EXCEPT ![f.plan.fix] = f.plan.window]
    <3>1. /\ put \in Puts /\ put[f.plan.fix] = f.plan.window
          /\ \A i \in MeasureIds : i # f.plan.fix => put[i] = Closing(f)[i]
      BY <1>4, <2>2 DEF Puts
    <3> HIDE DEF put
    <3>2. WritesTo(f, f.plan.fix, put)
      BY <1>4, <2>2, <3>1 DEF WritesTo
    <3> QED BY <1>2, <1>4, <2>2, <3>1, <3>2 DEF put
  <2>3. CASE /\ f.plan.window # None /\ f.plan.fix = None
             /\ \E i \in MeasureIds :
                   /\ ~InUse(i) /\ \A j \in MeasureIds : j < i => InUse(j)
                   /\ Written(c, [closed EXCEPT ![i] = f.plan.window])
    <3>1. PICK x \in MeasureIds : ~InUse(x) /\ Written(c, [closed EXCEPT ![x] = f.plan.window])
      BY <2>3
    <3> DEFINE put == [Closing(f) EXCEPT ![x] = f.plan.window]
    <3>2. /\ put \in Puts /\ put[x] = f.plan.window
          /\ \A i \in MeasureIds : i # x => put[i] = Closing(f)[i]
      BY <1>4 DEF Puts
    <3> HIDE DEF put
    <3>3. WritesTo(f, x, put)
      BY <1>4, <2>3, <3>1, <3>2 DEF WritesTo
    <3> QED BY <1>2, <3>1, <3>2, <3>3 DEF put
  <2> QED BY <1>3, <2>1, <2>2, <2>3
<1> QED BY <1>3, <1>5

\* A transaction writes rows that were there or that nobody else has taken.
LEMMA WrittenRows ==
  ASSUME TypeOK, NEW f \in Decision, f.pc \in Phases, WritesSound(f), f.pc = "write",
         NEW c \in Codes, IsNext(c, f.todo), NEW x, NEW put, WritesTo(f, x, put)
  PROVE  /\ x # None => /\ f.plan.window \in Measure /\ f.plan.window.code = c
                        /\ (f.plan.fix = None /\ ~InUse(x)) \/ (x = f.plan.fix /\ Seen(f, x) # None
                                                               /\ Seen(f, x).code = c)
         /\ \A i \in MeasureIds : i # x =>
              /\ put[i] # None => f.put[i] # None \/ i \in f.plan.shut
              /\ put[i] = None => f.put[i] = None
              /\ put[i] # None => /\ put[i] \in Measure /\ Seen(f, i) \in Measure
                                  /\ put[i].code = Seen(f, i).code /\ put[i].from = Seen(f, i).from
                                  /\ put[i].content = Seen(f, i).content
              /\ i \notin f.plan.shut => put[i] = f.put[i]
              /\ i \in f.plan.shut => put[i] # None /\ put[i].to = f.plan.at
<1>1. PlanSound(f) /\ f.put \in Puts /\ f.plan.window \in Measure \cup {None} /\ f.todo \subseteq Nat
  BY DecisionShape, Numbers DEF WritesSound, Plan
<1>2. x # None => /\ f.plan.window \in Measure /\ f.plan.window.code = c
                  /\ (f.plan.fix = None /\ ~InUse(x)) \/ (x = f.plan.fix /\ Seen(f, x) # None
                                                         /\ Seen(f, x).code = c)
  <2> SUFFICES ASSUME x # None
               PROVE  /\ f.plan.window \in Measure /\ f.plan.window.code = c
                      /\ (f.plan.fix = None /\ ~InUse(x)) \/ (x = f.plan.fix /\ Seen(f, x) # None
                                                             /\ Seen(f, x).code = c)
    OBVIOUS
  <2>1. f.plan.window \in Measure /\ f.plan.window # None
    BY <1>1 DEF WritesTo
  <2>2. IsNext(f.plan.window.code, f.todo)
    BY <1>1, <2>1 DEF PlanSound
  <2>3. f.plan.window.code = c
    BY <1>1, <2>2 DEF IsNext
  <2>4. (f.plan.fix = None /\ ~InUse(x)) \/ (x = f.plan.fix /\ Seen(f, x) # None
                                                             /\ Seen(f, x).code = c)
    BY <1>1, <2>3 DEF WritesTo, PlanSound
  <2> QED BY <2>1, <2>3, <2>4
<1>3. ASSUME NEW i \in MeasureIds, i # x
      PROVE  /\ put[i] # None => f.put[i] # None \/ i \in f.plan.shut
             /\ put[i] = None => f.put[i] = None
             /\ put[i] # None => /\ put[i] \in Measure /\ Seen(f, i) \in Measure
                                 /\ put[i].code = Seen(f, i).code /\ put[i].from = Seen(f, i).from
                                 /\ put[i].content = Seen(f, i).content
             /\ i \notin f.plan.shut => put[i] = f.put[i]
             /\ i \in f.plan.shut => put[i] # None /\ put[i].to = f.plan.at
  <2>1. put[i] = Closing(f)[i]
    BY <1>3 DEF WritesTo
  <2>2. CASE i \in f.plan.shut
    <3>1. /\ Seen(f, i) \in Measure /\ Closing(f)[i] \in Measure
          /\ Closing(f)[i].code = Seen(f, i).code /\ Closing(f)[i].from = Seen(f, i).from
          /\ Closing(f)[i].content = Seen(f, i).content /\ Closing(f)[i].to = f.plan.at
      BY <1>1, <2>2, ClosingShape
    <3> QED BY <2>1, <2>2, <3>1, NoneIsNone
  <2>3. CASE i \notin f.plan.shut
    <3>1. put[i] = f.put[i]
      BY <1>1, <2>1, <2>3, ClosingShape
    <3>2. put[i] # None => Seen(f, i) = put[i] /\ put[i] \in Measure
      BY <1>1, <3>1 DEF Seen, Puts
    <3> QED BY <2>3, <3>1, <3>2
  <2> QED BY <2>2, <2>3
<1> QED BY <1>2, <1>3

\* A write: the parts that hold whatever overlaps, or until a sync does.
LEMMA WriteSound ==
  ASSUME ReviewInv, NEW d \in Deciders, WriteMember(d),
         NEW c \in Codes, NEW x, NEW put, NEW frame \in Decision,
         IsNext(c, decision[d].todo), WritesTo(decision[d], x, put), Continues(d, frame),
         frame.pc = "apply", frame.on = decision[d].on, frame.verdict = decision[d].verdict,
         frame.todo = decision[d].todo \ {c}, frame.skip = decision[d].skip,
         frame.done = decision[d].done \cup {c}, frame.put = put
  PROVE  Sound' /\ Calm' /\ NothingStranded' /\ EveryChangeProposed'
<1> DEFINE f == decision[d]
<1>1. /\ f.pc = "write" /\ FreeMeasures(d, f.plan.shut \cup ({f.plan.fix} \ {None}))
      /\ TypeOK /\ DecisionsSound /\ LocksApart /\ Calm
  BY DEF WriteMember, ReviewInv, Sound
<1>2. /\ f \in Decision /\ f.pc \in Phases /\ Writing(d) /\ Busy(d) /\ WritesSound(f)
      /\ f.todo \subseteq Codes /\ c \in f.todo
  BY <1>1, DecisionShape DEF TypeOK, Writing, Busy, Phases, DecisionsSound, IsNext
<1>3. frame.pc \in Phases /\ frame.pc # "read"
  BY DEF Phases
<1>4. PutsSound(frame)
  <2> SUFFICES ASSUME NEW i \in MeasureIds, put[i] # None
               PROVE  /\ measure[i] = None => put[i].code \in f.done \cup {c}
                      /\ measure[i] # None =>
                           /\ put[i].code = measure[i].code
                           /\ put[i].code \notin f.done \cup {c} =>
                                /\ put[i].from = measure[i].from /\ put[i].content = measure[i].content
    BY DEF PutsSound
  <2>1. PutsSound(f)
    BY <1>2 DEF WritesSound
  <2>2. CASE i # x
    <3>1. /\ f.put[i] # None \/ i \in f.plan.shut
          /\ put[i].code = Seen(f, i).code /\ put[i].from = Seen(f, i).from
          /\ put[i].content = Seen(f, i).content /\ Seen(f, i) \in Measure
      BY <1>1, <1>2, <2>2, WrittenRows
    <3>2. Seen(f, i) # None
      BY <3>1, NoneIsNone
    <3> QED BY <2>1, <3>1, <3>2 DEF PutsSound, Seen
  <2>3. CASE i = x
    <3>1. x # None /\ put[i] = f.plan.window
      BY <2>3, NoneIsNone DEF WritesTo
    <3>2. /\ put[i].code = c
          /\ ~InUse(i) \/ (Seen(f, i) # None /\ Seen(f, i).code = c)
      BY <1>1, <1>2, <2>3, <3>1, WrittenRows
    <3> QED BY <2>1, <3>2 DEF PutsSound, Seen, InUse
  <2> QED BY <2>2, <2>3
<1>5. WritesSound(frame)
  <2>1. /\ frame.todo \cap frame.done = {} /\ frame.skip \cap (frame.todo \cup frame.done) = {}
        /\ \A e \in frame.todo \cup frame.done \cup frame.skip : Exists(<<frame.on.rel, e>>)
    BY <1>2 DEF WritesSound
  <2>2. /\ frame.on.code # Family => /\ frame.skip = {}
              /\ frame.todo \cup frame.done = IF frame.verdict = "approved" THEN {frame.on.code} ELSE {}
        /\ frame.verdict # "rejected"
    BY <1>2 DEF WritesSound
  <2> QED BY <1>4, <2>1, <2>2 DEF WritesSound
<1>6. ASSUME NEW e \in Deciders \ {d}, Writing(e)
      PROVE  /\ frame.on # decision[e].on
             /\ \A i \in MeasureIds : frame.put[i] = None \/ decision[e].put[i] = None
  <2>1. /\ f.on # decision[e].on
        /\ \A i \in MeasureIds : f.put[i] = None \/ decision[e].put[i] = None
    BY <1>1, <1>2, <1>6 DEF LocksApart
  <2>2. ASSUME NEW i \in MeasureIds, put[i] # None PROVE decision[e].put[i] = None
    <3>1. CASE i # x
      <4>1. f.put[i] # None \/ i \in f.plan.shut
        BY <1>1, <1>2, <2>2, <3>1, WrittenRows
      <4> QED BY <1>1, <1>6, <2>1, <4>1 DEF FreeMeasures
    <3>2. CASE i = x
      <4>1. ~InUse(i) \/ (i = f.plan.fix /\ f.plan.fix # None)
        BY <3>2, NoneIsNone DEF WritesTo
      <4> QED BY <1>1, <1>6, <4>1 DEF FreeMeasures, InUse
    <3> QED BY <3>1, <3>2
  <2> QED BY <2>1, <2>2
<1>7. Sound'
  BY <1>2, <1>3, <1>5, <1>6, ContinueSound
<1>8. frame.todo \cup frame.done = f.todo \cup f.done
  BY <1>2
<1>9. Subjects(frame) = Subjects(f)
  BY <1>1, <1>3, <1>8 DEF Subjects
<1>10. Quiet => UnappliedIn(frame)
  BY <1>1, <1>2, <1>8 DEF Calm, Unapplied, UnappliedIn
<1>11. Calm' /\ NothingStranded' /\ EveryChangeProposed'
  BY <1>2, <1>3, <1>9, <1>10, ContinueCalm
<1> QED BY <1>7, <1>11

-----------------------------------------------------------------------------
(* The windows of a code, one after the other.                             *)

\* The row at x is new or changed and starts last of its code; the others are
\* as they were or end earlier.
LEMMA TilesStill ==
  ASSUME NEW t \in Puts, NEW u \in Puts, TableTiles(t), NEW x \in MeasureIds, u[x] # None,
         \A i \in MeasureIds : i # x /\ u[i] # None =>
           /\ t[i] # None /\ u[i].code = t[i].code /\ u[i].from = t[i].from /\ u[i].to <= t[i].to
           /\ u[i].code = u[x].code => u[i].from < u[x].from /\ u[i].to < u[x].from
  PROVE  TableTiles(u)
<1> SUFFICES ASSUME NEW c \in Codes, NEW i \in WindowsOf(u, c), NEW j \in WindowsOf(u, c), i # j
             PROVE  \/ u[i].from < u[j].from /\ u[i].to < u[j].from
                    \/ u[j].from < u[i].from /\ u[j].to < u[i].from
  BY DEF TableTiles
<1>1. i \in MeasureIds /\ j \in MeasureIds /\ u[i] # None /\ u[j] # None /\ u[i].code = c /\ u[j].code = c
  BY DEF WindowsOf
<1>2. CASE i = x \/ j = x
  BY <1>1, <1>2
<1>3. CASE i # x /\ j # x
  <2>1. i \in WindowsOf(t, c) /\ j \in WindowsOf(t, c)
    BY <1>1, <1>3 DEF WindowsOf
  <2>2. \/ t[i].from < t[j].from /\ t[i].to < t[j].from
        \/ t[j].from < t[i].from /\ t[j].to < t[i].from
    BY <2>1 DEF TableTiles
  <2>3. /\ t[i] \in Measure /\ t[j] \in Measure /\ u[i] \in Measure /\ u[j] \in Measure
        /\ u[i].from = t[i].from /\ u[j].from = t[j].from /\ u[i].to <= t[i].to /\ u[j].to <= t[j].to
    BY <1>1, <1>3 DEF Puts
  <2>4. /\ t[i].to \in Nat /\ t[j].to \in Nat /\ u[i].to \in Nat /\ u[j].to \in Nat
        /\ t[i].from \in Nat /\ t[j].from \in Nat
    BY <2>3, MeasureShape
  <2> QED BY <2>2, <2>3, <2>4
<1> QED BY <1>2, <1>3

\* The view of a transaction is a table of measures.
LEMMA ViewShape ==
  ASSUME TypeOK, NEW f \in Decision, f.pc \in Phases
  PROVE  View(f) \in Puts /\ \A i \in MeasureIds : View(f)[i] = Seen(f, i)
<1>1. f.put \in Puts /\ measure \in Puts
  BY DecisionShape DEF TypeOK, Puts
<1> QED BY <1>1 DEF View, Seen, Puts

\* What a transaction has not done yet it sees as it is in the table.
LEMMA SeenWindows ==
  ASSUME TypeOK, NEW f \in Decision, f.pc \in Phases, WritesSound(f), NEW c \in Codes, c \in f.todo
  PROVE  /\ WindowsOf(View(f), c) = WindowsOf(measure, c)
         /\ \A i \in WindowsOf(measure, c) : Seen(f, i).from = measure[i].from
<1>1. PutsSound(f) /\ c \notin f.done
  BY DEF WritesSound
<1>2. \A i \in MeasureIds : View(f)[i] = Seen(f, i)
  BY ViewShape
<1>3. \A i \in MeasureIds : Seen(f, i) # None /\ Seen(f, i).code = c <=> measure[i] # None /\ measure[i].code = c
  BY <1>1 DEF PutsSound, Seen
<1>4. \A i \in MeasureIds : measure[i] # None /\ measure[i].code = c => Seen(f, i).from = measure[i].from
  BY <1>1 DEF PutsSound, Seen
<1> QED BY <1>2, <1>3, <1>4 DEF WindowsOf

\* The change a transaction is about to write is about the live window.
LEMMA NextFits ==
  ASSUME ReviewInv, mishaps = {}, NEW d \in Deciders, Writing(d), NEW c \in decision[d].todo
  PROVE  Fits(measure, c, revision[<<decision[d].on.rel, c>>])
<1> DEFINE f == decision[d]
           p == <<f.on.rel, c>>
<1>1. TypeOK /\ OlderClosed /\ SubjectOpen /\ NewestFits
  BY DEF ReviewInv, Sound, Calm, Orderly, Quiet
<1>2. f \in Decision /\ f.pc \in Phases /\ Busy(d) /\ c \in Codes /\ f.on.rel \in Releases
  BY <1>1, DecisionShape, SubjectShape DEF TypeOK, Writing, Phases, Busy
<1>3. IsOpen(p)
  BY <1>1, <1>2 DEF SubjectOpen, Subjects, Phases
<1>4. p \in Staged /\ p[1] = f.on.rel /\ p[2] = c /\ ~revision[p].applied
  BY <1>2, <1>3, Proposal DEF IsOpen
<1>5. \A q \in Staged : q[2] = c => q[1] <= p[1]
  <2> SUFFICES ASSUME NEW q \in Staged, q[2] = c, ~(q[1] <= p[1]) PROVE FALSE
    OBVIOUS
  <2>1. q[1] \in Nat /\ p[1] \in Nat
    BY <1>1, <1>4, StagedShape, Numbers
  <2> HIDE DEF p
  <2> QED BY <1>1, <1>3, <1>4, <2>1 DEF OlderClosed
<1> QED BY <1>1, <1>4, <1>5 DEF NewestFits

\* A write: the windows in the view do not overlap.
LEMMA WriteTiles ==
  ASSUME ReviewInv, mishaps = {}, NEW d \in Deciders, WriteMember(d),
         NEW c \in Codes, NEW x, NEW put, NEW frame \in Decision,
         IsNext(c, decision[d].todo), WritesTo(decision[d], x, put),
         frame.pc = "apply", frame.put = put
  PROVE  MovesBack(frame) \/ TableTiles(View(frame))
<1> DEFINE f == decision[d]
           r == revision[<<f.on.rel, c>>]
           t == View(f)
           u == View(frame)
<1>1. f.pc = "write" /\ TypeOK /\ DecisionsSound /\ ViewsTile
  BY DEF WriteMember, ReviewInv, Sound, Orderly
<1>2. /\ f \in Decision /\ f.pc \in Phases /\ Writing(d) /\ WritesSound(f) /\ PutsSound(f)
      /\ c \in f.todo /\ f.todo \subseteq Nat /\ f.todo \subseteq Codes
  BY <1>1, DecisionShape, Numbers DEF TypeOK, Writing, Phases, DecisionsSound, WritesSound, IsNext
<1>3. ViewTiles(f)
  BY <1>1, <1>2 DEF ViewsTile
<1>4. PICK eff \in Days : PlanFor(f, c, eff, r)
  <2>1. PICK c1 \in Codes, eff \in Days : IsNext(c1, f.todo) /\ PlanFor(f, c1, eff, revision[<<f.on.rel, c1>>])
    BY <1>1, <1>3 DEF ViewTiles, PlanFits
  <2>2. c1 = c
    BY <1>2, <2>1 DEF IsNext
  <2> QED BY <2>1, <2>2
<1>5. Fits(measure, c, r)
  BY <1>2, NextFits
<1>6. /\ t \in Puts /\ u \in Puts /\ \A i \in MeasureIds : t[i] = Seen(f, i) /\ u[i] = Seen(frame, i)
  BY <1>1, <1>2, ViewShape DEF Phases
<1>7. /\ WindowsOf(t, c) = WindowsOf(measure, c)
      /\ \A i \in WindowsOf(measure, c) : t[i].from = measure[i].from
  BY <1>1, <1>2, <1>6, SeenWindows DEF WindowsOf
<1>8. \A i \in MeasureIds : i # x =>
        /\ u[i] # None => t[i] # None /\ u[i].code = t[i].code /\ u[i].from = t[i].from
        /\ i \notin f.plan.shut => u[i] = t[i]
        /\ i \in f.plan.shut => u[i] # None /\ u[i].to = f.plan.at
  <2> SUFFICES ASSUME NEW i \in MeasureIds, i # x
               PROVE  /\ u[i] # None => t[i] # None /\ u[i].code = t[i].code /\ u[i].from = t[i].from
                      /\ i \notin f.plan.shut => u[i] = t[i]
                      /\ i \in f.plan.shut => u[i] # None /\ u[i].to = f.plan.at
    OBVIOUS
  <2> HIDE DEF t, u
  <2>1. /\ put[i] = None => f.put[i] = None
        /\ put[i] # None => /\ Seen(f, i) \in Measure
                            /\ put[i].code = Seen(f, i).code /\ put[i].from = Seen(f, i).from
        /\ i \notin f.plan.shut => put[i] = f.put[i]
        /\ i \in f.plan.shut => put[i] # None /\ put[i].to = f.plan.at
    BY <1>1, <1>2, WrittenRows
  <2>2. t[i] = Seen(f, i) /\ u[i] = Seen(frame, i)
    BY <1>6
  <2> QED BY <2>1, <2>2, NoneIsNone DEF Seen
<1>9. x # None => /\ x \in MeasureIds /\ u[x] = f.plan.window /\ f.plan.window \in Measure
                  /\ u[x].code = c
                  /\ f.plan.fix = None => ~InUse(x)
                  /\ f.plan.fix # None => x = f.plan.fix
  <2>1. x # None => /\ f.plan.window \in Measure /\ f.plan.window.code = c
                    /\ put[x] = f.plan.window /\ x \in MeasureIds
                    /\ f.plan.fix = None => ~InUse(x)
                    /\ f.plan.fix # None => x = f.plan.fix
    BY <1>1, <1>2, WrittenRows DEF WritesTo
  <2> QED BY <1>6, <2>1, NoneIsNone DEF Seen
<1>10. x = None <=> f.plan.window = None
  BY DEF WritesTo
<1>11. \A i \in MeasureIds : (t[i] # None => t[i] \in Measure) /\ (u[i] # None => u[i] \in Measure)
  BY <1>6 DEF Puts
<1>14. r.change # "end_measure" =>
         [code |-> c, from |-> eff, to |-> Open, content |-> r.content] \in Measure
  <2>1. <<f.on.rel, c>> \in Staged
    BY <1>1, <1>2, DecisionShape, SubjectShape, Proposal DEF WritesSound, Idle
  <2>2. r.change # "end_measure" => r.content \in Contents
    BY <2>1 DEF ReviewInv, Sound, RevisionsSound, WellFormed
  <2> QED BY <2>2, Numbers DEF Measure
<1>12. CASE MovesBack(f)
  <2>1. PICK i \in MeasureIds : f.put[i] # None /\ measure[i] # None /\ f.put[i].from < measure[i].from
    BY <1>12 DEF MovesBack
  <2>2. i # x => put[i] # None /\ put[i].from = f.put[i].from
    <3>1. i # x => /\ put[i] = None => f.put[i] = None
                   /\ put[i] # None => put[i].from = Seen(f, i).from
      BY <1>1, <1>2, WrittenRows
    <3> QED BY <2>1, <3>1 DEF Seen
  <2>3. i = x => put[i] # None /\ put[i].from <= f.put[i].from
    <3> SUFFICES ASSUME i = x PROVE put[i] # None /\ put[i].from <= f.put[i].from
      OBVIOUS
    <3>1. x # None /\ x = f.plan.fix /\ f.plan.fix # None
      BY <1>9, <2>1, NoneIsNone DEF InUse
    <3>2. put[x] = f.plan.window /\ f.plan.window # None
      BY <1>9, <3>1, NoneIsNone DEF WritesTo
    <3>3. r.change = "rate_change" /\ f.plan.window.from = eff /\ x = r.target /\ ~(eff > Seen(f, x).from)
      BY <1>4, <3>1, <3>2 DEF PlanFor
    <3>4. Seen(f, x) = f.put[x] /\ f.put[x] \in Measure
      BY <1>6, <1>11, <2>1, <3>1 DEF Seen
    <3>5. f.put[x].from \in Nat /\ eff \in Nat
      BY <3>4, MeasureShape, Numbers
    <3>6. put[x].from = eff /\ put[x] # None
      BY <3>2, <3>3
    <3>7. ~(eff > f.put[x].from)
      BY <3>3, <3>4
    <3>8. eff <= f.put[x].from
      BY <3>5, <3>7
    <3> QED BY <3>6, <3>8
  <2>4. put[i].from < measure[i].from
    <3>1. put[i] \in Measure /\ f.put[i] \in Measure /\ measure[i] \in Measure
      BY <1>1, <1>2, <2>1, <2>2, <2>3, DecisionShape DEF WritesTo, Puts, TypeOK
    <3>2. put[i].from \in Nat /\ f.put[i].from \in Nat /\ measure[i].from \in Nat
      BY <3>1, MeasureShape
    <3> QED BY <2>1, <2>2, <2>3, <3>2
  <2> QED BY <2>1, <2>2, <2>3, <2>4 DEF MovesBack
<1>13. CASE ~MovesBack(f)
  <2>0. TableTiles(t)
    BY <1>3, <1>13 DEF ViewTiles
  <2> SUFFICES MovesBack(frame) \/ TableTiles(u)
    OBVIOUS
  <2> HIDE DEF t, u, r
  <2>1. CASE r.change = "create_measure"
    <3>1. /\ x # None /\ u[x] # None /\ u[x].code = c /\ x \in MeasureIds /\ f.plan.at = eff - 1
          /\ \A i \in f.plan.shut : Seen(f, i).to >= eff
          /\ WindowsOf(t, c) = {}
      BY <1>4, <1>5, <1>7, <1>9, <1>10, <1>14, <2>1, NoneIsNone DEF PlanFor, Fits
    <3>2. ASSUME NEW i \in MeasureIds, i # x, u[i] # None
          PROVE  t[i] # None /\ u[i].code = t[i].code /\ u[i].from = t[i].from /\ u[i].to <= t[i].to
                 /\ u[i].code # u[x].code
      <4>1. t[i] # None /\ u[i].code = t[i].code /\ u[i].from = t[i].from
        BY <1>8, <3>2
      <4>2. u[i].code # c
        BY <3>1, <4>1 DEF WindowsOf
      <4>3. t[i].to \in Nat /\ u[i].to \in Nat /\ eff \in Nat
        BY <1>11, <3>2, <4>1, MeasureShape, Numbers
      <4>4. u[i].to <= t[i].to
        BY <1>6, <1>8, <3>1, <3>2, <4>3
      <4> QED BY <3>1, <4>1, <4>2, <4>4
    <3>20. \A i \in MeasureIds : i # x /\ u[i] # None =>
             /\ t[i] # None /\ u[i].code = t[i].code /\ u[i].from = t[i].from /\ u[i].to <= t[i].to
             /\ u[i].code = u[x].code => u[i].from < u[x].from /\ u[i].to < u[x].from
      BY <3>2
    <3>21. t \in Puts /\ u \in Puts
      BY <1>6
    <3> QED BY <2>0, <3>20, <3>21, <3>1, TilesStill
  <2>2. CASE r.change = "rate_change"
    <3> DEFINE live == Seen(f, r.target)
    <3>1. /\ f.plan.window = [code |-> c, from |-> eff, to |-> Open, content |-> r.content]
          /\ f.plan.fix = IF eff > live.from THEN None ELSE r.target
          /\ f.plan.at = eff - 1
          /\ f.plan.shut = IF eff > live.from /\ live.to >= eff THEN {r.target} ELSE {}
      BY <1>4, <2>2 DEF PlanFor
    <3>2. /\ r.target \in WindowsOf(t, c)
          /\ \A j \in WindowsOf(t, c) : t[j].from <= t[r.target].from
      BY <1>5, <1>7, <2>2 DEF Fits
    <3>3. r.target \in MeasureIds /\ t[r.target] = live /\ live \in Measure
      BY <1>6, <1>11, <3>2 DEF WindowsOf
    <3>4. \A j \in WindowsOf(t, c) : j # r.target => t[j].from < live.from /\ t[j].to < live.from
      <4> SUFFICES ASSUME NEW j \in WindowsOf(t, c), j # r.target
                   PROVE  t[j].from < live.from /\ t[j].to < live.from
        OBVIOUS
      <4>1. \/ t[j].from < t[r.target].from /\ t[j].to < t[r.target].from
            \/ t[r.target].from < t[j].from /\ t[r.target].to < t[j].from
        BY <2>0, <3>2 DEF TableTiles
      <4>2. t[j].from <= t[r.target].from
        BY <3>2
      <4>3. t[j].from \in Nat /\ live.from \in Nat
        BY <1>11, <3>3, MeasureShape DEF WindowsOf
      <4> QED BY <3>3, <4>1, <4>2, <4>3
    <3>5. live.from \in Nat /\ live.to \in Nat /\ eff \in Nat
      BY <3>3, MeasureShape, Numbers
    <3>6. /\ x # None /\ x \in MeasureIds /\ u[x] # None /\ u[x].code = c /\ u[x].from = eff
      BY <1>9, <1>10, <1>14, <2>2, <3>1, NoneIsNone
    <3> HIDE DEF live
    <3>7. CASE eff > live.from
      <4>1. ASSUME NEW i \in MeasureIds, i # x, u[i] # None
            PROVE  /\ t[i] # None /\ u[i].code = t[i].code /\ u[i].from = t[i].from
                   /\ u[i].to <= t[i].to
                   /\ u[i].code = u[x].code => u[i].from < u[x].from /\ u[i].to < u[x].from
        <5>1. t[i] # None /\ u[i].code = t[i].code /\ u[i].from = t[i].from
          BY <1>8, <4>1
        <5>2. t[i].to \in Nat /\ u[i].to \in Nat /\ t[i].from \in Nat
          BY <1>11, <4>1, <5>1, MeasureShape
        <5>3. CASE i = r.target
          <6>1. u[i].to = IF live.to >= eff THEN eff - 1 ELSE live.to
            BY <1>8, <3>1, <3>3, <3>7, <4>1, <5>3
          <6> QED BY <3>3, <3>5, <3>6, <3>7, <5>1, <5>2, <5>3, <6>1
        <5>4. CASE i # r.target
          <6>1. u[i] = t[i]
            BY <1>8, <3>1, <4>1, <5>4
          <6>2. u[i].code = c => t[i].from < live.from /\ t[i].to < live.from
            BY <3>4, <4>1, <5>1, <5>4 DEF WindowsOf
          <6> QED BY <3>5, <3>6, <3>7, <5>1, <5>2, <6>1, <6>2
        <5> QED BY <5>3, <5>4
      <4>20. \A i \in MeasureIds : i # x /\ u[i] # None =>
               /\ t[i] # None /\ u[i].code = t[i].code /\ u[i].from = t[i].from /\ u[i].to <= t[i].to
               /\ u[i].code = u[x].code => u[i].from < u[x].from /\ u[i].to < u[x].from
        BY <4>1
      <4>21. t \in Puts /\ u \in Puts
        BY <1>6
      <4> QED BY <2>0, <4>20, <4>21, <3>6, TilesStill
    <3>8. CASE eff = live.from
      <4>1. x = r.target /\ f.plan.shut = {}
        BY <1>9, <3>1, <3>3, <3>5, <3>6, <3>8, NoneIsNone
      <4>2. ASSUME NEW i \in MeasureIds, i # x, u[i] # None
            PROVE  /\ t[i] # None /\ u[i].code = t[i].code /\ u[i].from = t[i].from
                   /\ u[i].to <= t[i].to
                   /\ u[i].code = u[x].code => u[i].from < u[x].from /\ u[i].to < u[x].from
        <5>1. t[i] # None /\ u[i] = t[i]
          BY <1>8, <4>1, <4>2
        <5>2. t[i].to \in Nat
          BY <1>11, <5>1, MeasureShape
        <5>3. u[i].code = c => t[i].from < live.from /\ t[i].to < live.from
          BY <3>4, <4>1, <4>2, <5>1 DEF WindowsOf
        <5> QED BY <3>6, <3>8, <5>1, <5>2, <5>3
      <4>20. \A i \in MeasureIds : i # x /\ u[i] # None =>
               /\ t[i] # None /\ u[i].code = t[i].code /\ u[i].from = t[i].from /\ u[i].to <= t[i].to
               /\ u[i].code = u[x].code => u[i].from < u[x].from /\ u[i].to < u[x].from
        BY <4>2
      <4>21. t \in Puts /\ u \in Puts
        BY <1>6
      <4> QED BY <2>0, <4>20, <4>21, <3>6, TilesStill
    <3>9. CASE eff < live.from
      <4>1. x = r.target /\ put[x] = f.plan.window /\ f.plan.window # None
        BY <1>9, <3>1, <3>3, <3>5, <3>6, <3>9, NoneIsNone DEF WritesTo
      <4>2. x \in WindowsOf(measure, c) /\ measure[x].from = live.from
        BY <1>7, <3>2, <3>3, <4>1
      <4>3. put[x].from < measure[x].from
        BY <3>1, <3>9, <4>1, <4>2
      <4> QED BY <3>6, <4>1, <4>2, <4>3 DEF MovesBack, WindowsOf
    <3> QED BY <3>5, <3>7, <3>8, <3>9
  <2>3. CASE r.change = "end_measure"
    <3>1. x = None /\ f.plan.shut = {r.target}
      BY <1>4, <1>10, <2>3 DEF PlanFor
    <3>2. /\ r.target \in WindowsOf(t, c)
          /\ \A j \in WindowsOf(t, c) : t[j].from <= t[r.target].from
      BY <1>5, <1>7, <2>3 DEF Fits
    <3>3. /\ r.target \in MeasureIds /\ t[r.target] # None /\ t[r.target].code = c
          /\ \A i \in MeasureIds : i # x
      BY <3>1, <3>2, NoneIsNone DEF WindowsOf
    <3>4. u[r.target] # None /\ u[r.target].code = c /\ u[r.target].from = t[r.target].from
      BY <1>8, <3>1, <3>3
    <3>5. ASSUME NEW i \in MeasureIds, i # r.target, u[i] # None
          PROVE  /\ t[i] # None /\ u[i].code = t[i].code /\ u[i].from = t[i].from
                 /\ u[i].to <= t[i].to
                 /\ u[i].code = u[r.target].code => u[i].from < u[r.target].from /\ u[i].to < u[r.target].from
      <4>1. t[i] # None /\ u[i] = t[i]
        BY <1>8, <3>1, <3>3, <3>5
      <4>2. t[i].to \in Nat /\ t[i].from \in Nat /\ t[r.target].from \in Nat
        BY <1>11, <3>3, <4>1, MeasureShape
      <4>3. t[i].code = c => t[i].from < t[r.target].from /\ t[i].to < t[r.target].from
        <5> SUFFICES ASSUME t[i].code = c PROVE t[i].from < t[r.target].from /\ t[i].to < t[r.target].from
          OBVIOUS
        <5>1. i \in WindowsOf(t, c)
          BY <4>1 DEF WindowsOf
        <5>2. \/ t[i].from < t[r.target].from /\ t[i].to < t[r.target].from
              \/ t[r.target].from < t[i].from /\ t[r.target].to < t[i].from
          BY <2>0, <3>2, <3>5, <5>1 DEF TableTiles
        <5>3. t[i].from <= t[r.target].from
          BY <3>2, <5>1
        <5> QED BY <4>2, <5>2, <5>3
      <4> QED BY <3>4, <4>1, <4>2, <4>3
    <3>20. \A i \in MeasureIds : i # r.target /\ u[i] # None =>
             /\ t[i] # None /\ u[i].code = t[i].code /\ u[i].from = t[i].from /\ u[i].to <= t[i].to
             /\ u[i].code = u[r.target].code => u[i].from < u[r.target].from /\ u[i].to < u[r.target].from
      BY <3>5
    <3>21. t \in Puts /\ u \in Puts
      BY <1>6
    <3> QED BY <2>0, <3>20, <3>21, <3>3, <3>4, TilesStill
  <2> QED BY <1>4, <2>1, <2>2, <2>3 DEF PlanFor
<1> QED BY <1>12, <1>13 DEF View

\* A write of one change.
LEMMA WriteMemberKeeps ==
  ASSUME ReviewInv, NEW d \in Deciders, WriteMember(d) PROVE ReviewInv'
<1> DEFINE f == decision[d]
<1>1. f.pc = "write" /\ TypeOK /\ f \in Decision /\ Writing(d) /\ Busy(d) /\ f.pc \in Phases
  BY DecisionShape DEF WriteMember, ReviewInv, Sound, TypeOK, Writing, Busy, Phases
<1>2. PICK c \in Codes, x \in MeasureIds \cup {None}, put \in Puts :
        /\ IsNext(c, f.todo) /\ WritesTo(f, x, put)
        /\ Continues(d, [f EXCEPT !.pc = "apply", !.todo = @ \ {c}, !.done = @ \cup {c},
                                  !.plan = NoPlan, !.put = put])
  BY WriteMemberWrites
<1> DEFINE frame == [f EXCEPT !.pc = "apply", !.todo = @ \ {c}, !.done = @ \cup {c},
                              !.plan = NoPlan, !.put = put]
<1>3. /\ frame \in Decision
      /\ frame.pc = "apply" /\ frame.on = f.on /\ frame.verdict = f.verdict
      /\ frame.todo = f.todo \ {c} /\ frame.skip = f.skip /\ frame.done = f.done \cup {c}
      /\ frame.put = put
  <2> DEFINE todo == f.todo \ {c}
             done == f.done \cup {c}
             next == [f EXCEPT !.pc = "apply", !.todo = todo, !.done = done,
                               !.plan = NoPlan, !.put = put]
  <2>1. todo \in SUBSET Codes /\ done \in SUBSET Codes /\ put \in Puts
    BY <1>1, DecisionShape
  <2>2. next \in Decision
    <3> HIDE DEF todo, done
    <3> QED BY <1>1, <2>1, FrameShape
  <2>3. /\ next.pc = "apply" /\ next.on = f.on /\ next.verdict = f.verdict
        /\ next.todo = todo /\ next.skip = f.skip /\ next.done = done
        /\ next.put = put
    BY <1>1 DEF Decision, Idle, Phases
  <2> QED BY <2>2, <2>3
<1>4. Continues(d, frame)
  BY <1>2
<1> HIDE DEF frame
<1>5. Sound' /\ Calm' /\ NothingStranded' /\ EveryChangeProposed'
  BY <1>2, <1>3, <1>4, WriteSound
<1>6. mishaps = {} => ViewTiles(frame)
  BY <1>2, <1>3, WriteTiles DEF ViewTiles
<1>7. frame.todo \cup frame.done = f.todo \cup f.done
  BY <1>1, <1>2, <1>3 DEF IsNext
<1>8. Subjects(frame) = Subjects(f)
  BY <1>1, <1>3, <1>7 DEF Subjects
<1>9. Orderly'
  BY <1>1, <1>3, <1>4, <1>6, <1>8, ContinueOrderly DEF Phases
<1> QED BY <1>5, <1>9 DEF ReviewInv

-----------------------------------------------------------------------------
(* A transaction commits.                                                  *)

\* The rows of the queue after the commit of f.
LEMMA CommitRows ==
  ASSUME TypeOK, NEW d \in Deciders, Commit(d), WritesSound(decision[d]), NEW p \in Proposals
  PROVE  LET f == decision[d]
             mine == p[1] = f.on.rel
         IN /\ (revision'[p] = None) <=> (revision[p] = None)
            /\ revision[p] # None =>
                 /\ revision'[p] \in Revision
                 /\ revision'[p].change = revision[p].change /\ revision'[p].target = revision[p].target
                 /\ revision'[p].content = revision[p].content
                 /\ revision'[p].superseded = revision[p].superseded
                 /\ revision'[p].applied = (revision[p].applied \/ (mine /\ p[2] \in f.done))
                 /\ revision'[p].grouped = (revision[p].grouped /\ ~(mine /\ p[2] \in f.skip))
                 /\ revision'[p].item =
                      IF mine /\ p[2] \in f.skip THEN "rejected"
                      ELSE IF mine /\ p[2] = f.on.code THEN f.verdict ELSE revision[p].item
<1> DEFINE f == decision[d]
           mine == p[1] = f.on.rel
           r == revision[p]
<1>1. /\ f \in Decision /\ f.pc \in Phases /\ f.verdict \in {"approved", "rejected"}
      /\ f.skip \cap f.done = {} /\ revision[p] \in Revision \cup {None}
  BY DecisionShape DEF Commit, TypeOK, Phases, WritesSound
<1>2. revision'[p] =
        IF ~mine \/ ~Exists(p) THEN r
        ELSE IF p[2] \in f.skip THEN [r EXCEPT !.grouped = FALSE, !.item = "rejected"]
        ELSE [r EXCEPT !.applied = @ \/ p[2] \in f.done,
                       !.item = IF p[2] = f.on.code THEN f.verdict ELSE @]
  BY DEF Commit, RevisionAfter
<1>3. CASE ~mine \/ r = None
  <2>1. revision'[p] = r
    BY <1>2, <1>3 DEF Exists
  <2>2. r # None => /\ r.applied \in BOOLEAN /\ r.grouped \in BOOLEAN /\ r \in Revision /\ ~mine
    BY <1>1, <1>3 DEF Revision
  <2> QED BY <1>1, <2>1, <2>2
<1>4. CASE mine /\ r # None /\ p[2] \in f.skip
  <2>1. revision'[p] = [r EXCEPT !.grouped = FALSE, !.item = "rejected"]
    BY <1>2, <1>4 DEF Exists
  <2>2. r \in Revision /\ p[2] \notin f.done
    BY <1>1, <1>4
  <2>3. /\ revision'[p] \in Revision
        /\ revision'[p].change = r.change /\ revision'[p].target = r.target
        /\ revision'[p].content = r.content /\ revision'[p].superseded = r.superseded
        /\ revision'[p].applied = r.applied /\ revision'[p].grouped = FALSE
        /\ revision'[p].item = "rejected" /\ r.applied \in BOOLEAN
    <3> HIDE DEF r
    <3> QED BY <2>1, <2>2 DEF Revision, Status
  <2>4. revision'[p] # None
    BY <2>3, NoneIsNone
  <2> QED BY <1>4, <2>2, <2>3, <2>4
<1>5. CASE mine /\ r # None /\ p[2] \notin f.skip
  <2> DEFINE done == r.applied \/ p[2] \in f.done
             item == IF p[2] = f.on.code THEN f.verdict ELSE r.item
  <2>1. revision'[p] = [r EXCEPT !.applied = done, !.item = item]
    BY <1>2, <1>5 DEF Exists
  <2>2. r \in Revision
    BY <1>1, <1>5
  <2>3. done \in BOOLEAN /\ item \in Status \cup {"none"}
    BY <1>1, <2>2 DEF Revision, Status
  <2>4. /\ revision'[p] \in Revision
        /\ revision'[p].change = r.change /\ revision'[p].target = r.target
        /\ revision'[p].content = r.content /\ revision'[p].superseded = r.superseded
        /\ revision'[p].applied = done /\ revision'[p].grouped = r.grouped
        /\ revision'[p].item = item /\ r.grouped \in BOOLEAN
    <3> HIDE DEF r, done, item
    <3> QED BY <2>1, <2>2, <2>3 DEF Revision
  <2>5. revision'[p] # None
    BY <2>4, NoneIsNone
  <2> QED BY <1>5, <2>2, <2>4, <2>5
<1> QED BY <1>3, <1>4, <1>5

\* The items of a family after the commit of f.
LEMMA CommitItems ==
  ASSUME TypeOK, NEW d \in Deciders, Commit(d), SubjectSound(decision[d].on), NEW rel \in Releases
  PROVE  LET f == decision[d]
             mine == f.on.code = Family /\ rel = f.on.rel
         IN /\ familyItems'[rel] \in Seq(Status) /\ Len(familyItems'[rel]) = Len(familyItems[rel])
            /\ Len(familyItems[rel]) \in Nat
            /\ ~mine => familyItems'[rel] = familyItems[rel]
            /\ mine => /\ f.on.index \in 1..Len(familyItems[rel])
                       /\ familyItems'[rel][f.on.index] = f.verdict
            /\ \A i \in 1..Len(familyItems[rel]) :
                 ~(mine /\ i = f.on.index) => familyItems'[rel][i] = familyItems[rel][i]
            /\ PendingItems(rel)' \subseteq PendingItems(rel)
            /\ mine => f.on.index \notin PendingItems(rel)'
<1> DEFINE f == decision[d]
           mine == f.on.code = Family /\ rel = f.on.rel
           items == familyItems[rel]
<1>1. /\ f \in Decision /\ f.pc \in Phases /\ f.verdict \in {"approved", "rejected"}
      /\ f.on.rel \in Releases
  BY DecisionShape, SubjectShape DEF Commit, TypeOK, Phases, Idle
<1>2. /\ familyItems \in [Releases -> Seq(Status)] /\ items \in Seq(Status) /\ Len(items) \in Nat
      /\ DOMAIN items = 1..Len(items) /\ f.verdict \in Status
  BY <1>1 DEF TypeOK, Status
<1>3. familyItems' = IF f.on.code = Family
        THEN [familyItems EXCEPT ![f.on.rel][f.on.index] = f.verdict] ELSE familyItems
  BY DEF Commit, ItemsAfter
<1>4. CASE ~mine
  <2>1. familyItems'[rel] = items
    BY <1>1, <1>2, <1>3, <1>4
  <2> QED BY <1>2, <1>4, <2>1 DEF PendingItems
<1>5. CASE mine
  <2>1. f.on.index \in 1..Len(items)
    BY <1>5 DEF SubjectSound
  <2>2. familyItems'[rel] = [items EXCEPT ![f.on.index] = f.verdict]
    BY <1>1, <1>2, <1>3, <1>5
  <2>3. /\ familyItems'[rel] \in Seq(Status) /\ Len(familyItems'[rel]) = Len(items)
        /\ familyItems'[rel][f.on.index] = f.verdict
        /\ \A i \in 1..Len(items) : i # f.on.index => familyItems'[rel][i] = items[i]
        /\ DOMAIN familyItems'[rel] = 1..Len(items)
    <3> HIDE DEF items
    <3> QED BY <1>2, <2>1, <2>2
  <2>4. PendingItems(rel)' \subseteq PendingItems(rel) /\ f.on.index \notin PendingItems(rel)'
    BY <1>1, <1>2, <2>3 DEF PendingItems
  <2> QED BY <1>2, <1>5, <2>1, <2>3, <2>4
<1> QED BY <1>4, <1>5

\* The tables after the commit of f.
LEMMA CommitTables ==
  ASSUME ReviewInv, NEW d \in Deciders, Commit(d)
  PROVE  LET f == decision[d] IN
         /\ f \in Decision /\ f.pc = "commit" /\ f.pc \in Phases /\ Writing(d) /\ Busy(d)
         /\ f.on \in Subject /\ f.on.rel \in Releases /\ f.verdict \in {"approved", "rejected"}
         /\ f.todo = {} /\ f.done \subseteq Codes
         /\ WritesSound(f) /\ PutsSound(f) /\ SubjectSound(f.on)
         /\ measure' \in Puts /\ measure' = View(f) /\ \A i \in MeasureIds : measure'[i] = Seen(f, i)
         /\ \A i, c : IsRowOf(i, c) => IsRowOf(i, c)'
         /\ \A p \in Proposals : Exists(p)' <=> Exists(p)
         /\ Staged' = Staged
         /\ \A p \in Staged : IsOpen(p)' => IsOpen(p)
         /\ \A rel \in Releases : PendingItems(rel)' \subseteq PendingItems(rel)
         /\ \A rel \in Releases : (announcement'[rel] = "none") <=> (announcement[rel] = "none")
         /\ announcement' \in [Releases -> {"none", "open", "resolved"}]
         /\ \A rel \in Releases : NewestStaged(rel)' <=> NewestStaged(rel)
         /\ decision'[d] = Idle /\ \A e \in Deciders \ {d} : decision'[e] = decision[e]
         /\ mishaps' \subseteq mishaps \cup {"backdating"} /\ mishaps \subseteq mishaps'
         /\ mishaps' = {} => ~MovesBack(f)
         /\ UNCHANGED <<feed, published, sync, bounds>>
<1> DEFINE f == decision[d]
<1>1. /\ TypeOK /\ DecisionsSound /\ RevisionsSound /\ FamiliesSound
      /\ f.pc = "commit" /\ measure' = [i \in MeasureIds |-> Row(d, i)]
      /\ announcement' =
          IF f.resolves THEN [announcement EXCEPT ![f.on.rel] = "resolved"] ELSE announcement
      /\ decision' = [decision EXCEPT ![d] = Idle]
      /\ mishaps' = mishaps \cup Mark("backdating", \E i \in MeasureIds :
           measure[i] # None /\ measure'[i] # None /\ measure'[i].from < measure[i].from)
      /\ UNCHANGED <<feed, published, sync, bounds>>
  BY DEF Commit, ReviewInv, Sound
<1>2. /\ f \in Decision /\ f.pc \in Phases /\ Writing(d) /\ Busy(d)
      /\ f.on \in Subject /\ f.on.rel \in Releases /\ f.verdict \in {"approved", "rejected"}
      /\ f.done \subseteq Codes
  BY <1>1, DecisionShape, SubjectShape DEF TypeOK, Writing, Busy, Phases
<1>3. WritesSound(f) /\ PutsSound(f) /\ SubjectSound(f.on) /\ f.todo = {}
  BY <1>1, <1>2 DEF DecisionsSound, WritesSound
<1>4. measure' \in Puts /\ measure' = View(f) /\ \A i \in MeasureIds : measure'[i] = Seen(f, i)
  <2>1. measure' = View(f)
    BY <1>1 DEF View, Seen, Row
  <2> QED BY <1>1, <1>2, <2>1, ViewShape
<1>5. \A i, c : IsRowOf(i, c) => IsRowOf(i, c)'
  BY <1>3, <1>4, SeenRow DEF IsRowOf
<1>6. \A p \in Proposals : Exists(p)' <=> Exists(p)
  BY <1>1, <1>3, CommitRows DEF Exists
<1>7. Staged' = Staged
  BY <1>6 DEF Staged
<1>8. \A rel \in Releases : PendingItems(rel)' \subseteq PendingItems(rel)
  BY <1>1, <1>3, CommitItems
<1>9. ASSUME NEW p \in Staged, IsOpen(p)' PROVE IsOpen(p)
  <2>1. /\ p \in Proposals /\ revision[p] # None /\ revision[p] \in Revision
        /\ p[1] \in Releases
    BY <1>1, StagedShape, RevisionShape
  <2>2. /\ revision'[p].superseded = revision[p].superseded
        /\ revision'[p].applied = (revision[p].applied \/ (p[1] = f.on.rel /\ p[2] \in f.done))
        /\ revision'[p].grouped = (revision[p].grouped /\ ~(p[1] = f.on.rel /\ p[2] \in f.skip))
        /\ revision'[p].item =
             IF p[1] = f.on.rel /\ p[2] \in f.skip THEN "rejected"
             ELSE IF p[1] = f.on.rel /\ p[2] = f.on.code THEN f.verdict ELSE revision[p].item
    BY <1>1, <1>3, <2>1, CommitRows
  <2>3. PendingItems(p[1])' # {} => PendingItems(p[1]) # {}
    BY <1>8, <2>1
  <2>4. /\ ~revision'[p].applied /\ ~revision'[p].superseded
        /\ IF revision'[p].grouped THEN PendingItems(p[1])' # {} ELSE revision'[p].item = "pending"
    BY <1>9 DEF IsOpen
  <2> QED BY <1>2, <2>1, <2>2, <2>3, <2>4 DEF IsOpen, Exists
<1>10. /\ \A rel \in Releases : (announcement'[rel] = "none") <=> (announcement[rel] = "none")
       /\ announcement' \in [Releases -> {"none", "open", "resolved"}]
  <2>1. announcement[f.on.rel] # "none"
    <3>1. CASE f.on.code = Family
      <4>1. f.on.index \in 1..Len(familyItems[f.on.rel])
        BY <1>3, <3>1 DEF SubjectSound
      <4>2. familyItems[f.on.rel] # <<>>
        BY <4>1
      <4> QED BY <1>1, <1>2, <4>2 DEF FamiliesSound
    <3>2. CASE f.on.code # Family
      <4>1. f.on.code \in Codes /\ Exists(<<f.on.rel, f.on.code>>)
        BY <1>2, <1>3, <3>2, SubjectShape DEF SubjectSound
      <4> QED BY <1>1, <1>2, <4>1, Proposal DEF RevisionsSound
    <3> QED BY <3>1, <3>2
  <2> QED BY <1>1, <1>2, <2>1 DEF TypeOK
<1>11. \A rel \in Releases : NewestStaged(rel)' <=> NewestStaged(rel)
  BY <1>10 DEF NewestStaged
<1>12. decision'[d] = Idle /\ \A e \in Deciders \ {d} : decision'[e] = decision[e]
  BY <1>1 DEF TypeOK
<1>13. mishaps' \subseteq mishaps \cup {"backdating"} /\ mishaps \subseteq mishaps'
  BY <1>1 DEF Mark
<1>14. mishaps' = {} => ~MovesBack(f)
  <2> SUFFICES ASSUME MovesBack(f) PROVE "backdating" \in mishaps'
    OBVIOUS
  <2>1. PICK i \in MeasureIds : f.put[i] # None /\ measure[i] # None /\ f.put[i].from < measure[i].from
    BY DEF MovesBack
  <2>2. measure'[i] = f.put[i]
    BY <1>4, <2>1 DEF Seen
  <2> QED BY <1>1, <2>1, <2>2 DEF Mark
<1> QED
  BY <1>1, <1>2, <1>3, <1>4, <1>5, <1>6, <1>7, <1>8, <1>9, <1>10, <1>11, <1>12, <1>13, <1>14

\* A commit: the part that holds whatever overlaps.
LEMMA CommitSound ==
  ASSUME ReviewInv, NEW d \in Deciders, Commit(d) PROVE Sound'
<1> DEFINE f == decision[d]
<1>1. /\ TypeOK /\ RevisionsSound /\ FamiliesSound /\ SyncsSound /\ DecisionsSound /\ LocksApart
  BY DEF ReviewInv, Sound
<1>2. /\ f \in Decision /\ f.pc \in Phases /\ Writing(d) /\ Busy(d) /\ f.on.rel \in Releases
      /\ f.on \in Subject /\ WritesSound(f) /\ PutsSound(f) /\ SubjectSound(f.on)
      /\ measure' \in Puts /\ \A i \in MeasureIds : measure'[i] = Seen(f, i)
  BY CommitTables
<1>3. \A i, c : IsRowOf(i, c) => IsRowOf(i, c)'
  BY CommitTables
<1>4. /\ \A p \in Proposals : Exists(p)' <=> Exists(p)
      /\ Staged' = Staged
      /\ \A rel \in Releases : (announcement'[rel] = "none") <=> (announcement[rel] = "none")
      /\ announcement' \in [Releases -> {"none", "open", "resolved"}]
  BY CommitTables
<1>5. /\ decision'[d] = Idle /\ \A e \in Deciders \ {d} : decision'[e] = decision[e]
      /\ mishaps' \subseteq mishaps \cup {"backdating"}
      /\ UNCHANGED <<feed, published, sync, bounds>>
      /\ decision' = [decision EXCEPT ![d] = Idle]
  BY CommitTables DEF Commit
<1>6. \A p \in Staged : /\ revision'[p].change = revision[p].change /\ revision'[p].target = revision[p].target
                        /\ revision'[p].content = revision[p].content
                        /\ revision'[p].grouped =>
                             revision[p].grouped /\ ~(p[1] = f.on.rel /\ p[2] \in f.skip)
                        /\ ~(p[1] = f.on.rel /\ (p[2] \in f.skip \/ p[2] = f.on.code)) =>
                             revision'[p].item = revision[p].item
  BY <1>1, <1>2, StagedShape, RevisionShape, CommitRows
<1>7. TypeOK'
  <2>1. revision' \in [Proposals -> Revision \cup {None}]
    <3>1. revision' = [p \in Proposals |-> revision'[p]]
      BY DEF Commit, RevisionAfter
    <3>2. \A p \in Proposals : revision'[p] \in Revision \cup {None}
      BY <1>1, <1>2, CommitRows DEF TypeOK
    <3> QED BY <3>1, <3>2
  <2>2. familyItems' \in [Releases -> Seq(Status)]
    <3>1. familyItems' = [rel \in Releases |-> familyItems'[rel]]
      BY <1>1 DEF Commit, ItemsAfter, TypeOK
    <3>2. \A rel \in Releases : familyItems'[rel] \in Seq(Status)
      BY <1>1, <1>2, CommitItems
    <3> QED BY <3>1, <3>2
  <2>3. effects' \in [Proposals -> Nat]
    BY <1>1 DEF Commit, TypeOK
  <2>4. measure' \in [MeasureIds -> Measure \cup {None}]
    BY <1>2 DEF Puts
  <2>5. Idle \in Decision
    BY DEF Decision
  <2>6. decision' \in [Deciders -> Decision]
    BY <1>1, <1>5, <2>5 DEF TypeOK
  <2>7. /\ feed' \in Feeds /\ published' \in Releases /\ sync' \in [Syncs -> Sync]
        /\ mishaps' \subseteq {"race", "crossing", "backdating"} /\ decisions' \in Nat /\ syncs' \in Nat
    BY <1>1, <1>5 DEF TypeOK, bounds
  <2> QED BY <1>4, <2>1, <2>2, <2>3, <2>4, <2>6, <2>7 DEF TypeOK
<1>8. RevisionsSound'
  <2> SUFFICES ASSUME NEW p \in Staged
               PROVE  /\ WellFormed(revision[p], p[2])'
                      /\ revision'[p].grouped => revision'[p].item = "none" /\ revision'[p].change = "create_measure"
                      /\ p[1] <= published' /\ announcement'[p[1]] # "none"
    BY <1>4 DEF RevisionsSound
  <2>1. WellFormed(revision[p], p[2]) /\ p[1] \in Releases /\ p \in Proposals /\ p = <<p[1], p[2]>> /\ p[2] \in Codes
    BY <1>1, StagedShape DEF RevisionsSound
  <2>2. WellFormed(revision[p], p[2])'
    BY <1>3, <1>6, <2>1 DEF WellFormed
  <2>3. revision'[p].grouped => revision'[p].item = "none" /\ revision'[p].change = "create_measure"
    <3> SUFFICES ASSUME revision'[p].grouped
                 PROVE  revision'[p].item = "none" /\ revision'[p].change = "create_measure"
      OBVIOUS
    <3>1. revision[p].grouped /\ ~(p[1] = f.on.rel /\ p[2] \in f.skip)
      BY <1>6
    <3>2. ~(p[1] = f.on.rel /\ p[2] = f.on.code)
      BY <1>2, <2>1, <3>1, DistinctAssumption DEF SubjectSound
    <3> QED BY <1>1, <1>6, <3>1, <3>2 DEF RevisionsSound
  <2>4. p[1] <= published' /\ announcement'[p[1]] # "none"
    BY <1>1, <1>4, <1>5, <2>1 DEF RevisionsSound
  <2> QED BY <2>2, <2>3, <2>4
<1>9. FamiliesSound'
  <2> SUFFICES ASSUME NEW rel \in Releases
               PROVE  /\ familyItems'[rel] # <<>> => announcement'[rel] # "none"
                      /\ announcement'[rel] # "none" => rel <= published'
    BY DEF FamiliesSound
  <2>1. familyItems'[rel] # <<>> => familyItems[rel] # <<>>
    <3>1. Len(familyItems'[rel]) = Len(familyItems[rel]) /\ familyItems'[rel] \in Seq(Status)
      BY <1>1, <1>2, CommitItems
    <3> QED BY <3>1
  <2> QED BY <1>1, <1>4, <1>5, <2>1 DEF FamiliesSound
<1>10. SyncsSound'
  BY <1>1, <1>3, <1>4, <1>5, <1>6 DEF SyncsSound, SyncSound, Knows, WellFormed
<1>11. \A e \in Deciders : /\ Busy(e)' => e # d /\ Busy(e) /\ decision'[e] = decision[e]
                          /\ Writing(e)' => e # d /\ Writing(e) /\ decision'[e] = decision[e]
  BY <1>5 DEF Busy, Writing, Idle
<1>12. LocksApart'
  BY <1>1, <1>5 DEF LocksApart, Writing, Idle
<1>13. DecisionsSound'
  <2>1. ASSUME NEW e \in Deciders, Busy(e)' PROVE SubjectSound(decision[e].on)'
    <3>1. PICK on : on = decision[e].on
      OBVIOUS
    <3>2. Busy(e) /\ decision'[e].on = on /\ SubjectSound(on)
      BY <1>1, <1>5, <2>1, <3>1 DEF DecisionsSound, Busy
    <3>3. on.rel \in Releases /\ on.code \in Codes \cup {Family}
      BY <1>1, <3>1, <3>2, DecisionShape, SubjectShape DEF TypeOK, Busy
    <3>4. on.code # Family => /\ Exists(<<on.rel, on.code>>)' /\ ~revision'[<<on.rel, on.code>>].grouped
                              /\ on.index = 0
      BY <1>4, <1>6, <3>2, <3>3, Proposal DEF SubjectSound
    <3>5. on.code = Family => on.index \in 1..Len(familyItems'[on.rel])
      BY <1>1, <1>2, <3>2, <3>3, CommitItems DEF SubjectSound
    <3> QED BY <3>2, <3>4, <3>5 DEF SubjectSound, Exists
  <2>2. ASSUME NEW e \in Deciders, Writing(e)' PROVE WritesSound(decision[e])'
    <3>1. PICK g : g = decision[e]
      OBVIOUS
    <3>2. e # d /\ Writing(e) /\ decision'[e] = g /\ WritesSound(g)
      BY <1>1, <1>5, <2>2, <3>1 DEF DecisionsSound, Writing, Idle
    <3>3. /\ g.on.rel \in Releases /\ g.todo \subseteq Codes /\ g.done \subseteq Codes /\ g.skip \subseteq Codes
          /\ g.plan \in Plan
      BY <1>1, <3>1, <3>2, DecisionShape, SubjectShape DEF TypeOK, Writing, Phases, Idle
    <3>4. \A i \in MeasureIds : g.put[i] # None => measure'[i] = measure[i]
      BY <1>1, <1>2, <3>1, <3>2 DEF LocksApart, Seen
    <3>5. PutsSound(g)'
      BY <3>2, <3>4 DEF WritesSound, PutsSound
    <3>6. ASSUME NEW i \in MeasureIds, Seen(g, i) # None
          PROVE  Seen(g, i)' # None /\ Seen(g, i)'.code = Seen(g, i).code
      <4>1. CASE g.put[i] # None
        BY <4>1 DEF Seen
      <4>2. CASE g.put[i] = None
        <5>1. Seen(g, i) = measure[i] /\ measure[i] # None
          BY <3>6, <4>2 DEF Seen
        <5>2. IsRowOf(i, measure[i].code)
          BY <5>1 DEF IsRowOf
        <5>3. PICK c : c = measure[i].code
          OBVIOUS
        <5>4. measure'[i] # None /\ measure'[i].code = c
          BY <1>3, <5>2, <5>3 DEF IsRowOf
        <5> QED BY <4>2, <5>1, <5>3, <5>4 DEF Seen
      <4> QED BY <4>1, <4>2
    <3>7. g.pc = "write" => PlanSound(g)'
      BY <3>2, <3>3, <3>6 DEF WritesSound, PlanSound, Plan
    <3>8. \A c \in g.todo \cup g.done \cup g.skip : Exists(<<g.on.rel, c>>)'
      BY <1>4, <3>2, <3>3, Proposal DEF WritesSound
    <3>9. WritesSound(g)'
      BY <3>2, <3>5, <3>7, <3>8 DEF WritesSound
    <3> QED BY <3>2, <3>9
  <2> QED BY <2>1, <2>2 DEF DecisionsSound
<1> QED BY <1>7, <1>8, <1>9, <1>10, <1>12, <1>13 DEF Sound

\* Nobody else decides what f has applied or taken out of its family.
LEMMA CommitApart ==
  ASSUME ReviewInv, Quiet, NEW d \in Deciders, Commit(d), NEW e \in Deciders, e # d, Writing(e),
         decision[e].on.rel = decision[d].on.rel
  PROVE  /\ (decision[e].todo \cup decision[e].done) \cap decision[d].done = {}
         /\ decision[e].on.code = Family =>
              /\ decision[d].on.code # Family
              /\ decision[d].skip = {}
<1> DEFINE f == decision[d]
           g == decision[e]
<1>1. /\ TypeOK /\ DecisionsSound /\ LocksApart /\ OneFamilyItem /\ Unapplied
  BY DEF ReviewInv, Sound, Calm
<1>2. /\ f \in Decision /\ Writing(d) /\ Busy(d) /\ f.on \in Subject /\ f.todo = {}
      /\ WritesSound(f) /\ SubjectSound(f.on)
  BY CommitTables
<1>3. g \in Decision /\ g.pc \in Phases /\ Busy(e) /\ g.on \in Subject /\ WritesSound(g) /\ SubjectSound(g.on)
  BY <1>1, DecisionShape DEF TypeOK, Busy, Writing, Phases, DecisionsSound
<1>4. f.on # g.on /\ UnappliedIn(f) /\ UnappliedIn(g)
  BY <1>1, <1>2 DEF LocksApart, Unapplied
<1>5. ~(f.on.code = Family /\ g.on.code = Family)
  BY <1>1, <1>2, <1>3, <1>4 DEF OneFamilyItem
<1>6. ASSUME NEW c, c \in g.todo \cup g.done, c \in f.done PROVE FALSE
  <2>1. CASE f.on.code = Family
    <3>1. revision[<<f.on.rel, c>>].grouped
      BY <1>4, <1>6, <2>1 DEF UnappliedIn
    <3>2. c = g.on.code /\ g.on.code # Family
      BY <1>3, <1>5, <1>6, <2>1 DEF WritesSound
    <3> QED BY <1>3, <3>1, <3>2 DEF SubjectSound
  <2>2. CASE f.on.code # Family
    <3>1. c = f.on.code /\ ~revision[<<f.on.rel, c>>].grouped /\ f.on.index = 0
      BY <1>2, <1>6, <2>2 DEF WritesSound, SubjectSound
    <3>2. g.on.code # Family
      BY <1>4, <1>6, <3>1 DEF UnappliedIn
    <3>3. c = g.on.code /\ g.on.index = 0
      BY <1>3, <1>6, <3>2 DEF WritesSound, SubjectSound
    <3>4. \A o1, o2 \in Subject : o1.rel = o2.rel /\ o1.code = o2.code /\ o1.index = o2.index => o1 = o2
      BY DEF Subject
    <3> QED BY <1>2, <1>3, <1>4, <3>1, <3>3, <3>4
  <2> QED BY <2>1, <2>2
<1>7. g.on.code = Family => f.on.code # Family /\ f.skip = {}
  BY <1>2, <1>5 DEF WritesSound
<1> QED BY <1>6, <1>7

\* A commit: the part that holds until a sync overlaps.
LEMMA CommitCalm ==
  ASSUME ReviewInv, NEW d \in Deciders, Commit(d) PROVE Calm'
<1> DEFINE f == decision[d]
<1>1. SUFFICES ASSUME Quiet'
      PROVE  /\ SyncApart' /\ OlderClosed' /\ OwnSuperseded' /\ PendingLast' /\ SyncsCalm'
             /\ OneFamilyItem' /\ Unapplied' /\ AllAccounted'
  BY DEF Calm
<1>2. /\ mishaps \subseteq mishaps' /\ UNCHANGED <<feed, sync>>
      /\ Staged' = Staged /\ \A p \in Staged : IsOpen(p)' => IsOpen(p)
      /\ \A rel \in Releases : PendingItems(rel)' \subseteq PendingItems(rel)
      /\ decision'[d] = Idle /\ \A e \in Deciders \ {d} : decision'[e] = decision[e]
  BY CommitTables
<1>3. /\ f.pc \in Phases /\ Writing(d) /\ Busy(d) /\ f.on.rel \in Releases
      /\ f.verdict \in {"approved", "rejected"}
      /\ WritesSound(f) /\ SubjectSound(f.on)
      /\ \A p \in Proposals : Exists(p)' <=> Exists(p)
      /\ \A rel \in Releases : NewestStaged(rel)' <=> NewestStaged(rel)
  BY CommitTables
<1>4. /\ Quiet /\ TypeOK /\ SyncApart /\ OlderClosed /\ OwnSuperseded /\ PendingLast
      /\ OneFamilyItem /\ Unapplied /\ AllAccounted
  BY <1>1, <1>2 DEF ReviewInv, Sound, Calm, Quiet
<1>5. \A s \in Syncs : ~Syncing(s)
  BY <1>3, <1>4 DEF SyncApart
<1>6. SyncApart' /\ SyncsCalm'
  BY <1>2, <1>5 DEF SyncApart, SyncNewest, SyncsCalm, SyncCalm, Syncing, Knows, Idle
<1>7. OlderClosed'
  BY <1>2, <1>4 DEF OlderClosed
<1>8. \A p \in Staged :
        /\ p \in Proposals
        /\ revision'[p].superseded = revision[p].superseded
        /\ revision'[p].content = revision[p].content /\ revision'[p].change = revision[p].change
        /\ revision'[p].applied = (revision[p].applied \/ (p[1] = f.on.rel /\ p[2] \in f.done))
        /\ revision'[p].grouped = (revision[p].grouped /\ ~(p[1] = f.on.rel /\ p[2] \in f.skip))
        /\ revision'[p].item =
             IF p[1] = f.on.rel /\ p[2] \in f.skip THEN "rejected"
             ELSE IF p[1] = f.on.rel /\ p[2] = f.on.code THEN f.verdict ELSE revision[p].item
  BY <1>3, <1>4, StagedShape, RevisionShape, CommitRows
<1>9. OwnSuperseded'
  BY <1>2, <1>3, <1>4, <1>8 DEF OwnSuperseded
<1>10. PendingLast'
  <2>1. \A rel \in Releases : Len(familyItems'[rel]) = Len(familyItems[rel])
    BY <1>3, <1>4, CommitItems
  <2> QED BY <1>2, <1>4, <2>1 DEF PendingLast
<1>11. \A e \in Deciders : Busy(e)' => e # d /\ Busy(e)
  BY <1>2 DEF Busy
<1>12. OneFamilyItem'
  <2> SUFFICES ASSUME NEW e \in Deciders, Busy(e)', decision'[e].on.code = Family
               PROVE  /\ PendingItems(decision[e].on.rel)' \subseteq {decision'[e].on.index}
                      /\ \A b \in Deciders :
                           Busy(b)' /\ decision'[b].on.code = Family
                             /\ decision'[b].on.rel = decision'[e].on.rel
                           => decision'[b].on = decision'[e].on
    BY Zenon DEF OneFamilyItem
  <2>1. PICK on : on = decision[e].on
    OBVIOUS
  <2>2. Busy(e) /\ decision'[e].on = on /\ on.rel \in Releases
    BY <1>2, <1>4, <2>1, DecisionShape, SubjectShape DEF Busy, TypeOK
  <2>3. /\ PendingItems(on.rel) \subseteq {on.index}
        /\ \A b \in Deciders :
             Busy(b) /\ decision[b].on.code = Family /\ decision[b].on.rel = on.rel
             => decision[b].on = on
    BY <1>4, <2>1, <2>2 DEF OneFamilyItem
  <2>4. \A b \in Deciders : Busy(b)' => Busy(b) /\ decision'[b].on = decision[b].on
    BY <1>2 DEF Busy
  <2>5. PendingItems(on.rel)' \subseteq {on.index}
    BY <1>2, <2>2, <2>3
  <2> QED BY <2>2, <2>3, <2>4, <2>5
<1>13. Unapplied'
  <2> SUFFICES ASSUME NEW e \in Deciders, Writing(e)' PROVE UnappliedIn(decision[e])'
    BY DEF Unapplied
  <2>1. PICK g : g = decision[e]
    OBVIOUS
  <2>2. e # d /\ Writing(e) /\ decision'[e] = g
    BY <1>2, <2>1 DEF Writing, Idle
  <2>3. g \in Decision /\ g.pc \in Phases /\ g.on.rel \in Releases /\ UnappliedIn(g)
    BY <1>4, <2>1, <2>2, DecisionShape, SubjectShape DEF TypeOK, Writing, Phases, Idle, Unapplied
  <2>4. WritesSound(g) /\ g.todo \cup g.done \cup g.skip \subseteq Codes
    BY <2>1, <2>2, <2>3, DecisionShape DEF ReviewInv, Sound, DecisionsSound
  <2>5. g.on.rel = f.on.rel => /\ (g.todo \cup g.done) \cap f.done = {}
                               /\ g.on.code = Family => f.skip = {}
    BY <1>4, <2>1, <2>2, CommitApart
  <2>6. \A c \in g.todo \cup g.done \cup g.skip : <<g.on.rel, c>> \in Staged
    BY <2>3, <2>4, Proposal DEF WritesSound
  <2>7. \A c \in g.todo \cup g.done : ~revision'[<<g.on.rel, c>>].applied
    <3> SUFFICES ASSUME NEW c \in g.todo \cup g.done PROVE ~revision'[<<g.on.rel, c>>].applied
      OBVIOUS
    <3>1. PICK p : p = <<g.on.rel, c>>
      OBVIOUS
    <3>2. p \in Staged /\ p[1] = g.on.rel /\ p[2] = c /\ ~revision[p].applied
      BY <2>3, <2>6, <3>1 DEF UnappliedIn
    <3> QED BY <1>8, <2>5, <3>1, <3>2
  <2>8. g.on.code = Family => \A c \in g.todo \cup g.done \cup g.skip : revision'[<<g.on.rel, c>>].grouped
    <3> SUFFICES ASSUME g.on.code = Family, NEW c \in g.todo \cup g.done \cup g.skip
                 PROVE  revision'[<<g.on.rel, c>>].grouped
      OBVIOUS
    <3>1. PICK p : p = <<g.on.rel, c>>
      OBVIOUS
    <3>2. p \in Staged /\ p[1] = g.on.rel /\ p[2] = c /\ revision[p].grouped
      BY <2>3, <2>6, <3>1 DEF UnappliedIn
    <3> QED BY <1>8, <2>5, <3>1, <3>2
  <2>9. Members(g.on.rel)' \subseteq Members(g.on.rel)
    BY <1>3, <1>8, <2>3, Proposal DEF Members
  <2>10. UnappliedIn(g)'
    BY <2>3, <2>7, <2>8, <2>9 DEF UnappliedIn
  <2> QED BY <2>2, <2>10
<1>14. AllAccounted'
  <2> SUFFICES ASSUME NEW rel \in Releases, NewestStaged(rel)
               PROVE  /\ \A p \in Staged : IsOpen(p)' => Accounted(p, rel)'
                      /\ \A e \in Deciders : Busy(e)' =>
                           \A c \in Subjects(decision[e])' : Accounted(<<decision[e].on.rel, c>>, rel)'
    BY <1>2, <1>3 DEF AllAccounted
  <2>1. \A p \in Staged : Accounted(p, rel) => Accounted(p, rel)'
    BY <1>2, <1>8 DEF Accounted
  <2>2. \A p \in Staged : IsOpen(p)' => Accounted(p, rel)'
    BY <1>2, <1>4, <2>1 DEF AllAccounted
  <2>3. ASSUME NEW e \in Deciders, Busy(e)'
        PROVE  \A c \in Subjects(decision[e])' : Accounted(<<decision[e].on.rel, c>>, rel)'
    <3>1. PICK g : g = decision[e]
      OBVIOUS
    <3>2. e # d /\ Busy(e) /\ decision'[e] = g
      BY <1>2, <2>3, <3>1 DEF Busy
    <3>3. g \in Decision /\ g # Idle /\ g.on.rel \in Releases /\ g.on \in Subject
      BY <1>4, <3>1, <3>2, DecisionShape, SubjectShape DEF TypeOK, Busy
    <3>4. Members(g.on.rel)' \subseteq Members(g.on.rel)
      BY <1>3, <1>8, <3>3, Proposal DEF Members
    <3>5. Subjects(g)' \subseteq Subjects(g)
      BY <3>4 DEF Subjects
    <3>6. \A c \in Subjects(g) : Accounted(<<g.on.rel, c>>, rel)
      BY <1>4, <3>1, <3>2 DEF AllAccounted
    <3>7. \A c \in Subjects(g) : <<g.on.rel, c>> \in Staged
      <4>1. g.pc = "read" => SubjectSound(g.on)
        BY <3>1, <3>2 DEF ReviewInv, Sound, DecisionsSound
      <4>2. g.pc \in Phases => WritesSound(g)
        BY <3>1, <3>2 DEF ReviewInv, Sound, DecisionsSound, Writing, Phases
      <4>3. \A c \in Subjects(g) : c \in Codes /\ Exists(<<g.on.rel, c>>)
        BY <3>3, <4>1, <4>2, DecisionShape, SubjectShape
           DEF Subjects, SubjectSound, WritesSound, Members
      <4> QED BY <3>3, <4>3, Proposal
    <3>8. \A c \in Subjects(g)' : Accounted(<<g.on.rel, c>>, rel)'
      BY <2>1, <3>5, <3>6, <3>7
    <3> QED BY <3>2, <3>8
  <2> QED BY <2>2, <2>3
<1> QED BY <1>6, <1>7, <1>9, <1>10, <1>12, <1>13, <1>14

\* A commit leaves nothing unapplied behind what it has approved.
LEMMA CommitStranded ==
  ASSUME ReviewInv, NEW d \in Deciders, Commit(d) PROVE NothingStranded'
<1> DEFINE f == decision[d]
<1>1. SUFFICES ASSUME Quiet', NEW p \in Staged, Gate(revision'[p], familyItems'[p[1]]) = "approved"
      PROVE  revision'[p].applied \/ revision'[p].superseded
  BY CommitTables DEF NothingStranded, Quiet
<1>2. /\ mishaps \subseteq mishaps' /\ Writing(d) /\ f.pc \in Phases /\ f.on.rel \in Releases
      /\ f.verdict \in {"approved", "rejected"} /\ f.todo = {} /\ WritesSound(f) /\ SubjectSound(f.on)
  BY CommitTables
<1>3. TypeOK /\ Quiet /\ NothingStranded /\ UnappliedIn(f)
  BY <1>1, <1>2 DEF ReviewInv, Sound, Calm, Quiet, Unapplied
<1>4. p \in Proposals /\ p[1] \in Releases /\ p[2] \in Codes /\ p = <<p[1], p[2]>>
      /\ revision[p] \in Revision /\ revision[p] # None /\ Exists(p)
  BY <1>3, StagedShape, RevisionShape
<1>5. /\ revision'[p].superseded = revision[p].superseded
      /\ revision'[p].applied = (revision[p].applied \/ (p[1] = f.on.rel /\ p[2] \in f.done))
      /\ revision'[p].grouped = (revision[p].grouped /\ ~(p[1] = f.on.rel /\ p[2] \in f.skip))
      /\ revision'[p].item =
           IF p[1] = f.on.rel /\ p[2] \in f.skip THEN "rejected"
           ELSE IF p[1] = f.on.rel /\ p[2] = f.on.code THEN f.verdict ELSE revision[p].item
  BY <1>2, <1>3, <1>4, CommitRows
<1>6. Gate(revision[p], familyItems[p[1]]) = "approved" => revision[p].applied \/ revision[p].superseded
  BY <1>3 DEF NothingStranded, Quiet
<1>7. CASE ~revision'[p].grouped
  <2>1. revision'[p].item = "approved"
    BY <1>1, <1>7 DEF Gate
  <2>2. CASE p[1] = f.on.rel /\ p[2] = f.on.code
    <3>1. f.on.code # Family /\ f.verdict = "approved"
      BY <1>4, <1>5, <2>1, <2>2, DistinctAssumption
    <3>2. f.done = {f.on.code}
      BY <1>2, <3>1 DEF WritesSound
    <3> QED BY <1>5, <2>2, <3>2
  <2>3. CASE ~(p[1] = f.on.rel /\ p[2] = f.on.code)
    <3>1. ~revision[p].grouped /\ revision[p].item = "approved"
      BY <1>5, <1>7, <2>1, <2>3
    <3> QED BY <1>5, <1>6, <3>1 DEF Gate
  <2> QED BY <2>2, <2>3
<1>8. CASE revision'[p].grouped
  <2> DEFINE items == familyItems[p[1]]
             mine == f.on.code = Family /\ p[1] = f.on.rel
  <2>1. revision[p].grouped /\ ~(p[1] = f.on.rel /\ p[2] \in f.skip)
    BY <1>5, <1>8
  <2>2. /\ familyItems'[p[1]] \in Seq(Status) /\ Len(familyItems'[p[1]]) = Len(items)
        /\ Len(items) \in Nat
        /\ mine => /\ f.on.index \in 1..Len(items) /\ familyItems'[p[1]][f.on.index] = f.verdict
        /\ \A i \in 1..Len(items) : ~(mine /\ i = f.on.index) => familyItems'[p[1]][i] = items[i]
    BY <1>2, <1>3, <1>4, CommitItems
  <2>3. familyItems'[p[1]] # <<>> /\ familyItems'[p[1]][Len(items)] = "approved"
    BY <1>1, <1>8, <2>2 DEF Gate
  <2>4. Len(items) \in 1..Len(items) /\ items # <<>>
    BY <2>2, <2>3
  <2>5. CASE mine /\ f.on.index = Len(items)
    <3>1. f.verdict = "approved"
      BY <2>2, <2>3, <2>5
    <3>2. Members(f.on.rel) \subseteq f.done \cup f.skip
      BY <1>2, <1>3, <2>5, <3>1 DEF UnappliedIn
    <3>3. ~revision[p].applied /\ ~revision[p].superseded => p[2] \in Members(f.on.rel)
      BY <1>4, <2>1, <2>5 DEF Members
    <3> QED BY <1>5, <2>1, <2>5, <3>2, <3>3
  <2>6. CASE ~(mine /\ f.on.index = Len(items))
    <3>1. items[Len(items)] = "approved"
      BY <2>2, <2>3, <2>4, <2>6
    <3> QED BY <1>5, <1>6, <2>1, <2>4, <3>1 DEF Gate
  <2> QED BY <2>5, <2>6
<1> QED BY <1>7, <1>8

\* What a transaction has not done stays as it is in the table.
LEMMA CommitWindows ==
  ASSUME ReviewInv, NEW d \in Deciders, Commit(d), NEW c \in Codes, c \notin decision[d].done
  PROVE  /\ WindowsOf(measure', c) = WindowsOf(measure, c)
         /\ \A i \in WindowsOf(measure, c) : /\ measure'[i].from = measure[i].from
                                             /\ measure'[i].content = measure[i].content
<1>1. PutsSound(decision[d]) /\ \A i \in MeasureIds : measure'[i] = Seen(decision[d], i)
  BY CommitTables
<1>2. \A i \in MeasureIds : measure'[i] # None /\ measure'[i].code = c <=> measure[i] # None /\ measure[i].code = c
  BY <1>1 DEF PutsSound, Seen
<1>3. \A i \in MeasureIds : measure[i] # None /\ measure[i].code = c =>
        measure'[i].from = measure[i].from /\ measure'[i].content = measure[i].content
  BY <1>1 DEF PutsSound, Seen
<1> QED BY <1>2, <1>3 DEF WindowsOf

\* A commit makes live what the newest release says, or keeps the proposal.
LEMMA CommitProposed ==
  ASSUME ReviewInv, NEW d \in Deciders, Commit(d) PROVE EveryChangeProposed'
<1> DEFINE f == decision[d]
<1>1. /\ mishaps \subseteq mishaps' /\ Writing(d) /\ Busy(d) /\ f.pc \in Phases /\ f.on.rel \in Releases
      /\ f.done \subseteq Codes /\ f.todo = {} /\ WritesSound(f) /\ feed' = feed
      /\ Staged' = Staged /\ \A p \in Proposals : Exists(p)' <=> Exists(p)
      /\ \A rel \in Releases : NewestStaged(rel)' <=> NewestStaged(rel)
  BY CommitTables
<1>2. SUFFICES ASSUME Quiet', NEW rel \in Releases, NEW c \in Codes, NewestStaged(rel)
      PROVE  \/ \E i \in LiveWindows(c)' :
                  feed[rel][c] = IF i = None THEN Absent ELSE measure'[i].content
             \/ Exists(<<rel, c>>)
             \/ \E p \in Staged : /\ p[2] = c /\ revision'[p].content = feed[rel][c]
                                   /\ ~revision'[p].superseded
             \/ \E p \in Applied' : /\ p[1] < rel /\ p[2] = c /\ feed[rel][c] = Absent
                                    /\ revision'[p].change = "create_measure"
  <2>1. \A rel \in Releases, c \in Codes : Exists(<<rel, c>>)' <=> Exists(<<rel, c>>)
    BY <1>1, Proposal
  <2> QED BY <1>1, <2>1, Proposal DEF EveryChangeProposed, Quiet
<1>3. TypeOK /\ Quiet /\ EveryChangeProposed /\ AllAccounted
  BY <1>1, <1>2 DEF ReviewInv, Sound, Calm, Quiet
<1>4. \A p \in Staged :
        /\ revision'[p].superseded = revision[p].superseded
        /\ revision'[p].content = revision[p].content /\ revision'[p].change = revision[p].change
        /\ revision'[p].applied = (revision[p].applied \/ (p[1] = f.on.rel /\ p[2] \in f.done))
  BY <1>1, <1>3, StagedShape, RevisionShape, CommitRows
<1>5. \A p \in Applied : p \in Applied'
  BY <1>1, <1>4 DEF Applied
<1>6. CASE c \in f.done
  <2>1. PICK p : p = <<f.on.rel, c>>
    OBVIOUS
  <2>2. p \in Staged /\ p[1] = f.on.rel /\ p[2] = c
    BY <1>1, <1>6, <2>1, Proposal DEF WritesSound
  <2>3. Accounted(p, rel)
    BY <1>1, <1>2, <1>3, <1>6, <2>1 DEF AllAccounted, Subjects, Phases
  <2>4. p \in Applied'
    BY <1>1, <1>4, <1>6, <2>2 DEF Applied
  <2>5. p[1] = rel => Exists(<<rel, c>>)
    BY <2>1, <2>2 DEF Staged
  <2> QED BY <1>4, <2>2, <2>3, <2>4, <2>5 DEF Accounted
<1>7. CASE c \notin f.done
  <2>1. \/ \E i \in LiveWindows(c) :
             feed[rel][c] = IF i = None THEN Absent ELSE measure[i].content
        \/ Exists(<<rel, c>>)
        \/ \E p \in Staged : /\ p[2] = c /\ revision[p].content = feed[rel][c]
                              /\ ~revision[p].superseded
        \/ \E p \in Applied : /\ p[1] < rel /\ p[2] = c /\ feed[rel][c] = Absent
                               /\ revision[p].change = "create_measure"
    BY <1>2, <1>3 DEF EveryChangeProposed, Quiet
  <2>2. CASE \E i \in LiveWindows(c) :
               feed[rel][c] = IF i = None THEN Absent ELSE measure[i].content
    <3>1. PICK i \in LiveWindows(c) : feed[rel][c] = IF i = None THEN Absent ELSE measure[i].content
      BY <2>2
    <3>2. i \in LiveWindows(c)'
      BY <1>7, CommitWindows DEF LiveWindows
    <3>3. i # None => measure'[i].content = measure[i].content
      BY <1>7, CommitWindows DEF LiveWindows
    <3> QED BY <3>1, <3>2, <3>3
  <2>3. CASE \E p \in Staged : /\ p[2] = c /\ revision[p].content = feed[rel][c]
                                /\ ~revision[p].superseded
    BY <1>4, <2>3
  <2>4. CASE \E p \in Applied : /\ p[1] < rel /\ p[2] = c /\ feed[rel][c] = Absent
                                 /\ revision[p].change = "create_measure"
    BY <1>4, <1>5, <2>4 DEF Applied
  <2> QED BY <2>1, <2>2, <2>3, <2>4
<1> QED BY <1>6, <1>7

\* A commit: the part about the windows.
LEMMA CommitOrderly ==
  ASSUME ReviewInv, NEW d \in Deciders, Commit(d) PROVE Orderly'
<1> DEFINE f == decision[d]
<1>1. /\ mishaps \subseteq mishaps' /\ Writing(d) /\ Busy(d) /\ f.pc \in Phases /\ f.on.rel \in Releases
      /\ f.done \subseteq Codes /\ f.todo = {} /\ WritesSound(f) /\ UNCHANGED <<feed, sync>>
      /\ Staged' = Staged /\ measure' = View(f) /\ (mishaps' = {} => ~MovesBack(f))
      /\ decision'[d] = Idle /\ \A e \in Deciders \ {d} : decision'[e] = decision[e]
  BY CommitTables
<1>2. SUFFICES ASSUME mishaps' = {}
      PROVE  /\ OneDecision' /\ SubjectOpen' /\ TableTiles(measure)' /\ NewestFits'
             /\ SyncsFit' /\ ViewsTile'
  BY DEF Orderly
<1>3. mishaps = {} /\ Quiet
  BY <1>1, <1>2 DEF Quiet
<1>4. /\ TypeOK /\ OneDecision /\ SubjectOpen /\ NewestFits /\ ViewsTile /\ OlderClosed /\ SyncApart
  BY <1>3 DEF ReviewInv, Sound, Calm, Orderly
<1>5. \A e \in Deciders : decision'[e] = Idle
  BY <1>1, <1>4 DEF OneDecision, Busy
<1>6. OneDecision' /\ SubjectOpen' /\ ViewsTile'
  BY <1>5 DEF OneDecision, SubjectOpen, ViewsTile, Busy, Writing, Idle
<1>7. SyncsFit'
  BY <1>1, <1>4 DEF SyncsFit, SyncFits, Knows, SyncApart, Syncing, Idle
<1>8. TableTiles(measure)'
  BY <1>1, <1>2, <1>4 DEF ViewsTile, ViewTiles, TableTiles
<1>9. NewestFits'
  <2> SUFFICES ASSUME NEW p \in Staged, ~revision'[p].applied, \A q \in Staged : q[2] = p[2] => q[1] <= p[1]
               PROVE  Fits(measure', p[2], revision'[p])
    BY <1>1 DEF NewestFits, Fits
  <2>1. p \in Proposals /\ p[1] \in Releases /\ p[2] \in Codes /\ p = <<p[1], p[2]>> /\ revision[p] # None
    BY <1>4, StagedShape, RevisionShape
  <2>2. /\ revision'[p].change = revision[p].change /\ revision'[p].target = revision[p].target
        /\ revision'[p].applied = (revision[p].applied \/ (p[1] = f.on.rel /\ p[2] \in f.done))
    BY <1>1, <1>4, <2>1, CommitRows
  <2>3. Fits(measure, p[2], revision[p])
    BY <1>4, <2>2 DEF NewestFits
  <2>4. p[2] \notin f.done
    <3> SUFFICES ASSUME p[2] \in f.done PROVE FALSE
      OBVIOUS
    <3>1. PICK q : q = <<f.on.rel, p[2]>>
      OBVIOUS
    <3>2. q \in Staged /\ q[1] = f.on.rel /\ q[2] = p[2]
      BY <1>1, <2>1, <3>1, Proposal DEF WritesSound
    <3>3. IsOpen(q)
      BY <1>1, <1>4, <3>1 DEF SubjectOpen, Subjects, Phases
    <3>4. q[1] <= p[1] /\ ~(q[1] < p[1])
      BY <1>4, <3>2, <3>3 DEF OlderClosed
    <3>5. q[1] = p[1]
      BY <1>4, <2>1, <3>2, <3>4, StagedShape, Numbers
    <3> QED BY <2>2, <3>2, <3>5
  <2> QED BY <2>1, <2>2, <2>3, <2>4, CommitWindows DEF Fits
<1> QED BY <1>6, <1>7, <1>8, <1>9

\* A commit keeps the invariant.
LEMMA CommitKeeps ==
  ASSUME ReviewInv, NEW d \in Deciders, Commit(d) PROVE ReviewInv'
BY CommitSound, CommitCalm, CommitStranded, CommitProposed, CommitOrderly DEF ReviewInv

-----------------------------------------------------------------------------
(* A sync that leaves the tables alone.                                    *)

\* A sync begins or goes on, outside its staging.
LEMMA SyncStepKeeps ==
  ASSUME ReviewInv, NEW s \in Syncs, NEW frame \in Sync, sync' = [sync EXCEPT ![s] = frame],
         UNCHANGED <<feed, published, tables, decision, effects, decisions>>, syncs' \in Nat,
         mishaps \subseteq mishaps', mishaps' \subseteq {"race", "crossing", "backdating"},
         SyncSound(frame),
         Quiet' /\ frame # Idle =>
           (\A d \in Deciders : ~Busy(d)) /\ (\A t \in Syncs \ {s} : ~Syncing(t)),
         Quiet' => SyncCalm(frame),
         mishaps' = {} => SyncFits(frame)
  PROVE  ReviewInv'
<1>1. Sound /\ TypeOK /\ Calm /\ Orderly
  BY DEF ReviewInv, Sound
<1>2. sync'[s] = frame /\ \A t \in Syncs \ {s} : sync'[t] = sync[t]
  BY <1>1 DEF TypeOK
<1>3. TypeOK'
  BY <1>1 DEF TypeOK, tables
<1>4. published' \in Releases /\ published <= published'
  BY <1>1, Numbers DEF TypeOK
<1>5. RevisionsSound' /\ FamiliesSound' /\ NothingStranded' /\ EveryChangeProposed'
  BY <1>4, TablesKept
<1>6. SyncsSound'
  BY <1>1, <1>2, <1>4, SyncSoundKept DEF Sound, SyncsSound, TypeOK
<1>7. DecisionsSound' /\ LocksApart'
  BY <1>1, FramesKept DEF Sound, DecisionsSound, LocksApart, Busy, Writing
<1>8. Calm'
  <2> SUFFICES ASSUME Quiet'
               PROVE  /\ SyncApart' /\ OlderClosed' /\ OwnSuperseded' /\ PendingLast' /\ SyncsCalm'
                      /\ OneFamilyItem' /\ Unapplied' /\ AllAccounted'
    BY DEF Calm
  <2>1. Quiet /\ OlderClosed' /\ OwnSuperseded' /\ PendingLast'
    BY <1>4, TablesKept
  <2>2. SyncApart /\ SyncsCalm /\ OneFamilyItem /\ Unapplied /\ AllAccounted
    BY <1>1, <2>1 DEF Calm
  <2>3. SyncApart'
    BY <1>2, <2>2 DEF SyncApart, Syncing, Busy
  <2>4. SyncsCalm'
    BY <1>2, <2>2, FramesKept DEF SyncsCalm
  <2>5. OneFamilyItem'
    BY <2>2, SameTables DEF OneFamilyItem, Busy
  <2>6. Unapplied'
    BY <2>2, FramesKept DEF Unapplied, Writing
  <2>7. AllAccounted'
    BY <2>2, SameTables, FramesKept DEF AllAccounted, Busy
  <2> QED BY <2>1, <2>3, <2>4, <2>5, <2>6, <2>7
<1>9. Orderly'
  <2> SUFFICES ASSUME mishaps' = {}
               PROVE  /\ OneDecision' /\ SubjectOpen' /\ TableTiles(measure)' /\ NewestFits'
                      /\ SyncsFit' /\ ViewsTile'
    BY DEF Orderly
  <2>1. mishaps = {} /\ TableTiles(measure)' /\ NewestFits'
    BY <1>4, TablesKept
  <2>2. OneDecision /\ SubjectOpen /\ SyncsFit /\ ViewsTile
    BY <1>1, <2>1 DEF Orderly
  <2>3. OneDecision' /\ SubjectOpen'
    BY <2>2, SameTables, FramesKept DEF OneDecision, SubjectOpen, Busy
  <2>4. SyncsFit'
    BY <1>2, <2>2, FramesKept DEF SyncsFit
  <2>5. ViewsTile'
    BY <2>2, FramesKept DEF ViewsTile, Writing
  <2> QED BY <2>1, <2>3, <2>4, <2>5
<1> QED BY <1>3, <1>5, <1>6, <1>7, <1>8, <1>9 DEF ReviewInv, Sound

\* A step that no table takes part in.
LEMMA TablesStandKeeps ==
  ASSUME ReviewInv, published' \in Releases, published <= published',
         UNCHANGED <<feed, tables, decision, sync, effects, mishaps, bounds>>
  PROVE  ReviewInv'
<1>1. Sound /\ TypeOK /\ Calm /\ Orderly
  BY DEF ReviewInv, Sound
<1>2. UNCHANGED <<feed, tables, decision, sync, effects, mishaps, bounds>>
  OBVIOUS
<1>4. TypeOK'
  BY <1>1, <1>2 DEF TypeOK, tables, bounds
<1>5. /\ RevisionsSound' /\ FamiliesSound' /\ NothingStranded' /\ EveryChangeProposed'
      /\ Quiet' => Quiet /\ OlderClosed' /\ OwnSuperseded' /\ PendingLast'
      /\ mishaps' = {} => mishaps = {} /\ TableTiles(measure)' /\ NewestFits'
  BY <1>2, TablesKept
<1>6. SyncsSound'
  BY <1>1, <1>2, SyncSoundKept DEF Sound, SyncsSound, TypeOK
<1>7. DecisionsSound' /\ LocksApart'
  BY <1>1, <1>2, FramesKept DEF Sound, DecisionsSound, LocksApart, Busy, Writing
<1>8. Calm'
  BY <1>1, <1>2, <1>5, SameTables, FramesKept
     DEF Calm, Quiet, SyncApart, Syncing, Busy, Writing, SyncsCalm, OneFamilyItem, Unapplied, AllAccounted
<1>9. Orderly'
  BY <1>1, <1>2, <1>5, SameTables, FramesKept
     DEF Orderly, OneDecision, SubjectOpen, SyncsFit, ViewsTile, Busy, Writing
<1> QED BY <1>4, <1>5, <1>6, <1>7, <1>8, <1>9 DEF ReviewInv, Sound

\* A release is published.
LEMMA PublishKeeps ==
  ASSUME ReviewInv, Publish PROVE ReviewInv'
<1>1. published \in Releases /\ published < MaxRelease /\ published' = published + 1
  BY DEF Publish, ReviewInv, Sound, TypeOK
<1>2. published' \in Releases /\ published <= published'
  BY <1>1, BoundsAssumption DEF Releases
<1> QED BY <1>2, TablesStandKeeps DEF Publish

\* What is said of a sync in progress says nothing of one that is not.
LEMMA SyncIdle ==
  /\ Idle \in Sync /\ SyncSound(Idle) /\ SyncCalm(Idle) /\ SyncFits(Idle)
  /\ Idle.pc = "idle"
<1>1. Idle \in Sync /\ Idle.pc = "idle"
  BY DEF Sync, Idle
<1> QED BY <1>1 DEF SyncSound, SyncCalm, SyncNewest, SyncFits, Knows

\* The steps of a sync that is under way.
LEMMA SyncContinuesKeeps ==
  ASSUME ReviewInv, NEW s \in Syncs, NEW frame \in Sync, SyncContinues(s, frame), Syncing(s),
         SyncSound(frame), Quiet => SyncCalm(frame), mishaps = {} => SyncFits(frame)
  PROVE  ReviewInv'
<1>1. /\ sync' = [sync EXCEPT ![s] = frame]
      /\ UNCHANGED <<feed, published, tables, decision, effects, mishaps, bounds>>
  BY DEF SyncContinues
<1>2. TypeOK /\ Calm
  BY DEF ReviewInv, Sound
<1>3. /\ UNCHANGED <<decisions, mishaps>> /\ syncs' \in Nat
      /\ mishaps \subseteq mishaps' /\ mishaps' \subseteq {"race", "crossing", "backdating"}
  BY <1>1, <1>2 DEF TypeOK, bounds
<1>4. Quiet' =>
        /\ (\A d \in Deciders : ~Busy(d)) /\ (\A t \in Syncs \ {s} : ~Syncing(t))
        /\ SyncCalm(frame)
  BY <1>1, <1>2 DEF Calm, Quiet, SyncApart
<1> QED BY <1>1, <1>3, <1>4, SyncStepKeeps

\* A sync fails.
LEMMA SyncFailsKeeps ==
  ASSUME ReviewInv, NEW s \in Syncs, SyncFails(s) PROVE ReviewInv'
BY SyncIdle, SyncContinuesKeeps DEF SyncFails, Syncing

\* A sync reads the live measures.
LEMMA SyncStateKeeps ==
  ASSUME ReviewInv, NEW s \in Syncs, SyncState(s) PROVE ReviewInv'
<1>1. TypeOK /\ RevisionsSound /\ FamiliesSound
  BY DEF ReviewInv, Sound
<1>2. PICK live \in [Codes -> MeasureIds \cup {None}] :
       /\ \A c \in Codes : live[c] \in LiveWindows(c)
       /\ sync' = [sync EXCEPT ![s] =
            [pc |-> "state", rel |-> published, live |-> live,
             content |-> [c \in Codes |->
               IF live[c] = None THEN Absent ELSE measure[live[c]].content]]]
  BY DEF SyncState
<1>3. /\ sync[s] = Idle
      /\ mishaps' = mishaps \cup Mark("race", InProgress(decision, Deciders) # {}
                                               \/ InProgress(sync, Syncs) # {})
      /\ syncs' = syncs + 1
      /\ UNCHANGED <<feed, published, tables, decision, effects, decisions>>
  BY DEF SyncState
<1> DEFINE content == [c \in Codes |-> IF live[c] = None THEN Absent ELSE measure[live[c]].content]
           frame == [pc |-> "state", rel |-> published, live |-> live, content |-> content]
<1>4. \A c \in Codes : live[c] # None => IsRowOf(live[c], c) /\ measure[live[c]].content \in Contents
  <2> SUFFICES ASSUME NEW c \in Codes, live[c] # None
               PROVE  IsRowOf(live[c], c) /\ measure[live[c]].content \in Contents
    OBVIOUS
  <2>1. live[c] \in MeasureIds /\ measure[live[c]] # None /\ measure[live[c]].code = c
    BY <1>2 DEF LiveWindows, WindowsOf
  <2>2. measure[live[c]] \in Measure
    BY <1>1, <2>1 DEF TypeOK
  <2> QED BY <2>1, <2>2, MeasureShape DEF IsRowOf
<1>5. content \in [Codes -> Contents \cup {Absent}]
  BY <1>4
<1>6. frame \in Sync
  BY <1>1, <1>5 DEF Sync, TypeOK
<1>7. /\ frame.pc = "state" /\ frame.rel = published /\ frame.live = live /\ frame.content = content
      /\ sync' = [sync EXCEPT ![s] = frame]
  BY <1>2
<1> HIDE DEF frame
<1>8. ~Knows(frame)
  BY <1>7 DEF Knows
<1>9. SyncSound(frame)
  BY <1>1, <1>4, <1>7, <1>8, Numbers DEF SyncSound, TypeOK
<1>10. SyncNewest(frame)
  BY <1>1, <1>7 DEF SyncNewest, RevisionsSound, FamiliesSound
<1>11. SyncCalm(frame)
  BY <1>2, <1>7, <1>8, <1>10 DEF SyncCalm
<1>12. Quiet' => (\A d \in Deciders : ~Busy(d)) /\ (\A t \in Syncs : ~Syncing(t))
  BY <1>3 DEF Quiet, Mark, InProgress, Busy, Syncing
<1>13. /\ mishaps \subseteq mishaps' /\ mishaps' \subseteq {"race", "crossing", "backdating"}
       /\ syncs' \in Nat
  BY <1>1, <1>3 DEF TypeOK, Mark
<1>14. SyncFits(frame)
  BY <1>8 DEF SyncFits
<1>15. Quiet' /\ frame # Idle =>
         (\A d \in Deciders : ~Busy(d)) /\ (\A t \in Syncs \ {s} : ~Syncing(t))
  BY <1>12
<1> QED BY <1>3, <1>6, <1>7, <1>9, <1>11, <1>13, <1>14, <1>15, SyncStepKeeps

\* A sync compares the release with them and with the queue.
LEMMA SyncDiffKeeps ==
  ASSUME ReviewInv, NEW s \in Syncs, SyncDiff(s) PROVE ReviewInv'
<1> DEFINE f == sync[s]
           stage == [c \in Codes |-> Change1(f, c)]
           own == {p \in Gone(f) : ~revision[p].grouped}
           frame == [pc |-> "diff", rel |-> f.rel, stage |-> stage, gone |-> Gone(f), own |-> own,
                     existing |-> 0]
<1>1. TypeOK /\ SyncsSound /\ Calm
  BY DEF ReviewInv, Sound
<1>2. f.pc = "state" /\ SyncContinues(s, frame)
  BY DEF SyncDiff
<1>3. /\ f \in Sync /\ Syncing(s) /\ f # Idle /\ SyncSound(f) /\ f.rel \in Releases
      /\ f.live \in [Codes -> MeasureIds \cup {None}]
      /\ f.content \in [Codes -> Contents \cup {Absent}]
  BY <1>1, <1>2, SyncShape DEF TypeOK, SyncsSound, Syncing
<1>4. feed \in [Releases -> [Codes -> Contents \cup {Absent}]]
  BY <1>1, FeedsAssumption DEF TypeOK
<1>5. ASSUME NEW c \in Codes
      PROVE  LET x == feed[f.rel][c]
                 r == Change1(f, c)
             IN /\ x \in Contents \cup {Absent}
                /\ AlreadyStaged(c, x) => r = None
                /\ ~AlreadyStaged(c, x) /\ f.live[c] = None /\ x = Absent => r = None
                /\ r # None => /\ r \in Proposed /\ r.target = f.live[c] /\ r.content = x
                               /\ ~AlreadyStaged(c, x)
                               /\ f.live[c] # None \/ x # Absent
                               /\ (r.change = "create_measure") <=> (f.live[c] = None)
                               /\ r.change # "end_measure" => x # Absent
                /\ r = None => \/ AlreadyStaged(c, x)
                               \/ f.live[c] = None /\ x = Absent
                               \/ f.live[c] # None /\ x # Absent /\ x = f.content[c]
                               
  <2> DEFINE x == feed[f.rel][c]
             Change0(change) == [change |-> change, target |-> f.live[c], content |-> x]
  <2>1. x \in Contents \cup {Absent} /\ f.live[c] \in MeasureIds \cup {None}
    BY <1>3, <1>4
  <2>2. \A change \in Change : /\ Change0(change) \in Proposed /\ Change0(change) # None
                               /\ Change0(change).change = change
                               /\ Change0(change).target = f.live[c] /\ Change0(change).content = x
    <3> HIDE DEF x
    <3> QED BY <2>1, NoneIsNone DEF Proposed
  <2>3. Change1(f, c) =
          IF AlreadyStaged(c, x) THEN None
          ELSE IF f.live[c] = None THEN IF x = Absent THEN None ELSE Change0("create_measure")
          ELSE IF x = Absent THEN Change0("end_measure")
          ELSE IF x # f.content[c] THEN Change0("rate_change") ELSE None
    BY DEF Change1
  <2>4. "create_measure" \in Change /\ "end_measure" \in Change /\ "rate_change" \in Change
    BY DEF Change
  <2> HIDE DEF x, Change0
  <2>5. CASE AlreadyStaged(c, x)
    BY <2>1, <2>3, <2>5 DEF x
  <2>6. CASE ~AlreadyStaged(c, x) /\ f.live[c] = None /\ x = Absent
    BY <2>1, <2>3, <2>6 DEF x
  <2>7. CASE ~AlreadyStaged(c, x) /\ f.live[c] = None /\ x # Absent
    BY <2>1, <2>2, <2>3, <2>4, <2>7 DEF x
  <2>8. CASE ~AlreadyStaged(c, x) /\ f.live[c] # None /\ x = Absent
    BY <2>1, <2>2, <2>3, <2>4, <2>8 DEF x
  <2>9. CASE ~AlreadyStaged(c, x) /\ f.live[c] # None /\ x # Absent
    BY <2>1, <2>2, <2>3, <2>4, <2>9 DEF x
  <2> QED BY <2>5, <2>6, <2>7, <2>8, <2>9
<1>6. /\ Gone(f) \subseteq Staged /\ Staged \subseteq Proposals
      /\ \A p \in Gone(f) : IsOpen(p) /\ ~AlreadyStaged(p[2], feed[f.rel][p[2]])
      /\ \A c \in Codes : ~AlreadyStaged(c, feed[f.rel][c]) /\ (feed[f.rel][c] # Absent \/ f.live[c] # None)
                          => OpenOf(c) \subseteq Gone(f)
  BY DEF Gone, OpenOf, Staged
<1>7. frame \in Sync
  <2>1. stage \in [Codes -> Proposed \cup {None}]
    BY <1>5
  <2>2. Gone(f) \in SUBSET Proposals /\ own \in SUBSET Proposals
    BY <1>6
  <2> HIDE DEF stage, own
  <2> QED BY <1>3, <2>1, <2>2 DEF Sync
<1>8. /\ frame.pc = "diff" /\ frame.rel = f.rel /\ frame.gone = Gone(f) /\ frame.own = own
      /\ \A c \in Codes : frame.stage[c] = Change1(f, c)
  OBVIOUS
<1> HIDE DEF frame
<1>9. frame # Idle
  BY <1>8, SyncIdle
<1>10. SyncSound(frame)
  <2>1. \A c \in Codes : frame.stage[c] # None => WellFormed(frame.stage[c], c)
    BY <1>2, <1>3, <1>5, <1>8 DEF WellFormed, SyncSound
  <2> QED BY <1>3, <1>6, <1>8, <2>1 DEF SyncSound
<1>11. Quiet => SyncCalm(f)
  BY <1>1 DEF Calm, SyncsCalm
<1>12. ASSUME SyncCalm(f), NEW c \in Codes
       PROVE  /\ f.live[c] \in LiveWindows(c)
              /\ f.live[c] # None => /\ f.content[c] = measure[f.live[c]].content
                                     /\ f.live[c] \in WindowsOf(measure, c)
                                     /\ \A j \in WindowsOf(measure, c) : measure[j].from <= measure[f.live[c]].from
              /\ f.live[c] = None => WindowsOf(measure, c) = {}
  BY <1>2, <1>12, NoneIsNone DEF SyncCalm, LiveWindows, WindowsOf
<1>13. Quiet => SyncCalm(frame)
  <2> SUFFICES ASSUME Quiet PROVE SyncCalm(frame)
    OBVIOUS
  <2>1. ASSUME NEW c \in Codes PROVE SyncFound(frame, c)
    <3> DEFINE x == feed[f.rel][c]
    <3>1. CASE AlreadyStaged(c, x)
      <4>1. PICK p \in OpenOf(c) : revision[p].content = x
        BY <3>1 DEF AlreadyStaged
      <4>2. p \notin Gone(f)
        BY <1>6, <3>1, <4>1 DEF OpenOf
      <4> QED BY <1>5, <1>8, <3>1, <4>1, <4>2 DEF SyncFound
    <3>2. CASE ~AlreadyStaged(c, x) /\ frame.stage[c] # None
      <4>1. OpenOf(c) \subseteq frame.gone
        BY <1>5, <1>6, <1>8, <3>2
      <4> QED BY <3>2, <4>1 DEF SyncFound
    <3>3. CASE ~AlreadyStaged(c, x) /\ frame.stage[c] = None
      <4>1. \/ f.live[c] = None /\ x = Absent
            \/ f.live[c] # None /\ x # Absent /\ x = f.content[c]
        BY <1>5, <1>8, <3>3
      <4>2. CASE f.live[c] = None /\ x = Absent
        BY <1>8, <1>11, <1>12, <3>3, <4>2 DEF SyncFound
      <4>3. CASE f.live[c] # None /\ x # Absent /\ x = f.content[c]
        <5>1. OpenOf(c) \subseteq frame.gone
          BY <1>6, <1>8, <3>3, <4>3
        <5> QED BY <1>8, <1>11, <1>12, <3>3, <4>3, <5>1 DEF SyncFound
      <4> QED BY <4>1, <4>2, <4>3
    <3> QED BY <3>1, <3>2, <3>3
  <2>2. SyncNewest(frame)
    BY <1>3, <1>8, <1>11 DEF SyncCalm, SyncNewest
  <2> QED BY <1>6, <1>8, <2>1, <2>2 DEF SyncCalm
<1>14. mishaps = {} => SyncFits(frame)
  BY <1>5, <1>8, <1>11, <1>12 DEF SyncFits, Fits, Quiet
<1> QED BY <1>2, <1>3, <1>7, <1>10, <1>13, <1>14, SyncContinuesKeeps

\* A sync begins its transaction.
LEMMA SyncBeginKeeps ==
  ASSUME ReviewInv, NEW s \in Syncs, SyncBegin(s) PROVE ReviewInv'
<1> DEFINE f == sync[s]
<1>1. TypeOK /\ SyncsSound /\ Calm /\ Orderly
  BY DEF ReviewInv, Sound
<1>2. f.pc = "diff"
  BY DEF SyncBegin
<1>3. /\ f \in Sync /\ Syncing(s) /\ f # Idle /\ SyncSound(f) /\ f.rel \in Releases
  BY <1>1, <1>2, SyncShape DEF TypeOK, SyncsSound, Syncing
<1>4. CASE SyncContinues(s, Idle)
  BY <1>3, <1>4, SyncIdle, SyncContinuesKeeps
<1>5. CASE \E i \in {0} \cup PendingItems(f.rel) :
               /\ i = 0 => PendingItems(f.rel) = {}
               /\ SyncContinues(s, [f EXCEPT !.pc = "stage", !.existing = i])
  <2>1. PICK i \in {0} \cup PendingItems(f.rel) :
               /\ i = 0 => PendingItems(f.rel) = {}
               /\ SyncContinues(s, [f EXCEPT !.pc = "stage", !.existing = i])
    BY <1>5
  <2> DEFINE frame == [f EXCEPT !.pc = "stage", !.existing = i]
  <2>2. i \in Nat
    BY <1>1, <1>3, ItemsShape
  <2>3. /\ frame \in Sync /\ frame.pc = "stage" /\ frame.existing = i /\ frame.rel = f.rel
        /\ frame.stage = f.stage /\ frame.gone = f.gone /\ frame.own = f.own
    BY <1>2, <1>3, <2>2 DEF Sync, Idle
  <2>4. SyncContinues(s, frame)
    BY <2>1
  <2> HIDE DEF frame
  <2>5. frame # Idle
    BY <2>3, SyncIdle
  <2>6. SyncSound(frame)
    BY <1>2, <1>3, <2>3, <2>5 DEF SyncSound, Knows
  <2>7. Quiet => SyncCalm(frame)
    <3> SUFFICES ASSUME Quiet PROVE SyncCalm(frame)
      OBVIOUS
    <3>1. SyncCalm(f)
      BY <1>1 DEF Calm, SyncsCalm
    <3>2. \A c \in Codes : SyncFound(frame, c)
      BY <1>2, <2>3, <3>1 DEF SyncCalm, SyncFound, Knows
    <3>3. SyncNewest(frame)
      BY <1>3, <2>3, <2>5, <3>1 DEF SyncCalm, SyncNewest
    <3> QED BY <1>2, <2>1, <2>3, <3>1, <3>2, <3>3 DEF SyncCalm, Knows
  <2>8. mishaps = {} => SyncFits(frame)
    BY <1>1, <1>2, <2>3 DEF Orderly, SyncsFit, SyncFits, Knows
  <2> QED BY <1>3, <2>3, <2>4, <2>6, <2>7, <2>8, SyncContinuesKeeps
<1> QED BY <1>4, <1>5 DEF SyncBegin

-----------------------------------------------------------------------------
(* A sync stages what it has found.                                        *)

\* A revision that the sync f is about to stage.
Fresh(f, p) == revision[p] = None /\ p[1] = f.rel /\ f.stage[p[2]] # None

\* The rows of the queue after the commit of f.
LEMMA SyncRows ==
  ASSUME TypeOK, NEW f \in Sync, f.pc = "stage", SyncSound(f), NEW p \in Proposals,
         revision'[p] = StagedRevision(f, p)
  PROVE  /\ revision[p] # None =>
              /\ revision'[p] \in Revision
              /\ revision'[p].change = revision[p].change /\ revision'[p].target = revision[p].target
              /\ revision'[p].content = revision[p].content
              /\ revision'[p].grouped = revision[p].grouped /\ revision'[p].applied = revision[p].applied
              /\ revision'[p].superseded = (revision[p].superseded \/ p \in f.gone)
              /\ revision'[p].item = IF p \in f.own THEN "superseded" ELSE revision[p].item
         /\ revision[p] = None /\ ~Fresh(f, p) => revision'[p] = None
         /\ Fresh(f, p) =>
              /\ revision'[p] \in Revision
              /\ revision'[p].change = f.stage[p[2]].change /\ revision'[p].target = f.stage[p[2]].target
              /\ revision'[p].content = f.stage[p[2]].content
              /\ revision'[p].grouped = (f.stage[p[2]].change = "create_measure")
              /\ revision'[p].item = IF f.stage[p[2]].change = "create_measure" THEN "none" ELSE "pending"
              /\ ~revision'[p].applied /\ ~revision'[p].superseded
<1> DEFINE r == revision[p]
<1>1. /\ r \in Revision \cup {None} /\ p[2] \in Codes /\ f.stage \in [Codes -> Proposed \cup {None}]
      /\ f.gone \subseteq Staged /\ f.own \subseteq f.gone
  BY SyncShape DEF TypeOK, Proposals, SyncSound, Knows
<1>2. r = None => p \notin f.gone
  BY <1>1 DEF Staged, Exists
<1>3. CASE r # None /\ p \notin f.gone
  <2>1. revision'[p] = r /\ p \notin f.own
    BY <1>1, <1>3 DEF StagedRevision, Exists
  <2>2. r \in Revision /\ r.superseded \in BOOLEAN
    BY <1>1, <1>3 DEF Revision
  <2> QED BY <1>3, <2>1, <2>2 DEF Fresh
<1>4. CASE r # None /\ p \in f.gone
  <2> DEFINE item == IF p \in f.own THEN "superseded" ELSE r.item
  <2>1. revision'[p] = [r EXCEPT !.superseded = TRUE, !.item = item]
    BY <1>4 DEF StagedRevision, Exists
  <2>2. r \in Revision /\ item \in Status \cup {"none"} /\ r.superseded \in BOOLEAN
    BY <1>1, <1>4 DEF Revision, Status
  <2>3. /\ revision'[p] \in Revision
        /\ revision'[p].change = r.change /\ revision'[p].target = r.target
        /\ revision'[p].content = r.content /\ revision'[p].grouped = r.grouped
        /\ revision'[p].applied = r.applied /\ revision'[p].superseded = TRUE
        /\ revision'[p].item = item
    <3> HIDE DEF r, item
    <3> QED BY <2>1, <2>2 DEF Revision
  <2> QED BY <1>4, <2>2, <2>3 DEF Fresh
<1>5. CASE r = None /\ ~Fresh(f, p)
  <2>1. revision'[p] = r
    BY <1>2, <1>5 DEF StagedRevision, Exists, Fresh
  <2> QED BY <1>5, <2>1
<1>6. CASE Fresh(f, p)
  <2> DEFINE st == f.stage[p[2]]
             new == [change |-> st.change, target |-> st.target, content |-> st.content,
                     grouped |-> st.change = "create_measure",
                     item |-> IF st.change = "create_measure" THEN "none" ELSE "pending",
                     applied |-> FALSE, superseded |-> FALSE]
  <2>1. revision'[p] = new
    BY <1>6 DEF StagedRevision, Exists, Fresh
  <2>2. st \in Proposed
    BY <1>1, <1>6 DEF Fresh
  <2>3. /\ st.change \in Change /\ st.target \in MeasureIds \cup {None}
        /\ st.content \in Contents \cup {Absent}
    BY <2>2 DEF Proposed
  <2>4. /\ new \in Revision
        /\ new.change = st.change /\ new.target = st.target
        /\ new.content = st.content
        /\ new.grouped = (st.change = "create_measure")
        /\ new.item = IF st.change = "create_measure" THEN "none" ELSE "pending"
        /\ ~new.applied /\ ~new.superseded
    <3> HIDE DEF st
    <3> QED BY <2>3 DEF Revision, Status
  <2> HIDE DEF new
  <2> QED BY <1>6, <2>1, <2>4 DEF Fresh
<1> QED BY <1>3, <1>4, <1>5, <1>6

\* The tables after the commit of a sync.
LEMMA SyncTables ==
  ASSUME ReviewInv, NEW s \in Syncs, SyncCommit(s)
  PROVE  LET f == sync[s]
             appends == Creates(f) # {} /\ f.existing = 0
         IN /\ f \in Sync /\ f.pc = "stage" /\ Knows(f) /\ Syncing(s) /\ SyncSound(f) /\ f.rel \in Releases
            /\ f.stage \in [Codes -> Proposed \cup {None}]
            /\ \A p \in Staged : /\ p \in Staged' /\ revision'[p] \in Revision
                 /\ revision'[p].change = revision[p].change /\ revision'[p].target = revision[p].target
                 /\ revision'[p].content = revision[p].content
                 /\ revision'[p].grouped = revision[p].grouped /\ revision'[p].applied = revision[p].applied
                 /\ revision'[p].superseded = (revision[p].superseded \/ p \in f.gone)
                 /\ revision'[p].item = IF p \in f.own THEN "superseded" ELSE revision[p].item
            /\ \A p \in Staged' : p \notin Staged =>
                 /\ p \in Proposals /\ p[1] = f.rel /\ p[2] \in Codes /\ f.stage[p[2]] # None
                 /\ revision'[p].change = f.stage[p[2]].change /\ revision'[p].target = f.stage[p[2]].target
                 /\ revision'[p].content = f.stage[p[2]].content
                 /\ revision'[p].grouped = (f.stage[p[2]].change = "create_measure")
                 /\ revision'[p].item = IF f.stage[p[2]].change = "create_measure" THEN "none" ELSE "pending"
                 /\ ~revision'[p].applied /\ ~revision'[p].superseded
            /\ \A c \in Codes : f.stage[c] # None => <<f.rel, c>> \in Staged'
            /\ revision' \in [Proposals -> Revision \cup {None}]
            /\ familyItems' \in [Releases -> Seq(Status)]
            /\ \A rel \in Releases : ~(appends /\ rel = f.rel) => familyItems'[rel] = familyItems[rel]
            /\ appends => familyItems'[f.rel] = Append(familyItems[f.rel], "pending")
            /\ announcement' \in [Releases -> {"none", "open", "resolved"}]
            /\ announcement'[f.rel] # "none"
            /\ \A rel \in Releases : rel # f.rel => announcement'[rel] = announcement[rel]
            /\ sync'[s] = Idle /\ \A t \in Syncs \ {s} : sync'[t] = sync[t]
            /\ UNCHANGED <<feed, published, measure, decision, effects, mishaps, bounds>>
<1> DEFINE f == sync[s]
           appends == Creates(f) # {} /\ f.existing = 0
<1>1. /\ TypeOK /\ SyncsSound /\ f.pc = "stage"
      /\ revision' = [p \in Proposals |-> StagedRevision(f, p)]
      /\ familyItems' =
          IF Creates(f) = {} \/ f.existing # 0 THEN familyItems
          ELSE [familyItems EXCEPT ![f.rel] = Append(@, "pending")]
      /\ announcement' = [announcement EXCEPT ![f.rel] = "open"]
      /\ sync' = [sync EXCEPT ![s] = Idle]
      /\ UNCHANGED <<feed, published, measure, decision, effects, mishaps, bounds>>
  BY DEF ReviewInv, Sound, SyncCommit
<1>2. /\ f \in Sync /\ f.pc = "stage" /\ Knows(f) /\ Syncing(s) /\ SyncSound(f) /\ f.rel \in Releases
      /\ f.stage \in [Codes -> Proposed \cup {None}]
  BY <1>1, SyncShape DEF TypeOK, SyncsSound, Syncing, Knows
<1>3. \A p \in Proposals :
         /\ revision[p] # None =>
              /\ revision'[p] \in Revision
              /\ revision'[p].change = revision[p].change /\ revision'[p].target = revision[p].target
              /\ revision'[p].content = revision[p].content
              /\ revision'[p].grouped = revision[p].grouped /\ revision'[p].applied = revision[p].applied
              /\ revision'[p].superseded = (revision[p].superseded \/ p \in f.gone)
              /\ revision'[p].item = IF p \in f.own THEN "superseded" ELSE revision[p].item
         /\ revision[p] = None /\ ~Fresh(f, p) => revision'[p] = None
         /\ Fresh(f, p) =>
              /\ revision'[p] \in Revision
              /\ revision'[p].change = f.stage[p[2]].change /\ revision'[p].target = f.stage[p[2]].target
              /\ revision'[p].content = f.stage[p[2]].content
              /\ revision'[p].grouped = (f.stage[p[2]].change = "create_measure")
              /\ revision'[p].item = IF f.stage[p[2]].change = "create_measure" THEN "none" ELSE "pending"
              /\ ~revision'[p].applied /\ ~revision'[p].superseded
  <2> SUFFICES ASSUME NEW p \in Proposals, revision'[p] = StagedRevision(f, p)
               PROVE  /\ revision[p] # None =>
                           /\ revision'[p] \in Revision
                           /\ revision'[p].change = revision[p].change /\ revision'[p].target = revision[p].target
                           /\ revision'[p].content = revision[p].content
                           /\ revision'[p].grouped = revision[p].grouped /\ revision'[p].applied = revision[p].applied
                           /\ revision'[p].superseded = (revision[p].superseded \/ p \in f.gone)
                           /\ revision'[p].item = IF p \in f.own THEN "superseded" ELSE revision[p].item
                      /\ revision[p] = None /\ ~Fresh(f, p) => revision'[p] = None
                      /\ Fresh(f, p) =>
                           /\ revision'[p] \in Revision
                           /\ revision'[p].change = f.stage[p[2]].change /\ revision'[p].target = f.stage[p[2]].target
                           /\ revision'[p].content = f.stage[p[2]].content
                           /\ revision'[p].grouped = (f.stage[p[2]].change = "create_measure")
                           /\ revision'[p].item = IF f.stage[p[2]].change = "create_measure" THEN "none" ELSE "pending"
                           /\ ~revision'[p].applied /\ ~revision'[p].superseded
    BY <1>1
  <2> QED BY <1>1, <1>2, SyncRows
<1>4. \A p \in Proposals : revision'[p] \in Revision \cup {None} /\ (revision'[p] = None <=> revision[p] = None /\ ~Fresh(f, p))
  BY <1>1, <1>3, NoneIsNone DEF TypeOK
<1>5. \A p : p \in Staged => p \in Staged' /\ p \in Proposals /\ revision[p] # None
  BY <1>4 DEF Staged, Exists
<1>6. \A p : p \in Staged' /\ p \notin Staged => p \in Proposals /\ Fresh(f, p)
  BY <1>4 DEF Staged, Exists
<1>7. \A p \in Proposals : p[2] \in Codes
  BY DEF Proposals
<1>8. \A c \in Codes : f.stage[c] # None => <<f.rel, c>> \in Staged'
  <2> SUFFICES ASSUME NEW c \in Codes, f.stage[c] # None PROVE <<f.rel, c>> \in Staged'
    OBVIOUS
  <2>1. PICK p : p = <<f.rel, c>>
    OBVIOUS
  <2>2. p \in Proposals /\ p[1] = f.rel /\ p[2] = c
    BY <1>2, <2>1, Proposal
  <2>3. revision'[p] # None
    BY <1>4, <2>2 DEF Fresh
  <2> QED BY <2>1, <2>2, <2>3 DEF Staged, Exists
<1>9. revision' \in [Proposals -> Revision \cup {None}]
  <2>1. revision' = [p \in Proposals |-> revision'[p]]
    BY <1>1
  <2> QED BY <1>4, <2>1
<1>10. /\ familyItems' \in [Releases -> Seq(Status)]
       /\ \A rel \in Releases : ~(appends /\ rel = f.rel) => familyItems'[rel] = familyItems[rel]
       /\ appends => familyItems'[f.rel] = Append(familyItems[f.rel], "pending")
  <2>1. familyItems \in [Releases -> Seq(Status)] /\ "pending" \in Status
    BY <1>1 DEF TypeOK, Status
  <2>2. CASE appends
    <3>1. familyItems' = [familyItems EXCEPT ![f.rel] = Append(@, "pending")]
      BY <1>1, <2>2
    <3>2. Append(familyItems[f.rel], "pending") \in Seq(Status)
      BY <1>2, <2>1
    <3> QED BY <1>2, <2>1, <2>2, <3>1, <3>2
  <2>3. CASE ~appends
    BY <1>1, <2>1, <2>3
  <2> QED BY <2>2, <2>3
<1>11. /\ announcement' \in [Releases -> {"none", "open", "resolved"}]
       /\ announcement'[f.rel] # "none"
       /\ \A rel \in Releases : rel # f.rel => announcement'[rel] = announcement[rel]
  BY <1>1, <1>2 DEF TypeOK
<1>12. sync'[s] = Idle /\ \A t \in Syncs \ {s} : sync'[t] = sync[t]
  BY <1>1 DEF TypeOK
<1>13. \A p \in Staged' : p \notin Staged => /\ p \in Proposals /\ p[1] = f.rel /\ p[2] \in Codes
                                             /\ f.stage[p[2]] # None
  BY <1>6, <1>7 DEF Fresh
<1> HIDE DEF appends
<1> QED BY <1>1, <1>2, <1>3, <1>5, <1>6, <1>8, <1>9, <1>10, <1>11, <1>12, <1>13 DEF appends

\* A staging: the part that holds whatever overlaps.
LEMMA SyncCommitSound ==
  ASSUME ReviewInv, NEW s \in Syncs, SyncCommit(s) PROVE Sound'
<1> DEFINE f == sync[s]
<1>1. TypeOK /\ RevisionsSound /\ FamiliesSound /\ SyncsSound /\ DecisionsSound /\ LocksApart
  BY DEF ReviewInv, Sound
<1>2. /\ f \in Sync /\ Knows(f) /\ Syncing(s) /\ SyncSound(f) /\ f.rel \in Releases
      /\ f.rel <= published
  BY SyncTables DEF SyncSound, Syncing
<1>3. /\ announcement' \in [Releases -> {"none", "open", "resolved"}]
      /\ announcement'[f.rel] # "none"
      /\ \A rel \in Releases : rel # f.rel => announcement'[rel] = announcement[rel]
      /\ sync'[s] = Idle /\ \A t \in Syncs \ {s} : sync'[t] = sync[t]
      /\ UNCHANGED <<feed, published, measure, decision, effects, mishaps, bounds>>
  BY SyncTables
<1>4. \A p \in Staged : /\ p \in Staged'
                 /\ revision'[p].change = revision[p].change /\ revision'[p].target = revision[p].target
                 /\ revision'[p].content = revision[p].content
                 /\ revision'[p].grouped = revision[p].grouped
                 /\ revision'[p].item = IF p \in f.own THEN "superseded" ELSE revision[p].item
  BY SyncTables
<1>5. \A p \in Staged' : p \notin Staged =>
                 /\ p \in Proposals /\ p[1] = f.rel /\ p[2] \in Codes /\ f.stage[p[2]] # None
                 /\ revision'[p].change = f.stage[p[2]].change /\ revision'[p].target = f.stage[p[2]].target
                 /\ revision'[p].content = f.stage[p[2]].content
                 /\ revision'[p].grouped = (f.stage[p[2]].change = "create_measure")
                 /\ revision'[p].item = IF f.stage[p[2]].change = "create_measure" THEN "none" ELSE "pending"
  BY SyncTables
<1>6. \A i, c : IsRowOf(i, c)' <=> IsRowOf(i, c)
  BY <1>3 DEF IsRowOf
<1>7. TypeOK'
  <2>1. revision' \in [Proposals -> Revision \cup {None}] /\ familyItems' \in [Releases -> Seq(Status)]
    BY SyncTables
  <2>2. sync' \in [Syncs -> Sync]
    BY <1>1, SyncIdle DEF TypeOK, SyncCommit
  <2> QED BY <1>1, <1>3, <2>1, <2>2 DEF TypeOK, bounds
<1>8. RevisionsSound'
  <2> SUFFICES ASSUME NEW p \in Staged'
               PROVE  /\ WellFormed(revision[p], p[2])'
                      /\ revision'[p].grouped => revision'[p].item = "none" /\ revision'[p].change = "create_measure"
                      /\ p[1] <= published' /\ announcement'[p[1]] # "none"
    BY DEF RevisionsSound
  <2>1. CASE p \in Staged
    <3>1. /\ WellFormed(revision[p], p[2]) /\ p[1] <= published /\ announcement[p[1]] # "none" /\ p[1] \in Releases
          /\ revision[p].grouped => revision[p].item = "none" /\ revision[p].change = "create_measure"
      BY <1>1, <2>1, StagedShape DEF RevisionsSound
    <3>2. WellFormed(revision[p], p[2])'
      BY <1>4, <1>6, <2>1, <3>1 DEF WellFormed
    <3>3. p \in f.own => ~revision[p].grouped
      BY <1>2 DEF SyncSound
    <3> QED BY <1>3, <1>4, <2>1, <3>1, <3>2, <3>3
  <2>2. CASE p \notin Staged
    <3>1. WellFormed(f.stage[p[2]], p[2])
      BY <1>2, <1>5, <2>2 DEF SyncSound
    <3>2. WellFormed(revision[p], p[2])'
      BY <1>5, <1>6, <2>2, <3>1 DEF WellFormed
    <3> QED BY <1>2, <1>3, <1>5, <2>2, <3>2
  <2> QED BY <2>1, <2>2
<1>9. FamiliesSound'
  <2> SUFFICES ASSUME NEW rel \in Releases
               PROVE  /\ familyItems'[rel] # <<>> => announcement'[rel] # "none"
                      /\ announcement'[rel] # "none" => rel <= published'
    BY DEF FamiliesSound
  <2>1. rel # f.rel => familyItems'[rel] = familyItems[rel]
    BY SyncTables
  <2> QED BY <1>1, <1>2, <1>3, <2>1 DEF FamiliesSound
<1>10. SyncsSound'
  <2> SUFFICES ASSUME NEW t \in Syncs PROVE SyncSound(sync[t])'
    BY DEF SyncsSound
  <2>1. CASE t = s
    BY <1>3, <2>1 DEF SyncSound, Knows, Idle
  <2>2. CASE t # s
    <3>1. PICK g : g = sync[t]
      OBVIOUS
    <3>2. SyncSound(g) /\ sync'[t] = g
      BY <1>1, <1>3, <2>2, <3>1 DEF SyncsSound
    <3>3. SyncSound(g)'
      BY <1>3, <1>4, <1>6, <3>2 DEF SyncSound, Knows, WellFormed
    <3> QED BY <3>2, <3>3
  <2> QED BY <2>1, <2>2
<1>11. LocksApart'
  BY <1>1, <1>3 DEF LocksApart, Writing
<1>12. \A on \in Subject : SubjectSound(on) => SubjectSound(on)'
  <2> SUFFICES ASSUME NEW on \in Subject, SubjectSound(on) PROVE SubjectSound(on)'
    OBVIOUS
  <2>1. on.rel \in Releases /\ on.code \in Codes \cup {Family}
    BY SubjectShape
  <2>2. CASE on.code # Family
    <3>1. PICK p : p = <<on.rel, on.code>>
      OBVIOUS
    <3>2. p \in Staged /\ ~revision[p].grouped /\ on.index = 0
      BY <2>1, <2>2, <3>1, Proposal DEF SubjectSound
    <3>3. p \in Staged' /\ ~revision'[p].grouped
      BY <1>4, <3>2
    <3> QED BY <2>2, <3>1, <3>2, <3>3 DEF SubjectSound, Staged
  <2>3. CASE on.code = Family
    <3>1. on.index \in 1..Len(familyItems[on.rel]) /\ familyItems[on.rel] \in Seq(Status)
      BY <1>1, <2>1, <2>3, ItemsShape DEF SubjectSound
    <3>2. \/ familyItems'[on.rel] = familyItems[on.rel]
          \/ familyItems'[on.rel] = Append(familyItems[on.rel], "pending")
      BY <2>1, SyncTables
    <3>3. on.index \in 1..Len(familyItems'[on.rel])
      BY <3>1, <3>2
    <3> QED BY <2>3, <3>3 DEF SubjectSound
  <2> QED BY <2>2, <2>3
<1>13. \A g \in Decision : g.pc \in Phases /\ WritesSound(g) => WritesSound(g)'
  <2> SUFFICES ASSUME NEW g \in Decision, g.pc \in Phases, WritesSound(g) PROVE WritesSound(g)'
    OBVIOUS
  <2>1. PutsSound(g)' /\ (g.pc = "write" => PlanSound(g)')
    BY <1>3 DEF WritesSound, PutsSound, PlanSound, Seen
  <2>2. \A c \in g.todo \cup g.done \cup g.skip : Exists(<<g.on.rel, c>>)'
    <3> SUFFICES ASSUME NEW c \in g.todo \cup g.done \cup g.skip PROVE Exists(<<g.on.rel, c>>)'
      OBVIOUS
    <3>1. PICK p : p = <<g.on.rel, c>>
      OBVIOUS
    <3>2. p \in Staged
      BY <3>1, DecisionShape, SubjectShape, Proposal DEF WritesSound, Phases, Idle
    <3> QED BY <1>4, <3>1, <3>2 DEF Staged
  <2> QED BY <2>1, <2>2 DEF WritesSound
<1>14. DecisionsSound'
  <2> SUFFICES ASSUME NEW d \in Deciders
               PROVE  /\ Busy(d)' => SubjectSound(decision[d].on)'
                      /\ Writing(d)' => WritesSound(decision[d])'
    BY Zenon DEF DecisionsSound
  <2>1. PICK g : g = decision[d]
    OBVIOUS
  <2>2. decision'[d] = g /\ g \in Decision
    BY <1>1, <1>3, <2>1 DEF TypeOK
  <2>3. Busy(d)' => SubjectSound(g.on)'
    BY <1>1, <1>12, <2>1, <2>2, DecisionShape DEF DecisionsSound, Busy
  <2>4. Writing(d)' => WritesSound(g)'
    BY <1>1, <1>13, <2>1, <2>2 DEF DecisionsSound, Writing, Phases
  <2> QED BY <2>2, <2>3, <2>4
<1> QED BY <1>7, <1>8, <1>9, <1>10, <1>11, <1>14 DEF Sound

\* The queue after the commit of a sync that nothing has overlapped.
LEMMA SyncQueue ==
  ASSUME ReviewInv, Quiet, NEW s \in Syncs, SyncCommit(s)
  PROVE  LET f == sync[s] IN
         /\ \A d \in Deciders : decision'[d] = decision[d] /\ ~Busy(d) /\ decision'[d] = Idle
         /\ \A t \in Syncs : sync'[t] = Idle
         /\ SyncCalm(f)
         /\ \A p \in Staged' : p[1] <= f.rel /\ p[1] \in Nat /\ p = <<p[1], p[2]>> /\ p[2] \in Codes
         /\ \A rel \in Releases : NewestStaged(rel)' => rel = f.rel
         /\ \A p \in Staged' : p[1] # f.rel /\ IsOpen(p)' => p \in Staged /\ IsOpen(p) /\ p \notin f.gone
         /\ \A c \in Codes : /\ WindowsOf(measure', c) = WindowsOf(measure, c)
                             /\ LiveWindows(c)' = LiveWindows(c)
<1> DEFINE f == sync[s]
<1>1. TypeOK /\ SyncApart /\ SyncsCalm
  BY DEF ReviewInv, Sound, Calm
<1>2. /\ f # Idle /\ Syncing(s) /\ f.rel \in Releases
      /\ sync'[s] = Idle /\ \A t \in Syncs \ {s} : sync'[t] = sync[t]
      /\ UNCHANGED <<feed, published, measure, decision, effects, mishaps, bounds>>
  BY SyncTables DEF Syncing
<1>3. \A d \in Deciders : decision'[d] = decision[d] /\ ~Busy(d) /\ decision'[d] = Idle
  BY <1>1, <1>2 DEF SyncApart, Busy
<1>4. \A t \in Syncs : sync'[t] = Idle
  BY <1>1, <1>2 DEF SyncApart, Syncing
<1>5. SyncCalm(f) /\ SyncNewest(f)
  BY <1>1 DEF SyncsCalm, SyncCalm
<1>6. \A p \in Staged' : p \notin Staged => p \in Proposals /\ p[1] = f.rel
  BY SyncTables
<1>7. \A p \in Staged' : p[1] <= f.rel /\ p[1] \in Nat /\ p = <<p[1], p[2]>> /\ p[2] \in Codes
  <2> SUFFICES ASSUME NEW p \in Staged'
               PROVE  p[1] <= f.rel /\ p[1] \in Nat /\ p = <<p[1], p[2]>> /\ p[2] \in Codes
    OBVIOUS
  <2>1. p \in Proposals
    BY DEF Staged
  <2>4. p[1] \in Releases /\ p = <<p[1], p[2]>> /\ p[2] \in Codes
    BY <2>1 DEF Proposals
  <2>2. p[1] \in Nat /\ p = <<p[1], p[2]>> /\ p[2] \in Codes /\ f.rel \in Nat
    BY <1>2, <2>4, Numbers
  <2>3. p[1] <= f.rel
    BY <1>2, <1>5, <1>6, <2>2 DEF SyncNewest
  <2> QED BY <2>2, <2>3
<1>8. \A rel \in Releases : NewestStaged(rel)' => rel = f.rel
  <2> SUFFICES ASSUME NEW rel \in Releases, NewestStaged(rel)', rel # f.rel PROVE FALSE
    OBVIOUS
  <2>1. announcement'[rel] = announcement[rel] /\ announcement'[f.rel] # "none"
    BY SyncTables
  <2>2. rel \in Nat /\ f.rel \in Nat
    BY <1>2, Numbers
  <2>3. announcement[rel] # "none" => rel <= f.rel
    BY <1>2, <1>5 DEF SyncNewest
  <2> QED BY <1>2, <2>1, <2>2, <2>3 DEF NewestStaged
<1>9. ASSUME NEW p \in Staged', p[1] # f.rel, IsOpen(p)'
      PROVE  p \in Staged /\ IsOpen(p) /\ p \notin f.gone
  <2>1. p \in Staged
    BY <1>6, <1>9
  <2>2. p[1] \in Releases /\ Exists(p)
    BY <1>1, <2>1, StagedShape
  <2>3. PendingItems(p[1])' = PendingItems(p[1])
    <3>1. familyItems'[p[1]] = familyItems[p[1]]
      BY <1>9, <2>2, SyncTables
    <3> QED BY <3>1 DEF PendingItems
  <2>4. /\ revision'[p].grouped = revision[p].grouped /\ revision'[p].applied = revision[p].applied
        /\ revision'[p].superseded = (revision[p].superseded \/ p \in f.gone)
        /\ revision'[p].item = IF p \in f.own THEN "superseded" ELSE revision[p].item
    BY <2>1, SyncTables
  <2> QED BY <1>9, <2>1, <2>2, <2>3, <2>4 DEF IsOpen
<1>10. \A c \in Codes : /\ WindowsOf(measure', c) = WindowsOf(measure, c)
                        /\ LiveWindows(c)' = LiveWindows(c)
  BY <1>2 DEF LiveWindows
<1> QED BY <1>3, <1>4, <1>5, <1>7, <1>8, <1>9, <1>10

\* A staging: the part that holds until a sync overlaps.
LEMMA SyncCommitCalm ==
  ASSUME ReviewInv, NEW s \in Syncs, SyncCommit(s) PROVE Calm'
<1> DEFINE f == sync[s]
<1>1. SUFFICES ASSUME Quiet'
      PROVE  /\ SyncApart' /\ OlderClosed' /\ OwnSuperseded' /\ PendingLast' /\ SyncsCalm'
             /\ OneFamilyItem' /\ Unapplied' /\ AllAccounted'
  BY DEF Calm
<1>2. /\ mishaps' = mishaps /\ feed' = feed /\ f \in Sync /\ f.pc = "stage" /\ Knows(f) /\ f.rel \in Releases
      /\ SyncSound(f)
  BY SyncTables
<1>3. Quiet /\ TypeOK /\ RevisionsSound /\ OlderClosed /\ OwnSuperseded /\ PendingLast
  BY <1>1, <1>2 DEF ReviewInv, Sound, Calm, Quiet
<1>4. /\ \A d \in Deciders : decision'[d] = Idle
      /\ \A t \in Syncs : sync'[t] = Idle
      /\ SyncCalm(f)
  BY <1>3, SyncQueue
<1>5. SyncApart' /\ SyncsCalm' /\ OneFamilyItem' /\ Unapplied'
  BY <1>4 DEF SyncApart, SyncsCalm, SyncCalm, SyncNewest, OneFamilyItem, Unapplied, Syncing, Busy, Writing,
     Knows, Idle
<1>6. \A p \in Staged' :
        /\ p[1] <= f.rel /\ p[1] \in Nat /\ p = <<p[1], p[2]>> /\ p[2] \in Codes
        /\ p[1] # f.rel /\ IsOpen(p)' => p \in Staged /\ IsOpen(p) /\ p \notin f.gone
  BY <1>3, SyncQueue
<1>7. f.rel \in Nat
  BY <1>2, Numbers
<1>8. OlderClosed'
  <2> SUFFICES ASSUME NEW p \in Staged', NEW q \in Staged', p[2] = q[2], p[1] < q[1], IsOpen(p)' PROVE FALSE
    BY DEF OlderClosed
  <2>1. p[1] # f.rel /\ p \in Staged /\ IsOpen(p) /\ p \notin f.gone
    BY <1>6, <1>7
  <2>2. CASE q \in Staged
    BY <1>3, <2>1, <2>2 DEF OlderClosed
  <2>3. CASE q \notin Staged
    <3>1. f.stage[q[2]] # None /\ q[2] \in Codes
      BY <2>3, SyncTables
    <3>2. OpenOf(q[2]) \subseteq f.gone
      BY <1>2, <1>4, <3>1 DEF SyncCalm, SyncFound
    <3> QED BY <2>1, <3>2 DEF OpenOf
  <2> QED BY <2>2, <2>3
<1>9. OwnSuperseded'
  <2> SUFFICES ASSUME NEW p \in Staged', revision'[p].superseded, ~revision'[p].grouped
               PROVE  revision'[p].item # "pending"
    BY DEF OwnSuperseded
  <2>1. CASE p \in Staged
    <3>1. /\ revision'[p].grouped = revision[p].grouped
          /\ revision'[p].superseded = (revision[p].superseded \/ p \in f.gone)
          /\ revision'[p].item = IF p \in f.own THEN "superseded" ELSE revision[p].item
      BY <2>1, SyncTables
    <3>2. p \in f.gone /\ ~revision[p].grouped => p \in f.own
      BY <1>2, <1>4 DEF SyncCalm
    <3> QED BY <1>3, <2>1, <3>1, <3>2 DEF OwnSuperseded
  <2>2. CASE p \notin Staged
    BY <2>2, SyncTables
  <2> QED BY <2>1, <2>2
<1>10. PendingLast'
  <2> SUFFICES ASSUME NEW rel \in Releases, NEW i \in PendingItems(rel)' PROVE i = Len(familyItems'[rel])
    BY DEF PendingLast
  <2>1. CASE familyItems'[rel] = familyItems[rel]
    BY <1>3, <2>1 DEF PendingLast, PendingItems
  <2>2. CASE familyItems'[rel] # familyItems[rel]
    <3>1. rel = f.rel /\ f.existing = 0 /\ familyItems'[rel] = Append(familyItems[rel], "pending")
      BY <2>2, SyncTables
    <3>2. PendingItems(rel) = {}
      BY <1>2, <1>4, <3>1 DEF SyncCalm
    <3>3. /\ familyItems[rel] \in Seq(Status) /\ Len(familyItems[rel]) \in Nat
          /\ DOMAIN familyItems[rel] = 1..Len(familyItems[rel])
      BY <1>3, ItemsShape
    <3>4. /\ DOMAIN Append(familyItems[rel], "pending") = 1..(Len(familyItems[rel]) + 1)
          /\ Len(Append(familyItems[rel], "pending")) = Len(familyItems[rel]) + 1
          /\ \A k \in 1..Len(familyItems[rel]) : Append(familyItems[rel], "pending")[k] = familyItems[rel][k]
      BY <3>3
    <3>5. i \in 1..(Len(familyItems[rel]) + 1) /\ familyItems'[rel][i] = "pending"
      BY <3>1, <3>4 DEF PendingItems
    <3>6. i \notin 1..Len(familyItems[rel])
      BY <3>1, <3>2, <3>3, <3>4, <3>5 DEF PendingItems
    <3> QED BY <3>1, <3>3, <3>4, <3>5, <3>6
  <2> QED BY <2>1, <2>2
<1>11. AllAccounted'
  <2> SUFFICES ASSUME NEW rel \in Releases, NewestStaged(rel)', NEW p \in Staged', IsOpen(p)'
               PROVE  Accounted(p, rel)'
    BY <1>4 DEF AllAccounted, Busy
  <2>1. rel = f.rel
    BY <1>3, SyncQueue
  <2>2. CASE p[1] = f.rel
    BY <2>1, <2>2 DEF Accounted
  <2>3. CASE p[1] # f.rel
    <3>1. p \in Staged /\ IsOpen(p) /\ p \notin f.gone /\ p[1] < f.rel /\ p[2] \in Codes
      BY <1>6, <1>7, <2>3
    <3>2. /\ revision'[p].content = revision[p].content /\ revision'[p].change = revision[p].change
          /\ revision'[p].superseded = (revision[p].superseded \/ p \in f.gone)
      BY <3>1, SyncTables
    <3>3. SyncFound(f, p[2])
      BY <1>2, <1>4, <3>1 DEF SyncCalm
    <3>4. ~(OpenOf(p[2]) \subseteq f.gone)
      BY <3>1 DEF OpenOf
    <3>5. CASE \E q \in OpenOf(p[2]) \ f.gone : revision[q].content = feed[f.rel][p[2]]
      <4>1. PICK q \in OpenOf(p[2]) : revision[q].content = feed[f.rel][p[2]]
        BY <3>5
      <4>2. q \in Staged /\ q[2] = p[2] /\ IsOpen(q)
        BY DEF OpenOf
      <4>3. ~(p[1] < q[1]) /\ ~(q[1] < p[1])
        BY <1>3, <3>1, <4>2 DEF OlderClosed
      <4>4. p[1] \in Nat /\ q[1] \in Nat /\ p = <<p[1], p[2]>> /\ q = <<q[1], q[2]>>
        BY <1>3, <3>1, <4>2, StagedShape, Numbers
      <4>5. p = q
        BY <4>2, <4>3, <4>4
      <4> QED BY <1>2, <2>1, <3>1, <3>2, <4>1, <4>5 DEF Accounted, IsOpen
    <3>6. CASE feed[f.rel][p[2]] = Absent /\ WindowsOf(measure, p[2]) = {}
      <4>1. revision[p].change = "create_measure"
        BY <1>3, <3>1, <3>6 DEF RevisionsSound, WellFormed, IsRowOf, WindowsOf
      <4> QED BY <1>2, <2>1, <3>1, <3>2, <3>6, <4>1 DEF Accounted
    <3> QED BY <3>3, <3>4, <3>5, <3>6 DEF SyncFound
  <2> QED BY <2>2, <2>3
<1> QED BY <1>5, <1>8, <1>9, <1>10, <1>11

\* A staging adds members only to a family that waits.
LEMMA SyncCommitStranded ==
  ASSUME ReviewInv, NEW s \in Syncs, SyncCommit(s) PROVE NothingStranded'
<1> DEFINE f == sync[s]
<1>1. SUFFICES ASSUME Quiet', NEW p \in Staged', Gate(revision'[p], familyItems'[p[1]]) = "approved"
      PROVE  revision'[p].applied \/ revision'[p].superseded
  BY DEF NothingStranded, Quiet
<1>2. mishaps' = mishaps /\ f \in Sync /\ f.pc = "stage" /\ Knows(f) /\ f.rel \in Releases
  BY SyncTables
<1>3. Quiet /\ TypeOK /\ NothingStranded /\ PendingLast
  BY <1>1, <1>2 DEF ReviewInv, Sound, Calm, Quiet
<1>4. CASE p \in Staged
  <2>1. /\ revision'[p].grouped = revision[p].grouped /\ revision'[p].applied = revision[p].applied
        /\ revision'[p].superseded = (revision[p].superseded \/ p \in f.gone)
        /\ revision'[p].item = IF p \in f.own THEN "superseded" ELSE revision[p].item
    BY <1>4, SyncTables
  <2>2. Gate(revision[p], familyItems[p[1]]) = "approved"
    <3>1. p[1] \in Releases /\ familyItems[p[1]] \in Seq(Status)
      BY <1>3, <1>4, StagedShape, ItemsShape
    <3>2. \/ familyItems'[p[1]] = familyItems[p[1]]
          \/ familyItems'[p[1]] = Append(familyItems[p[1]], "pending")
      BY <3>1, SyncTables
    <3>3. LET new == Append(familyItems[p[1]], "pending") IN new # <<>> /\ new[Len(new)] = "pending"
      BY <3>1
    <3> QED BY <1>1, <2>1, <3>2, <3>3 DEF Gate
  <2> QED BY <1>3, <1>4, <2>1, <2>2 DEF NothingStranded, Quiet
<1>5. CASE p \notin Staged
  <2>1. /\ p[1] = f.rel /\ p[2] \in Codes /\ f.stage[p[2]] # None
        /\ revision'[p].grouped = (f.stage[p[2]].change = "create_measure")
        /\ revision'[p].item = IF f.stage[p[2]].change = "create_measure" THEN "none" ELSE "pending"
    BY <1>5, SyncTables
  <2>2. f.stage[p[2]].change = "create_measure"
    BY <1>1, <2>1 DEF Gate
  <2>3. p[2] \in Creates(f)
    BY <2>1, <2>2 DEF Creates, Changes
  <2> DEFINE items == familyItems'[f.rel]
  <2>4. familyItems[f.rel] \in Seq(Status) /\ Len(familyItems[f.rel]) \in Nat
    BY <1>2, <1>3, ItemsShape
  <2>5. items # <<>> /\ items[Len(items)] = "pending"
    <3>1. CASE f.existing = 0
      <4>1. items = Append(familyItems[f.rel], "pending")
        BY <2>3, <3>1, SyncTables
      <4> QED BY <2>4, <4>1
    <3>2. CASE f.existing # 0
      <4>1. items = familyItems[f.rel]
        BY <1>2, <3>2, SyncTables
      <4>2. f.existing \in PendingItems(f.rel)
        BY <1>2, <1>3, <3>2, SyncQueue DEF SyncCalm
      <4>3. f.existing = Len(items) /\ items[f.existing] = "pending" /\ f.existing \in 1..Len(items)
        BY <1>2, <1>3, <4>1, <4>2, ItemsShape DEF PendingLast, PendingItems
      <4>4. items # <<>>
        BY <2>4, <4>1, <4>3
      <4> QED BY <4>3, <4>4
    <3> QED BY <3>1, <3>2
  <2> QED BY <1>1, <2>1, <2>2, <2>5 DEF Gate
<1> QED BY <1>4, <1>5

\* A staging proposes what it has found to differ, or has found it proposed.
LEMMA SyncCommitProposed ==
  ASSUME ReviewInv, NEW s \in Syncs, SyncCommit(s) PROVE EveryChangeProposed'
<1> DEFINE f == sync[s]
<1>1. feed' = feed /\ measure' = measure /\ mishaps' = mishaps /\ Knows(f) /\ f.rel \in Releases
  BY SyncTables
<1>2. SUFFICES ASSUME Quiet', NEW rel \in Releases, NEW c \in Codes, NewestStaged(rel)'
               PROVE  \/ \E i \in LiveWindows(c)' :
                           feed'[rel][c] = IF i = None THEN Absent ELSE measure'[i].content
                      \/ Exists(<<rel, c>>)'
                      \/ \E p \in Staged' : /\ p[2] = c /\ revision'[p].content = feed'[rel][c]
                                             /\ ~revision'[p].superseded
  BY DEF EveryChangeProposed, Quiet
<1>8. Quiet
  BY <1>1, <1>2 DEF Quiet
<1>9. rel = f.rel /\ LiveWindows(c)' = LiveWindows(c)
  BY <1>2, <1>8, SyncQueue
<1>3. SyncFound(f, c)
  BY <1>1, <1>8, SyncQueue DEF SyncCalm
<1>4. CASE f.stage[c] # None
  <2>1. <<f.rel, c>> \in Staged'
    BY <1>4, SyncTables
  <2>2. <<rel, c>> \in Staged'
    BY <1>9, <2>1
  <2> QED BY <2>2 DEF Staged
<1>5. CASE \E q \in OpenOf(c) \ f.gone : revision[q].content = feed[f.rel][c]
  <2>1. PICK q \in OpenOf(c) : q \notin f.gone /\ revision[q].content = feed[f.rel][c]
    BY <1>5
  <2>2. q \in Staged /\ q[2] = c /\ ~revision[q].superseded
    BY DEF OpenOf, IsOpen
  <2>3. /\ q \in Staged' /\ revision'[q].content = revision[q].content
        /\ revision'[q].superseded = (revision[q].superseded \/ q \in f.gone)
    BY <2>2, SyncTables
  <2> QED BY <1>1, <1>9, <2>1, <2>2, <2>3
<1>6. CASE feed[f.rel][c] = Absent /\ WindowsOf(measure, c) = {}
  <2>1. None \in LiveWindows(c)
    BY <1>6 DEF LiveWindows
  <2> QED BY <1>1, <1>6, <1>9, <2>1
<1>7. CASE \E i \in LiveWindows(c) : i # None /\ measure[i].content = feed[f.rel][c]
  BY <1>1, <1>7, <1>9
<1> QED BY <1>3, <1>4, <1>5, <1>6, <1>7 DEF SyncFound

\* A staging: the part about the windows.
LEMMA SyncCommitOrderly ==
  ASSUME ReviewInv, NEW s \in Syncs, SyncCommit(s) PROVE Orderly'
<1> DEFINE f == sync[s]
<1>1. measure' = measure /\ mishaps' = mishaps /\ Knows(f)
  BY SyncTables
<1>2. SUFFICES ASSUME mishaps = {}
      PROVE  /\ OneDecision' /\ SubjectOpen' /\ TableTiles(measure)' /\ NewestFits'
             /\ SyncsFit' /\ ViewsTile'
  BY <1>1 DEF Orderly
<1>3. Quiet /\ TableTiles(measure) /\ NewestFits /\ SyncsFit
  BY <1>2 DEF ReviewInv, Orderly, Quiet
<1>4. /\ \A d \in Deciders : decision'[d] = Idle
      /\ \A t \in Syncs : sync'[t] = Idle
  BY <1>3, SyncQueue
<1>5. OneDecision' /\ SubjectOpen' /\ ViewsTile' /\ SyncsFit'
  BY <1>4 DEF OneDecision, SubjectOpen, ViewsTile, SyncsFit, SyncFits, Busy, Writing, Knows, Idle
<1>6. TableTiles(measure)'
  BY <1>1, <1>3 DEF TableTiles
<1>7. NewestFits'
  <2> SUFFICES ASSUME NEW p \in Staged', ~revision'[p].applied, \A q \in Staged' : q[2] = p[2] => q[1] <= p[1]
               PROVE  Fits(measure, p[2], revision'[p])
    BY <1>1 DEF NewestFits, Fits
  <2>1. CASE p \in Staged
    <3>1. /\ revision'[p].change = revision[p].change /\ revision'[p].target = revision[p].target
          /\ revision'[p].applied = revision[p].applied
          /\ \A q \in Staged : q \in Staged'
      BY <2>1, SyncTables
    <3>2. Fits(measure, p[2], revision[p])
      BY <1>3, <2>1, <3>1 DEF NewestFits
    <3> QED BY <3>1, <3>2 DEF Fits
  <2>2. CASE p \notin Staged
    <3>1. /\ p[2] \in Codes /\ f.stage[p[2]] # None
          /\ revision'[p].change = f.stage[p[2]].change /\ revision'[p].target = f.stage[p[2]].target
      BY <2>2, SyncTables
    <3>2. Fits(measure, p[2], f.stage[p[2]])
      BY <1>1, <1>3, <3>1 DEF SyncsFit, SyncFits
    <3> QED BY <3>1, <3>2 DEF Fits
  <2> QED BY <2>1, <2>2
<1> QED BY <1>5, <1>6, <1>7

\* A staging keeps the invariant.
LEMMA SyncCommitKeeps ==
  ASSUME ReviewInv, NEW s \in Syncs, SyncCommit(s) PROVE ReviewInv'
BY SyncCommitSound, SyncCommitCalm, SyncCommitStranded, SyncCommitProposed, SyncCommitOrderly
   DEF ReviewInv

-----------------------------------------------------------------------------
(* Every step keeps the invariant.                                         *)

\* Every step does.
LEMMA ReviewStep ==
  ASSUME ReviewInv, [Next]_vars PROVE ReviewInv'
<1>1. CASE UNCHANGED vars
  <2>1. published \in Releases /\ published <= published
    BY Numbers DEF ReviewInv, Sound, TypeOK
  <2> QED BY <1>1, <2>1, TablesStandKeeps DEF vars
<1>2. CASE Publish
  BY <1>2, PublishKeeps
<1>3. ASSUME NEW d \in Deciders,
             \/ ReadRevision(d) \/ ReadFamily(d)
             \/ Reject(d) \/ ApproveRevision(d) \/ ApproveFamily(d)
             \/ PlanMember(d) \/ WriteMember(d) \/ Resolve(d) \/ Commit(d) \/ Abort(d)
      PROVE  ReviewInv'
  BY <1>3, ReadRevisionKeeps, ReadFamilyKeeps, RejectKeeps, ApproveRevisionKeeps, ApproveFamilyKeeps,
     PlanMemberKeeps, WriteMemberKeeps, ResolveKeeps, CommitKeeps, AbortKeeps
<1>4. ASSUME NEW s \in Syncs,
             SyncState(s) \/ SyncDiff(s) \/ SyncBegin(s) \/ SyncCommit(s) \/ SyncFails(s)
      PROVE  ReviewInv'
  BY <1>4, SyncStateKeeps, SyncDiffKeeps, SyncBeginKeeps, SyncCommitKeeps, SyncFailsKeeps
<1> QED BY <1>1, <1>2, <1>3, <1>4 DEF Next

\* The invariant of the review: what its parts say of the tables, the
\* decisions and the syncs holds in every state the review reaches.
THEOREM ReviewInvariant == Spec => []ReviewInv
<1>1. Init => ReviewInv
  BY ReviewInit
<1>2. ReviewInv /\ [Next]_vars => ReviewInv'
  BY ReviewStep
<1> QED BY <1>1, <1>2, PTL DEF Spec

\* The rows of the queue, the measures and the frames of the decisions and
\* of the syncs in progress keep their types.
THEOREM ReviewTypeCorrect == Spec => []TypeOK
<1>1. ReviewInv => TypeOK
  BY DEF ReviewInv, Sound
<1> QED BY <1>1, ReviewInvariant, PTL

\* A code has at most one revision that can still be decided, as long as no
\* sync overlaps a decision or another sync (loadOpenRevisions, diffRelease).
THEOREM OneOpenRevisionAlways == Spec => []OneOpenRevision
<1>1. ASSUME ReviewInv PROVE OneOpenRevision
  <2> SUFFICES ASSUME Quiet, NEW c \in Codes PROVE Cardinality(OpenOf(c)) <= 1
    BY DEF OneOpenRevision, Quiet
  <2>1. TypeOK /\ OlderClosed
    BY <1>1 DEF ReviewInv, Sound, Calm
  <2>2. ASSUME NEW p \in OpenOf(c), NEW q \in OpenOf(c) PROVE p = q
    <3>1. /\ p \in Staged /\ p[2] = c /\ IsOpen(p)
          /\ q \in Staged /\ q[2] = c /\ IsOpen(q)
      BY DEF OpenOf
    <3>2. p = <<p[1], p[2]>> /\ q = <<q[1], q[2]>> /\ p[1] \in Nat /\ q[1] \in Nat
      BY <2>1, <3>1, StagedShape, Numbers
    <3>3. ~(p[1] < q[1]) /\ ~(q[1] < p[1])
      BY <2>1, <3>1 DEF OlderClosed
    <3>4. p[1] = q[1]
      BY <3>2, <3>3
    <3> QED BY <3>1, <3>2, <3>4
  <2>3. CASE OpenOf(c) = {}
    BY <2>3, FS_EmptySet
  <2>4. CASE OpenOf(c) # {}
    <3>1. PICK p \in OpenOf(c) : TRUE
      BY <2>4
    <3>2. OpenOf(c) = {p}
      BY <2>2, <3>1
    <3> QED BY <3>2, FS_Singleton
  <2> QED BY <2>3, <2>4
<1> QED BY <1>1, ReviewInvariant, PTL

\* A member of a family is not left behind by the approval of its family,
\* nor a revision by the approval of its own item.
THEOREM NothingStrandedAlways == Spec => []NothingStranded
<1>1. ReviewInv => NothingStranded
  BY DEF ReviewInv
<1> QED BY <1>1, ReviewInvariant, PTL

\* What the newest release changes is live, proposed or decided.
THEOREM EveryChangeProposedAlways == Spec => []EveryChangeProposed
<1>1. ReviewInv => EveryChangeProposed
  BY DEF ReviewInv
<1> QED BY <1>1, ReviewInvariant, PTL

\* The windows of a code do not overlap, as long as decisions and syncs take
\* turns and no correction moves a first day back (applyOne, programs.ts).
THEOREM WindowsTileAlways == Spec => []WindowsTile
<1>1. ReviewInv => WindowsTile
  BY DEF ReviewInv, Orderly, WindowsTile, TableTiles
<1> QED BY <1>1, ReviewInvariant, PTL

-----------------------------------------------------------------------------
(* The review is the gate of TariffGate.                                   *)

\* A step that leaves the tables alone is a stutter of the gate, or the end
\* of its quiet.
LEMMA GateStutters ==
  ASSUME UNCHANGED <<feed, tables, effects>>, mishaps \subseteq mishaps'
  PROVE  [Gates!GateNext]_Gates!gateVars
<1>1. UNCHANGED <<Staged, Applied, effects>>
  BY SameTables
<1>2. CASE Quiet'
  BY <1>1, <1>2 DEF Quiet, Gates!gateVars
<1>3. CASE ~Quiet'
  BY <1>3 DEF Quiet, Gates!GateNext
<1> QED BY <1>2, <1>3

\* A commit approves what its decision has applied.
LEMMA CommitApproves ==
  ASSUME ReviewInv, NEW d \in Deciders, Commit(d)
  PROVE  [Gates!GateNext]_Gates!gateVars
<1> DEFINE f == decision[d]
           S == {p \in Proposals : p[1] = f.on.rel /\ p[2] \in f.done}
<1>1. CASE ~Quiet'
  BY <1>1 DEF Quiet, Gates!GateNext
<1>2. CASE Quiet'
  <2>1. /\ mishaps \subseteq mishaps' /\ Writing(d) /\ f.on.rel \in Releases /\ f.done \subseteq Codes
        /\ WritesSound(f) /\ Staged' = Staged
    BY CommitTables
  <2>2. Quiet /\ TypeOK /\ UnappliedIn(f)
    BY <1>2, <2>1 DEF Quiet, ReviewInv, Sound, Calm, Unapplied
  <2>3. S \subseteq Staged \ Applied
    <3> SUFFICES ASSUME NEW p \in S PROVE p \in Staged \ Applied
      OBVIOUS
    <3>1. p = <<f.on.rel, p[2]>> /\ p[2] \in f.done
      BY DEF Proposals
    <3>2. Exists(p) /\ ~revision[p].applied
      BY <2>1, <2>2, <3>1 DEF WritesSound, UnappliedIn
    <3> QED BY <3>2 DEF Staged, Applied
  <2>4. Applied' = Applied \cup S
    <3>1. ASSUME NEW p \in Staged
          PROVE  revision'[p].applied = (revision[p].applied \/ p \in S)
      <4>1. p \in Proposals /\ revision[p] # None
        BY DEF Staged, Exists
      <4> QED BY <2>1, <2>2, <4>1, CommitRows
    <3>2. Applied' = {p \in Staged : revision'[p].applied}
      BY <2>1 DEF Applied
    <3> QED BY <2>3, <3>1, <3>2 DEF Applied
  <2>5. effects' = [p \in Proposals |-> IF p \in S THEN effects[p] + 1 ELSE effects[p]]
    <3>1. effects' = [p \in Proposals |-> effects[p] + IF p[1] = f.on.rel /\ p[2] \in f.done THEN 1 ELSE 0]
      BY DEF Commit
    <3>2. \A p \in Proposals : effects[p] \in Nat
      BY <2>2 DEF TypeOK
    <3> QED BY <3>1, <3>2
  <2>6. S \in SUBSET Proposals
    OBVIOUS
  <2>7. Gates!Approve(S)
    BY <2>1, <2>3, <2>4, <2>5 DEF Gates!Approve
  <2> QED BY <1>2, <2>2, <2>6, <2>7 DEF Quiet, Gates!GateNext
<1> QED BY <1>1, <1>2

\* The staging transaction of a sync proposes what it stages.
LEMMA SyncCommitProposes ==
  ASSUME ReviewInv, NEW s \in Syncs, SyncCommit(s)
  PROVE  [Gates!GateNext]_Gates!gateVars
<1>1. CASE ~Quiet'
  BY <1>1 DEF Quiet, Gates!GateNext
<1>2. CASE Quiet'
  <2> DEFINE S == Staged' \ Staged
  <2>1. mishaps' = mishaps /\ effects' = effects /\ Staged \subseteq Staged'
    BY SyncTables
  <2>2. Applied' = Applied
    <3>1. \A p \in Staged : revision'[p].applied = revision[p].applied
      BY SyncTables
    <3>2. \A p \in Staged' : p \notin Staged => ~revision'[p].applied
      BY SyncTables
    <3>3. Applied' = {p \in Staged' : revision'[p].applied}
      BY DEF Applied
    <3> QED BY <2>1, <3>1, <3>2, <3>3 DEF Applied
  <2>3. S \in SUBSET Proposals /\ S \cap Staged = {} /\ Staged' = Staged \cup S
    BY <2>1 DEF Staged
  <2>4. Gates!Propose(S)
    BY <2>1, <2>2, <2>3 DEF Gates!Propose
  <2> QED BY <1>2, <2>1, <2>3, <2>4 DEF Quiet, Gates!GateNext
<1> QED BY <1>1, <1>2

\* The review is a gate: a revision changes the measures at most once, in the
\* commit that makes it applied, and applied it stays, as long as no sync
\* overlaps; whatever decisions overlap.
THEOREM ReviewImplementsGate == Spec => Implements
<1>1. Init => Gates!GateInit
  BY DEF Init, Gates!GateInit, Staged, Applied, Exists
<1>2. ASSUME ReviewInv, [Next]_vars PROVE [Gates!GateNext]_Gates!gateVars
  <2>1. CASE UNCHANGED vars
    BY <2>1, GateStutters DEF vars
  <2>2. CASE Publish
    BY <2>2, GateStutters DEF Publish
  <2>3. ASSUME NEW d \in Deciders, ReadRevision(d) \/ ReadFamily(d)
        PROVE  [Gates!GateNext]_Gates!gateVars
    BY <2>3, GateStutters DEF ReadRevision, ReadFamily, Starts
  <2>4. ASSUME NEW d \in Deciders,
               \/ Reject(d) \/ ApproveRevision(d) \/ ApproveFamily(d)
               \/ PlanMember(d) \/ WriteMember(d) \/ Resolve(d) \/ Abort(d)
        PROVE  [Gates!GateNext]_Gates!gateVars
    BY <2>4, GateStutters DEF Reject, ApproveRevision, ApproveFamily, Deciding, PlanMember, PlanCreate, PlanChange,
       PlanEnd, WriteMember, Resolve, Abort, Continues
  <2>5. ASSUME NEW d \in Deciders, Commit(d) PROVE [Gates!GateNext]_Gates!gateVars
    BY <1>2, <2>5, CommitApproves
  <2>6. ASSUME NEW s \in Syncs, SyncState(s) \/ SyncDiff(s) \/ SyncBegin(s) \/ SyncFails(s)
        PROVE  [Gates!GateNext]_Gates!gateVars
    BY <2>6, GateStutters DEF SyncState, SyncDiff, SyncBegin, SyncFails, SyncContinues
  <2>7. ASSUME NEW s \in Syncs, SyncCommit(s) PROVE [Gates!GateNext]_Gates!gateVars
    BY <1>2, <2>7, SyncCommitProposes
  <2> QED BY <1>2, <2>1, <2>2, <2>3, <2>4, <2>5, <2>6, <2>7 DEF Next
<1> QED BY <1>1, <1>2, ReviewInvariant, PTL DEF Spec, Implements, Gates!GateSpec
=============================================================================
