----------------------------- MODULE BaseRelease -----------------------------
(***************************************************************************)
(* The base schedule of the tariff (chapters 1 to 97): a sync stages a     *)
(* release as one review item (sync.ts, stageBaseRelease), a person        *)
(* approves or rejects it (api/tariff-sync/base-releases), and an approval *)
(* applies the difference between the archived release and the live        *)
(* windows of hts_codes, closing, correcting and opening them              *)
(* (base-apply.ts).  Chapter 99 is TariffReview.                           *)
(*                                                                         *)
(* A decision is one READ COMMITTED transaction: it reads the pending item *)
(* (ReadItem), updates it and keeps its row lock, reads the rest (Derive), *)
(* and writes (ApplyRelease).  A sync reads the live windows, then the     *)
(* pending items, then writes.                                             *)
(***************************************************************************)
EXTENDS EffectiveDating

CONSTANTS
  BaseCodes,     \* codes of the schedule
  Rates,         \* rate and description of a code
  Absent,        \* the schedule has no such code
  Releases,      \* releases, in order of publication
  ItemIds,       \* ids of review_items rows
  Reviewers,     \* decisions in progress
  BaseSyncs,     \* syncs in progress
  NoRow,         \* no row, nothing read
  MinPrepared,   \* MIN_PREPARED_ROWS
  Established,   \* ESTABLISHED_MIN_ROWS
  MaxEditions,   \* bound: publications and reissues of a behaviour
  MaxApprovals   \* bound: decisions of a behaviour

ASSUME ReleasesAssumption == Releases \subseteq Nat \ {0}
ASSUME ItemIdsAssumption == ItemIds \subseteq Nat
ASSUME ThresholdsAssumption == MinPrepared \in Nat /\ Established \in Nat
ASSUME BaseBoundsAssumption == MaxEditions \in Nat /\ MaxApprovals \in Nat

VARIABLES
  feed,       \* the schedule USITC serves: the newest release and its rows
  windows,    \* hts_codes rows without a measure
  release,    \* tariff_announcements of base releases with their payload
  item,       \* tariff_base_release review items, by id
  reviewer,   \* decisions: what they have read and hold
  baseSync,   \* syncs: what they have read
  inForce,    \* ghost: the schedule applied last
  since,      \* ghost: its effective date
  uses,       \* ghost: how often an item was applied
  overlaps,   \* ghost: which transactions have overlapped, and late rejections
  editions,   \* bound counter
  approvals   \* bound counter

baseTables == <<feed, windows, release, item>>
baseGhosts == <<inForce, since, uses>>
baseBounds == <<editions, approvals>>
baseVars == <<baseTables, reviewer, baseSync, baseGhosts, overlaps, baseBounds>>

-----------------------------------------------------------------------------
(* Tables and frames.                                                      *)

Seed == 0

BaseWindow == [code : BaseCodes, rate : Rates, from : {0} \cup Days,
               to : Nat \cup {Open}, stamp : {Seed} \cup Releases]

Schedule == [BaseCodes -> Rates \cup {Absent}]

Announcement == [status : {"none", "open", "resolved", "dismissed"},
                 payload : Schedule \cup {NoRow}]

BaseItem == [rel : Releases, status : {"pending", "approved", "rejected", "superseded"}]

ASSUME NoRowAssumption == NoRow \notin BaseWindow \cup BaseItem

AtRest == [pc |-> "idle"]

Decision ==
  {AtRest} \cup [pc : {"read"}, item : ItemIds]
  \cup [pc : {"derived"}, item : ItemIds, rows : Schedule,
        live : [BaseCodes -> BaseWindow \cup {NoRow}]]

Sync ==
  {AtRest} \cup [pc : {"live"}, rel : Releases, rows : Schedule, empty : BOOLEAN]
  \cup [pc : {"items"}, rel : Releases, rows : Schedule, empty : BOOLEAN,
        pending : SUBSET ItemIds, open : SUBSET Releases]

LiveOf(table, c) == {w \in table : w.code = c /\ w.to = Open}

\* The current window of a code, or NoRow: what loadCurrentBaseWindows answers.
Current == [c \in BaseCodes |->
  IF LiveOf(windows, c) = {} THEN NoRow ELSE CHOOSE w \in LiveOf(windows, c) : TRUE]

PendingItems == {n \in ItemIds : item[n] # NoRow /\ item[n].status = "pending"}
HeldItems == {reviewer[d].item : d \in {e \in Reviewers : reviewer[e].pc = "derived"}}

BaseTypeOK ==
  /\ feed \in [rel : {0} \cup Releases, rows : Schedule]
  /\ windows \subseteq BaseWindow
  /\ release \in [Releases -> Announcement]
  /\ item \in [ItemIds -> BaseItem \cup {NoRow}]
  /\ reviewer \in [Reviewers -> Decision]
  /\ baseSync \in [BaseSyncs -> Sync]
  /\ inForce \in Schedule \cup {NoRow} /\ since \in {0} \cup Days
  /\ uses \in [ItemIds -> Nat] /\ approvals \in Nat
  /\ overlaps \subseteq {"sync", "decision", "rejection"}

\* The bootstrap rows of the demo are open from the start and stamped SEED.
BaseInit ==
  /\ \E rate \in Rates, seeded \in SUBSET BaseCodes :
       windows = {[code |-> c, rate |-> rate, from |-> 0, to |-> Open, stamp |-> Seed] : c \in seeded}
  /\ feed = [rel |-> 0, rows |-> [c \in BaseCodes |-> Absent]]
  /\ release = [r \in Releases |-> [status |-> "none", payload |-> NoRow]]
  /\ item = [n \in ItemIds |-> NoRow]
  /\ reviewer = [d \in Reviewers |-> AtRest]
  /\ baseSync = [s \in BaseSyncs |-> AtRest]
  /\ inForce = NoRow /\ since = 0
  /\ uses = [n \in ItemIds |-> 0]
  /\ overlaps = {} /\ editions = 0 /\ approvals = 0

-----------------------------------------------------------------------------
(* The difference between a schedule and the live windows.                 *)

\* Mutant: a code that the release lacks is left alone.
RemovedNever(rows, live) == {}

Added(rows, live) == {c \in BaseCodes : rows[c] # Absent /\ live[c] = NoRow}
Removed(rows, live) == {c \in BaseCodes : rows[c] = Absent /\ live[c] # NoRow}
Changed(rows, live) ==
  {c \in BaseCodes : rows[c] # Absent /\ live[c] # NoRow /\ live[c].rate # rows[c]}
EmptyDiff(rows, live) ==
  Added(rows, live) \cup Removed(rows, live) \cup Changed(rows, live) = {}

\* checkBaseReleaseSanity: a tenth removed, a fifth fewer or half changed.
Sane(rows, live) ==
  LET prepared == Cardinality({c \in BaseCodes : rows[c] # Absent})
      current == Cardinality({c \in BaseCodes : live[c] # NoRow})
  IN /\ prepared >= MinPrepared
     /\ current >= Established =>
          /\ 10 * Cardinality(Removed(rows, live)) <= current
          /\ 10 * prepared >= 8 * current
          /\ 2 * Cardinality(Changed(rows, live)) <= current

\* Mutant: a change is always a correction.
TiledNever(was, eff) == FALSE

\* planBaseChange: seed rows were never true, they are corrected in place.
Tiled(was, eff) == was.stamp # Seed /\ Tiles(was.from, eff)

-----------------------------------------------------------------------------
(* Decisions.                                                              *)

\* A sync that overlaps a decision, and decisions on two items that overlap.
Overlap(n) ==
  (IF \E s \in BaseSyncs : baseSync[s] # AtRest THEN {"sync"} ELSE {})
  \cup (IF \E d \in Reviewers : reviewer[d] # AtRest /\ reviewer[d].item # n
        THEN {"decision"} ELSE {})

ReadItem(d) ==
  /\ reviewer[d] = AtRest /\ approvals < MaxApprovals
  /\ \E n \in PendingItems :
       /\ reviewer' = [reviewer EXCEPT ![d] = [pc |-> "read", item |-> n]]
       /\ overlaps' = overlaps \cup Overlap(n)
  /\ approvals' = approvals + 1
  /\ UNCHANGED <<baseTables, baseSync, baseGhosts, editions>>

\* By id, whatever the item has become.
RejectRelease(d) ==
  LET n == reviewer[d].item IN
  /\ reviewer[d].pc = "read" /\ n \notin HeldItems
  /\ item' = [item EXCEPT ![n].status = "rejected"]
  /\ release' = [release EXCEPT ![item[n].rel].status = "dismissed"]
  /\ reviewer' = [reviewer EXCEPT ![d] = AtRest]
  /\ overlaps' = overlaps \cup IF item[n].status = "pending" THEN {} ELSE {"rejection"}
  /\ UNCHANGED <<feed, windows, baseSync, baseGhosts, baseBounds>>

\* Mutant: a release that was applied may be applied again.
ResolvedToo(rel) == TRUE

NotResolved(rel) == release[rel].status # "resolved"

\* The newest item of the release must be approved; this one just was.
NewestApproved(n) ==
  LET own == {k \in ItemIds : item[k] # NoRow /\ item[k].rel = item[n].rel}
      newest == CHOOSE k \in own : \A j \in own : j <= k
  IN newest = n \/ item[newest].status = "approved"

\* The item's row is locked by its UPDATE; only then the announcement, the
\* archived payload and the live windows are read.
Derive(d) ==
  LET n == reviewer[d].item IN
  /\ reviewer[d].pc = "read" /\ n \notin HeldItems
  /\ NotResolved(item[n].rel) /\ NewestApproved(n)
  /\ reviewer' = [reviewer EXCEPT ![d] = 
       [pc |-> "derived", item |-> n, rows |-> release[item[n].rel].payload, live |-> Current]]
  /\ UNCHANGED <<baseTables, baseSync, baseGhosts, overlaps, baseBounds>>

\* What an apply makes of a row that is open when it writes: it closes or
\* corrects the current window of a code by predicate, with the plan of the
\* window it has read, and stamps the others.
RowAfter(w, rel, rows, live, eff) ==
  LET c == w.code
      was == live[c]
  IN IF w.to # Open THEN w
     ELSE IF c \in Removed(rows, live) THEN [w EXCEPT !.to = CloseDate(was.from, eff)]
     ELSE IF c \notin Changed(rows, live) THEN [w EXCEPT !.stamp = rel]
     ELSE IF Tiled(was, eff) THEN [w EXCEPT !.to = eff - 1]
     ELSE [w EXCEPT !.rate = rows[c], !.stamp = rel]

Opened(rows, live, eff) ==
  Added(rows, live) \cup {c \in Changed(rows, live) : Tiled(live[c], eff)}

\* applyBaseSchedule; the unique index lets a code have one current window.
ApplyRelease(d) ==
  LET n == reviewer[d].item
      rel == item[n].rel
      rows == reviewer[d].rows
      live == reviewer[d].live
  IN /\ reviewer[d].pc = "derived"
     /\ \E eff \in Days, force \in BOOLEAN :
          /\ force \/ Sane(rows, live)
          /\ LET table == {RowAfter(w, rel, rows, live, eff) : w \in windows}
             IN /\ \A c \in Opened(rows, live, eff) : LiveOf(table, c) = {}
                /\ windows' = table \cup
                     {[code |-> c, rate |-> rows[c], from |-> eff, to |-> Open, stamp |-> rel]
                        : c \in Opened(rows, live, eff)}
          /\ since' = eff
     /\ item' = [item EXCEPT ![n].status = "approved"]
     /\ release' = [release EXCEPT ![rel].status = "resolved"]
     /\ inForce' = rows
     /\ uses' = [uses EXCEPT ![n] = @ + 1]
     /\ reviewer' = [reviewer EXCEPT ![d] = AtRest]
     /\ UNCHANGED <<feed, baseSync, overlaps, baseBounds>>

\* A resolved release, the guard, a unique index: everything rolls back.
AbortDecision(d) ==
  /\ reviewer[d] # AtRest
  /\ reviewer' = [reviewer EXCEPT ![d] = AtRest]
  /\ UNCHANGED <<baseTables, baseSync, baseGhosts, overlaps, baseBounds>>

-----------------------------------------------------------------------------
(* The sync.                                                               *)

\* A release is published, or the newest one reissued.
PublishRelease ==
  /\ editions < MaxEditions
  /\ \E rows \in Schedule, r \in Releases :
       /\ r \in {feed.rel, feed.rel + 1} /\ rows # feed.rows
       /\ feed' = [rel |-> r, rows |-> rows]
  /\ editions' = editions + 1
  /\ UNCHANGED <<windows, release, item, reviewer, baseSync, baseGhosts, overlaps, approvals>>

ReadLive(s) ==
  /\ baseSync[s] = AtRest /\ feed.rel # 0
  /\ baseSync' = [baseSync EXCEPT ![s] =
       [pc |-> "live", rel |-> feed.rel, rows |-> feed.rows, empty |-> EmptyDiff(feed.rows, Current)]]
  /\ overlaps' = overlaps \cup 
       (IF \E d \in Reviewers : reviewer[d] # AtRest THEN {"sync"} ELSE {})
  /\ UNCHANGED <<baseTables, reviewer, baseGhosts, baseBounds>>

ReadPending(s) ==
  LET f == baseSync[s] IN
  /\ f.pc = "live"
  /\ baseSync' = [baseSync EXCEPT ![s] =
       [pc |-> "items", rel |-> f.rel, rows |-> f.rows, empty |-> f.empty, pending |-> PendingItems,
        open |-> {r \in Releases : release[r].status = "open"}]]
  /\ UNCHANGED <<baseTables, reviewer, baseGhosts, overlaps, baseBounds>>

\* Every pending item but that of the release itself, and all of them when
\* there is nothing to change.
SupersededItems(f) == {n \in f.pending : f.empty \/ item[n].rel # f.rel}

\* stageBaseRelease, by id, once nobody holds the rows.
StageRelease(s) ==
  LET f == baseSync[s]
      gone == SupersededItems(f)
      own == f.pending \ gone
      superseded == [n \in ItemIds |->
        IF n \in gone THEN [item[n] EXCEPT !.status = "superseded"] ELSE item[n]]
  IN /\ f.pc = "items" /\ f.pending \cap HeldItems = {}
     /\ release' = [r \in Releases |->
          IF r = f.rel
          THEN [status |-> IF f.empty THEN "resolved" ELSE "open", payload |-> f.rows]
          ELSE IF r \in f.open /\ \E n \in gone : item[n].rel = r
          THEN [release[r] EXCEPT !.status = "resolved"] ELSE release[r]]
     /\ IF f.empty \/ own # {} THEN item' = superseded
        ELSE /\ \A n \in PendingItems \ gone : item[n].rel # f.rel
             /\ \E n \in ItemIds :
                  /\ item[n] = NoRow /\ \A k \in ItemIds : k < n => item[k] # NoRow
                  /\ item' = [superseded EXCEPT ![n] = [rel |-> f.rel, status |-> "pending"]]
     /\ baseSync' = [baseSync EXCEPT ![s] = AtRest]
     /\ UNCHANGED <<feed, windows, reviewer, baseGhosts, overlaps, baseBounds>>

AbortSync(s) ==
  /\ baseSync[s] # AtRest
  /\ baseSync' = [baseSync EXCEPT ![s] = AtRest]
  /\ UNCHANGED <<baseTables, reviewer, baseGhosts, overlaps, baseBounds>>

BaseNext ==
  \/ PublishRelease
  \/ \E d \in Reviewers :
       ReadItem(d) \/ RejectRelease(d) \/ Derive(d) \/ ApplyRelease(d) \/ AbortDecision(d)
  \/ \E s \in BaseSyncs : ReadLive(s) \/ ReadPending(s) \/ StageRelease(s) \/ AbortSync(s)

BaseSpec == BaseInit /\ [][BaseNext]_baseVars

-----------------------------------------------------------------------------
(* Properties.                                                             *)

\* "Deriving against live state ... stays correct even if state moved between
\* staging and approval": the live windows are those of the release applied
\* last, whatever syncs and approvals of one release overlap; only approvals of
\* two releases may mix their writes.
RatesInForce ==
  inForce = NoRow \/ "decision" \in overlaps \/ \A c \in BaseCodes :
    inForce[c] = IF Current[c] = NoRow THEN Absent ELSE Current[c].rate

RatesOn(c, day) ==
  {w.rate : w \in {v \in windows : v.code = c /\ v.stamp # Seed /\ CoversDay(v, day)}}

\* "Historical entries keep auditing against the base rates of their day": an
\* apply changes nothing for the days before its effective date, except on
\* seed rows.
PastRatesStand ==
  [][uses' # uses => "decision" \in overlaps \/ \A c \in BaseCodes, day \in Days :
       day < since' => RatesOn(c, day) \subseteq RatesOn(c, day)']_baseVars

\* A release is applied at most once however its approvals overlap: the second
\* waits for the first's row lock and then finds the release resolved.  Only a
\* sync, or a rejection, that has read the item before can undo that.
ReleaseAppliedOnce ==
  overlaps \cap {"sync", "rejection"} = {} => \A n \in ItemIds : uses[n] <= 1
=============================================================================
