--------------------------- MODULE ServicesProofs ---------------------------
(***************************************************************************)
(* Theorems about the services of MCServices that have no proof module of  *)
(* their own, and about all of them together: the alerts of an entry       *)
(* (EntryAudit), a conversation (AgentTurn) and the entry graph            *)
(* (EntryLinking), for every number of entries, auditors, facts, edits and *)
(* judgments, of requests, calls and failures, and of documents, whatever  *)
(* they say.                                                               *)
(***************************************************************************)
EXTENDS Induction, MCServices

-----------------------------------------------------------------------------
(* BaseRelease: overlapping decisions apply a release once, and the live   *)
(* windows are those of the release applied last.                          *)

\* Nothing has reopened a release.
Clean == overlaps \cap {"sync", "rejection"} = {}

Busy(d) == reviewer[d] # AtRest

\* An item's release has a payload; an item that is not there was never applied.
ItemsArchived ==
  \A n \in ItemIds : item[n] # NoRow => release[item[n].rel].payload \in Schedule

DecisionsHaveItems == \A d \in Reviewers : Busy(d) => item[reviewer[d].item] # NoRow

SyncsHaveItems ==
  \A s \in BaseSyncs : baseSync[s].pc = "items" => \A n \in baseSync[s].pending : item[n] # NoRow

\* The row lock of an item: one derived decision on it.
OneDerived ==
  \A d, b \in Reviewers :
    reviewer[d].pc = "derived" /\ reviewer[b].pc = "derived"
      /\ reviewer[d].item = reviewer[b].item => d = b

\* The unique index: one pending item of a release.
OnePending ==
  \A n, k \in PendingItems : item[n].rel = item[k].rel => n = k

\* A sync and a decision at a time are an overlap.
SyncApart ==
  "sync" \notin overlaps =>
    \A d \in Reviewers, s \in BaseSyncs : Busy(d) => baseSync[s] = AtRest

\* What is pending or gone was not applied; the item of a decision was not, or
\* the decision will find its release resolved, and has no pending rival.
Unused ==
  Clean =>
    /\ \A n \in ItemIds : uses[n] <= 1
    /\ \A n \in ItemIds : item[n] = NoRow \/ item[n].status = "pending" => uses[n] = 0
    /\ \A d \in Reviewers : Busy(d) =>
         /\ \/ uses[reviewer[d].item] = 0
            \/ /\ reviewer[d].pc = "read"
               /\ release[item[reviewer[d].item].rel].status = "resolved"
         /\ \A n \in PendingItems :
              item[n].rel = item[reviewer[d].item].rel => n = reviewer[d].item

\* One current window of a code.
OneLive == \A c \in BaseCodes : \A v, w \in LiveOf(windows, c) : v = w

\* While decisions on two items have not overlapped, all are on one item, and
\* the one that holds it knows the live windows.
DecisionsApart ==
  "decision" \notin overlaps =>
    /\ \A d, b \in Reviewers : Busy(d) /\ Busy(b) => reviewer[d].item = reviewer[b].item
    /\ \A d \in Reviewers : reviewer[d].pc = "derived" => reviewer[d].live = Current

BaseInv ==
  /\ BaseTypeOK
  /\ ItemsArchived /\ DecisionsHaveItems /\ SyncsHaveItems /\ OneDerived /\ OnePending /\ SyncApart /\ Unused
  /\ OneLive /\ DecisionsApart /\ RatesInForce

LEMMA DecisionTypes ==
  ASSUME NEW f \in Decision
  PROVE  /\ f.pc \in {"idle", "read", "derived"}
         /\ f # AtRest <=> f.pc \in {"read", "derived"}
         /\ f # AtRest => f.item \in ItemIds
         /\ f.pc = "derived" => /\ f.rows \in Schedule
                                /\ f.live \in [BaseCodes -> BaseWindow \cup {NoRow}]
BY DEF Decision, AtRest

LEMMA SyncTypes ==
  ASSUME NEW f \in Sync
  PROVE  /\ f.pc \in {"idle", "live", "items"}
         /\ f # AtRest <=> f.pc \in {"live", "items"}
         /\ f # AtRest => f.rel \in Releases /\ f.rows \in Schedule /\ f.empty \in BOOLEAN
         /\ f.pc = "items" => f.pending \subseteq ItemIds /\ f.open \subseteq Releases
BY DEF Sync, AtRest

LEMMA CurrentTypes ==
  ASSUME windows \subseteq BaseWindow
  PROVE  /\ Current \in [BaseCodes -> BaseWindow \cup {NoRow}]
         /\ \A c \in BaseCodes : LiveOf(windows, c) = {} => Current[c] = NoRow
         /\ \A c \in BaseCodes : LiveOf(windows, c) # {} => Current[c] \in LiveOf(windows, c)
<1>1. ASSUME NEW c \in BaseCodes, LiveOf(windows, c) # {}
      PROVE  (CHOOSE w \in LiveOf(windows, c) : TRUE) \in LiveOf(windows, c)
  BY <1>1
<1>2. \A c \in BaseCodes : LiveOf(windows, c) \subseteq BaseWindow
  BY DEF LiveOf
<1> QED BY <1>1, <1>2 DEF Current

-----------------------------------------------------------------------------
(* The steps that write no window.                                           *)

\* What the windows and the schedule in force say to one another is not
\* disturbed by a step that writes neither, if decisions stay apart.
LEMMA WindowsKept ==
  ASSUME BaseInv, UNCHANGED <<windows, inForce>>, overlaps \subseteq overlaps',
         \A d \in Reviewers : reviewer'[d].pc = "derived" =>
           \/ reviewer'[d] = reviewer[d]
           \/ reviewer'[d].live = Current,
         "decision" \notin overlaps' =>
           \A d, b \in Reviewers :
             reviewer'[d] # AtRest /\ reviewer'[b] # AtRest => reviewer'[d].item = reviewer'[b].item
  PROVE  OneLive' /\ DecisionsApart' /\ RatesInForce'
<1>1. Current' = Current
  BY DEF Current, LiveOf
<1>2. OneLive'
  BY DEF BaseInv, OneLive, LiveOf
<1>3. DecisionsApart'
  BY <1>1 DEF BaseInv, DecisionsApart, Busy
<1>4. RatesInForce'
  BY <1>1 DEF BaseInv, RatesInForce
<1> QED BY <1>2, <1>3, <1>4

LEMMA BaseInvInit == BaseInit => BaseInv
<1> SUFFICES ASSUME BaseInit PROVE BaseInv
  OBVIOUS
<1>1. PICK rate \in Rates, seeded \in SUBSET BaseCodes :
        windows = {[code |-> c, rate |-> rate, from |-> 0, to |-> Open, stamp |-> Seed] : c \in seeded}
  BY DEF BaseInit
<1>2. windows \subseteq BaseWindow
  BY <1>1 DEF BaseWindow
<1>3. OneLive
  BY <1>1 DEF OneLive, LiveOf
<1>4. BaseTypeOK
  BY <1>2 DEF BaseInit, BaseTypeOK, Schedule, Announcement, Decision, Sync
<1>5. /\ \A d \in Reviewers : reviewer[d] = AtRest /\ reviewer[d].pc = "idle"
      /\ \A s \in BaseSyncs : baseSync[s] = AtRest /\ baseSync[s].pc = "idle"
      /\ \A n \in ItemIds : item[n] = NoRow /\ uses[n] = 0
      /\ PendingItems = {}
  BY DEF BaseInit, AtRest, PendingItems
<1> QED BY <1>3, <1>4, <1>5
      DEF BaseInit, BaseInv, ItemsArchived, DecisionsHaveItems, SyncsHaveItems, OneDerived, OnePending, SyncApart,
          Unused, DecisionsApart, RatesInForce, Busy

LEMMA PublishKeeps == ASSUME BaseInv, PublishRelease PROVE BaseInv'
<1>1. UNCHANGED <<windows, release, item, reviewer, baseSync, inForce, since, uses, overlaps, approvals>>
  BY DEF PublishRelease, baseGhosts
<1>2. BaseTypeOK'
  BY <1>1 DEF BaseInv, BaseTypeOK, PublishRelease
<1>3. OneLive' /\ DecisionsApart' /\ RatesInForce'
  BY <1>1 DEF BaseInv, OneLive, DecisionsApart, RatesInForce, Current, LiveOf, Busy
<1> QED BY <1>1, <1>2, <1>3
      DEF BaseInv, ItemsArchived, DecisionsHaveItems, SyncsHaveItems, OneDerived, OnePending, SyncApart, Unused,
          PendingItems, Clean, Busy

LEMMA ReadItemKeeps == ASSUME BaseInv, NEW d \in Reviewers, ReadItem(d) PROVE BaseInv'
<1>0. /\ BaseTypeOK /\ ItemsArchived /\ DecisionsHaveItems /\ SyncsHaveItems /\ OneDerived
      /\ OnePending /\ SyncApart /\ Unused /\ DecisionsApart
  BY DEF BaseInv
<1>1. PICK n \in PendingItems :
        /\ reviewer' = [reviewer EXCEPT ![d] = [pc |-> "read", item |-> n]]
        /\ overlaps' = overlaps \cup Overlap(n)
  BY DEF ReadItem
<1>2. /\ UNCHANGED <<feed, windows, release, item, baseSync, inForce, since, uses, editions>>
      /\ approvals' = approvals + 1 /\ reviewer[d] = AtRest
  BY DEF ReadItem, baseTables, baseGhosts
<1>3. /\ n \in ItemIds /\ item[n] # NoRow /\ item[n].status = "pending"
      /\ reviewer'[d] = [pc |-> "read", item |-> n]
      /\ \A b \in Reviewers \ {d} : reviewer'[b] = reviewer[b]
      /\ reviewer'[d] # AtRest /\ reviewer'[d].pc = "read" /\ reviewer'[d].item = n
  BY <1>0, <1>1 DEF PendingItems, BaseTypeOK, AtRest
<1>4. BaseTypeOK'
  <2>1. reviewer' \in [Reviewers -> Decision]
    BY <1>0, <1>1, <1>3 DEF BaseTypeOK, Decision
  <2>2. overlaps' \subseteq {"sync", "decision", "rejection"} /\ approvals' \in Nat
    BY <1>0, <1>1, <1>2 DEF BaseTypeOK, Overlap
  <2> QED BY <1>0, <1>2, <2>1, <2>2 DEF BaseTypeOK
<1>5. PendingItems' = PendingItems /\ (Clean' => Clean)
  BY <1>1, <1>2 DEF PendingItems, Clean
<1>6. ItemsArchived' /\ OnePending' /\ SyncsHaveItems'
  BY <1>0, <1>2, <1>5 DEF ItemsArchived, OnePending, SyncsHaveItems
<1>7. DecisionsHaveItems' /\ OneDerived'
  BY <1>0, <1>2, <1>3 DEF DecisionsHaveItems, OneDerived, Busy
<1>8. SyncApart'
  BY <1>0, <1>1, <1>2, <1>3 DEF SyncApart, Busy, Overlap
<1>9. Unused'
  BY <1>0, <1>2, <1>3, <1>5 DEF Unused, Busy, OnePending
<1>10. OneLive' /\ DecisionsApart' /\ RatesInForce'
  <2>1. "decision" \notin overlaps' =>
          /\ "decision" \notin overlaps
          /\ \A b \in Reviewers : Busy(b) => reviewer[b].item = n
    BY <1>1 DEF Overlap, Busy
  <2>2. "decision" \notin overlaps' =>
          \A c, b \in Reviewers :
            reviewer'[c] # AtRest /\ reviewer'[b] # AtRest => reviewer'[c].item = reviewer'[b].item
    BY <1>3, <2>1 DEF Busy
  <2> QED BY <1>1, <1>2, <1>3, <2>2, WindowsKept
<1> QED BY <1>4, <1>6, <1>7, <1>8, <1>9, <1>10 DEF BaseInv

LEMMA AbortDecisionKeeps == ASSUME BaseInv, NEW d \in Reviewers, AbortDecision(d) PROVE BaseInv'
<1>0. /\ BaseTypeOK /\ ItemsArchived /\ DecisionsHaveItems /\ SyncsHaveItems /\ OneDerived
      /\ OnePending /\ SyncApart /\ Unused /\ DecisionsApart
  BY DEF BaseInv
<1>1. /\ reviewer' = [reviewer EXCEPT ![d] = AtRest]
      /\ UNCHANGED <<feed, windows, release, item, baseSync, inForce, since, uses, overlaps,
                     editions, approvals>>
  BY DEF AbortDecision, baseTables, baseGhosts, baseBounds
<1>2. /\ reviewer'[d] = AtRest /\ reviewer'[d].pc = "idle"
      /\ \A b \in Reviewers \ {d} : reviewer'[b] = reviewer[b]
  BY <1>0, <1>1 DEF BaseTypeOK, AtRest
<1>3. BaseTypeOK'
  BY <1>0, <1>1 DEF BaseTypeOK, Decision
<1>4. PendingItems' = PendingItems /\ (Clean' <=> Clean)
  BY <1>1 DEF PendingItems, Clean
<1>5. /\ ItemsArchived' /\ OnePending' /\ DecisionsHaveItems' /\ SyncsHaveItems' /\ OneDerived'
      /\ SyncApart'
  BY <1>0, <1>1, <1>2, <1>4
     DEF ItemsArchived, OnePending, DecisionsHaveItems, SyncsHaveItems, OneDerived, SyncApart, Busy
<1>6. Unused'
  BY <1>0, <1>1, <1>2, <1>4 DEF Unused, Busy
<1>7. OneLive' /\ DecisionsApart' /\ RatesInForce'
  <2>1. "decision" \notin overlaps' =>
          \A c, b \in Reviewers :
            reviewer'[c] # AtRest /\ reviewer'[b] # AtRest => reviewer'[c].item = reviewer'[b].item
    BY <1>0, <1>1, <1>2 DEF DecisionsApart, Busy
  <2> QED BY <1>1, <1>2, <2>1, WindowsKept
<1> QED BY <1>3, <1>5, <1>6, <1>7 DEF BaseInv

LEMMA RejectKeeps == ASSUME BaseInv, NEW d \in Reviewers, RejectRelease(d) PROVE BaseInv'
<1>0. /\ BaseTypeOK /\ ItemsArchived /\ DecisionsHaveItems /\ SyncsHaveItems /\ OneDerived
      /\ OnePending /\ SyncApart /\ Unused /\ DecisionsApart
  BY DEF BaseInv
<1>n. PICK n : n = reviewer[d].item
  OBVIOUS
<1>1. /\ reviewer[d].pc = "read"
      /\ item' = [item EXCEPT ![n] = [item[n] EXCEPT !.status = "rejected"]]
      /\ release' = [release EXCEPT ![item[n].rel] = [release[item[n].rel] EXCEPT !.status = "dismissed"]]
      /\ reviewer' = [reviewer EXCEPT ![d] = AtRest]
      /\ overlaps' = overlaps \cup IF item[n].status = "pending" THEN {} ELSE {"rejection"}
      /\ UNCHANGED <<feed, windows, baseSync, inForce, since, uses, editions, approvals>>
  BY <1>n DEF RejectRelease, baseGhosts, baseBounds
<1>2. /\ n \in ItemIds /\ item[n] # NoRow /\ item[n] \in BaseItem /\ item[n].rel \in Releases
      /\ Busy(d)
  <2>1. reviewer[d] \in Decision
    BY <1>0 DEF BaseTypeOK
  <2>2. n \in ItemIds /\ Busy(d)
    BY <1>n, <1>1, <2>1, DecisionTypes DEF Busy
  <2> QED BY <1>0, <1>n, <2>2 DEF DecisionsHaveItems, BaseTypeOK, BaseItem
<1>3. /\ reviewer'[d] = AtRest /\ reviewer'[d].pc = "idle"
      /\ \A b \in Reviewers \ {d} : reviewer'[b] = reviewer[b]
  BY <1>0, <1>1 DEF BaseTypeOK, AtRest
<1>4. /\ item'[n] \in BaseItem /\ item'[n].status = "rejected" /\ item'[n].rel = item[n].rel
      /\ item'[n] # NoRow /\ \A k \in ItemIds \ {n} : item'[k] = item[k]
  BY <1>0, <1>1, <1>2, NoRowAssumption DEF BaseTypeOK, BaseItem
<1>5. /\ release'[item[n].rel] \in Announcement
      /\ \A r \in Releases : release'[r].payload = release[r].payload
      /\ \A r \in Releases \ {item[n].rel} : release'[r] = release[r]
  BY <1>0, <1>1, <1>2 DEF BaseTypeOK, Announcement
<1>6. BaseTypeOK'
  <2>1. item' \in [ItemIds -> BaseItem \cup {NoRow}]
    BY <1>0, <1>1, <1>2, <1>4 DEF BaseTypeOK
  <2>2. release' \in [Releases -> Announcement]
    BY <1>0, <1>1, <1>2, <1>5 DEF BaseTypeOK
  <2>3. reviewer' \in [Reviewers -> Decision]
    BY <1>0, <1>1 DEF BaseTypeOK, Decision
  <2>4. overlaps' \subseteq {"sync", "decision", "rejection"}
    BY <1>0, <1>1 DEF BaseTypeOK
  <2> QED BY <1>0, <1>1, <2>1, <2>2, <2>3, <2>4 DEF BaseTypeOK
<1>7. PendingItems' = PendingItems \ {n}
  BY <1>2, <1>4 DEF PendingItems
<1>8. \A k \in ItemIds : item'[k].rel = item[k].rel /\ (item'[k] = NoRow <=> item[k] = NoRow)
  BY <1>2, <1>4
<1>9. ItemsArchived'
  <2> SUFFICES ASSUME NEW k \in ItemIds, item[k] # NoRow
               PROVE  release'[item'[k].rel].payload \in Schedule
    BY <1>8 DEF ItemsArchived
  <2>1. item[k].rel \in Releases
    BY <1>0 DEF BaseTypeOK, BaseItem
  <2> QED BY <1>0, <1>5, <1>8, <2>1 DEF ItemsArchived
<1>10. DecisionsHaveItems' /\ SyncsHaveItems' /\ OneDerived' /\ OnePending' /\ SyncApart'
  <2>1. \A b \in Reviewers : Busy(b) => reviewer[b].item \in ItemIds
    BY <1>0, DecisionTypes DEF BaseTypeOK, Busy
  <2>2. DecisionsHaveItems'
    BY <1>0, <1>3, <1>8, <2>1 DEF DecisionsHaveItems, Busy
  <2>3. OneDerived'
    BY <1>0, <1>3 DEF OneDerived
  <2>4. OnePending'
    BY <1>0, <1>7, <1>8 DEF OnePending, PendingItems
  <2>5. SyncApart'
    BY <1>0, <1>1, <1>3 DEF SyncApart, Busy
  <2>6. SyncsHaveItems'
    BY <1>0, <1>1, <1>8, SyncTypes DEF BaseTypeOK, SyncsHaveItems, AtRest
  <2> QED BY <2>2, <2>3, <2>4, <2>5, <2>6
<1>11. Unused'
  <2> SUFFICES ASSUME Clean' PROVE Unused'
    BY DEF Unused
  <2>1. Clean /\ item[n].status = "pending"
    BY <1>1 DEF Clean
  <2>2. \A k \in ItemIds : (item'[k] = NoRow \/ item'[k].status = "pending") => uses'[k] = 0
    BY <1>0, <1>1, <1>4, <1>8, <2>1 DEF Unused
  <2>3. ASSUME NEW b \in Reviewers \ {d}, Busy(b)
        PROVE  /\ \/ uses[reviewer[b].item] = 0
                  \/ /\ reviewer[b].pc = "read"
                     /\ release'[item'[reviewer[b].item].rel].status = "resolved"
               /\ \A k \in PendingItems' :
                    item'[k].rel = item'[reviewer[b].item].rel => k = reviewer[b].item
    <3>1. reviewer[b].item \in ItemIds /\ item[reviewer[b].item] # NoRow
      BY <1>0, <2>3, DecisionTypes DEF BaseTypeOK, Busy, DecisionsHaveItems
    <3>2. item[reviewer[b].item].rel \in Releases
      BY <1>0, <3>1 DEF BaseTypeOK, BaseItem
    <3>3. \A k \in PendingItems : item[k].rel = item[reviewer[b].item].rel => k = reviewer[b].item
      BY <1>0, <2>1, <2>3 DEF Unused
    <3>4. uses[n] = 0 /\ n \in PendingItems
      BY <1>0, <1>2, <2>1 DEF Unused, PendingItems
    <3>5. CASE item[reviewer[b].item].rel = item[n].rel
      <4>1. n = reviewer[b].item
        BY <3>3, <3>4, <3>5
      <4> QED BY <1>7, <1>8, <3>1, <3>3, <3>4, <4>1 DEF PendingItems
    <3>6. CASE item[reviewer[b].item].rel # item[n].rel
      <4>1. release'[item'[reviewer[b].item].rel] = release[item[reviewer[b].item].rel]
        BY <1>5, <1>8, <3>1, <3>2, <3>6
      <4> QED BY <1>0, <1>7, <1>8, <2>1, <2>3, <3>1, <3>3, <4>1 DEF Unused, PendingItems
    <3> QED BY <3>5, <3>6
  <2>4. \A k \in ItemIds : uses'[k] <= 1
    BY <1>0, <1>1, <2>1 DEF Unused
  <2> QED BY <1>1, <1>3, <2>2, <2>3, <2>4 DEF Unused, Busy
<1>12. OneLive' /\ DecisionsApart' /\ RatesInForce'
  <2>1. "decision" \notin overlaps' =>
          \A c, b \in Reviewers :
            reviewer'[c] # AtRest /\ reviewer'[b] # AtRest => reviewer'[c].item = reviewer'[b].item
    BY <1>0, <1>1, <1>3 DEF DecisionsApart, Busy
  <2> QED BY <1>1, <1>3, <2>1, WindowsKept
<1> QED BY <1>6, <1>9, <1>10, <1>11, <1>12 DEF BaseInv

LEMMA DeriveKeeps == ASSUME BaseInv, NEW d \in Reviewers, Derive(d) PROVE BaseInv'
<1>0. /\ BaseTypeOK /\ ItemsArchived /\ DecisionsHaveItems /\ SyncsHaveItems /\ OneDerived
      /\ OnePending /\ SyncApart /\ Unused /\ DecisionsApart
  BY DEF BaseInv
<1>n. PICK n : n = reviewer[d].item
  OBVIOUS
<1> DEFINE g == [pc |-> "derived", item |-> n, rows |-> release[item[n].rel].payload, live |-> Current]
<1>1. /\ reviewer[d].pc = "read" /\ n \notin HeldItems /\ release[item[n].rel].status # "resolved"
      /\ reviewer' = [reviewer EXCEPT ![d] = g]
      /\ UNCHANGED <<feed, windows, release, item, baseSync, inForce, since, uses, overlaps,
                     editions, approvals>>
  BY <1>n DEF Derive, NotResolved, baseTables, baseGhosts, baseBounds
<1>2. n \in ItemIds /\ item[n] # NoRow /\ Busy(d) /\ release[item[n].rel].payload \in Schedule
  <2>1. reviewer[d] \in Decision
    BY <1>0 DEF BaseTypeOK
  <2>2. n \in ItemIds /\ Busy(d)
    BY <1>n, <1>1, <2>1, DecisionTypes DEF Busy
  <2> QED BY <1>0, <1>n, <2>2 DEF DecisionsHaveItems, ItemsArchived
<1>3. Current \in [BaseCodes -> BaseWindow \cup {NoRow}]
  BY <1>0, CurrentTypes DEF BaseTypeOK
<1>4. g \in Decision /\ g.pc = "derived" /\ g.item = n /\ g.live = Current /\ g # AtRest
  BY <1>2, <1>3 DEF Decision, AtRest
<1> HIDE DEF g
<1>5. reviewer'[d] = g /\ \A b \in Reviewers \ {d} : reviewer'[b] = reviewer[b]
  BY <1>0, <1>1 DEF BaseTypeOK
<1>6. BaseTypeOK'
  <2>1. reviewer' \in [Reviewers -> Decision]
    BY <1>0, <1>1, <1>4 DEF BaseTypeOK
  <2> QED BY <1>0, <1>1, <2>1 DEF BaseTypeOK
<1>7. PendingItems' = PendingItems /\ (Clean' <=> Clean)
  BY <1>1 DEF PendingItems, Clean
<1>8. ItemsArchived' /\ OnePending' /\ SyncApart' /\ SyncsHaveItems'
  BY <1>0, <1>1, <1>2, <1>5, <1>7 DEF ItemsArchived, OnePending, SyncApart, SyncsHaveItems, Busy
<1>9. DecisionsHaveItems'
  BY <1>0, <1>1, <1>2, <1>4, <1>5 DEF DecisionsHaveItems, Busy
<1>10. OneDerived'
  <2>1. \A b \in Reviewers : reviewer[b].pc = "derived" => reviewer[b].item # n
    BY <1>1 DEF HeldItems
  <2> QED BY <1>0, <1>4, <1>5, <2>1 DEF OneDerived
<1>11. Unused'
  <2>1. Clean => uses[n] = 0
    BY <1>0, <1>n, <1>1, <1>2 DEF Unused
  <2> QED BY <1>0, <1>n, <1>1, <1>2, <1>4, <1>5, <1>7, <2>1 DEF Unused, Busy
<1>12. OneLive' /\ DecisionsApart' /\ RatesInForce'
  <2>1. "decision" \notin overlaps' =>
          \A c, b \in Reviewers :
            reviewer'[c] # AtRest /\ reviewer'[b] # AtRest => reviewer'[c].item = reviewer'[b].item
    BY <1>0, <1>n, <1>1, <1>2, <1>4, <1>5 DEF DecisionsApart, Busy
  <2> QED BY <1>1, <1>4, <1>5, <2>1, WindowsKept
<1> QED BY <1>6, <1>8, <1>9, <1>10, <1>11, <1>12 DEF BaseInv

\* A step of a sync that writes no table and brings its frame to f.
LEMMA SyncReads ==
  ASSUME BaseInv, NEW s \in BaseSyncs, NEW f \in Sync, baseSync' = [baseSync EXCEPT ![s] = f],
         f.pc = "items" => \A n \in f.pending : item[n] # NoRow,
         UNCHANGED <<feed, windows, release, item, reviewer, inForce, since, uses, approvals>>,
         overlaps \subseteq overlaps', overlaps' \subseteq {"sync", "decision", "rejection"},
         "decision" \in overlaps' => "decision" \in overlaps,
         f # AtRest /\ "sync" \notin overlaps' => \A d \in Reviewers : ~Busy(d)
  PROVE  BaseInv'
<1>0. /\ BaseTypeOK /\ ItemsArchived /\ DecisionsHaveItems /\ SyncsHaveItems /\ OneDerived
      /\ OnePending /\ SyncApart /\ Unused /\ DecisionsApart
  BY DEF BaseInv
<1>1. /\ baseSync'[s] = f /\ \A t \in BaseSyncs \ {s} : baseSync'[t] = baseSync[t]
      /\ PendingItems' = PendingItems /\ (Clean' => Clean)
  BY <1>0 DEF BaseTypeOK, PendingItems, Clean
<1>2. BaseTypeOK'
  BY <1>0 DEF BaseTypeOK
<1>3. ItemsArchived' /\ DecisionsHaveItems' /\ OneDerived' /\ OnePending' /\ Unused'
  BY <1>0, <1>1 DEF ItemsArchived, DecisionsHaveItems, OneDerived, OnePending, Unused, Busy
<1>4. SyncsHaveItems' /\ SyncApart'
  BY <1>0, <1>1 DEF SyncsHaveItems, SyncApart, Busy
<1>5. OneLive' /\ DecisionsApart' /\ RatesInForce'
  <2>1. "decision" \notin overlaps' =>
          \A c, b \in Reviewers :
            reviewer'[c] # AtRest /\ reviewer'[b] # AtRest => reviewer'[c].item = reviewer'[b].item
    BY <1>0 DEF DecisionsApart, Busy
  <2> QED BY <2>1, WindowsKept
<1> QED BY <1>2, <1>3, <1>4, <1>5 DEF BaseInv

LEMMA SyncStepsKeep ==
  ASSUME BaseInv, NEW s \in BaseSyncs, ReadLive(s) \/ ReadPending(s) \/ AbortSync(s)
  PROVE  BaseInv'
<1>0. BaseTypeOK /\ SyncsHaveItems /\ SyncApart
  BY DEF BaseInv
<1>1. CASE ReadLive(s)
  <2> DEFINE f == [pc |-> "live", rel |-> feed.rel, rows |-> feed.rows,
                   empty |-> EmptyDiff(feed.rows, Current)]
             met == IF \E d \in Reviewers : reviewer[d] # AtRest THEN {"sync"} ELSE {}
  <2>1. /\ baseSync' = [baseSync EXCEPT ![s] = f] /\ feed.rel # 0 /\ overlaps' = overlaps \cup met
        /\ UNCHANGED <<feed, windows, release, item, reviewer, inForce, since, uses, approvals>>
    BY <1>1 DEF ReadLive, baseTables, baseGhosts, baseBounds
  <2>2. EmptyDiff(feed.rows, Current) \in BOOLEAN
    BY DEF EmptyDiff
  <2>3. f \in Sync /\ f.pc = "live"
    BY <1>0, <2>1, <2>2 DEF BaseTypeOK, Sync
  <2> HIDE DEF f
  <2>4. /\ overlaps \subseteq overlaps' /\ overlaps' \subseteq {"sync", "decision", "rejection"}
        /\ "decision" \in overlaps' => "decision" \in overlaps
        /\ "sync" \notin overlaps' => \A d \in Reviewers : ~Busy(d)
    BY <1>0, <2>1 DEF BaseTypeOK, Busy
  <2> QED BY <2>1, <2>3, <2>4, SyncReads
<1>2. CASE ReadPending(s)
  <2> DEFINE f == [pc |-> "items", rel |-> baseSync[s].rel, rows |-> baseSync[s].rows,
                   empty |-> baseSync[s].empty, pending |-> PendingItems,
                   open |-> {r \in Releases : release[r].status = "open"}]
  <2>1. /\ baseSync' = [baseSync EXCEPT ![s] = f] /\ baseSync[s].pc = "live"
        /\ UNCHANGED <<feed, windows, release, item, reviewer, inForce, since, uses, approvals, overlaps>>
    BY <1>2 DEF ReadPending, baseTables, baseGhosts, baseBounds
  <2>2. /\ baseSync[s] # AtRest /\ baseSync[s].rel \in Releases /\ baseSync[s].rows \in Schedule
        /\ baseSync[s].empty \in BOOLEAN
    BY <1>0, <2>1, SyncTypes DEF BaseTypeOK
  <2>3. /\ f \in Sync /\ f.pc = "items" /\ f.pending = PendingItems
    BY <2>2 DEF Sync, PendingItems
  <2> HIDE DEF f
  <2>4. "sync" \notin overlaps => \A d \in Reviewers : ~Busy(d)
    BY <1>0, <2>2 DEF SyncApart
  <2>5. \A n \in f.pending : item[n] # NoRow
    BY <2>3 DEF PendingItems
  <2>6. overlaps \subseteq overlaps' /\ overlaps' \subseteq {"sync", "decision", "rejection"}
    BY <1>0, <2>1 DEF BaseTypeOK
  <2> QED BY <2>1, <2>3, <2>4, <2>5, <2>6, SyncReads
<1>3. CASE AbortSync(s)
  <2>1. /\ baseSync' = [baseSync EXCEPT ![s] = AtRest]
        /\ UNCHANGED <<feed, windows, release, item, reviewer, inForce, since, uses, approvals, overlaps>>
    BY <1>3 DEF AbortSync, baseTables, baseGhosts, baseBounds
  <2>2. AtRest \in Sync /\ AtRest.pc = "idle"
    BY DEF Sync, AtRest
  <2>3. overlaps \subseteq overlaps' /\ overlaps' \subseteq {"sync", "decision", "rejection"}
    BY <1>0, <2>1 DEF BaseTypeOK
  <2> QED BY <2>1, <2>2, <2>3, SyncReads
<1> QED BY <1>1, <1>2, <1>3

LEMMA StageKeeps == ASSUME BaseInv, NEW s \in BaseSyncs, StageRelease(s) PROVE BaseInv'
<1>0. /\ BaseTypeOK /\ ItemsArchived /\ DecisionsHaveItems /\ SyncsHaveItems /\ OneDerived
      /\ OnePending /\ SyncApart /\ Unused /\ DecisionsApart
  BY DEF BaseInv
<1>f. PICK f : f = baseSync[s]
  OBVIOUS
<1> DEFINE gone == SupersededItems(f)
           own == f.pending \ gone
<1>g. PICK superseded : superseded = [n \in ItemIds |->
        IF n \in gone THEN [item[n] EXCEPT !.status = "superseded"] ELSE item[n]]
  OBVIOUS
<1>1. /\ f.pc = "items"
      /\ release' = [r \in Releases |->
           IF r = f.rel
           THEN [status |-> IF f.empty THEN "resolved" ELSE "open", payload |-> f.rows]
           ELSE IF r \in f.open /\ \E n \in gone : item[n].rel = r
           THEN [release[r] EXCEPT !.status = "resolved"] ELSE release[r]]
      /\ \/ item' = superseded
         \/ /\ \A n \in PendingItems \ gone : item[n].rel # f.rel
            /\ \E n \in ItemIds :
                 /\ item[n] = NoRow
                 /\ item' = [superseded EXCEPT ![n] = [rel |-> f.rel, status |-> "pending"]]
      /\ baseSync' = [baseSync EXCEPT ![s] = AtRest]
      /\ UNCHANGED <<feed, windows, reviewer, inForce, since, uses, overlaps, editions, approvals>>
  BY <1>f, <1>g DEF StageRelease, baseGhosts, baseBounds
<1>2. /\ f # AtRest /\ f.rel \in Releases /\ f.rows \in Schedule /\ f.pending \subseteq ItemIds
      /\ \A n \in f.pending : item[n] # NoRow
  <2>1. f \in Sync
    BY <1>0, <1>f DEF BaseTypeOK
  <2> QED BY <1>0, <1>f, <1>1, <2>1, SyncTypes DEF SyncsHaveItems
<1>3. \A n \in gone : n \in ItemIds /\ item[n] \in BaseItem
  BY <1>0, <1>2 DEF SupersededItems, BaseTypeOK
<1>4. \A n \in ItemIds :
        /\ superseded[n] \in BaseItem \cup {NoRow}
        /\ superseded[n] = NoRow <=> item[n] = NoRow
        /\ item[n] # NoRow => superseded[n].rel = item[n].rel
        /\ superseded[n] # NoRow /\ superseded[n].status = "pending" =>
             n \notin gone /\ n \in PendingItems
        /\ n \notin gone => superseded[n] = item[n]
  <2> SUFFICES ASSUME NEW n \in ItemIds
               PROVE  /\ superseded[n] \in BaseItem \cup {NoRow}
                      /\ superseded[n] = NoRow <=> item[n] = NoRow
                      /\ item[n] # NoRow => superseded[n].rel = item[n].rel
                      /\ superseded[n] # NoRow /\ superseded[n].status = "pending" =>
                           n \notin gone /\ n \in PendingItems
                      /\ n \notin gone => superseded[n] = item[n]
    OBVIOUS
  <2> HIDE DEF gone
  <2>1. CASE n \in gone
    <3>1. superseded[n] = [item[n] EXCEPT !.status = "superseded"] /\ item[n] \in BaseItem
      BY <1>3, <1>g, <2>1
    <3> QED BY <2>1, <3>1, NoRowAssumption DEF BaseItem
  <2>2. CASE n \notin gone
    <3>1. superseded[n] = item[n]
      BY <1>g, <2>2
    <3> QED BY <1>0, <2>2, <3>1 DEF BaseTypeOK, PendingItems
  <2> QED BY <2>1, <2>2
<1>5. DOMAIN superseded = ItemIds /\ superseded = [n \in ItemIds |-> superseded[n]]
  BY <1>g
<1> HIDE DEF gone
\* What has become of the items.
<1>6. /\ item' \in [ItemIds -> BaseItem \cup {NoRow}]
      /\ \A n \in ItemIds : item[n] # NoRow => item'[n] # NoRow /\ item'[n].rel = item[n].rel
      /\ \A n \in ItemIds : item[n] = NoRow /\ item'[n] # NoRow => item'[n].rel = f.rel
      /\ \A n \in PendingItems' : n \in PendingItems \/ item[n] = NoRow
      /\ OnePending'
  <2>1. CASE item' = superseded
    <3>1. item' \in [ItemIds -> BaseItem \cup {NoRow}]
      BY <1>4, <1>5, <2>1
    <3>2. \A n \in PendingItems' : n \in PendingItems /\ item'[n].rel = item[n].rel
      BY <1>4, <2>1 DEF PendingItems
    <3> QED BY <1>0, <1>4, <2>1, <3>1, <3>2 DEF OnePending
  <2>2. ASSUME NEW n \in ItemIds, item[n] = NoRow,
               item' = [superseded EXCEPT ![n] = [rel |-> f.rel, status |-> "pending"]],
               \A k \in PendingItems \ gone : item[k].rel # f.rel
        PROVE  /\ item' \in [ItemIds -> BaseItem \cup {NoRow}]
               /\ \A k \in ItemIds : item[k] # NoRow => item'[k] # NoRow /\ item'[k].rel = item[k].rel
               /\ \A k \in ItemIds : item[k] = NoRow /\ item'[k] # NoRow => item'[k].rel = f.rel
               /\ \A k \in PendingItems' : k \in PendingItems \/ item[k] = NoRow
               /\ OnePending'
    <3>1. [rel |-> f.rel, status |-> "pending"] \in BaseItem
      BY <1>2 DEF BaseItem
    <3>2. /\ item'[n] = [rel |-> f.rel, status |-> "pending"]
          /\ \A k \in ItemIds \ {n} : item'[k] = superseded[k]
          /\ item' \in [ItemIds -> BaseItem \cup {NoRow}]
      BY <1>4, <1>5, <2>2, <3>1
    <3>3. item'[n] # NoRow /\ item'[n].rel = f.rel
      BY <3>1, <3>2, NoRowAssumption
    <3>4. \A k \in PendingItems' \ {n} :
            k \in PendingItems /\ k \notin gone /\ item'[k].rel = item[k].rel
      BY <1>4, <3>2 DEF PendingItems
    <3>5. OnePending'
      <4>1. \A k \in PendingItems' \ {n} : item'[k].rel # item'[n].rel
        BY <2>2, <3>3, <3>4
      <4>2. \A k, m \in PendingItems' \ {n} : item'[k].rel = item'[m].rel => k = m
        BY <1>0, <3>4 DEF OnePending
      <4> QED BY <4>1, <4>2 DEF OnePending
    <3>6. \A k \in PendingItems' : k \in PendingItems \/ item[k] = NoRow
      BY <2>2, <3>4
    <3> QED BY <1>4, <2>2, <3>2, <3>3, <3>5, <3>6
  <2> QED BY <1>1, <2>1, <2>2
<1>7. /\ release' \in [Releases -> Announcement]
      /\ release'[f.rel].payload = f.rows
      /\ \A r \in Releases \ {f.rel} : release'[r].payload = release[r].payload
  BY <1>0, <1>1, <1>2 DEF BaseTypeOK, Announcement
<1>8. BaseTypeOK'
  <2>1. baseSync' \in [BaseSyncs -> Sync]
    BY <1>0, <1>1 DEF BaseTypeOK, Sync
  <2> QED BY <1>0, <1>1, <1>6, <1>7, <2>1 DEF BaseTypeOK
<1>9. ItemsArchived'
  <2> SUFFICES ASSUME NEW n \in ItemIds, item'[n] # NoRow
               PROVE  release'[item'[n].rel].payload \in Schedule
    BY DEF ItemsArchived
  <2>1. CASE item'[n].rel = f.rel
    BY <1>2, <1>7, <2>1
  <2>2. CASE item'[n].rel # f.rel
    <3>1. item[n] # NoRow /\ item'[n].rel = item[n].rel /\ item[n].rel \in Releases
      BY <1>0, <1>6, <2>2 DEF BaseTypeOK, BaseItem
    <3> QED BY <1>0, <1>7, <2>2, <3>1 DEF ItemsArchived
  <2> QED BY <2>1, <2>2
<1>10. DecisionsHaveItems' /\ SyncsHaveItems' /\ OneDerived' /\ SyncApart'
  <2>1. \A b \in Reviewers : Busy(b) => reviewer[b].item \in ItemIds
    BY <1>0, DecisionTypes DEF BaseTypeOK, Busy
  <2>2. DecisionsHaveItems' /\ OneDerived'
    BY <1>0, <1>1, <1>6, <2>1 DEF DecisionsHaveItems, OneDerived, Busy
  <2>3. \A t \in BaseSyncs : baseSync'[t] = IF t = s THEN AtRest ELSE baseSync[t]
    BY <1>0, <1>1 DEF BaseTypeOK
  <2>4. \A t \in BaseSyncs : baseSync[t].pc = "items" => baseSync[t].pending \subseteq ItemIds
    BY <1>0, SyncTypes DEF BaseTypeOK, AtRest
  <2>5. SyncsHaveItems'
    BY <1>0, <1>6, <2>3, <2>4 DEF SyncsHaveItems, AtRest
  <2>6. SyncApart'
    BY <1>0, <1>1, <2>3 DEF SyncApart, Busy
  <2> QED BY <2>2, <2>5, <2>6
<1>11. Unused'
  <2> SUFFICES ASSUME Clean' PROVE Unused'
    BY DEF Unused
  <2>1. Clean /\ "sync" \notin overlaps
    BY <1>1 DEF Clean
  <2>2. \A d \in Reviewers : ~Busy(d)'
    BY <1>0, <1>f, <1>1, <1>2, <2>1 DEF SyncApart, Busy
  <2>3. ASSUME NEW n \in ItemIds, item'[n] = NoRow \/ item'[n].status = "pending"
        PROVE  uses'[n] = 0
    <3>1. item[n] = NoRow \/ n \in PendingItems
      BY <1>6, <2>3 DEF PendingItems
    <3> QED BY <1>0, <1>1, <2>1, <3>1 DEF Unused, PendingItems
  <2>4. \A n \in ItemIds : uses'[n] <= 1
    BY <1>0, <1>1, <2>1 DEF Unused
  <2> QED BY <2>2, <2>3, <2>4 DEF Unused
<1>12. OneLive' /\ DecisionsApart' /\ RatesInForce'
  <2>1. "decision" \notin overlaps' =>
          \A c, b \in Reviewers :
            reviewer'[c] # AtRest /\ reviewer'[b] # AtRest => reviewer'[c].item = reviewer'[b].item
    BY <1>0, <1>1 DEF DecisionsApart, Busy
  <2> QED BY <1>1, <2>1, WindowsKept
<1> QED BY <1>6, <1>8, <1>9, <1>10, <1>11, <1>12 DEF BaseInv

-----------------------------------------------------------------------------
(* The apply.                                                                *)

\* What an apply makes of a row.
LEMMA RowsAfter ==
  ASSUME NEW w \in BaseWindow, NEW rel \in Releases, NEW rows \in Schedule,
         NEW live \in [BaseCodes -> BaseWindow \cup {NoRow}], NEW eff \in Days,
         NEW v, v = RowAfter(w, rel, rows, live, eff)
  PROVE  /\ v \in BaseWindow /\ v.code = w.code
         /\ w.to # Open => v = w
         /\ v.to = Open => w.to = Open
         /\ w.code \in Removed(rows, live) => v.to # Open
         /\ w.code \in Changed(rows, live) =>
              /\ Tiled(live[w.code], eff) => v.to # Open
              /\ ~Tiled(live[w.code], eff) /\ w.to = Open => v.to = Open /\ v.rate = rows[w.code]
         /\ w.code \notin Removed(rows, live) \cup Changed(rows, live) =>
              v.rate = w.rate /\ v.to = w.to
<1> DEFINE c == w.code
<1>1. /\ c \in BaseCodes /\ w.rate \in Rates /\ w.from \in {0} \cup Days
      /\ w.to \in Nat \cup {Open} /\ w.stamp \in {Seed} \cup Releases
      /\ eff \in Nat /\ eff # 0 /\ eff - 1 \in Nat
  BY DaysAssumption DEF BaseWindow
<1>2. Open \notin Nat
  BY OpenAssumption
<1>3. CASE w.to # Open
  <2>1. v = w
    BY <1>3 DEF RowAfter
  <2> QED BY <1>3, <2>1
<1>4. CASE w.to = Open /\ c \in Removed(rows, live)
  <2>1. live[c] \in BaseWindow /\ c \notin Changed(rows, live)
    BY <1>1, <1>4 DEF Removed, Changed
  <2>2. live[c].from \in Nat /\ CloseDate(live[c].from, eff) \in Nat
    <3>1. live[c].from \in Nat
      <4>1. live[c].from \in {0} \cup Days
        BY <2>1 DEF BaseWindow
      <4>2. \A day \in {0} \cup Days : day \in Nat
        BY DaysAssumption
      <4> QED BY <4>1, <4>2
    <3> QED BY <1>1, <3>1 DEF CloseDate
  <2>3. v = [w EXCEPT !.to = CloseDate(live[c].from, eff)]
    BY <1>4 DEF RowAfter
  <2>4. v \in BaseWindow /\ v.code = c /\ v.to = CloseDate(live[c].from, eff)
    BY <2>2, <2>3 DEF BaseWindow
  <2> QED BY <1>2, <1>4, <2>1, <2>2, <2>4
<1>5. CASE w.to = Open /\ c \notin Removed(rows, live) /\ c \notin Changed(rows, live)
  <2>1. v = [w EXCEPT !.stamp = rel]
    BY <1>5 DEF RowAfter
  <2>2. v \in BaseWindow /\ v.code = c /\ v.to = w.to /\ v.rate = w.rate
    BY <2>1 DEF BaseWindow
  <2> QED BY <1>5, <2>2
<1>6. CASE w.to = Open /\ c \notin Removed(rows, live) /\ c \in Changed(rows, live)
  <2>1. rows[c] \in Rates
    BY <1>1, <1>6 DEF Changed, Schedule
  <2>2. CASE Tiled(live[c], eff)
    <3>1. v = [w EXCEPT !.to = eff - 1]
      BY <1>6, <2>2 DEF RowAfter
    <3>2. v \in BaseWindow /\ v.code = c /\ v.to = eff - 1
      BY <1>1, <3>1 DEF BaseWindow
    <3> QED BY <1>1, <1>2, <1>6, <2>2, <3>2
  <2>3. CASE ~Tiled(live[c], eff)
    <3>1. v = [w EXCEPT !.rate = rows[c], !.stamp = rel]
      BY <1>6, <2>3 DEF RowAfter
    <3>2. v \in BaseWindow /\ v.code = c /\ v.to = w.to /\ v.rate = rows[c]
      BY <2>1, <3>1 DEF BaseWindow
    <3> QED BY <1>6, <2>3, <3>2
  <2> QED BY <2>2, <2>3
<1> QED BY <1>3, <1>4, <1>5, <1>6

LEMMA ApplyKeeps == ASSUME BaseInv, NEW d \in Reviewers, ApplyRelease(d) PROVE BaseInv'
<1>0. /\ BaseTypeOK /\ ItemsArchived /\ DecisionsHaveItems /\ SyncsHaveItems /\ OneDerived
      /\ OnePending /\ SyncApart /\ Unused /\ DecisionsApart /\ OneLive
  BY DEF BaseInv
<1>n. PICK n, rel, rows, live :
        n = reviewer[d].item /\ rel = item[n].rel /\ rows = reviewer[d].rows /\ live = reviewer[d].live
  OBVIOUS
<1>1. PICK eff \in Days :
        /\ reviewer[d].pc = "derived" /\ since' = eff
        /\ LET table == {RowAfter(w, rel, rows, live, eff) : w \in windows}
           IN /\ \A c \in Opened(rows, live, eff) : LiveOf(table, c) = {}
              /\ windows' = table \cup
                   {[code |-> c, rate |-> rows[c], from |-> eff, to |-> Open, stamp |-> rel]
                      : c \in Opened(rows, live, eff)}
        /\ item' = [item EXCEPT ![n] = [item[n] EXCEPT !.status = "approved"]]
        /\ release' = [release EXCEPT ![rel] = [release[rel] EXCEPT !.status = "resolved"]]
        /\ inForce' = rows
        /\ uses' = [uses EXCEPT ![n] = uses[n] + 1]
        /\ reviewer' = [reviewer EXCEPT ![d] = AtRest]
        /\ UNCHANGED <<feed, baseSync, overlaps, editions, approvals>>
  BY <1>n DEF ApplyRelease, baseBounds
<1>2. /\ n \in ItemIds /\ item[n] # NoRow /\ item[n] \in BaseItem /\ rel \in Releases
      /\ Busy(d) /\ rows \in Schedule /\ live \in [BaseCodes -> BaseWindow \cup {NoRow}]
  <2>1. reviewer[d] \in Decision
    BY <1>0 DEF BaseTypeOK
  <2>2. n \in ItemIds /\ Busy(d) /\ rows \in Schedule /\ live \in [BaseCodes -> BaseWindow \cup {NoRow}]
    BY <1>n, <1>1, <2>1, DecisionTypes DEF Busy
  <2> QED BY <1>0, <1>n, <2>2 DEF DecisionsHaveItems, BaseTypeOK, BaseItem
<1>3. /\ reviewer'[d] = AtRest /\ reviewer'[d].pc = "idle"
      /\ \A b \in Reviewers \ {d} : reviewer'[b] = reviewer[b]
  BY <1>0, <1>1 DEF BaseTypeOK, AtRest
<1>4. /\ item'[n] \in BaseItem /\ item'[n].status = "approved" /\ item'[n].rel = rel
      /\ item'[n] # NoRow /\ \A k \in ItemIds \ {n} : item'[k] = item[k]
  BY <1>0, <1>n, <1>1, <1>2, NoRowAssumption DEF BaseTypeOK, BaseItem
<1>5. /\ release'[rel] \in Announcement /\ release'[rel].status = "resolved"
      /\ \A r \in Releases : release'[r].payload = release[r].payload
      /\ \A r \in Releases \ {rel} : release'[r] = release[r]
  BY <1>0, <1>1, <1>2 DEF BaseTypeOK, Announcement
<1>6. \A k \in ItemIds : item'[k].rel = item[k].rel /\ (item'[k] = NoRow <=> item[k] = NoRow)
  BY <1>n, <1>2, <1>4
<1>7. PendingItems' = PendingItems \ {n}
  BY <1>2, <1>4 DEF PendingItems
<1> DEFINE New(c) == [code |-> c, rate |-> rows[c], from |-> eff, to |-> Open, stamp |-> rel]
           After(w) == RowAfter(w, rel, rows, live, eff)
           opened == Opened(rows, live, eff)
<1>8. /\ \A v \in windows' : (\E w \in windows : v = After(w)) \/ (\E c \in opened : v = New(c))
      /\ \A w \in windows : After(w) \in windows'
      /\ \A c \in opened : New(c) \in windows'
      /\ \A c \in opened, w \in windows : After(w).code = c => After(w).to # Open
  BY <1>1 DEF LiveOf
<1>9. \A c \in opened : c \in BaseCodes /\ New(c) \in BaseWindow
  BY <1>2, DaysAssumption DEF Opened, Added, Changed, Schedule, BaseWindow
<1>10. \A w \in windows :
         /\ w \in BaseWindow /\ After(w) \in BaseWindow /\ After(w).code = w.code
         /\ w.to # Open => After(w) = w
         /\ After(w).to = Open => w.to = Open
         /\ w.code \in Removed(rows, live) => After(w).to # Open
         /\ w.code \in Changed(rows, live) =>
              /\ Tiled(live[w.code], eff) => After(w).to # Open
              /\ ~Tiled(live[w.code], eff) /\ w.to = Open =>
                   After(w).to = Open /\ After(w).rate = rows[w.code]
         /\ w.code \notin Removed(rows, live) \cup Changed(rows, live) =>
              After(w).rate = w.rate /\ After(w).to = w.to
  BY <1>0, <1>2, RowsAfter DEF BaseTypeOK
<1>11. \A c \in opened : New(c).code = c /\ New(c).to = Open /\ New(c).rate = rows[c]
  OBVIOUS
<1> HIDE DEF New, After
<1>12. windows' \subseteq BaseWindow
  BY <1>8, <1>9, <1>10
<1>13. BaseTypeOK'
  <2>1. item' \in [ItemIds -> BaseItem \cup {NoRow}]
    BY <1>0, <1>1, <1>2, <1>4 DEF BaseTypeOK
  <2>2. release' \in [Releases -> Announcement]
    BY <1>0, <1>1, <1>2, <1>5 DEF BaseTypeOK
  <2>3. reviewer' \in [Reviewers -> Decision]
    BY <1>0, <1>1 DEF BaseTypeOK, Decision
  <2>4. uses' \in [ItemIds -> Nat]
    BY <1>0, <1>1, <1>2 DEF BaseTypeOK
  <2> QED BY <1>0, <1>1, <1>2, <1>12, <2>1, <2>2, <2>3, <2>4 DEF BaseTypeOK
<1>14. ItemsArchived'
  <2> SUFFICES ASSUME NEW k \in ItemIds, item[k] # NoRow
               PROVE  release'[item'[k].rel].payload \in Schedule
    BY <1>6 DEF ItemsArchived
  <2>1. item[k].rel \in Releases
    BY <1>0 DEF BaseTypeOK, BaseItem
  <2> QED BY <1>0, <1>5, <1>6, <2>1 DEF ItemsArchived
<1>15. DecisionsHaveItems' /\ SyncsHaveItems' /\ OneDerived' /\ OnePending' /\ SyncApart'
  <2>1. \A b \in Reviewers : Busy(b) => reviewer[b].item \in ItemIds
    BY <1>0, DecisionTypes DEF BaseTypeOK, Busy
  <2>2. DecisionsHaveItems'
    BY <1>0, <1>3, <1>6, <2>1 DEF DecisionsHaveItems, Busy
  <2>3. OneDerived' /\ OnePending'
    BY <1>0, <1>3, <1>6, <1>7 DEF OneDerived, OnePending, PendingItems
  <2>4. SyncApart'
    BY <1>0, <1>1, <1>3 DEF SyncApart, Busy
  <2>5. SyncsHaveItems'
    BY <1>0, <1>1, <1>6, SyncTypes DEF BaseTypeOK, SyncsHaveItems, AtRest
  <2> QED BY <2>2, <2>3, <2>4, <2>5
<1>16. Unused'
  <2> SUFFICES ASSUME Clean' PROVE Unused'
    BY DEF Unused
  <2>1. Clean
    BY <1>1 DEF Clean
  <2>2. uses[n] = 0
    BY <1>0, <1>n, <1>1, <1>2, <2>1 DEF Unused
  <2>3. uses'[n] = 1 /\ \A k \in ItemIds \ {n} : uses'[k] = uses[k]
    BY <1>0, <1>1, <1>2, <2>2 DEF BaseTypeOK
  <2>4. \A k \in ItemIds : uses'[k] <= 1
    BY <1>0, <2>1, <2>3 DEF Unused
  <2>5. \A k \in ItemIds : item'[k] = NoRow \/ item'[k].status = "pending" => uses'[k] = 0
    BY <1>0, <1>4, <2>1, <2>3 DEF Unused
  <2>6. ASSUME NEW b \in Reviewers \ {d}, Busy(b)
        PROVE  /\ \/ uses'[reviewer[b].item] = 0
                  \/ /\ reviewer[b].pc = "read"
                     /\ release'[item'[reviewer[b].item].rel].status = "resolved"
               /\ \A k \in PendingItems' :
                    item'[k].rel = item'[reviewer[b].item].rel => k = reviewer[b].item
    <3>1. reviewer[b].item \in ItemIds /\ item[reviewer[b].item] # NoRow /\ reviewer[b].pc \in {"read", "derived"}
      BY <1>0, <2>6, DecisionTypes DEF BaseTypeOK, Busy, DecisionsHaveItems
    <3>2. item[reviewer[b].item].rel \in Releases
      BY <1>0, <3>1 DEF BaseTypeOK, BaseItem
    <3>3. \A k \in PendingItems' :
            item'[k].rel = item'[reviewer[b].item].rel => k = reviewer[b].item
      BY <1>0, <1>6, <1>7, <2>1, <2>6, <3>1 DEF Unused, PendingItems
    <3>4. CASE reviewer[b].item = n
      <4>1. reviewer[b].pc = "read"
        BY <1>0, <1>n, <1>1, <2>6, <3>1, <3>4 DEF OneDerived
      <4> QED BY <1>4, <1>5, <3>3, <3>4, <4>1
    <3>5. CASE reviewer[b].item # n
      <4>1. uses'[reviewer[b].item] = uses[reviewer[b].item]
        BY <2>3, <3>1, <3>5
      <4>2. release[item[reviewer[b].item].rel].status = "resolved" =>
              release'[item'[reviewer[b].item].rel].status = "resolved"
        BY <1>5, <1>6, <3>1, <3>2
      <4>3. \/ uses[reviewer[b].item] = 0
            \/ /\ reviewer[b].pc = "read"
               /\ release[item[reviewer[b].item].rel].status = "resolved"
        BY <1>0, <2>1, <2>6 DEF Unused
      <4> QED BY <3>3, <4>1, <4>2, <4>3
    <3> QED BY <3>4, <3>5
  <2> QED BY <1>3, <2>4, <2>5, <2>6 DEF Unused, Busy
<1>17. OneLive'
  <2> SUFFICES ASSUME NEW c \in BaseCodes, NEW u \in windows', NEW v \in windows',
                      u.code = c, v.code = c, u.to = Open, v.to = Open
               PROVE  u = v
    BY DEF OneLive, LiveOf
  <2>1. CASE c \in opened
    BY <1>8, <1>11, <2>1
  <2>2. CASE c \notin opened
    <3>1. PICK x \in windows, y \in windows : u = After(x) /\ v = After(y)
      BY <1>8, <1>11, <2>2
    <3>2. x \in LiveOf(windows, c) /\ y \in LiveOf(windows, c)
      BY <1>10, <3>1 DEF LiveOf
    <3> QED BY <1>0, <3>1, <3>2 DEF OneLive
  <2> QED BY <2>1, <2>2
<1>18. DecisionsApart'
  <2> SUFFICES ASSUME "decision" \notin overlaps PROVE DecisionsApart'
    BY <1>1 DEF DecisionsApart
  <2>1. \A b \in Reviewers \ {d} : Busy(b) => reviewer[b].item = n
    BY <1>0, <1>n, <1>2 DEF DecisionsApart
  <2>2. \A b \in Reviewers \ {d} : reviewer[b].pc # "derived"
    <3> SUFFICES ASSUME NEW b \in Reviewers \ {d}, reviewer[b].pc = "derived" PROVE FALSE
      OBVIOUS
    <3>1. Busy(b)
      BY <1>0, DecisionTypes DEF BaseTypeOK, Busy
    <3> QED BY <1>0, <1>n, <1>1, <2>1, <3>1 DEF OneDerived
  <2> QED BY <1>3, <2>1, <2>2 DEF DecisionsApart, Busy
<1>19. RatesInForce'
  <2> SUFFICES ASSUME "decision" \notin overlaps, NEW c \in BaseCodes
               PROVE  rows[c] = IF Current'[c] = NoRow THEN Absent ELSE Current'[c].rate
    BY <1>1 DEF RatesInForce
  <2>1. live = Current
    BY <1>0, <1>n, <1>1 DEF DecisionsApart
  <2>2. /\ LiveOf(windows', c) = {} => Current'[c] = NoRow
        /\ LiveOf(windows', c) # {} => Current'[c] \in LiveOf(windows', c)
    <3>1. CASE LiveOf(windows', c) = {}
      BY <3>1 DEF Current
    <3>2. CASE LiveOf(windows', c) # {}
      <4>1. (CHOOSE w \in LiveOf(windows', c) : TRUE) \in LiveOf(windows', c)
        BY <3>2
      <4> QED BY <3>2, <4>1 DEF Current
    <3> QED BY <3>1, <3>2
  <2>3. /\ LiveOf(windows, c) = {} => live[c] = NoRow
        /\ LiveOf(windows, c) # {} => live[c] \in LiveOf(windows, c)
    BY <1>0, <2>1, CurrentTypes DEF BaseTypeOK
  <2>4. \A w \in LiveOf(windows, c) : w = live[c] /\ w \in BaseWindow /\ live[c] # NoRow
    BY <1>0, <2>3, NoRowAssumption DEF OneLive, BaseTypeOK, LiveOf
  <2>5. \A v \in LiveOf(windows', c) : v \in BaseWindow /\ v # NoRow
    BY <1>12, NoRowAssumption DEF LiveOf
  <2>6. ASSUME c \notin opened, NEW v \in LiveOf(windows', c)
        PROVE  /\ v = After(live[c]) /\ live[c] \in windows /\ live[c].code = c /\ live[c].to = Open
               /\ v.to = Open
    <3>1. PICK w \in windows : v = After(w)
      BY <1>8, <1>11, <2>6 DEF LiveOf
    <3>2. w \in LiveOf(windows, c)
      BY <1>10, <3>1 DEF LiveOf
    <3> QED BY <2>4, <3>1, <3>2 DEF LiveOf
  <2>7. CASE c \in opened
    <3>1. rows[c] # Absent /\ New(c) \in LiveOf(windows', c)
      BY <1>8, <1>11, <2>7 DEF Opened, Added, Changed, LiveOf
    <3>2. \A v \in LiveOf(windows', c) : v.rate = rows[c]
      BY <1>8, <1>11, <2>7 DEF LiveOf
    <3> QED BY <2>2, <2>5, <3>1, <3>2
  <2>8. CASE c \notin opened /\ rows[c] = Absent
    <3>1. LiveOf(windows', c) = {}
      <4> SUFFICES ASSUME NEW v \in LiveOf(windows', c) PROVE FALSE
        OBVIOUS
      <4>1. v = After(live[c]) /\ live[c] \in windows /\ live[c].code = c /\ live[c].to = Open /\ v.to = Open
        BY <2>6, <2>8
      <4>2. live[c] # NoRow
        BY <2>4, <4>1 DEF LiveOf
      <4>3. c \in Removed(rows, live)
        BY <2>8, <4>2 DEF Removed
      <4> QED BY <1>10, <4>1, <4>3
    <3> QED BY <2>2, <2>8, <3>1
  <2>9. CASE c \notin opened /\ rows[c] # Absent
    <3>1. live[c] # NoRow /\ live[c] \in windows /\ live[c].code = c /\ live[c].to = Open
      BY <2>3, <2>4, <2>9 DEF Opened, Added, LiveOf
    <3>2. c \notin Removed(rows, live)
      BY <2>9 DEF Removed
    <3>3. After(live[c]).to = Open /\ After(live[c]).rate = rows[c]
      <4>1. CASE c \in Changed(rows, live)
        <5>1. ~Tiled(live[c], eff)
          BY <2>9, <4>1 DEF Opened
        <5> QED BY <1>10, <3>1, <4>1, <5>1
      <4>2. CASE c \notin Changed(rows, live)
        <5>1. live[c].rate = rows[c]
          BY <2>9, <3>1, <4>2 DEF Changed
        <5> QED BY <1>10, <3>1, <3>2, <4>2, <5>1
      <4> QED BY <4>1, <4>2
    <3>4. After(live[c]) \in LiveOf(windows', c)
      BY <1>8, <1>10, <3>1, <3>3 DEF LiveOf
    <3>5. \A v \in LiveOf(windows', c) : v.rate = rows[c]
      BY <2>6, <2>9, <3>3
    <3> QED BY <2>2, <2>5, <3>4, <3>5
  <2> QED BY <2>7, <2>8, <2>9
<1> QED BY <1>13, <1>14, <1>15, <1>16, <1>17, <1>18, <1>19 DEF BaseInv

-----------------------------------------------------------------------------
(* Theorems.                                                                 *)

LEMMA BaseInvStep == BaseInv /\ [BaseNext]_baseVars => BaseInv'
<1> SUFFICES ASSUME BaseInv, [BaseNext]_baseVars PROVE BaseInv'
  OBVIOUS
<1>1. CASE UNCHANGED baseVars
  <2>1. UNCHANGED <<feed, windows, release, item, reviewer, baseSync, inForce, since, uses, overlaps,
                    editions, approvals>>
    BY <1>1 DEF baseVars, baseTables, baseGhosts, baseBounds
  <2> QED BY <2>1
      DEF BaseInv, BaseTypeOK, ItemsArchived, DecisionsHaveItems, SyncsHaveItems, OneDerived,
          OnePending, SyncApart, Unused, OneLive, DecisionsApart, RatesInForce, Current, LiveOf,
          PendingItems, Clean, Busy
<1>2. CASE BaseNext
  BY <1>2, PublishKeeps, ReadItemKeeps, RejectKeeps, DeriveKeeps, ApplyKeeps, AbortDecisionKeeps,
     SyncStepsKeep, StageKeeps DEF BaseNext
<1> QED BY <1>1, <1>2

LEMMA BaseInvAlways == BaseSpec => []BaseInv
BY BaseInvInit, BaseInvStep, PTL DEF BaseSpec

\* Every table and every transaction stays in its type.
THEOREM BaseTypeCorrect == BaseSpec => []BaseTypeOK
<1>1. BaseInv => BaseTypeOK
  BY DEF BaseInv
<1> QED BY BaseInvAlways, <1>1, PTL

\* However many decisions overlap, a staged release is applied at most once,
\* unless a sync or a late rejection has reopened it.
THEOREM ReleaseAppliedOnceAlways == BaseSpec => []ReleaseAppliedOnce
<1>1. BaseInv => ReleaseAppliedOnce
  BY DEF BaseInv, Unused, Clean, ReleaseAppliedOnce
<1> QED BY BaseInvAlways, <1>1, PTL

\* The live windows are those of the release applied last.
THEOREM RatesInForceAlways == BaseSpec => []RatesInForce
<1>1. BaseInv => RatesInForce
  BY DEF BaseInv
<1> QED BY BaseInvAlways, <1>1, PTL

\* A row that answers for a day before the effective date answers the same after
\* an apply that knew the live windows.
LEMMA PastKept ==
  ASSUME BaseInv, NEW d \in Reviewers, ApplyRelease(d), "decision" \notin overlaps,
         NEW c \in BaseCodes, NEW day \in Days, day < since',
         NEW w \in windows, w.code = c, w.stamp # Seed, CoversDay(w, day)
  PROVE  w.rate \in RatesOn(c, day)'
<1>0. BaseTypeOK /\ OneLive /\ DecisionsApart /\ DecisionsHaveItems
  BY DEF BaseInv
<1>n. PICK rel, rows, live, eff :
        /\ rel = item[reviewer[d].item].rel /\ rows = reviewer[d].rows /\ live = reviewer[d].live
        /\ eff = since'
  OBVIOUS
<1>1. /\ reviewer[d].pc = "derived" /\ live = Current /\ eff \in Days
      /\ RowAfter(w, rel, rows, live, eff) \in windows'
  BY <1>0, <1>n DEF ApplyRelease, DecisionsApart
<1>2. /\ w \in BaseWindow /\ w.from \in Nat /\ w.to \in Nat \cup {Open} /\ day \in Nat
      /\ eff \in Nat /\ eff # 0 /\ rel \in Releases /\ rel # Seed
  <2>1. w \in BaseWindow /\ w.from \in {0} \cup Days /\ w.to \in Nat \cup {Open}
    BY <1>0 DEF BaseTypeOK, BaseWindow
  <2>2. \A x \in {0} \cup Days : x \in Nat
    BY DaysAssumption
  <2>3. reviewer[d].item \in ItemIds /\ item[reviewer[d].item] # NoRow
    BY <1>0, <1>1, DecisionTypes DEF BaseTypeOK, DecisionsHaveItems, Busy
  <2>4. rel \in Releases
    BY <1>0, <1>n, <2>3 DEF BaseTypeOK, BaseItem
  <2>5. eff # 0 /\ rel # Seed
    BY <1>1, <2>4, DaysAssumption, ReleasesAssumption DEF Seed
  <2> QED BY <1>1, <2>1, <2>2, <2>4, <2>5
<1>3. w.to = Open => live[c] = w
  <2>1. w.to = Open => w \in LiveOf(windows, c)
    BY DEF LiveOf
  <2> QED BY <1>0, <1>1, <2>1, CurrentTypes DEF OneLive, BaseTypeOK
<1>4. PICK v \in windows' : v = RowAfter(w, rel, rows, live, eff)
  BY <1>1
<1>5. w.from <= day /\ (w.to = Open \/ day <= w.to)
  BY DEF CoversDay
<1>6. day <= eff - 1
  <2>1. day < eff
    BY <1>n
  <2>2. \A x, y \in Nat : x < y => x <= y - 1
    OBVIOUS
  <2> QED BY <1>2, <2>1, <2>2
<1>7. v.code = c /\ v.rate = w.rate /\ v.stamp # Seed /\ CoversDay(v, day)
  <2>1. CASE w.to # Open
    BY <1>4, <2>1 DEF RowAfter
  <2>2. CASE w.to = Open /\ c \in Removed(rows, live)
    <3>1. v = [w EXCEPT !.to = CloseDate(w.from, eff)]
      BY <1>3, <1>4, <2>2 DEF RowAfter
    <3>2. day <= CloseDate(w.from, eff)
      BY <1>2, <1>5, <1>6 DEF CloseDate
    <3>3. v.code = c /\ v.rate = w.rate /\ v.stamp = w.stamp /\ v.from = w.from
          /\ v.to = CloseDate(w.from, eff)
      BY <1>2, <3>1 DEF BaseWindow
    <3> QED BY <1>5, <3>2, <3>3 DEF CoversDay
  <2>3. CASE w.to = Open /\ c \notin Removed(rows, live) /\ c \notin Changed(rows, live)
    <3>1. v = [w EXCEPT !.stamp = rel]
      BY <1>4, <2>3 DEF RowAfter
    <3>2. v.code = c /\ v.rate = w.rate /\ v.stamp = rel /\ v.from = w.from /\ v.to = w.to
      BY <1>2, <3>1 DEF BaseWindow
    <3> QED BY <1>2, <1>5, <3>2 DEF CoversDay
  <2>4. CASE w.to = Open /\ c \notin Removed(rows, live) /\ c \in Changed(rows, live)
    <3>1. Tiled(live[c], eff)
      <4>1. w.from < eff
        BY <1>n, <1>2, <1>5
      <4> QED BY <1>2, <1>3, <2>4, <4>1 DEF Tiled, Tiles, Undated
    <3>2. v = [w EXCEPT !.to = eff - 1]
      BY <1>4, <2>4, <3>1 DEF RowAfter
    <3>3. v.code = c /\ v.rate = w.rate /\ v.stamp = w.stamp /\ v.from = w.from /\ v.to = eff - 1
      BY <1>2, <3>2 DEF BaseWindow
    <3>4. day <= eff - 1
      BY <1>2, <1>6
    <3> QED BY <1>5, <3>3, <3>4 DEF CoversDay
  <2> QED BY <2>1, <2>2, <2>3, <2>4
<1> QED BY <1>7 DEF RatesOn, CoversDay

\* "Historical entries keep auditing against the base rates of their day": an
\* apply leaves the rates of the days before its effective date as they were.
THEOREM PastRatesStandAlways == BaseSpec => PastRatesStand
<1> DEFINE Stand == uses' # uses => "decision" \in overlaps \/ \A c \in BaseCodes, day \in Days :
              day < since' => RatesOn(c, day) \subseteq RatesOn(c, day)'
<1>1. ASSUME BaseInv, [BaseNext]_baseVars PROVE [Stand]_baseVars
  <2> SUFFICES ASSUME uses' # uses, "decision" \notin overlaps, NEW c \in BaseCodes, NEW day \in Days,
                      day < since'
               PROVE  RatesOn(c, day) \subseteq RatesOn(c, day)'
    OBVIOUS
  <2>1. PICK d \in Reviewers : ApplyRelease(d)
    BY <1>1 DEF BaseNext, baseVars, baseGhosts, PublishRelease, ReadItem, RejectRelease, Derive,
                AbortDecision, ReadLive, ReadPending, StageRelease, AbortSync
  <2>2. ASSUME NEW rate \in RatesOn(c, day) PROVE rate \in RatesOn(c, day)'
    <3>1. PICK w \in windows : w.code = c /\ w.stamp # Seed /\ CoversDay(w, day) /\ rate = w.rate
      BY <2>2 DEF RatesOn
    <3> QED BY <1>1, <2>1, <3>1, PastKept
  <2> QED BY <2>2
<1> QED BY BaseInvAlways, <1>1, PTL DEF BaseSpec, PastRatesStand

-----------------------------------------------------------------------------
(* EntryAudit: an undisturbed audit heals its entry, and an audit leaves a *)
(* person's judgment alone.                                                *)

Auditing == {"snapshot", "rows"}

\* What the facts of f's entry give once f has written.
TextAfter(f) ==
  IF f.kind = "filing" THEN Raises[<<f.value, catalog[f.entry], reference>>]
  ELSE IF f.kind = "catalog" THEN Raises[<<filing[f.entry], f.value, reference>>]
  ELSE Deserved(f.entry)

ValueFits(f) ==
  /\ f.kind = "filing" => f.value \in Filings
  /\ f.kind = "catalog" => f.value \in Catalogs

\* The alert of e is the one the rules give, or decided.
Heals(e) ==
  IF alert[e] = Nobody THEN Deserved(e) = NoText
  ELSE alert[e].status = "open" => alert[e].text = Deserved(e)

\* An audit nothing has disturbed knows the text its entry deserves and, once it
\* has read the rows, the row that stands.
Fresh(f) ==
  f.pc \in Auditing =>
    /\ ValueFits(f)
    /\ f.alone => f.text = TextAfter(f)
    /\ f.alone /\ f.pc = "rows" => f.row = alert[f.entry]

FreshAll == \A a \in Auditors : Fresh(auditor[a])

AuditInv == AuditTypeOK /\ FreshAll /\ AuditHeals

\* A frame whose audit something has disturbed.
Unaware(f) == [f EXCEPT !.alone = FALSE]

LEMMA Healing == AuditHeals <=> \A e \in current : Heals(e)
BY DEF AuditHeals, Heals

\* What the rules give is a text or none.
LEMMA RaisedTexts ==
  ASSUME NEW f \in Filings, NEW c \in Catalogs, NEW r \in References
  PROVE  Raises[<<f, c, r>>] \in Texts \cup {NoText}
<1>1. <<f, c, r>> \in DOMAIN Raises
  BY RaisesAssumption
<1> QED BY <1>1 DEF Texts

\* The auditors at an entry, and the fields of their frames.
LEMMA FrameTypes ==
  ASSUME NEW f \in Auditor
  PROVE  /\ f.pc \in {"off", "sweep", "snapshot", "rows"}
         /\ f.pc = "off" <=> f = Off
         /\ f.pc = "sweep" => f \in [pc : {"sweep"}, todo : SUBSET Audited,
                                     ref : References \cup {Nobody}]
         /\ f.pc \in Auditing =>
              f \in [pc : Auditing, entry : Audited, kind : {"filing", "catalog", "sweep"},
                     value : Filings \cup Catalogs \cup {Nobody}, text : Texts \cup {NoText},
                     row : Alert \cup {Nobody}, todo : SUBSET Audited,
                     ref : References \cup {Nobody}, alone : BOOLEAN]
BY DEF Auditor, Off, Auditing

LEMMA Counted ==
  ASSUME NEW bound \in Nat, NEW n \in 0..bound, n < bound
  PROVE  n + 1 \in 0..bound
OBVIOUS

\* A disturbed frame keeps its type and all but "alone".
LEMMA DisturbedFrames ==
  ASSUME AuditTypeOK, NEW others \in SUBSET Auditors, NEW entries \in SUBSET Audited,
         NEW a \in Auditors
  PROVE  /\ Disturbed(others, entries)[a] \in Auditor
         /\ \/ Disturbed(others, entries)[a] = auditor[a]
            \/ /\ Disturbed(others, entries)[a] = Unaware(auditor[a])
               /\ auditor[a].pc \in Auditing
               /\ a \in others /\ auditor[a].entry \in entries
         /\ (a \in others /\ auditor[a].pc \in Auditing /\ auditor[a].entry \in entries) =>
               Disturbed(others, entries)[a] = Unaware(auditor[a])
<1> DEFINE f == auditor[a]
<1>1. f \in Auditor
  BY DEF AuditTypeOK
<1>2. CASE a \in others /\ \E e \in entries : At(a, e)
  <2>1. /\ Disturbed(others, entries)[a] = Unaware(f)
        /\ f.pc \in Auditing /\ f.entry \in entries
    BY <1>2 DEF Disturbed, At, Auditing, Unaware
  <2>2. f \in [pc : Auditing, entry : Audited, kind : {"filing", "catalog", "sweep"},
               value : Filings \cup Catalogs \cup {Nobody}, text : Texts \cup {NoText},
               row : Alert \cup {Nobody}, todo : SUBSET Audited,
               ref : References \cup {Nobody}, alone : BOOLEAN]
    BY <1>1, <2>1, FrameTypes
  <2>3. Unaware(f) \in Auditor
    BY <2>2 DEF Auditor, Auditing, Unaware
  <2> QED BY <1>2, <2>1, <2>3
<1>3. CASE ~(a \in others /\ \E e \in entries : At(a, e))
  BY <1>1, <1>3 DEF Disturbed, At, Auditing
<1> QED BY <1>2, <1>3

-----------------------------------------------------------------------------
(* The invariant.                                                            *)

LEMMA AuditInvInit == AuditInit => AuditInv
<1> SUFFICES ASSUME AuditInit PROVE AuditInv
  OBVIOUS
<1>1. AuditTypeOK
  <2>1. \A e \in Audited : Deserved(e) \in Texts \cup {NoText}
    BY RaisedTexts DEF AuditInit, Deserved
  <2>2. alert \in [Audited -> Alert \cup {Nobody}]
    BY <2>1 DEF AuditInit, Alert, Statuses
  <2>3. auditor \in [Auditors -> Auditor]
    BY DEF AuditInit, Auditor
  <2>4. 0 \in 0..MaxUpdates /\ 0 \in 0..MaxJudgments
    BY AuditBoundsAssumption
  <2> QED BY <2>2, <2>3, <2>4 DEF AuditInit, AuditTypeOK
<1>2. FreshAll
  BY DEF AuditInit, FreshAll, Fresh, Off, Auditing
<1>3. AuditHeals
  BY DEF AuditInit, AuditHeals
<1> QED BY <1>1, <1>2, <1>3 DEF AuditInv

\* A frame stays fresh when nothing it knows of changes, or when it is disturbed.
LEMMA FreshKept ==
  ASSUME AuditTypeOK, NEW a \in Auditors, Fresh(auditor[a]),
         \/ /\ auditor'[a] = auditor[a]
            /\ auditor[a].pc \in Auditing =>
                 /\ filing'[auditor[a].entry] = filing[auditor[a].entry]
                 /\ catalog'[auditor[a].entry] = catalog[auditor[a].entry]
                 /\ alert'[auditor[a].entry] = alert[auditor[a].entry]
                 /\ reference' = reference
         \/ /\ auditor[a].pc \in Auditing
            /\ auditor'[a] = Unaware(auditor[a])
  PROVE  Fresh(auditor[a])'
<1> DEFINE f == auditor[a]
<1>1. f \in Auditor
  BY DEF AuditTypeOK
<1>2. CASE f.pc \in Auditing /\ auditor'[a] = Unaware(f)
  <2>1. f \in [pc : Auditing, entry : Audited, kind : {"filing", "catalog", "sweep"},
               value : Filings \cup Catalogs \cup {Nobody}, text : Texts \cup {NoText},
               row : Alert \cup {Nobody}, todo : SUBSET Audited,
               ref : References \cup {Nobody}, alone : BOOLEAN]
    BY <1>1, <1>2, FrameTypes
  <2>2. /\ auditor'[a].alone = FALSE /\ auditor'[a].kind = f.kind
        /\ auditor'[a].value = f.value
    BY <1>2, <2>1 DEF Unaware
  <2>3. ValueFits(f)
    BY <1>2 DEF Fresh
  <2>4. ValueFits(auditor[a])'
    BY <2>2, <2>3 DEF ValueFits
  <2> QED BY <2>2, <2>4 DEF Fresh
<1>3. CASE /\ auditor'[a] = f
           /\ f.pc \in Auditing =>
                /\ filing'[f.entry] = filing[f.entry] /\ catalog'[f.entry] = catalog[f.entry]
                /\ alert'[f.entry] = alert[f.entry] /\ reference' = reference
  BY <1>3 DEF Fresh, ValueFits, TextAfter, Deserved
<1> QED BY <1>2, <1>3

\* What others' frames are after a step that disturbs the auditors at e.
LEMMA OthersFresh ==
  ASSUME AuditTypeOK, FreshAll, NEW others \in SUBSET Auditors, NEW e \in Audited,
         NEW b \in others, auditor'[b] = Disturbed(others, {e})[b],
         \A d \in Audited \ {e} : /\ filing'[d] = filing[d] /\ catalog'[d] = catalog[d]
                                  /\ alert'[d] = alert[d],
         reference' = reference
  PROVE  Fresh(auditor[b])'
<1>1. b \in Auditors /\ Fresh(auditor[b]) /\ auditor[b] \in Auditor
  BY DEF FreshAll, AuditTypeOK
<1>2. /\ \/ Disturbed(others, {e})[b] = auditor[b]
         \/ /\ Disturbed(others, {e})[b] = Unaware(auditor[b])
            /\ auditor[b].pc \in Auditing /\ auditor[b].entry \in {e}
      /\ (auditor[b].pc \in Auditing /\ auditor[b].entry \in {e}) =>
            Disturbed(others, {e})[b] = Unaware(auditor[b])
  <2>1. others \in SUBSET Auditors /\ b \in others /\ {e} \in SUBSET Audited
    OBVIOUS
  <2>2. ASSUME NEW entries \in SUBSET Audited
        PROVE  /\ \/ Disturbed(others, entries)[b] = auditor[b]
                  \/ /\ Disturbed(others, entries)[b] = Unaware(auditor[b])
                     /\ auditor[b].pc \in Auditing /\ auditor[b].entry \in entries
               /\ (auditor[b].pc \in Auditing /\ auditor[b].entry \in entries) =>
                     Disturbed(others, entries)[b] = Unaware(auditor[b])
    BY <1>1, <2>1, DisturbedFrames
  <2> QED BY <2>1, <2>2
<1>3. CASE auditor[b].pc \in Auditing /\ auditor[b].entry = e
  <2>1. auditor'[b] = Unaware(auditor[b])
    BY <1>3, <1>2
  <2> QED BY <1>1, <1>3, <2>1, FreshKept
<1>4. CASE ~(auditor[b].pc \in Auditing /\ auditor[b].entry = e)
  <2>1. auditor'[b] = auditor[b]
    BY <1>4, <1>2
  <2>2. auditor[b].pc \in Auditing => auditor[b].entry \in Audited \ {e}
    BY <1>1, <1>4, FrameTypes
  <2> QED BY <1>1, <2>1, <2>2, FreshKept
<1> QED BY <1>3, <1>4

LEMMA HealsKept ==
  ASSUME NEW e \in Audited, Heals(e), filing'[e] = filing[e], catalog'[e] = catalog[e],
         alert'[e] = alert[e], reference' = reference
  PROVE  Heals(e)'
BY DEF Heals, Deserved

-----------------------------------------------------------------------------
(* The steps.                                                                *)

LEMMA EditFactsKeeps ==
  ASSUME AuditInv, NEW a \in Auditors, NEW e \in Audited, EditFacts(a, e)
  PROVE  AuditInv'
<1>0. AuditTypeOK /\ FreshAll /\ AuditHeals
  BY DEF AuditInv
<1>1. PICK kind \in {"filing", "catalog"}, value \in Filings \cup Catalogs,
           text \in Texts \cup {NoText} :
        /\ auditor' = [auditor EXCEPT ![a] =
             [pc |-> "snapshot", entry |-> e, kind |-> kind, value |-> value, text |-> text,
              row |-> Nobody, todo |-> {}, ref |-> Nobody, alone |-> TRUE]]
        /\ kind = "filing" => value \in Filings /\ text = Raises[<<value, catalog[e], reference>>]
        /\ kind = "catalog" => value \in Catalogs /\ text = Raises[<<filing[e], value, reference>>]
  <2>1. filing[e] \in Filings /\ catalog[e] \in Catalogs /\ reference \in References
    BY <1>0 DEF AuditTypeOK
  <2>2. /\ \A v \in Filings : Raises[<<v, catalog[e], reference>>] \in Texts \cup {NoText}
        /\ \A v \in Catalogs : Raises[<<filing[e], v, reference>>] \in Texts \cup {NoText}
    BY <2>1, RaisedTexts
  <2> QED BY <2>2 DEF EditFacts
<1> DEFINE g == [pc |-> "snapshot", entry |-> e, kind |-> kind, value |-> value, text |-> text,
                 row |-> Nobody, todo |-> {}, ref |-> Nobody, alone |-> TRUE]
<1>2. UNCHANGED <<filing, catalog, reference, alert, current, births, judgments>>
  BY DEF EditFacts, facts
<1>3. AuditTypeOK'
  <2>1. g \in Auditor
    BY DEF Auditor
  <2>2. auditor' \in [Auditors -> Auditor]
    BY <1>0, <1>1, <2>1 DEF AuditTypeOK
  <2>3. updates' \in 0..MaxUpdates
    <3>1. updates \in 0..MaxUpdates /\ updates < MaxUpdates /\ updates' = updates + 1
      BY <1>0 DEF EditFacts, AuditTypeOK
    <3> QED BY <3>1, Counted, AuditBoundsAssumption
  <2> QED BY <1>0, <1>2, <2>2, <2>3 DEF AuditTypeOK
<1>4. FreshAll'
  <2> SUFFICES ASSUME NEW b \in Auditors PROVE Fresh(auditor[b])'
    BY DEF FreshAll
  <2>1. CASE b = a
    <3>1. auditor'[a] = g
      BY <1>0, <1>1 DEF AuditTypeOK
    <3>2. /\ g.pc = "snapshot" /\ g.kind = kind /\ g.value = value /\ g.text = text /\ g.entry = e
      OBVIOUS
    <3> HIDE DEF g
    <3> QED BY <1>1, <1>2, <2>1, <3>1, <3>2 DEF Fresh, ValueFits, TextAfter
  <2>2. CASE b # a
    <3>1. auditor'[b] = auditor[b] /\ Fresh(auditor[b])
      BY <1>0, <1>1, <2>2 DEF AuditTypeOK, FreshAll
    <3> QED BY <1>0, <1>2, <3>1, FreshKept
  <2> QED BY <2>1, <2>2
<1>5. AuditHeals'
  BY <1>0, <1>2 DEF AuditHeals, Deserved
<1> QED BY <1>3, <1>4, <1>5 DEF AuditInv

LEMMA ChangeReferenceKeeps ==
  ASSUME AuditInv, NEW a \in Auditors, ChangeReference(a)
  PROVE  AuditInv'
<1>0. AuditTypeOK /\ FreshAll
  BY DEF AuditInv
<1> DEFINE g == [pc |-> "sweep", todo |-> Audited, ref |-> Nobody]
<1>1. /\ auditor' = [Disturbed(Auditors, Audited) EXCEPT ![a] = g]
      /\ UNCHANGED <<filing, catalog, alert, births, judgments>> /\ current' = {}
      /\ reference' \in References
  BY DEF ChangeReference
<1>2. /\ auditor'[a] = g
      /\ \A b \in Auditors \ {a} : auditor'[b] = Disturbed(Auditors, Audited)[b]
  BY <1>1 DEF Disturbed
<1>3. AuditTypeOK'
  <2>1. g \in Auditor
    BY DEF Auditor
  <2>2. \A b \in Auditors : Disturbed(Auditors, Audited)[b] \in Auditor
    BY <1>0, DisturbedFrames
  <2>3. auditor' \in [Auditors -> Auditor]
    BY <1>1, <2>1, <2>2 DEF Disturbed
  <2>4. updates' \in 0..MaxUpdates
    <3>1. updates \in 0..MaxUpdates /\ updates < MaxUpdates /\ updates' = updates + 1
      BY <1>0 DEF ChangeReference, AuditTypeOK
    <3> QED BY <3>1, Counted, AuditBoundsAssumption
  <2> QED BY <1>0, <1>1, <2>3, <2>4 DEF AuditTypeOK
<1>4. FreshAll'
  <2> SUFFICES ASSUME NEW b \in Auditors PROVE Fresh(auditor[b])'
    BY DEF FreshAll
  <2>1. CASE b = a
    BY <1>2, <2>1 DEF Fresh, Auditing
  <2>2. CASE b # a
    <3>1. auditor[b] \in Auditor /\ Fresh(auditor[b])
      BY <1>0 DEF AuditTypeOK, FreshAll
    <3>2. CASE auditor[b].pc \in Auditing
      <4>1. auditor[b].entry \in Audited
        BY <3>1, <3>2, FrameTypes
      <4>2. auditor'[b] = Unaware(auditor[b])
        BY <1>0, <1>2, <2>2, <3>2, <4>1, DisturbedFrames
      <4> QED BY <1>0, <3>1, <3>2, <4>2, FreshKept
    <3>3. CASE auditor[b].pc \notin Auditing
      <4>1. Auditors \in SUBSET Auditors /\ Audited \in SUBSET Audited
        OBVIOUS
      <4>2. auditor'[b] = auditor[b]
        BY <1>0, <1>2, <2>2, <3>3, <4>1, DisturbedFrames
      <4> QED BY <1>0, <3>1, <3>3, <4>2, FreshKept
    <3> QED BY <3>2, <3>3
  <2> QED BY <2>1, <2>2
<1>5. AuditHeals'
  BY <1>1 DEF AuditHeals
<1> QED BY <1>3, <1>4, <1>5 DEF AuditInv

LEMMA SnapshotEntryKeeps ==
  ASSUME AuditInv, NEW a \in Auditors, NEW e \in Audited, SnapshotEntry(a, e)
  PROVE  AuditInv'
<1>0. AuditTypeOK /\ FreshAll /\ AuditHeals
  BY DEF AuditInv
<1>1. /\ auditor[a] \in [pc : {"sweep"}, todo : SUBSET Audited, ref : References \cup {Nobody}]
      /\ auditor[a].todo \in SUBSET Audited
  <2>1. auditor[a] \in Auditor /\ auditor[a].pc = "sweep"
    BY <1>0 DEF SnapshotEntry, AuditTypeOK
  <2> QED BY <2>1, FrameTypes
<1>2. PICK ref \in LoadedBy(a) :
        auditor' = [auditor EXCEPT ![a] =
          [pc |-> "snapshot", entry |-> e, kind |-> "sweep", value |-> Nobody,
           text |-> Raises[<<filing[e], catalog[e], ref>>],
           row |-> Nobody, todo |-> auditor[a].todo \ {e}, ref |-> ref, alone |-> ref = reference]]
  BY DEF SnapshotEntry
<1>3. ref \in References
  BY <1>0, <1>1, <1>2 DEF LoadedBy, AuditTypeOK
<1> DEFINE g == [pc |-> "snapshot", entry |-> e, kind |-> "sweep", value |-> Nobody,
                 text |-> Raises[<<filing[e], catalog[e], ref>>],
                 row |-> Nobody, todo |-> auditor[a].todo \ {e}, ref |-> ref,
                 alone |-> ref = reference]
<1>4. UNCHANGED <<filing, catalog, reference, alert, current, births, updates, judgments>>
  BY DEF SnapshotEntry, facts
<1>5. AuditTypeOK'
  <2>1. Raises[<<filing[e], catalog[e], ref>>] \in Texts \cup {NoText}
    BY <1>0, <1>3, RaisedTexts DEF AuditTypeOK
  <2>2. g \in Auditor
    BY <1>1, <1>3, <2>1 DEF Auditor
  <2>3. auditor' \in [Auditors -> Auditor]
    BY <1>0, <1>2, <2>2 DEF AuditTypeOK
  <2> QED BY <1>0, <1>4, <2>3 DEF AuditTypeOK
<1>6. FreshAll'
  <2> SUFFICES ASSUME NEW b \in Auditors PROVE Fresh(auditor[b])'
    BY DEF FreshAll
  <2>1. CASE b = a
    <3>1. auditor'[b] = g
      BY <1>0, <1>2, <2>1 DEF AuditTypeOK
    <3>2. /\ g.pc = "snapshot" /\ g.kind = "sweep" /\ g.entry = e
          /\ g.text = Raises[<<filing[e], catalog[e], ref>>]
      OBVIOUS
    <3>3. g.alone = (ref = reference)
      OBVIOUS
    <3>4. g.alone => g.text = Deserved(e)
      BY <3>2, <3>3 DEF Deserved
    <3> HIDE DEF g
    <3>5. Deserved(e)' = Deserved(e)
      BY <1>4 DEF Deserved
    <3> QED BY <3>1, <3>2, <3>4, <3>5 DEF Fresh, ValueFits, TextAfter
  <2>2. CASE b # a
    <3>1. auditor'[b] = auditor[b] /\ Fresh(auditor[b])
      BY <1>0, <1>2, <2>2 DEF AuditTypeOK, FreshAll
    <3> QED BY <1>0, <1>4, <3>1, FreshKept
  <2> QED BY <2>1, <2>2
<1>7. AuditHeals'
  BY <1>0, <1>4 DEF AuditHeals, Deserved
<1> QED BY <1>5, <1>6, <1>7 DEF AuditInv

LEMMA ReadRowsKeeps ==
  ASSUME AuditInv, NEW a \in Auditors, ReadRows(a)
  PROVE  AuditInv'
<1>0. AuditTypeOK /\ FreshAll /\ AuditHeals
  BY DEF AuditInv
<1> DEFINE f == auditor[a]
           g == [f EXCEPT !.pc = "rows", !.row = alert[f.entry]]
<1>1. /\ f \in [pc : Auditing, entry : Audited, kind : {"filing", "catalog", "sweep"},
                value : Filings \cup Catalogs \cup {Nobody}, text : Texts \cup {NoText},
                row : Alert \cup {Nobody}, todo : SUBSET Audited,
                ref : References \cup {Nobody}, alone : BOOLEAN]
      /\ f.pc = "snapshot"
  <2>1. f \in Auditor /\ f.pc = "snapshot" /\ f.pc \in Auditing
    BY <1>0 DEF ReadRows, AuditTypeOK, Auditing
  <2> QED BY <2>1, FrameTypes
<1>2. /\ auditor' = [auditor EXCEPT ![a] = g]
      /\ UNCHANGED <<filing, catalog, reference, alert, current, births, updates, judgments>>
  BY DEF ReadRows, facts
<1>3. AuditTypeOK'
  <2>1. alert[f.entry] \in Alert \cup {Nobody}
    BY <1>0, <1>1 DEF AuditTypeOK
  <2>2. g \in Auditor
    BY <1>1, <2>1 DEF Auditor, Auditing
  <2>3. auditor' \in [Auditors -> Auditor]
    BY <1>0, <1>2, <2>2 DEF AuditTypeOK
  <2> QED BY <1>0, <1>2, <2>3 DEF AuditTypeOK
<1>4. FreshAll'
  <2> SUFFICES ASSUME NEW b \in Auditors PROVE Fresh(auditor[b])'
    BY DEF FreshAll
  <2>1. CASE b = a
    <3>1. auditor'[b] = g
      BY <1>0, <1>2, <2>1 DEF AuditTypeOK
    <3>2. /\ g.pc = "rows" /\ g.kind = f.kind /\ g.value = f.value /\ g.text = f.text
          /\ g.entry = f.entry /\ g.alone = f.alone /\ g.row = alert[f.entry]
      BY <1>1
    <3>3. ValueFits(f) /\ (f.alone => f.text = TextAfter(f))
      BY <1>0, <1>1 DEF FreshAll, Fresh, Auditing
    <3> HIDE DEF f, g
    <3> QED BY <1>2, <3>1, <3>2, <3>3 DEF Fresh, ValueFits, TextAfter, Deserved
  <2>2. CASE b # a
    <3>1. auditor'[b] = auditor[b] /\ Fresh(auditor[b])
      BY <1>0, <1>2, <2>2 DEF AuditTypeOK, FreshAll
    <3> QED BY <1>0, <1>2, <3>1, FreshKept
  <2> QED BY <2>1, <2>2
<1>5. AuditHeals'
  BY <1>0, <1>2 DEF AuditHeals, Deserved
<1> QED BY <1>3, <1>4, <1>5 DEF AuditInv

LEMMA AbortAuditKeeps ==
  ASSUME AuditInv, NEW a \in Auditors, AbortAudit(a)
  PROVE  AuditInv'
<1>0. AuditTypeOK /\ FreshAll /\ AuditHeals
  BY DEF AuditInv
<1>1. /\ auditor' = [auditor EXCEPT ![a] = Off]
      /\ UNCHANGED <<filing, catalog, reference, alert, current, births, updates, judgments>>
  BY DEF AbortAudit, facts
<1>2. AuditTypeOK'
  <2>1. auditor' \in [Auditors -> Auditor]
    BY <1>0, <1>1 DEF AuditTypeOK, Auditor
  <2> QED BY <1>0, <1>1, <2>1 DEF AuditTypeOK
<1>3. FreshAll'
  <2> SUFFICES ASSUME NEW b \in Auditors PROVE Fresh(auditor[b])'
    BY DEF FreshAll
  <2>1. CASE b = a
    BY <1>0, <1>1, <2>1 DEF AuditTypeOK, Fresh, Off, Auditing
  <2>2. CASE b # a
    <3>1. auditor'[b] = auditor[b] /\ Fresh(auditor[b])
      BY <1>0, <1>1, <2>2 DEF AuditTypeOK, FreshAll
    <3> QED BY <1>0, <1>1, <3>1, FreshKept
  <2> QED BY <2>1, <2>2
<1>4. AuditHeals'
  BY <1>0, <1>1 DEF AuditHeals, Deserved
<1> QED BY <1>2, <1>3, <1>4 DEF AuditInv

LEMMA JudgeKeeps ==
  ASSUME AuditInv, NEW e \in Audited, Judge(e)
  PROVE  AuditInv'
<1>0. AuditTypeOK /\ FreshAll /\ AuditHeals
  BY DEF AuditInv
<1>1. PICK status \in Statuses : alert' = [alert EXCEPT ![e] = [alert[e] EXCEPT !.status = status]]
  BY DEF Judge
<1>2. /\ UNCHANGED <<filing, catalog, reference, births, updates>>
      /\ auditor' = Disturbed(Auditors, {e}) /\ current' = current \ {e}
      /\ judgments < MaxJudgments /\ judgments' = judgments + 1 /\ alert[e] # Nobody
  BY DEF Judge, facts
<1>3. \A d \in Audited \ {e} : alert'[d] = alert[d]
  BY <1>0, <1>1 DEF AuditTypeOK
<1>4. AuditTypeOK'
  <2>1. alert[e] \in Alert
    BY <1>0, <1>2 DEF AuditTypeOK
  <2>2. [alert[e] EXCEPT !.status = status] \in Alert
    BY <2>1 DEF Alert
  <2>3. alert' \in [Audited -> Alert \cup {Nobody}]
    BY <1>0, <1>1, <2>2 DEF AuditTypeOK
  <2>4. Auditors \in SUBSET Auditors /\ {e} \in SUBSET Audited
    OBVIOUS
  <2>5. \A b \in Auditors : Disturbed(Auditors, {e})[b] \in Auditor
    BY <1>0, <2>4, DisturbedFrames
  <2>6. auditor' \in [Auditors -> Auditor]
    BY <1>2, <2>5 DEF Disturbed
  <2>7. judgments' \in 0..MaxJudgments
    <3>1. judgments \in 0..MaxJudgments
      BY <1>0 DEF AuditTypeOK
    <3> QED BY <1>2, <3>1, Counted, AuditBoundsAssumption
  <2> QED BY <1>0, <1>2, <2>3, <2>6, <2>7 DEF AuditTypeOK
<1>5. FreshAll'
  <2> SUFFICES ASSUME NEW b \in Auditors PROVE Fresh(auditor[b])'
    BY DEF FreshAll
  <2>1. auditor'[b] = Disturbed(Auditors, {e})[b] /\ Auditors \in SUBSET Auditors
    BY <1>2
  <2> QED BY <1>0, <1>2, <1>3, <2>1, OthersFresh
<1>6. AuditHeals'
  <2>1. \A d \in current' : d \in Audited /\ d # e /\ Heals(d)
    BY <1>0, <1>2, Healing DEF AuditTypeOK
  <2>2. \A d \in current' : Heals(d)'
    BY <1>2, <1>3, <2>1, HealsKept
  <2> QED BY <2>2 DEF AuditHeals, Heals
<1> QED BY <1>4, <1>5, <1>6 DEF AuditInv

\* The write: the entry's facts and its row, on what the frame has read.
LEMMA WriteAlertsKeeps ==
  ASSUME AuditInv, NEW a \in Auditors, WriteAlerts(a)
  PROVE  AuditInv'
<1>0. AuditTypeOK /\ FreshAll /\ AuditHeals
  BY DEF AuditInv
<1>f. PICK f : f = auditor[a]
  OBVIOUS
<1> DEFINE e == f.entry
           after == Reconciled(e, f.row, f.text, births + 1)
           next == IF f.todo = {} THEN Off ELSE [pc |-> "sweep", todo |-> f.todo, ref |-> f.ref]
<1>1. /\ f \in [pc : Auditing, entry : Audited, kind : {"filing", "catalog", "sweep"},
                value : Filings \cup Catalogs \cup {Nobody}, text : Texts \cup {NoText},
                row : Alert \cup {Nobody}, todo : SUBSET Audited,
                ref : References \cup {Nobody}, alone : BOOLEAN]
      /\ f.pc = "rows" /\ e \in Audited /\ ValueFits(f) /\ Fresh(f)
  <2>1. f \in Auditor /\ f.pc = "rows" /\ f.pc \in Auditing /\ Fresh(f)
    BY <1>0, <1>f DEF WriteAlerts, AuditTypeOK, FreshAll, Auditing
  <2>2. f \in [pc : Auditing, entry : Audited, kind : {"filing", "catalog", "sweep"},
               value : Filings \cup Catalogs \cup {Nobody}, text : Texts \cup {NoText},
               row : Alert \cup {Nobody}, todo : SUBSET Audited,
               ref : References \cup {Nobody}, alone : BOOLEAN]
    BY <2>1, FrameTypes
  <2> QED BY <2>1, <2>2 DEF Fresh
<1>2. /\ ~KeyTaken(e, f.row, f.text)
      /\ alert' = [alert EXCEPT ![e] = after]
      /\ births' = IF f.row = Nobody /\ f.text # NoText THEN births + 1 ELSE births
      /\ filing' = IF f.kind = "filing" THEN [filing EXCEPT ![e] = f.value] ELSE filing
      /\ catalog' = IF f.kind = "catalog" THEN [catalog EXCEPT ![e] = f.value] ELSE catalog
      /\ auditor' = [Disturbed(Auditors \ {a}, {e}) EXCEPT ![a] = next]
      /\ current' = IF f.alone THEN current \cup {e} ELSE current \ {e}
      /\ UNCHANGED <<reference, updates, judgments>>
  BY <1>f DEF WriteAlerts
<1>3. \A d \in Audited \ {e} :
        filing'[d] = filing[d] /\ catalog'[d] = catalog[d] /\ alert'[d] = alert[d]
  BY <1>0, <1>2 DEF AuditTypeOK
<1>4. /\ filing'[e] = IF f.kind = "filing" THEN f.value ELSE filing[e]
      /\ catalog'[e] = IF f.kind = "catalog" THEN f.value ELSE catalog[e]
      /\ alert'[e] = after
  BY <1>0, <1>1, <1>2 DEF AuditTypeOK
<1>5. /\ f.text # NoText => [text |-> f.text, status |-> "open", id |-> births + 1] \in Alert
      /\ f.text # NoText /\ alert[e] \in Alert => [alert[e] EXCEPT !.text = f.text] \in Alert
  <2>1. births + 1 \in Nat
    BY <1>0 DEF AuditTypeOK
  <2>2. ASSUME f.text # NoText
        PROVE  [text |-> f.text, status |-> "open", id |-> births + 1] \in Alert
    BY <1>1, <2>1, <2>2 DEF Alert, Statuses
  <2>3. ASSUME f.text # NoText, alert[e] \in Alert PROVE [alert[e] EXCEPT !.text = f.text] \in Alert
    BY <1>1, <2>3 DEF Alert
  <2> QED BY <2>2, <2>3
<1>6. after \in Alert \cup {Nobody}
  <2>1. alert[e] \in Alert \cup {Nobody} /\ births + 1 \in Nat
    BY <1>0, <1>1 DEF AuditTypeOK
  <2> HIDE DEF e
  <2> QED BY <1>5, <2>1 DEF Reconciled, Drifted
<1>7. AuditTypeOK'
  <2>1. filing' \in [Audited -> Filings] /\ catalog' \in [Audited -> Catalogs]
    BY <1>0, <1>1, <1>2 DEF AuditTypeOK, ValueFits
  <2>2. alert' \in [Audited -> Alert \cup {Nobody}]
    BY <1>0, <1>2, <1>6 DEF AuditTypeOK
  <2>3. next \in Auditor
    BY <1>1 DEF Auditor
  <2>4. Auditors \ {a} \in SUBSET Auditors /\ {e} \in SUBSET Audited
    BY <1>1
  <2>5. \A b \in Auditors : Disturbed(Auditors \ {a}, {e})[b] \in Auditor
    BY <1>0, <2>4, DisturbedFrames
  <2>6. auditor' \in [Auditors -> Auditor]
    <3> HIDE DEF next
    <3> QED BY <1>2, <2>3, <2>5 DEF Disturbed
  <2>7. births' \in Nat /\ current' \subseteq Audited
    BY <1>0, <1>1, <1>2 DEF AuditTypeOK
  <2> QED BY <1>0, <1>2, <2>1, <2>2, <2>6, <2>7 DEF AuditTypeOK
<1>8. FreshAll'
  <2> SUFFICES ASSUME NEW b \in Auditors PROVE Fresh(auditor[b])'
    BY DEF FreshAll
  <2>1. CASE b = a
    <3>1. auditor'[b] = next
      BY <1>2, <2>1 DEF Disturbed
    <3>2. next.pc \notin Auditing
      BY DEF Off, Auditing
    <3> HIDE DEF next
    <3> QED BY <3>1, <3>2 DEF Fresh
  <2>2. CASE b # a
    <3>1. /\ auditor'[b] = Disturbed(Auditors \ {a}, {e})[b]
          /\ b \in Auditors \ {a} /\ Auditors \ {a} \in SUBSET Auditors
      BY <1>2, <2>2 DEF Disturbed
    <3> QED BY <1>0, <1>1, <1>2, <1>3, <3>1, OthersFresh
  <2> QED BY <2>1, <2>2
<1>9. AuditHeals'
  <2>1. \A d \in current' \ {e} : d \in Audited /\ Heals(d)
    BY <1>0, <1>2, Healing DEF AuditTypeOK
  <2>2. \A d \in current' \ {e} : Heals(d)'
    BY <1>2, <1>3, <2>1, HealsKept
  <2>3. ASSUME f.alone PROVE Heals(e)'
    <3>1. f.text = TextAfter(f) /\ f.row = alert[e]
      BY <1>1, <2>3 DEF Fresh, Auditing
    <3>2. Deserved(e)' = f.text
      BY <1>1, <1>2, <1>4, <3>1 DEF Deserved, TextAfter
    <3>3. IF after = Nobody THEN f.text = NoText ELSE after.status = "open" => after.text = f.text
      <4>1. CASE f.row = Nobody
        <5>1. CASE f.text = NoText
          BY <3>1, <4>1, <5>1 DEF Reconciled
        <5>2. CASE f.text # NoText
          <6>1. after = [text |-> f.text, status |-> "open", id |-> births + 1]
            BY <4>1, <5>2 DEF Reconciled
          <6>2. after # Nobody
            BY <1>5, <5>2, <6>1, NobodyAssumption
          <6> QED BY <6>1, <6>2
        <5> QED BY <5>1, <5>2
      <4>2. CASE f.row # Nobody
        <5>1. f.row \in Alert
          BY <1>1, <4>2
        <5> HIDE DEF e
        <5>2. CASE Drifted(f.row, f.text)
          <6>1. f.text # NoText /\ f.row.status = "open"
            BY <5>2 DEF Drifted
          <6>2. after = [f.row EXCEPT !.text = f.text]
            BY <3>1, <4>2, <5>2, <6>1 DEF Reconciled, Stale
          <6>3. after \in Alert /\ after.text = f.text
            BY <1>5, <3>1, <5>1, <6>1, <6>2 DEF Alert
          <6> QED BY <6>3, NobodyAssumption
        <5>3. CASE ~Drifted(f.row, f.text)
          BY <3>1, <4>2, <5>1, <5>3 DEF Reconciled, Stale, Drifted, Alert
        <5> QED BY <5>2, <5>3
      <4> QED BY <4>1, <4>2
    <3> HIDE DEF after
    <3> QED BY <1>4, <3>2, <3>3 DEF Heals
  <2>4. e \in current' => f.alone
    BY <1>1, <1>2
  <2> QED BY <2>2, <2>3, <2>4 DEF AuditHeals, Heals
<1> QED BY <1>7, <1>8, <1>9 DEF AuditInv

LEMMA AuditInvStep == AuditInv /\ [AuditNext]_auditVars => AuditInv'
<1> SUFFICES ASSUME AuditInv, [AuditNext]_auditVars PROVE AuditInv'
  OBVIOUS
<1>1. CASE UNCHANGED auditVars
  BY <1>1 DEF auditVars, facts, AuditInv, AuditTypeOK, FreshAll, Fresh, ValueFits, TextAfter,
              AuditHeals, Deserved
<1>2. CASE AuditNext
  BY <1>2, EditFactsKeeps, ChangeReferenceKeeps, SnapshotEntryKeeps, ReadRowsKeeps,
     WriteAlertsKeeps, AbortAuditKeeps, JudgeKeeps DEF AuditNext
<1> QED BY <1>1, <1>2

LEMMA AuditInvAlways == AuditSpec => []AuditInv
BY AuditInvInit, AuditInvStep, PTL DEF AuditSpec

\* The rows, the facts and every audit stay in their type.
THEOREM AuditTypeCorrect == AuditSpec => []AuditTypeOK
<1>1. AuditInv => AuditTypeOK
  BY DEF AuditInv
<1> QED BY AuditInvAlways, <1>1, PTL

\* Whatever overlapping, failing and dying audits have left, an audit that
\* nothing disturbs leaves the alert the rules give, or a decided one.
THEOREM AuditHealsAlways == AuditSpec => []AuditHeals
<1>1. AuditInv => AuditHeals
  BY DEF AuditInv
<1> QED BY AuditInvAlways, <1>1, PTL

\* Audits leave resolved and dismissed rows alone, but for the row an audit had
\* read while it was open.
THEOREM JudgmentStandsAlways == AuditSpec => JudgmentStands
<1> DEFINE Stands == \A e \in Audited :
      (/\ alert[e] # Nobody /\ alert[e].status # "open" /\ alert'[e] # alert[e]
       /\ judgments' = judgments) =>
        \E a \in Auditors : At(a, e) /\ auditor[a].pc = "rows" /\ auditor[a].row # Nobody
                              /\ auditor[a].row.status = "open"
                              /\ auditor[a].row.id = alert[e].id
<1>1. ASSUME AuditTypeOK, [AuditNext]_auditVars PROVE [Stands]_auditVars
  <2> SUFFICES ASSUME NEW e \in Audited, alert[e] # Nobody, alert[e].status # "open",
                      alert'[e] # alert[e], judgments' = judgments
               PROVE  \E a \in Auditors : At(a, e) /\ auditor[a].pc = "rows"
                        /\ auditor[a].row # Nobody /\ auditor[a].row.status = "open"
                        /\ auditor[a].row.id = alert[e].id
    OBVIOUS
  <2>1. ASSUME NEW d \in Audited, Judge(d) PROVE FALSE
    BY <1>1, <2>1 DEF Judge, AuditTypeOK
  <2>2. PICK a \in Auditors : WriteAlerts(a)
    BY <1>1, <2>1
       DEF AuditNext, auditVars, EditFacts, ChangeReference, SnapshotEntry, ReadRows, AbortAudit
  <2>3. /\ auditor[a].pc = "rows"
        /\ ~KeyTaken(auditor[a].entry, auditor[a].row, auditor[a].text)
        /\ alert' = [alert EXCEPT ![auditor[a].entry] =
             Reconciled(auditor[a].entry, auditor[a].row, auditor[a].text, births + 1)]
    BY <2>2 DEF WriteAlerts
  <2>4. auditor[a].entry = e /\ alert'[e] = Reconciled(e, auditor[a].row, auditor[a].text, births + 1)
    BY <1>1, <2>3 DEF AuditTypeOK
  <2>5. auditor[a].row # Nobody
    BY <2>3, <2>4 DEF KeyTaken, Reconciled
  <2>6. auditor[a].row.id = alert[e].id /\ auditor[a].row.status = "open"
    BY <2>4, <2>5 DEF Reconciled, Stale, Drifted
  <2> QED BY <2>3, <2>4, <2>5, <2>6 DEF At
<1> QED BY AuditTypeCorrect, <1>1, PTL DEF AuditSpec, JudgmentStands

-----------------------------------------------------------------------------
(* AgentTurn: a conversation has one turn.                                 *)

Turn == [pc : {"waiting", "claimed", "read", "asking", "settling", "over"},
         next : Nat, fresh : Seq(Message)]

\* While no living turn's lock has passed the cutoff, the lock is held as long
\* as a turn runs: nobody but the turn that took it releases it.
LockHeld == outlived \/ (Running # {} => turnLock = "held")

\* Only a turn that runs has something left to store.
FreshHeld == \A t \in Turns : turn[t].fresh # <<>> => t \in Running

TurnInv == TurnTypeOK /\ OneTurn /\ LockHeld /\ FreshHeld

LEMMA MessageTypes ==
  /\ Question \in Message
  /\ \A calls \in SUBSET Calls : Answer(calls) \in Message /\ Results(calls) \in Message
BY DEF Question, Answer, Results, Message

LEMMA NewCallsAreCalls == NewCalls \subseteq Calls
<1>1. CASE Calls \subseteq CallsMade
  BY <1>1 DEF NewCalls
<1>2. CASE ~(Calls \subseteq CallsMade)
  <2>1. \E c \in Calls : c \notin CallsMade
    BY <1>2
  <2> QED BY <1>2, <2>1 DEF NewCalls
<1> QED BY <1>1, <1>2

LEMMA FailsCounted ==
  ASSUME NEW n \in 0..MaxFails, n < MaxFails
  PROVE  n + 1 \in 0..MaxFails
BY CallsAssumption

LEMMA TurnInvInit == TurnInit => TurnInv
<1> SUFFICES ASSUME TurnInit PROVE TurnInv
  OBVIOUS
<1>1. TurnTypeOK
  <2>1. MaxFails \in Nat /\ 0 \in 0..MaxFails /\ <<>> \in Seq(Message)
    BY CallsAssumption
  <2> QED BY <2>1 DEF TurnInit, TurnTypeOK, Waiting
<1>2. Running = {}
  BY DEF TurnInit, Running, Waiting
<1>3. FreshHeld
  BY DEF TurnInit, FreshHeld, Waiting
<1> QED BY <1>1, <1>2, <1>3 DEF TurnInv, OneTurn, LockHeld

\* A step of one turn that runs and keeps its lock, or ends without releasing it.
LEMMA StepKeeps ==
  ASSUME TurnInv, NEW t \in Turns, t \in Running, NEW after \in Turn,
         after.fresh # <<>> => after.pc \in {"claimed", "read", "asking", "settling"},
         turn' = [turn EXCEPT ![t] = after],
         messages' \in Seq(Message), UNCHANGED <<turnLock, outlived>>, fails' \in 0..MaxFails
  PROVE  TurnInv'
<1>1. TurnTypeOK'
  BY DEF TurnInv, TurnTypeOK, Turn
<1>2. Running' \subseteq Running
  BY DEF TurnInv, TurnTypeOK, Running
<1>3. FreshHeld'
  BY DEF TurnInv, TurnTypeOK, FreshHeld, Running
<1> QED BY <1>1, <1>2, <1>3 DEF TurnInv, OneTurn, LockHeld

LEMMA TurnInvStep == TurnInv /\ [TurnNext]_turnVars => TurnInv'
<1> SUFFICES ASSUME TurnInv, [TurnNext]_turnVars PROVE TurnInv'
  OBVIOUS
<1>0. /\ turn \in [Turns -> Turn] /\ messages \in Seq(Message) /\ fails \in 0..MaxFails
      /\ fails \in Nat /\ MaxFails \in Nat
  BY CallsAssumption DEF TurnInv, TurnTypeOK, Turn
<1>1. ASSUME NEW t \in Turns, ClaimTurn(t) PROVE TurnInv'
  <2>1. turnLock # "held"
    BY <1>1 DEF ClaimTurn, Claimable
  <2>2. turn' = [turn EXCEPT ![t] = [turn[t] EXCEPT !.pc = "claimed"]] /\ turn' \in [Turns -> Turn]
    BY <1>0, <1>1 DEF ClaimTurn, Turn
  <2>3. Running' = Running \cup {t}
    BY <1>0, <2>2 DEF Running, Turn
  <2>4. TurnTypeOK'
    BY <1>1, <2>2 DEF ClaimTurn, TurnInv, TurnTypeOK, Turn
  <2>5. outlived \/ Running = {}
    BY <2>1 DEF TurnInv, LockHeld
  <2>6. FreshHeld'
    BY <1>0, <1>1, <2>2, <2>3 DEF ClaimTurn, TurnInv, FreshHeld, Turn
  <2> QED BY <1>1, <2>3, <2>4, <2>5, <2>6 DEF ClaimTurn, TurnInv, OneTurn, LockHeld
<1>2. ASSUME NEW t \in Turns, Settle(t) PROVE TurnInv'
  <2>1. t \in Running
    BY <1>2 DEF Settle, Running
  <2>2. turn' = [turn EXCEPT ![t] = [turn[t] EXCEPT !.pc = "over"]] /\ turn' \in [Turns -> Turn]
    BY <1>0, <1>2 DEF Settle, Turn
  <2>3. Running' = Running \ {t}
    BY <1>0, <2>2 DEF Running, Turn
  <2>4. TurnTypeOK'
    BY <1>2, <2>2 DEF Settle, TurnInv, TurnTypeOK, Turn
  <2>5. outlived \/ Running' = {}
    BY <2>1, <2>3 DEF TurnInv, OneTurn
  <2>6. FreshHeld'
    BY <1>0, <1>2, <2>2, <2>3 DEF Settle, TurnInv, FreshHeld, Turn
  <2> QED BY <1>2, <2>3, <2>4, <2>5, <2>6 DEF Settle, TurnInv, OneTurn, LockHeld
<1>3. ASSUME NEW t \in Turns,
             \/ ReadTranscript(t) \/ SaveQuestion(t) \/ Ask(t) \/ SaveFresh(t)
             \/ CutOff(t) \/ SeqTaken(t) \/ CrashTurn(t)
      PROVE  TurnInv'
  <2>0. t \in Running
    BY <1>3
       DEF ReadTranscript, SaveQuestion, Ask, SaveFresh, CutOff, SeqTaken, CrashTurn, Running,
           TurnInv, FreshHeld
  <2>1. fails' \in 0..MaxFails /\ UNCHANGED <<turnLock, outlived>>
    <3>1. CASE CutOff(t) \/ CrashTurn(t)
      <4>1. fails < MaxFails /\ fails' = fails + 1 /\ UNCHANGED <<turnLock, outlived>>
        BY <3>1 DEF CutOff, CrashTurn
      <4> QED BY <1>0, <4>1, FailsCounted
    <3>2. CASE ReadTranscript(t) \/ SaveQuestion(t) \/ Ask(t) \/ SaveFresh(t) \/ SeqTaken(t)
      <4>1. UNCHANGED <<turnLock, outlived, fails>>
        BY <3>2 DEF ReadTranscript, SaveQuestion, Ask, SaveFresh, SeqTaken
      <4> QED BY <1>0, <4>1
    <3> QED BY <1>3, <3>1, <3>2
  <2>2. turn[t] \in Turn /\ <<>> \in Seq(Message)
    BY <1>0
  <2>3. ASSUME NEW after \in Turn, turn' = [turn EXCEPT ![t] = after], messages' \in Seq(Message),
               after.fresh # <<>> => after.pc \in {"claimed", "read", "asking", "settling"}
        PROVE  TurnInv'
    BY <2>0, <2>1, <2>3, StepKeeps
  <2>4. CASE ReadTranscript(t)
    <3>1. turn' = [turn EXCEPT ![t] = [turn[t] EXCEPT !.pc = "read", !.next = Len(messages) + 1]]
      BY <2>4 DEF ReadTranscript
    <3>2. [turn[t] EXCEPT !.pc = "read", !.next = Len(messages) + 1] \in Turn
      <4>1. Len(messages) + 1 \in Nat
        BY <1>0
      <4> HIDE <1>0
      <4> QED BY <2>2, <4>1 DEF Turn
    <3>3. [turn[t] EXCEPT !.pc = "read", !.next = Len(messages) + 1].pc = "read"
      BY <2>2 DEF Turn
    <3> QED BY <1>0, <2>3, <2>4, <3>1, <3>2, <3>3 DEF ReadTranscript
  <2>5. CASE SaveQuestion(t)
    <3>1. turn' = [turn EXCEPT ![t] = [turn[t] EXCEPT !.pc = "asking", !.next = turn[t].next + 1]]
      BY <2>2, <2>5 DEF SaveQuestion, Turn
    <3>2. [turn[t] EXCEPT !.pc = "asking", !.next = turn[t].next + 1] \in Turn
      <4>1. turn[t].next + 1 \in Nat
        BY <2>2 DEF Turn
      <4> QED BY <2>2, <4>1 DEF Turn
    <3>3. [turn[t] EXCEPT !.pc = "asking", !.next = turn[t].next + 1].pc = "asking"
      BY <2>2 DEF Turn
    <3>4. messages' \in Seq(Message)
      BY <1>0, <2>5, MessageTypes DEF SaveQuestion
    <3> QED BY <2>3, <3>1, <3>2, <3>3, <3>4
  <2>6. CASE Ask(t)
    <3>1. messages' \in Seq(Message) /\ turn[t].pc = "asking"
      BY <1>0, <2>6 DEF Ask
    <3>2. ASSUME NEW c \in NewCalls, turn' = [turn EXCEPT ![t].fresh = <<Answer({c}), Results({c})>>]
          PROVE  TurnInv'
      <4>1. <<Answer({c}), Results({c})>> \in Seq(Message)
        BY NewCallsAreCalls, MessageTypes
      <4>2. turn' = [turn EXCEPT ![t] = [turn[t] EXCEPT !.fresh = <<Answer({c}), Results({c})>>]]
        BY <3>2
      <4>3. /\ [turn[t] EXCEPT !.fresh = <<Answer({c}), Results({c})>>] \in Turn
            /\ [turn[t] EXCEPT !.fresh = <<Answer({c}), Results({c})>>].pc = "asking"
        BY <2>2, <3>1, <4>1 DEF Turn
      <4> QED BY <2>3, <3>1, <4>2, <4>3
    <3>3. ASSUME turn' = [turn EXCEPT ![t] = [turn[t] EXCEPT !.pc = "settling", !.fresh = <<Answer({})>>]]
          PROVE  TurnInv'
      <4>1. <<Answer({})>> \in Seq(Message)
        BY MessageTypes
      <4>2. /\ [turn[t] EXCEPT !.pc = "settling", !.fresh = <<Answer({})>>] \in Turn
            /\ [turn[t] EXCEPT !.pc = "settling", !.fresh = <<Answer({})>>].pc = "settling"
        BY <2>2, <4>1 DEF Turn
      <4> QED BY <2>3, <3>1, <3>3, <4>2
    <3> QED BY <2>6, <3>2, <3>3 DEF Ask
  <2>7. CASE SaveFresh(t)
    <3>1. turn' = [turn EXCEPT ![t] = [turn[t] EXCEPT !.next = turn[t].next + Len(turn[t].fresh),
                                                      !.fresh = <<>>]]
      BY <2>2, <2>7 DEF SaveFresh, Turn
    <3>2. turn[t].fresh \in Seq(Message) /\ Len(turn[t].fresh) \in Nat /\ turn[t].next \in Nat
      BY <2>2 DEF Turn
    <3>3. /\ [turn[t] EXCEPT !.next = turn[t].next + Len(turn[t].fresh), !.fresh = <<>>] \in Turn
          /\ [turn[t] EXCEPT !.next = turn[t].next + Len(turn[t].fresh), !.fresh = <<>>].fresh = <<>>
      <4>1. turn[t].next + Len(turn[t].fresh) \in Nat
        BY <3>2
      <4> QED BY <2>2, <4>1 DEF Turn
    <3>4. messages' \in Seq(Message)
      BY <1>0, <2>7, <3>2 DEF SaveFresh
    <3> QED BY <2>3, <3>1, <3>3, <3>4
  <2>8. CASE CutOff(t)
    <3>1. messages' \in Seq(Message)
      BY <1>0, <2>8 DEF CutOff
    <3>2. ASSUME turn' = [turn EXCEPT ![t].pc = "settling"] PROVE TurnInv'
      <4>1. turn' = [turn EXCEPT ![t] = [turn[t] EXCEPT !.pc = "settling"]]
        BY <3>2
      <4>2. /\ [turn[t] EXCEPT !.pc = "settling"] \in Turn
            /\ [turn[t] EXCEPT !.pc = "settling"].pc = "settling"
        BY <2>2 DEF Turn
      <4> QED BY <2>3, <3>1, <4>1, <4>2
    <3>3. ASSUME NEW c \in NewCalls,
                 turn' = [turn EXCEPT ![t] = [turn[t] EXCEPT !.pc = "settling", !.fresh = <<Answer({c})>>]]
          PROVE  TurnInv'
      <4>1. <<Answer({c})>> \in Seq(Message)
        BY NewCallsAreCalls, MessageTypes
      <4>2. /\ [turn[t] EXCEPT !.pc = "settling", !.fresh = <<Answer({c})>>] \in Turn
            /\ [turn[t] EXCEPT !.pc = "settling", !.fresh = <<Answer({c})>>].pc = "settling"
        BY <2>2, <4>1 DEF Turn
      <4> QED BY <2>3, <3>1, <3>3, <4>2
    <3> QED BY <2>8, <3>2, <3>3 DEF CutOff
  <2>9. CASE SeqTaken(t)
    <3>1. turn' = [turn EXCEPT ![t] = [turn[t] EXCEPT !.pc = "settling", !.fresh = <<>>]]
      BY <2>9 DEF SeqTaken
    <3>2. /\ [turn[t] EXCEPT !.pc = "settling", !.fresh = <<>>] \in Turn
          /\ [turn[t] EXCEPT !.pc = "settling", !.fresh = <<>>].fresh = <<>>
      BY <2>2 DEF Turn
    <3> QED BY <1>0, <2>3, <2>9, <3>1, <3>2 DEF SeqTaken
  <2>10. CASE CrashTurn(t)
    <3>1. turn' = [turn EXCEPT ![t] = [turn[t] EXCEPT !.pc = "over", !.fresh = <<>>]]
      BY <2>10 DEF CrashTurn
    <3>2. /\ [turn[t] EXCEPT !.pc = "over", !.fresh = <<>>] \in Turn
          /\ [turn[t] EXCEPT !.pc = "over", !.fresh = <<>>].fresh = <<>>
      BY <2>2 DEF Turn
    <3> QED BY <1>0, <2>3, <2>10, <3>1, <3>2 DEF CrashTurn
  <2> QED BY <1>3, <2>4, <2>5, <2>6, <2>7, <2>8, <2>9, <2>10
<1>4. CASE PassCutoff
  <2>1. TurnTypeOK'
    <3>1. fails' \in 0..MaxFails /\ outlived' \in BOOLEAN
      <4>1. outlived \in BOOLEAN
        BY DEF TurnInv, TurnTypeOK
      <4>2. CASE Running = {}
        BY <1>0, <1>4, <4>1, <4>2 DEF PassCutoff
      <4>3. CASE Running # {}
        <5>1. fails < MaxFails /\ fails' = fails + 1 /\ outlived' = TRUE
          BY <1>4, <4>3 DEF PassCutoff
        <5> QED BY <1>0, <5>1, FailsCounted
      <4> QED BY <4>2, <4>3
    <3> QED BY <1>4, <3>1 DEF PassCutoff, TurnInv, TurnTypeOK
  <2>2. Running' = Running
    BY <1>4 DEF PassCutoff, Running
  <2> QED BY <1>4, <2>1, <2>2 DEF PassCutoff, TurnInv, OneTurn, LockHeld, FreshHeld
<1>5. CASE UNCHANGED turnVars
  BY <1>5 DEF turnVars, TurnInv, TurnTypeOK, OneTurn, LockHeld, FreshHeld, Running
<1> QED BY <1>1, <1>2, <1>3, <1>4, <1>5 DEF TurnNext

\* The lock, the transcript and every turn stay in their type.
THEOREM TurnTypeCorrect == TurnSpec => []TurnTypeOK
<1>1. TurnInv => TurnTypeOK
  BY DEF TurnInv
<1> QED BY TurnInvInit, TurnInvStep, <1>1, PTL DEF TurnSpec

\* "One turn per conversation", for any number of requests, crashes and turns
\* cut off, as long as no living turn has outlived its lock.
THEOREM OneTurnAlways == TurnSpec => []OneTurn
<1>1. TurnInv => OneTurn
  BY DEF TurnInv
<1> QED BY TurnInvInit, TurnInvStep, <1>1, PTL DEF TurnSpec

-----------------------------------------------------------------------------
(* AgentTurn: the transcript that is sent, by induction over the rows.     *)

\* What the recursive function in Repair is, up to n.
Prefixes(f, s, n) == f = [i \in 0..n |-> IF i = 0 THEN <<>> ELSE f[i - 1] \o Rebuilt(s, i)]

\* That function exists, by induction on its domain.
LEMMA RepairExists ==
  ASSUME NEW s, Len(s) \in Nat
  PROVE  \E f : Prefixes(f, s, Len(s)) /\ Repair(s) = f[Len(s)]
<1> DEFINE N == Len(s)
           G == {n \in 0..N : \E f : Prefixes(f, s, n)}
<1>1. 0 \in G
  <2> DEFINE g == [i \in 0..0 |-> <<>>]
  <2>1. g = [i \in 0..0 |-> IF i = 0 THEN <<>> ELSE g[i - 1] \o Rebuilt(s, i)]
    BY 0..0 = {0}
  <2>2. Prefixes(g, s, 0)
    BY <2>1 DEF Prefixes
  <2> HIDE DEF g
  <2> QED BY <2>2
<1>2. ASSUME NEW n \in 1..N, n - 1 \in G PROVE n \in G
  <2>1. PICK f : Prefixes(f, s, n - 1)
    BY <1>2
  <2> DEFINE g == [i \in 0..n |-> IF i < n THEN f[i] ELSE f[i - 1] \o Rebuilt(s, i)]
  <2>2. ASSUME NEW i \in 0..n
        PROVE  g[i] = IF i = 0 THEN <<>> ELSE g[i - 1] \o Rebuilt(s, i)
    <3>1. CASE i < n
      <4>1. i \in 0..(n - 1)
        BY <3>1
      <4>2. f[i] = IF i = 0 THEN <<>> ELSE f[i - 1] \o Rebuilt(s, i)
        BY <2>1, <4>1 DEF Prefixes
      <4> QED BY <3>1, <4>2
    <3>2. CASE i = n
      BY <3>2
    <3> QED BY <3>1, <3>2
  <2>3. Prefixes(g, s, n)
    <3>1. g = [i \in 0..n |-> g[i]]
      OBVIOUS
    <3> HIDE DEF g
    <3> QED BY <2>2, <3>1 DEF Prefixes
  <2> HIDE DEF g
  <2> QED BY <2>3
<1>3. N \in G
  <2> HIDE DEF G
  <2>1. N \in Nat /\ N \in 0..N
    OBVIOUS
  <2>2. \A n \in 0..N : n \in G
    BY <1>1, <1>2, <2>1, UpTo
  <2> QED BY <2>1, <2>2
<1> DEFINE h == CHOOSE f : Prefixes(f, s, N)
<1>4. Prefixes(h, s, N)
  BY <1>3
<1>5. Repair(s) = h[N]
  <2>1. h = CHOOSE f : f = [i \in 0..Len(s) |-> IF i = 0 THEN <<>> ELSE f[i - 1] \o Rebuilt(s, i)]
    BY DEF Prefixes
  <2> QED BY <2>1 DEF Repair
<1> QED BY <1>4, <1>5

\* In the rows, results answer the message before them and no other.
Paired(s) ==
  \A i \in 1..Len(s) :
    /\ s[i].role = "user" => s[i].uses = {} /\ s[i].answers \subseteq UsesBefore(s, i)
    /\ s[i].role = "assistant" => s[i].answers = {}

\* In the transcript, every message answers what the one before it uses.
Chained(w, before, after) ==
  /\ w \in Seq(Message) /\ w # <<>>
  /\ w[1].answers = before /\ w[Len(w)].uses = after
  /\ \A i \in 1..(Len(w) - 1) : w[i + 1].answers = w[i].uses

\* What the rows up to n leave to the next one to answer.
LeftOpen(s, n) == IF n \in 1..(Len(s) - 1) /\ s[n + 1].role = "user" THEN s[n].uses ELSE {}

LEMMA ChainsJoin ==
  ASSUME NEW u, NEW v, NEW a, NEW b, NEW c, Chained(u, a, b), Chained(v, b, c)
  PROVE  Chained(u \o v, a, c)
<1> DEFINE w == u \o v
<1>1. /\ u \in Seq(Message) /\ v \in Seq(Message) /\ Len(u) \in Nat \ {0} /\ Len(v) \in Nat \ {0}
      /\ u[1].answers = a /\ u[Len(u)].uses = b /\ v[1].answers = b /\ v[Len(v)].uses = c
  BY DEF Chained
<1>2. /\ w \in Seq(Message) /\ Len(w) = Len(u) + Len(v)
      /\ \A i \in 1..Len(u) : w[i] = u[i]
      /\ \A i \in 1..Len(v) : w[Len(u) + i] = v[i]
  BY <1>1
<1> HIDE DEF w
<1>3. w # <<>> /\ w[1].answers = a /\ w[Len(w)].uses = c
  BY <1>1, <1>2
<1>4. ASSUME NEW i \in 1..(Len(w) - 1) PROVE w[i + 1].answers = w[i].uses
  <2>1. CASE i < Len(u)
    <3>1. i \in 1..(Len(u) - 1) /\ i + 1 \in 1..Len(u) /\ i \in 1..Len(u)
      BY <1>1, <2>1
    <3> QED BY <1>2, <3>1 DEF Chained
  <2>2. CASE i = Len(u)
    <3>1. w[i] = u[i] /\ w[i + 1] = v[1]
      BY <1>1, <1>2, <2>2
    <3> QED BY <1>1, <2>2, <3>1
  <2>3. CASE i > Len(u)
    <3>1. PICK j \in 1..(Len(v) - 1) : i = Len(u) + j
      <4>1. i - Len(u) \in 1..(Len(v) - 1) /\ i = Len(u) + (i - Len(u))
        BY <1>1, <1>2, <2>3
      <4> QED BY <4>1
    <3>2. w[i] = v[j]
      BY <1>1, <1>2, <3>1
    <3>3. j + 1 \in 1..Len(v) /\ i + 1 = Len(u) + (j + 1)
      BY <1>1, <3>1
    <3>4. w[i + 1] = v[j + 1]
      BY <1>2, <3>3
    <3> QED BY <3>1, <3>2, <3>4 DEF Chained
  <2> QED BY <1>1, <2>1, <2>2, <2>3
<1> QED BY <1>2, <1>3, <1>4 DEF Chained, w

LEMMA OneMessage ==
  ASSUME NEW m \in Message
  PROVE  Chained(<<m>>, m.answers, m.uses)
<1> DEFINE w == <<m>>
<1>1. w \in Seq(Message) /\ Len(w) = 1 /\ w[1] = m /\ w # <<>>
  OBVIOUS
<1> HIDE DEF w
<1>2. Chained(w, m.answers, m.uses)
  BY <1>1 DEF Chained
<1> QED BY <1>2 DEF w

LEMMA TwoMessages ==
  ASSUME NEW m \in Message, NEW r \in Message, r.answers = m.uses
  PROVE  Chained(<<m, r>>, m.answers, r.uses)
<1> DEFINE w == <<m, r>>
<1>1. w \in Seq(Message) /\ Len(w) = 2 /\ w[1] = m /\ w[2] = r /\ w # <<>>
  OBVIOUS
<1> HIDE DEF w
<1>2. ASSUME NEW i \in 1..(Len(w) - 1) PROVE w[i + 1].answers = w[i].uses
  <2>1. i = 1 /\ i + 1 = 2
    BY <1>1
  <2> QED BY <1>1, <2>1
<1>3. Chained(w, m.answers, r.uses)
  BY <1>1, <1>2 DEF Chained
<1> QED BY <1>3 DEF w

\* What a row is rebuilt to answers what the rows before it leave.
LEMMA RebuiltChained ==
  ASSUME NEW s \in Seq(Message), Paired(s), NEW n \in 1..Len(s)
  PROVE  Chained(Rebuilt(s, n), LeftOpen(s, n - 1), LeftOpen(s, n))
<1>1. /\ s[n] \in Message /\ Len(s) \in Nat
      /\ n < Len(s) => s[n + 1] \in Message
      /\ n > 1 => s[n - 1] \in Message
  OBVIOUS
<1>2. \A m \in Message : /\ m.role \in {"user", "assistant"}
                         /\ m.uses \in SUBSET Calls /\ m.answers \in SUBSET Calls
  BY DEF Message
<1>3. CASE s[n].role = "user"
  <2> DEFINE m == [s[n] EXCEPT !.answers = s[n].answers \cup UsesBefore(s, n)]
  <2>1. s[n].uses = {} /\ s[n].answers \subseteq UsesBefore(s, n)
    BY <1>3 DEF Paired
  <2>2. UsesBefore(s, n) = LeftOpen(s, n - 1) /\ UsesBefore(s, n) \in SUBSET Calls /\ LeftOpen(s, n) = {}
    BY <1>1, <1>2, <1>3, <2>1 DEF UsesBefore, LeftOpen
  <2>3. /\ m \in Message /\ m.uses = {} /\ m.answers = s[n].answers \cup UsesBefore(s, n)
    <3>1. s[n].answers \cup UsesBefore(s, n) \in SUBSET Calls
      BY <1>1, <1>2, <2>2
    <3> QED BY <1>1, <2>1, <3>1 DEF Message
  <2>4. Rebuilt(s, n) = <<m>>
    BY <1>3 DEF Rebuilt
  <2> HIDE DEF m
  <2>5. m.answers = LeftOpen(s, n - 1) /\ m.uses = LeftOpen(s, n)
    BY <2>1, <2>2, <2>3
  <2> QED BY <2>3, <2>4, <2>5, OneMessage
<1>4. CASE s[n].role = "assistant"
  <2>1. s[n].answers = {} /\ LeftOpen(s, n - 1) = {}
    BY <1>1, <1>4 DEF Paired, LeftOpen
  <2>2. CASE s[n].uses # {} /\ Unanswered(s, n)
    <3> DEFINE r == Results(s[n].uses)
    <3>1. Rebuilt(s, n) = <<s[n], r>>
      BY <1>4, <2>2 DEF Rebuilt
    <3>2. LeftOpen(s, n) = {}
      <4>1. CASE n = Len(s)
        BY <1>1, <4>1 DEF LeftOpen
      <4>2. CASE s[n + 1].role = "assistant"
        BY <4>2 DEF LeftOpen
      <4> QED BY <2>2, <4>1, <4>2 DEF Unanswered
    <3>3. r \in Message /\ r.uses = {} /\ r.answers = s[n].uses
      BY <1>1, <1>2 DEF Results, Message
    <3> HIDE DEF r
    <3>4. Chained(<<s[n], r>>, s[n].answers, r.uses)
      BY <1>1, <3>3, TwoMessages
    <3> QED BY <2>1, <3>1, <3>2, <3>3, <3>4
  <2>3. CASE ~(s[n].uses # {} /\ Unanswered(s, n))
    <3>1. Rebuilt(s, n) = <<s[n]>>
      BY <1>4, <2>3 DEF Rebuilt
    <3>2. LeftOpen(s, n) = s[n].uses
      <4>1. CASE s[n].uses = {}
        BY <4>1 DEF LeftOpen
      <4>2. CASE ~Unanswered(s, n)
        <5>1. n \in 1..(Len(s) - 1)
          BY <1>1, <4>2 DEF Unanswered
        <5>2. s[n + 1].role # "assistant" /\ s[n + 1] \in Message
          BY <1>1, <4>2, <5>1 DEF Unanswered
        <5> QED BY <1>2, <5>1, <5>2 DEF LeftOpen
      <4> QED BY <2>3, <4>1, <4>2
    <3>3. Chained(<<s[n]>>, s[n].answers, s[n].uses)
      BY <1>1, OneMessage
    <3> QED BY <2>1, <3>1, <3>2, <3>3
  <2> QED BY <2>2, <2>3
<1> QED BY <1>1, <1>2, <1>3, <1>4

\* Every tool_use of the rebuilt transcript is answered, and nothing else is.
LEMMA RepairChained ==
  ASSUME NEW s \in Seq(Message), Paired(s), s # <<>>
  PROVE  Chained(Repair(s), {}, {})
<1> DEFINE N == Len(s)
<1>1. N \in Nat \ {0}
  OBVIOUS
<1>2. PICK f : Prefixes(f, s, N) /\ Repair(s) = f[N]
  BY <1>1, RepairExists
<1> DEFINE G == {n \in 0..N : n = 0 \/ Chained(f[n], {}, LeftOpen(s, n))}
<1>3. ASSUME NEW n \in 1..N, n - 1 \in G PROVE n \in G
  <2>1. Chained(Rebuilt(s, n), LeftOpen(s, n - 1), LeftOpen(s, n))
    BY RebuiltChained
  <2>2. f[n] = f[n - 1] \o Rebuilt(s, n)
    <3>1. n \in 0..N /\ n # 0
      BY <1>1
    <3>2. f = [i \in 0..N |-> IF i = 0 THEN <<>> ELSE f[i - 1] \o Rebuilt(s, i)]
      BY <1>2 DEF Prefixes
    <3> HIDE DEF N
    <3> QED BY <3>1, <3>2
  <2>3. Chained(f[n], {}, LeftOpen(s, n))
    <3>1. CASE n = 1
      <4>1. LeftOpen(s, n - 1) = {}
        BY <3>1 DEF LeftOpen
      <4>2. f[n - 1] = <<>>
        BY <1>1, <1>2, <3>1 DEF Prefixes
      <4>3. Rebuilt(s, n) \in Seq(Message)
        BY <2>1 DEF Chained
      <4>4. f[n] = Rebuilt(s, n)
        BY <2>2, <4>2, <4>3
      <4> QED BY <2>1, <4>1, <4>4
    <3>2. CASE n # 1
      <4>1. Chained(f[n - 1], {}, LeftOpen(s, n - 1))
        BY <1>3, <3>2
      <4>2. Chained(f[n - 1] \o Rebuilt(s, n), {}, LeftOpen(s, n))
        BY <2>1, <4>1, ChainsJoin
      <4> QED BY <2>2, <4>2
    <3> QED BY <3>1, <3>2
  <2> QED BY <1>1, <2>3
<1>4. \A n \in 0..N : n \in G
  <2>1. 0 \in G
    BY <1>1
  <2> HIDE DEF G
  <2> QED BY <1>1, <1>3, <2>1, UpTo
<1>5. Chained(f[N], {}, LeftOpen(s, N)) /\ LeftOpen(s, N) = {}
  BY <1>1, <1>4 DEF LeftOpen
<1> QED BY <1>2, <1>5

LEMMA WireAccepted ==
  ASSUME NEW s \in Seq(Message), Paired(s)
  PROVE  Accepted(Wire(s))
<1> DEFINE w == Repair(s)
<1>1. Question.uses = {} /\ Question.answers = {}
  BY DEF Question
<1>2. CASE s = <<>>
  <2>1. w = <<>>
    <3>1. Len(s) = 0
      BY <1>2
    <3>2. PICK f : Prefixes(f, s, Len(s)) /\ w = f[Len(s)]
      BY <3>1, RepairExists
    <3> QED BY <3>1, <3>2 DEF Prefixes
  <2>2. Wire(s) = <<Question>>
    BY <2>1 DEF Wire
  <2> QED BY <1>1, <2>2 DEF Accepted
<1>3. CASE s # <<>>
  <2>1. Chained(w, {}, {})
    BY <1>3, RepairChained
  <2>2. Wire(s) = w \/ Wire(s) = Append(w, Question)
    BY DEF Wire
  <2> HIDE DEF w
  <2>3. w \in Seq(Message) /\ Len(w) \in Nat \ {0} /\ w[1].answers = {} /\ w[Len(w)].uses = {}
    BY <2>1 DEF Chained
  <2>4. ASSUME NEW i \in 1..Len(w)
        PROVE  /\ w[i].uses # {} => i < Len(w) /\ w[i].uses \subseteq w[i + 1].answers
               /\ w[i].answers # {} => i > 1 /\ w[i].answers \subseteq w[i - 1].uses
    <3>1. i < Len(w) => w[i + 1].answers = w[i].uses
      BY <2>1, <2>3 DEF Chained
    <3>2. i > 1 => w[i].answers = w[i - 1].uses
      <4> SUFFICES ASSUME i > 1 PROVE w[i].answers = w[i - 1].uses
        OBVIOUS
      <4>1. i - 1 \in 1..(Len(w) - 1) /\ (i - 1) + 1 = i
        BY <2>3
      <4> QED BY <2>1, <4>1 DEF Chained
    <3>3. i = Len(w) \/ i < Len(w)
      BY <2>3
    <3>4. i = 1 \/ i > 1
      OBVIOUS
    <3> QED BY <2>3, <3>1, <3>2, <3>3, <3>4
  <2>5. CASE Wire(s) = w
    BY <2>3, <2>4, <2>5 DEF Accepted
  <2>6. CASE Wire(s) = Append(w, Question)
    <3> DEFINE v == Append(w, Question)
    <3>1. /\ Len(v) = Len(w) + 1 /\ DOMAIN v = 1..(Len(w) + 1)
          /\ \A i \in 1..Len(w) : v[i] = w[i]
          /\ v[Len(w) + 1] = Question
      BY <2>3
    <3> HIDE DEF v
    <3>2. ASSUME NEW i \in 1..(Len(w) + 1)
          PROVE  /\ v[i].uses # {} => i < Len(v) /\ v[i].uses \subseteq v[i + 1].answers
                 /\ v[i].answers # {} => i > 1 /\ v[i].answers \subseteq v[i - 1].uses
      <4>1. CASE i = Len(w) + 1
        BY <1>1, <3>1, <4>1
      <4>2. CASE i \in 1..Len(w)
        <5>1. v[i] = w[i] /\ i < Len(v)
          BY <2>3, <3>1, <4>2
        <5>2. w[i].uses # {} => v[i + 1] = w[i + 1]
          BY <2>3, <2>4, <3>1, <4>2
        <5>3. i > 1 => v[i - 1] = w[i - 1]
          BY <2>3, <3>1, <4>2
        <5> QED BY <2>4, <4>2, <5>1, <5>2, <5>3
      <4> QED BY <2>3, <4>1, <4>2
    <3>3. Accepted(v)
      BY <3>1, <3>2 DEF Accepted
    <3> QED BY <2>6, <3>3 DEF v
  <2> QED BY <2>2, <2>5, <2>6
<1> QED BY <1>2, <1>3

LEMMA PairedJoin ==
  ASSUME NEW u \in Seq(Message), NEW v \in Seq(Message), Paired(u), Paired(v),
         v # <<>> => v[1].answers = {}
  PROVE  Paired(u \o v)
<1> DEFINE w == u \o v
<1>1. /\ Len(u) \in Nat /\ Len(v) \in Nat /\ Len(w) = Len(u) + Len(v)
      /\ \A i \in 1..Len(u) : w[i] = u[i]
      /\ \A i \in 1..Len(v) : w[Len(u) + i] = v[i]
  OBVIOUS
<1> HIDE DEF w
<1>2. ASSUME NEW i \in 1..Len(w)
      PROVE  /\ w[i].role = "user" => w[i].uses = {} /\ w[i].answers \subseteq UsesBefore(w, i)
             /\ w[i].role = "assistant" => w[i].answers = {}
  <2>1. CASE i \in 1..Len(u)
    <3>1. w[i] = u[i]
      BY <1>1, <2>1
    <3>2. UsesBefore(w, i) = UsesBefore(u, i)
      <4>1. i = 1 \/ (i - 1 \in 1..Len(u) /\ w[i - 1] = u[i - 1])
        BY <1>1, <2>1
      <4> QED BY <4>1 DEF UsesBefore
    <3> QED BY <2>1, <3>1, <3>2 DEF Paired
  <2>2. CASE i = Len(u) + 1
    <3>1. 1 \in 1..Len(v) /\ w[i] = v[1] /\ v # <<>>
      BY <1>1, <2>2
    <3> QED BY <3>1 DEF Paired
  <2>3. CASE i > Len(u) + 1
    <3>1. PICK j \in 2..Len(v) : i = Len(u) + j
      <4>1. i - Len(u) \in 2..Len(v) /\ i = Len(u) + (i - Len(u))
        BY <1>1, <2>3
      <4> QED BY <4>1
    <3>2. j \in 1..Len(v) /\ w[i] = v[j]
      BY <1>1, <3>1
    <3>3. j - 1 \in 1..Len(v) /\ i - 1 = Len(u) + (j - 1)
      BY <1>1, <3>1
    <3>4. w[i - 1] = v[j - 1]
      BY <1>1, <3>3
    <3>5. UsesBefore(w, i) = UsesBefore(v, j)
      BY <1>1, <2>3, <3>1, <3>4 DEF UsesBefore
    <3> QED BY <3>2, <3>5 DEF Paired
  <2> QED BY <1>1, <2>1, <2>2, <2>3
<1> QED BY <1>2 DEF Paired, w

\* What a turn has still to store.
Storable(s) == Paired(s) /\ (s # <<>> => s[1].answers = {})

LEMMA FreshSequences ==
  /\ Storable(<<>>) /\ Storable(<<Question>>)
  /\ \A calls \in SUBSET Calls : Storable(<<Answer(calls)>>) /\ Storable(<<Answer(calls), Results(calls)>>)
<1>1. Storable(<<>>)
  BY DEF Storable, Paired
<1>2. ASSUME NEW m, m.answers = {}, m.role = "user" => m.uses = {} PROVE Storable(<<m>>)
  <2> DEFINE s == <<m>>
  <2>1. Len(s) = 1 /\ s[1] = m
    OBVIOUS
  <2> HIDE DEF s
  <2>2. Storable(s)
    BY <1>2, <2>1 DEF Storable, Paired
  <2> QED BY <2>2 DEF s
<1>3. ASSUME NEW calls \in SUBSET Calls PROVE Storable(<<Answer(calls), Results(calls)>>)
  <2> DEFINE s == <<Answer(calls), Results(calls)>>
  <2>1. Len(s) = 2 /\ s[1] = Answer(calls) /\ s[2] = Results(calls)
    OBVIOUS
  <2> HIDE DEF s
  <2>2. UsesBefore(s, 2) = s[1].uses
    BY DEF UsesBefore
  <2>3. /\ s[1].role = "assistant" /\ s[1].answers = {} /\ s[1].uses = calls
        /\ s[2].role = "user" /\ s[2].uses = {} /\ s[2].answers = calls
    BY <2>1 DEF Answer, Results
  <2>4. 1..2 = {1, 2} /\ "user" # "assistant"
    OBVIOUS
  <2>5. Storable(s)
    BY <2>1, <2>2, <2>3, <2>4 DEF Storable, Paired
  <2> QED BY <2>5 DEF s
<1>4. /\ Question.answers = {} /\ Question.uses = {}
      /\ \A calls \in SUBSET Calls : Answer(calls).answers = {} /\ Answer(calls).role = "assistant"
  BY DEF Question, Answer
<1>5. Storable(<<Question>>)
  BY <1>2, <1>4
<1>6. ASSUME NEW calls \in SUBSET Calls PROVE Storable(<<Answer(calls)>>)
  BY <1>2, <1>4
<1> QED BY <1>1, <1>3, <1>5, <1>6

\* The rows stay paired because nobody stores a result without its use, even
\* when a turn is cut off between them or another one's rows come in between.
PairedInv == Paired(messages) /\ \A t \in Turns : Storable(turn[t].fresh)

LEMMA PairedStep == TurnInv /\ PairedInv /\ [TurnNext]_turnVars => PairedInv'
<1> SUFFICES ASSUME TurnInv, PairedInv, [TurnNext]_turnVars PROVE PairedInv'
  OBVIOUS
<1>0. turn \in [Turns -> Turn] /\ messages \in Seq(Message)
  BY DEF TurnInv, TurnTypeOK, Turn
<1>1. CASE UNCHANGED <<messages, turn>>
  BY <1>1 DEF PairedInv
<1>2. ASSUME NEW t \in Turns, NEW after, turn' = [turn EXCEPT ![t] = after], Storable(after.fresh),
             Paired(messages')
      PROVE  PairedInv'
  BY <1>0, <1>2 DEF PairedInv
<1>3. ASSUME NEW t \in Turns,
             \/ ClaimTurn(t) \/ ReadTranscript(t) \/ SaveQuestion(t) \/ Ask(t) \/ SaveFresh(t)
             \/ CutOff(t) \/ SeqTaken(t) \/ Settle(t) \/ CrashTurn(t)
      PROVE  PairedInv'
  <2>1. turn[t] \in Turn /\ Storable(turn[t].fresh) /\ Paired(messages)
    BY <1>0 DEF PairedInv
  <2>2. \A c \in NewCalls : Storable(<<Answer({c})>>) /\ Storable(<<Answer({c}), Results({c})>>)
    BY NewCallsAreCalls, FreshSequences
  <2>3. Storable(<<Answer({})>>) /\ Storable(<<>>)
    BY FreshSequences
  <2>4. CASE ClaimTurn(t)
    <3>1. turn' = [turn EXCEPT ![t] = [turn[t] EXCEPT !.pc = "claimed"]] /\ messages' = messages
      BY <2>4 DEF ClaimTurn
    <3>2. [turn[t] EXCEPT !.pc = "claimed"].fresh = turn[t].fresh
      BY <2>1 DEF Turn
    <3> QED BY <1>2, <2>1, <3>1, <3>2
  <2>5. CASE ReadTranscript(t)
    <3> DEFINE after == [turn[t] EXCEPT !.pc = "read", !.next = Len(messages) + 1]
    <3>1. turn' = [turn EXCEPT ![t] = after] /\ messages' = messages
      BY <2>5 DEF ReadTranscript
    <3>2. after.fresh = turn[t].fresh
      BY <2>1 DEF Turn
    <3> HIDE DEF after
    <3> QED BY <1>2, <2>1, <3>1, <3>2
  <2>6. CASE SaveQuestion(t)
    <3> DEFINE after == [turn[t] EXCEPT !.pc = "asking", !.next = turn[t].next + 1]
    <3>1. turn' = [turn EXCEPT ![t] = after] /\ messages' = messages \o <<Question>>
      <4>1. Append(messages, Question) = messages \o <<Question>>
        BY <1>0, MessageTypes
      <4> QED BY <2>6, <4>1 DEF SaveQuestion
    <3>2. after.fresh = turn[t].fresh
      BY <2>1 DEF Turn
    <3>3. Paired(messages \o <<Question>>)
      <4> DEFINE q == <<Question>>
      <4>1. q \in Seq(Message) /\ Storable(q)
        BY FreshSequences, MessageTypes
      <4> HIDE DEF q
      <4>2. Paired(messages \o q)
        BY <1>0, <2>1, <4>1, PairedJoin DEF Storable
      <4> QED BY <4>2 DEF q
    <3> HIDE DEF after
    <3> QED BY <1>2, <2>1, <3>1, <3>2, <3>3
  <2>7. CASE Ask(t)
    <3>1. messages' = messages
      BY <2>7 DEF Ask
    <3>2. PICK after : turn' = [turn EXCEPT ![t] = after] /\ Storable(after.fresh)
      <4>1. ASSUME NEW c \in NewCalls, turn' = [turn EXCEPT ![t].fresh = <<Answer({c}), Results({c})>>]
            PROVE  \E after : turn' = [turn EXCEPT ![t] = after] /\ Storable(after.fresh)
        <5>1. turn' = [turn EXCEPT ![t] = [turn[t] EXCEPT !.fresh = <<Answer({c}), Results({c})>>]]
          BY <4>1
        <5>2. [turn[t] EXCEPT !.fresh = <<Answer({c}), Results({c})>>].fresh = <<Answer({c}), Results({c})>>
          BY <2>1 DEF Turn
        <5> QED BY <2>2, <5>1, <5>2
      <4>2. ASSUME turn' = [turn EXCEPT ![t] = [turn[t] EXCEPT !.pc = "settling", !.fresh = <<Answer({})>>]]
            PROVE  \E after : turn' = [turn EXCEPT ![t] = after] /\ Storable(after.fresh)
        <5>1. [turn[t] EXCEPT !.pc = "settling", !.fresh = <<Answer({})>>].fresh = <<Answer({})>>
          BY <2>1 DEF Turn
        <5> QED BY <2>3, <4>2, <5>1
      <4> QED BY <2>7, <4>1, <4>2 DEF Ask
    <3> QED BY <1>2, <2>1, <3>1, <3>2
  <2>8. CASE SaveFresh(t)
    <3> DEFINE after == [turn[t] EXCEPT !.next = turn[t].next + Len(turn[t].fresh), !.fresh = <<>>]
    <3>1. turn' = [turn EXCEPT ![t] = after] /\ messages' = messages \o turn[t].fresh
      BY <2>8 DEF SaveFresh
    <3>2. after.fresh = <<>>
      BY <2>1 DEF Turn
    <3>3. Paired(messages \o turn[t].fresh)
      <4>1. turn[t].fresh \in Seq(Message)
        BY <2>1 DEF Turn
      <4> QED BY <1>0, <2>1, <4>1, PairedJoin DEF Storable
    <3> HIDE DEF after
    <3> QED BY <1>2, <2>3, <3>1, <3>2, <3>3
  <2>9. CASE CutOff(t)
    <3>1. messages' = messages
      BY <2>9 DEF CutOff
    <3>2. PICK after : turn' = [turn EXCEPT ![t] = after] /\ Storable(after.fresh)
      <4>1. ASSUME NEW c \in NewCalls,
                   turn' = [turn EXCEPT ![t] = [turn[t] EXCEPT !.pc = "settling", !.fresh = <<Answer({c})>>]]
            PROVE  \E after : turn' = [turn EXCEPT ![t] = after] /\ Storable(after.fresh)
        <5>1. [turn[t] EXCEPT !.pc = "settling", !.fresh = <<Answer({c})>>].fresh = <<Answer({c})>>
          BY <2>1 DEF Turn
        <5> QED BY <2>2, <4>1, <5>1
      <4>2. ASSUME turn' = [turn EXCEPT ![t].pc = "settling"]
            PROVE  \E after : turn' = [turn EXCEPT ![t] = after] /\ Storable(after.fresh)
        <5>1. turn' = [turn EXCEPT ![t] = [turn[t] EXCEPT !.pc = "settling"]]
          BY <4>2
        <5>2. [turn[t] EXCEPT !.pc = "settling"].fresh = turn[t].fresh
          BY <2>1 DEF Turn
        <5> QED BY <2>1, <5>1, <5>2
      <4> QED BY <2>9, <4>1, <4>2 DEF CutOff
    <3> QED BY <1>2, <2>1, <3>1, <3>2
  <2>10. CASE SeqTaken(t)
    <3> DEFINE after == [turn[t] EXCEPT !.pc = "settling", !.fresh = <<>>]
    <3>1. turn' = [turn EXCEPT ![t] = after] /\ messages' = messages
      BY <2>10 DEF SeqTaken
    <3>2. after.fresh = <<>>
      BY <2>1 DEF Turn
    <3> HIDE DEF after
    <3> QED BY <1>2, <2>1, <2>3, <3>1, <3>2
  <2>11. CASE Settle(t)
    <3>1. turn' = [turn EXCEPT ![t] = [turn[t] EXCEPT !.pc = "over"]] /\ messages' = messages
      BY <2>11 DEF Settle
    <3>2. [turn[t] EXCEPT !.pc = "over"].fresh = turn[t].fresh
      BY <2>1 DEF Turn
    <3> QED BY <1>2, <2>1, <3>1, <3>2
  <2>12. CASE CrashTurn(t)
    <3> DEFINE after == [turn[t] EXCEPT !.pc = "over", !.fresh = <<>>]
    <3>1. turn' = [turn EXCEPT ![t] = after] /\ messages' = messages
      BY <2>12 DEF CrashTurn
    <3>2. after.fresh = <<>>
      BY <2>1 DEF Turn
    <3> HIDE DEF after
    <3> QED BY <1>2, <2>1, <2>3, <3>1, <3>2
  <2> QED BY <1>3, <2>4, <2>5, <2>6, <2>7, <2>8, <2>9, <2>10, <2>11, <2>12
<1>4. CASE PassCutoff
  BY <1>1, <1>4 DEF PassCutoff
<1> QED BY <1>1, <1>3, <1>4 DEF TurnNext, turnVars

\* Whatever was cut off, crashed, lost or interleaved, the transcript that the
\* next turn of a conversation sends answers every tool_use (transcript.ts).
THEOREM TranscriptAcceptedAlways == TurnSpec => []TranscriptAccepted
<1>1. TurnInit => PairedInv
  <2> SUFFICES ASSUME TurnInit PROVE PairedInv
    OBVIOUS
  <2>1. messages = <<>> /\ \A t \in Turns : turn[t].fresh = <<>>
    BY DEF TurnInit, Waiting
  <2> QED BY <2>1, FreshSequences DEF PairedInv, Storable
<1>2. TurnInv /\ PairedInv => TranscriptAccepted
  BY WireAccepted DEF TurnInv, TurnTypeOK, PairedInv, TranscriptAccepted
<1> QED BY <1>1, <1>2, TurnInvInit, TurnInvStep, PairedStep, PTL DEF TurnSpec

-----------------------------------------------------------------------------
(* EntryLinking: reads are behind the tables only by what documents in     *)
(* process beside the reader wrote, and papers meet whoever came first.    *)

Linked(g, a, b) == \E f \in g.edges : f[1] = a /\ f[2] = b

Filing(x) == Content[x].kind = "port_entry"
Invoicing(y) == Content[y].kind = "commercial_invoice"
Quotes(y) == Content[y].kind \in {"quote_sheet", "new_part"}
AttachOnly(y) == Content[y].kind \in {"cargo_release", "tariff_code_sheet"}
Carries(z, key) ==
  /\ Content[z].kind \in {"port_entry", "shipment"}
  /\ \E a \in Content[z].bols : BolKey[a] = key
Committed(d) == work[d].pc \in {"linked", "processed"}
Attached(d, x) == <<d, x>> \in graph.links

\* Only 7501s make entries, only papers of their own fill shipments and invoices.
Owned(g) ==
  /\ \A r \in g.rows : Is(r, "entry") =>
       \E z \in Documents : Filing(z) /\ r = Entry(Content[z].number)
  /\ \A r \in g.filled : Is(r, "shipment") \/ Is(r, "invoice")

ProcessedTogether ==
  \A x, y \in InProcess : x # y => {x, y} \in overlapped

\* What a document has read is behind the tables only in what documents in
\* process beside it wrote.
ReadBefore(d) ==
  LET saw == work[d].saw IN
  /\ TablesOK(saw) /\ Owned(saw) /\ work[d].stored \subseteq Documents
  /\ saw.rows \subseteq graph.rows /\ saw.filled \subseteq graph.filled
ReadLinks(d) ==
  \A y \in Documents, x \in graph.rows :
    Attached(y, x) /\ (Filing(y) \/ Invoicing(y)) =>
      <<y, x>> \in work[d].saw.links \/ {d, y} \in overlapped
ReadStored(d) ==
  \A y \in extracted : y \in work[d].stored \/ {d, y} \in overlapped
ReadEdges(d) ==
  Invoicing(d) => \A n \in Numbers, i \in Content[d].invoices :
    Linked(graph, Entry(n), Invoice(i)) =>
      \/ Linked(work[d].saw, Entry(n), Invoice(i)) \/ Invoice(i) \in graph.filled \/ Raced(n)
ReadShipments(d) ==
  \A r \in graph.rows \ work[d].saw.rows : Is(r, "shipment") =>
    \E z \in Documents : Carries(z, BolKey[r[2]]) /\ {d, z} \in overlapped
ReadParts(d) ==
  \A y \in Documents :
    Quotes(y) /\ Part(Content[y].sku) \in graph.rows \ work[d].saw.rows =>
      \E z \in Quoting(y) : {d, z} \in overlapped
ReadLines(d) ==
  \A n \in Numbers : graph.line[n] # work[d].saw.line[n] =>
    \E x \in Documents : Filing(x) /\ Content[x].number = n /\ {x, d} \in overlapped

Reads ==
  \A d \in Documents : work[d].pc = "matched" =>
    /\ ReadBefore(d) /\ ReadLinks(d) /\ ReadStored(d) /\ ReadEdges(d)
    /\ ReadShipments(d) /\ ReadParts(d) /\ ReadLines(d)

\* What a document that is through has left in the tables.
LeftByFiling(x) ==
  /\ Attached(x, Entry(Content[x].number))
  /\ \A i \in Content[x].invoices : Linked(graph, Entry(Content[x].number), Invoice(i))
  /\ \A a \in Content[x].bols : \E r \in graph.rows :
       /\ Is(r, "shipment") /\ BolKey[r[2]] = BolKey[a]
       /\ Linked(graph, Entry(Content[x].number), r)
LeftByInvoice(y) ==
  \A i \in Content[y].invoices : Invoice(i) \in graph.filled /\ Attached(y, Invoice(i))
LeftByShipment(y) ==
  \A b \in Content[y].bols : \E r \in graph.filled :
    Is(r, "shipment") /\ BolKey[r[2]] = BolKey[b]

Left ==
  \A d \in Documents : Committed(d) =>
    /\ Filing(d) => LeftByFiling(d)
    /\ Invoicing(d) => LeftByInvoice(d)
    /\ Content[d].kind = "shipment" => LeftByShipment(d)
    /\ Quotes(d) => Part(Content[d].sku) \in graph.rows
    /\ work[d].pc = "processed" /\ AttachOnly(d) => d \in extracted

\* The ways a 7501 and another document meet, whoever came first.
MeetByDigits ==
  \A x, y \in Documents :
    /\ Filing(x) /\ AttachOnly(y) /\ SameEntry(x, y) /\ Undisturbed(x, y)
    /\ Attached(x, Entry(Content[x].number)) /\ Committed(y)
    => Adopts(x, y)
MeetByPacket ==
  \A x, y \in Documents :
    /\ Filing(x) /\ Invoicing(y) /\ {x, y} \notin overlapped
    /\ Content[x].packet # Nothing /\ Content[x].packet = Content[y].packet
    /\ Attached(x, Entry(Content[x].number))
    => \A i \in Content[y].invoices :
         Attached(y, Invoice(i)) => Linked(graph, Entry(Content[x].number), Invoice(i))
MeetByPart ==
  \A n \in Numbers, y \in Documents :
    /\ Quotes(y) /\ Part(Content[y].sku) \in graph.rows /\ graph.line[n] = Content[y].sku
    => \/ Linked(graph, Entry(n), Part(Content[y].sku))
       \/ \E x \in Documents, z \in Quoting(y) :
            Filing(x) /\ Content[x].number = n /\ {x, z} \in overlapped
OneShipment ==
  \A r, q \in graph.rows :
    Is(r, "shipment") /\ Is(q, "shipment") /\ BolKey[r[2]] = BolKey[q[2]] =>
      \/ r = q
      \/ \E w, z \in Documents :
           Carries(w, BolKey[r[2]]) /\ Carries(z, BolKey[r[2]]) /\ {w, z} \in overlapped

LinkInv ==
  /\ LinkTypeOK /\ DOMAIN work = Documents /\ Owned(graph) /\ ProcessedTogether
  /\ Reads /\ Left
  /\ MeetByDigits /\ MeetByPacket /\ MeetByPart /\ OneShipment
  /\ AlertsOfFacts

-----------------------------------------------------------------------------
(* The rows a document makes.                                              *)

\* The tags of the tables keep their rows apart.
LEMMA Tags ==
  /\ \A n : Is(Entry(n), "entry") /\ Entry(n)[2] = n
  /\ \A n : Is(Shipment(n), "shipment") /\ Shipment(n)[2] = n
  /\ \A n : Is(Invoice(n), "invoice") /\ Invoice(n)[2] = n
  /\ \A n : Is(Part(n), "part") /\ Part(n)[2] = n
  /\ \A n : Is(Order(n), "order") /\ Is(Claim(n), "claim")
BY DEF Is, Entry, Shipment, Invoice, Part, Order, Claim

\* The stub every print of one number in a document stands for.
Stub(d, key) == Shipment(CHOOSE a \in Content[d].bols : BolKey[a] = key)

\* The row of a bill of lading is a shipment of its number: one that is there,
\* or a stub that every print of the number in the document shares.
LEMMA ShipmentRow ==
  ASSUME NEW g, NEW d \in Documents, NEW b \in Content[d].bols
  PROVE  /\ Is(ShipmentFor(g, d, b), "shipment") /\ BolKey[ShipmentFor(g, d, b)[2]] = BolKey[b]
         /\ \/ ShipmentFor(g, d, b) \in g.rows
            \/ \E a \in Content[d].bols : ShipmentFor(g, d, b) = Shipment(a)
         /\ ShipmentFor(g, d, b) \notin g.rows =>
              /\ ShipmentFor(g, d, b) = Stub(d, BolKey[b])
              /\ \A x \in g.rows : Is(x, "shipment") => BolKey[x[2]] # BolKey[b]
<1> DEFINE found == {x \in g.rows : Is(x, "shipment") /\ SameBol(x[2], b)}
           first == CHOOSE a \in Content[d].bols : BolKey[a] = BolKey[b]
<1>1. first \in Content[d].bols /\ BolKey[first] = BolKey[b]
  OBVIOUS
<1>2. CASE found = {}
  <2>1. ShipmentFor(g, d, b) = Shipment(first)
    BY <1>2 DEF ShipmentFor
  <2>2. \A x \in g.rows : Is(x, "shipment") => BolKey[x[2]] # BolKey[b]
    BY <1>2 DEF SameBol
  <2> HIDE DEF first, found
  <2>3. Is(Shipment(first), "shipment") /\ Shipment(first)[2] = first
    BY Tags
  <2>4. Shipment(first) = Stub(d, BolKey[b])
    BY DEF first, Stub
  <2> QED
    BY <1>1, <2>1, <2>2, <2>3, <2>4
<1>3. CASE found # {}
  <2>1. ShipmentFor(g, d, b) \in found
    BY <1>3 DEF ShipmentFor
  <2> QED
    BY <2>1 DEF SameBol
<1> QED
  BY <1>2, <1>3

\* The same for all of a document's bills: where no row is found, two prints of
\* one number make one.
LEMMA ShipmentRows ==
  ASSUME NEW g, TablesOK(g), NEW d \in Documents
  PROVE  /\ \A r \in Shipments(g, d) : Is(r, "shipment") /\ r \in Entities
         /\ \A b \in Content[d].bols : \E r \in Shipments(g, d) : BolKey[r[2]] = BolKey[b]
         /\ \A r \in Shipments(g, d) : \E b \in Content[d].bols : BolKey[r[2]] = BolKey[b]
         /\ \A r, q \in Shipments(g, d) \ g.rows : BolKey[r[2]] = BolKey[q[2]] => r = q
         /\ \A r \in Shipments(g, d) \ g.rows, q \in g.rows :
              Is(q, "shipment") => BolKey[r[2]] # BolKey[q[2]]
<1>1. \A r \in Shipments(g, d) : \E b \in Content[d].bols : r = ShipmentFor(g, d, b)
  BY DEF Shipments
<1>2. \A b \in Content[d].bols : ShipmentFor(g, d, b) \in Shipments(g, d)
  BY DEF Shipments
<1>3. g.rows \subseteq Entities /\ \A a \in Content[d].bols : Shipment(a) \in Entities
  BY ContentAssumption DEF TablesOK, Entities
<1>4. \A b \in Content[d].bols :
        LET r == ShipmentFor(g, d, b) IN
        /\ Is(r, "shipment") /\ BolKey[r[2]] = BolKey[b] /\ r \in Entities
        /\ r \notin g.rows =>
             /\ r = Stub(d, BolKey[b])
             /\ \A x \in g.rows : Is(x, "shipment") => BolKey[x[2]] # BolKey[b]
  <2> TAKE b \in Content[d].bols
  <2> DEFINE r == ShipmentFor(g, d, b)
  <2>1. /\ Is(r, "shipment") /\ BolKey[r[2]] = BolKey[b]
        /\ r \in g.rows \/ \E a \in Content[d].bols : r = Shipment(a)
        /\ r \notin g.rows =>
             /\ r = Stub(d, BolKey[b])
             /\ \A x \in g.rows : Is(x, "shipment") => BolKey[x[2]] # BolKey[b]
    BY ShipmentRow
  <2> HIDE DEF r
  <2>2. r \in Entities
    BY <1>3, <2>1
  <2> QED
    BY <2>1, <2>2 DEF r
<1>5. \A r \in Shipments(g, d) \ g.rows :
        /\ r = Stub(d, BolKey[r[2]])
        /\ \A x \in g.rows : Is(x, "shipment") => BolKey[x[2]] # BolKey[r[2]]
  BY <1>1, <1>4
<1>6. \A r, q \in Shipments(g, d) \ g.rows : BolKey[r[2]] = BolKey[q[2]] => r = q
  <2> TAKE r, q \in Shipments(g, d) \ g.rows
  <2> HAVE BolKey[r[2]] = BolKey[q[2]]
  <2>1. Stub(d, BolKey[r[2]]) = Stub(d, BolKey[q[2]])
    OBVIOUS
  <2> QED
    BY <1>5, <2>1
<1> QED
  BY <1>1, <1>2, <1>4, <1>5, <1>6

\* What an entry number finds is an entry that is there.
LEMMA EntryFound ==
  ASSUME NEW g, NEW number
  PROVE  /\ EntryFor(g, number) \subseteq {x \in g.rows : Is(x, "entry") /\ Digits[x[2]] = Digits[number]}
         /\ (\E x \in g.rows : Is(x, "entry") /\ Digits[x[2]] = Digits[number])
              => EntryFor(g, number) # {}
<1> DEFINE found == {x \in g.rows : Is(x, "entry") /\ Digits[x[2]] = Digits[number]}
<1>1. found # {} => (CHOOSE x \in found : TRUE) \in found
  OBVIOUS
<1>2. EntryFor(g, number) = IF found = {} THEN {} ELSE {CHOOSE x \in found : TRUE}
  BY DEF EntryFor
<1> QED
  BY <1>1, <1>2

\* Siblings and touched entries are rows that are there.
LEMMA SiblingRows ==
  ASSUME NEW g, TablesOK(g), NEW d \in Documents, NEW type
  PROVE  Siblings(g, d, type) \subseteq {x \in g.rows : Is(x, type)}
BY DEF Siblings, TablesOK

LEMMA TouchedRows ==
  ASSUME NEW g, TablesOK(g), NEW d \in Documents
  PROVE  Touched(g, d) \subseteq g.rows
<1>1. Siblings(g, d, "entry") \subseteq g.rows
  BY SiblingRows
<1> QED
  BY <1>1 DEF Touched, TablesOK

\* The entries a new part adopts have a line that declares it.
LEMMA AdoptedRows ==
  ASSUME NEW g, TablesOK(g), NEW d \in Documents
  PROVE  /\ \A e \in Adopted(g, d) : \E n \in Numbers :
              e = Entry(n) /\ g.line[n] = Content[d].sku /\ Quotes(d)
         /\ \A e \in Adopted(g, d) : e \in g.rows
         /\ Quotes(d) /\ Part(Content[d].sku) \notin g.rows =>
              \A n \in Numbers : g.line[n] = Content[d].sku => Entry(n) \in Adopted(g, d)
<1>1. Quotes(d) => Content[d].sku # Nothing
  BY ContentAssumption DEF Quotes
<1> QED
  BY <1>1 DEF Adopted, TablesOK, Quotes

-----------------------------------------------------------------------------
(* What linking writes, by what it writes.                                 *)

\* The rows it creates: an entry for a 7501, a shipment for it and for shipment
\* papers, a part for a quote; no invoice is filled by anybody but its own.
LEMMA Creates ==
  ASSUME NEW g, TablesOK(g), NEW d \in Documents
  PROVE  LET C == LinkEffects(g, d).creates IN
         /\ C \subseteq Entities
         /\ \A r \in C : Is(r, "entry") => Filing(d) /\ r = Entry(Content[d].number)
         /\ \A r \in C : Is(r, "shipment") =>
              r \in Shipments(g, d) /\ Content[d].kind \in {"port_entry", "shipment"}
         /\ \A r \in C : Is(r, "part") => Quotes(d) /\ r = Part(Content[d].sku)
         /\ Filing(d) => Entry(Content[d].number) \in C /\ Shipments(g, d) \subseteq C
                         /\ Invoices(d) \subseteq C
         /\ Invoicing(d) => Invoices(d) \subseteq C
         /\ Content[d].kind = "shipment" => Shipments(g, d) \subseteq C
         /\ Quotes(d) => Part(Content[d].sku) \in C
<1> DEFINE C == LinkEffects(g, d).creates
           k == Content[d].kind
<1>1. /\ k \in Kinds
      /\ k \in {"port_entry", "refund_report"} => Content[d].number \in Numbers
  BY ContentAssumption
<1>2. /\ k = "port_entry" => C = {Entry(Content[d].number)} \cup
                                  (Shipments(g, d) \cup Orders(d) \cup Invoices(d))
      /\ k \in {"cargo_release", "tariff_code_sheet", "packing_list"} => C = {}
      /\ k = "refund_report" => C = {Claim(Content[d].number)}
      /\ k = "shipment" => C = Shipments(g, d) \cup Orders(d)
      /\ k = "purchase_order" => C = Orders(d)
      /\ k = "commercial_invoice" => C = Orders(d) \cup Invoices(d)
      /\ k \in {"quote_sheet", "new_part"} => C = {Part(Content[d].sku)}
  BY DEF LinkEffects, Effects, PortEntry, CargoRelease, TariffCodeSheet, RefundReport,
     ShipmentPapers, PurchaseOrder, CommercialInvoice, PackingList, QuotedPart
<1>3. /\ \A r \in Shipments(g, d) : r \in Entities /\ Is(r, "shipment")
      /\ \A r \in Orders(d) : r \in Entities /\ Is(r, "order")
      /\ \A r \in Invoices(d) : r \in Entities /\ Is(r, "invoice")
      /\ Part(Content[d].sku) \in Entities /\ Is(Part(Content[d].sku), "part")
      /\ \A n \in Numbers : Entry(n) \in Entities /\ Claim(n) \in Entities
      /\ \A n : Is(Entry(n), "entry") /\ Is(Claim(n), "claim")
  <2>1. /\ \A r \in Orders(d) : \E p \in Content[d].orders : r = Order(p)
        /\ \A r \in Invoices(d) : \E p \in Content[d].invoices : r = Invoice(p)
    BY DEF Orders, Invoices
  <2>2. /\ \A p \in Content[d].orders : Order(p) \in Entities
        /\ \A i \in Content[d].invoices : Invoice(i) \in Entities
        /\ Part(Content[d].sku) \in Entities
        /\ \A n \in Numbers : Entry(n) \in Entities /\ Claim(n) \in Entities
    BY DEF Entities
  <2> QED
    BY <2>1, <2>2, Tags, ShipmentRows
<1>4. \A r : /\ Is(r, "entry") => ~Is(r, "shipment") /\ ~Is(r, "order") /\ ~Is(r, "invoice")
                                  /\ ~Is(r, "part") /\ ~Is(r, "claim")
             /\ Is(r, "shipment") => ~Is(r, "order") /\ ~Is(r, "invoice")
                                  /\ ~Is(r, "part") /\ ~Is(r, "claim")
             /\ Is(r, "part") => ~Is(r, "order") /\ ~Is(r, "invoice") /\ ~Is(r, "claim")
  BY DEF Is
<1> HIDE DEF C, k
<1>5. CASE k = "port_entry"
  BY <1>1, <1>2, <1>3, <1>4, <1>5 DEF C, k, Filing, Invoicing, Quotes
<1>6. CASE k \in {"cargo_release", "tariff_code_sheet", "packing_list"}
  BY <1>2, <1>6 DEF C, k, Filing, Invoicing, Quotes
<1>7. CASE k \in {"refund_report", "purchase_order", "commercial_invoice"}
  BY <1>1, <1>2, <1>3, <1>4, <1>7 DEF C, k, Filing, Invoicing, Quotes
<1>8. CASE k = "shipment"
  BY <1>1, <1>2, <1>3, <1>4, <1>8 DEF C, k, Filing, Invoicing, Quotes
<1>9. CASE k \in {"quote_sheet", "new_part"}
  BY <1>2, <1>3, <1>4, <1>9 DEF C, k, Filing, Invoicing, Quotes
<1> QED
  BY <1>1, <1>5, <1>6, <1>7, <1>8, <1>9 DEF Kinds

\* What it attaches to, and where a release or a sheet goes.
LEMMA Attaches ==
  ASSUME NEW g, TablesOK(g), NEW d \in Documents
  PROVE  /\ LinkEffects(g, d).attaches \subseteq g.rows
         /\ AttachOnly(d) => EntryFor(g, Content[d].number) \subseteq LinkEffects(g, d).attaches
<1> DEFINE A == LinkEffects(g, d).attaches
           k == Content[d].kind
<1>1. k \in Kinds
  BY ContentAssumption
<1>2. /\ k = "port_entry" => A = Siblings(g, d, "invoice")
      /\ k = "cargo_release" =>
           A = EntryFor(g, Content[d].number) \cup (Shipments(g, d) \cap g.rows)
      /\ k \in {"tariff_code_sheet", "refund_report"} => A = EntryFor(g, Content[d].number)
      /\ k \in {"shipment", "purchase_order", "quote_sheet", "new_part"} => A = {}
      /\ k = "commercial_invoice" => A = Touched(g, d)
      /\ k = "packing_list" => A = {Shipment(b) : b \in Content[d].bols} \cap g.rows
  BY DEF LinkEffects, Effects, PortEntry, CargoRelease, TariffCodeSheet, RefundReport,
     ShipmentPapers, PurchaseOrder, CommercialInvoice, PackingList, QuotedPart
<1>3. /\ Siblings(g, d, "invoice") \subseteq g.rows /\ Touched(g, d) \subseteq g.rows
      /\ EntryFor(g, Content[d].number) \subseteq g.rows
  BY SiblingRows, TouchedRows, EntryFound
<1> HIDE DEF A, k
<1> QED
  BY <1>1, <1>2, <1>3 DEF A, k, Kinds, AttachOnly

\* The pairs it joins: those of an entry with an invoice are a 7501's or the
\* invoice's own, with a part a 7501's or the part's own.
LEMMA Joins ==
  ASSUME NEW g, TablesOK(g), NEW d \in Documents
  PROVE  LET J == LinkEffects(g, d).joins
             R == g.rows \cup LinkEffects(g, d).creates
             own == Entry(Content[d].number)
         IN
         /\ J \subseteq R \X R
         /\ \A f \in J : Is(f[1], "entry") =>
              \/ Filing(d) /\ f[1] = own
              \/ Invoicing(d) /\ f[1] \in Touched(g, d) /\ f[2] \in Invoices(d)
              \/ Quotes(d) /\ f[1] \in Adopted(g, d) /\ f[2] = Part(Content[d].sku)
              \/ Is(f[2], "claim")
         /\ Filing(d) =>
              \A x \in Shipments(g, d) \cup Invoices(d) \cup Siblings(g, d, "invoice")
                         \cup ({Part(Content[d].sku)} \cap g.rows) : <<own, x>> \in J
         /\ Invoicing(d) =>
              \A e \in Touched(g, d), x \in Invoices(d) : <<e, x>> \in J
         /\ Quotes(d) =>
              \A e \in Adopted(g, d) : <<e, Part(Content[d].sku)>> \in J
<1> DEFINE J == LinkEffects(g, d).joins
           C == LinkEffects(g, d).creates
           R == g.rows \cup C
           own == Entry(Content[d].number)
           k == Content[d].kind
           S == Siblings(g, d, "invoice")
           K == {Part(Content[d].sku)} \cap g.rows
<1>1. k \in Kinds
  BY ContentAssumption
<1>2. /\ k = "port_entry" => J = {own} \X ((Shipments(g, d) \cup Orders(d) \cup Invoices(d)) \cup S \cup K)
                             /\ Orders(d) \subseteq C
      /\ k \in {"cargo_release", "tariff_code_sheet", "purchase_order", "packing_list"} => J = {}
      /\ k = "refund_report" => J = EntryFor(g, Content[d].number) \X {Claim(Content[d].number)}
                                /\ Claim(Content[d].number) \in C
      /\ k = "shipment" => J = Shipments(g, d) \X Orders(d) /\ Orders(d) \subseteq C
      /\ k = "commercial_invoice" => J = Touched(g, d) \X Invoices(d)
      /\ k \in {"quote_sheet", "new_part"} => J = Adopted(g, d) \X {Part(Content[d].sku)}
  BY DEF LinkEffects, Effects, PortEntry, CargoRelease, TariffCodeSheet, RefundReport,
     ShipmentPapers, PurchaseOrder, CommercialInvoice, PackingList, QuotedPart
<1>3. /\ S \subseteq g.rows /\ Touched(g, d) \subseteq g.rows /\ Adopted(g, d) \subseteq g.rows
      /\ EntryFor(g, Content[d].number) \subseteq g.rows
  BY SiblingRows, TouchedRows, AdoptedRows, EntryFound
<1>4. /\ k = "port_entry" => own \in C /\ Shipments(g, d) \subseteq C /\ Invoices(d) \subseteq C
      /\ k = "commercial_invoice" => Invoices(d) \subseteq C
      /\ k = "shipment" => Shipments(g, d) \subseteq C
      /\ k \in {"quote_sheet", "new_part"} => Part(Content[d].sku) \in C
  BY Creates DEF Filing, Invoicing, Quotes
<1>5. \A r \in Shipments(g, d) : ~Is(r, "entry")
  BY ShipmentRows DEF Is
<1>6. Is(Claim(Content[d].number), "claim")
  BY Tags
<1> HIDE DEF J, C, own, k, S
<1>7. CASE k = "port_entry"
  <2>1. J \subseteq R \X R
    BY <1>2, <1>3, <1>4, <1>7
  <2> QED
    BY <1>2, <1>7, <2>1 DEF J, C, own, k, S, Filing, Invoicing, Quotes
<1>8. CASE k \in {"cargo_release", "tariff_code_sheet", "purchase_order", "packing_list"}
  BY <1>2, <1>8 DEF J, k, Filing, Invoicing, Quotes
<1>9. CASE k = "refund_report"
  BY <1>2, <1>3, <1>6, <1>9 DEF J, C, k, Filing, Invoicing, Quotes
<1>10. CASE k = "shipment"
  BY <1>2, <1>4, <1>5, <1>10 DEF J, C, k, Filing, Invoicing, Quotes
<1>11. CASE k = "commercial_invoice"
  BY <1>2, <1>3, <1>4, <1>11 DEF J, C, k, Filing, Invoicing, Quotes
<1>12. CASE k \in {"quote_sheet", "new_part"}
  BY <1>2, <1>3, <1>4, <1>12 DEF J, C, k, Filing, Invoicing, Quotes
<1> QED
  BY <1>1, <1>7, <1>8, <1>9, <1>10, <1>11, <1>12 DEF Kinds

-----------------------------------------------------------------------------
(* What the transaction leaves in the tables.                              *)

\* An edge of a 7501's lines to a part, which filing it again replaces.
Replaced(d, f) == Filing(d) /\ f[1] = Entry(Content[d].number) /\ Is(f[2], "part")

\* The tables after it, field by field.
LEMMA CommitWrites ==
  ASSUME LinkInv, NEW d \in Documents, CommitLink(d)
  PROVE  LET saw == work[d].saw
             made == LinkEffects(saw, d)
         IN
         /\ work[d].pc = "matched" /\ TablesOK(saw) /\ TablesOK(graph)
         /\ graph'.rows = graph.rows \cup made.creates
         /\ \A f : f \in graph'.edges <=> (f \in graph.edges /\ ~Replaced(d, f)) \/ f \in made.joins
         /\ \A y, x : <<y, x>> \in graph'.links =>
              \/ <<y, x>> \in graph.links
              \/ y = d /\ x \in made.creates \cup made.attaches
              \/ Filing(d) /\ AttachOnly(y) /\ y \in Documents /\ x = Entry(Content[d].number)
         /\ \A f \in graph'.links : f \in graph.links \/ \E y \in Documents, x \in graph'.rows : f = <<y, x>>
         /\ graph.links \subseteq graph'.links
         /\ Content[d].kind # "new_part" =>
              \A x \in made.creates \cup made.attaches : <<d, x>> \in graph'.links
         /\ Filing(d) => \A y \in work[d].stored \ {d} :
              AttachOnly(y) /\ SameEntry(y, d) => <<y, Entry(Content[d].number)>> \in graph'.links
         /\ \A x : x \in graph'.filled <=>
              \/ x \in graph.filled
              \/ Invoicing(d) /\ x \in Invoices(d)
              \/ Content[d].kind = "shipment" /\ x \in Shipments(saw, d)
         /\ \A n \in Numbers :
              graph'.line[n] = IF Filing(d) /\ n = Content[d].number THEN Content[d].sku ELSE graph.line[n]
         /\ \A n \in Numbers : graph'.sheet[n] \in Documents \cup {Nothing}
         /\ \A n \in Numbers : audited'[n] =
              IF Entry(n) \in Reaudited(graph, saw, d) THEN Facts(graph', n) ELSE audited[n]
         /\ DOMAIN audited' = Numbers
<1> DEFINE saw == work[d].saw
           stored == work[d].stored
           made == LinkEffects(saw, d)
           c == Content[d]
           files == c.kind = "port_entry"
           strays == Strays(stored, d, "cargo_release") \cup Strays(stored, d, "tariff_code_sheet")
           mine == IF c.kind = "new_part" THEN {} ELSE {d} \X (made.creates \cup made.attaches)
           adopted == IF files THEN strays \X {Entry(c.number)} ELSE {}
           own == IF c.kind = "commercial_invoice" THEN Invoices(d)
                  ELSE IF c.kind = "shipment" THEN Shipments(saw, d) ELSE {}
<1>1. work[d].pc = "matched" /\ TablesOK(saw) /\ TablesOK(graph) /\ stored \subseteq Documents
  BY DEF LinkInv, Reads, ReadBefore, LinkTypeOK, CommitLink
<1>2. PICK sheet \in LastSheets(stored, d) :
        /\ graph' = LinkedGraph(graph, saw, stored, d, sheet)
        /\ audited' = [n \in Numbers |->
             IF Entry(n) \in Reaudited(graph, saw, d)
             THEN Facts(LinkedGraph(graph, saw, stored, d, sheet), n) ELSE audited[n]]
  BY DEF CommitLink
<1>3. /\ graph'.rows = graph.rows \cup made.creates
      /\ graph'.edges = (graph.edges \ {e \in graph.edges :
            files /\ e[1] = Entry(c.number) /\ Is(e[2], "part")}) \cup made.joins
      /\ graph'.links = graph.links \cup mine \cup adopted
      /\ graph'.filled = graph.filled \cup own
  BY <1>2 DEF LinkedGraph
<1>4. /\ graph'.line = [n \in Numbers |-> IF files /\ n = c.number THEN c.sku ELSE graph.line[n]]
      /\ \A n \in Numbers : graph'.sheet[n] \in {sheet, d, graph.sheet[n]}
  BY <1>2 DEF LinkedGraph
<1>5. sheet \in Documents \cup {Nothing}
  <2>1. files => c.number \in Numbers
    BY ContentAssumption
  <2>2. Strays(stored, d, "tariff_code_sheet") \subseteq Documents
    BY <1>1 DEF Strays
  <2> QED
    BY <1>1, <2>1, <2>2 DEF LastSheets, TablesOK
<1>6. \A n \in Numbers : graph'.sheet[n] \in Documents \cup {Nothing}
  BY <1>1, <1>4, <1>5 DEF TablesOK
<1>7. \A n \in Numbers : audited'[n] =
        IF Entry(n) \in Reaudited(graph, saw, d) THEN Facts(graph', n) ELSE audited[n]
  BY <1>2
<1>8. strays \subseteq {y \in Documents : AttachOnly(y)}
  BY <1>1 DEF Strays, AttachOnly
<1>9. \A y \in stored \ {d} : AttachOnly(y) /\ SameEntry(y, d) => y \in strays
  BY DEF Strays, AttachOnly, SameEntry
<1>10. made.attaches \subseteq saw.rows /\ saw.rows \subseteq graph.rows
       /\ (files => Entry(c.number) \in made.creates)
  BY <1>1, Attaches, Creates DEF LinkInv, Reads, ReadBefore, Filing
<1> HIDE DEF saw, stored, made, strays
<1>11. /\ \A y, x : <<y, x>> \in mine => y = d /\ x \in made.creates \cup made.attaches
       /\ \A y, x : <<y, x>> \in adopted => files /\ AttachOnly(y) /\ y \in Documents /\ x = Entry(c.number)
       /\ c.kind # "new_part" => \A x \in made.creates \cup made.attaches : <<d, x>> \in mine
       /\ files => \A y \in strays : <<y, Entry(c.number)>> \in adopted
       /\ \A f \in mine \cup adopted : \E y \in Documents, x \in graph'.rows : f = <<y, x>>
  BY <1>3, <1>8, <1>10
<1>12. DOMAIN audited' = Numbers
  BY <1>2
<1>13. /\ \A f : f \in graph'.edges <=> (f \in graph.edges /\ ~Replaced(d, f)) \/ f \in made.joins
       /\ \A x : x \in graph'.filled <=>
            \/ x \in graph.filled
            \/ Invoicing(d) /\ x \in Invoices(d)
            \/ Content[d].kind = "shipment" /\ x \in Shipments(saw, d)
  BY <1>3 DEF Replaced, Filing, Invoicing
<1>14. \A n \in Numbers :
         graph'.line[n] = IF Filing(d) /\ n = Content[d].number THEN Content[d].sku ELSE graph.line[n]
  BY <1>4 DEF Filing
<1> HIDE DEF mine, adopted, own
<1>15. /\ \A y, x : <<y, x>> \in graph'.links =>
              \/ <<y, x>> \in graph.links
              \/ y = d /\ x \in made.creates \cup made.attaches
              \/ Filing(d) /\ AttachOnly(y) /\ y \in Documents /\ x = Entry(Content[d].number)
       /\ \A f \in graph'.links : f \in graph.links \/ \E y \in Documents, x \in graph'.rows : f = <<y, x>>
       /\ graph.links \subseteq graph'.links
       /\ c.kind # "new_part" => \A x \in made.creates \cup made.attaches : <<d, x>> \in graph'.links
       /\ Filing(d) => \A y \in stored \ {d} :
              AttachOnly(y) /\ SameEntry(y, d) => <<y, Entry(Content[d].number)>> \in graph'.links
  BY <1>3, <1>9, <1>11 DEF Filing
<1> QED
  BY <1>1, <1>3, <1>6, <1>7, <1>12, <1>13, <1>14, <1>15 DEF saw, stored, made

\* What was there stays there, and what is new is the document's own.
LEMMA CommitKeeps ==
  ASSUME LinkInv, NEW d \in Documents, CommitLink(d)
  PROVE  /\ TablesOK(graph)' /\ Owned(graph)'
         /\ graph.rows \subseteq graph'.rows /\ graph.links \subseteq graph'.links
         /\ graph.filled \subseteq graph'.filled
         /\ \A a, b : Linked(graph, a, b) /\ ~Is(b, "part") => Linked(graph', a, b)
         /\ \A n \in Numbers : ~(Filing(d) /\ n = Content[d].number) =>
              /\ \A b : Linked(graph, Entry(n), b) => Linked(graph', Entry(n), b)
              /\ graph'.line[n] = graph.line[n]
         /\ \A y, x : (Filing(y) \/ Invoicing(y)) /\ <<y, x>> \in graph'.links =>
              <<y, x>> \in graph.links \/ y = d
<1> DEFINE saw == work[d].saw
           made == LinkEffects(saw, d)
<1>1. /\ TablesOK(saw) /\ TablesOK(graph) /\ Owned(graph) /\ saw.rows \subseteq graph.rows
      /\ graph'.rows = graph.rows \cup made.creates
      /\ \A f : f \in graph'.edges <=> (f \in graph.edges /\ ~Replaced(d, f)) \/ f \in made.joins
      /\ \A y, x : <<y, x>> \in graph'.links =>
              \/ <<y, x>> \in graph.links
              \/ y = d /\ x \in made.creates \cup made.attaches
              \/ Filing(d) /\ AttachOnly(y) /\ y \in Documents /\ x = Entry(Content[d].number)
      /\ \A f \in graph'.links : f \in graph.links \/ \E y \in Documents, x \in graph'.rows : f = <<y, x>>
      /\ graph.links \subseteq graph'.links
      /\ \A x : x \in graph'.filled <=>
              \/ x \in graph.filled
              \/ Invoicing(d) /\ x \in Invoices(d)
              \/ Content[d].kind = "shipment" /\ x \in Shipments(saw, d)
      /\ \A n \in Numbers :
           graph'.line[n] = IF Filing(d) /\ n = Content[d].number THEN Content[d].sku ELSE graph.line[n]
      /\ \A n \in Numbers : graph'.sheet[n] \in Documents \cup {Nothing}
  <2>1. work[d].pc = "matched"
    BY DEF CommitLink
  <2> QED
    BY <2>1, CommitWrites DEF LinkInv, Reads, ReadBefore
<1>2. /\ made.creates \subseteq Entities
      /\ \A r \in made.creates : Is(r, "entry") => Filing(d) /\ r = Entry(Content[d].number)
      /\ Filing(d) => Entry(Content[d].number) \in made.creates
      /\ Invoicing(d) => Invoices(d) \subseteq made.creates
      /\ Content[d].kind = "shipment" => Shipments(saw, d) \subseteq made.creates
  BY <1>1, Creates
<1>3. made.joins \subseteq (saw.rows \cup made.creates) \X (saw.rows \cup made.creates)
  BY <1>1, Joins
<1>4. /\ \A r \in Invoices(d) : Is(r, "invoice")
      /\ \A r \in Shipments(saw, d) : Is(r, "shipment")
  BY <1>1, Tags, ShipmentRows DEF Invoices
<1>5. \A m, n : Entry(m) = Entry(n) => m = n
  BY DEF Entry
<1> HIDE DEF saw, made
<1>6. TablesOK(graph)'
  <2>1. graph'.rows \subseteq Entities
    BY <1>1, <1>2 DEF TablesOK
  <2>2. graph'.edges \subseteq graph'.rows \X graph'.rows
    BY <1>1, <1>3 DEF TablesOK
  <2>3. graph'.links \subseteq Documents \X graph'.rows
    BY <1>1 DEF TablesOK
  <2>4. \A n \in Numbers : graph'.line[n] # Nothing => Entry(n) \in graph'.rows
    BY <1>1, <1>2 DEF TablesOK
  <2>5. graph'.filled \subseteq graph'.rows
    BY <1>1, <1>2 DEF TablesOK
  <2> QED
    BY <1>1, <2>1, <2>2, <2>3, <2>4, <2>5 DEF TablesOK
<1>7. Owned(graph)'
  BY <1>1, <1>2, <1>4 DEF Owned
<1>8. \A a, b : Linked(graph, a, b) /\ ~Is(b, "part") => Linked(graph', a, b)
  BY <1>1 DEF Linked, Replaced
<1>9. \A n \in Numbers : ~(Filing(d) /\ n = Content[d].number) =>
        /\ \A b : Linked(graph, Entry(n), b) => Linked(graph', Entry(n), b)
        /\ graph'.line[n] = graph.line[n]
  BY <1>1, <1>5 DEF Linked, Replaced
<1>10. \A y : Filing(y) \/ Invoicing(y) => ~AttachOnly(y)
  BY DEF Filing, Invoicing, AttachOnly
<1> QED
  BY <1>1, <1>6, <1>7, <1>8, <1>9, <1>10

\* Who was reading beside the document was in process beside it.
LEMMA Beside ==
  ASSUME LinkInv, NEW d \in Documents, NEW y \in Documents, y # d,
         work[d].pc \in {"matched", "linked"}, work[y].pc \in {"matched", "linked"}
  PROVE  {y, d} \in overlapped /\ {d, y} \in overlapped
BY DEF LinkInv, ProcessedTogether, InProcess, Resting

\* What others have read stays behind only by what documents beside them wrote.
LEMMA CommitReads ==
  ASSUME LinkInv, NEW d \in Documents, CommitLink(d)
  PROVE  Reads'
<1> DEFINE saw == work[d].saw
           made == LinkEffects(saw, d)
<1> SUFFICES ASSUME NEW y \in Documents, work'[y].pc = "matched"
             PROVE  /\ ReadBefore(y)' /\ ReadLinks(y)' /\ ReadStored(y)' /\ ReadEdges(y)'
                    /\ ReadShipments(y)' /\ ReadParts(y)' /\ ReadLines(y)'
  BY DEF Reads
<1>1. y # d /\ work'[y] = work[y] /\ work[d].pc = "matched"
  BY DEF CommitLink, LinkInv
<1>2. {y, d} \in overlapped /\ {d, y} \in overlapped
  BY <1>1, Beside
<1>3. overlapped' = overlapped /\ extracted' = extracted
  BY DEF CommitLink
<1>4. /\ ReadBefore(y) /\ ReadLinks(y) /\ ReadStored(y) /\ ReadEdges(y)
      /\ ReadShipments(y) /\ ReadParts(y) /\ ReadLines(y)
  BY <1>1 DEF LinkInv, Reads
<1>5. /\ TablesOK(saw) /\ TablesOK(graph)
      /\ graph'.rows = graph.rows \cup made.creates
      /\ \A f : f \in graph'.edges <=> (f \in graph.edges /\ ~Replaced(d, f)) \/ f \in made.joins
      /\ \A x : x \in graph'.filled <=>
              \/ x \in graph.filled
              \/ Invoicing(d) /\ x \in Invoices(d)
              \/ Content[d].kind = "shipment" /\ x \in Shipments(saw, d)
  BY CommitWrites
<1>6. /\ graph.rows \subseteq graph'.rows /\ graph.filled \subseteq graph'.filled
      /\ \A n \in Numbers : ~(Filing(d) /\ n = Content[d].number) => graph'.line[n] = graph.line[n]
      /\ \A z, x : (Filing(z) \/ Invoicing(z)) /\ <<z, x>> \in graph'.links =>
           <<z, x>> \in graph.links \/ z = d
  BY CommitKeeps
<1>7. \A n : Raced(n) => Raced(n)'
  BY <1>3 DEF Raced
<1>8. /\ \A r \in made.creates : Is(r, "shipment") =>
              r \in Shipments(saw, d) /\ Content[d].kind \in {"port_entry", "shipment"}
      /\ \A r \in made.creates : Is(r, "part") => Quotes(d) /\ r = Part(Content[d].sku)
  BY <1>5, Creates
<1>9. \A f \in made.joins : Is(f[1], "entry") =>
              \/ Filing(d) /\ f[1] = Entry(Content[d].number)
              \/ Invoicing(d) /\ f[2] \in Invoices(d)
              \/ Quotes(d) /\ f[2] = Part(Content[d].sku)
              \/ Is(f[2], "claim")
  BY <1>5, Joins
<1>10. \A r \in Shipments(saw, d) : \E b \in Content[d].bols : BolKey[r[2]] = BolKey[b]
  BY <1>5, ShipmentRows
<1> HIDE DEF saw, made
<1>11. ReadBefore(y)'
  BY <1>1, <1>4, <1>6 DEF ReadBefore, TablesOK, Owned
<1>12. ReadLinks(y)'
  <2> SUFFICES ASSUME NEW z \in Documents, NEW x \in graph'.rows,
                      <<z, x>> \in graph'.links, Filing(z) \/ Invoicing(z)
               PROVE  <<z, x>> \in work[y].saw.links \/ {y, z} \in overlapped
    BY <1>1, <1>3 DEF ReadLinks, Attached
  <2>1. CASE z = d
    BY <1>2, <2>1
  <2>2. CASE z # d
    BY <1>4, <1>5, <1>6, <2>2 DEF ReadLinks, Attached, TablesOK
  <2> QED
    BY <2>1, <2>2
<1>13. ReadStored(y)'
  BY <1>1, <1>3, <1>4 DEF ReadStored
<1>14. ReadEdges(y)'
  <2> SUFFICES ASSUME Invoicing(y), NEW n \in Numbers, NEW i \in Content[y].invoices,
                      Linked(graph', Entry(n), Invoice(i))
               PROVE  \/ Linked(work[y].saw, Entry(n), Invoice(i)) \/ Invoice(i) \in graph'.filled
                      \/ Raced(n)'
    BY <1>1 DEF ReadEdges
  <2>1. PICK f \in graph'.edges : f[1] = Entry(n) /\ f[2] = Invoice(i)
    BY DEF Linked
  <2>2. CASE f \in graph.edges
    BY <1>4, <1>6, <1>7, <2>1, <2>2 DEF ReadEdges, Linked
  <2>3. CASE f \in made.joins
    <3>1. \/ Filing(d) /\ Entry(n) = Entry(Content[d].number)
          \/ Invoicing(d) /\ Invoice(i) \in Invoices(d)
      BY <1>9, <2>1, <2>3 DEF Entry, Invoice, Part, Is
    <3>2. CASE Filing(d) /\ Entry(n) = Entry(Content[d].number)
      BY <1>2, <1>3, <3>2 DEF Raced, Entry, Filing, Invoicing
    <3> QED
      BY <1>5, <3>1, <3>2
  <2> QED
    BY <1>5, <2>1, <2>2, <2>3
<1>15. ReadShipments(y)'
  <2> SUFFICES ASSUME NEW r \in graph'.rows \ work[y].saw.rows, Is(r, "shipment")
               PROVE  \E z \in Documents : Carries(z, BolKey[r[2]]) /\ {y, z} \in overlapped
    BY <1>1, <1>3 DEF ReadShipments
  <2>1. CASE r \in graph.rows
    BY <1>4, <2>1 DEF ReadShipments
  <2>2. CASE r \in made.creates
    <3>1. Carries(d, BolKey[r[2]])
      BY <1>8, <1>10, <2>2 DEF Carries
    <3> QED
      BY <1>2, <3>1
  <2> QED
    BY <1>5, <2>1, <2>2
<1>16. ReadParts(y)'
  <2> SUFFICES ASSUME NEW z \in Documents, Quotes(z),
                      Part(Content[z].sku) \in graph'.rows \ work[y].saw.rows
               PROVE  \E q \in Quoting(z) : {y, q} \in overlapped
    BY <1>1, <1>3 DEF ReadParts
  <2>1. CASE Part(Content[z].sku) \in graph.rows
    BY <1>4, <2>1 DEF ReadParts
  <2>2. CASE Part(Content[z].sku) \in made.creates
    <3>1. Quotes(d) /\ Part(Content[z].sku) = Part(Content[d].sku)
      BY <1>8, <2>2, Tags
    <3>2. d \in Quoting(z)
      BY <3>1 DEF Quoting, Quotes, Part
    <3> QED
      BY <1>2, <3>2
  <2> QED
    BY <1>5, <2>1, <2>2
<1>17. ReadLines(y)'
  <2> SUFFICES ASSUME NEW n \in Numbers, graph'.line[n] # work[y].saw.line[n]
               PROVE  \E x \in Documents : Filing(x) /\ Content[x].number = n /\ {x, y} \in overlapped
    BY <1>1, <1>3 DEF ReadLines
  <2> QED
    BY <1>2, <1>4, <1>6 DEF ReadLines
<1> QED
  BY <1>11, <1>12, <1>13, <1>14, <1>15, <1>16, <1>17

-----------------------------------------------------------------------------
(* What a committed document leaves, and how two of them meet.             *)

LEMMA CommitLeft ==
  ASSUME LinkInv, NEW d \in Documents, CommitLink(d)
  PROVE  Left'
<1> DEFINE saw == work[d].saw
           made == LinkEffects(saw, d)
<1>1. /\ TablesOK(saw) /\ TablesOK(graph)
      /\ graph'.rows = graph.rows \cup made.creates
      /\ \A f : f \in graph'.edges <=> (f \in graph.edges /\ ~Replaced(d, f)) \/ f \in made.joins
      /\ Content[d].kind # "new_part" =>
           \A x \in made.creates \cup made.attaches : <<d, x>> \in graph'.links
      /\ \A x : x \in graph'.filled <=>
              \/ x \in graph.filled
              \/ Invoicing(d) /\ x \in Invoices(d)
              \/ Content[d].kind = "shipment" /\ x \in Shipments(saw, d)
  BY CommitWrites
<1>2. /\ graph.rows \subseteq graph'.rows /\ graph.links \subseteq graph'.links
      /\ graph.filled \subseteq graph'.filled
      /\ \A a, b : Linked(graph, a, b) /\ ~Is(b, "part") => Linked(graph', a, b)
  BY CommitKeeps
<1>3. /\ \A r \in Shipments(saw, d) : Is(r, "shipment")
      /\ \A b \in Content[d].bols : \E r \in Shipments(saw, d) : BolKey[r[2]] = BolKey[b]
  BY <1>1, ShipmentRows
<1>4. /\ Filing(d) => Entry(Content[d].number) \in made.creates /\ Shipments(saw, d) \subseteq made.creates
      /\ Invoicing(d) => Invoices(d) \subseteq made.creates
      /\ Quotes(d) => Part(Content[d].sku) \in made.creates
  BY <1>1, Creates
<1>5. Filing(d) => \A x \in Shipments(saw, d) \cup Invoices(d) :
        <<Entry(Content[d].number), x>> \in made.joins
  BY <1>1, Joins
<1>6. /\ extracted' = extracted
      /\ \A y \in Documents : y # d => work'[y] = work[y]
      /\ work'[d].pc = "processed" => Content[d].kind = "new_part"
      /\ work[d].pc = "matched"
  BY DEF CommitLink, LinkInv
<1>7. \A i \in Content[d].invoices : Invoice(i) \in Invoices(d)
  BY DEF Invoices
<1>8. \A i : ~Is(Invoice(i), "part")
  BY DEF Is, Invoice
<1> HIDE DEF saw, made
<1> SUFFICES ASSUME NEW y \in Documents, Committed(y)'
             PROVE  /\ Filing(y) => LeftByFiling(y)'
                    /\ Invoicing(y) => LeftByInvoice(y)'
                    /\ Content[y].kind = "shipment" => LeftByShipment(y)'
                    /\ Quotes(y) => Part(Content[y].sku) \in graph'.rows
                    /\ work'[y].pc = "processed" /\ AttachOnly(y) => y \in extracted'
  BY DEF Left
<1>9. CASE y = d
  <2>1. Filing(d) => LeftByFiling(d)'
    <3> SUFFICES ASSUME Filing(d) PROVE LeftByFiling(d)'
      OBVIOUS
    <3>1. Attached(d, Entry(Content[d].number))'
      BY <1>1, <1>4 DEF Attached, Filing
    <3>2. \A x \in Shipments(saw, d) \cup Invoices(d) :
            Linked(graph', Entry(Content[d].number), x)
      <4> TAKE x \in Shipments(saw, d) \cup Invoices(d)
      <4>1. <<Entry(Content[d].number), x>> \in graph'.edges
        BY <1>1, <1>5
      <4> QED
        BY <4>1 DEF Linked
    <3>3. \A a \in Content[d].bols : \E r \in graph'.rows :
            /\ Is(r, "shipment") /\ BolKey[r[2]] = BolKey[a]
            /\ Linked(graph', Entry(Content[d].number), r)
      BY <1>1, <1>3, <1>4, <3>2
    <3> QED
      BY <1>7, <3>1, <3>2, <3>3 DEF LeftByFiling
  <2>2. Invoicing(d) => LeftByInvoice(d)'
    BY <1>1, <1>4, <1>7 DEF LeftByInvoice, Attached, Invoicing
  <2>3. Content[d].kind = "shipment" => LeftByShipment(d)'
    BY <1>1, <1>3 DEF LeftByShipment
  <2> QED
    BY <1>1, <1>4, <1>6, <1>9, <2>1, <2>2, <2>3 DEF AttachOnly
<1>10. CASE y # d
  <2>1. /\ Filing(y) => LeftByFiling(y)
        /\ Invoicing(y) => LeftByInvoice(y)
        /\ Content[y].kind = "shipment" => LeftByShipment(y)
        /\ Quotes(y) => Part(Content[y].sku) \in graph.rows
        /\ work[y].pc = "processed" /\ AttachOnly(y) => y \in extracted
    BY <1>6, <1>10 DEF LinkInv, Left, Committed
  <2>2. Filing(y) => LeftByFiling(y)'
    BY <1>2, <1>8, <2>1 DEF LeftByFiling, Attached, Is
  <2>3. Invoicing(y) => LeftByInvoice(y)'
    BY <1>2, <2>1 DEF LeftByInvoice, Attached
  <2>4. Content[y].kind = "shipment" => LeftByShipment(y)'
    BY <1>2, <2>1 DEF LeftByShipment
  <2> QED
    BY <1>2, <1>6, <1>10, <2>1, <2>2, <2>3, <2>4
<1> QED
  BY <1>9, <1>10

\* A release or a sheet and its 7501: the 7501 adopts what is on file, the
\* other finds the entry by its digits.
LEMMA CommitMeetsDigits ==
  ASSUME LinkInv, NEW d \in Documents, CommitLink(d)
  PROVE  MeetByDigits'
<1> DEFINE saw == work[d].saw
           made == LinkEffects(saw, d)
<1> SUFFICES ASSUME NEW x \in Documents, NEW y \in Documents, Filing(x), AttachOnly(y),
                    SameEntry(x, y), Undisturbed(x, y)',
                    Attached(x, Entry(Content[x].number))', Committed(y)'
             PROVE  Adopts(x, y)'
  BY DEF MeetByDigits
<1>1. /\ TablesOK(saw) /\ TablesOK(graph) /\ work[d].pc = "matched"
      /\ Content[d].kind # "new_part" =>
           \A r \in made.creates \cup made.attaches : <<d, r>> \in graph'.links
      /\ Filing(d) => \A z \in work[d].stored \ {d} :
           AttachOnly(z) /\ SameEntry(z, d) => <<z, Entry(Content[d].number)>> \in graph'.links
  BY CommitWrites
<1>2. /\ graph.links \subseteq graph'.links
      /\ \A z, r : (Filing(z) \/ Invoicing(z)) /\ <<z, r>> \in graph'.links =>
           <<z, r>> \in graph.links \/ z = d
  BY CommitKeeps
<1>3. ReadBefore(d) /\ ReadLinks(d) /\ ReadStored(d)
  BY <1>1 DEF LinkInv, Reads
<1>4. overlapped' = overlapped /\ x # y /\ \A z \in Documents : z # d => work'[z] = work[z]
  BY DEF CommitLink, LinkInv, Filing, AttachOnly
<1>5. /\ {x, y} \notin overlapped
      /\ \A z \in Documents : Filing(z) /\ SameEntry(x, z) => Content[z].number = Content[x].number
  BY <1>4 DEF Undisturbed, Apart, AttachOnly, Filing
<1>6. Content[x].number \in Numbers
  BY ContentAssumption DEF Filing
<1>7. CASE x = d
  <2>1. Committed(y) /\ y # d
    BY <1>4, <1>7 DEF Committed
  <2>2. work[y].pc # "linked"
    BY <1>1, <1>5, <1>7, <2>1, Beside
  <2>3. y \in extracted
    BY <2>1, <2>2 DEF Committed, LinkInv, Left
  <2>4. y \in work[d].stored
    BY <1>3, <1>5, <1>7, <2>3 DEF ReadStored
  <2> QED
    BY <1>1, <1>7, <2>1, <2>4 DEF Adopts, SameEntry
<1>8. CASE y = d
  <2>1. <<x, Entry(Content[x].number)>> \in graph.links
    BY <1>2, <1>4, <1>8 DEF Attached
  <2>2. Entry(Content[x].number) \in graph.rows
    BY <1>1, <2>1 DEF TablesOK
  <2>3. {d, x} = {x, y}
    BY <1>8
  <2>4. <<x, Entry(Content[x].number)>> \in saw.links
    BY <1>3, <1>5, <2>1, <2>2, <2>3 DEF ReadLinks, Attached
  <2>5. Entry(Content[x].number) \in saw.rows
    BY <1>1, <2>4 DEF TablesOK
  <2>6. /\ Is(Entry(Content[x].number), "entry")
        /\ Digits[Entry(Content[x].number)[2]] = Digits[Content[d].number]
    BY <1>8, Tags DEF SameEntry
  <2>7. PICK e \in EntryFor(saw, Content[d].number) : TRUE
    BY <2>5, <2>6, EntryFound
  <2>8. e \in saw.rows /\ Is(e, "entry") /\ Digits[e[2]] = Digits[Content[d].number]
    BY <2>7, EntryFound
  <2>9. PICK z \in Documents : Filing(z) /\ e = Entry(Content[z].number)
    BY <1>3, <2>8 DEF ReadBefore, Owned
  <2>10. e = Entry(Content[x].number)
    <3>1. e[2] = Content[z].number
      BY <2>9, Tags
    <3>2. Digits[Content[z].number] = Digits[Content[x].number]
      BY <1>8, <2>8, <3>1 DEF SameEntry
    <3> QED
      BY <1>5, <2>9, <3>2 DEF SameEntry
  <2>11. e \in made.attaches
    BY <1>1, <1>8, <2>7, Attaches
  <2> QED
    BY <1>1, <1>8, <2>10, <2>11 DEF Adopts, AttachOnly
<1>9. CASE x # d /\ y # d
  BY <1>2, <1>4, <1>9 DEF LinkInv, MeetByDigits, Attached, Adopts, Committed, Undisturbed, Apart
<1> QED
  BY <1>7, <1>8, <1>9

\* The entries of the packet, and those that name the invoice, are touched.
LEMMA DirectlyTouched ==
  ASSUME NEW g, NEW d \in Documents
  PROVE  /\ Siblings(g, d, "entry") \subseteq Touched(g, d)
         /\ \A n, i : i \in Content[d].invoices /\ Linked(g, Entry(n), Invoice(i)) =>
              Entry(n) \in Touched(g, d)
<1> DEFINE named == {e[1] : e \in {f \in g.edges : \E i \in Content[d].invoices : f[2] = Invoice(i)}}
           direct == Siblings(g, d, "entry") \cup named
<1>1. direct \subseteq Touched(g, d)
  <2>1. CASE direct = {}
    BY <2>1
  <2>2. CASE direct # {}
    BY <2>2 DEF Touched
  <2> QED
    BY <2>1, <2>2
<1>2. \A n, i : i \in Content[d].invoices /\ Linked(g, Entry(n), Invoice(i)) => Entry(n) \in named
  <2> SUFFICES ASSUME NEW n, NEW i \in Content[d].invoices, NEW f \in g.edges,
                      f[1] = Entry(n), f[2] = Invoice(i)
               PROVE  Entry(n) \in named
    BY DEF Linked
  <2> QED
    OBVIOUS
<1> QED
  BY <1>1, <1>2

LEMMA CommitMeetsPacket ==
  ASSUME LinkInv, NEW d \in Documents, CommitLink(d)
  PROVE  MeetByPacket'
<1> DEFINE saw == work[d].saw
           made == LinkEffects(saw, d)
<1> SUFFICES ASSUME NEW x \in Documents, NEW y \in Documents, Filing(x), Invoicing(y),
                    {x, y} \notin overlapped',
                    Content[x].packet # Nothing, Content[x].packet = Content[y].packet,
                    Attached(x, Entry(Content[x].number))',
                    NEW i \in Content[y].invoices, Attached(y, Invoice(i))'
             PROVE  Linked(graph', Entry(Content[x].number), Invoice(i))
  BY DEF MeetByPacket
<1>1. /\ TablesOK(saw) /\ TablesOK(graph) /\ work[d].pc = "matched"
      /\ \A f : f \in graph'.edges <=> (f \in graph.edges /\ ~Replaced(d, f)) \/ f \in made.joins
  BY CommitWrites
<1>2. /\ \A a, b : Linked(graph, a, b) /\ ~Is(b, "part") => Linked(graph', a, b)
      /\ \A z, r : (Filing(z) \/ Invoicing(z)) /\ <<z, r>> \in graph'.links =>
           <<z, r>> \in graph.links \/ z = d
  BY CommitKeeps
<1>3. ReadLinks(d)
  BY <1>1 DEF LinkInv, Reads
<1>4. overlapped' = overlapped /\ x # y
  BY DEF CommitLink, Filing, Invoicing
<1>5. Is(Invoice(i), "invoice") /\ ~Is(Invoice(i), "part") /\ Is(Entry(Content[x].number), "entry")
  BY DEF Is, Invoice, Entry
<1>6. CASE x = d
  <2>1. <<y, Invoice(i)>> \in graph.links
    BY <1>2, <1>4, <1>6 DEF Attached
  <2>2. <<y, Invoice(i)>> \in saw.links
    BY <1>1, <1>3, <1>4, <1>6, <2>1 DEF ReadLinks, Attached, TablesOK
  <2>3. Invoice(i) \in Siblings(saw, d, "invoice")
    BY <1>4, <1>5, <1>6, <2>2 DEF Siblings
  <2>4. <<Entry(Content[d].number), Invoice(i)>> \in made.joins
    BY <1>1, <1>6, <2>3, Joins
  <2> QED
    BY <1>1, <1>6, <2>4 DEF Linked
<1>7. CASE y = d
  <2>1. <<x, Entry(Content[x].number)>> \in graph.links
    BY <1>2, <1>4, <1>7 DEF Attached
  <2>2. {d, x} = {x, y}
    BY <1>7
  <2>3. <<x, Entry(Content[x].number)>> \in saw.links
    BY <1>1, <1>3, <1>4, <2>1, <2>2 DEF ReadLinks, Attached, TablesOK
  <2>4. Entry(Content[x].number) \in Siblings(saw, d, "entry")
    BY <1>4, <1>5, <1>7, <2>3 DEF Siblings
  <2>5. Entry(Content[x].number) \in Touched(saw, d)
    BY <2>4, DirectlyTouched
  <2>6. Invoice(i) \in Invoices(d)
    BY <1>7 DEF Invoices
  <2>7. <<Entry(Content[x].number), Invoice(i)>> \in made.joins
    BY <1>1, <1>7, <2>5, <2>6, Joins
  <2> QED
    BY <1>1, <2>7 DEF Linked
<1>8. CASE x # d /\ y # d
  BY <1>2, <1>4, <1>5, <1>8 DEF LinkInv, MeetByPacket, Attached
<1> QED
  BY <1>6, <1>7, <1>8

\* A line and the part it declares: the 7501 links what is there, a new part
\* adopts the lines that are.
LEMMA CommitMeetsPart ==
  ASSUME LinkInv, NEW d \in Documents, CommitLink(d)
  PROVE  MeetByPart'
<1> DEFINE saw == work[d].saw
           made == LinkEffects(saw, d)
<1> SUFFICES ASSUME NEW n \in Numbers, NEW y \in Documents, Quotes(y),
                    Part(Content[y].sku) \in graph'.rows, graph'.line[n] = Content[y].sku
             PROVE  \/ Linked(graph', Entry(n), Part(Content[y].sku))
                    \/ \E x \in Documents, z \in Quoting(y) :
                         Filing(x) /\ Content[x].number = n /\ {x, z} \in overlapped
  BY DEF MeetByPart, CommitLink
<1>1. /\ TablesOK(saw) /\ TablesOK(graph) /\ work[d].pc = "matched"
      /\ graph'.rows = graph.rows \cup made.creates
      /\ \A f : f \in graph'.edges <=> (f \in graph.edges /\ ~Replaced(d, f)) \/ f \in made.joins
      /\ graph'.line[n] = IF Filing(d) /\ n = Content[d].number THEN Content[d].sku ELSE graph.line[n]
  BY CommitWrites
<1>2. ~(Filing(d) /\ n = Content[d].number) =>
        \A b : Linked(graph, Entry(n), b) => Linked(graph', Entry(n), b)
  BY CommitKeeps
<1>3. ReadBefore(d) /\ ReadParts(d) /\ ReadLines(d)
  BY <1>1 DEF LinkInv, Reads
<1>4. Part(Content[y].sku) \in made.creates => Quotes(d) /\ Part(Content[y].sku) = Part(Content[d].sku)
  BY <1>1, Creates, Tags
<1>5. CASE Filing(d) /\ n = Content[d].number
  <2>1. Content[d].sku = Content[y].sku
    BY <1>1, <1>5
  <2>2. Part(Content[y].sku) \in graph.rows
    BY <1>1, <1>4, <1>5 DEF Filing, Quotes
  <2>3. CASE Part(Content[y].sku) \in saw.rows
    <3>1. Part(Content[y].sku) \in {Part(Content[d].sku)} \cap saw.rows
      BY <2>1, <2>3
    <3>2. <<Entry(n), Part(Content[y].sku)>> \in made.joins
      BY <1>1, <1>5, <3>1, Joins
    <3> QED
      BY <1>1, <3>2 DEF Linked
  <2>4. CASE Part(Content[y].sku) \notin saw.rows
    BY <1>3, <1>5, <2>2, <2>4 DEF ReadParts
  <2> QED
    BY <2>3, <2>4
<1>6. CASE ~(Filing(d) /\ n = Content[d].number) /\ Part(Content[y].sku) \in graph.rows
  BY <1>1, <1>2, <1>6 DEF LinkInv, MeetByPart
<1>7. CASE ~(Filing(d) /\ n = Content[d].number) /\ Part(Content[y].sku) \notin graph.rows
  <2>1. Part(Content[y].sku) \in made.creates
    BY <1>1, <1>7
  <2>2. Quotes(d) /\ Content[d].sku = Content[y].sku
    BY <1>4, <2>1 DEF Part
  <2>3. Part(Content[d].sku) \notin saw.rows
    BY <1>3, <1>7, <2>2 DEF ReadBefore
  <2>4. CASE saw.line[n] = graph.line[n]
    <3>1. Entry(n) \in Adopted(saw, d)
      <4>1. saw.line[n] = Content[d].sku
        BY <1>1, <1>7, <2>2, <2>4
      <4> QED
        BY <1>1, <2>2, <2>3, <4>1, AdoptedRows
    <3>2. <<Entry(n), Part(Content[y].sku)>> \in made.joins
      BY <1>1, <2>2, <3>1, Joins
    <3> QED
      BY <1>1, <3>2 DEF Linked
  <2>5. CASE saw.line[n] # graph.line[n]
    <3>1. PICK x \in Documents : Filing(x) /\ Content[x].number = n /\ {x, d} \in overlapped
      BY <1>3, <2>5 DEF ReadLines
    <3>2. d \in Quoting(y)
      BY <2>2 DEF Quoting, Quotes
    <3> QED
      BY <3>1, <3>2
  <2> QED
    BY <2>4, <2>5
<1> QED
  BY <1>5, <1>6, <1>7

\* A bill of lading has one row, unless two documents that carry it were in
\* process together.
LEMMA CommitOneShipment ==
  ASSUME LinkInv, NEW d \in Documents, CommitLink(d)
  PROVE  OneShipment'
<1> DEFINE saw == work[d].saw
           made == LinkEffects(saw, d)
           Twice(key) == \E w, z \in Documents :
             Carries(w, key) /\ Carries(z, key) /\ {w, z} \in overlapped
<1>1. /\ TablesOK(saw) /\ work[d].pc = "matched"
      /\ graph'.rows = graph.rows \cup made.creates
  BY CommitWrites
<1>2. ReadBefore(d) /\ ReadShipments(d)
  BY <1>1 DEF LinkInv, Reads
<1>3. \A r \in made.creates : Is(r, "shipment") =>
        r \in Shipments(saw, d) /\ Carries(d, BolKey[r[2]])
  <2>1. \A r \in made.creates : Is(r, "shipment") =>
          r \in Shipments(saw, d) /\ Content[d].kind \in {"port_entry", "shipment"}
    BY <1>1, Creates
  <2>2. \A r \in Shipments(saw, d) : \E b \in Content[d].bols : BolKey[r[2]] = BolKey[b]
    BY <1>1, ShipmentRows
  <2> QED
    BY <2>1, <2>2 DEF Carries
<1>4. /\ \A r, q \in Shipments(saw, d) \ saw.rows : BolKey[r[2]] = BolKey[q[2]] => r = q
      /\ \A r \in Shipments(saw, d) \ saw.rows, q \in saw.rows :
           Is(q, "shipment") => BolKey[r[2]] # BolKey[q[2]]
  BY <1>1, ShipmentRows
<1> HIDE DEF saw, made
\* A row that is made here, and any other.
<1>5. ASSUME NEW r \in made.creates \ graph.rows, NEW q \in graph'.rows,
             Is(r, "shipment"), Is(q, "shipment"), BolKey[r[2]] = BolKey[q[2]]
      PROVE  r = q \/ Twice(BolKey[r[2]])
  <2>1. r \in Shipments(saw, d) \ saw.rows /\ Carries(d, BolKey[r[2]])
    BY <1>2, <1>3, <1>5 DEF ReadBefore, saw
  <2>2. CASE q \in saw.rows
    BY <1>4, <1>5, <2>1, <2>2
  <2>3. CASE q \in graph.rows \ saw.rows
    <3>1. PICK z \in Documents : Carries(z, BolKey[q[2]]) /\ {d, z} \in overlapped
      BY <1>2, <1>5, <2>3 DEF ReadShipments, saw
    <3> QED
      BY <1>5, <2>1, <3>1
  <2>4. CASE q \in made.creates \ saw.rows
    BY <1>3, <1>4, <1>5, <2>1, <2>4
  <2> QED
    BY <1>1, <2>2, <2>3, <2>4
<1> SUFFICES ASSUME NEW r \in graph'.rows, NEW q \in graph'.rows,
                    Is(r, "shipment"), Is(q, "shipment"), BolKey[r[2]] = BolKey[q[2]]
             PROVE  r = q \/ Twice(BolKey[r[2]])
  BY DEF OneShipment, CommitLink
<1>6. CASE r \in graph.rows /\ q \in graph.rows
  BY <1>6 DEF LinkInv, OneShipment
<1>7. CASE r \notin graph.rows
  <2>1. r \in made.creates \ graph.rows
    BY <1>1, <1>7
  <2> QED
    BY <1>5, <2>1
<1>8. CASE q \notin graph.rows
  <2>1. q \in made.creates \ graph.rows
    BY <1>1, <1>8
  <2>2. q = r \/ Twice(BolKey[q[2]])
    BY <1>5, <2>1
  <2> QED
    BY <2>2
<1> QED
  BY <1>6, <1>7, <1>8

\* An entry the transaction does not audit keeps its facts.
LEMMA CommitAlerts ==
  ASSUME LinkInv, NEW d \in Documents, CommitLink(d)
  PROVE  AlertsOfFacts'
<1> DEFINE saw == work[d].saw
           made == LinkEffects(saw, d)
           own == Entry(Content[d].number)
<1> SUFFICES ASSUME NEW n \in Numbers, Entry(n) \in graph'.rows, ~Raced(n)
             PROVE  audited'[n] = Facts(graph', n)
  BY DEF AlertsOfFacts, Raced, CommitLink
<1>1. /\ TablesOK(saw) /\ TablesOK(graph) /\ work[d].pc = "matched"
      /\ graph'.rows = graph.rows \cup made.creates
      /\ \A f : f \in graph'.edges <=> (f \in graph.edges /\ ~Replaced(d, f)) \/ f \in made.joins
      /\ \A x : x \in graph'.filled <=>
              \/ x \in graph.filled
              \/ Invoicing(d) /\ x \in Invoices(d)
              \/ Content[d].kind = "shipment" /\ x \in Shipments(saw, d)
      /\ graph'.line[n] = IF Filing(d) /\ n = Content[d].number THEN Content[d].sku ELSE graph.line[n]
      /\ audited'[n] = IF Entry(n) \in Reaudited(graph, saw, d) THEN Facts(graph', n) ELSE audited[n]
  BY CommitWrites
<1>2. CASE Entry(n) \in Reaudited(graph, saw, d)
  BY <1>1, <1>2
<1>3. CASE Entry(n) \notin Reaudited(graph, saw, d)
  <2>1. ReadBefore(d) /\ ReadEdges(d)
    BY <1>1 DEF LinkInv, Reads
  <2>2. /\ Filing(d) => own \in Reaudited(graph, saw, d)
        /\ Invoicing(d) => Touched(saw, d) \subseteq Reaudited(graph, saw, d)
        /\ Content[d].kind = "shipment" => \A f \in graph.edges :
             f[1] = Entry(n) /\ f[2] \in Shipments(saw, d) \ saw.filled
               => Entry(n) \in Reaudited(graph, saw, d)
        /\ Quotes(d) => Adopted(saw, d) \subseteq Reaudited(graph, saw, d)
    <3>1. Is(Entry(n), "entry")
      BY Tags
    <3> QED
      BY <3>1 DEF Reaudited, Filing, Invoicing, Quotes
  <2>3. Entry(n) \in graph.rows
    <3>1. \A r \in made.creates : Is(r, "entry") => Filing(d) /\ r = own
      BY <1>1, Creates
    <3> QED
      BY <1>1, <1>3, <2>2, <3>1, Tags
  <2>4. audited'[n] = Facts(graph, n)
    BY <1>1, <1>3, <2>3 DEF LinkInv, AlertsOfFacts
  <2>5. \A f \in made.joins : f[1] = Entry(n) => Is(f[2], "claim")
    <3>1. \A f \in made.joins : Is(f[1], "entry") =>
            \/ Filing(d) /\ f[1] = own
            \/ Invoicing(d) /\ f[1] \in Touched(saw, d) /\ f[2] \in Invoices(d)
            \/ Quotes(d) /\ f[1] \in Adopted(saw, d) /\ f[2] = Part(Content[d].sku)
            \/ Is(f[2], "claim")
      BY <1>1, Joins
    <3>2. Is(Entry(n), "entry")
      BY Tags
    <3> HIDE DEF made
    <3> QED
      BY <1>3, <2>2, <3>1, <3>2
  <2>6. Filing(d) => n # Content[d].number
    BY <1>3, <2>2
  \* Beside claims, the entry's edges are what they were.
  <2>7. \A x : ~Is(x, "claim") => (Linked(graph', Entry(n), x) <=> Linked(graph, Entry(n), x))
    <3>1. \A f : f[1] = Entry(n) => ~Replaced(d, f)
      BY <2>6 DEF Replaced, Entry
    <3> HIDE DEF made
    <3> QED
      BY <1>1, <2>5, <3>1 DEF Linked
  \* What is filled now, near the entry, was filled.
  <2>8. \A x : Linked(graph, Entry(n), x) /\ x \in graph'.filled => x \in graph.filled
    <3> SUFFICES ASSUME NEW x, Linked(graph, Entry(n), x), x \in graph'.filled, x \notin graph.filled
                 PROVE  FALSE
      OBVIOUS
    <3>1. CASE Invoicing(d) /\ x \in Invoices(d)
      <4>1. PICK i \in Content[d].invoices : x = Invoice(i)
        BY <3>1 DEF Invoices
      <4>2. Linked(saw, Entry(n), Invoice(i))
        BY <2>1, <3>1, <4>1 DEF ReadEdges
      <4>3. Entry(n) \in Touched(saw, d)
        BY <4>2, DirectlyTouched
      <4> QED
        BY <1>3, <2>2, <3>1, <4>3
    <3>2. CASE Content[d].kind = "shipment" /\ x \in Shipments(saw, d)
      <4>1. x \notin saw.filled
        BY <2>1 DEF ReadBefore
      <4> QED
        BY <1>3, <2>2, <3>2, <4>1 DEF Linked
    <3> QED
      BY <1>1, <3>1, <3>2
  <2>9. graph.filled \subseteq graph'.filled
    BY CommitKeeps
  <2>10. Facts(graph', n) = Facts(graph, n)
    <3> DEFINE near == {e[2] : e \in {f \in graph.edges : f[1] = Entry(n)}}
               after == {e[2] : e \in {f \in graph'.edges : f[1] = Entry(n)}}
    <3>1. /\ \A x : x \in near <=> Linked(graph, Entry(n), x)
          /\ \A x : x \in after <=> Linked(graph', Entry(n), x)
      BY DEF Linked
    <3>2. /\ Facts(graph, n) = [line |-> graph.line[n], part |-> {x \in near : Is(x, "part")},
                                known |-> near \cap graph.filled]
          /\ Facts(graph', n) = [line |-> graph'.line[n], part |-> {x \in after : Is(x, "part")},
                                 known |-> after \cap graph'.filled]
      BY DEF Facts
    <3>3. graph'.line[n] = graph.line[n]
      BY <1>1, <2>6
    <3>4. Owned(graph)'
      BY CommitKeeps
    <3>5. \A x \in graph'.filled : ~Is(x, "claim")
      BY <3>4 DEF Owned, Is
    <3> HIDE DEF near, after
    <3>6. {x \in near : Is(x, "part")} = {x \in after : Is(x, "part")}
      BY <2>7, <3>1 DEF Is
    <3>7. near \cap graph.filled = after \cap graph'.filled
      BY <2>7, <2>8, <2>9, <3>1, <3>5
    <3> QED
      BY <3>2, <3>3, <3>6, <3>7
  <2> QED
    BY <2>4, <2>10
<1> QED
  BY <1>2, <1>3

-----------------------------------------------------------------------------
(* The theorems.                                                           *)

\* Nothing is in the tables at first, and nothing in process.
LEMMA LinkInvInit == LinkInit => LinkInv
<1> SUFFICES ASSUME LinkInit PROVE LinkInv
  OBVIOUS
<1>1. /\ graph.rows = {} /\ graph.edges = {} /\ graph.links = {} /\ graph.filled = {}
      /\ \A n \in Numbers : graph.line[n] = Nothing /\ graph.sheet[n] = Nothing
      /\ DOMAIN work = Documents /\ \A d \in Documents : work[d].pc = "registered"
  BY DEF LinkInit
<1>2. LinkTypeOK
  BY <1>1, LinkBoundsAssumption DEF LinkInit, LinkTypeOK, TablesOK
<1>3. Owned(graph) /\ ProcessedTogether
  BY <1>1 DEF Owned, ProcessedTogether, InProcess, Resting
<1>4. Reads /\ Left /\ MeetByDigits /\ MeetByPacket /\ MeetByPart /\ OneShipment /\ AlertsOfFacts
  BY <1>1 DEF Reads, Left, Committed, MeetByDigits, MeetByPacket, Attached, MeetByPart,
     OneShipment, AlertsOfFacts
<1> QED
  BY <1>1, <1>2, <1>3, <1>4 DEF LinkInv

\* Reading, persisting and failing write nothing that anybody reads but the
\* extraction on file.
LEMMA Quiet ==
  ASSUME LinkInv, NEW d \in Documents,
         graph' = graph, audited' = audited, overlapped \subseteq overlapped',
         DOMAIN work' = Documents, \A y \in Documents : y # d => work'[y] = work[y],
         Committed(d)' => Committed(d)
  PROVE  /\ Owned(graph)' /\ MeetByDigits' /\ MeetByPacket' /\ MeetByPart' /\ OneShipment'
         /\ AlertsOfFacts'
         /\ \A y \in Documents : y # d /\ work[y].pc = "matched" =>
              /\ ReadBefore(y)' /\ ReadLinks(y)' /\ ReadEdges(y)'
              /\ ReadShipments(y)' /\ ReadParts(y)' /\ ReadLines(y)'
<1>1. \A y \in Documents : Committed(y)' => Committed(y)
  BY DEF Committed
<1>2. \A x, y : Undisturbed(x, y)' => Undisturbed(x, y)
  <2>1. \A X, Y : Apart(X, Y)' => Apart(X, Y)
    BY DEF Apart
  <2> QED
    BY <2>1 DEF Undisturbed
<1>3. Owned(graph)'
  BY DEF LinkInv, Owned
<1>4. MeetByDigits'
  BY <1>1, <1>2 DEF LinkInv, MeetByDigits, Adopts, Attached
<1>5. MeetByPacket'
  BY DEF LinkInv, MeetByPacket, Attached
<1>6. MeetByPart'
  <2> SUFFICES ASSUME NEW n \in Numbers, NEW y \in Documents, Quotes(y),
                      Part(Content[y].sku) \in graph.rows, graph.line[n] = Content[y].sku
               PROVE  \/ Linked(graph, Entry(n), Part(Content[y].sku))
                      \/ \E x \in Documents, z \in Quoting(y) :
                           Filing(x) /\ Content[x].number = n /\ {x, z} \in overlapped'
    BY DEF MeetByPart
  <2> QED
    BY DEF LinkInv, MeetByPart
<1>7. OneShipment'
  <2> SUFFICES ASSUME NEW r \in graph.rows, NEW q \in graph.rows,
                      Is(r, "shipment"), Is(q, "shipment"), BolKey[r[2]] = BolKey[q[2]], r # q
               PROVE  \E w, z \in Documents :
                        Carries(w, BolKey[r[2]]) /\ Carries(z, BolKey[r[2]]) /\ {w, z} \in overlapped'
    BY DEF OneShipment
  <2> QED
    BY DEF LinkInv, OneShipment
<1>8. \A n : Raced(n) => Raced(n)'
  BY DEF Raced
<1>9. AlertsOfFacts'
  BY <1>8 DEF LinkInv, AlertsOfFacts
<1>10. ASSUME NEW y \in Documents, y # d, work[y].pc = "matched"
       PROVE  /\ ReadBefore(y)' /\ ReadLinks(y)' /\ ReadEdges(y)'
              /\ ReadShipments(y)' /\ ReadParts(y)' /\ ReadLines(y)'
  <2>1. /\ ReadBefore(y) /\ ReadLinks(y) /\ ReadEdges(y)
        /\ ReadShipments(y) /\ ReadParts(y) /\ ReadLines(y)
    BY <1>10 DEF LinkInv, Reads
  <2>2. work'[y] = work[y]
    BY <1>10
  <2>3. ReadBefore(y)' /\ ReadLinks(y)'
    BY <2>1, <2>2 DEF ReadBefore, ReadLinks, Attached
  <2>4. ReadEdges(y)'
    BY <1>8, <2>1, <2>2 DEF ReadEdges
  <2>5. ReadShipments(y)'
    BY <2>1, <2>2 DEF ReadShipments
  <2>6. ReadParts(y)'
    BY <2>1, <2>2 DEF ReadParts
  <2>7. ReadLines(y)'
    BY <2>1, <2>2 DEF ReadLines
  <2> QED
    BY <2>3, <2>4, <2>5, <2>6, <2>7
<1> QED
  BY <1>3, <1>4, <1>5, <1>6, <1>7, <1>9, <1>10

LEMMA MatchKeeps ==
  ASSUME LinkInv, NEW d \in Documents, MatchDocument(d)
  PROVE  LinkInv'
<1>1. /\ graph' = graph /\ extracted' = extracted /\ audited' = audited
      /\ overlapped' = overlapped \cup {{d, x} : x \in InProcess}
      /\ work' = [work EXCEPT ![d] = [pc |-> "matched", saw |-> graph, stored |-> extracted]]
      /\ Resting(d)
  BY DEF MatchDocument
<1>2. /\ DOMAIN work' = Documents
      /\ \A y \in Documents : y # d => work'[y] = work[y]
      /\ work'[d].pc = "matched" /\ work'[d].saw = graph /\ work'[d].stored = extracted
  BY <1>1 DEF LinkInv
<1>3. ~Committed(d)' /\ overlapped \subseteq overlapped'
  BY <1>1, <1>2 DEF Committed
<1>4. /\ Owned(graph)' /\ MeetByDigits' /\ MeetByPacket' /\ MeetByPart' /\ OneShipment'
      /\ AlertsOfFacts'
      /\ \A y \in Documents : y # d /\ work[y].pc = "matched" =>
           /\ ReadBefore(y)' /\ ReadLinks(y)' /\ ReadEdges(y)'
           /\ ReadShipments(y)' /\ ReadParts(y)' /\ ReadLines(y)'
  BY <1>1, <1>2, <1>3, Quiet
<1>5. LinkTypeOK'
  <2>1. reruns' \in 0..MaxReruns
    BY LinkBoundsAssumption DEF MatchDocument, LinkInv, LinkTypeOK
  <2>2. overlapped' \subseteq SUBSET Documents
    BY <1>1 DEF InProcess, LinkInv, LinkTypeOK
  <2> QED
    BY <1>1, <1>2, <2>1, <2>2 DEF LinkInv, LinkTypeOK, TablesOK
<1>6. ProcessedTogether'
  <2> SUFFICES ASSUME NEW x \in Documents, NEW y \in Documents, x # y, ~Resting(x)', ~Resting(y)'
               PROVE  {x, y} \in overlapped'
    BY DEF ProcessedTogether, InProcess
  <2>1. \A z \in Documents : z # d /\ ~Resting(z)' => z \in InProcess
    BY <1>2 DEF InProcess, Resting
  <2>2. CASE x = d
    BY <1>1, <2>1, <2>2
  <2>3. CASE y = d
    <3>1. {x, y} = {d, x}
      BY <2>3
    <3> QED
      BY <1>1, <2>1, <2>3, <3>1
  <2>4. CASE x # d /\ y # d
    BY <1>3, <2>1, <2>4 DEF LinkInv, ProcessedTogether
  <2> QED
    BY <2>2, <2>3, <2>4
<1>7. Reads'
  <2> SUFFICES ASSUME NEW y \in Documents, work'[y].pc = "matched"
               PROVE  /\ ReadBefore(y)' /\ ReadLinks(y)' /\ ReadStored(y)' /\ ReadEdges(y)'
                      /\ ReadShipments(y)' /\ ReadParts(y)' /\ ReadLines(y)'
    BY DEF Reads
  <2>1. CASE y = d
    <3>1. ReadBefore(d)'
      BY <1>1, <1>2 DEF ReadBefore, LinkInv, LinkTypeOK, TablesOK, Owned
    <3>2. ReadLinks(d)' /\ ReadStored(d)' /\ ReadEdges(d)'
      BY <1>1, <1>2 DEF ReadLinks, ReadStored, ReadEdges, Attached
    <3>3. ReadShipments(d)' /\ ReadParts(d)' /\ ReadLines(d)'
      BY <1>1, <1>2 DEF ReadShipments, ReadParts, ReadLines
    <3> QED
      BY <2>1, <3>1, <3>2, <3>3
  <2>2. CASE y # d
    <3>1. work[y].pc = "matched"
      BY <1>2, <2>2
    <3>2. ReadStored(y)'
      BY <1>1, <1>2, <1>3, <2>2, <3>1 DEF LinkInv, Reads, ReadStored
    <3> QED
      BY <1>4, <2>2, <3>1, <3>2
  <2> QED
    BY <2>1, <2>2
<1>8. Left'
  BY <1>1, <1>2, <1>3 DEF LinkInv, Left, Committed, LeftByFiling, LeftByInvoice, LeftByShipment, Attached
<1> QED
  BY <1>2, <1>4, <1>5, <1>6, <1>7, <1>8 DEF LinkInv

\* The extraction of a linked document is stored while others are reading, or
\* it never is.
LEMMA SettleKeeps ==
  ASSUME LinkInv, NEW d \in Documents, PersistExtraction(d) \/ FailDocument(d)
  PROVE  LinkInv'
<1>1. /\ graph' = graph /\ audited' = audited /\ overlapped' = overlapped /\ reruns' = reruns
      /\ DOMAIN work' = Documents
      /\ \A y \in Documents : y # d => work'[y] = work[y]
      /\ \/ work[d].pc = "linked" /\ work'[d].pc = "processed" /\ extracted' = extracted \cup {d}
         \/ work'[d].pc = "failed" /\ extracted' = extracted
  BY DEF LinkInv, PersistExtraction, FailDocument
<1>2. ~Resting(d)
  BY DEF PersistExtraction, FailDocument, Resting
<1>3. Committed(d)' => Committed(d)
  BY <1>1 DEF Committed
<1>4. /\ Owned(graph)' /\ MeetByDigits' /\ MeetByPacket' /\ MeetByPart' /\ OneShipment'
      /\ AlertsOfFacts'
      /\ \A y \in Documents : y # d /\ work[y].pc = "matched" =>
           /\ ReadBefore(y)' /\ ReadLinks(y)' /\ ReadEdges(y)'
           /\ ReadShipments(y)' /\ ReadParts(y)' /\ ReadLines(y)'
  BY <1>1, <1>3, Quiet
<1>5. LinkTypeOK'
  BY <1>1 DEF LinkInv, LinkTypeOK, TablesOK
<1>6. ProcessedTogether'
  BY <1>1, <1>2 DEF LinkInv, ProcessedTogether, InProcess, Resting
<1>7. Reads'
  <2> SUFFICES ASSUME NEW y \in Documents, work'[y].pc = "matched"
               PROVE  /\ ReadBefore(y)' /\ ReadLinks(y)' /\ ReadStored(y)' /\ ReadEdges(y)'
                      /\ ReadShipments(y)' /\ ReadParts(y)' /\ ReadLines(y)'
    BY DEF Reads
  <2>1. y # d /\ work'[y] = work[y] /\ work[y].pc = "matched"
    BY <1>1
  <2>2. ReadStored(y)'
    <3>1. ReadStored(y)
      BY <2>1 DEF LinkInv, Reads
    <3>2. CASE work[d].pc = "linked"
      <4>1. {y, d} \in overlapped
        BY <2>1, <3>2, Beside
      <4>2. extracted' = extracted \cup {d} \/ extracted' = extracted
        BY <1>1
      <4>3. \A z \in extracted' : z \in work[y].stored \/ {y, z} \in overlapped
        BY <3>1, <4>1, <4>2 DEF ReadStored
      <4> QED
        BY <1>1, <2>1, <4>3 DEF ReadStored
    <3>3. CASE extracted' = extracted
      BY <1>1, <2>1, <3>1, <3>3 DEF ReadStored
    <3> QED
      BY <1>1, <3>2, <3>3
  <2> QED
    BY <1>4, <2>1, <2>2
<1>8. Left'
  <2> SUFFICES ASSUME NEW y \in Documents, Committed(y)'
               PROVE  /\ Filing(y) => LeftByFiling(y)'
                      /\ Invoicing(y) => LeftByInvoice(y)'
                      /\ Content[y].kind = "shipment" => LeftByShipment(y)'
                      /\ Quotes(y) => Part(Content[y].sku) \in graph'.rows
                      /\ work'[y].pc = "processed" /\ AttachOnly(y) => y \in extracted'
    BY DEF Left
  <2>1. Committed(y)
    BY <1>1, <1>3 DEF Committed
  <2>2. work'[y].pc = "processed" /\ AttachOnly(y) => y \in extracted'
    BY <1>1, <2>1 DEF LinkInv, Left, Committed
  <2> QED
    BY <1>1, <2>1, <2>2 DEF LinkInv, Left, LeftByFiling, LeftByInvoice, LeftByShipment, Attached
<1> QED
  BY <1>1, <1>4, <1>5, <1>6, <1>7, <1>8 DEF LinkInv

LEMMA CommitKeepsAll ==
  ASSUME LinkInv, NEW d \in Documents, CommitLink(d)
  PROVE  LinkInv'
<1>1. /\ extracted' = extracted /\ overlapped' = overlapped /\ reruns' = reruns
      /\ DOMAIN work' = Documents
      /\ \A y \in Documents : y # d => work'[y] = work[y]
      /\ work'[d].pc \in {"linked", "processed"} /\ work[d].pc = "matched"
  BY DEF LinkInv, CommitLink
<1>2. TablesOK(graph)' /\ Owned(graph)'
  BY CommitKeeps
<1>3. DOMAIN audited' = Numbers
  BY CommitWrites
<1>4. LinkTypeOK'
  BY <1>1, <1>2, <1>3 DEF LinkInv, LinkTypeOK
<1>5. ProcessedTogether'
  BY <1>1 DEF LinkInv, ProcessedTogether, InProcess, Resting
<1>6. Reads' /\ Left' /\ MeetByDigits' /\ MeetByPacket' /\ MeetByPart' /\ OneShipment' /\ AlertsOfFacts'
  BY CommitReads, CommitLeft, CommitMeetsDigits, CommitMeetsPacket, CommitMeetsPart,
     CommitOneShipment, CommitAlerts
<1> QED
  BY <1>1, <1>2, <1>4, <1>5, <1>6 DEF LinkInv

LEMMA LinkStep == LinkInv /\ [LinkNext]_linkVars => LinkInv'
<1> SUFFICES ASSUME LinkInv, [LinkNext]_linkVars PROVE LinkInv'
  OBVIOUS
<1>1. ASSUME NEW d \in Documents, MatchDocument(d) PROVE LinkInv'
  BY <1>1, MatchKeeps
<1>2. ASSUME NEW d \in Documents, CommitLink(d) PROVE LinkInv'
  BY <1>2, CommitKeepsAll
<1>3. ASSUME NEW d \in Documents, PersistExtraction(d) \/ FailDocument(d) PROVE LinkInv'
  BY <1>3, SettleKeeps
<1>4. CASE UNCHANGED linkVars
  <2>1. LinkTypeOK' /\ (DOMAIN work = Documents)' /\ Owned(graph)' /\ ProcessedTogether'
    BY <1>4 DEF linkVars, LinkInv, LinkTypeOK, TablesOK, Owned, ProcessedTogether, InProcess, Resting
  <2>2. Reads'
    <3> SUFFICES ASSUME NEW y \in Documents, work'[y].pc = "matched"
                 PROVE  /\ ReadBefore(y)' /\ ReadLinks(y)' /\ ReadStored(y)' /\ ReadEdges(y)'
                        /\ ReadShipments(y)' /\ ReadParts(y)' /\ ReadLines(y)'
      BY DEF Reads
    <3>1. /\ ReadBefore(y) /\ ReadLinks(y) /\ ReadStored(y) /\ ReadEdges(y)
          /\ ReadShipments(y) /\ ReadParts(y) /\ ReadLines(y)
      BY <1>4 DEF linkVars, LinkInv, Reads
    <3>2. ReadBefore(y)' /\ ReadLinks(y)' /\ ReadStored(y)'
      BY <1>4, <3>1 DEF linkVars, ReadBefore, ReadLinks, Attached, ReadStored
    <3>3. ReadEdges(y)'
      BY <1>4, <3>1 DEF linkVars, ReadEdges, Raced
    <3>4. ReadShipments(y)' /\ ReadParts(y)' /\ ReadLines(y)'
      BY <1>4, <3>1 DEF linkVars, ReadShipments, ReadParts, ReadLines
    <3> QED
      BY <3>1, <3>2, <3>3, <3>4
  <2>3. Left'
    BY <1>4 DEF linkVars, LinkInv, Left, Committed, LeftByFiling, LeftByInvoice, LeftByShipment, Attached
  <2>4. MeetByDigits'
    <3>1. \A x, y : Undisturbed(x, y)' <=> Undisturbed(x, y)
      BY <1>4 DEF linkVars, Undisturbed, Apart
    <3> QED
      BY <1>4, <3>1 DEF linkVars, LinkInv, MeetByDigits, Adopts, Committed, Attached
  <2>5. MeetByPacket'
    BY <1>4 DEF linkVars, LinkInv, MeetByPacket, Attached
  <2>6. MeetByPart'
    BY <1>4 DEF linkVars, LinkInv, MeetByPart
  <2>7. OneShipment'
    BY <1>4 DEF linkVars, LinkInv, OneShipment
  <2>8. AlertsOfFacts'
    BY <1>4 DEF linkVars, LinkInv, AlertsOfFacts, Raced
  <2> QED
    BY <2>1, <2>2, <2>3, <2>4, <2>5, <2>6, <2>7, <2>8 DEF LinkInv
<1> QED
  BY <1>1, <1>2, <1>3, <1>4 DEF LinkNext

\* Whatever order documents come in, whatever fails, runs again or overlaps:
\* reads are behind only by what those beside them wrote.
THEOREM LinkInvariant == LinkSpec => []LinkInv
<1>1. LinkInit => LinkInv
  BY LinkInvInit
<1>2. LinkInv /\ [LinkNext]_linkVars => LinkInv'
  BY LinkStep
<1> QED
  BY <1>1, <1>2, PTL DEF LinkSpec

\* The tables are well formed: edges and links join rows that are there.
THEOREM LinkTypeCorrect == LinkSpec => []LinkTypeOK
<1>1. LinkInv => LinkTypeOK
  BY DEF LinkInv
<1> QED
  BY <1>1, LinkInvariant, PTL

\* A 7501 and what it is about dock.
LEMMA Docks == LinkInv => WhicheverCameFirst
<1> SUFFICES ASSUME LinkInv, NEW x \in Documents, NEW y \in Documents,
                    Filing(x), work[x].pc = "processed", work[y].pc = "processed", Undisturbed(x, y)
             PROVE  Docked(x, y)
  BY DEF WhicheverCameFirst, Done, Filing
<1> DEFINE own == Entry(Content[x].number)
           near == {f[2] : f \in {g \in graph.edges : g[1] = own}}
<1>1. Content[x].number \in Numbers
  BY ContentAssumption DEF Filing
<1>2. LeftByFiling(x) /\ Committed(x) /\ Committed(y)
  BY DEF LinkInv, Left, Committed
<1>3. \A b : Linked(graph, own, b) => b \in near
  BY DEF Linked
<1>4. CASE AttachOnly(y)
  <2>1. SameEntry(x, y) => Adopts(x, y)
    BY <1>2, <1>4 DEF LinkInv, MeetByDigits, LeftByFiling
  <2> QED
    BY <1>4, <2>1 DEF Docked, AttachOnly
<1>5. CASE Invoicing(y)
  <2>1. {x, y} \notin overlapped
    BY <1>5 DEF Undisturbed, Apart, Invoicing
  <2>2. \A i \in Content[y].invoices : Invoice(i) \in graph.filled /\ Attached(y, Invoice(i))
    BY <1>2, <1>5 DEF LinkInv, Left, LeftByInvoice
  <2>3. ASSUME Direct(x, y), NEW i \in Content[y].invoices PROVE Linked(graph, own, Invoice(i))
    <3>1. CASE Content[x].invoices \cap Content[y].invoices # {}
      <4>1. Content[y].invoices = {i}
        BY ContentAssumption, <1>5, <2>3 DEF Invoicing
      <4> QED
        BY <1>2, <3>1, <4>1 DEF LeftByFiling
    <3>2. CASE Content[x].packet # Nothing /\ Content[x].packet = Content[y].packet
      BY <1>2, <1>5, <2>1, <2>2, <2>3, <3>2 DEF LinkInv, MeetByPacket, LeftByFiling
    <3> QED
      BY <2>3, <3>1, <3>2 DEF Direct
  <2>4. Direct(x, y) => {Invoice(i) : i \in Content[y].invoices} \subseteq near \cap graph.filled
    BY <1>3, <2>2, <2>3
  <2> QED
    BY <1>5, <2>4 DEF Docked, Invoicing
<1>6. CASE Content[y].kind = "shipment"
  <2>1. ASSUME NEW a \in Content[x].bols, NEW b \in Content[y].bols, BolKey[a] = BolKey[b]
        PROVE  \E r \in near \cap graph.filled : Is(r, "shipment") /\ BolKey[r[2]] = BolKey[b]
    <3>1. PICK r \in graph.rows : /\ Is(r, "shipment") /\ BolKey[r[2]] = BolKey[a]
                                  /\ Linked(graph, own, r)
      BY <1>2 DEF LeftByFiling
    <3>2. PICK q \in graph.filled : Is(q, "shipment") /\ BolKey[q[2]] = BolKey[b]
      BY <1>2, <1>6 DEF LinkInv, Left, LeftByShipment
    <3>3. q \in graph.rows
      BY <3>2 DEF LinkInv, LinkTypeOK, TablesOK
    <3>4. \A z \in Documents : Carries(z, BolKey[r[2]]) => z \in Carrying(y)
      BY <2>1, <3>1 DEF Carries, Carrying
    <3>5. Apart(Carrying(y), Carrying(y))
      BY <1>6 DEF Undisturbed
    <3>6. r = q
      BY <2>1, <3>1, <3>2, <3>3, <3>4, <3>5 DEF LinkInv, OneShipment, Apart
    <3> QED
      BY <1>3, <3>1, <3>2, <3>6
  <2> QED
    BY <1>6, <2>1 DEF Docked
<1>7. CASE Quotes(y)
  <2>1. Part(Content[y].sku) \in graph.rows
    BY <1>2, <1>7 DEF LinkInv, Left
  <2>2. Apart(Refiling(x), Quoting(y))
    BY <1>7 DEF Undisturbed, Quotes
  <2>3. ~ \E w \in Documents, z \in Quoting(y) :
           Filing(w) /\ Content[w].number = Content[x].number /\ {w, z} \in overlapped
    BY <2>2 DEF Apart, Refiling, Filing
  <2>4. Content[y].sku = graph.line[Content[x].number] => Linked(graph, own, Part(Content[y].sku))
    <3> SUFFICES ASSUME graph.line[Content[x].number] = Content[y].sku
                 PROVE  Linked(graph, Entry(Content[x].number), Part(Content[y].sku))
      OBVIOUS
    <3>1. MeetByPart
      BY DEF LinkInv
    <3> QED
      BY <1>1, <1>7, <2>1, <2>3, <3>1 DEF MeetByPart
  <2> QED
    BY <1>3, <1>7, <2>4 DEF Docked, Quotes
<1>8. CASE ~AttachOnly(y) /\ ~Invoicing(y) /\ Content[y].kind # "shipment" /\ ~Quotes(y)
  BY <1>8 DEF Docked, AttachOnly, Invoicing, Quotes
<1> QED
  BY <1>4, <1>5, <1>6, <1>7, <1>8

\* "The entry graph ends up identical whichever side arrived first."
THEOREM WhicheverCameFirstAlways == LinkSpec => []WhicheverCameFirst
<1>1. LinkInv => WhicheverCameFirst
  BY Docks
<1> QED
  BY <1>1, LinkInvariant, PTL

\* The alerts of an entry are those of its facts.
THEOREM AlertsOfFactsAlways == LinkSpec => []AlertsOfFacts
<1>1. LinkInv => AlertsOfFacts
  BY DEF LinkInv
<1> QED
  BY <1>1, LinkInvariant, PTL

-----------------------------------------------------------------------------
(* The services together (MCServices): each runs as it does alone.         *)

\* A step of the services is a step of the one that runs, the others stutter.
LEMMA ServicesRunApart == ServicesSpec => BaseSpec /\ LinkSpec /\ AuditSpec /\ TurnSpec
<1>1. ServicesInit => BaseInit /\ LinkInit /\ AuditInit /\ TurnInit
  BY DEF ServicesInit
<1>2. [ServicesNext]_servicesVars => [BaseNext]_baseVars
  BY DEF ServicesNext, servicesVars
<1>3. [ServicesNext]_servicesVars => [LinkNext]_linkVars
  BY DEF ServicesNext, servicesVars
<1>4. [ServicesNext]_servicesVars => [AuditNext]_auditVars
  BY DEF ServicesNext, servicesVars
<1>5. [ServicesNext]_servicesVars => [TurnNext]_turnVars
  BY DEF ServicesNext, servicesVars
<1> QED
  BY <1>1, <1>2, <1>3, <1>4, <1>5, PTL DEF ServicesSpec, BaseSpec, LinkSpec, AuditSpec, TurnSpec

\* Every table and every process of the four stays in its type.
THEOREM ServicesTypeCorrect == ServicesSpec => []ServicesTypeOK
<1>1. BaseTypeOK /\ LinkTypeOK /\ AuditTypeOK /\ TurnTypeOK => ServicesTypeOK
  BY DEF ServicesTypeOK
<1> QED
  BY <1>1, ServicesRunApart, BaseTypeCorrect, LinkTypeCorrect, AuditTypeCorrect, TurnTypeCorrect, PTL
=============================================================================
