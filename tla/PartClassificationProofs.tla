---------------------- MODULE PartClassificationProofs ----------------------
(* Theorems about PartClassification: type correctness, and that the        *)
(* windows of a part tile its history for every number of concurrent        *)
(* requests, codes and dates.                                               *)
EXTENDS PartClassification, TLAPS

Windows == [WindowIds -> Window \cup {None}]

\* A row that is there has a start, an end and a code.
LEMMA PresentShape ==
  ASSUME window \in Windows, NEW i \in WindowIds, Present(i)
  PROVE  /\ window[i] \in Window
         /\ window[i].from \in {0} \cup Days
         /\ window[i].from \in Nat
         /\ window[i].to \in Nat \cup {Open}
         /\ window[i].code \in HtsCodes
<1>1. window[i] \in Window
  BY DEF Windows, Present
<1>2. /\ window[i].from \in {0} \cup Days
      /\ window[i].to \in Nat \cup {Open}
      /\ window[i].code \in HtsCodes
  BY <1>1 DEF Window
<1>3. window[i].from \in Nat
  <2>1. {0} \cup Days \subseteq Nat
    BY DaysAssumption
  <2> QED BY <1>2, <2>1
<1> QED BY <1>1, <1>2, <1>3

\* What a commit may do to the windows: nothing to their dates, ...
SameDates ==
  \A i \in WindowIds :
    /\ Present(i)' = Present(i)
    /\ Present(i) => window'[i].from = window[i].from /\ window'[i].to = window[i].to

\* ... a first window for a part that has none, ...
FirstWindow(k) ==
  /\ \A i \in WindowIds : ~Present(i)
  /\ \A i \in WindowIds : Present(i)' <=> i = k
  /\ window'[k].to = Open

\* ... or a successor k of the current window, from day eff on.
Successor(id, k, eff) ==
  /\ id # k /\ Present(id) /\ ~Present(k)
  /\ Current = {id}
  /\ eff \in Days /\ window[id].from < eff
  /\ Present(k)' /\ window'[k].from = eff /\ window'[k].to = Open
  /\ Present(id)' /\ window'[id].from = window[id].from /\ window'[id].to = eff - 1
  /\ \A i \in WindowIds \ {id, k} : window'[i] = window[i]

Kept == Tiled /\ Ordered /\ Covered

LEMMA SameDatesKeeps ==
  ASSUME Kept, SameDates PROVE Kept'
<1>1. Current' = Current
  BY DEF SameDates, Current, Present
<1>2. OneCurrent'
  BY <1>1 DEF Kept, Tiled, OneCurrent
<1>3. Disjoint'
  BY DEF Kept, Tiled, Disjoint, Before, SameDates
<1>4. Contiguous'
  BY DEF Kept, Tiled, Contiguous, SameDates
<1>5. Ordered'
  BY DEF Kept, Ordered, SameDates
<1>6. Covered'
  BY <1>1 DEF Kept, Covered, SameDates
<1> QED BY <1>2, <1>3, <1>4, <1>5, <1>6 DEF Kept, Tiled

LEMMA FirstWindowKeeps ==
  ASSUME NEW k \in WindowIds, FirstWindow(k) PROVE Kept'
<1>1. Current' = {k}
  BY DEF FirstWindow, Current
<1> QED
  BY <1>1 DEF FirstWindow, Kept, Tiled, OneCurrent, Disjoint, Contiguous,
     Ordered, Covered

LEMMA SuccessorKeeps ==
  ASSUME window \in Windows, Kept,
         NEW id \in WindowIds, NEW k \in WindowIds, NEW eff, Successor(id, k, eff)
  PROVE  Kept'
<1>1. window[id].from \in Nat /\ window[id].to = Open /\ eff \in Nat /\ eff - 1 \in Nat
  <2>1. window[id].from \in Nat
    BY PresentShape DEF Successor
  <2>2. eff \in Nat /\ window[id].from < eff
    BY DaysAssumption DEF Successor
  <2>3. window[id].to = Open
    BY DEF Successor, Current
  <2> QED BY <2>1, <2>2, <2>3
<1>2. \A i \in WindowIds \ {id, k} :
        /\ Present(i)' = Present(i)
        /\ window'[i] = window[i]
        /\ Present(i) => window[i].to # Open /\ window[i].to < window[id].from
  <2> SUFFICES ASSUME NEW i \in WindowIds \ {id, k}
               PROVE  /\ Present(i)' = Present(i)
                      /\ window'[i] = window[i]
                      /\ Present(i) => window[i].to # Open
                                       /\ window[i].to < window[id].from
    OBVIOUS
  <2>1. window'[i] = window[i] /\ Present(i)' = Present(i)
    BY DEF Successor, Present
  <2>2. Present(i) => Before(i, id) \/ Before(id, i)
    BY DEF Successor, Kept, Tiled, Disjoint
  <2>3. ~Before(id, i)
    BY <1>1 DEF Before
  <2> QED BY <2>1, <2>2, <2>3 DEF Before
<1>3. Current' = {k}
  <2>1. k \in Current'
    BY DEF Current, Successor
  <2>2. id \notin Current'
    BY <1>1, OpenAssumption DEF Current, Successor
  <2>3. \A i \in WindowIds \ {id, k} : i \notin Current'
    BY <1>2 DEF Current
  <2>4. Current' \subseteq WindowIds
    BY DEF Current
  <2> QED BY <2>1, <2>2, <2>3, <2>4
<1>4. OneCurrent'
  BY <1>3 DEF OneCurrent
<1>5. Before(id, k)'
  BY <1>1, OpenAssumption DEF Before, Successor
<1>6. \A i \in WindowIds \ {id, k} : Present(i) => Before(i, id)' /\ Before(i, k)'
  <2> SUFFICES ASSUME NEW i \in WindowIds \ {id, k}, Present(i)
               PROVE  Before(i, id)' /\ Before(i, k)'
    OBVIOUS
  <2>1. window[i].to \in Nat /\ window[i].to < window[id].from
    BY <1>2, PresentShape
  <2> QED BY <2>1, <1>1, <1>2 DEF Before, Successor
<1>7. Disjoint'
  <2> SUFFICES ASSUME NEW i \in WindowIds, NEW j \in WindowIds,
                      Present(i)', Present(j)', i # j
               PROVE  Before(i, j)' \/ Before(j, i)'
    BY DEF Disjoint
  <2>1. CASE i \in {id, k} /\ j \in {id, k}
    BY <2>1, <1>5
  <2>2. CASE i \notin {id, k} /\ j \in {id, k}
    BY <2>2, <1>2, <1>6
  <2>3. CASE i \in {id, k} /\ j \notin {id, k}
    BY <2>3, <1>2, <1>6
  <2>4. CASE i \notin {id, k} /\ j \notin {id, k}
    <3>1. Present(i) /\ Present(j) /\ window'[i] = window[i] /\ window'[j] = window[j]
      BY <2>4, <1>2
    <3>2. Before(i, j) \/ Before(j, i)
      BY <3>1 DEF Kept, Tiled, Disjoint
    <3> QED BY <3>1, <3>2 DEF Before
  <2> QED BY <2>1, <2>2, <2>3, <2>4
<1>8. Contiguous'
  <2> SUFFICES ASSUME NEW i \in WindowIds, Present(i)', window'[i].to # Open
               PROVE  \E j \in WindowIds :
                        Present(j)' /\ window'[j].from = window'[i].to + 1
    BY DEF Contiguous
  <2>1. i # k
    BY DEF Successor
  <2>2. CASE i = id
    BY <2>2, <1>1 DEF Successor
  <2>3. CASE i # id
    <3>1. Present(i) /\ window'[i] = window[i]
      BY <2>1, <2>3, <1>2
    <3>2. PICK j \in WindowIds : Present(j) /\ window[j].from = window[i].to + 1
      BY <3>1 DEF Kept, Tiled, Contiguous
    <3>3. Present(j)' /\ window'[j].from = window[j].from
      BY <3>2, <1>2 DEF Successor
    <3> QED BY <3>1, <3>2, <3>3
  <2> QED BY <2>2, <2>3
<1>9. Ordered'
  <2> SUFFICES ASSUME NEW i \in WindowIds, Present(i)', window'[i].to # Open
               PROVE  window'[i].from <= window'[i].to
    BY DEF Ordered
  <2>1. i # k
    BY DEF Successor
  <2>2. CASE i = id
    BY <2>2, <1>1 DEF Successor
  <2>3. CASE i # id
    BY <2>1, <2>3, <1>2 DEF Kept, Ordered
  <2> QED BY <2>2, <2>3
<1> QED BY <1>3, <1>4, <1>7, <1>8, <1>9 DEF Kept, Tiled, Covered

-----------------------------------------------------------------------------
(* commitClassificationWindow.                                             *)

\* The three outcomes, whatever became of the window that was read.
LEMMA CommitShape ==
  ASSUME window \in Windows, Kept,
         NEW id \in WindowIds \cup {None}, NEW saw, NEW code \in HtsCodes,
         NEW eff \in {Undated} \cup Days,
         id # None => Present(id) /\ saw.from = window[id].from,
         CommitWindow(id, saw, code, eff)
  PROVE  /\ window' \in Windows
         /\ \/ SameDates
            \/ \E k \in WindowIds : FirstWindow(k)
            \/ \E k \in WindowIds : id \in WindowIds /\ Successor(id, k, eff)
<1> DEFINE fresh == [from |-> eff, to |-> Open, code |-> code]
<1> DEFINE closed == [window EXCEPT ![id].to = eff - 1]
<1>1. fresh \in Window /\ fresh # None
  BY NoneAssumption DEF Window, Undated
<1>2. CASE id = None /\ Current = {} /\ InsertWindow(window, fresh)
  <2>1. PICK k \in WindowIds : ~Present(k) /\ window' = [window EXCEPT ![k] = fresh]
    BY <1>2 DEF InsertWindow
  <2>2. window' \in Windows
    BY <2>1, <1>1 DEF Windows
  <2>3. \A i \in WindowIds : ~Present(i)
    BY <1>2 DEF Kept, Covered
  <2>4. FirstWindow(k)
    BY <2>1, <2>3, <1>1 DEF FirstWindow, Present, Windows
  <2> QED BY <2>2, <2>4
<1>3. CASE UNCHANGED window
  BY <1>3 DEF SameDates, Present, Windows
<1>4. CASE id # None /\ window' = [window EXCEPT ![id].code = code]
  <2>1. window[id] \in Window
    BY <1>4, PresentShape
  <2>2. [window[id] EXCEPT !.code = code] \in Window
    BY <2>1 DEF Window
  <2>3. window' = [window EXCEPT ![id] = [window[id] EXCEPT !.code = code]]
    BY <1>4
  <2>4. window' \in Windows
    BY <2>2, <2>3 DEF Windows
  <2>5. \A i \in WindowIds \ {id} : window'[i] = window[i]
    BY <2>3 DEF Windows
  <2>6. /\ window'[id] \in Window
        /\ window'[id].from = window[id].from /\ window'[id].to = window[id].to
    BY <2>1, <2>2, <2>3, <1>4 DEF Windows, Window
  <2>7. Present(id)' /\ Present(id)
    BY <2>6, <1>4, NoneAssumption DEF Present
  <2> QED BY <2>4, <2>5, <2>6, <2>7 DEF SameDates, Present
<1>5. CASE /\ id # None /\ CommitPlan(saw.from, eff) = "tile"
           /\ Current \subseteq {id}
           /\ InsertWindow(closed, fresh)
  <2>1. PICK k \in WindowIds : ~Present(k) /\ window' = [closed EXCEPT ![k] = fresh]
    BY <1>5 DEF InsertWindow
  <2>2. id \in WindowIds /\ Present(id) /\ window[id] \in Window /\ id # k
    BY <1>5, <2>1, PresentShape
  <2>3. eff \in Days /\ window[id].from < eff
    BY <1>5 DEF CommitPlan, Tiles, Undated
  <2>4. eff - 1 \in Nat
    BY <2>3, DaysAssumption
  <2>5. [window[id] EXCEPT !.to = eff - 1] \in Window
    BY <2>2, <2>4 DEF Window
  <2>6. closed = [window EXCEPT ![id] = [window[id] EXCEPT !.to = eff - 1]]
    OBVIOUS
  <2>7. closed \in Windows
    BY <2>5, <2>6 DEF Windows
  <2>8. window' \in Windows
    BY <2>7, <2>1, <1>1 DEF Windows
  <2>9. window'[k] = fresh /\ window'[id] = [window[id] EXCEPT !.to = eff - 1]
    BY <2>1, <2>2, <2>6, <2>7 DEF Windows
  <2>10. \A i \in WindowIds \ {id, k} : window'[i] = window[i]
    BY <2>1, <2>2, <2>6, <2>7 DEF Windows
  <2>11. /\ window'[id] \in Window
         /\ window'[id].from = window[id].from /\ window'[id].to = eff - 1
    BY <2>2, <2>5, <2>9 DEF Window
  <2>12. Present(id)' /\ Present(k)'
    BY <2>9, <2>11, <1>1, NoneAssumption DEF Present
  <2>13. Current = {id}
    BY <1>5, <2>2 DEF Kept, Covered
  <2>14. window'[k].from = eff /\ window'[k].to = Open
    BY <2>9
  <2>15. Successor(id, k, eff)
    BY <2>1, <2>2, <2>3, <2>10, <2>11, <2>12, <2>13, <2>14 DEF Successor
  <2> QED BY <2>2, <2>8, <2>15
<1> QED BY <1>2, <1>3, <1>4, <1>5 DEF CommitWindow

LEMMA CommitKeeps ==
  ASSUME window \in Windows, Kept,
         NEW id \in WindowIds \cup {None}, NEW saw, NEW code \in HtsCodes,
         NEW eff \in {Undated} \cup Days,
         id # None => Present(id) /\ saw.from = window[id].from,
         CommitWindow(id, saw, code, eff)
  PROVE  /\ window' \in Windows
         /\ Kept'
         /\ \A i \in WindowIds :
              Present(i) => Present(i)' /\ window'[i].from = window[i].from
<1>1. window' \in Windows
  BY CommitShape
<1>2. CASE SameDates
  BY <1>1, <1>2, SameDatesKeeps DEF SameDates
<1>3. CASE \E k \in WindowIds : FirstWindow(k)
  BY <1>1, <1>3, FirstWindowKeeps DEF FirstWindow
<1>4. CASE \E k \in WindowIds : id \in WindowIds /\ Successor(id, k, eff)
  <2>1. PICK k \in WindowIds : id \in WindowIds /\ Successor(id, k, eff)
    BY <1>4
  <2>2. Kept'
    BY <2>1, SuccessorKeeps
  <2>3. \A i \in WindowIds :
          Present(i) => Present(i)' /\ window'[i].from = window[i].from
    BY <2>1 DEF Successor, Present
  <2> QED BY <1>1, <2>2, <2>3
<1> QED BY <1>2, <1>3, <1>4, CommitShape

-----------------------------------------------------------------------------
(* Requests in progress.                                                   *)

IInv == ClassTypeOK /\ TilingInv

LEMMA FrameShape ==
  ASSUME NEW q \in Request
  PROVE  /\ q.pc = "edit" =>
              q.code \in HtsCodes /\ q.eff \in {Undated} \cup Days /\ q.part \in Part
         /\ q.pc = "editWrites" =>
              /\ q.code \in HtsCodes /\ q.eff \in {Undated} \cup Days /\ q.part \in Part
              /\ q.current \in WindowIds \cup {None}
         /\ q.pc = "decide" =>
              /\ q.code \in HtsCodes /\ q.eff \in {Undated} \cup Days
              /\ q.action \in Actions /\ q.item \in ItemIds
         /\ q.pc = "decideWrites" =>
              /\ q.code \in HtsCodes /\ q.eff \in {Undated} \cup Days /\ q.part \in Part
              /\ q.action \in Actions /\ q.item \in ItemIds
         /\ q.pc = "classifyWrites" =>
              q.code \in HtsCodes /\ q.part \in Part
  BY DEF Request, Idle

LEMMA ItemShape ==
  ASSUME item \in [ItemIds -> Item \cup {None}], NEW t \in ItemIds, item[t] # None
  PROVE  /\ item[t].kind \in Kinds
         /\ \A s \in {"pending", "approved", "rejected", "superseded"} :
              [item[t] EXCEPT !.status = s] \in Item
  BY DEF Item

LEMMA SupersededShape ==
  ASSUME item \in [ItemIds -> Item \cup {None}]
  PROVE  /\ Superseded \in [ItemIds -> Item \cup {None}]
         /\ \A t \in ItemIds : item[t] # None => Superseded[t] # None
<1>1. \A t \in Pending : [item[t] EXCEPT !.status = "superseded"] \in Item
  BY ItemShape DEF Pending
<1>2. \A t \in ItemIds :
        Superseded[t] = IF t \in Pending THEN [item[t] EXCEPT !.status = "superseded"]
                                         ELSE item[t]
  BY DEF Superseded
<1>3. \A t \in ItemIds : item[t] # None => Superseded[t] # None
  <2> SUFFICES ASSUME NEW t \in ItemIds, item[t] # None
               PROVE  Superseded[t] # None
    OBVIOUS
  <2>1. CASE t \in Pending
    <3>1. Superseded[t] \in Item
      BY <1>1, <1>2, <2>1
    <3> QED BY <3>1, NoneAssumption
  <2>2. CASE t \notin Pending
    BY <1>2, <2>2
  <2> QED BY <2>1, <2>2
<1>4. \A t \in ItemIds : Superseded[t] \in Item \cup {None}
  BY <1>1, <1>2
<1> QED BY <1>3, <1>4 DEF Superseded

WindowsKept ==
  \A i \in WindowIds :
    Present(i) => Present(i)' /\ window'[i].from = window[i].from

ItemsKept == \A t \in ItemIds : item[t] # None => item'[t] # None

\* A request moves to frame f while no row any request has read goes away.
LEMMA FramesKept ==
  ASSUME IInv, NEW r \in Requests, NEW f \in Request,
         request' = [request EXCEPT ![r] = f],
         WindowsKept, ItemsKept,
         f.pc = "editWrites" /\ f.current # None =>
           Present(f.current)' /\ window'[f.current].from = f.saw.from,
         f.pc \in {"decide", "decideWrites"} => item'[f.item] # None
  PROVE  /\ request' \in [Requests -> Request]
         /\ StartsSeen'
         /\ ItemSeen'
<1>1. /\ request \in [Requests -> Request]
      /\ StartsSeen
      /\ ItemSeen
  BY DEF IInv, ClassTypeOK, TilingInv
<1>2. request' \in [Requests -> Request]
  BY <1>1
<1>3. request'[r] = f /\ \A s \in Requests \ {r} : request'[s] = request[s]
  BY <1>1
<1>4. StartsSeen'
  <2> SUFFICES ASSUME NEW s \in Requests,
                      request'[s].pc = "editWrites", request'[s].current # None
               PROVE  /\ window'[request'[s].current] # None
                      /\ window'[request'[s].current].from = request'[s].saw.from
    BY DEF StartsSeen, Present
  <2>1. CASE s = r
    BY <2>1, <1>3 DEF Present
  <2>2. CASE s # r
    <3>1. request'[s] = request[s] /\ request[s] \in Request
      BY <2>2, <1>1, <1>3
    <3>2. request[s].current \in WindowIds
      BY <3>1, FrameShape
    <3>3. /\ Present(request[s].current)
          /\ window[request[s].current].from = request[s].saw.from
      BY <3>1, <1>1 DEF StartsSeen
    <3> QED BY <3>1, <3>2, <3>3 DEF WindowsKept, Present
  <2> QED BY <2>1, <2>2
<1>5. ItemSeen'
  <2> SUFFICES ASSUME NEW s \in Requests,
                      request'[s].pc \in {"decide", "decideWrites"}
               PROVE  item'[request'[s].item] # None
    BY DEF ItemSeen
  <2>1. CASE s = r
    BY <2>1, <1>3
  <2>2. CASE s # r
    <3>1. request'[s] = request[s] /\ request[s] \in Request
      BY <2>2, <1>1, <1>3
    <3>2. request[s].item \in ItemIds
      BY <3>1, FrameShape
    <3>3. item[request[s].item] # None
      BY <3>1, <1>1 DEF ItemSeen
    <3> QED BY <3>1, <3>2, <3>3 DEF ItemsKept
  <2> QED BY <2>1, <2>2
<1> QED BY <1>2, <1>4, <1>5

\* Assembling the invariant after a step.
LEMMA Assemble ==
  ASSUME window' \in Windows, Kept', part' \in Part,
         item' \in [ItemIds -> Item \cup {None}],
         request' \in [Requests -> Request], requests' \in Nat, overlapped' \in BOOLEAN,
         StartsSeen', ItemSeen'
  PROVE  IInv'
  BY DEF IInv, ClassTypeOK, TilingInv, Kept, Windows

\* A step that touches neither table: only the frame of one request moves.
LEMMA ReadKeeps ==
  ASSUME IInv, NEW r \in Requests, NEW f \in Request,
         request' = [request EXCEPT ![r] = f],
         requests' \in Nat, overlapped' \in BOOLEAN,
         UNCHANGED <<part, window, item>>,
         f.pc = "editWrites" /\ f.current # None =>
           Present(f.current) /\ window[f.current].from = f.saw.from,
         f.pc \in {"decide", "decideWrites"} => item[f.item] # None
  PROVE  IInv'
<1>1. WindowsKept /\ ItemsKept
  BY DEF WindowsKept, ItemsKept, Present
<1>2. f.pc = "editWrites" /\ f.current # None =>
        Present(f.current)' /\ window'[f.current].from = f.saw.from
  BY DEF Present
<1>3. request' \in [Requests -> Request] /\ StartsSeen' /\ ItemSeen'
  BY <1>1, <1>2, FramesKept
<1>4. /\ window' \in Windows /\ part' \in Part
      /\ item' \in [ItemIds -> Item \cup {None}]
  BY DEF IInv, ClassTypeOK, Windows
<1>5. Kept'
  BY DEF IInv, TilingInv, Kept, Tiled, OneCurrent, Current, Disjoint, Before,
     Contiguous, Ordered, Covered, Present
<1> QED BY <1>3, <1>4, <1>5, Assemble

\* A request commits and ends.
LEMMA CommitEnds ==
  ASSUME IInv, NEW r \in Requests, Ends(r),
         window' \in Windows, Kept', WindowsKept,
         part' \in Part, item' \in [ItemIds -> Item \cup {None}], ItemsKept
  PROVE  IInv'
<1>1. Idle \in Request /\ Idle.pc = "idle"
  BY DEF Request, Idle
<1>2. request' = [request EXCEPT ![r] = Idle] /\ requests' \in Nat /\ overlapped' \in BOOLEAN
  BY DEF Ends, IInv, ClassTypeOK
<1>3. request' \in [Requests -> Request] /\ StartsSeen' /\ ItemSeen'
  BY <1>1, <1>2, FramesKept
<1> QED BY <1>2, <1>3, Assemble

-----------------------------------------------------------------------------
(* The invariant.                                                          *)

LEMMA ClassificationInit == ClassInit => IInv
<1> SUFFICES ASSUME ClassInit PROVE IInv
  OBVIOUS
<1>1. /\ part \in Part
      /\ item \in [ItemIds -> Item \cup {None}]
      /\ request \in [Requests -> Request]
      /\ overlapped \in BOOLEAN /\ requests \in Nat
      /\ \A r \in Requests : request[r].pc = "idle"
  <2>1. part \in Part
    <3>1. PICK c \in HtsCodes \cup {NoCode} :
            part = [code |-> c, provisional |-> FALSE, review |-> "none"]
      BY DEF ClassInit
    <3> QED BY <3>1 DEF Part, Review
  <2>2. Idle \in Request /\ Idle.pc = "idle"
    BY DEF Request, Idle
  <2> QED BY <2>1, <2>2 DEF ClassInit
<1>2. StartsSeen /\ ItemSeen
  BY <1>1 DEF StartsSeen, ItemSeen
<1>3. CASE window = [i \in WindowIds |-> None]
  <2>1. window \in Windows /\ \A i \in WindowIds : ~Present(i)
    BY <1>3 DEF Windows, Present
  <2>2. Current = {}
    BY <2>1 DEF Current
  <2>3. Tiled /\ Ordered /\ Covered
    BY <2>1, <2>2 DEF Tiled, OneCurrent, Disjoint, Contiguous, Ordered, Covered
  <2> QED BY <1>1, <1>2, <2>1, <2>3 DEF IInv, ClassTypeOK, TilingInv, Windows
<1>4. ASSUME NEW c \in HtsCodes, NEW i \in WindowIds,
             window = [j \in WindowIds |->
               IF j = i THEN [from |-> 0, to |-> Open, code |-> c] ELSE None]
      PROVE  IInv
  <2> DEFINE seed == [from |-> 0, to |-> Open, code |-> c]
  <2>1. seed \in Window
    BY DEF Window
  <2>2. seed # None
    BY <2>1, NoneAssumption
  <2>3. window \in Windows /\ window[i] = seed
    BY <1>4, <2>1 DEF Windows
  <2>4. \A j \in WindowIds : Present(j) <=> j = i
    BY <1>4, <2>2 DEF Present
  <2>5. Current = {i}
    BY <2>3, <2>4 DEF Current
  <2>6. Tiled /\ Ordered /\ Covered
    BY <2>3, <2>4, <2>5
    DEF Tiled, OneCurrent, Disjoint, Contiguous, Ordered, Covered
  <2> QED BY <1>1, <1>2, <2>3, <2>6 DEF IInv, ClassTypeOK, TilingInv, Windows
<1> QED BY <1>3, <1>4 DEF ClassInit

\* The frame of a request, and that its commit finds the rows it has read.
LEMMA StepContext ==
  ASSUME IInv, NEW r \in Requests
  PROVE  /\ request[r] \in Request /\ requests \in Nat /\ overlapped \in BOOLEAN
         /\ window \in Windows /\ Kept /\ part \in Part
         /\ item \in [ItemIds -> Item \cup {None}]
         /\ request[r].pc = "editWrites" /\ request[r].current # None =>
              /\ Present(request[r].current)
              /\ window[request[r].current].from = request[r].saw.from
         /\ request[r].pc \in {"decide", "decideWrites"} => item[request[r].item] # None
  BY DEF IInv, ClassTypeOK, TilingInv, Kept, Windows, StartsSeen, ItemSeen

LEMMA CurrentRead ==
  ASSUME NEW current \in IF Current = {} THEN {None} ELSE Current
  PROVE  /\ current \in WindowIds \cup {None}
         /\ current # None => Present(current)
  BY DEF Current

LEMMA StartShape ==
  ASSUME IInv, NEW r \in Requests, NEW f, Starts(r, f)
  PROVE  request' = [request EXCEPT ![r] = f] /\ requests' \in Nat /\ overlapped' \in BOOLEAN
  BY DEF Starts, IInv, ClassTypeOK

LEMMA EditKeeps ==
  ASSUME IInv, NEW r \in Requests,
         \/ \E code \in HtsCodes, eff \in {Undated} \cup Days : EditReadsPart(r, code, eff)
         \/ EditReadsWindow(r)
         \/ EditWrites(r)
  PROVE  IInv'
<1> USE StepContext
<1> DEFINE q == request[r]
<1>1. ASSUME NEW code \in HtsCodes, NEW eff \in {Undated} \cup Days,
             EditReadsPart(r, code, eff)
      PROVE  IInv'
  <2> DEFINE f == [pc |-> "edit", code |-> code, eff |-> eff, part |-> part]
  <2>1. f \in Request /\ f.pc = "edit"
    BY DEF Request
  <2>2. Starts(r, f) /\ UNCHANGED <<part, window, item>>
    BY <1>1 DEF EditReadsPart
  <2>3. request' = [request EXCEPT ![r] = f] /\ requests' \in Nat /\ overlapped' \in BOOLEAN
    BY <2>2, StartShape
  <2> QED BY <2>1, <2>2, <2>3, ReadKeeps
<1>2. CASE EditReadsWindow(r)
  <2>1. PICK current \in IF Current = {} THEN {None} ELSE Current :
          request' = [request EXCEPT ![r] =
            [pc |-> "editWrites", code |-> @.code, eff |-> @.eff, part |-> @.part,
             current |-> current,
             saw |-> IF current = None THEN None ELSE window[current]]]
    BY <1>2 DEF EditReadsWindow
  <2>4. current = None \/ (current \in WindowIds /\ Present(current))
    BY CurrentRead
  <2> DEFINE f == [pc |-> "editWrites", code |-> q.code, eff |-> q.eff,
                   part |-> q.part, current |-> current,
                   saw |-> IF current = None THEN None ELSE window[current]]
  <2>2. q.pc = "edit" /\ UNCHANGED <<part, window, item, overlapped, requests>>
    BY <1>2 DEF EditReadsWindow
  <2>3. q.code \in HtsCodes /\ q.eff \in {Undated} \cup Days /\ q.part \in Part
    BY <2>2, FrameShape
  <2>5. current # None => window[current] \in Window
    BY <2>4, PresentShape
  <2>6. f \in Request
    BY <2>3, <2>4, <2>5 DEF Request
  <2>7. request \in [Requests -> Request]
    BY DEF IInv, ClassTypeOK
  <2>8. request' = [request EXCEPT ![r] = f]
    BY <2>1, <2>7
  <2>9. f.pc = "editWrites" /\ f.current = current
        /\ (current # None => f.saw = window[current])
    OBVIOUS
  <2> HIDE DEF f
  <2> QED BY <2>2, <2>4, <2>6, <2>8, <2>9, ReadKeeps
<1>3. CASE EditWrites(r)
  <2>1. /\ q.pc = "editWrites" /\ Ends(r)
        /\ CommitWindow(q.current, q.saw, q.code, q.eff)
        /\ part' = [code |-> q.code, provisional |-> FALSE,
                    review |-> IF q.part.review = "none" THEN "none" ELSE "accepted"]
        /\ item' = Superseded
    BY <1>3 DEF EditWrites
  <2>2. /\ q.code \in HtsCodes /\ q.eff \in {Undated} \cup Days
        /\ q.current \in WindowIds \cup {None}
    BY <2>1, FrameShape
  <2>3. window' \in Windows /\ Kept' /\ WindowsKept
    BY <2>1, <2>2, CommitKeeps DEF WindowsKept
  <2>4. part' \in Part
    BY <2>1, <2>2 DEF Part, Review
  <2>5. item' \in [ItemIds -> Item \cup {None}] /\ ItemsKept
    BY <2>1, SupersededShape DEF ItemsKept
  <2> QED BY <2>1, <2>3, <2>4, <2>5, CommitEnds
<1> QED BY <1>1, <1>2, <1>3

LEMMA WindowStays ==
  ASSUME IInv, UNCHANGED window
  PROVE  window' \in Windows /\ Kept' /\ WindowsKept
<1>1. SameDates
  BY DEF SameDates, Present
<1> QED BY <1>1, SameDatesKeeps
    DEF IInv, ClassTypeOK, TilingInv, Kept, Windows, WindowsKept, Present

LEMMA DecideKeeps ==
  ASSUME IInv, NEW r \in Requests,
         \/ \E t \in ItemIds, action \in Actions, code \in HtsCodes,
               eff \in {Undated} \cup Days : DecideReadsItem(r, t, action, code, eff)
         \/ DecideReadsPart(r)
         \/ DecideWrites(r)
  PROVE  IInv'
<1> USE StepContext
<1> DEFINE q == request[r]
<1>1. ASSUME NEW t \in ItemIds, NEW action \in Actions, NEW code \in HtsCodes,
             NEW eff \in {Undated} \cup Days, DecideReadsItem(r, t, action, code, eff)
      PROVE  IInv'
  <2> DEFINE f == [pc |-> "decide", action |-> action, code |-> code, eff |-> eff,
                   item |-> t]
  <2>1. f \in Request /\ f.pc = "decide" /\ f.item = t
    BY DEF Request
  <2>2. Starts(r, f) /\ item[t] # None /\ UNCHANGED <<part, window, item>>
    BY <1>1 DEF DecideReadsItem
  <2>3. request' = [request EXCEPT ![r] = f] /\ requests' \in Nat /\ overlapped' \in BOOLEAN
    BY <2>2, StartShape
  <2> QED BY <2>1, <2>2, <2>3, ReadKeeps
<1>2. CASE DecideReadsPart(r)
  <2> DEFINE f == [pc |-> "decideWrites", action |-> q.action, code |-> q.code,
                   eff |-> q.eff, item |-> q.item, part |-> part]
  <2>1. /\ q.pc = "decide" /\ request' = [request EXCEPT ![r] = f]
        /\ UNCHANGED <<part, window, item, overlapped, requests>>
    BY <1>2 DEF DecideReadsPart
  <2>2. /\ q.code \in HtsCodes /\ q.eff \in {Undated} \cup Days
        /\ q.action \in Actions /\ q.item \in ItemIds
    BY <2>1, FrameShape
  <2>3. f \in Request /\ f.pc = "decideWrites" /\ f.item = q.item
    BY <2>2 DEF Request
  <2> HIDE DEF f
  <2> QED BY <2>1, <2>3, ReadKeeps
<1>3. CASE DecideWrites(r)
  <2>1. /\ q.pc = "decideWrites" /\ Ends(r)
        /\ item' = [item EXCEPT ![q.item].status = NextItem(q.action)]
    BY <1>3 DEF DecideWrites
  <2>2. /\ q.code \in HtsCodes /\ q.eff \in {Undated} \cup Days
        /\ q.action \in Actions /\ q.item \in ItemIds
    BY <2>1, FrameShape
  <2>3. item[q.item] # None
    BY <2>1
  <2>4. window' \in Windows /\ Kept' /\ WindowsKept
    <3>1. CASE Commits(q.action)
      <4>1. PICK current \in IF Current = {} THEN {None} ELSE Current :
              CommitWindow(current, IF current = None THEN None ELSE window[current],
                           q.code, q.eff)
        BY <1>3, <3>1 DEF DecideWrites
      <4>2. current \in WindowIds \cup {None}
            /\ (current # None => Present(current))
        BY CurrentRead
      <4> DEFINE saw == IF current = None THEN None ELSE window[current]
      <4>3. current # None => saw.from = window[current].from
        OBVIOUS
      <4>4. CommitWindow(current, saw, q.code, q.eff)
        BY <4>1
      <4> HIDE DEF saw
      <4> QED BY <2>2, <4>2, <4>3, <4>4, CommitKeeps DEF WindowsKept
    <3>2. CASE ~Commits(q.action)
      <4>1. UNCHANGED window
        BY <1>3, <3>2 DEF DecideWrites
      <4> QED BY <4>1, WindowStays
    <3> QED BY <3>1, <3>2
  <2>5. part' \in Part
    <3> DEFINE kind == item[q.item].kind
    <3> DEFINE clears == q.action = "reject" /\ q.part.provisional
    <3>1. part' = [code |-> IF Commits(q.action) THEN q.code
                            ELSE IF clears THEN NoCode ELSE part.code,
                   provisional |-> part.provisional /\ ~Commits(q.action) /\ ~clears,
                   review |-> NextReview(q.action, kind)]
      BY <1>3 DEF DecideWrites
    <3>2. NextReview(q.action, kind) \in Review
      BY <2>2 DEF NextReview, Actions, Review
    <3>3. part.code \in HtsCodes \cup {NoCode}
      BY DEF Part
    <3>4. (part.provisional /\ ~Commits(q.action) /\ ~clears) \in BOOLEAN
      OBVIOUS
    <3> HIDE DEF kind, clears
    <3> QED BY <2>2, <3>1, <3>2, <3>3, <3>4 DEF Part
  <2>6. item' \in [ItemIds -> Item \cup {None}] /\ ItemsKept
    <3> DEFINE row == [item[q.item] EXCEPT !.status = NextItem(q.action)]
    <3>1. NextItem(q.action) \in {"pending", "approved", "rejected", "superseded"}
      BY <2>2 DEF NextItem, Actions
    <3>2. row \in Item
      BY <2>2, <2>3, <3>1, ItemShape
    <3>3. row # None
      BY <3>2, NoneAssumption
    <3>4. item' = [item EXCEPT ![q.item] = row]
      BY <2>1
    <3> HIDE DEF row
    <3> QED BY <2>2, <3>2, <3>3, <3>4 DEF ItemsKept
  <2> QED BY <2>1, <2>4, <2>5, <2>6, CommitEnds
<1> QED BY <1>1, <1>2, <1>3

LEMMA ClassifyKeeps ==
  ASSUME IInv, NEW r \in Requests,
         \/ \E outcome \in {"none", "certain", "candidates"}, code \in HtsCodes :
              ClassifyReadsPart(r, outcome, code)
         \/ ClassifyFindsNothing(r)
         \/ ClassifyWrites(r)
  PROVE  IInv'
<1> USE StepContext
<1> DEFINE q == request[r]
<1>1. ASSUME NEW outcome \in {"none", "certain", "candidates"}, NEW code \in HtsCodes,
             ClassifyReadsPart(r, outcome, code)
      PROVE  IInv'
  <2> DEFINE f == [pc |-> "classifyWrites", code |-> code, part |-> part,
                   outcome |-> outcome]
  <2>1. f \in Request /\ f.pc = "classifyWrites"
    BY DEF Request
  <2>2. Starts(r, f) /\ UNCHANGED <<part, window, item>>
    BY <1>1 DEF ClassifyReadsPart
  <2>3. request' = [request EXCEPT ![r] = f] /\ requests' \in Nat /\ overlapped' \in BOOLEAN
    BY <2>2, StartShape
  <2> QED BY <2>1, <2>2, <2>3, ReadKeeps
<1>2. CASE ClassifyFindsNothing(r)
  <2>1. Ends(r) /\ item' = Superseded /\ UNCHANGED <<part, window>>
    BY <1>2 DEF ClassifyFindsNothing
  <2>2. item' \in [ItemIds -> Item \cup {None}] /\ ItemsKept
    BY <2>1, SupersededShape DEF ItemsKept
  <2>3. part' \in Part
    BY <2>1
  <2> QED BY <2>1, <2>2, <2>3, WindowStays, CommitEnds
<1>3. CASE ClassifyWrites(r)
  <2> DEFINE kind == InitialKind(q.outcome, q.code, Committed(q.part))
  <2> DEFINE auto == AutoSelects(q.outcome, q.code, Committed(q.part))
  <2>1. /\ q.pc = "classifyWrites" /\ Ends(r) /\ UNCHANGED window
        /\ part' = [code |-> IF auto THEN q.code ELSE part.code,
                    provisional |-> part.provisional \/ auto,
                    review |-> IF kind = "confirmation" THEN "confirmed" ELSE "pending"]
    BY <1>3 DEF ClassifyWrites
  <2>2. PICK t \in ItemIds :
          /\ item[t] = None
          /\ item' = [Superseded EXCEPT ![t] = [status |-> "pending", kind |-> kind]]
    BY <1>3 DEF ClassifyWrites
  <2>3. part' \in Part
    <3>1. q.code \in HtsCodes /\ part.code \in HtsCodes \cup {NoCode}
      BY <2>1, FrameShape DEF Part
    <3>2. (part.provisional \/ auto) \in BOOLEAN
      BY DEF AutoSelects, Part
    <3> HIDE DEF kind, auto
    <3> QED BY <2>1, <3>1, <3>2 DEF Part, Review
  <2>4. item' \in [ItemIds -> Item \cup {None}] /\ ItemsKept
    <3> DEFINE row == [status |-> "pending", kind |-> kind]
    <3>1. row \in Item
      BY DEF Item, Kinds, InitialKind
    <3>2. row # None
      BY <3>1, NoneAssumption
    <3>3. item' = [Superseded EXCEPT ![t] = row]
      BY <2>2
    <3> HIDE DEF row
    <3> QED BY <3>1, <3>2, <3>3, SupersededShape DEF ItemsKept
  <2> QED BY <2>1, <2>3, <2>4, WindowStays, CommitEnds
<1> QED BY <1>1, <1>2, <1>3

LEMMA AbortKeeps ==
  ASSUME IInv, NEW r \in Requests, Abort(r)
  PROVE  IInv'
<1>1. Ends(r) /\ UNCHANGED <<part, window, item>>
  BY DEF Abort
<1>2. part' \in Part /\ item' \in [ItemIds -> Item \cup {None}] /\ ItemsKept
  BY <1>1, StepContext DEF ItemsKept
<1> QED BY <1>1, <1>2, WindowStays, CommitEnds

LEMMA ClassificationStep == IInv /\ [ClassNext]_classVars => IInv'
<1> SUFFICES ASSUME IInv, [ClassNext]_classVars PROVE IInv'
  OBVIOUS
<1>1. ASSUME NEW r \in Requests, RequestStep(r) PROVE IInv'
  BY <1>1, EditKeeps, DecideKeeps, ClassifyKeeps, AbortKeeps DEF RequestStep
<1>2. CASE UNCHANGED classVars
  BY <1>2 DEF classVars, IInv, ClassTypeOK, TilingInv, Tiled, OneCurrent, Current, Disjoint,
     Before, Contiguous, Ordered, Covered, StartsSeen, ItemSeen, Present
<1> QED BY <1>1, <1>2 DEF ClassNext

\* No write of the three requests ever addresses a row that is not there, and
\* every variable keeps its type.
THEOREM ClassificationTypes == ClassSpec => []ClassTypeOK
<1>1. ClassSpec => []IInv
  BY ClassificationInit, ClassificationStep, PTL DEF ClassSpec
<1>2. IInv => ClassTypeOK
  BY DEF IInv
<1> QED BY <1>1, <1>2, PTL

\* The windows of a part never overlap, leave no gap and have one current
\* window at most, whatever requests interleave.
THEOREM TiledAlways == ClassSpec => []Tiled
<1>1. ClassSpec => []IInv
  BY ClassificationInit, ClassificationStep, PTL DEF ClassSpec
<1>2. IInv => Tiled
  BY DEF IInv, TilingInv
<1> QED BY <1>1, <1>2, PTL

\* The inductive invariant itself: a window a request has read keeps its start
\* until the request commits.
THEOREM TilingInvariant == ClassSpec => []TilingInv
<1>1. ClassSpec => []IInv
  BY ClassificationInit, ClassificationStep, PTL DEF ClassSpec
<1>2. IInv => TilingInv
  BY DEF IInv
<1> QED BY <1>1, <1>2, PTL

\* An as-of lookup has one answer: two windows that contain a day would
\* overlap, and a day no window contains falls to the one current window.
LEMMA ResolvesOnce == IInv => OneAnswer
<1> SUFFICES ASSUME IInv, NEW day \in Days, History # {}
             PROVE  \E w \in History : Resolved(History, day) = {w}
  BY DEF OneAnswer
<1>1. day \in Nat /\ Open \notin Nat
  BY DaysAssumption, OpenAssumption
<1>2. ASSUME NEW i \in WindowIds, Present(i)
      PROVE  window[i].from \in Nat /\ window[i].to \in Nat \cup {Open}
  BY <1>2, PresentShape DEF IInv, ClassTypeOK, Windows
<1>3. ASSUME NEW i \in WindowIds, NEW j \in WindowIds, Present(i), Present(j),
             CoversDay(window[i], day), CoversDay(window[j], day)
      PROVE  i = j
  <2>1. SUFFICES ASSUME i # j PROVE FALSE
    OBVIOUS
  <2>2. Before(i, j) \/ Before(j, i)
    BY <1>3, <2>1 DEF IInv, TilingInv, Tiled, Disjoint
  <2> QED BY <1>1, <1>2, <1>3, <2>2 DEF Before, CoversDay
<1>4. CASE \E i \in WindowIds : Present(i) /\ CoversDay(window[i], day)
  <2>1. PICK i \in WindowIds : Present(i) /\ CoversDay(window[i], day)
    BY <1>4
  <2>2. Resolved(History, day) = {window[i]}
    BY <1>3, <2>1 DEF Resolved, History
  <2> QED BY <2>1, <2>2 DEF History
<1>5. CASE \A i \in WindowIds : Present(i) => ~CoversDay(window[i], day)
  <2>1. PICK i \in Current : \A j \in Current : j = i
    BY DEF IInv, TilingInv, Tiled, OneCurrent, Covered, History
  <2>2. Resolved(History, day) = {window[i]}
    BY <1>5, <2>1 DEF Resolved, History, Current
  <2> QED BY <2>1, <2>2 DEF History, Current
<1> QED BY <1>4, <1>5

\* The audit of an entry resolves a part's code as of its day to one window, in
\* whatever order the windows are read.
THEOREM OneAnswerAlways == ClassSpec => []OneAnswer
<1>1. ClassSpec => []IInv
  BY ClassificationInit, ClassificationStep, PTL DEF ClassSpec
<1> QED BY <1>1, ResolvesOnce, PTL
-----------------------------------------------------------------------------
(* One request after the other.                                            *)

\* A commit that has read the current window, or that there is none, leaves a
\* current window with its code.
LEMMA CommitCode ==
  ASSUME window \in Windows, Kept,
         NEW id \in WindowIds \cup {None}, NEW saw, NEW code \in HtsCodes,
         NEW eff \in {Undated} \cup Days,
         IF id = None THEN Current = {} ELSE id \in Current /\ saw = window[id],
         CommitWindow(id, saw, code, eff)
  PROVE  \E i \in Current' : window'[i].code = code
<1> DEFINE fresh == [from |-> eff, to |-> Open, code |-> code]
<1> DEFINE closed == [window EXCEPT ![id].to = eff - 1]
<1>1. fresh # None /\ fresh.to = Open /\ fresh.code = code
  BY NoneAssumption DEF Window, Undated
<1>2. id # None => id \in WindowIds /\ Present(id) /\ window[id].to = Open
  BY DEF Current
<1>3. ASSUME NEW w, w = window \/ w = closed, InsertWindow(w, fresh)
      PROVE  \E i \in Current' : window'[i].code = code
  <2>1. PICK k \in WindowIds : ~Present(k) /\ window' = [w EXCEPT ![k] = fresh]
    BY <1>3 DEF InsertWindow
  <2>2. DOMAIN w = WindowIds
    BY <1>3 DEF Windows
  <2>3. window'[k] = fresh
    BY <2>1, <2>2
  <2> QED BY <2>3, <1>1 DEF Current, Present
<1>4. CASE id # None /\ saw.code = code /\ UNCHANGED window
  BY <1>4 DEF Current, Present
<1>5. CASE id # None /\ window' = [window EXCEPT ![id].code = code]
  <2>1. window[id] \in Window
    BY <1>2, <1>5, PresentShape
  <2>2. window' = [window EXCEPT ![id] = [window[id] EXCEPT !.code = code]]
    BY <1>5
  <2>3. window'[id] = [window[id] EXCEPT !.code = code]
    BY <2>2, <1>2, <1>5 DEF Windows
  <2>4. /\ window'[id] \in Window
        /\ window'[id].to = Open /\ window'[id].code = code
    BY <2>1, <2>3, <1>2, <1>5 DEF Window
  <2> QED BY <2>4, <1>2, <1>5, NoneAssumption DEF Current, Present
<1> QED BY <1>3, <1>4, <1>5 DEF CommitWindow

\* Who is alone: a request that starts and marks no overlap, or one that goes
\* on while none was marked.
LEMMA StartsAlone ==
  ASSUME IInv, NEW r \in Requests, NEW f, Starts(r, f)
  PROVE  /\ request' = [request EXCEPT ![r] = f]
         /\ ~overlapped' => ~overlapped /\ \A s \in Requests \ {r} : request[s] = Idle
<1>1. overlapped' = (overlapped \/ \E s \in Requests \ {r} : request[s] # Idle)
  BY DEF Starts
<1> QED BY <1>1 DEF Starts

LEMMA GoesOnAlone ==
  ASSUME SerialInv, NEW r \in Requests, request[r] # Idle, UNCHANGED overlapped
  PROVE  ~overlapped' => ~overlapped /\ \A s \in Requests \ {r} : request[s] = Idle
<1> SUFFICES ASSUME ~overlapped
             PROVE  \A s \in Requests \ {r} : request[s] = Idle
  OBVIOUS
<1>1. OneRequest
  BY DEF SerialInv
<1> QED BY <1>1 DEF OneRequest

\* A request reads: the tables stay, and the frame it takes is what they say.
LEMMA SerialRead ==
  ASSUME IInv, SerialInv, NEW r \in Requests, NEW f,
         request' = [request EXCEPT ![r] = f],
         ~overlapped' => ~overlapped /\ \A s \in Requests \ {r} : request[s] = Idle,
         UNCHANGED <<part, window, item>>,
         ~overlapped => Fresh(f)
  PROVE  SerialInv'
<1> SUFFICES ASSUME ~overlapped'
             PROVE  /\ OneRequest' /\ \A s \in Requests : Fresh(request[s])'
                    /\ CodeMatchesWindow' /\ OneReview' /\ Shown'
  BY DEF SerialInv
<1>1. ~overlapped /\ \A s \in Requests \ {r} : request[s] = Idle
  OBVIOUS
<1>2. /\ request'[r] = f
      /\ \A s \in Requests \ {r} : request'[s] = Idle
  BY <1>1 DEF IInv, ClassTypeOK
<1>3. OneRequest'
  BY <1>2 DEF OneRequest
<1>4. Fresh(f)'
  BY <1>1 DEF Fresh, Current, Present
<1>5. Fresh(Idle)'
  BY DEF Fresh, Idle
<1>6. CodeMatchesWindow' /\ OneReview' /\ Shown'
  BY <1>1 DEF SerialInv, CodeMatchesWindow, OneReview, Shown, Current, Present, Pending
<1>7. \A s \in Requests : Fresh(request[s])'
  <2> SUFFICES ASSUME NEW s \in Requests PROVE Fresh(request[s])'
    OBVIOUS
  <2>1. CASE s = r
    BY <2>1, <1>2, <1>4 DEF Fresh
  <2>2. CASE s # r
    BY <2>2, <1>2, <1>5 DEF Fresh
  <2> QED BY <2>1, <2>2
<1> QED BY <1>3, <1>6, <1>7

\* A request ends: what it leaves behind is all there is to check.
LEMMA SerialEnd ==
  ASSUME IInv, SerialInv, NEW r \in Requests, Ends(r), request[r] # Idle,
         ~overlapped => CodeMatchesWindow' /\ OneReview' /\ Shown'
  PROVE  SerialInv'
<1> SUFFICES ASSUME ~overlapped
             PROVE  OneRequest' /\ \A s \in Requests : Fresh(request[s])'
  BY DEF SerialInv, Ends
<1>1. \A s \in Requests : request'[s] = Idle
  BY DEF Ends, SerialInv, OneRequest, IInv, ClassTypeOK
<1>2. Fresh(Idle)'
  BY DEF Fresh, Idle
<1>3. \A s \in Requests : Fresh(request[s])'
  BY <1>1, <1>2 DEF Fresh
<1> QED BY <1>1, <1>3 DEF OneRequest

\* Superseding empties the queue.
LEMMA SupersededNone ==
  ASSUME item \in [ItemIds -> Item \cup {None}], NEW t \in ItemIds, Superseded[t] # None
  PROVE  Superseded[t].status # "pending"
<1>1. CASE t \in Pending
  <2>1. Superseded[t] = [item[t] EXCEPT !.status = "superseded"]
    BY <1>1 DEF Superseded
  <2>2. item[t] \in Item
    BY <1>1 DEF Pending
  <2> QED BY <2>1, <2>2 DEF Item
<1>2. CASE t \notin Pending
  <2>1. Superseded[t] = item[t]
    BY <1>2 DEF Superseded
  <2> QED BY <1>2, <2>1 DEF Pending
<1> QED BY <1>1, <1>2

LEMMA SerialInit == ClassInit => SerialInv
<1> SUFFICES ASSUME ClassInit PROVE SerialInv
  OBVIOUS
<1>1. \A r \in Requests : request[r] = Idle
  BY DEF ClassInit
<1>2. Fresh(Idle)
  BY DEF Fresh, Idle
<1>3. Pending = {}
  BY DEF ClassInit, Pending
<1>4. CodeMatchesWindow
  <2>1. CASE /\ part = [code |-> NoCode, provisional |-> FALSE, review |-> "none"]
             /\ window = [i \in WindowIds |-> None]
    <3>1. Current = {}
      BY <2>1 DEF Current, Present
    <3> QED BY <2>1, <3>1 DEF CodeMatchesWindow, Committed
  <2>2. ASSUME NEW c \in HtsCodes, NEW i \in WindowIds,
               part = [code |-> c, provisional |-> FALSE, review |-> "none"],
               window = [j \in WindowIds |->
                 IF j = i THEN [from |-> 0, to |-> Open, code |-> c] ELSE None]
        PROVE  CodeMatchesWindow
    <3>1. window[i] = [from |-> 0, to |-> Open, code |-> c]
      BY <2>2
    <3>2. window[i] \in Window
      BY <3>1 DEF Window
    <3>3. i \in Current /\ window[i].code = part.code
      BY <2>2, <3>1, <3>2, NoneAssumption DEF Current, Present
    <3>4. Committed(part) # NoCode
      BY <2>2, NoCodeAssumption DEF Committed
    <3> QED BY <3>3, <3>4 DEF CodeMatchesWindow
  <2> QED BY <2>1, <2>2 DEF ClassInit
<1> QED BY <1>1, <1>2, <1>3, <1>4 DEF SerialInv, OneRequest, OneReview, Shown

LEMMA SerialEdit ==
  ASSUME IInv, SerialInv, NEW r \in Requests,
         \/ \E code \in HtsCodes, eff \in {Undated} \cup Days : EditReadsPart(r, code, eff)
         \/ EditReadsWindow(r)
         \/ EditWrites(r)
  PROVE  SerialInv'
<1> USE StepContext
<1> DEFINE q == request[r]
<1>1. ASSUME NEW code \in HtsCodes, NEW eff \in {Undated} \cup Days,
             EditReadsPart(r, code, eff)
      PROVE  SerialInv'
  <2> DEFINE f == [pc |-> "edit", code |-> code, eff |-> eff, part |-> part]
  <2>1. Starts(r, f) /\ UNCHANGED <<part, window, item>>
    BY <1>1 DEF EditReadsPart
  <2>2. Fresh(f)
    BY DEF Fresh
  <2> QED BY <2>1, <2>2, StartsAlone, SerialRead
<1>2. CASE EditReadsWindow(r)
  <2>1. PICK current \in IF Current = {} THEN {None} ELSE Current :
          request' = [request EXCEPT ![r] =
            [pc |-> "editWrites", code |-> @.code, eff |-> @.eff, part |-> @.part,
             current |-> current,
             saw |-> IF current = None THEN None ELSE window[current]]]
    BY <1>2 DEF EditReadsWindow
  <2> DEFINE f == [pc |-> "editWrites", code |-> q.code, eff |-> q.eff,
                   part |-> q.part, current |-> current,
                   saw |-> IF current = None THEN None ELSE window[current]]
  <2>2. q.pc = "edit" /\ UNCHANGED <<part, window, item, overlapped, requests>>
    BY <1>2 DEF EditReadsWindow
  <2>3. request' = [request EXCEPT ![r] = f]
    BY <2>1 DEF IInv, ClassTypeOK
  <2>4. ~overlapped => q.part = part
    BY <2>2 DEF SerialInv, Fresh
  <2>5. IF current = None THEN Current = {} ELSE current \in Current
    BY NoneAssumption DEF Current
  <2>6. ~overlapped => Fresh(f)
    BY <2>4, <2>5 DEF Fresh
  <2>7. q # Idle
    BY <2>2 DEF Idle
  <2> QED BY <2>2, <2>3, <2>6, <2>7, GoesOnAlone, SerialRead
<1>3. CASE EditWrites(r)
  <2>1. /\ q.pc = "editWrites" /\ Ends(r) /\ q # Idle
        /\ CommitWindow(q.current, q.saw, q.code, q.eff)
        /\ part' = [code |-> q.code, provisional |-> FALSE,
                    review |-> IF q.part.review = "none" THEN "none" ELSE "accepted"]
        /\ item' = Superseded
    BY <1>3 DEF EditWrites, Idle
  <2>2. /\ q.code \in HtsCodes /\ q.eff \in {Undated} \cup Days
        /\ q.current \in WindowIds \cup {None}
    BY <2>1, FrameShape
  <2>3. ASSUME ~overlapped PROVE CodeMatchesWindow' /\ OneReview' /\ Shown'
    <3>1. IF q.current = None THEN Current = {}
          ELSE q.current \in Current /\ q.saw = window[q.current]
      BY <2>1, <2>3 DEF SerialInv, Fresh
    <3>2. \E i \in Current' : window'[i].code = q.code
      BY <2>1, <2>2, <3>1, CommitCode
    <3>3. part'.code = q.code /\ Committed(part)' # NoCode
      BY <2>1, <2>2, NoCodeAssumption DEF Committed
    <3>4. Pending' = {}
      BY <2>1, SupersededNone DEF Pending
    <3> QED BY <3>2, <3>3, <3>4 DEF CodeMatchesWindow, OneReview, Shown
  <2> QED BY <2>1, <2>3, SerialEnd
<1> QED BY <1>1, <1>2, <1>3

LEMMA SerialDecide ==
  ASSUME IInv, SerialInv, NEW r \in Requests,
         \/ \E t \in ItemIds, action \in Actions, code \in HtsCodes,
               eff \in {Undated} \cup Days : DecideReadsItem(r, t, action, code, eff)
         \/ DecideReadsPart(r)
         \/ DecideWrites(r)
  PROVE  SerialInv'
<1> USE StepContext
<1> DEFINE q == request[r]
<1>1. ASSUME NEW t \in ItemIds, NEW action \in Actions, NEW code \in HtsCodes,
             NEW eff \in {Undated} \cup Days, DecideReadsItem(r, t, action, code, eff)
      PROVE  SerialInv'
  <2> DEFINE f == [pc |-> "decide", action |-> action, code |-> code, eff |-> eff,
                   item |-> t]
  <2>1. /\ Starts(r, f) /\ UNCHANGED <<part, window, item>>
        /\ item[t].status = IF action = "reopen" THEN "rejected" ELSE "pending"
    BY <1>1 DEF DecideReadsItem
  <2>2. Fresh(f)
    BY <2>1 DEF Fresh
  <2> QED BY <2>1, <2>2, StartsAlone, SerialRead
<1>2. CASE DecideReadsPart(r)
  <2> DEFINE f == [pc |-> "decideWrites", action |-> q.action, code |-> q.code,
                   eff |-> q.eff, item |-> q.item, part |-> part]
  <2>1. /\ q.pc = "decide" /\ request' = [request EXCEPT ![r] = f]
        /\ UNCHANGED <<part, window, item, overlapped, requests>>
    BY <1>2 DEF DecideReadsPart
  <2>2. ~overlapped =>
          item[q.item].status = IF q.action = "reopen" THEN "rejected" ELSE "pending"
    BY <2>1 DEF SerialInv, Fresh
  <2>3. ~overlapped => Fresh(f)
    BY <2>2 DEF Fresh
  <2>4. q # Idle
    BY <2>1 DEF Idle
  <2> QED BY <2>1, <2>3, <2>4, GoesOnAlone, SerialRead
<1>3. CASE DecideWrites(r)
  <2> DEFINE kind == item[q.item].kind
  <2> DEFINE clears == q.action = "reject" /\ q.part.provisional
  <2>1. /\ q.pc = "decideWrites" /\ Ends(r) /\ q # Idle
        /\ part' = [code |-> IF Commits(q.action) THEN q.code
                             ELSE IF clears THEN NoCode ELSE part.code,
                    provisional |-> part.provisional /\ ~Commits(q.action) /\ ~clears,
                    review |-> NextReview(q.action, kind)]
        /\ q.action = "reopen" => Pending \subseteq {q.item}
        /\ item' = [item EXCEPT ![q.item].status = NextItem(q.action)]
    BY <1>3 DEF DecideWrites, Idle
  <2>2. /\ q.code \in HtsCodes /\ q.eff \in {Undated} \cup Days
        /\ q.action \in Actions /\ q.item \in ItemIds
    BY <2>1, FrameShape
  <2>3. item[q.item] # None /\ item[q.item] \in Item
    BY <2>1, <2>2
  <2>4. ASSUME ~overlapped PROVE CodeMatchesWindow'
    <3>1. CASE Commits(q.action)
      <4>1. PICK current \in IF Current = {} THEN {None} ELSE Current :
              CommitWindow(current, IF current = None THEN None ELSE window[current],
                           q.code, q.eff)
        BY <1>3, <3>1 DEF DecideWrites
      <4> DEFINE saw == IF current = None THEN None ELSE window[current]
      <4>2. /\ current \in WindowIds \cup {None}
            /\ IF current = None THEN Current = {}
               ELSE current \in Current /\ saw = window[current]
        BY NoneAssumption DEF Current
      <4>3. CommitWindow(current, saw, q.code, q.eff)
        BY <4>1
      <4>4. \E i \in Current' : window'[i].code = q.code
        <5> HIDE DEF saw
        <5> QED BY <2>2, <4>2, <4>3, CommitCode
      <4>5. part'.code = q.code /\ Committed(part)' # NoCode
        BY <2>1, <2>2, <3>1, NoCodeAssumption DEF Committed
      <4> QED BY <4>4, <4>5 DEF CodeMatchesWindow
    <3>2. CASE ~Commits(q.action)
      <4>1. UNCHANGED window
        BY <1>3, <3>2 DEF DecideWrites
      <4>2. CodeMatchesWindow /\ q.part = part
        BY <2>1, <2>4 DEF SerialInv, Fresh
      <4>3. Committed(part)' = Committed(part)
        BY <2>1, <3>2, <4>2 DEF Committed, Part
      <4>4. Committed(part) # NoCode => part'.code = part.code
        BY <2>1, <3>2, <4>2 DEF Committed
      <4> QED BY <4>1, <4>2, <4>3, <4>4 DEF CodeMatchesWindow, Current, Present
    <3> QED BY <3>1, <3>2
  <2> DEFINE row == [item[q.item] EXCEPT !.status = NextItem(q.action)]
  <2>5. /\ item' = [item EXCEPT ![q.item] = row]
        /\ row.status = NextItem(q.action) /\ row.kind = kind
        /\ NextItem(q.action) = "pending" <=> q.action = "reopen"
    BY <2>1, <2>3 DEF Item, NextItem
  <2>6. /\ item'[q.item] = row
        /\ \A t \in ItemIds \ {q.item} : item'[t] = item[t]
    BY <2>2, <2>5
  <2>7. ASSUME ~overlapped PROVE Pending \subseteq {q.item}
    <3>1. CASE q.action = "reopen"
      BY <2>1, <3>1
    <3>2. CASE q.action # "reopen"
      <4>1. q.item \in Pending
        BY <2>1, <2>2, <2>3, <2>7, <3>2 DEF SerialInv, Fresh, Pending
      <4> QED BY <4>1, <2>7 DEF SerialInv, OneReview
    <3> QED BY <3>1, <3>2
  <2>8. ASSUME ~overlapped
        PROVE  Pending' \subseteq {q.item} /\ (Pending' # {} => q.action = "reopen")
    BY <2>5, <2>6, <2>7, <2>8 DEF Pending
  <2>9. ASSUME ~overlapped PROVE OneReview' /\ Shown'
    <3>1. OneReview'
      BY <2>8, <2>9 DEF OneReview
    <3>2. ASSUME NEW t \in Pending'
          PROVE  part'.review = IF item'[t].kind = "confirmation"
                                THEN "confirmed" ELSE "pending"
      <4>1. t = q.item /\ q.action = "reopen"
        BY <2>8, <2>9, <3>2
      <4>2. part'.review = NextReview(q.action, kind)
        BY <2>1
      <4>3. item'[t].kind = kind
        BY <2>5, <2>6, <4>1
      <4> QED BY <4>1, <4>2, <4>3 DEF NextReview
    <3> QED BY <3>1, <3>2 DEF Shown
  <2> QED BY <2>1, <2>4, <2>9, SerialEnd
<1> QED BY <1>1, <1>2, <1>3

LEMMA SerialClassify ==
  ASSUME IInv, SerialInv, NEW r \in Requests,
         \/ \E outcome \in {"none", "certain", "candidates"}, code \in HtsCodes :
              ClassifyReadsPart(r, outcome, code)
         \/ ClassifyFindsNothing(r)
         \/ ClassifyWrites(r)
  PROVE  SerialInv'
<1> USE StepContext
<1> DEFINE q == request[r]
<1>1. ASSUME NEW outcome \in {"none", "certain", "candidates"}, NEW code \in HtsCodes,
             ClassifyReadsPart(r, outcome, code)
      PROVE  SerialInv'
  <2> DEFINE f == [pc |-> "classifyWrites", code |-> code, part |-> part,
                   outcome |-> outcome]
  <2>1. Starts(r, f) /\ UNCHANGED <<part, window, item>>
    BY <1>1 DEF ClassifyReadsPart
  <2>2. Fresh(f)
    BY DEF Fresh
  <2> QED BY <2>1, <2>2, StartsAlone, SerialRead
<1>2. CASE ClassifyFindsNothing(r)
  <2>1. Ends(r) /\ item' = Superseded /\ UNCHANGED <<part, window>> /\ q # Idle
    BY <1>2 DEF ClassifyFindsNothing, Idle
  <2>2. Pending' = {}
    BY <2>1, SupersededNone DEF Pending
  <2>3. ~overlapped => CodeMatchesWindow'
    BY <2>1 DEF SerialInv, CodeMatchesWindow, Current, Present
  <2> QED BY <2>1, <2>2, <2>3, SerialEnd DEF OneReview, Shown
<1>3. CASE ClassifyWrites(r)
  <2> DEFINE kind == InitialKind(q.outcome, q.code, Committed(q.part))
  <2> DEFINE auto == AutoSelects(q.outcome, q.code, Committed(q.part))
  <2>1. /\ q.pc = "classifyWrites" /\ Ends(r) /\ UNCHANGED window /\ q # Idle
        /\ part' = [code |-> IF auto THEN q.code ELSE part.code,
                    provisional |-> part.provisional \/ auto,
                    review |-> IF kind = "confirmation" THEN "confirmed" ELSE "pending"]
    BY <1>3 DEF ClassifyWrites, Idle
  <2>2. PICK t \in ItemIds :
          /\ item[t] = None
          /\ item' = [Superseded EXCEPT ![t] = [status |-> "pending", kind |-> kind]]
    BY <1>3 DEF ClassifyWrites
  <2>3. ASSUME ~overlapped PROVE CodeMatchesWindow'
    <3>1. CodeMatchesWindow /\ q.part = part
      BY <2>1, <2>3 DEF SerialInv, Fresh
    <3>2. auto => Committed(part) = NoCode
      BY <3>1 DEF AutoSelects
    <3>3. auto \in BOOLEAN
      BY DEF AutoSelects
    <3>4. /\ Committed(part)' = Committed(part)
          /\ Committed(part) # NoCode => part'.code = part.code
      <4> HIDE DEF auto, kind
      <4> QED BY <2>1, <3>2, <3>3 DEF Committed, Part
    <3> QED BY <2>1, <3>1, <3>4 DEF CodeMatchesWindow, Current, Present
  <2>4. \A u \in ItemIds : item'[u] =
          IF u = t THEN [status |-> "pending", kind |-> kind] ELSE Superseded[u]
    BY <2>2, SupersededShape
  <2>5. Pending' \subseteq {t} /\ item'[t].kind = kind
    BY <2>4, SupersededNone DEF Pending
  <2>6. OneReview' /\ Shown'
    BY <2>1, <2>5 DEF OneReview, Shown
  <2> QED BY <2>1, <2>3, <2>6, SerialEnd
<1> QED BY <1>1, <1>2, <1>3

LEMMA SerialStep == IInv /\ SerialInv /\ [ClassNext]_classVars => SerialInv'
<1> SUFFICES ASSUME IInv, SerialInv, [ClassNext]_classVars PROVE SerialInv'
  OBVIOUS
<1>1. ASSUME NEW r \in Requests, Abort(r) PROVE SerialInv'
  <2>1. request[r] # Idle /\ Ends(r) /\ UNCHANGED <<part, window, item>>
    BY <1>1 DEF Abort
  <2>2. ~overlapped => CodeMatchesWindow' /\ OneReview' /\ Shown'
    BY <2>1 DEF SerialInv, CodeMatchesWindow, OneReview, Shown, Current, Present, Pending
  <2> QED BY <2>1, <2>2, SerialEnd
<1>2. ASSUME NEW r \in Requests, RequestStep(r) PROVE SerialInv'
  BY <1>1, <1>2, SerialEdit, SerialDecide, SerialClassify DEF RequestStep
<1>3. CASE UNCHANGED classVars
  BY <1>3 DEF classVars, SerialInv, OneRequest, Fresh, CodeMatchesWindow, OneReview, Shown,
     Current, Present, Pending
<1> QED BY <1>2, <1>3 DEF ClassNext

LEMMA SerialAlways == ClassSpec => []SerialInv
<1>1. ClassInit => IInv /\ SerialInv
  BY ClassificationInit, SerialInit
<1>2. IInv /\ SerialInv /\ [ClassNext]_classVars => (IInv /\ SerialInv)'
  BY ClassificationStep, SerialStep
<1> QED BY <1>1, <1>2, PTL DEF ClassSpec

\* For requests one after another the committed code of a part is the code of
\* its current window, and a part has one exactly when it has the other.
THEOREM CodeIsCurrentWindowAlways == ClassSpec => []CodeIsCurrentWindow
<1>1. SerialInv => CodeIsCurrentWindow
  BY DEF SerialInv, CodeIsCurrentWindow
<1> QED BY <1>1, SerialAlways, PTL

\* For requests one after another an item awaits review only while the part
\* says so, with the same kind.
THEOREM PendingShownAlways == ClassSpec => []PendingShown
<1>1. SerialInv => PendingShown
  BY DEF SerialInv, PendingShown
<1> QED BY <1>1, SerialAlways, PTL
=============================================================================
