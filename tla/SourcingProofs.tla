--------------------------- MODULE SourcingProofs ---------------------------
(* Theorems about Sourcing: type correctness, and that no window of a       *)
(* vendor ends before it begins, for every number of overlapping requests,  *)
(* windows, quotes and dates.                                               *)
EXTENDS Sourcing, TLAPS

SourceTable == [SourceIds -> Window \cup {None}]
LineTable == [LineIds -> Line \cup {None}]

-----------------------------------------------------------------------------
(* The inductive invariant.                                                *)

\* The row a request writes by id is still there and begins where it did when
\* the request read it.
SawHeld == \A r \in Requests :
  LET f == request[r] IN
  f.pc \in {"edit", "remove", "approve", "confirm"} =>
    /\ f.saw.row = None => f.pc \in {"approve", "confirm"}
    /\ f.saw.row # None => /\ f.saw.was \in Window
                           /\ source[f.saw.row] # None
                           /\ source[f.saw.row].from = f.saw.was.from

\* So are the quote lines it writes.
LinesHeld == \A r \in Requests :
  LET f == request[r] IN
  /\ f.pc \in {"reject", "approve", "confirm"} => line[f.line] # None
  /\ f.pc = "ingest" => \A k \in f.gone : line[k] # None

SourcingInv == SourcingTypeOK /\ NeverInverted /\ SawHeld /\ LinesHeld

\* What every write leaves of the windows and of the lines.
SourcesGrow ==
  /\ source' \in SourceTable
  /\ \A i \in SourceIds : source[i] # None =>
       source'[i] # None /\ source'[i].from = source[i].from
  /\ NeverInverted'

LinesGrow ==
  /\ line' \in LineTable
  /\ \A k \in LineIds : line[k] # None => line'[k] # None

-----------------------------------------------------------------------------
(* Shapes.                                                                 *)

LEMMA DaysAreNumbers == Days \subseteq Nat /\ {0} \cup Days \subseteq Nat
BY DaysAssumption

LEMMA WindowShape ==
  ASSUME NEW w \in Window
  PROVE  /\ w # None
         /\ w.from \in Nat /\ w.from \in {0} \cup Days
         /\ w.to \in Nat \cup {Open} /\ w.cost \in Costs
         /\ w = [from |-> w.from, to |-> w.to, cost |-> w.cost]
BY NoneAssumption, DaysAreNumbers DEF Window

LEMMA LineShape ==
  ASSUME NEW l \in Line
  PROVE  /\ l # None /\ l.cost \in Costs /\ l.named \in BOOLEAN
         /\ \A s \in LineStatus : [l EXCEPT !.status = s] \in Line
BY NoneAssumption DEF Line

\* What a request has read.
LEMMA FrameShape ==
  ASSUME SourcingTypeOK, NEW r \in Requests
  PROVE  LET f == request[r] IN
    /\ f.pc = "add" => f.cost \in Costs /\ f.again \in BOOLEAN
    /\ f.pc = "edit" => f.saw \in Saw /\ f.cost \in Costs /\ f.eff \in {Undated} \cup Days
    /\ f.pc = "remove" => f.saw \in Saw
    /\ f.pc = "ingest" => f.create \in BOOLEAN /\ f.line \in Line /\ f.gone \in SUBSET LineIds
    /\ f.pc = "reject" => f.line \in LineIds
    /\ f.pc = "approve" => f.line \in LineIds /\ f.draft \in BOOLEAN /\ f.saw \in Saw /\ f.day \in Days
    /\ f.pc = "confirm" => f.line \in LineIds /\ f.onto \in BOOLEAN /\ f.saw \in Saw /\ f.day \in Days
    /\ f.pc = "dismiss" => f.item \in Nat
    /\ f.pc = "status" => f.to \in {"active", "archived"}
<1>1. request[r] \in Request
  BY DEF SourcingTypeOK
<1> QED BY <1>1 DEF Request, Idle

LEMMA SawShape ==
  ASSUME NEW s \in Saw
  PROVE  s.row \in SourceIds \cup {None} /\ s.was \in Window \cup {None}
BY DEF Saw

-----------------------------------------------------------------------------
(* Writes to the windows.                                                  *)

LEMMA Inserted ==
  ASSUME NEW table \in SourceTable, NEW w \in Window, InsertSource(table, w)
  PROVE  /\ source' \in SourceTable
         /\ \A i \in SourceIds : table[i] # None => source'[i] = table[i]
         /\ \A i \in SourceIds : source'[i] = table[i] \/ source'[i] = w
<1>1. PICK i \in Fresh(SourceIds, table) : source' = [table EXCEPT ![i] = w]
  BY DEF InsertSource
<1>2. i \in SourceIds /\ table[i] = None
  BY <1>1 DEF Fresh
<1> QED BY <1>1, <1>2 DEF SourceTable

\* A window that is added has no last day.
LEMMA InsertGrows ==
  ASSUME SourcingTypeOK, NeverInverted, NEW w \in Window, w.to = Open, InsertSource(source, w)
  PROVE  SourcesGrow
<1>1. source \in SourceTable
  BY DEF SourcingTypeOK, SourceTable
<1>2. /\ source' \in SourceTable
      /\ \A i \in SourceIds : source[i] # None => source'[i] = source[i]
      /\ \A i \in SourceIds : source'[i] = source[i] \/ source'[i] = w
  BY <1>1, Inserted
<1> QED BY <1>2 DEF SourcesGrow, NeverInverted, Sources

\* One that is tiled ends the day before its successor begins.
LEMMA TileGrows ==
  ASSUME SourcingTypeOK, NeverInverted,
         NEW row \in SourceIds, source[row] # None,
         NEW cost \in Costs, NEW eff \in Days, source[row].from < eff,
         Tile(row, cost, eff)
  PROVE  SourcesGrow
<1> DEFINE table == [source EXCEPT ![row].to = eff - 1]
           w == [from |-> eff, to |-> Open, cost |-> cost]
<1>1. source \in SourceTable /\ source[row] \in Window
  BY DEF SourcingTypeOK, SourceTable
<1>2. source[row].from \in Nat /\ eff \in Nat /\ eff - 1 \in Nat /\ source[row].from <= eff - 1
  BY <1>1, WindowShape, DaysAreNumbers
<1>3. w \in Window /\ w.to = Open
  BY DEF Window
<1>4. [source[row] EXCEPT !.to = eff - 1] \in Window
  BY <1>1, <1>2 DEF Window
<1>5. /\ table \in SourceTable
      /\ table[row] = [source[row] EXCEPT !.to = eff - 1]
      /\ \A i \in SourceIds \ {row} : table[i] = source[i]
  BY <1>1, <1>4 DEF SourceTable
<1>6. table[row].from = source[row].from /\ table[row].to = eff - 1 /\ table[row] # None
  BY <1>1, <1>4, <1>5, WindowShape DEF Window
<1>7. InsertSource(table, w)
  BY DEF Tile
<1>8. /\ source' \in SourceTable
      /\ \A i \in SourceIds : table[i] # None => source'[i] = table[i]
      /\ \A i \in SourceIds : source'[i] = table[i] \/ source'[i] = w
  <2> HIDE DEF table, w
  <2> QED BY <1>3, <1>5, <1>7, Inserted
<1>9. \A i \in SourceIds : source[i] # None => source'[i] # None /\ source'[i].from = source[i].from
  <2> HIDE DEF table, w
  <2> QED BY <1>5, <1>6, <1>8
<1>10. NeverInverted'
  <2> SUFFICES ASSUME NEW i \in SourceIds, source'[i] # None, source'[i].to # Open
               PROVE  source'[i].from <= source'[i].to
    BY DEF NeverInverted, Sources
  <2> HIDE DEF table, w
  <2>1. source'[i] = table[i]
    BY <1>3, <1>8
  <2>2. CASE i = row
    BY <2>1, <2>2, <1>2, <1>6
  <2>3. CASE i # row
    BY <2>1, <2>3, <1>5 DEF NeverInverted, Sources
  <2> QED BY <2>2, <2>3
<1> QED BY <1>8, <1>9, <1>10 DEF SourcesGrow

LEMMA CorrectGrows ==
  ASSUME SourcingTypeOK, NeverInverted,
         NEW row \in SourceIds, source[row] # None, NEW cost \in Costs, Correct(row, cost)
  PROVE  SourcesGrow
<1>1. source \in SourceTable /\ source[row] \in Window
  BY DEF SourcingTypeOK, SourceTable
<1>2. /\ [source[row] EXCEPT !.cost = cost] \in Window
      /\ [source[row] EXCEPT !.cost = cost].from = source[row].from
      /\ [source[row] EXCEPT !.cost = cost].to = source[row].to
  BY <1>1 DEF Window
<1>3. /\ source'[row] = [source[row] EXCEPT !.cost = cost]
      /\ \A i \in SourceIds \ {row} : source'[i] = source[i]
      /\ source' \in SourceTable
  BY <1>1, <1>2 DEF Correct, SourceTable
<1> QED BY <1>2, <1>3, WindowShape DEF SourcesGrow, NeverInverted, Sources

LEMMA SameGrows ==
  ASSUME SourcingTypeOK, NeverInverted, UNCHANGED source
  PROVE  SourcesGrow
BY DEF SourcesGrow, SourcingTypeOK, SourceTable, NeverInverted, Sources

\* An edit or a quote, on the row it has read: a change dated after its first
\* day tiles it, any other corrects it.
LEMMA CommitGrows ==
  ASSUME SourcingTypeOK, NeverInverted,
         NEW row \in SourceIds, source[row] # None, NEW cost \in Costs,
         NEW eff \in {Undated} \cup Days,
         IF CommitPlan(source[row].from, eff) = "tile"
         THEN Tile(row, cost, eff) ELSE Correct(row, cost)
  PROVE  SourcesGrow
<1>1. CASE CommitPlan(source[row].from, eff) = "tile"
  <2>1. eff # Undated /\ eff > source[row].from
    BY <1>1 DEF CommitPlan, Tiles
  <2>2. eff \in Days /\ source[row].from < eff
    <3>1. source[row] \in Window
      BY DEF SourcingTypeOK
    <3>2. source[row].from \in Nat /\ eff \in Nat
      BY <3>1, WindowShape, DaysAreNumbers DEF Undated
    <3> QED BY <2>1, <3>2
  <2> QED BY <1>1, <2>2, TileGrows
<1>2. CASE CommitPlan(source[row].from, eff) # "tile"
  BY <1>2, CorrectGrows
<1> QED BY <1>1, <1>2

LEMMA PatchGrows ==
  ASSUME SourcingTypeOK, NeverInverted, NEW s \in Saw, NEW cost \in Costs, NEW day \in Days,
         s.row # None => /\ s.was \in Window /\ source[s.row] # None
                         /\ source[s.row].from = s.was.from,
         PatchSource(s, cost, day)
  PROVE  SourcesGrow
<1>1. CASE s.row = None
  <2>1. [from |-> FirstDay(Sources # {}, day), to |-> Open, cost |-> cost] \in Window
    BY DEF Window, FirstDay
  <2> QED BY <1>1, <2>1, InsertGrows DEF PatchSource
<1>2. CASE s.row # None
  <2>1. s.row \in SourceIds
    BY <1>2, SawShape
  <2>2. CASE s.was.cost = cost
    BY <1>2, <2>2, SameGrows DEF PatchSource
  <2>3. CASE s.was.cost # cost
    BY <1>2, <2>1, <2>3, CommitGrows DEF PatchSource
  <2> QED BY <2>2, <2>3
<1> QED BY <1>1, <1>2

LEMMA RemoveGrows ==
  ASSUME SourcingInv, NEW r \in Requests, Remove(r) PROVE SourcesGrow
<1> DEFINE row == request[r].saw.row
           close == CloseDate(source[row].from, today)
<1>1. row \in SourceIds /\ source[row] # None /\ request[r].saw.was.from = source[row].from
  BY FrameShape, SawShape DEF SourcingInv, SawHeld, Remove
<1>2. source \in SourceTable /\ source[row] \in Window
  BY <1>1 DEF SourcingInv, SourcingTypeOK, SourceTable
<1>3. source[row].from \in Nat /\ today \in Nat
  BY <1>2, WindowShape, DaysAreNumbers DEF SourcingInv, SourcingTypeOK
<1>4. close \in Nat /\ source[row].from <= close
  BY <1>3 DEF CloseDate
<1>5. source' = [source EXCEPT ![row].to = close]
  BY <1>1 DEF Remove
<1> HIDE DEF row, close
<1>6. /\ [source[row] EXCEPT !.to = close] \in Window
      /\ [source[row] EXCEPT !.to = close].from = source[row].from
      /\ [source[row] EXCEPT !.to = close].to = close
  BY <1>2, <1>4 DEF Window
<1>7. /\ source'[row] = [source[row] EXCEPT !.to = close]
      /\ \A i \in SourceIds \ {row} : source'[i] = source[i]
      /\ source' \in SourceTable
  BY <1>1, <1>2, <1>5, <1>6 DEF SourceTable
<1> QED BY <1>4, <1>6, <1>7, WindowShape DEF SourcesGrow, NeverInverted, Sources, SourcingInv

\* Every write leaves the windows upright and where they begin.
LEMMA WriteGrows ==
  ASSUME SourcingInv, NEW r \in Requests,
         Add(r) \/ Edit(r) \/ Remove(r) \/ Ingest(r) \/ Approve(r) \/ Confirm(r)
  PROVE  SourcesGrow
<1> USE DEF SourcingInv
<1>1. CASE Add(r)
  <2>1. [from |-> FirstDay(request[r].again, today), to |-> Open, cost |-> request[r].cost] \in Window
    BY <1>1, FrameShape DEF Add, Window, FirstDay, SourcingTypeOK
  <2> QED BY <1>1, <2>1, InsertGrows DEF Add
<1>2. CASE Edit(r)
  <2>1. /\ request[r].saw.row \in SourceIds /\ source[request[r].saw.row] # None
        /\ request[r].saw.was.from = source[request[r].saw.row].from
        /\ request[r].cost \in Costs /\ request[r].eff \in {Undated} \cup Days
    BY <1>2, FrameShape, SawShape DEF SawHeld, Edit
  <2> QED BY <1>2, <2>1, CommitGrows DEF Edit
<1>3. CASE Remove(r)
  BY <1>3, RemoveGrows
<1>4. CASE Ingest(r)
  <2>1. request[r].line \in Line
    BY <1>4, FrameShape DEF Ingest
  <2>2. [from |-> 0, to |-> Open, cost |-> request[r].line.cost] \in Window
    BY <2>1, LineShape DEF Window
  <2> QED BY <1>4, <2>2, InsertGrows, SameGrows DEF Ingest
<1>5. CASE Approve(r)
  <2>1. /\ request[r].line \in LineIds /\ request[r].saw \in Saw /\ request[r].day \in Days
        /\ line[request[r].line] \in Line
    BY <1>5, FrameShape DEF Approve, LinesHeld, SourcingTypeOK
  <2>2. line[request[r].line].cost \in Costs
    BY <2>1, LineShape
  <2>3. request[r].saw.row # None => /\ request[r].saw.was \in Window
                                     /\ source[request[r].saw.row] # None
                                     /\ source[request[r].saw.row].from = request[r].saw.was.from
    BY <1>5 DEF SawHeld, Approve
  <2> QED BY <1>5, <2>1, <2>2, <2>3, PatchGrows, SameGrows DEF Approve
<1>6. CASE Confirm(r)
  <2>1. /\ request[r].line \in LineIds /\ request[r].saw \in Saw /\ request[r].day \in Days
        /\ line[request[r].line] \in Line
    BY <1>6, FrameShape DEF Confirm, LinesHeld, SourcingTypeOK
  <2>2. line[request[r].line].cost \in Costs
    BY <2>1, LineShape
  <2>3. request[r].saw.row # None => /\ request[r].saw.was \in Window
                                     /\ source[request[r].saw.row] # None
                                     /\ source[request[r].saw.row].from = request[r].saw.was.from
    BY <1>6 DEF SawHeld, Confirm
  <2> QED BY <1>6, <2>1, <2>2, <2>3, PatchGrows, SameGrows DEF Confirm
<1> QED BY <1>1, <1>2, <1>3, <1>4, <1>5, <1>6

-----------------------------------------------------------------------------
(* Writes to the quote lines and the items.                                *)

LEMMA StatusGrows ==
  ASSUME SourcingTypeOK, NEW n \in LineIds, line[n] # None, NEW s \in LineStatus,
         line' = [line EXCEPT ![n].status = s]
  PROVE  LinesGrow
<1>1. line \in LineTable /\ line[n] \in Line
  BY DEF SourcingTypeOK, LineTable
<1>2. [line[n] EXCEPT !.status = s] \in Line
  BY <1>1, LineShape
<1>3. [line[n] EXCEPT !.status = s] # None
  BY <1>2, LineShape
<1> QED BY <1>1, <1>2, <1>3 DEF LinesGrow, LineTable

LEMMA SameLines ==
  ASSUME SourcingTypeOK, UNCHANGED line PROVE LinesGrow
BY DEF LinesGrow, SourcingTypeOK, LineTable

LEMMA IngestLines ==
  ASSUME SourcingInv, NEW r \in Requests, Ingest(r) PROVE LinesGrow
<1> DEFINE f == request[r]
<1>1. line \in LineTable /\ f.line \in Line /\ f.line # None /\ f.gone \subseteq LineIds
  BY FrameShape, LineShape DEF SourcingInv, SourcingTypeOK, LineTable, Ingest
<1>2. \A k \in f.gone : line[k] # None
  BY DEF SourcingInv, LinesHeld, Ingest
<1>3. PICK n \in Fresh(LineIds, line) :
        line' = [k \in LineIds |->
          IF k = n THEN f.line
          ELSE IF k \in f.gone THEN [line[k] EXCEPT !.status = "superseded"] ELSE line[k]]
  BY DEF Ingest
<1>4. \A k \in f.gone : [line[k] EXCEPT !.status = "superseded"] \in Line
  <2> SUFFICES ASSUME NEW k \in f.gone PROVE [line[k] EXCEPT !.status = "superseded"] \in Line
    OBVIOUS
  <2>1. line[k] \in Line
    BY <1>1, <1>2 DEF LineTable
  <2> QED BY <2>1, LineShape DEF LineStatus
<1>5. \A k \in f.gone : [line[k] EXCEPT !.status = "superseded"] # None
  BY <1>4, LineShape
<1> HIDE DEF f
<1> QED BY <1>1, <1>3, <1>4, <1>5 DEF LinesGrow, LineTable

LEMMA WriteLines ==
  ASSUME SourcingInv, NEW r \in Requests,
         Reject(r) \/ Approve(r) \/ Confirm(r) \/ Ingest(r)
  PROVE  LinesGrow
<1> USE DEF SourcingInv
<1>1. CASE Ingest(r)
  BY <1>1, IngestLines
<1>2. CASE Reject(r) \/ Approve(r) \/ Confirm(r)
  <2>1. request[r].line \in LineIds /\ line[request[r].line] # None
    BY <1>2, FrameShape DEF Reject, Approve, Confirm, LinesHeld
  <2>2. \E s \in LineStatus : line' = [line EXCEPT ![request[r].line].status = s]
    BY <1>2 DEF Reject, Approve, Confirm, LineStatus
  <2> QED BY <2>1, <2>2, StatusGrows
<1> QED BY <1>1, <1>2

LEMMA ItemsType ==
  ASSUME SourcingTypeOK, NEW r \in Requests, Approve(r) \/ Dismiss(r)
  PROVE  items' \in Seq(ItemStatus)
<1>1. items \in Seq(ItemStatus)
  BY DEF SourcingTypeOK
<1>2. CASE Approve(r)
  <2>1. items' = [t \in 1..Len(items) |-> IF items[t] = "pending" THEN "accepted" ELSE items[t]]
    BY <1>1, <1>2 DEF Approve, Answered
  <2> QED BY <1>1, <2>1 DEF ItemStatus
<1>3. CASE Dismiss(r)
  <2>1. items \in [1..Len(items) -> ItemStatus] /\ Len(items) \in Nat
    BY <1>1
  <2>2. items' = [items EXCEPT ![request[r].item] = "acknowledged"]
    BY <1>3 DEF Dismiss
  <2>3. items' \in [1..Len(items) -> ItemStatus]
    BY <2>1, <2>2 DEF ItemStatus
  <2> QED BY <2>1, <2>3
<1> QED BY <1>2, <1>3

-----------------------------------------------------------------------------
(* The invariant.                                                          *)

LEMMA SourcingInvInit == SourcingInit => SourcingInv
<1> SUFFICES ASSUME SourcingInit PROVE SourcingInv
  OBVIOUS
<1> USE DEF SourcingInit
<1>1. SourcingTypeOK
  BY DaysAreNumbers DEF SourcingTypeOK, PartStatus, Request, ItemStatus
<1>2. NeverInverted
  BY DEF NeverInverted, Sources
<1>3. SawHeld /\ LinesHeld
  BY DEF SawHeld, LinesHeld, Idle
<1> QED BY <1>1, <1>2, <1>3 DEF SourcingInv

\* A read: one more frame, and nothing else moves.
LEMMA StartKeeps ==
  ASSUME SourcingInv, NEW r \in Requests, NEW frame \in Request, Starts(r, frame),
         frame.pc \in {"edit", "remove", "approve", "confirm"} =>
           /\ frame.saw.row = None => frame.pc \in {"approve", "confirm"}
           /\ frame.saw.row # None => /\ frame.saw.was \in Window
                                      /\ source[frame.saw.row] # None
                                      /\ source[frame.saw.row].from = frame.saw.was.from,
         frame.pc \in {"reject", "approve", "confirm"} => line[frame.line] # None,
         frame.pc = "ingest" => \A k \in frame.gone : line[k] # None
  PROVE  SourcingInv'
<1>1. /\ request' \in [Requests -> Request] /\ request'[r] = frame
      /\ \A q \in Requests \ {r} : request'[q] = request[q]
  BY DEF Starts, SourcingInv, SourcingTypeOK
<1>2. UNCHANGED <<today, status, source, line, items, uses>> /\ requests' \in Nat
      /\ mishaps' \subseteq {"race", "clamped"}
  BY DEF Starts, facts, SourcingInv, SourcingTypeOK, Mark
<1>3. SourcingTypeOK'
  BY <1>1, <1>2 DEF SourcingInv, SourcingTypeOK
<1>4. NeverInverted'
  BY <1>2 DEF SourcingInv, NeverInverted, Sources
<1>5. SawHeld'
  BY <1>1, <1>2 DEF SourcingInv, SawHeld
<1>6. LinesHeld'
  BY <1>1, <1>2 DEF SourcingInv, LinesHeld
<1> QED BY <1>3, <1>4, <1>5, <1>6 DEF SourcingInv

\* A write: the frame is gone, the windows and the lines have grown.
LEMMA DoneKeeps ==
  ASSUME SourcingInv, NEW r \in Requests, Done(r),
         SourcesGrow, LinesGrow,
         status' \in PartStatus, items' \in Seq(ItemStatus),
         uses' \in [LineIds -> Nat], mishaps' \subseteq {"race", "clamped"}
  PROVE  SourcingInv'
<1>1. /\ request' \in [Requests -> Request] /\ request'[r] = Idle
      /\ \A q \in Requests \ {r} : request'[q] = request[q]
      /\ UNCHANGED <<today, requests>>
  BY DEF Done, SourcingInv, SourcingTypeOK, Request
<1>2. SourcingTypeOK'
  BY <1>1 DEF SourcingInv, SourcingTypeOK, SourcesGrow, LinesGrow, SourceTable, LineTable
<1>3. SawHeld'
  <2> SUFFICES ASSUME NEW q \in Requests, request'[q].pc \in {"edit", "remove", "approve", "confirm"}
               PROVE  /\ request'[q].saw.row = None => request'[q].pc \in {"approve", "confirm"}
                      /\ request'[q].saw.row # None =>
                           /\ request'[q].saw.was \in Window
                           /\ source'[request'[q].saw.row] # None
                           /\ source'[request'[q].saw.row].from = request'[q].saw.was.from
    BY DEF SawHeld
  <2>1. q # r /\ request'[q] = request[q]
    BY <1>1 DEF Idle
  <2>2. request[q].saw.row \in SourceIds \cup {None}
    BY <2>1, FrameShape, SawShape DEF SourcingInv
  <2> QED BY <2>1, <2>2 DEF SourcingInv, SawHeld, SourcesGrow
<1>4. LinesHeld'
  <2> SUFFICES ASSUME NEW q \in Requests
               PROVE  /\ request'[q].pc \in {"reject", "approve", "confirm"} => line'[request'[q].line] # None
                      /\ request'[q].pc = "ingest" => \A k \in request'[q].gone : line'[k] # None
    BY DEF LinesHeld
  <2>1. CASE q = r
    BY <2>1, <1>1 DEF Idle
  <2>2. CASE q # r
    <3>1. request'[q] = request[q]
      BY <2>2, <1>1
    <3>2. /\ request[q].pc \in {"reject", "approve", "confirm"} => request[q].line \in LineIds
          /\ request[q].pc = "ingest" => request[q].gone \subseteq LineIds
      BY FrameShape DEF SourcingInv
    <3> QED BY <3>1, <3>2 DEF SourcingInv, LinesHeld, LinesGrow
  <2> QED BY <2>1, <2>2
<1> QED BY <1>2, <1>3, <1>4 DEF SourcingInv, SourcesGrow

LEMMA SeenHolds ==
  ASSUME SourcingTypeOK, NEW i \in SourceIds \cup {None},
         NEW saw, saw = [row |-> i, was |-> IF i = None THEN None ELSE source[i]], Seen(saw)
  PROVE  /\ saw \in Saw
         /\ saw.row # None => /\ saw.was \in Window
                              /\ source[saw.row] # None
                              /\ source[saw.row].from = saw.was.from
<1>1. source \in SourceTable
  BY DEF SourcingTypeOK, SourceTable
<1>2. CASE CurrentSources = {}
  BY <1>1, <1>2 DEF Seen, Saw
<1>3. CASE CurrentSources # {}
  <2>1. i \in SourceIds /\ source[i] # None
    BY <1>3, NoneAssumption DEF Seen, CurrentSources, Sources
  <2> QED BY <1>1, <2>1, NoneAssumption DEF SourceTable, Saw
<1> QED BY <1>2, <1>3

LEMMA LoadHolds ==
  ASSUME SourcingTypeOK, NEW i \in Sources
  PROVE  /\ [row |-> i, was |-> source[i]] \in Saw
         /\ i # None /\ source[i] \in Window
BY NoneAssumption DEF Sources, SourcingTypeOK, Saw

\* The reads.
LEMMA ReadKeeps ==
  ASSUME SourcingInv, NEW r \in Requests,
         \/ ReadAdd(r) \/ ReadEdit(r) \/ ReadRemove(r) \/ ReadIngest(r) \/ ReadReject(r)
         \/ ReadApprove(r) \/ ReadConfirm(r) \/ ReadDismiss(r) \/ ReadStatus(r)
  PROVE  SourcingInv'
<1>0. SourcingTypeOK
  BY DEF SourcingInv
<1>1. CASE ReadAdd(r)
  <2>1. PICK cost \in Costs : Starts(r, [pc |-> "add", cost |-> cost, again |-> Sources # {}])
    BY <1>1 DEF ReadAdd
  <2>2. [pc |-> "add", cost |-> cost, again |-> Sources # {}] \in Request
    BY DEF Request
  <2> QED BY <2>1, <2>2, StartKeeps
<1>2. CASE ReadEdit(r)
  <2>1. PICK i \in Sources, cost \in Costs, eff \in {Undated} \cup Days :
          Starts(r, [pc |-> "edit", saw |-> [row |-> i, was |-> source[i]], cost |-> cost, eff |-> eff])
    BY <1>2 DEF ReadEdit
  <2> DEFINE frame == [pc |-> "edit", saw |-> [row |-> i, was |-> source[i]], cost |-> cost, eff |-> eff]
  <2>2. frame \in Request
    BY <1>0, LoadHolds DEF Request
  <2>3. frame.saw.row # None /\ frame.saw.was \in Window
        /\ source[frame.saw.row] # None /\ source[frame.saw.row].from = frame.saw.was.from
    BY <1>0, LoadHolds DEF Sources
  <2>4. frame.pc = "edit" /\ Starts(r, frame)
    BY <2>1
  <2> HIDE DEF frame
  <2> QED BY <2>2, <2>3, <2>4, StartKeeps
<1>3. CASE ReadRemove(r)
  <2>1. PICK i \in Sources : Starts(r, [pc |-> "remove", saw |-> [row |-> i, was |-> source[i]]])
    BY <1>3 DEF ReadRemove
  <2> DEFINE frame == [pc |-> "remove", saw |-> [row |-> i, was |-> source[i]]]
  <2>2. frame \in Request
    BY <1>0, LoadHolds DEF Request
  <2>3. frame.saw.row # None /\ frame.saw.was \in Window
        /\ source[frame.saw.row] # None /\ source[frame.saw.row].from = frame.saw.was.from
    BY <1>0, LoadHolds DEF Sources
  <2>4. frame.pc = "remove" /\ Starts(r, frame)
    BY <2>1
  <2> HIDE DEF frame
  <2> QED BY <2>2, <2>3, <2>4, StartKeeps
<1>4. CASE ReadIngest(r)
  <2>1. PICK named \in BOOLEAN, cost \in Costs, date \in QuoteDates :
          Starts(r, [pc |-> "ingest", create |-> status = "none", gone |-> Superseded(named),
                     line |-> [named |-> named, cost |-> cost, date |-> date, status |-> "received"]])
    BY <1>4 DEF ReadIngest
  <2> DEFINE frame == [pc |-> "ingest", create |-> status = "none", gone |-> Superseded(named),
                       line |-> [named |-> named, cost |-> cost, date |-> date, status |-> "received"]]
  <2>2. frame \in Request
    BY DEF Request, Line, LineStatus, Superseded, Lines
  <2>3. frame.pc = "ingest" /\ Starts(r, frame) /\ \A k \in frame.gone : line[k] # None
    BY <2>1 DEF Superseded, Lines
  <2> HIDE DEF frame
  <2> QED BY <2>2, <2>3, StartKeeps
<1>5. CASE ReadReject(r)
  <2>1. PICK n \in LineIds : Decidable(n) /\ Starts(r, [pc |-> "reject", line |-> n])
    BY <1>5 DEF ReadReject
  <2> DEFINE frame == [pc |-> "reject", line |-> n]
  <2>2. frame \in Request /\ frame.pc = "reject" /\ Starts(r, frame) /\ line[frame.line] # None
    BY <2>1 DEF Request, Decidable, Lines
  <2> HIDE DEF frame
  <2> QED BY <2>2, StartKeeps
<1>6. CASE ReadApprove(r)
  <2>1. PICK n \in LineIds, i \in SourceIds \cup {None} :
          /\ Decidable(n) /\ Seen([row |-> i, was |-> IF i = None THEN None ELSE source[i]])
          /\ Starts(r, [pc |-> "approve", line |-> n, draft |-> status = "draft",
                        saw |-> [row |-> i, was |-> IF i = None THEN None ELSE source[i]], day |-> today])
    BY <1>6 DEF ReadApprove
  <2> DEFINE saw == [row |-> i, was |-> IF i = None THEN None ELSE source[i]]
             frame == [pc |-> "approve", line |-> n, draft |-> status = "draft",
                       saw |-> saw, day |-> today]
  <2>2. /\ saw \in Saw
        /\ saw.row # None => /\ saw.was \in Window /\ source[saw.row] # None
                             /\ source[saw.row].from = saw.was.from
    BY <1>0, <2>1, SeenHolds
  <2>3. Starts(r, frame)
    BY <2>1
  <2>4. today \in Days /\ line[n] # None
    BY <1>0, <2>1 DEF SourcingTypeOK, Decidable, Lines
  <2> HIDE DEF saw
  <2>5. frame \in Request /\ frame.pc = "approve" /\ frame.saw = saw /\ frame.line = n
    BY <2>2, <2>4 DEF Request
  <2> HIDE DEF frame
  <2> QED BY <2>2, <2>3, <2>4, <2>5, StartKeeps
<1>7. CASE ReadConfirm(r)
  <2>1. PICK cost \in Costs, date \in {Undated, today}, vendor \in BOOLEAN :
          \E n \in WinningQuote({k \in Confirmable : MatchesOrder(k, cost, date)}),
             i \in SourceIds \cup {None} :
            /\ Seen([row |-> i, was |-> IF i = None THEN None ELSE source[i]])
            /\ Starts(r, [pc |-> "confirm", line |-> n, onto |-> line[n].named \/ vendor,
                          saw |-> [row |-> i, was |-> IF i = None THEN None ELSE source[i]], day |-> today])
    BY <1>7 DEF ReadConfirm
  <2>2. PICK n \in Confirmable, i \in SourceIds \cup {None} :
          /\ Seen([row |-> i, was |-> IF i = None THEN None ELSE source[i]])
          /\ Starts(r, [pc |-> "confirm", line |-> n, onto |-> line[n].named \/ vendor,
                        saw |-> [row |-> i, was |-> IF i = None THEN None ELSE source[i]], day |-> today])
    BY <2>1 DEF WinningQuote
  <2> DEFINE saw == [row |-> i, was |-> IF i = None THEN None ELSE source[i]]
             frame == [pc |-> "confirm", line |-> n, onto |-> line[n].named \/ vendor,
                       saw |-> saw, day |-> today]
  <2>3. /\ saw \in Saw
        /\ saw.row # None => /\ saw.was \in Window /\ source[saw.row] # None
                             /\ source[saw.row].from = saw.was.from
    BY <1>0, <2>2, SeenHolds
  <2>4. Starts(r, frame)
    BY <2>2
  <2>5. today \in Days /\ n \in LineIds /\ line[n] # None
    BY <1>0 DEF SourcingTypeOK, Confirmable, Lines
  <2> HIDE DEF saw
  <2>6. frame \in Request /\ frame.pc = "confirm" /\ frame.saw = saw /\ frame.line = n
    BY <2>3, <2>5 DEF Request
  <2> HIDE DEF frame
  <2> QED BY <2>3, <2>4, <2>5, <2>6, StartKeeps
<1>8. CASE ReadDismiss(r)
  <2>1. PICK t \in DOMAIN items : Starts(r, [pc |-> "dismiss", item |-> t])
    BY <1>8 DEF ReadDismiss
  <2>2. t \in Nat
    BY <1>0 DEF SourcingTypeOK
  <2>3. [pc |-> "dismiss", item |-> t] \in Request
    BY <2>2 DEF Request
  <2> QED BY <2>1, <2>3, StartKeeps
<1>9. CASE ReadStatus(r)
  <2>1. PICK to \in {"active", "archived"} : Starts(r, [pc |-> "status", to |-> to])
    BY <1>9 DEF ReadStatus
  <2>2. [pc |-> "status", to |-> to] \in Request
    BY DEF Request
  <2> QED BY <2>1, <2>2, StartKeeps
<1> QED BY <1>1, <1>2, <1>3, <1>4, <1>5, <1>6, <1>7, <1>8, <1>9

LEMMA WriteKeeps ==
  ASSUME SourcingInv, NEW r \in Requests,
         \/ Add(r) \/ Edit(r) \/ Remove(r) \/ Ingest(r) \/ Reject(r) \/ Approve(r)
         \/ Confirm(r) \/ Dismiss(r) \/ SetStatus(r) \/ Abort(r)
  PROVE  SourcingInv'
<1>0. SourcingTypeOK /\ NeverInverted
  BY DEF SourcingInv
<1>1. Done(r)
  BY DEF Add, Edit, Remove, Ingest, Reject, Approve, Confirm, Dismiss, SetStatus, Abort
<1>2. SourcesGrow
  BY <1>0, WriteGrows, SameGrows DEF Reject, Dismiss, SetStatus, Abort
<1>3. LinesGrow
  BY <1>0, WriteLines, SameLines DEF Add, Edit, Remove, Dismiss, SetStatus, Abort
<1>4. status' \in PartStatus
  BY <1>0, FrameShape
     DEF SourcingTypeOK, PartStatus, Add, Edit, Remove, Ingest, Reject, Approve, Confirm,
         Dismiss, SetStatus, Abort
<1>5. items' \in Seq(ItemStatus)
  BY <1>0, ItemsType
     DEF SourcingTypeOK, Add, Edit, Remove, Ingest, Reject, Confirm, SetStatus, Abort
<1>6. uses' \in [LineIds -> Nat]
  <2>1. CASE Approve(r) \/ Confirm(r)
    BY <1>0, <2>1 DEF SourcingTypeOK, Approve, Confirm
  <2>2. CASE ~(Approve(r) \/ Confirm(r))
    BY <1>0, <2>2
       DEF SourcingTypeOK, Add, Edit, Remove, Ingest, Reject, Dismiss, SetStatus, Abort
  <2> QED BY <2>1, <2>2
<1>7. mishaps' \subseteq {"race", "clamped"}
  BY <1>0 DEF SourcingTypeOK, Mark, Add, Edit, Remove, Ingest, Reject, Approve, Confirm,
     Dismiss, SetStatus, Abort
<1> QED BY <1>1, <1>2, <1>3, <1>4, <1>5, <1>6, <1>7, DoneKeeps

\* Nothing a request relies on moves.
LEMMA QuietKeeps ==
  ASSUME SourcingInv, UNCHANGED <<status, source, line, request, uses, mishaps, requests>>,
         today' \in Days, items' \in Seq(ItemStatus)
  PROVE  SourcingInv'
BY DEF SourcingInv, SourcingTypeOK, NeverInverted, Sources, SawHeld, LinesHeld

LEMMA SourcingInvStep == SourcingInv /\ [SourcingNext]_sourcingVars => SourcingInv'
<1> SUFFICES ASSUME SourcingInv, [SourcingNext]_sourcingVars PROVE SourcingInv'
  OBVIOUS
<1>0. SourcingTypeOK /\ today \in Days /\ items \in Seq(ItemStatus)
  BY DEF SourcingInv, SourcingTypeOK
<1>1. CASE NextDay
  BY <1>0, <1>1, QuietKeeps DEF NextDay
<1>2. CASE OpenReconsider
  <2>1. items' \in Seq(ItemStatus)
    <3> DEFINE old == [t \in 1..Len(items) |-> IF items[t] = "pending" THEN "superseded" ELSE items[t]]
    <3>1. old \in Seq(ItemStatus)
      BY <1>0 DEF ItemStatus
    <3>2. items' = Append(old, "pending")
      BY <1>0, <1>2 DEF OpenReconsider
    <3>3. "pending" \in ItemStatus
      BY DEF ItemStatus
    <3> HIDE DEF old
    <3> QED BY <3>1, <3>2, <3>3
  <2> QED BY <1>0, <1>2, <2>1, QuietKeeps DEF OpenReconsider
<1>3. CASE \E r \in Requests :
        \/ ReadAdd(r) \/ ReadEdit(r) \/ ReadRemove(r) \/ ReadIngest(r) \/ ReadReject(r)
        \/ ReadApprove(r) \/ ReadConfirm(r) \/ ReadDismiss(r) \/ ReadStatus(r)
  BY <1>3, ReadKeeps
<1>4. CASE \E r \in Requests :
        \/ Add(r) \/ Edit(r) \/ Remove(r) \/ Ingest(r) \/ Reject(r) \/ Approve(r)
        \/ Confirm(r) \/ Dismiss(r) \/ SetStatus(r) \/ Abort(r)
  BY <1>4, WriteKeeps
<1>5. CASE UNCHANGED sourcingVars
  BY <1>0, <1>5, QuietKeeps DEF sourcingVars, facts
<1> QED BY <1>1, <1>2, <1>3, <1>4, <1>5 DEF SourcingNext

-----------------------------------------------------------------------------
(* The theorems.                                                           *)

\* Every window, quote line, item and frame stays in its type, whatever the
\* requests overlap with.
THEOREM SourcingTypeCorrect == SourcingSpec => []SourcingTypeOK
<1>1. SourcingInv => SourcingTypeOK
  BY DEF SourcingInv
<1> QED BY SourcingInvInit, SourcingInvStep, <1>1, PTL DEF SourcingSpec

\* No window of a vendor ends before it begins, for any number of edits,
\* removals and quotes that overlap in any way: the plan was made from a first
\* day that no other request can move.
THEOREM NeverInvertedAlways == SourcingSpec => []NeverInverted
<1>1. SourcingInv => NeverInverted
  BY DEF SourcingInv
<1> QED BY SourcingInvInit, SourcingInvStep, <1>1, PTL DEF SourcingSpec
-----------------------------------------------------------------------------
(* One request after the other: what a write does to the windows.          *)

\* A window is added where there is no current one, ...
AddedFrom(day) ==
  CurrentSources = {} /\ \E k \in SourceIds :
    /\ source[k] = None
    /\ source'[k] # None /\ source'[k].from = day /\ source'[k].to = Open
    /\ \A i \in SourceIds \ {k} : source'[i] = source[i]

\* ... the current one is corrected, ...
Corrected ==
  \E row \in CurrentSources :
    /\ source'[row] # None /\ source'[row].from = source[row].from /\ source'[row].to = Open
    /\ \A i \in SourceIds \ {row} : source'[i] = source[i]

\* ... ends the day before a new one begins, ...
TiledFrom(day) ==
  \E row \in CurrentSources, k \in SourceIds :
    /\ source[row].from < day /\ day \in Nat
    /\ source[k] = None
    /\ source'[k] # None /\ source'[k].from = day /\ source'[k].to = Open
    /\ source'[row] # None /\ source'[row].from = source[row].from /\ source'[row].to = day - 1
    /\ \A i \in SourceIds \ {row, k} : source'[i] = source[i]

\* ... or is closed.
ClosedOn(day) ==
  \E row \in CurrentSources :
    /\ source'[row] # None /\ source'[row].from = source[row].from
    /\ source'[row].to = CloseDate(source[row].from, day)
    /\ day <= source[row].from => "clamped" \in mishaps'
    /\ \A i \in SourceIds \ {row} : source'[i] = source[i]

\* Where a new window begins: a first source on no day, a later one today or on
\* the day the quote's request began.
Begins(day) ==
  \/ Sources = {}
  \/ day = today
  \/ \E r \in Requests : /\ request[r].pc \in {"approve", "confirm"}
                         /\ request[r].saw.row = None /\ request[r].day = day

\* The five ways.
WritesSources ==
  \/ UNCHANGED source
  \/ \E day \in Nat : AddedFrom(day) /\ Begins(day)
  \/ Corrected
  \/ \E day \in Nat : TiledFrom(day)
  \/ ClosedOn(today)

LEMMA InsertedOne ==
  ASSUME NEW table \in SourceTable, NEW w, InsertSource(table, w)
  PROVE  \E k \in SourceIds : /\ table[k] = None /\ source'[k] = w
                              /\ \A i \in SourceIds \ {k} : source'[i] = table[i]
<1>1. PICK k \in Fresh(SourceIds, table) : source' = [table EXCEPT ![k] = w]
  BY DEF InsertSource
<1>2. k \in SourceIds /\ table[k] = None
  BY <1>1 DEF Fresh
<1> QED BY <1>1, <1>2 DEF SourceTable

LEMMA InsertAdds ==
  ASSUME SourcingTypeOK, NEW day \in {0} \cup Days, NEW cost \in Costs,
         InsertSource(source, [from |-> day, to |-> Open, cost |-> cost])
  PROVE  AddedFrom(day)
<1> DEFINE w == [from |-> day, to |-> Open, cost |-> cost]
<1>1. w \in Window /\ w # None /\ w.from = day /\ w.to = Open
  BY NoneAssumption DEF Window
<1>2. source \in SourceTable
  BY DEF SourcingTypeOK, SourceTable
<1>3. InsertSource(source, w) /\ CurrentSources = {}
  BY DEF InsertSource, CurrentSources, Sources
<1> HIDE DEF w
<1>4. PICK k \in SourceIds : /\ source[k] = None /\ source'[k] = w
                             /\ \A i \in SourceIds \ {k} : source'[i] = source[i]
  BY <1>2, <1>3, InsertedOne
<1> QED BY <1>1, <1>3, <1>4 DEF AddedFrom

LEMMA CommitWrites ==
  ASSUME SourcingTypeOK, NEW row \in CurrentSources, NEW cost \in Costs,
         NEW eff \in {Undated} \cup Days,
         IF CommitPlan(source[row].from, eff) = "tile"
         THEN Tile(row, cost, eff) ELSE Correct(row, cost)
  PROVE  WritesSources
<1>1. /\ source \in SourceTable /\ row \in SourceIds
      /\ source[row] \in Window /\ source[row].to = Open
  BY DEF SourcingTypeOK, SourceTable, CurrentSources, Sources
<1>2. source[row].from \in Nat /\ eff \in Nat
  BY <1>1, WindowShape, DaysAreNumbers DEF Undated
<1>3. CASE Correct(row, cost)
  <2>1. source' = [source EXCEPT ![row] = [source[row] EXCEPT !.cost = cost]]
    BY <1>3 DEF Correct
  <2>2. [source[row] EXCEPT !.cost = cost] \in Window
    BY <1>1 DEF Window
  <2>3. /\ source'[row] = [source[row] EXCEPT !.cost = cost]
        /\ \A i \in SourceIds \ {row} : source'[i] = source[i]
    BY <1>1, <2>1 DEF SourceTable
  <2>4. /\ source'[row] # None /\ source'[row].from = source[row].from
        /\ source'[row].to = Open
    BY <1>1, <2>2, <2>3, NoneAssumption DEF Window
  <2> QED BY <2>3, <2>4 DEF WritesSources, Corrected
<1>4. CASE Tile(row, cost, eff) /\ source[row].from < eff /\ eff \in Days
  <2> DEFINE table == [source EXCEPT ![row].to = eff - 1]
             w == [from |-> eff, to |-> Open, cost |-> cost]
  <2>1. w # None /\ w.from = eff /\ w.to = Open
    BY <1>4, NoneAssumption DEF Window
  <2>2. eff - 1 \in Nat
    BY <1>2, <1>4
  <2>3. [source[row] EXCEPT !.to = eff - 1] \in Window
    BY <1>1, <2>2 DEF Window
  <2>4. /\ table \in SourceTable
        /\ table[row] = [source[row] EXCEPT !.to = eff - 1]
        /\ \A i \in SourceIds \ {row} : table[i] = source[i]
    BY <1>1, <2>3 DEF SourceTable
  <2>5. table[row].from = source[row].from /\ table[row].to = eff - 1 /\ table[row] # None
    BY <1>1, <2>3, <2>4, NoneAssumption DEF Window
  <2>6. InsertSource(table, w)
    BY <1>4 DEF Tile
  <2> HIDE DEF table, w
  <2>7. PICK k \in SourceIds : /\ table[k] = None /\ source'[k] = w
                               /\ \A i \in SourceIds \ {k} : source'[i] = table[i]
    BY <2>4, <2>6, InsertedOne
  <2>8. k # row /\ source[k] = None
    BY <2>4, <2>5, <2>7
  <2>9. /\ source'[k] # None /\ source'[k].from = eff /\ source'[k].to = Open
        /\ source'[row] = table[row]
        /\ \A i \in SourceIds \ {row, k} : source'[i] = source[i]
    BY <1>1, <2>1, <2>4, <2>7, <2>8
  <2>10. TiledFrom(eff)
    BY <1>2, <1>4, <2>5, <2>8, <2>9 DEF TiledFrom
  <2> QED BY <1>2, <2>10 DEF WritesSources
<1> QED BY <1>2, <1>3, <1>4 DEF CommitPlan, Tiles, Undated

\* Seen answers the current window, or that there is none.
LEMMA SeenCurrent ==
  ASSUME NEW saw, Seen(saw)
  PROVE  IF saw.row = None THEN CurrentSources = {}
         ELSE saw.row \in CurrentSources /\ saw.was = source[saw.row]
<1>1. CASE CurrentSources = {}
  BY <1>1 DEF Seen
<1>2. CASE CurrentSources # {}
  <2>1. PICK i \in CurrentSources : saw = [row |-> i, was |-> source[i]]
    BY <1>2 DEF Seen
  <2>2. i # None
    BY NoneAssumption DEF CurrentSources, Sources
  <2> QED BY <2>1, <2>2
<1> QED BY <1>1, <1>2

LEMMA PatchWrites ==
  ASSUME SourcingTypeOK, NEW r \in Requests, request[r].pc \in {"approve", "confirm"},
         request[r].day \in Days, Seen(request[r].saw), NEW cost \in Costs,
         PatchSource(request[r].saw, cost, request[r].day)
  PROVE  WritesSources
<1> DEFINE saw == request[r].saw
           day == request[r].day
<1>1. CASE saw.row = None
  <2>1. InsertSource(source, [from |-> FirstDay(Sources # {}, day), to |-> Open, cost |-> cost])
    BY <1>1 DEF PatchSource
  <2>2. CASE Sources = {}
    <3>1. AddedFrom(0) /\ Begins(0)
      BY <2>1, <2>2, InsertAdds DEF FirstDay, Begins
    <3> QED BY <3>1 DEF WritesSources
  <2>3. CASE Sources # {}
    <3>1. AddedFrom(day)
      BY <2>1, <2>3, InsertAdds DEF FirstDay
    <3>2. Begins(day) /\ day \in Nat
      BY <1>1, DaysAreNumbers DEF Begins
    <3> QED BY <3>1, <3>2 DEF WritesSources
  <2> QED BY <2>2, <2>3
<1>2. CASE saw.row # None
  <2>1. saw.row \in CurrentSources /\ saw.was = source[saw.row]
    BY <1>2, SeenCurrent
  <2>2. CASE saw.was.cost = cost
    BY <1>2, <2>2 DEF PatchSource, WritesSources
  <2>3. CASE saw.was.cost # cost
    <3>1. IF CommitPlan(source[saw.row].from, day) = "tile"
          THEN Tile(saw.row, cost, day) ELSE Correct(saw.row, cost)
      BY <1>2, <2>1, <2>3 DEF PatchSource
    <3> HIDE DEF saw, day
    <3>2. day \in {Undated} \cup Days
      BY DEF day
    <3> QED BY <2>1, <3>1, <3>2, CommitWrites
  <2> QED BY <2>2, <2>3
<1> QED BY <1>1, <1>2

\* Serial, as long as it says anything.
LEMMA SerialSays ==
  ASSUME SerialInv, "race" \notin mishaps, NEW r \in Requests
  PROVE  /\ OneRequest /\ StillTrue(request[r]) /\ UsedWhenApplied /\ Unborn
BY DEF SerialInv

LEMMA WriteShapes ==
  ASSUME SourcingInv, SerialInv, "race" \notin mishaps, NEW r \in Requests,
         \/ Add(r) \/ Edit(r) \/ Remove(r) \/ Ingest(r) \/ Reject(r) \/ Approve(r)
         \/ Confirm(r) \/ Dismiss(r) \/ SetStatus(r) \/ Abort(r)
  PROVE  WritesSources
<1> DEFINE f == request[r]
<1>0. SourcingTypeOK /\ StillTrue(f) /\ Unborn
  BY SerialSays DEF SourcingInv
<1>1. CASE Add(r)
  <2>1. f.pc = "add" /\ f.cost \in Costs
        /\ InsertSource(source, [from |-> FirstDay(f.again, today), to |-> Open, cost |-> f.cost])
    BY <1>0, <1>1, FrameShape DEF Add
  <2>2. f.again = (Sources # {}) /\ today \in Days /\ today \in Nat
    BY <1>0, <2>1, DaysAreNumbers DEF StillTrue, SourcingTypeOK
  <2>3. CASE Sources = {}
    <3>1. AddedFrom(0) /\ Begins(0)
      BY <1>0, <2>1, <2>2, <2>3, InsertAdds DEF FirstDay, Begins
    <3> QED BY <3>1 DEF WritesSources
  <2>4. CASE Sources # {}
    <3>1. AddedFrom(today) /\ Begins(today)
      BY <1>0, <2>1, <2>2, <2>4, InsertAdds DEF FirstDay, Begins
    <3> QED BY <2>2, <3>1 DEF WritesSources
  <2> QED BY <2>3, <2>4
<1>2. CASE Edit(r)
  <2>1. /\ f.pc = "edit" /\ f.cost \in Costs /\ f.eff \in {Undated} \cup Days
        /\ IF CommitPlan(f.saw.was.from, f.eff) = "tile"
           THEN Tile(f.saw.row, f.cost, f.eff) ELSE Correct(f.saw.row, f.cost)
    BY <1>0, <1>2, FrameShape DEF Edit
  <2>2. f.saw.row \in CurrentSources /\ f.saw.was = source[f.saw.row]
    BY <1>0, <2>1 DEF StillTrue
  <2> QED BY <1>0, <2>1, <2>2, CommitWrites
<1>3. CASE Remove(r)
  <2> DEFINE row == f.saw.row
             close == CloseDate(source[row].from, today)
  <2>1. /\ f.pc = "remove"
        /\ source' = [source EXCEPT ![row].to = CloseDate(f.saw.was.from, today)]
        /\ mishaps' = mishaps \cup Mark("clamped", today <= f.saw.was.from)
    BY <1>3 DEF Remove
  <2>2. row \in CurrentSources /\ f.saw.was = source[row]
    BY <1>0, <2>1 DEF StillTrue
  <2>3. /\ source \in SourceTable /\ row \in SourceIds /\ source[row] \in Window
        /\ today \in Nat
    BY <1>0, <2>2, DaysAreNumbers DEF SourcingTypeOK, SourceTable, CurrentSources, Sources
  <2>4. close \in Nat
    BY <2>3, WindowShape DEF CloseDate
  <2>5. source' = [source EXCEPT ![row].to = close]
    BY <2>1, <2>2
  <2>6. today <= source[row].from => "clamped" \in mishaps'
    BY <2>1, <2>2 DEF Mark
  <2> HIDE DEF row, close
  <2>7. /\ [source[row] EXCEPT !.to = close] \in Window
        /\ [source[row] EXCEPT !.to = close].from = source[row].from
        /\ [source[row] EXCEPT !.to = close].to = close
    BY <2>3, <2>4 DEF Window
  <2>8. /\ source'[row] = [source[row] EXCEPT !.to = close]
        /\ \A i \in SourceIds \ {row} : source'[i] = source[i]
    BY <2>3, <2>5, <2>7 DEF SourceTable
  <2>9. source'[row] # None
    BY <2>7, <2>8, NoneAssumption
  <2>10. ClosedOn(today)
    BY <2>2, <2>6, <2>7, <2>8, <2>9 DEF ClosedOn, close
  <2> QED BY <2>10 DEF WritesSources
<1>4. CASE Ingest(r)
  <2>1. CASE f.create /\ f.line.named
    <3>1. /\ f.line \in Line /\ status = "none"
          /\ InsertSource(source, [from |-> 0, to |-> Open, cost |-> f.line.cost])
      BY <1>0, <1>4, <2>1, FrameShape DEF Ingest
    <3>2. f.line.cost \in Costs
      BY <3>1, LineShape
    <3>3. AddedFrom(0) /\ Begins(0)
      BY <1>0, <3>1, <3>2, InsertAdds DEF Begins, Unborn
    <3> QED BY <3>3 DEF WritesSources
  <2>2. CASE ~(f.create /\ f.line.named)
    BY <1>4, <2>2 DEF Ingest, WritesSources
  <2> QED BY <2>1, <2>2
<1>5. CASE Approve(r) \/ Confirm(r)
  <2>1. /\ f.pc \in {"approve", "confirm"} /\ f.line \in LineIds /\ f.day \in Days
        /\ Seen(f.saw) /\ line[f.line] \in Line
        /\ UNCHANGED source \/ PatchSource(f.saw, line[f.line].cost, f.day)
    BY <1>0, <1>5, FrameShape
    DEF Approve, Confirm, SourcingInv, LinesHeld, SourcingTypeOK, StillTrue
  <2>2. line[f.line].cost \in Costs
    BY <2>1, LineShape
  <2> HIDE DEF f
  <2>3. CASE PatchSource(f.saw, line[f.line].cost, f.day)
    BY <1>0, <2>1, <2>2, <2>3, PatchWrites DEF f
  <2> QED BY <2>1, <2>3 DEF WritesSources
<1>6. CASE Reject(r) \/ Dismiss(r) \/ SetStatus(r) \/ Abort(r)
  BY <1>6 DEF Reject, Dismiss, SetStatus, Abort, WritesSources
<1> QED BY <1>1, <1>2, <1>3, <1>4, <1>5, <1>6

-----------------------------------------------------------------------------
(* The serial invariant.                                                   *)

LEMMA SerialInit == SourcingInit => SerialInv /\ TilingInv
<1> SUFFICES ASSUME SourcingInit PROVE SerialInv /\ TilingInv
  OBVIOUS
<1>1. \A r \in Requests : request[r] = Idle
  BY DEF SourcingInit
<1>2. StillTrue(Idle)
  BY DEF StillTrue, Idle
<1>3. Sources = {} /\ Lines("applied") = {}
  BY DEF SourcingInit, Sources, Lines
<1>4. UsedWhenApplied /\ Unborn
  BY <1>3 DEF SourcingInit, UsedWhenApplied, Unborn
<1>5. SerialInv
  BY <1>1, <1>2, <1>4 DEF SerialInv, OneRequest
<1>6. TilingInv
  BY <1>1, <1>3 DEF TilingInv, AllEnded, Idle
<1> QED BY <1>5, <1>6

\* The tables a frame speaks of.
Stands == UNCHANGED <<status, source, line, items>>

LEMMA StandsKeeps ==
  ASSUME Stands, NEW f, StillTrue(f) PROVE StillTrue(f)'
BY DEF Stands, StillTrue, Seen, CurrentSources, Sources, Superseded, Lines, Decidable

\* A read.
LEMMA SerialStarts ==
  ASSUME SourcingInv, SerialInv, NEW r \in Requests, NEW frame, Starts(r, frame),
         StillTrue(frame)
  PROVE  SerialInv'
<1> SUFFICES ASSUME "race" \notin mishaps'
             PROVE  /\ OneRequest' /\ \A q \in Requests : StillTrue(request[q])'
                    /\ UsedWhenApplied' /\ Unborn'
  BY DEF SerialInv
<1>1. "race" \notin mishaps /\ \A q \in Requests : request[q] = Idle
  BY DEF Starts, Mark
<1>2. /\ request'[r] = frame
      /\ \A q \in Requests \ {r} : request'[q] = Idle
  BY <1>1 DEF Starts, SourcingInv, SourcingTypeOK
<1>3. Stands /\ UNCHANGED uses
  BY DEF Starts, facts, Stands
<1>4. OneRequest'
  BY <1>2 DEF OneRequest
<1>5. StillTrue(frame)'
  BY <1>3, StandsKeeps
<1>6. StillTrue(Idle)'
  BY DEF StillTrue, Idle
<1>7. \A q \in Requests : StillTrue(request[q])'
  <2> SUFFICES ASSUME NEW q \in Requests PROVE StillTrue(request[q])'
    OBVIOUS
  <2>1. CASE q = r
    BY <2>1, <1>2, <1>5 DEF StillTrue, Seen, Decidable
  <2>2. CASE q # r
    BY <2>2, <1>2, <1>6 DEF StillTrue, Seen, Decidable
  <2> QED BY <2>1, <2>2
<1>8. UsedWhenApplied' /\ Unborn'
  BY <1>1, <1>3 DEF SerialInv, Stands, UsedWhenApplied, Unborn, Lines, Sources
<1> QED BY <1>4, <1>7, <1>8

\* A write.
LEMMA SerialDone ==
  ASSUME SourcingInv, SerialInv, NEW r \in Requests, Done(r), request[r] # Idle,
         "race" \notin mishaps => UsedWhenApplied' /\ Unborn',
         "race" \notin mishaps' => "race" \notin mishaps
  PROVE  SerialInv'
<1> SUFFICES ASSUME "race" \notin mishaps
             PROVE  OneRequest' /\ \A q \in Requests : StillTrue(request[q])'
  BY DEF SerialInv
<1>1. \A q \in Requests : request'[q] = Idle
  BY DEF Done, SerialInv, OneRequest, SourcingInv, SourcingTypeOK
<1>2. StillTrue(Idle)'
  BY DEF StillTrue, Idle
<1>3. \A q \in Requests : StillTrue(request[q])'
  BY <1>1, <1>2 DEF StillTrue, Seen, Decidable
<1> QED BY <1>1, <1>3 DEF OneRequest

\* The reads.
LEMMA SerialReads ==
  ASSUME SourcingInv, SerialInv, NEW r \in Requests,
         \/ ReadAdd(r) \/ ReadEdit(r) \/ ReadRemove(r) \/ ReadIngest(r) \/ ReadReject(r)
         \/ ReadApprove(r) \/ ReadConfirm(r) \/ ReadDismiss(r) \/ ReadStatus(r)
  PROVE  \E frame : Starts(r, frame) /\ StillTrue(frame)
<1>1. CASE ReadAdd(r)
  <2>1. PICK cost \in Costs : Starts(r, [pc |-> "add", cost |-> cost, again |-> Sources # {}])
    BY <1>1 DEF ReadAdd
  <2>2. StillTrue([pc |-> "add", cost |-> cost, again |-> Sources # {}])
    BY <1>1 DEF StillTrue, ReadAdd
  <2> QED BY <2>1, <2>2
<1>2. CASE ReadEdit(r)
  <2>1. PICK i \in Sources, cost \in Costs, eff \in {Undated} \cup Days :
          /\ LoadSource([row |-> i, was |-> source[i]])
          /\ Starts(r, [pc |-> "edit", saw |-> [row |-> i, was |-> source[i]], cost |-> cost, eff |-> eff])
    BY <1>2 DEF ReadEdit
  <2>2. i \in CurrentSources
    BY <2>1 DEF LoadSource
  <2>3. StillTrue([pc |-> "edit", saw |-> [row |-> i, was |-> source[i]], cost |-> cost, eff |-> eff])
    BY <2>2 DEF StillTrue
  <2> QED BY <2>1, <2>3
<1>3. CASE ReadRemove(r)
  <2>1. PICK i \in Sources :
          /\ LoadSource([row |-> i, was |-> source[i]])
          /\ Starts(r, [pc |-> "remove", saw |-> [row |-> i, was |-> source[i]]])
    BY <1>3 DEF ReadRemove
  <2>2. i \in CurrentSources
    BY <2>1 DEF LoadSource
  <2>3. StillTrue([pc |-> "remove", saw |-> [row |-> i, was |-> source[i]]])
    BY <2>2 DEF StillTrue
  <2> QED BY <2>1, <2>3
<1>4. CASE ReadIngest(r)
  <2>1. PICK named \in BOOLEAN, cost \in Costs, date \in QuoteDates :
          Starts(r, [pc |-> "ingest", create |-> status = "none", gone |-> Superseded(named),
                     line |-> [named |-> named, cost |-> cost, date |-> date, status |-> "received"]])
    BY <1>4 DEF ReadIngest
  <2>2. StillTrue([pc |-> "ingest", create |-> status = "none", gone |-> Superseded(named),
                   line |-> [named |-> named, cost |-> cost, date |-> date, status |-> "received"]])
    BY DEF StillTrue
  <2> QED BY <2>1, <2>2
<1>5. CASE ReadReject(r)
  <2>1. PICK n \in LineIds : Decidable(n) /\ Starts(r, [pc |-> "reject", line |-> n])
    BY <1>5 DEF ReadReject
  <2>2. StillTrue([pc |-> "reject", line |-> n])
    BY <2>1 DEF StillTrue
  <2> QED BY <2>1, <2>2
<1>6. CASE ReadApprove(r)
  <2>1. PICK n \in LineIds, i \in SourceIds \cup {None} :
          /\ Decidable(n) /\ Seen([row |-> i, was |-> IF i = None THEN None ELSE source[i]])
          /\ Starts(r, [pc |-> "approve", line |-> n, draft |-> status = "draft",
                        saw |-> [row |-> i, was |-> IF i = None THEN None ELSE source[i]], day |-> today])
    BY <1>6 DEF ReadApprove
  <2>2. StillTrue([pc |-> "approve", line |-> n, draft |-> status = "draft",
                   saw |-> [row |-> i, was |-> IF i = None THEN None ELSE source[i]], day |-> today])
    BY <2>1 DEF StillTrue
  <2> QED BY <2>1, <2>2
<1>7. CASE ReadConfirm(r)
  <2>1. PICK cost \in Costs, date \in {Undated, today}, vendor \in BOOLEAN :
          \E n \in WinningQuote({k \in Confirmable : MatchesOrder(k, cost, date)}),
             i \in SourceIds \cup {None} :
            /\ Seen([row |-> i, was |-> IF i = None THEN None ELSE source[i]])
            /\ Starts(r, [pc |-> "confirm", line |-> n, onto |-> line[n].named \/ vendor,
                          saw |-> [row |-> i, was |-> IF i = None THEN None ELSE source[i]], day |-> today])
    BY <1>7 DEF ReadConfirm
  <2>2. PICK n \in Confirmable, i \in SourceIds \cup {None} :
          /\ Seen([row |-> i, was |-> IF i = None THEN None ELSE source[i]])
          /\ Starts(r, [pc |-> "confirm", line |-> n, onto |-> line[n].named \/ vendor,
                        saw |-> [row |-> i, was |-> IF i = None THEN None ELSE source[i]], day |-> today])
    BY <2>1 DEF WinningQuote
  <2>3. StillTrue([pc |-> "confirm", line |-> n, onto |-> line[n].named \/ vendor,
                   saw |-> [row |-> i, was |-> IF i = None THEN None ELSE source[i]], day |-> today])
    BY <2>2 DEF StillTrue, Confirmable
  <2> QED BY <2>2, <2>3
<1>8. CASE ReadDismiss(r)
  <2>1. PICK t \in DOMAIN items :
          items[t] = "pending" /\ Starts(r, [pc |-> "dismiss", item |-> t])
    BY <1>8 DEF ReadDismiss
  <2>2. StillTrue([pc |-> "dismiss", item |-> t])
    BY <2>1 DEF StillTrue, ItemDecided
  <2> QED BY <2>1, <2>2
<1>9. CASE ReadStatus(r)
  <2>1. PICK to \in {"active", "archived"} : Starts(r, [pc |-> "status", to |-> to])
    BY <1>9 DEF ReadStatus
  <2>2. StillTrue([pc |-> "status", to |-> to])
    BY DEF StillTrue
  <2> QED BY <2>1, <2>2
<1> QED BY <1>1, <1>2, <1>3, <1>4, <1>5, <1>6, <1>7, <1>8, <1>9

\* A row changes its status, the others stay.
LEMMA StatusOnly ==
  ASSUME SourcingTypeOK, NEW n \in LineIds, line[n] # None, NEW s \in LineStatus,
         line' = [line EXCEPT ![n].status = s]
  PROVE  /\ line'[n] = [line[n] EXCEPT !.status = s]
         /\ line'[n].status = s /\ line'[n] # None
         /\ \A k \in LineIds \ {n} : line'[k] = line[k]
<1>1. line \in LineTable /\ line[n] \in Line
  BY DEF SourcingTypeOK, LineTable
<1>2. line' = [line EXCEPT ![n] = [line[n] EXCEPT !.status = s]]
  OBVIOUS
<1>3. /\ line'[n] = [line[n] EXCEPT !.status = s]
      /\ \A k \in LineIds \ {n} : line'[k] = line[k]
  BY <1>1, <1>2 DEF LineTable
<1>4. [line[n] EXCEPT !.status = s] \in Line /\ [line[n] EXCEPT !.status = s].status = s
  BY <1>1 DEF Line
<1> QED BY <1>3, <1>4, NoneAssumption

\* What a quote that comes in does to the lines.
LEMMA IngestOnly ==
  ASSUME SourcingInv, SerialInv, "race" \notin mishaps, NEW r \in Requests, Ingest(r)
  PROVE  \E n \in LineIds :
           /\ line[n] = None /\ line'[n] # None /\ line'[n].status = "received"
           /\ \A k \in LineIds \ {n} :
                \/ line'[k] = line[k]
                \/ /\ k \in Lines("received") /\ line'[k] # None
                   /\ line'[k].status = "superseded"
<1> DEFINE f == request[r]
<1>1. /\ f.pc = "ingest" /\ StillTrue(f) /\ f.line \in Line
      /\ line \in LineTable
  BY SerialSays, FrameShape DEF SourcingInv, SourcingTypeOK, LineTable, Ingest
<1>2. f.line.status = "received" /\ f.gone = Superseded(f.line.named) /\ f.line # None
  BY <1>1, NoneAssumption DEF StillTrue
<1>3. PICK n \in Fresh(LineIds, line) :
        line' = [k \in LineIds |->
          IF k = n THEN f.line
          ELSE IF k \in f.gone THEN [line[k] EXCEPT !.status = "superseded"] ELSE line[k]]
  BY DEF Ingest
<1>4. n \in LineIds /\ line[n] = None /\ line'[n] = f.line
  BY <1>3 DEF Fresh
<1>5. ASSUME NEW k \in LineIds \ {n}
      PROVE  \/ line'[k] = line[k]
             \/ /\ k \in Lines("received") /\ line'[k] # None
                /\ line'[k].status = "superseded"
  <2>1. CASE k \in f.gone
    <3>1. k \in Lines("received") /\ line[k] \in Line
      BY <1>1, <1>2, <2>1 DEF Superseded, Lines, LineTable
    <3>2. line'[k] = [line[k] EXCEPT !.status = "superseded"]
      BY <1>3, <2>1
    <3>3. [line[k] EXCEPT !.status = "superseded"] \in Line
          /\ [line[k] EXCEPT !.status = "superseded"].status = "superseded"
      BY <3>1 DEF Line, LineStatus
    <3> QED BY <3>1, <3>2, <3>3, NoneAssumption
  <2>2. CASE k \notin f.gone
    BY <1>3, <2>2
  <2> QED BY <2>1, <2>2
<1> QED BY <1>2, <1>4, <1>5

\* A decision of a line.
LEMMA DecideOnly ==
  ASSUME SourcingInv, SerialInv, "race" \notin mishaps, NEW r \in Requests,
         Reject(r) \/ Approve(r) \/ Confirm(r)
  PROVE  LET n == request[r].line IN
         /\ n \in LineIds /\ line[n] # None
         /\ n \in IF Confirm(r) THEN Lines("approved") ELSE Lines("received")
         /\ line'[n] # None /\ line'[n].status \in LineDecided
         /\ Confirm(r) => line'[n] = [line[n] EXCEPT !.status = "applied"]
         /\ \A k \in LineIds \ {n} : line'[k] = line[k]
         /\ uses' = IF line'[n].status = "applied" THEN [uses EXCEPT ![n] = @ + 1] ELSE uses
<1> DEFINE n == request[r].line
<1>1. /\ n \in LineIds /\ line[n] # None /\ StillTrue(request[r])
      /\ SourcingTypeOK
  BY SerialSays, FrameShape DEF SourcingInv, LinesHeld, Reject, Approve, Confirm
<1>2. CASE Reject(r)
  <2>1. n \in Lines("received") /\ ~Confirm(r)
    BY <1>1, <1>2 DEF Reject, Confirm, StillTrue, Decidable
  <2>2. line' = [line EXCEPT ![n].status = "rejected"] /\ UNCHANGED uses
    BY <1>2 DEF Reject
  <2> HIDE DEF n
  <2>3. /\ line'[n].status = "rejected" /\ line'[n] # None
        /\ \A k \in LineIds \ {n} : line'[k] = line[k]
    BY <1>1, <2>2, StatusOnly DEF LineStatus
  <2> QED BY <1>1, <2>1, <2>2, <2>3 DEF LineDecided, n
<1>3. CASE Approve(r)
  <2>1. n \in Lines("received") /\ ~Confirm(r)
    BY <1>1, <1>3 DEF Approve, Confirm, StillTrue, Decidable
  <2>2. PICK s \in {"applied", "approved"} :
          /\ line' = [line EXCEPT ![n].status = s]
          /\ uses' = IF s = "applied" THEN [uses EXCEPT ![n] = @ + 1] ELSE uses
    BY <1>3 DEF Approve
  <2> HIDE DEF n
  <2>3. /\ line'[n].status = s /\ line'[n] # None
        /\ \A k \in LineIds \ {n} : line'[k] = line[k]
    BY <1>1, <2>2, StatusOnly DEF LineStatus
  <2> QED BY <1>1, <2>1, <2>2, <2>3 DEF LineDecided, n
<1>4. CASE Confirm(r)
  <2>1. n \in Lines("approved")
    BY <1>1, <1>4 DEF Confirm, StillTrue
  <2>2. /\ line' = [line EXCEPT ![n].status = "applied"]
        /\ uses' = [uses EXCEPT ![n] = @ + 1]
    BY <1>4 DEF Confirm
  <2> HIDE DEF n
  <2>3. /\ line'[n] = [line[n] EXCEPT !.status = "applied"]
        /\ line'[n].status = "applied" /\ line'[n] # None
        /\ \A k \in LineIds \ {n} : line'[k] = line[k]
    BY <1>1, <2>2, StatusOnly DEF LineStatus
  <2> QED BY <1>1, <1>4, <2>1, <2>2, <2>3 DEF LineDecided, n
<1> QED BY <1>2, <1>3, <1>4

LEMMA SerialWrites ==
  ASSUME SourcingInv, SerialInv, NEW r \in Requests,
         \/ Add(r) \/ Edit(r) \/ Remove(r) \/ Ingest(r) \/ Reject(r) \/ Approve(r)
         \/ Confirm(r) \/ Dismiss(r) \/ SetStatus(r) \/ Abort(r)
  PROVE  SerialInv'
<1> DEFINE f == request[r]
<1>1. Done(r) /\ f # Idle
  BY DEF Add, Edit, Remove, Ingest, Reject, Approve, Confirm, Dismiss, SetStatus, Abort, Idle
<1>2. "race" \notin mishaps' => "race" \notin mishaps
  BY DEF Add, Edit, Remove, Ingest, Reject, Approve, Confirm, Dismiss, SetStatus, Abort
<1>3. ASSUME "race" \notin mishaps PROVE UsedWhenApplied' /\ Unborn'
  <2>0. /\ SourcingTypeOK /\ StillTrue(f) /\ UsedWhenApplied /\ Unborn
        /\ uses \in [LineIds -> Nat]
    BY <1>3, SerialSays DEF SourcingInv, SourcingTypeOK
  <2>1. CASE Add(r) \/ Edit(r) \/ Remove(r)
    <3>1. status # "none" /\ UNCHANGED <<status, line, uses>>
      BY <2>0, <2>1 DEF Add, Edit, Remove, StillTrue, Unborn, CurrentSources
    <3> QED BY <2>0, <3>1 DEF UsedWhenApplied, Unborn, Lines
  <2>2. CASE Ingest(r)
    <3>1. UNCHANGED uses /\ status' # "none"
      BY <2>0, <2>2 DEF Ingest, StillTrue
    <3>2. PICK n \in LineIds :
            /\ line[n] = None /\ line'[n] # None /\ line'[n].status = "received"
            /\ \A k \in LineIds \ {n} :
                 \/ line'[k] = line[k]
                 \/ /\ k \in Lines("received") /\ line'[k] # None
                    /\ line'[k].status = "superseded"
      BY <1>3, <2>2, IngestOnly
    <3>3. Lines("applied")' = Lines("applied")
      BY <3>2 DEF Lines
    <3> QED BY <2>0, <3>1, <3>3 DEF UsedWhenApplied, Unborn
  <2>3. CASE Reject(r) \/ Approve(r) \/ Confirm(r)
    <3> DEFINE n == f.line
    <3>1. /\ n \in LineIds /\ line[n] # None
          /\ n \in IF Confirm(r) THEN Lines("approved") ELSE Lines("received")
          /\ line'[n] # None
          /\ \A k \in LineIds \ {n} : line'[k] = line[k]
          /\ uses' = IF line'[n].status = "applied" THEN [uses EXCEPT ![n] = @ + 1] ELSE uses
      BY <1>3, <2>3, DecideOnly
    <3>2. status # "none" /\ status' # "none"
      BY <2>0, <2>3, <3>1 DEF Unborn, Reject, Approve, Confirm
    <3>3. n \notin Lines("applied")
      BY <3>1 DEF Lines
    <3> HIDE DEF n
    <3>4. UsedWhenApplied'
      <4> SUFFICES ASSUME NEW k \in LineIds
                   PROVE  uses'[k] = IF k \in Lines("applied")' THEN 1 ELSE 0
        BY DEF UsedWhenApplied
      <4>1. CASE k = n
        BY <2>0, <3>1, <3>3, <4>1 DEF UsedWhenApplied, Lines
      <4>2. CASE k # n
        BY <2>0, <3>1, <4>2 DEF UsedWhenApplied, Lines
      <4> QED BY <4>1, <4>2
    <3> QED BY <3>2, <3>4 DEF Unborn
  <2>4. CASE Dismiss(r) \/ SetStatus(r) \/ Abort(r)
    <3>1. /\ UNCHANGED <<source, line, uses>>
          /\ status' = status \/ status' \in {"active", "archived"}
      BY <2>0, <2>4, FrameShape DEF Dismiss, SetStatus, Abort
    <3> QED BY <2>0, <3>1 DEF UsedWhenApplied, Unborn, Lines, Sources
  <2> QED BY <2>1, <2>2, <2>3, <2>4
<1> QED BY <1>1, <1>2, <1>3, SerialDone

\* The date moves on, a sweep opens an item: what was read stands, except that
\* an item somebody is dismissing may be superseded.
LEMMA SerialQuiet ==
  ASSUME SourcingInv, SerialInv,
         UNCHANGED <<status, source, line, request, uses, mishaps, requests>>,
         \A t \in DOMAIN items :
           t \in DOMAIN items' /\ (items[t] \notin ItemDecided => items'[t] \notin ItemDecided)
  PROVE  SerialInv'
<1>1. ASSUME NEW f, StillTrue(f) PROVE StillTrue(f)'
  BY <1>1 DEF StillTrue, Seen, CurrentSources, Sources, Superseded, Lines, Decidable
<1>2. \A r \in Requests : StillTrue(request[r]) => StillTrue(request[r])'
  BY <1>1
<1>3. OneRequest' = OneRequest /\ UsedWhenApplied' = UsedWhenApplied /\ Unborn' = Unborn
  BY DEF OneRequest, UsedWhenApplied, Unborn, Lines, Sources
<1> QED BY <1>2, <1>3 DEF SerialInv

\* What a sweep does to the items.
LEMMA OpenedItems ==
  ASSUME SourcingTypeOK, OpenReconsider
  PROVE  \A t \in DOMAIN items :
           /\ t \in DOMAIN items'
           /\ items'[t] = IF items[t] = "pending" THEN "superseded" ELSE items[t]
<1> DEFINE old == [t \in 1..Len(items) |-> IF items[t] = "pending" THEN "superseded" ELSE items[t]]
<1>1. items \in Seq(ItemStatus) /\ Len(items) \in Nat /\ DOMAIN items = 1..Len(items)
  BY DEF SourcingTypeOK
<1>2. old \in Seq(ItemStatus)
  BY <1>1 DEF ItemStatus
<1>3. items' = Append(old, "pending")
  BY <1>1 DEF OpenReconsider
<1>4. Len(old) = Len(items)
  BY <1>1
<1>5. \A t \in 1..Len(items) :
        old[t] = IF items[t] = "pending" THEN "superseded" ELSE items[t]
  OBVIOUS
<1> HIDE DEF old
<1>6. DOMAIN items' = 1..Len(items) + 1 /\ \A t \in 1..Len(items) : items'[t] = old[t]
  BY <1>1, <1>2, <1>3, <1>4
<1> QED BY <1>1, <1>5, <1>6

LEMMA SerialStep == SourcingInv /\ SerialInv /\ [SourcingNext]_sourcingVars => SerialInv'
<1> SUFFICES ASSUME SourcingInv, SerialInv, [SourcingNext]_sourcingVars PROVE SerialInv'
  OBVIOUS
<1>1. CASE NextDay
  BY <1>1, SerialQuiet DEF NextDay
<1>2. CASE OpenReconsider
  <2>1. \A t \in DOMAIN items :
          t \in DOMAIN items' /\ (items[t] \notin ItemDecided => items'[t] \notin ItemDecided)
    BY <1>2, OpenedItems DEF SourcingInv, ItemDecided
  <2> QED BY <1>2, <2>1, SerialQuiet DEF OpenReconsider
<1>3. CASE \E r \in Requests :
        \/ ReadAdd(r) \/ ReadEdit(r) \/ ReadRemove(r) \/ ReadIngest(r) \/ ReadReject(r)
        \/ ReadApprove(r) \/ ReadConfirm(r) \/ ReadDismiss(r) \/ ReadStatus(r)
  BY <1>3, SerialReads, SerialStarts
<1>4. CASE \E r \in Requests :
        \/ Add(r) \/ Edit(r) \/ Remove(r) \/ Ingest(r) \/ Reject(r) \/ Approve(r)
        \/ Confirm(r) \/ Dismiss(r) \/ SetStatus(r) \/ Abort(r)
  BY <1>4, SerialWrites
<1>5. CASE UNCHANGED sourcingVars
  BY <1>5, SerialQuiet DEF sourcingVars, facts
<1> QED BY <1>1, <1>2, <1>3, <1>4, <1>5 DEF SourcingNext

-----------------------------------------------------------------------------
(* The windows tile.                                                       *)

AllApart == \A i, j \in Sources : i # j => Apart(i, j) \/ Apart(j, i)

Tiled == AllApart /\ (CurrentSources = {} => AllEnded(today))

\* What is known of the windows before a write.
LEMMA TableShape ==
  ASSUME SourcingTypeOK
  PROVE  /\ today \in Nat
         /\ \A i \in Sources : /\ i \in SourceIds
                               /\ source[i].from \in Nat
                               /\ source[i].to \in Nat \cup {Open}
<1>1. \A i \in Sources : i \in SourceIds /\ source[i] \in Window
  BY DEF Sources, SourcingTypeOK
<1> QED BY <1>1, WindowShape, DaysAreNumbers DEF SourcingTypeOK

\* A window that is not the current one has ended before it begins.
LEMMA BeforeCurrent ==
  ASSUME AllApart, NEW row \in CurrentSources
  PROVE  \A i \in Sources \ {row} : source[i].to # Open /\ source[i].to < source[row].from
BY DEF AllApart, Apart, CurrentSources

LEMMA AddedTiles ==
  ASSUME SourcingTypeOK, Tiled, NEW day \in Nat, AddedFrom(day), AllEnded(day)
  PROVE  Tiled'
<1>1. PICK k \in SourceIds :
        /\ source[k] = None
        /\ source'[k] # None /\ source'[k].from = day /\ source'[k].to = Open
        /\ \A i \in SourceIds \ {k} : source'[i] = source[i]
  BY DEF AddedFrom
<1>2. Sources' = Sources \cup {k} /\ k \notin Sources /\ k \in CurrentSources'
  BY <1>1 DEF Sources, CurrentSources
<1>3. \A i \in Sources : source'[i] = source[i] /\ source'[i].to # Open /\ source'[i].to < source'[k].from
  BY <1>1, <1>2 DEF AllEnded, Sources
<1>4. AllApart'
  <2> SUFFICES ASSUME NEW i \in Sources', NEW j \in Sources', i # j
               PROVE  Apart(i, j)' \/ Apart(j, i)'
    BY DEF AllApart
  <2>1. CASE i \in Sources /\ j \in Sources
    BY <1>3, <2>1 DEF Tiled, AllApart, Apart
  <2>2. CASE i = k \/ j = k
    BY <1>2, <1>3, <2>2 DEF Apart
  <2> QED BY <1>2, <2>1, <2>2
<1> QED BY <1>2, <1>4 DEF Tiled

LEMMA CorrectedTiles ==
  ASSUME SourcingTypeOK, Tiled, Corrected
  PROVE  Tiled'
<1>1. PICK row \in CurrentSources :
        /\ source'[row] # None /\ source'[row].from = source[row].from /\ source'[row].to = Open
        /\ \A i \in SourceIds \ {row} : source'[i] = source[i]
  BY DEF Corrected
<1>2. Sources' = Sources /\ row \in CurrentSources' /\ source[row].to = Open
  BY <1>1 DEF Sources, CurrentSources
<1>3. \A i \in Sources : source'[i].from = source[i].from /\ source'[i].to = source[i].to
  BY <1>1, <1>2 DEF Sources
<1> QED BY <1>2, <1>3 DEF Tiled, AllApart, Apart

LEMMA TiledTiles ==
  ASSUME SourcingTypeOK, Tiled, NEW day \in Nat, TiledFrom(day)
  PROVE  Tiled'
<1>1. PICK row \in CurrentSources, k \in SourceIds :
        /\ source[row].from < day
        /\ source[k] = None
        /\ source'[k] # None /\ source'[k].from = day /\ source'[k].to = Open
        /\ source'[row] # None /\ source'[row].from = source[row].from /\ source'[row].to = day - 1
        /\ \A i \in SourceIds \ {row, k} : source'[i] = source[i]
  BY DEF TiledFrom
<1>2. /\ row \in Sources /\ row \in SourceIds /\ k \notin Sources /\ k # row
      /\ Sources' = Sources \cup {k} /\ k \in CurrentSources'
  BY <1>1 DEF Sources, CurrentSources
<1>3. \A i \in Sources \ {row} :
        /\ source'[i] = source[i] /\ source[i].to # Open /\ source[i].to < source[row].from
        /\ source[i].to \in Nat
  BY <1>1, <1>2, BeforeCurrent, TableShape DEF Tiled, Sources
<1>4. /\ source[row].from \in Nat
      /\ source'[row].to # Open /\ source'[row].to < day
  BY <1>1, <1>2, TableShape, OpenAssumption
<1>5. \A i \in Sources : Apart(i, k)'
  <2> SUFFICES ASSUME NEW i \in Sources PROVE source'[i].to # Open /\ source'[i].to < source'[k].from
    BY DEF Apart
  <2>1. CASE i = row
    BY <1>1, <1>4, <2>1
  <2>2. CASE i # row
    <3>1. source'[i].to = source[i].to /\ source[i].to \in Nat /\ source[i].to < source[row].from
      BY <1>3, <2>2
    <3> QED BY <1>1, <1>3, <1>4, <2>2, <3>1
  <2> QED BY <2>1, <2>2
<1>6. AllApart'
  <2> SUFFICES ASSUME NEW i \in Sources', NEW j \in Sources', i # j
               PROVE  Apart(i, j)' \/ Apart(j, i)'
    BY DEF AllApart
  <2>1. CASE i = k \/ j = k
    BY <1>2, <1>5, <2>1
  <2>2. CASE (i = row /\ j # k) \/ (j = row /\ i # k)
    BY <1>1, <1>2, <1>3, <2>2 DEF Apart
  <2>3. CASE i \notin {k, row} /\ j \notin {k, row}
    BY <1>2, <1>3, <2>3 DEF Tiled, AllApart, Apart
  <2> QED BY <2>1, <2>2, <2>3
<1> QED BY <1>2, <1>6 DEF Tiled

LEMMA ClosedTiles ==
  ASSUME SourcingTypeOK, Tiled, ClosedOn(today), UNCHANGED today, "clamped" \notin mishaps'
  PROVE  Tiled'
<1>1. PICK row \in CurrentSources :
        /\ source'[row] # None /\ source'[row].from = source[row].from
        /\ source'[row].to = CloseDate(source[row].from, today)
        /\ ~(today <= source[row].from)
        /\ \A i \in SourceIds \ {row} : source'[i] = source[i]
  BY DEF ClosedOn
<1>2. row \in Sources /\ row \in SourceIds /\ Sources' = Sources
  BY <1>1 DEF Sources, CurrentSources
<1>3. source[row].from \in Nat /\ today \in Nat /\ source[row].from < today
  BY <1>1, <1>2, TableShape
<1>4. source'[row].to = today - 1 /\ source'[row].to # Open
  BY <1>1, <1>3, OpenAssumption DEF CloseDate
<1>5. \A i \in Sources \ {row} :
        /\ source'[i] = source[i] /\ source[i].to # Open /\ source[i].to < source[row].from
        /\ source[i].to \in Nat
  BY <1>1, <1>2, BeforeCurrent, TableShape DEF Tiled, Sources
<1>6. AllApart'
  <2> SUFFICES ASSUME NEW i \in Sources, NEW j \in Sources, i # j
               PROVE  Apart(i, j)' \/ Apart(j, i)'
    BY <1>2 DEF AllApart
  <2>1. CASE i = row \/ j = row
    BY <1>1, <1>5, <2>1 DEF Apart
  <2>2. CASE i # row /\ j # row
    BY <1>5, <2>2 DEF Tiled, AllApart, Apart
  <2> QED BY <2>1, <2>2
<1>7. AllEnded(today)'
  <2> SUFFICES ASSUME NEW i \in Sources PROVE source'[i].to # Open /\ source'[i].to < today
    BY <1>2 DEF AllEnded
  <2>1. CASE i = row
    BY <1>3, <1>4, <2>1
  <2>2. CASE i # row
    <3>1. source'[i].to = source[i].to /\ source[i].to \in Nat
          /\ source[i].to < source[row].from /\ source[i].to # Open
      BY <1>5, <2>2
    <3> QED BY <1>3, <3>1
  <2> QED BY <2>1, <2>2
<1> QED BY <1>6, <1>7 DEF Tiled

\* Where a new window begins every other has ended.
LEMMA BeginsAfter ==
  ASSUME SourcingTypeOK, TilingInv, mishaps = {}, CurrentSources = {}, NEW day \in Nat, Begins(day)
  PROVE  AllEnded(day)
BY DEF Begins, TilingInv, AllEnded

LEMMA TilingWrites ==
  ASSUME SourcingInv, SerialInv, TilingInv, NEW r \in Requests,
         \/ Add(r) \/ Edit(r) \/ Remove(r) \/ Ingest(r) \/ Reject(r) \/ Approve(r)
         \/ Confirm(r) \/ Dismiss(r) \/ SetStatus(r) \/ Abort(r)
  PROVE  TilingInv'
<1> SUFFICES ASSUME mishaps' = {}
             PROVE  /\ Tiled'
                    /\ \A q \in Requests : request'[q] = Idle
  BY DEF TilingInv, Tiled, AllApart, Idle
<1>1. mishaps = {}
  BY DEF Add, Edit, Remove, Ingest, Reject, Approve, Confirm, Dismiss, SetStatus, Abort
<1>2. Tiled /\ SourcingTypeOK
  BY <1>1 DEF TilingInv, Tiled, AllApart, SourcingInv
<1>3. Done(r) /\ request[r] # Idle /\ UNCHANGED today
  BY DEF Add, Edit, Remove, Ingest, Reject, Approve, Confirm, Dismiss, SetStatus, Abort, Done, Idle
<1>4. \A q \in Requests : request'[q] = Idle
  BY <1>1, <1>3 DEF Done, SerialInv, OneRequest, SourcingInv, SourcingTypeOK
<1>5. WritesSources
  BY <1>1, WriteShapes
<1> SUFFICES Tiled'
  BY <1>4
<1>6. CASE UNCHANGED source
  BY <1>2, <1>3, <1>6 DEF Tiled, AllApart, AllEnded, Apart, Sources, CurrentSources
<1>7. CASE \E day \in Nat : AddedFrom(day) /\ Begins(day)
  <2>1. PICK day \in Nat : AddedFrom(day) /\ Begins(day)
    BY <1>7
  <2>2. CurrentSources = {}
    BY <2>1 DEF AddedFrom
  <2>3. AllEnded(day)
    BY <1>1, <1>2, <2>1, <2>2, BeginsAfter
  <2> QED BY <1>2, <2>1, <2>3, AddedTiles
<1>8. CASE Corrected
  BY <1>2, <1>8, CorrectedTiles
<1>9. CASE \E day \in Nat : TiledFrom(day)
  BY <1>2, <1>9, TiledTiles
<1>10. CASE ClosedOn(today)
  BY <1>2, <1>3, <1>10, ClosedTiles
<1> QED BY <1>5, <1>6, <1>7, <1>8, <1>9, <1>10 DEF WritesSources

LEMMA TilingReads ==
  ASSUME SourcingInv, SerialInv, TilingInv, NEW r \in Requests,
         \/ ReadAdd(r) \/ ReadEdit(r) \/ ReadRemove(r) \/ ReadIngest(r) \/ ReadReject(r)
         \/ ReadApprove(r) \/ ReadConfirm(r) \/ ReadDismiss(r) \/ ReadStatus(r)
  PROVE  TilingInv'
<1>1. PICK frame : /\ Starts(r, frame) /\ StillTrue(frame)
                   /\ frame.pc \in {"approve", "confirm"} => frame.day = today
  <2>1. CASE ReadApprove(r) \/ ReadConfirm(r)
    <3>1. \E pc, n, d, o, saw :
            \/ Starts(r, [pc |-> "approve", line |-> n, draft |-> d, saw |-> saw, day |-> today])
            \/ Starts(r, [pc |-> "confirm", line |-> n, onto |-> o, saw |-> saw, day |-> today])
      BY <2>1 DEF ReadApprove, ReadConfirm
    <3>2. PICK frame : Starts(r, frame) /\ frame.day = today
      BY <3>1
    <3>3. PICK other : Starts(r, other) /\ StillTrue(other)
      BY SerialReads
    <3>4. request'[r] = frame /\ request'[r] = other
      BY <3>2, <3>3 DEF Starts, SourcingInv, SourcingTypeOK
    <3> QED BY <3>2, <3>3, <3>4
  <2>2. CASE ~(ReadApprove(r) \/ ReadConfirm(r))
    <3>1. \E frame : Starts(r, frame) /\ frame.pc \notin {"approve", "confirm"}
      <4>1. CASE ReadAdd(r)
        BY <4>1 DEF ReadAdd
      <4>2. CASE ReadEdit(r)
        BY <4>2 DEF ReadEdit
      <4>3. CASE ReadRemove(r)
        BY <4>3 DEF ReadRemove
      <4>4. CASE ReadIngest(r)
        BY <4>4 DEF ReadIngest
      <4>5. CASE ReadReject(r)
        BY <4>5 DEF ReadReject
      <4>6. CASE ReadDismiss(r)
        BY <4>6 DEF ReadDismiss
      <4>7. CASE ReadStatus(r)
        BY <4>7 DEF ReadStatus
      <4> QED BY <2>2, <4>1, <4>2, <4>3, <4>4, <4>5, <4>6, <4>7
    <3>2. PICK frame : Starts(r, frame) /\ frame.pc \notin {"approve", "confirm"}
      BY <3>1
    <3>3. PICK other : Starts(r, other) /\ StillTrue(other)
      BY SerialReads
    <3>4. request'[r] = frame /\ request'[r] = other
      BY <3>2, <3>3 DEF Starts, SourcingInv, SourcingTypeOK
    <3> QED BY <3>2, <3>3, <3>4
  <2> QED BY <2>1, <2>2
<1> SUFFICES ASSUME mishaps' = {}
             PROVE  /\ Tiled'
                    /\ \A q \in Requests :
                         request'[q].pc \in {"approve", "confirm"} /\ request'[q].saw.row = None =>
                           AllEnded(request[q].day)'
  BY DEF TilingInv, Tiled, AllApart
<1>2. mishaps = {} /\ UNCHANGED <<today, source>>
  BY <1>1 DEF Starts, facts
<1>3. Tiled /\ Tiled'
  BY <1>2 DEF TilingInv, Tiled, AllApart, AllEnded, Apart, Sources, CurrentSources
<1>4. /\ request'[r] = frame
      /\ \A q \in Requests \ {r} : request'[q] = request[q]
  BY <1>1 DEF Starts, SourcingInv, SourcingTypeOK
<1>5. frame.pc \in {"approve", "confirm"} /\ frame.saw.row = None => AllEnded(today)
  BY <1>1, <1>3, SeenCurrent DEF StillTrue, Tiled
<1>6. \A q \in Requests \ {r} :
        request[q].pc \in {"approve", "confirm"} /\ request[q].saw.row = None =>
          AllEnded(request[q].day)
  BY <1>2 DEF TilingInv
<1> QED BY <1>1, <1>2, <1>3, <1>4, <1>5, <1>6 DEF AllEnded, Sources

LEMMA TilingStep ==
  SourcingInv /\ SerialInv /\ TilingInv /\ [SourcingNext]_sourcingVars => TilingInv'
<1> SUFFICES ASSUME SourcingInv, SerialInv, TilingInv, [SourcingNext]_sourcingVars
             PROVE  TilingInv'
  OBVIOUS
<1>1. ASSUME UNCHANGED <<source, request, mishaps>>,
             today' \in Nat, today <= today'
      PROVE  TilingInv'
  <2>1. SourcingTypeOK
    BY DEF SourcingInv
  <2>2. AllEnded(today) => AllEnded(today)'
    BY <1>1, <2>1, TableShape DEF AllEnded, Sources
  <2> QED BY <1>1, <2>2 DEF TilingInv, Apart, AllEnded, Sources, CurrentSources
<1>2. today \in Nat
  BY TableShape DEF SourcingInv
<1>3. CASE NextDay
  BY <1>1, <1>2, <1>3 DEF NextDay
<1>4. CASE OpenReconsider
  BY <1>1, <1>2, <1>4 DEF OpenReconsider
<1>5. CASE UNCHANGED sourcingVars
  BY <1>1, <1>2, <1>5 DEF sourcingVars, facts
<1>6. CASE \E r \in Requests :
        \/ ReadAdd(r) \/ ReadEdit(r) \/ ReadRemove(r) \/ ReadIngest(r) \/ ReadReject(r)
        \/ ReadApprove(r) \/ ReadConfirm(r) \/ ReadDismiss(r) \/ ReadStatus(r)
  BY <1>6, TilingReads
<1>7. CASE \E r \in Requests :
        \/ Add(r) \/ Edit(r) \/ Remove(r) \/ Ingest(r) \/ Reject(r) \/ Approve(r)
        \/ Confirm(r) \/ Dismiss(r) \/ SetStatus(r) \/ Abort(r)
  BY <1>7, TilingWrites
<1> QED BY <1>3, <1>4, <1>5, <1>6, <1>7 DEF SourcingNext

LEMMA SourcingAlways == SourcingSpec => [](SourcingInv /\ SerialInv /\ TilingInv)
<1>1. SourcingInit => SourcingInv /\ SerialInv /\ TilingInv
  BY SourcingInvInit, SerialInit
<1>2. SourcingInv /\ SerialInv /\ TilingInv /\ [SourcingNext]_sourcingVars
        => (SourcingInv /\ SerialInv /\ TilingInv)'
  BY SourcingInvStep, SerialStep, TilingStep
<1> QED BY <1>1, <1>2, PTL DEF SourcingSpec

\* As long as no two requests overlap and no source is removed on its first day
\* or before it begins, no two windows of a vendor contain a day.
THEOREM SourcesTileAlways == SourcingSpec => []SourcesTile
<1>1. SourcingInv /\ TilingInv => SourcesTile
  <2> SUFFICES ASSUME SourcingInv, TilingInv, mishaps = {},
                      NEW i \in Sources, NEW j \in Sources, i # j,
                      NEW day \in Days, CoversDay(source[i], day), CoversDay(source[j], day)
               PROVE  FALSE
    BY DEF SourcesTile, NeverOverlap, Overlap
  <2>1. Apart(i, j) \/ Apart(j, i)
    BY DEF TilingInv
  <2>2. /\ source[i].from \in Nat /\ source[i].to \in Nat \cup {Open}
        /\ source[j].from \in Nat /\ source[j].to \in Nat \cup {Open}
        /\ day \in Nat
    BY TableShape, DaysAreNumbers DEF SourcingInv
  <2> QED BY <2>1, <2>2, OpenAssumption DEF Apart, CoversDay
<1> QED BY <1>1, SourcingAlways, PTL

-----------------------------------------------------------------------------
(* What was decided stands.                                                *)

\* The values of a quote are made official once, as long as no two requests
\* overlap.
THEOREM AppliedOnceAlways == SourcingSpec => []AppliedOnce
<1>1. SerialInv => AppliedOnce
  BY DEF SerialInv, UsedWhenApplied, AppliedOnce
<1> QED BY <1>1, SourcingAlways, PTL

LEMMA ClosedKept ==
  ASSUME SourcingInv, WritesSources
  PROVE  \A i \in Sources \ CurrentSources : source'[i] = source[i]
<1>1. CASE UNCHANGED source
  BY <1>1
<1>2. CASE \E day \in Nat : AddedFrom(day)
  BY <1>2 DEF AddedFrom, Sources
<1>3. CASE Corrected
  BY <1>3 DEF Corrected, Sources
<1>4. CASE \E day \in Nat : TiledFrom(day)
  BY <1>4 DEF TiledFrom, Sources
<1>5. CASE ClosedOn(today)
  BY <1>5 DEF ClosedOn, Sources
<1> QED BY <1>1, <1>2, <1>3, <1>4, <1>5 DEF WritesSources

\* A window that has ended is history: as long as no two requests overlap no
\* edit, removal or quote moves its bounds or its cost.
THEOREM HistoryStandsAlways == SourcingSpec => HistoryStands
<1>1. SourcingInv /\ SerialInv /\ [SourcingNext]_sourcingVars =>
        [\A i \in Sources \ CurrentSources :
           "race" \in mishaps' \/ source'[i] = source[i]]_sourcingVars
  <2> SUFFICES ASSUME SourcingInv, SerialInv, SourcingNext, "race" \notin mishaps'
               PROVE  \A i \in Sources \ CurrentSources : source'[i] = source[i]
    OBVIOUS
  <2>1. CASE NextDay \/ OpenReconsider
    BY <2>1 DEF NextDay, OpenReconsider
  <2>2. CASE \E r \in Requests :
          \/ ReadAdd(r) \/ ReadEdit(r) \/ ReadRemove(r) \/ ReadIngest(r) \/ ReadReject(r)
          \/ ReadApprove(r) \/ ReadConfirm(r) \/ ReadDismiss(r) \/ ReadStatus(r)
    BY <2>2, SerialReads DEF Starts, facts
  <2>3. CASE \E r \in Requests :
          \/ Add(r) \/ Edit(r) \/ Remove(r) \/ Ingest(r) \/ Reject(r) \/ Approve(r)
          \/ Confirm(r) \/ Dismiss(r) \/ SetStatus(r) \/ Abort(r)
    <3>1. "race" \notin mishaps
      BY <2>3 DEF Add, Edit, Remove, Ingest, Reject, Approve, Confirm, Dismiss, SetStatus, Abort
    <3>2. WritesSources
      BY <2>3, <3>1, WriteShapes
    <3> QED BY <3>2, ClosedKept
  <2> QED BY <2>1, <2>2, <2>3 DEF SourcingNext
<1> QED BY <1>1, SourcingAlways, PTL DEF SourcingSpec, HistoryStands

\* A decided line and an answered item, under one write.
LEMMA DecisionsKept ==
  ASSUME SourcingInv, SerialInv, "race" \notin mishaps, NEW r \in Requests,
         \/ Add(r) \/ Edit(r) \/ Remove(r) \/ Ingest(r) \/ Reject(r) \/ Approve(r)
         \/ Confirm(r) \/ Dismiss(r) \/ SetStatus(r) \/ Abort(r)
  PROVE  /\ \A n \in LineIds : line[n] # None /\ line[n].status \in LineDecided =>
              \/ line'[n] = line[n]
              \/ line[n].status = "approved" /\ line'[n] = [line[n] EXCEPT !.status = "applied"]
         /\ \A t \in DOMAIN items : items[t] \in ItemDecided => items'[t] = items[t]
<1>1. CASE Add(r) \/ Edit(r) \/ Remove(r) \/ SetStatus(r) \/ Abort(r)
  BY <1>1 DEF Add, Edit, Remove, SetStatus, Abort
<1>2. CASE Ingest(r)
  <2>1. PICK n \in LineIds :
          /\ line[n] = None
          /\ \A k \in LineIds \ {n} : line'[k] = line[k] \/ k \in Lines("received")
    BY <1>2, IngestOnly
  <2>2. UNCHANGED items
    BY <1>2 DEF Ingest
  <2> QED BY <2>1, <2>2 DEF Lines, LineDecided
<1>3. CASE Reject(r) \/ Approve(r) \/ Confirm(r)
  <2> DEFINE n == request[r].line
  <2>1. /\ n \in IF Confirm(r) THEN Lines("approved") ELSE Lines("received")
        /\ Confirm(r) => line'[n] = [line[n] EXCEPT !.status = "applied"]
        /\ \A k \in LineIds \ {n} : line'[k] = line[k]
    BY <1>3, DecideOnly
  <2>2. \A t \in DOMAIN items : items[t] \in ItemDecided => items'[t] = items[t]
    BY <1>3 DEF Reject, Approve, Confirm, Answered, ItemDecided
  <2> QED BY <2>1, <2>2 DEF Lines, LineDecided
<1>4. CASE Dismiss(r)
  <2>1. /\ items[request[r].item] \notin ItemDecided /\ UNCHANGED line
        /\ items' = [items EXCEPT ![request[r].item] = "acknowledged"]
    BY <1>4, SerialSays DEF Dismiss, StillTrue
  <2> QED BY <2>1
<1> QED BY <1>1, <1>2, <1>3, <1>4

\* What a person has decided about a quote or answered to a sweep is never
\* undone by a machine, and only an order moves an approved line on, as long as
\* no two requests overlap.
THEOREM DecisionStandsAlways == SourcingSpec => DecisionStands
<1>1. SourcingInv /\ SerialInv /\ [SourcingNext]_sourcingVars =>
        [/\ \A n \in LineIds : (line[n] # None /\ line[n].status \in LineDecided) =>
              \/ "race" \in mishaps' \/ line'[n] = line[n]
              \/ line[n].status = "approved" /\ line'[n] = [line[n] EXCEPT !.status = "applied"]
         /\ \A t \in DOMAIN items : items[t] \in ItemDecided =>
              "race" \in mishaps' \/ items'[t] = items[t]]_sourcingVars
  <2> SUFFICES ASSUME SourcingInv, SerialInv, SourcingNext, "race" \notin mishaps'
               PROVE  /\ \A n \in LineIds : (line[n] # None /\ line[n].status \in LineDecided) =>
                           \/ line'[n] = line[n]
                           \/ line[n].status = "approved" /\ line'[n] = [line[n] EXCEPT !.status = "applied"]
                      /\ \A t \in DOMAIN items : items[t] \in ItemDecided => items'[t] = items[t]
    OBVIOUS
  <2>1. CASE NextDay
    BY <2>1 DEF NextDay
  <2>2. CASE OpenReconsider
    <3>1. UNCHANGED line
      BY <2>2 DEF OpenReconsider
    <3>2. \A t \in DOMAIN items : items[t] \in ItemDecided => items'[t] = items[t]
      BY <2>2, OpenedItems DEF SourcingInv, ItemDecided
    <3> QED BY <3>1, <3>2
  <2>3. CASE \E r \in Requests :
          \/ ReadAdd(r) \/ ReadEdit(r) \/ ReadRemove(r) \/ ReadIngest(r) \/ ReadReject(r)
          \/ ReadApprove(r) \/ ReadConfirm(r) \/ ReadDismiss(r) \/ ReadStatus(r)
    BY <2>3, SerialReads DEF Starts, facts
  <2>4. CASE \E r \in Requests :
          \/ Add(r) \/ Edit(r) \/ Remove(r) \/ Ingest(r) \/ Reject(r) \/ Approve(r)
          \/ Confirm(r) \/ Dismiss(r) \/ SetStatus(r) \/ Abort(r)
    <3>1. "race" \notin mishaps
      BY <2>4 DEF Add, Edit, Remove, Ingest, Reject, Approve, Confirm, Dismiss, SetStatus, Abort
    <3> QED BY <2>4, <3>1, DecisionsKept
  <2> QED BY <2>1, <2>2, <2>3, <2>4 DEF SourcingNext
<1> QED BY <1>1, SourcingAlways, PTL DEF SourcingSpec, DecisionStands
=============================================================================
