------------------------------ MODULE Sourcing ------------------------------
(***************************************************************************)
(* What one part of the catalog costs at one vendor, and who may say so:   *)
(* the dated windows of part_sources, edited by the sources routes         *)
(* (api/parts/[partId]/sources) and written by approved quotes             *)
(* (src/lib/quotes/service.ts), the life of the quote lines themselves,    *)
(* and the reconsider items a tariff change opens (quotes/reconsider.ts).  *)
(*                                                                         *)
(* Every request is one READ COMMITTED transaction whose reads come before *)
(* its writes and lock nothing.  So it is two steps here: a frame of what  *)
(* it has read, and its writes.  What it writes by id it writes whatever   *)
(* the row has become; an insert that a unique index refuses is Abort.     *)
(***************************************************************************)
EXTENDS EffectiveDating, Sequences

CONSTANTS
  Requests,     \* requests in progress
  Costs,        \* unit costs (and origin: a quote's facts change as one)
  QuoteDates,   \* dates of quote sheets, 0 for none
  SourceIds,    \* ids of part_sources rows
  LineIds,      \* ids of quote_lines rows, in order of creation
  None,         \* no row
  MaxRequests,  \* bound: requests of a behaviour
  MaxItems      \* bound: reconsider items of a behaviour

ASSUME IdsAssumption == SourceIds \subseteq Nat /\ LineIds \subseteq Nat
ASSUME QuoteDatesAssumption == QuoteDates \subseteq {Undated} \cup Days
ASSUME SourcingBoundsAssumption == MaxRequests \in Nat /\ MaxItems \in Nat

VARIABLES
  today,     \* the date
  status,    \* parts.status
  source,    \* part_sources of the part and the vendor, by id
  line,      \* quote_lines of the part, by id
  items,     \* quote_reconsider items of the part, oldest first
  request,   \* requests in progress: what they have read
  uses,      \* ghost: how often a line's values were made official
  mishaps,   \* ghost: which unusual things have happened
  requests   \* bound counter

facts == <<today, status, source, line, items>>
sourcingVars == <<facts, request, uses, mishaps, requests>>

-----------------------------------------------------------------------------
(* Tables and frames.                                                      *)

PartStatus == {"none", "draft", "active", "archived"}

Window == [from : {0} \cup Days, to : Nat \cup {Open}, cost : Costs]

LineStatus == {"received", "approved", "rejected", "superseded", "applied"}
LineDecided == {"approved", "rejected", "applied"}

\* named: the sheet names the vendor, or no supplier at all.
Line == [named : BOOLEAN, cost : Costs, date : QuoteDates, status : LineStatus]

ItemStatus == {"pending", "acknowledged", "accepted", "superseded"}
ItemDecided == {"acknowledged", "accepted"}

ASSUME NoneAssumption == None \notin SourceIds \cup Window \cup Line

Saw == [row : SourceIds \cup {None}, was : Window \cup {None}]

Idle == [pc |-> "idle"]

Request ==
  {Idle}
  \cup [pc : {"add"}, cost : Costs, again : BOOLEAN]
  \cup [pc : {"edit"}, saw : Saw, cost : Costs, eff : {Undated} \cup Days]
  \cup [pc : {"remove"}, saw : Saw]
  \cup [pc : {"ingest"}, create : BOOLEAN, line : Line, gone : SUBSET LineIds]
  \cup [pc : {"reject"}, line : LineIds]
  \cup [pc : {"approve"}, line : LineIds, draft : BOOLEAN, saw : Saw, day : Days]
  \cup [pc : {"confirm"}, line : LineIds, onto : BOOLEAN, saw : Saw, day : Days]
  \cup [pc : {"dismiss"}, item : Nat]
  \cup [pc : {"status"}, to : {"active", "archived"}]

SourcingTypeOK ==
  /\ today \in Days /\ status \in PartStatus
  /\ source \in [SourceIds -> Window \cup {None}]
  /\ line \in [LineIds -> Line \cup {None}]
  /\ items \in Seq(ItemStatus)
  /\ request \in [Requests -> Request]
  /\ uses \in [LineIds -> Nat] /\ requests \in Nat
  /\ mishaps \subseteq {"race", "clamped"}

SourcingInit ==
  /\ today \in Days /\ \A d \in Days : today <= d
  /\ status \in {"none", "active"}
  /\ source = [i \in SourceIds |-> None]
  /\ line = [n \in LineIds |-> None]
  /\ items = <<>>
  /\ request = [r \in Requests |-> Idle]
  /\ uses = [n \in LineIds |-> 0]
  /\ mishaps = {} /\ requests = 0

Sources == {i \in SourceIds : source[i] # None}
CurrentSources == {i \in Sources : source[i].to = Open}
Lines(s) == {n \in LineIds : line[n] # None /\ line[n].status = s}

\* What a query for the current window answers.
Seen(saw) ==
  IF CurrentSources = {} THEN saw = [row |-> None, was |-> None]
  ELSE \E i \in CurrentSources : saw = [row |-> i, was |-> source[i]]

Fresh(ids, table) ==
  {i \in ids : table[i] = None /\ \A j \in ids : j < i => table[j] # None}

-----------------------------------------------------------------------------
(* Reads.                                                                  *)

Mark(name, happens) == IF happens THEN {name} ELSE {}

Starts(r, frame) ==
  /\ request[r] = Idle /\ requests < MaxRequests
  /\ request' = [request EXCEPT ![r] = frame]
  /\ mishaps' = mishaps \cup Mark("race", \E q \in Requests : request[q] # Idle)
  /\ requests' = requests + 1
  /\ UNCHANGED <<facts, uses>>

\* POST of a source: 409 when the vendor already is one.
ReadAdd(r) ==
  /\ status # "none" /\ CurrentSources = {}
  /\ \E cost \in Costs : Starts(r, [pc |-> "add", cost |-> cost, again |-> Sources # {}])

\* Mutant: a closed window is found too.
LoadAnySource(saw) ==
  /\ saw \in [row : Sources, was : Window]
  /\ saw.was = source[saw.row]

\* loadSource: only the current window is editable.
LoadSource(saw) ==
  /\ saw \in [row : CurrentSources, was : Window]
  /\ saw.was = source[saw.row]

ReadEdit(r) ==
  \E i \in Sources, cost \in Costs, eff \in {Undated} \cup Days :
    LET saw == [row |-> i, was |-> source[i]] IN
    LoadSource(saw) /\ Starts(r, [pc |-> "edit", saw |-> saw, cost |-> cost, eff |-> eff])

ReadRemove(r) ==
  \E i \in Sources :
    LET saw == [row |-> i, was |-> source[i]] IN
    LoadSource(saw) /\ Starts(r, [pc |-> "remove", saw |-> saw])

\* Mutant: whatever a person has decided about them.
SupersededAll(named) == {n \in LineIds : line[n] # None /\ line[n].named = named}

\* selectSupersededLineIds: received lines of the same vendor.
Superseded(named) == {n \in Lines("received") : line[n].named = named}

ReadIngest(r) ==
  \E named \in BOOLEAN, cost \in Costs, date \in QuoteDates :
    Starts(r, [pc |-> "ingest", create |-> status = "none", gone |-> Superseded(named),
               line |-> [named |-> named, cost |-> cost, date |-> date, status |-> "received"]])

\* decideQuoteLine: only a received line.
Decidable(n) == n \in Lines("received")

ReadReject(r) ==
  \E n \in LineIds : Decidable(n) /\ Starts(r, [pc |-> "reject", line |-> n])

ReadApprove(r) ==
  \E n \in LineIds, i \in SourceIds \cup {None} :
    LET saw == [row |-> i, was |-> IF i = None THEN None ELSE source[i]] IN
    /\ Decidable(n) /\ Seen(saw)
    /\ Starts(r, [pc |-> "approve", line |-> n, draft |-> status = "draft",
                  saw |-> saw, day |-> today])

\* poLineMatchesQuote, for a purchase order with this price, date and vendor.
MatchesOrder(n, cost, date) ==
  /\ line[n].cost = cost
  /\ line[n].date # Undated /\ date # Undated => line[n].date <= date

\* pickWinningQuote: the newest sheet, then the newest line.
WinningQuote(S) ==
  {n \in S : \A k \in S : line[k].date < line[n].date \/ (line[k].date = line[n].date /\ k <= n)}

\* Mutant: applied lines match again.
ConfirmableAgain == Lines("approved") \cup Lines("applied")

\* The lines that wait for an order.
Confirmable == Lines("approved")

\* applyQuotesForPo, for one line of a purchase order.
ReadConfirm(r) ==
  \E cost \in Costs, date \in {Undated, today}, vendor \in BOOLEAN :
    \E n \in WinningQuote({k \in Confirmable : MatchesOrder(k, cost, date)}),
       i \in SourceIds \cup {None} :
      LET saw == [row |-> i, was |-> IF i = None THEN None ELSE source[i]] IN
      /\ status # "archived" /\ Seen(saw)
      /\ Starts(r, [pc |-> "confirm", line |-> n, onto |-> line[n].named \/ vendor,
                    saw |-> saw, day |-> today])

ReadDismiss(r) ==
  \E t \in DOMAIN items : items[t] = "pending" /\ Starts(r, [pc |-> "dismiss", item |-> t])

\* The status route: a draft is not activated by it.
ReadStatus(r) ==
  \E to \in {"active", "archived"} :
    /\ status \notin {"none", to}
    /\ to = "active" => status # "draft"
    /\ Starts(r, [pc |-> "status", to |-> to])

-----------------------------------------------------------------------------
(* Writes.                                                                 *)

Done(r) ==
  /\ request' = [request EXCEPT ![r] = Idle]
  /\ UNCHANGED <<today, requests>>

\* The partial unique index: one current window.
InsertSource(table, w) ==
  /\ {i \in SourceIds : table[i] # None /\ table[i].to = Open} = {}
  /\ \E i \in Fresh(SourceIds, table) : source' = [table EXCEPT ![i] = w]

Tile(row, cost, eff) ==
  InsertSource([source EXCEPT ![row].to = eff - 1], [from |-> eff, to |-> Open, cost |-> cost])

Correct(row, cost) == source' = [source EXCEPT ![row].cost = cost]

\* Mutant: a vendor that comes back takes over its past.
FirstDayAlways(again, day) == 0

\* A vendor that comes back starts on the day, a new one has no first day.
FirstDay(again, day) == IF again THEN day ELSE 0

Add(r) ==
  /\ request[r].pc = "add"
  /\ InsertSource(source, [from |-> FirstDay(request[r].again, today), to |-> Open,
                           cost |-> request[r].cost])
  /\ Done(r) /\ UNCHANGED <<status, line, items, uses, mishaps>>

Edit(r) ==
  LET f == request[r] IN
  /\ f.pc = "edit"
  /\ IF CommitPlan(f.saw.was.from, f.eff) = "tile"
     THEN Tile(f.saw.row, f.cost, f.eff) ELSE Correct(f.saw.row, f.cost)
  /\ Done(r) /\ UNCHANGED <<status, line, items, uses, mishaps>>

Remove(r) ==
  LET f == request[r] IN
  /\ f.pc = "remove"
  /\ source' = [source EXCEPT ![f.saw.row].to = CloseDate(f.saw.was.from, today)]
  /\ mishaps' = mishaps \cup Mark("clamped", today <= f.saw.was.from)
  /\ Done(r) /\ UNCHANGED <<status, line, items, uses>>

\* patchPartSource, with what diffQuoteAgainstSource found.
PatchSource(saw, cost, day) ==
  \/ saw.row = None /\ InsertSource(source, [from |-> FirstDay(Sources # {}, day),
                                             to |-> Open, cost |-> cost])
  \/ saw.row # None /\ saw.was.cost = cost /\ UNCHANGED source
  \/ /\ saw.row # None /\ saw.was.cost # cost
     /\ IF CommitPlan(saw.was.from, day) = "tile"
        THEN Tile(saw.row, cost, day) ELSE Correct(saw.row, cost)

\* ingestQuoteSheet: an unknown SKU becomes a draft part with the quote's own
\* claims; its unique index refuses a second one.
Ingest(r) ==
  LET f == request[r] IN
  /\ f.pc = "ingest"
  /\ f.create => status = "none"
  /\ status' = IF f.create THEN "draft" ELSE status
  /\ IF f.create /\ f.line.named
     THEN InsertSource(source, [from |-> 0, to |-> Open, cost |-> f.line.cost])
     ELSE UNCHANGED source
  /\ \E n \in Fresh(LineIds, line) :
       line' = [k \in LineIds |->
         IF k = n THEN f.line
         ELSE IF k \in f.gone THEN [line[k] EXCEPT !.status = "superseded"] ELSE line[k]]
  /\ Done(r) /\ UNCHANGED <<items, uses, mishaps>>

Reject(r) ==
  /\ request[r].pc = "reject"
  /\ line' = [line EXCEPT ![request[r].line].status = "rejected"]
  /\ Done(r) /\ UNCHANGED <<status, source, items, uses, mishaps>>

\* resolveReconsiderForPart.
Answered == [t \in DOMAIN items |-> IF items[t] = "pending" THEN "accepted" ELSE items[t]]

\* Approved, the line waits for an order; that of a draft part is applied.
Approve(r) ==
  LET f == request[r]
      l == line[f.line]
  IN /\ f.pc = "approve"
     /\ IF f.draft /\ l.named THEN PatchSource(f.saw, l.cost, f.day) ELSE UNCHANGED source
     /\ status' = IF f.draft THEN "active" ELSE status
     /\ line' = [line EXCEPT ![f.line].status = IF f.draft THEN "applied" ELSE "approved"]
     /\ uses' = IF f.draft THEN [uses EXCEPT ![f.line] = @ + 1] ELSE uses
     /\ items' = Answered
     /\ Done(r) /\ UNCHANGED mishaps

\* The order makes the quote official.
Confirm(r) ==
  LET f == request[r] IN
  /\ f.pc = "confirm"
  /\ IF f.onto THEN PatchSource(f.saw, line[f.line].cost, f.day) ELSE UNCHANGED source
  /\ line' = [line EXCEPT ![f.line].status = "applied"]
  /\ uses' = [uses EXCEPT ![f.line] = @ + 1]
  /\ Done(r) /\ UNCHANGED <<status, items, mishaps>>

Dismiss(r) ==
  /\ request[r].pc = "dismiss"
  /\ items' = [items EXCEPT ![request[r].item] = "acknowledged"]
  /\ Done(r) /\ UNCHANGED <<status, source, line, uses, mishaps>>

SetStatus(r) ==
  /\ request[r].pc = "status"
  /\ status' = request[r].to
  /\ Done(r) /\ UNCHANGED <<source, line, items, uses, mishaps>>

\* openReconsiderItem, for a part that has a live quote: the newer numbers
\* replace those of a pending item.
OpenReconsider ==
  /\ status \notin {"none", "archived"} /\ Len(items) < MaxItems
  /\ \E n \in LineIds : line[n] # None /\ line[n].status # "superseded"
  /\ items' = Append([t \in DOMAIN items |->
       IF items[t] = "pending" THEN "superseded" ELSE items[t]], "pending")
  /\ UNCHANGED <<today, status, source, line, request, uses, mishaps, requests>>

Abort(r) ==
  /\ request[r] # Idle
  /\ Done(r) /\ UNCHANGED <<status, source, line, items, uses, mishaps>>

NextDay ==
  /\ today + 1 \in Days
  /\ today' = today + 1
  /\ UNCHANGED <<status, source, line, items, request, uses, mishaps, requests>>

SourcingNext ==
  \/ NextDay \/ OpenReconsider
  \/ \E r \in Requests :
       \/ ReadAdd(r) \/ ReadEdit(r) \/ ReadRemove(r) \/ ReadIngest(r) \/ ReadReject(r)
       \/ ReadApprove(r) \/ ReadConfirm(r) \/ ReadDismiss(r) \/ ReadStatus(r)
       \/ Add(r) \/ Edit(r) \/ Remove(r) \/ Ingest(r) \/ Reject(r) \/ Approve(r)
       \/ Confirm(r) \/ Dismiss(r) \/ SetStatus(r) \/ Abort(r)

SourcingSpec == SourcingInit /\ [][SourcingNext]_sourcingVars

-----------------------------------------------------------------------------
(* Properties.                                                             *)

Overlap(v, w) == \E day \in Days : CoversDay(v, day) /\ CoversDay(w, day)

\* "Windows never overlap, so input order is free" (effective-dating.ts:96):
\* whatever is added, edited, removed and quoted, one request after the other.
NeverOverlap ==
  "race" \in mishaps \/ \A i, j \in Sources : i # j => ~Overlap(source[i], source[j])

\* The same, as far as it holds: no window was removed on its first day or
\* before it began, which leaves it that day (planCloseDate) and lets the next
\* one begin on it or, when the edit that opened it was dated ahead, before it.
SourcesTile == mishaps = {} => NeverOverlap

\* No window ends before it begins, in whatever order the requests write: an
\* edit or a quote closes a window on a day it compared with the window's first
\* day when it read, and a first day never moves.
NeverInverted == \A i \in Sources : source[i].to # Open => source[i].from <= source[i].to

\* "Closed windows are audit history": neither an edit, nor a removal, nor a
\* quote moves their bounds or their cost, unless two requests overlap.
HistoryStands ==
  [][\A i \in Sources \ CurrentSources :
       "race" \in mishaps' \/ source'[i] = source[i]]_sourcingVars

\* "Human decisions survive machine re-ingestion": a rejected or applied line
\* and an answered item keep their status, an approved line may only be
\* applied, unless two requests overlap.  (An item that a sweep supersedes while
\* somebody dismisses it is dismissed: no answer is lost.)
DecisionStands ==
  [][/\ \A n \in LineIds : (line[n] # None /\ line[n].status \in LineDecided) =>
          \/ "race" \in mishaps' \/ line'[n] = line[n]
          \/ line[n].status = "approved" /\ line'[n] = [line[n] EXCEPT !.status = "applied"]
     /\ \A t \in DOMAIN items : items[t] \in ItemDecided =>
          "race" \in mishaps' \/ items'[t] = items[t]]_sourcingVars

\* "One quote line never applies to two PO lines", and a draft's approval does
\* not apply it again, unless two requests overlap.
AppliedOnce == "race" \in mishaps \/ \A n \in LineIds : uses[n] <= 1

-----------------------------------------------------------------------------
(* What the last four rest on: with SourcingTypeOK, an inductive invariant. *)

\* What a request has read is still what the tables say.
StillTrue(f) ==
  /\ f.pc = "add" =>
       status # "none" /\ CurrentSources = {} /\ f.again = (Sources # {})
  /\ f.pc \in {"edit", "remove"} =>
       f.saw.row \in CurrentSources /\ f.saw.was = source[f.saw.row]
  /\ f.pc \in {"approve", "confirm"} => Seen(f.saw)
  /\ f.pc = "ingest" =>
       /\ f.create = (status = "none") /\ f.line.status = "received"
       /\ f.gone = Superseded(f.line.named)
  /\ f.pc \in {"reject", "approve"} => Decidable(f.line)
  /\ f.pc = "confirm" => f.line \in Lines("approved")
  /\ f.pc = "dismiss" => f.item \in DOMAIN items /\ items[f.item] \notin ItemDecided

OneRequest == \A q, r \in Requests : request[q] # Idle /\ request[r] # Idle => q = r

\* A line was made official once when it is applied, and never before; a part
\* that is not in the catalog has neither sources nor quotes.
UsedWhenApplied == \A n \in LineIds : uses[n] = IF n \in Lines("applied") THEN 1 ELSE 0

Unborn == status = "none" => Sources = {} /\ \A n \in LineIds : line[n] = None

SerialInv ==
  "race" \notin mishaps =>
    /\ OneRequest /\ \A r \in Requests : StillTrue(request[r])
    /\ UsedWhenApplied /\ Unborn

\* Two windows are apart, and where the next one will begin every window has
\* ended: today, or on the day a quote has read that there is no source.
Apart(i, j) == source[i].to # Open /\ source[i].to < source[j].from

AllEnded(day) == \A i \in Sources : source[i].to # Open /\ source[i].to < day

TilingInv ==
  mishaps = {} =>
    /\ \A i, j \in Sources : i # j => Apart(i, j) \/ Apart(j, i)
    /\ CurrentSources = {} => AllEnded(today)
    /\ \A r \in Requests :
         request[r].pc \in {"approve", "confirm"} /\ request[r].saw.row = None =>
           AllEnded(request[r].day)
=============================================================================
