------------------------- MODULE PartClassification -------------------------
(***************************************************************************)
(* One part of the catalog: its committed HTS code (parts.hts_code), the   *)
(* effective-dated windows behind it (part_classifications), its review    *)
(* items and the three requests that change them, all of                   *)
(* src/lib/classification/service.ts: updatePartHts (a direct edit or an   *)
(* import), applyReviewDecision (the review queue) and classifyPart.       *)
(*                                                                         *)
(* Each request writes in one READ COMMITTED transaction that takes no     *)
(* lock before it reads.  Its reads are steps here and its writes are one  *)
(* step at the commit: the part's row, which every request updates, makes  *)
(* writing transactions wait for each other, and those that cannot wait    *)
(* (a deadlock, a unique index) fail as Abort does.                        *)
(***************************************************************************)
EXTENDS EffectiveDating

CONSTANTS
  Requests,    \* concurrent requests
  HtsCodes,    \* committed codes, compared by their digits
  NoCode,      \* parts.hts_code is null
  WindowIds,   \* ids of part_classifications rows
  ItemIds,     \* ids of review_items rows
  None,        \* no row
  MaxRequests  \* bound: requests of a behaviour

ASSUME NoCodeAssumption == NoCode \notin HtsCodes
ASSUME MaxRequestsAssumption == MaxRequests \in Nat

VARIABLES
  part,     \* parts: code, provisional, review status
  window,   \* part_classifications, by id
  item,     \* review_items, by id
  request,  \* requests in progress: what they have read
  overlapped, \* ghost: two requests have been in progress at once
  requests  \* bound counter

classVars == <<part, window, item, request, overlapped, requests>>

-----------------------------------------------------------------------------
(* Tables and frames.                                                      *)

Review == {"none", "pending", "confirmed", "accepted", "rejected", "acknowledged"}
OpenReview == {"pending", "confirmed"}

Part == [code : HtsCodes \cup {NoCode}, provisional : BOOLEAN, review : Review]

Window == [from : {0} \cup Days, to : Nat \cup {Open}, code : HtsCodes]

Kinds == {"suggestion", "confirmation"}

Item == [status : {"pending", "approved", "rejected", "superseded"}, kind : Kinds]

Actions == {"accept", "manual", "reject", "acknowledge", "reopen"}

ASSUME NoneAssumption == None \notin WindowIds \cup Window \cup Item

Idle == [pc |-> "idle"]

\* What each request has read when it comes to write.
Request ==
  {Idle}
  \cup [pc : {"edit"}, code : HtsCodes, eff : {Undated} \cup Days, part : Part]
  \cup [pc : {"editWrites"}, code : HtsCodes, eff : {Undated} \cup Days, part : Part,
        current : WindowIds \cup {None}, saw : Window \cup {None}]
  \cup [pc : {"decide"}, action : Actions, code : HtsCodes,
        eff : {Undated} \cup Days, item : ItemIds]
  \cup [pc : {"decideWrites"}, action : Actions, code : HtsCodes,
        eff : {Undated} \cup Days, item : ItemIds, part : Part]
  \cup [pc : {"classifyWrites"}, code : HtsCodes, part : Part,
        outcome : {"none", "certain", "candidates"}]

\* committedCodeOf.
Committed(p) == IF p.provisional THEN NoCode ELSE p.code

Present(i) == window[i] # None
Current == {i \in WindowIds : Present(i) /\ window[i].to = Open}
Pending == {t \in ItemIds : item[t] # None /\ item[t].status = "pending"}

ClassTypeOK ==
  /\ part \in Part
  /\ window \in [WindowIds -> Window \cup {None}]
  /\ item \in [ItemIds -> Item \cup {None}]
  /\ request \in [Requests -> Request]
  /\ overlapped \in BOOLEAN
  /\ requests \in Nat

\* A part is born without a code (manual add, quote draft), or with one and
\* the window seedClassificationsForNewParts records for it.
ClassInit ==
  /\ \/ /\ part = [code |-> NoCode, provisional |-> FALSE, review |-> "none"]
        /\ window = [i \in WindowIds |-> None]
     \/ \E c \in HtsCodes, i \in WindowIds :
          /\ part = [code |-> c, provisional |-> FALSE, review |-> "none"]
          /\ window = [j \in WindowIds |->
               IF j = i THEN [from |-> 0, to |-> Open, code |-> c] ELSE None]
  /\ item = [t \in ItemIds |-> None]
  /\ request = [r \in Requests |-> Idle]
  /\ overlapped = FALSE
  /\ requests = 0

Starts(r, frame) ==
  /\ request[r] = Idle
  /\ requests < MaxRequests
  /\ request' = [request EXCEPT ![r] = frame]
  /\ overlapped' = (overlapped \/ \E s \in Requests \ {r} : request[s] # Idle)
  /\ requests' = requests + 1

Ends(r) ==
  /\ request' = [request EXCEPT ![r] = Idle]
  /\ UNCHANGED <<overlapped, requests>>

-----------------------------------------------------------------------------
(* commitClassificationWindow, given the current window it has read.       *)

InsertWindow(w, f) ==
  \E i \in WindowIds : ~Present(i) /\ window' = [w EXCEPT ![i] = f]

\* Mutant: the predecessor stays valid on the effective date.
CommitWindowOverlapping(id, saw, code, eff) ==
  LET fresh == [from |-> eff, to |-> Open, code |-> code]
      closed == [window EXCEPT ![id].to = eff]
  IN \/ /\ id = None /\ Current = {}
        /\ InsertWindow(window, fresh)
     \/ /\ id # None /\ saw.code = code
        /\ UNCHANGED window
     \/ /\ id # None /\ saw.code # code
        /\ CommitPlan(saw.from, eff) = "update_in_place"
        /\ window' = [window EXCEPT ![id].code = code]
     \/ /\ id # None /\ saw.code # code
        /\ CommitPlan(saw.from, eff) = "tile"
        /\ Current \subseteq {id}
        /\ InsertWindow(closed, fresh)

\* part_classifications_current_uq lets no second current window in: an INSERT
\* beside one fails, and the transaction with it.
CommitWindow(id, saw, code, eff) ==
  LET fresh == [from |-> eff, to |-> Open, code |-> code]
      closed == [window EXCEPT ![id].to = eff - 1]
  IN \/ /\ id = None /\ Current = {}
        /\ InsertWindow(window, fresh)
     \/ /\ id # None /\ saw.code = code
        /\ UNCHANGED window
     \/ /\ id # None /\ saw.code # code
        /\ CommitPlan(saw.from, eff) = "update_in_place"
        /\ window' = [window EXCEPT ![id].code = code]
     \/ /\ id # None /\ saw.code # code
        /\ CommitPlan(saw.from, eff) = "tile"
        /\ Current \subseteq {id}
        /\ InsertWindow(closed, fresh)

Superseded ==
  [t \in ItemIds |->
     IF t \in Pending THEN [item[t] EXCEPT !.status = "superseded"] ELSE item[t]]

-----------------------------------------------------------------------------
(* updatePartHts.                                                          *)

EditReadsPart(r, code, eff) ==
  /\ Starts(r, [pc |-> "edit", code |-> code, eff |-> eff, part |-> part])
  /\ UNCHANGED <<part, window, item>>

EditReadsWindow(r) ==
  /\ request[r].pc = "edit"
  /\ \E current \in IF Current = {} THEN {None} ELSE Current :
       request' = [request EXCEPT ![r] =
         [pc |-> "editWrites", code |-> @.code, eff |-> @.eff, part |-> @.part,
          current |-> current,
          saw |-> IF current = None THEN None ELSE window[current]]]
  /\ UNCHANGED <<part, window, item, overlapped, requests>>

\* Mutant: the edit leaves the queue alone.
EditKeepsQueue(r) ==
  LET q == request[r] IN
  /\ q.pc = "editWrites"
  /\ CommitWindow(q.current, q.saw, q.code, q.eff)
  /\ part' = [code |-> q.code, provisional |-> FALSE,
              review |-> IF q.part.review = "none" THEN "none" ELSE "accepted"]
  /\ UNCHANGED item
  /\ Ends(r)

\* The window, then the part, then the queue: the edit supersedes what the
\* queue was asking.
EditWrites(r) ==
  LET q == request[r] IN
  /\ q.pc = "editWrites"
  /\ CommitWindow(q.current, q.saw, q.code, q.eff)
  /\ part' = [code |-> q.code, provisional |-> FALSE,
              review |-> IF q.part.review = "none" THEN "none" ELSE "accepted"]
  /\ item' = Superseded
  /\ Ends(r)

-----------------------------------------------------------------------------
(* applyReviewDecision.                                                    *)

DecideReadsItem(r, t, action, code, eff) ==
  /\ item[t] # None
  /\ item[t].status = IF action = "reopen" THEN "rejected" ELSE "pending"
  /\ Starts(r, [pc |-> "decide", action |-> action, code |-> code, eff |-> eff,
                item |-> t])
  /\ UNCHANGED <<part, window, item>>

\* applyReviewAction: what each action asks of the part's status and of the
\* kind of the proposal; everything else is refused.
Allowed(action, review, kind) ==
  CASE action = "accept" -> review \in OpenReview /\ kind = "suggestion"
    [] action = "manual" -> review \in OpenReview
    [] action = "acknowledge" -> review \in OpenReview /\ kind = "confirmation"
    [] action = "reject" -> review \in OpenReview /\ kind = "suggestion"
    [] action = "reopen" -> review = "rejected"

\* The status a part without one is taken to have.
ReviewOf(p, kind) ==
  IF p.review # "none" THEN p.review
  ELSE IF kind = "confirmation" THEN "confirmed" ELSE "pending"

DecideReadsPart(r) ==
  LET q == request[r] IN
  /\ q.pc = "decide"
  /\ Allowed(q.action, ReviewOf(part, item[q.item].kind), item[q.item].kind)
  /\ request' = [request EXCEPT ![r] =
       [pc |-> "decideWrites", action |-> q.action, code |-> q.code,
        eff |-> q.eff, item |-> q.item, part |-> part]]
  /\ UNCHANGED <<part, window, item, overlapped, requests>>

NextItem(action) ==
  CASE action = "reopen" -> "pending"
    [] action = "reject" -> "rejected"
    [] OTHER -> "approved"

NextReview(action, kind) ==
  CASE action \in {"accept", "manual"} -> "accepted"
    [] action = "acknowledge" -> "acknowledged"
    [] action = "reject" -> "rejected"
    [] action = "reopen" -> IF kind = "confirmation" THEN "confirmed" ELSE "pending"

Commits(action) == action \in {"accept", "manual"}

\* The part, then the window, then the item, by its id.  A rejected
\* provisional code is cleared, a committed one survives.
DecideWrites(r) ==
  LET q == request[r]
      kind == item[q.item].kind
      clears == q.action = "reject" /\ q.part.provisional
  IN /\ q.pc = "decideWrites"
     /\ part' = [code |-> IF Commits(q.action) THEN q.code
                          ELSE IF clears THEN NoCode ELSE part.code,
                 provisional |-> part.provisional /\ ~Commits(q.action) /\ ~clears,
                 review |-> NextReview(q.action, kind)]
     /\ IF Commits(q.action)
          THEN \E current \in IF Current = {} THEN {None} ELSE Current :
                 CommitWindow(current,
                   IF current = None THEN None ELSE window[current], q.code, q.eff)
          ELSE UNCHANGED window
     /\ q.action = "reopen" => Pending \subseteq {q.item}
     /\ item' = [item EXCEPT ![q.item].status = NextItem(q.action)]
     /\ Ends(r)

-----------------------------------------------------------------------------
(* classifyPart.                                                           *)

\* The model has answered; the transaction reads the part afresh.
ClassifyReadsPart(r, outcome, code) ==
  /\ Starts(r, [pc |-> "classifyWrites", code |-> code, part |-> part,
                outcome |-> outcome])
  /\ UNCHANGED <<part, window, item>>

\* deriveInitialReview, for an outcome with candidates.
InitialKind(outcome, code, committed) ==
  IF outcome = "certain" /\ committed = code THEN "confirmation" ELSE "suggestion"

\* Mutant: a certain pick fills the slot even when a code is committed.
AutoSelectsAlways(outcome, code, committed) ==
  outcome = "certain" /\ committed # code

AutoSelects(outcome, code, committed) ==
  outcome = "certain" /\ committed = NoCode

\* Nothing found: what was awaiting review is superseded all the same.
ClassifyFindsNothing(r) ==
  /\ request[r].pc = "classifyWrites"
  /\ request[r].outcome = "none"
  /\ item' = Superseded
  /\ Ends(r)
  /\ UNCHANGED <<part, window>>

ClassifyWrites(r) ==
  LET q == request[r]
      committed == Committed(q.part)
      kind == InitialKind(q.outcome, q.code, committed)
      auto == AutoSelects(q.outcome, q.code, committed)
  IN /\ q.pc = "classifyWrites"
     /\ q.outcome # "none"
     /\ \E t \in ItemIds :
          /\ item[t] = None
          /\ item' = [Superseded EXCEPT ![t] = [status |-> "pending", kind |-> kind]]
     /\ part' = [code |-> IF auto THEN q.code ELSE part.code,
                 provisional |-> part.provisional \/ auto,
                 review |-> IF kind = "confirmation" THEN "confirmed" ELSE "pending"]
     /\ Ends(r)
     /\ UNCHANGED window

-----------------------------------------------------------------------------
\* A conflict answer, a unique index, a deadlock or a lost connection: the
\* transaction leaves nothing behind.
Abort(r) ==
  /\ request[r] # Idle
  /\ Ends(r)
  /\ UNCHANGED <<part, window, item>>

RequestStep(r) ==
  \/ \E code \in HtsCodes, eff \in {Undated} \cup Days : EditReadsPart(r, code, eff)
  \/ EditReadsWindow(r)
  \/ EditWrites(r)
  \/ \E t \in ItemIds, action \in Actions, code \in HtsCodes, eff \in {Undated} \cup Days :
       DecideReadsItem(r, t, action, code, eff)
  \/ DecideReadsPart(r)
  \/ DecideWrites(r)
  \/ \E outcome \in {"none", "certain", "candidates"}, code \in HtsCodes :
       ClassifyReadsPart(r, outcome, code)
  \/ ClassifyFindsNothing(r)
  \/ ClassifyWrites(r)
  \/ Abort(r)

ClassNext == \E r \in Requests : RequestStep(r)

ClassSpec == ClassInit /\ [][ClassNext]_classVars

-----------------------------------------------------------------------------
(* What the catalog promises.                                              *)

\* "Windows for one part never overlap", and a successor starts where its
\* predecessor ends: from the first window on every day has exactly one code,
\* however edits, decisions and classifications of the part interleave.
OneCurrent == \A i, j \in Current : i = j

Before(i, j) == window[i].to # Open /\ window[i].to < window[j].from

Disjoint ==
  \A i, j \in WindowIds :
    Present(i) /\ Present(j) /\ i # j => Before(i, j) \/ Before(j, i)

Contiguous ==
  \A i \in WindowIds : Present(i) /\ window[i].to # Open =>
    \E j \in WindowIds : Present(j) /\ window[j].from = window[i].to + 1

Tiled == OneCurrent /\ Disjoint /\ Contiguous

\* The rest of what every commit relies on: no window ends before it starts, a
\* part with a history has a current window, and the start date a request has
\* read for a window stays that window's start; no item is ever deleted.
Ordered ==
  \A i \in WindowIds :
    Present(i) /\ window[i].to # Open => window[i].from <= window[i].to

Covered == (\E i \in WindowIds : Present(i)) => Current # {}

StartsSeen ==
  \A r \in Requests :
    request[r].pc = "editWrites" /\ request[r].current # None =>
      /\ Present(request[r].current)
      /\ window[request[r].current].from = request[r].saw.from

ItemSeen ==
  \A r \in Requests :
    request[r].pc \in {"decide", "decideWrites"} => item[request[r].item] # None

\* The inductive strengthening of Tiled: commitClassificationWindow may trust
\* a window it has read before another request moved it.
TilingInv == Tiled /\ Ordered /\ Covered /\ StartsSeen /\ ItemSeen

History == {window[i] : i \in {j \in WindowIds : Present(j)}}

\* "Windows never overlap, so input order is free": whatever the day of an
\* entry, resolveWindow finds the same window of the part in any order of rows.
OneAnswer ==
  \A day \in Days : History # {} => \E w \in History : Resolved(History, day) = {w}

\* "a part has an open classification window iff hts_code is set and not
\* provisional", and the code is that window's, as long as no two requests of
\* the part have been in progress at once.
CodeMatchesWindow ==
  IF Committed(part) = NoCode
    THEN Current = {}
    ELSE \E i \in Current : window[i].code = part.code

CodeIsCurrentWindow == overlapped \/ CodeMatchesWindow

\* An item awaits review only while the part says so, with the same kind: again
\* for requests one after another.
Shown ==
  \A t \in Pending :
    part.review = IF item[t].kind = "confirmation" THEN "confirmed" ELSE "pending"

PendingShown == overlapped \/ Shown

\* What the two rest on.  The request in progress is the only one, what it has
\* read is still what the tables say, and one item at most awaits review.
Fresh(q) ==
  /\ q.pc \in {"edit", "editWrites", "decideWrites", "classifyWrites"} => q.part = part
  /\ q.pc = "editWrites" =>
       IF q.current = None THEN Current = {}
       ELSE q.current \in Current /\ q.saw = window[q.current]
  /\ q.pc \in {"decide", "decideWrites"} =>
       item[q.item].status = IF q.action = "reopen" THEN "rejected" ELSE "pending"

OneRequest == \A r, s \in Requests : request[r] # Idle /\ request[s] # Idle => r = s

OneReview == \A t, u \in Pending : t = u

SerialInv ==
  ~overlapped =>
    /\ OneRequest /\ \A r \in Requests : Fresh(request[r])
    /\ CodeMatchesWindow /\ OneReview /\ Shown
=============================================================================
