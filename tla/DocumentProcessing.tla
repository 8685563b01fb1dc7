------------------------- MODULE DocumentProcessing -------------------------
(***************************************************************************)
(* The life of a row of documents: processDocumentRow of                   *)
(* src/lib/processing/run.ts and its two callers, the interactive process  *)
(* route and the document sweep.                                           *)
(*                                                                         *)
(* Each step is one statement (or one transaction) of a worker: claim,     *)
(* extract, split a packet into child rows, link, queue the analyses,      *)
(* persist, and then, still inside the same try, the follow-up of a quote  *)
(* sheet or the children of a packet one after the other.  What linking    *)
(* writes is abstracted to a debt: the facts of a primary document are on  *)
(* the entry and its analysis is not queued yet.  What the queueing does   *)
(* is the subject of AnalysisQueue.                                        *)
(***************************************************************************)
EXTENDS Naturals, FiniteSets

CONSTANTS
  Packets,      \* uploads that extract as an entry_packet
  Plain,        \* every other upload
  QuoteSheets,  \* uploads that extract as a quote_sheet; no role of a part does
  Roles,        \* the parts a packet is split into
  Primary,      \* uploads and roles in ANALYSIS_TRIGGER_DOC_TYPES
  Requests,     \* concurrent calls of the process route
  Sweeps,       \* sweeps that may overlap (cron and manual)
  Slots,        \* workers of a sweep (CONCURRENCY)
  None,         \* no document, no role
  MaxSplits,    \* bound: splits of one packet
  MaxRequests,  \* bound: claims by requests
  MaxFaults     \* bound: crashes and statements that throw

Roots == Packets \cup Plain

\* A child row belongs to a packet, plays a role in it, and is created by the
\* nth split of the packet: a re-split makes new rows.
Parts == [packet : Packets, role : Roles, nth : 1..MaxSplits]

Docs == Roots \cup Parts

ASSUME PacketsAssumption == Packets \cap Plain = {}
ASSUME PartsAssumption == Roots \cap Parts = {}
ASSUME NoneAssumption == None \notin Docs \cup Roles
ASSUME PrimaryAssumption == Primary \cap Packets = {}
ASSUME QuotesAssumption == QuoteSheets \subseteq Plain
ASSUME WorkersAssumption == Requests \cap (Sweeps \X Slots) = {}
ASSUME BoundsAssumption ==
  /\ MaxSplits \in Nat
  /\ MaxRequests \in Nat
  /\ MaxFaults \in Nat

VARIABLES
  status,    \* documents.status, "none" when the row is not there
  stale,     \* processing rows whose updated_at is past the cutoff
  worker,    \* a call of processDocumentRow, or of a slot between two of them
  sweep,     \* a sweep and the rows it listed
  splits,    \* how often a packet has been split
  owed,      \* facts linked to an entry and not followed by a queue yet
  upset,     \* ghost: uploads failed by the call that had persisted them
  requests,  \* bound counter
  faults     \* bound counter

rows == <<status, stale, splits>>
vars == <<status, stale, worker, sweep, splits, owed, upset, requests, faults>>

-----------------------------------------------------------------------------
(* Rows, workers and sweeps.                                               *)

Status == {"none", "pending", "processing", "processed", "failed"}

Workers == Requests \cup (Sweeps \X Slots)

\* The steps from a claim to the outcome; "fail" is the catch block.
Working ==
  {"extract", "check", "delete", "insert", "link", "queue", "persist", "fail"}

\* nested: doc is a child that the call of its packet is working through;
\* parts: children still to come.  What follows the outcome of an upload, the
\* follow-up of a quote sheet or the "parts" of a packet, holds no claim.  A slot that is "pull"ing takes its next
\* row from the list of its sweep.
Worker == [pc : {"idle", "pull", "followUp", "parts"} \cup Working,
           doc : Docs \cup {None}, nested : BOOLEAN, parts : SUBSET Parts]

At(pc, d) == [pc |-> pc, doc |-> d, nested |-> FALSE, parts |-> {}]
Idle == At("idle", None)
Pull == At("pull", None)

\* list: rows not yet taken; old: the rows past the cutoff of this sweep.
Sweep == [on : BOOLEAN, list : SUBSET Docs, old : SUBSET Docs]
OffSweep == [on |-> FALSE, list |-> {}, old |-> {}]

PartsOf(p) == {d \in Parts : d.packet = p}

Upload(d) == IF d \in Parts THEN d.packet ELSE d

\* The facts a document stands for: a part that is split off again carries
\* the facts of the part it replaces.
FactsOf(d) == <<Upload(d), IF d \in Parts THEN d.role ELSE None>>
Facts == {FactsOf(d) : d \in Docs}

IsPrimary(d) == IF d \in Parts THEN d.role \in Primary ELSE d \in Primary

\* The worker has claimed d and has not written an outcome.
Processes(w, d) == worker[w].pc \in Working /\ worker[w].doc = d

TypeOK ==
  /\ status \in [Docs -> Status]
  /\ stale \in SUBSET Docs
  /\ worker \in [Workers -> Worker]
  /\ sweep \in [Sweeps -> Sweep]
  /\ splits \in [Packets -> 0..MaxSplits]
  /\ owed \in SUBSET Facts
  /\ upset \in SUBSET Roots
  /\ requests \in Nat
  /\ faults \in Nat

Init ==
  /\ status = [d \in Docs |-> "none"]
  /\ stale = {}
  /\ worker = [w \in Workers |-> Idle]
  /\ sweep = [s \in Sweeps |-> OffSweep]
  /\ splits = [p \in Packets |-> 0]
  /\ owed = {}
  /\ upset = {}
  /\ requests = 0
  /\ faults = 0

-----------------------------------------------------------------------------
(* The claim: a guarded UPDATE on status.                                  *)

\* A request, and a packet's own call for its children, take anything that is
\* not in flight.
Free(d) == status[d] \in {"pending", "processed", "failed"}

\* Mutant: a row the sweep listed as processing is taken without its cutoff.
SweptForUndated(s, d) == status[d] \in {"pending", "processing"}

\* A sweep takes what it swept for.
SweptFor(s, d) ==
  \/ status[d] = "pending"
  \/ status[d] = "processing" /\ d \in stale /\ d \in sweep[s].old

Claim(d) ==
  /\ status' = [status EXCEPT ![d] = "processing"]
  /\ stale' = stale \ {d}

\* register and upload: a new row.
Register(d) ==
  /\ status[d] = "none"
  /\ status' = [status EXCEPT ![d] = "pending"]
  /\ UNCHANGED <<stale, worker, sweep, splits, owed, upset, requests, faults>>

\* The process route finds the row and claims it.
Request(q, d) ==
  /\ worker[q].pc = "idle"
  /\ Free(d)
  /\ requests < MaxRequests
  /\ Claim(d)
  /\ worker' = [worker EXCEPT ![q] = At("extract", d)]
  /\ requests' = requests + 1
  /\ UNCHANGED <<sweep, splits, owed, upset, faults>>

\* Mutant: dead runners are not listed.
ListPendingOnly(s) ==
  /\ ~sweep[s].on
  /\ sweep' = [sweep EXCEPT ![s] =
       [on |-> TRUE, list |-> {d \in Docs : status[d] = "pending"}, old |-> {}]]
  /\ worker' = [w \in Workers |-> IF w \in {s} \X Slots THEN Pull ELSE worker[w]]
  /\ UNCHANGED <<rows, owed, upset, requests, faults>>

\* Mutant: only dead runners are listed.
ListStaleOnly(s) ==
  /\ ~sweep[s].on
  /\ sweep' = [sweep EXCEPT ![s] = [on |-> TRUE, list |-> stale, old |-> stale]]
  /\ worker' = [w \in Workers |-> IF w \in {s} \X Slots THEN Pull ELSE worker[w]]
  /\ UNCHANGED <<rows, owed, upset, requests, faults>>

\* The sweep lists its rows once and starts its slots.
List(s) ==
  /\ ~sweep[s].on
  /\ sweep' = [sweep EXCEPT ![s] =
       [on |-> TRUE,
        list |-> {d \in Docs : status[d] = "pending"} \cup stale,
        old |-> stale]]
  /\ worker' = [w \in Workers |-> IF w \in {s} \X Slots THEN Pull ELSE worker[w]]
  /\ UNCHANGED <<rows, owed, upset, requests, faults>>

\* A slot shifts a row off the list and claims it.
TakeListed(s, k, d) ==
  /\ worker[<<s, k>>].pc = "pull"
  /\ d \in sweep[s].list
  /\ SweptFor(s, d)
  /\ Claim(d)
  /\ worker' = [worker EXCEPT ![<<s, k>>] = At("extract", d)]
  /\ sweep' = [sweep EXCEPT ![s].list = @ \ {d}]
  /\ UNCHANGED <<splits, owed, upset, requests, faults>>

\* Another runner was first: the slot goes on to its next row.
SkipListed(s, k, d) ==
  /\ worker[<<s, k>>].pc = "pull"
  /\ d \in sweep[s].list
  /\ ~SweptFor(s, d)
  /\ sweep' = [sweep EXCEPT ![s].list = @ \ {d}]
  /\ UNCHANGED <<rows, worker, owed, upset, requests, faults>>

\* Every slot has stopped at the deadline or found the list empty.
EndSweep(s) ==
  /\ sweep[s].on
  /\ \A k \in Slots : \/ worker[<<s, k>>].pc = "idle"
                      \/ worker[<<s, k>>].pc = "pull" /\ sweep[s].list = {}
  /\ sweep' = [sweep EXCEPT ![s] = OffSweep]
  /\ worker' = [w \in Workers |-> IF w \in {s} \X Slots THEN Idle ELSE worker[w]]
  /\ UNCHANGED <<rows, owed, upset, requests, faults>>

-----------------------------------------------------------------------------
(* processDocumentRow after its claim.                                     *)

Goto(w, pc) == worker' = [worker EXCEPT ![w].pc = pc]

\* The call returns: from a child to the loop over its packet's children, and
\* from an upload to the route, or to the slot, which stops at the deadline.
Return(w) ==
  IF worker[w].nested
    THEN worker' = [worker EXCEPT
           ![w] = [At("parts", worker[w].doc.packet) EXCEPT !.parts = worker[w].parts]]
    ELSE \/ worker' = [worker EXCEPT ![w] = Idle]
         \/ w \notin Requests /\ worker' = [worker EXCEPT ![w] = Pull]

\* The processor answers.
Extracted(w) ==
  /\ worker[w].pc = "extract"
  /\ Goto(w, IF worker[w].doc \in Packets THEN "check" ELSE "link")
  /\ UNCHANGED <<rows, sweep, owed, upset, requests, faults>>

\* The provider refuses, the answer is not usable, or a part claims to be a
\* packet itself.
ExtractFails(w) ==
  /\ worker[w].pc = "extract"
  /\ Goto(w, "fail")
  /\ UNCHANGED <<rows, sweep, owed, upset, requests, faults>>

\* A packet with a part in flight is not split again.
CheckParts(w) ==
  /\ worker[w].pc = "check"
  /\ Goto(w, IF \E d \in PartsOf(worker[w].doc) : status[d] = "processing"
               THEN "fail" ELSE "delete")
  /\ UNCHANGED <<rows, sweep, owed, upset, requests, faults>>

\* The children go, with their document_links (cascade).
DeleteParts(w) ==
  /\ worker[w].pc = "delete"
  /\ status' = [d \in Docs |->
       IF d \in PartsOf(worker[w].doc) THEN "none" ELSE status[d]]
  /\ stale' = stale \ PartsOf(worker[w].doc)
  /\ Goto(w, "insert")
  /\ UNCHANGED <<sweep, splits, owed, upset, requests, faults>>

\* One INSERT of a pending child per part.
InsertParts(w) ==
  LET p == worker[w].doc
      new == {d \in PartsOf(p) : d.nth = splits[p] + 1}
  IN /\ worker[w].pc = "insert"
     /\ splits[p] < MaxSplits
     /\ splits' = [splits EXCEPT ![p] = @ + 1]
     /\ status' = [d \in Docs |-> IF d \in new THEN "pending" ELSE status[d]]
     /\ worker' = [worker EXCEPT ![w].pc = "link", ![w].parts = new]
     /\ UNCHANGED <<stale, sweep, owed, upset, requests, faults>>

\* linkExtraction, one transaction: the facts are on the entry.  The links of
\* a row that was deleted violate their foreign key.
Link(w) ==
  LET d == worker[w].doc
  IN /\ worker[w].pc = "link"
     /\ IF status[d] = "none"
          THEN Goto(w, "fail") /\ owed' = owed
          ELSE IF IsPrimary(d)
            THEN Goto(w, "queue") /\ owed' = owed \cup {FactsOf(d)}
            ELSE Goto(w, "persist") /\ owed' = owed
     /\ UNCHANGED <<rows, sweep, upset, requests, faults>>

\* queueAnalysesForEntries for the entries the document links to: none any
\* more when its row, and its links with it, are gone.
Queue(w) ==
  LET d == worker[w].doc
  IN /\ worker[w].pc = "queue"
     /\ owed' = IF status[d] = "none" THEN owed ELSE owed \ {FactsOf(d)}
     /\ Goto(w, "persist")
     /\ UNCHANGED <<rows, sweep, upset, requests, faults>>

\* An outcome, by id: nothing happens to a row that is gone.
Outcome(d, outcome) ==
  /\ status' = [status EXCEPT ![d] = IF @ = "none" THEN @ ELSE outcome]
  /\ stale' = stale \ {d}

Persist(w) ==
  /\ worker[w].pc = "persist"
  /\ Outcome(worker[w].doc, "processed")
  /\ IF worker[w].doc \in Packets THEN Goto(w, "parts")
     ELSE IF worker[w].doc \in QuoteSheets THEN Goto(w, "followUp")
     ELSE Return(w)
  /\ UNCHANGED <<sweep, splits, owed, upset, requests, faults>>

\* The catch block.
Fail(w) ==
  /\ worker[w].pc = "fail"
  /\ Outcome(worker[w].doc, "failed")
  /\ Return(w)
  /\ UNCHANGED <<sweep, splits, owed, upset, requests, faults>>

\* The parts that a quote sheet created are looked up and their classification
\* deferred, which cannot fail the call any more.
FollowUp(w) ==
  /\ worker[w].pc = "followUp"
  /\ Return(w)
  /\ UNCHANGED <<rows, sweep, owed, upset, requests, faults>>

\* A packet's call claims its next child, or finds it in flight or gone.
TakePart(w, d) ==
  /\ worker[w].pc = "parts"
  /\ d \in worker[w].parts
  /\ IF Free(d)
       THEN /\ Claim(d)
            /\ worker' = [worker EXCEPT
                 ![w] = [pc |-> "extract", doc |-> d, nested |-> TRUE,
                         parts |-> worker[w].parts \ {d}]]
       ELSE /\ worker' = [worker EXCEPT ![w].parts = @ \ {d}]
            /\ UNCHANGED <<status, stale>>
  /\ UNCHANGED <<sweep, splits, owed, upset, requests, faults>>

PartsEnd(w) ==
  /\ worker[w].pc = "parts"
  /\ worker[w].parts = {}
  /\ Return(w)
  /\ UNCHANGED <<rows, sweep, owed, upset, requests, faults>>

-----------------------------------------------------------------------------
(* Statements that throw, crashes and time.                                *)

\* Mutant: a queueing error is logged and the document persisted.
ThrowUnlessQueueing(w) ==
  /\ worker[w].pc \in Working \ {"extract", "fail"}
  /\ faults < MaxFaults
  /\ Goto(w, IF worker[w].pc = "queue" THEN "persist" ELSE "fail")
  /\ faults' = faults + 1
  /\ UNCHANGED <<rows, sweep, owed, upset, requests>>

\* A statement throws (a dropped connection, a constraint).
Throw(w) ==
  /\ worker[w].pc \in Working \ {"extract", "fail"}
  /\ faults < MaxFaults
  /\ Goto(w, "fail")
  /\ faults' = faults + 1
  /\ UNCHANGED <<rows, sweep, owed, upset, requests>>

\* What follows the outcome is inside the try as well: the query for the parts
\* a quote sheet created, and the claim of a child, which is outside the child's
\* own try.  Either throws into the catch of an upload that has been persisted.
FollowUpThrows(w) ==
  /\ \/ worker[w].pc = "followUp"
     \/ worker[w].pc = "parts" /\ worker[w].parts # {}
  /\ faults < MaxFaults
  /\ Goto(w, "fail")
  /\ upset' = upset \cup {worker[w].doc}
  /\ faults' = faults + 1
  /\ UNCHANGED <<rows, sweep, owed, requests>>

\* The UPDATE of the catch block throws: out of a child's call it reaches the
\* catch of the packet, out of an upload's the end of the request or the slot.
FailThrows(w) ==
  /\ worker[w].pc = "fail"
  /\ faults < MaxFaults
  /\ IF worker[w].nested
       THEN /\ worker' = [worker EXCEPT ![w] = At("fail", worker[w].doc.packet)]
            /\ upset' = upset \cup {worker[w].doc.packet}
       ELSE /\ worker' = [worker EXCEPT ![w] = Idle]
            /\ UNCHANGED upset
  /\ faults' = faults + 1
  /\ UNCHANGED <<rows, sweep, owed, requests>>

\* The platform cuts off a request.
CrashRequest(q) ==
  /\ worker[q].pc # "idle"
  /\ faults < MaxFaults
  /\ worker' = [worker EXCEPT ![q] = Idle]
  /\ faults' = faults + 1
  /\ UNCHANGED <<rows, sweep, owed, upset, requests>>

\* The platform cuts off a sweep with all its slots.
CrashSweep(s) ==
  /\ sweep[s].on
  /\ faults < MaxFaults
  /\ sweep' = [sweep EXCEPT ![s] = OffSweep]
  /\ worker' = [w \in Workers |-> IF w \in {s} \X Slots THEN Idle ELSE worker[w]]
  /\ faults' = faults + 1
  /\ UNCHANGED <<rows, owed, upset, requests>>

\* No call lives longer than maxDuration = 800 s, so a row is untouched for 15
\* minutes only when nobody works on it.
Age(d) ==
  /\ status[d] = "processing"
  /\ d \notin stale
  /\ \A w \in Workers : worker[w].pc \in {"idle", "pull"} \/ worker[w].doc # d
  /\ stale' = stale \cup {d}
  /\ UNCHANGED <<status, worker, sweep, splits, owed, upset, requests, faults>>

-----------------------------------------------------------------------------
RunStep(w) ==
  \/ Extracted(w) \/ ExtractFails(w)
  \/ CheckParts(w) \/ DeleteParts(w) \/ InsertParts(w)
  \/ Link(w) \/ Queue(w) \/ Persist(w) \/ Fail(w)
  \/ FollowUp(w)
  \/ \E d \in Parts : TakePart(w, d)
  \/ PartsEnd(w)

FaultStep(w) == Throw(w) \/ FollowUpThrows(w) \/ FailThrows(w)

SweepStep(s) ==
  \/ List(s)
  \/ \E k \in Slots, d \in Docs : TakeListed(s, k, d) \/ SkipListed(s, k, d)
  \/ EndSweep(s)

Next ==
  \/ \E d \in Roots : Register(d)
  \/ \E q \in Requests, d \in Docs : Request(q, d)
  \/ \E q \in Requests : CrashRequest(q)
  \/ \E s \in Sweeps : SweepStep(s) \/ CrashSweep(s)
  \/ \E w \in Workers : RunStep(w) \/ FaultStep(w)
  \/ \E d \in Docs : Age(d)

Spec == Init /\ [][Next]_vars

-----------------------------------------------------------------------------
(* What the processing promises.                                           *)

\* Two callers racing for a document resolve to exactly one processor, while
\* sweeps work through lists that are minutes old, dead runners are reclaimed
\* and packets are split again; an upload that its own call failed after
\* persisting it is the exception (OutcomeStands).
SoleProcessor ==
  \A v, w \in Workers, d \in Docs :
    Processes(v, d) /\ Processes(w, d) => v = w \/ d \in upset

\* Facts a primary document put on an entry are followed by a queued analysis:
\* as long as they are not, some document is pending, processing or failed and
\* will bring them again, even when the part that linked them was deleted by a
\* re-split of its packet between its link and its queue.
FactsQueued ==
  \A f \in owed :
    \/ f[1] \in upset
    \/ \E d \in Docs :
         /\ FactsOf(d) = f \/ d = f[1]
         /\ status[d] \in {"pending", "processing", "failed"}

\* "A row another runner has finished in the meantime must NOT be claimed
\* again": a stale list, a re-split or a second runner never turns processed into
\* failed.  Only the call that persisted an upload can, when a statement of what
\* follows its outcome throws; a part, and an upload nothing follows, it cannot.
OutcomeStands ==
  [][\A d \in Docs :
       status[d] = "processed" /\ status'[d] = "failed" => d \in upset]_vars

\* "Each child claims its own row - a child failure marks only that child, never
\* the parent."
ParentStands ==
  [][\A p \in Packets : status[p] = "processed" => status'[p] # "failed"]_vars

-----------------------------------------------------------------------------
(* What the promises rest on: with TypeOK, an inductive invariant.         *)

\* Who works on what: only a packet is split and has a loop over its parts,
\* only a primary document queues.
WorkerShape ==
  \A w \in Workers :
    /\ worker[w].pc \in Working => worker[w].doc \in Docs
    /\ worker[w].pc \in {"check", "delete", "insert", "parts"} =>
         worker[w].doc \in Packets
    /\ worker[w].pc = "queue" => IsPrimary(worker[w].doc)
    /\ worker[w].pc = "followUp" => worker[w].doc \in QuoteSheets
    /\ worker[w].nested =>
         worker[w].doc \in Parts /\ worker[w].pc \in Working

\* A document in work is processing and inside the cutoff, unless it was
\* deleted under its worker.
HeldProcessing ==
  \A w \in Workers, d \in Docs :
    Processes(w, d) =>
      \/ d \in upset
      \/ status[d] = "processing" /\ d \notin stale
      \/ status[d] = "none" /\ d \in Parts

\* A part that is listed, claimed or in a loop has been split off: the rows
\* the next split will insert are nobody's yet.
SplitOff ==
  /\ \A d \in Parts : status[d] # "none" => d.nth <= splits[d.packet]
  /\ \A w \in Workers, d \in Parts :
       Processes(w, d) => d.nth <= splits[d.packet]

\* Nothing is known of a part, and of its facts, without its upload.
Registered ==
  /\ \A w \in Workers : worker[w].pc \notin {"idle", "pull"} =>
       status[Upload(worker[w].doc)] # "none"
  /\ \A d \in Parts : status[d] # "none" => status[d.packet] # "none"
  /\ \A f \in owed :
       \E d \in Docs : /\ IsPrimary(d)
                      /\ f = FactsOf(d)
                      /\ status[f[1]] # "none"

\* The parts of a packet are those of its last split: a split deletes before
\* it inserts and nobody else splits meanwhile.
OneGeneration ==
  \A p \in Packets \ upset :
    /\ \A d \in PartsOf(p) : status[d] # "none" => d.nth = splits[p]
    /\ \A w \in Workers : worker[w].pc = "insert" /\ worker[w].doc = p =>
         \A d \in PartsOf(p) : status[d] = "none"

\* A packet is processed only while all of its parts are on file.
PartsOnFile ==
  \A p \in Packets \ upset :
    (\/ status[p] = "processed"
     \/ \E w \in Workers : worker[w].pc \in {"link", "persist"} /\ worker[w].doc = p)
    => \A r \in Roles : \E d \in PartsOf(p) : d.role = r /\ status[d] # "none"

\* A document that is processed, or about to be, owes nothing.
NothingOwed ==
  \A d \in Docs \ Packets :
    /\ IsPrimary(d)
    /\ \/ status[d] = "processed"
       \/ /\ status[d] # "none"
          /\ \E w \in Workers : worker[w].pc = "persist" /\ worker[w].doc = d
    => Upload(d) \in upset \/ FactsOf(d) \notin owed

DocumentInv ==
  /\ WorkerShape /\ HeldProcessing /\ SoleProcessor
  /\ SplitOff /\ Registered /\ OneGeneration /\ PartsOnFile
  /\ NothingOwed /\ FactsQueued

-----------------------------------------------------------------------------
(* Fairness: the sweep fires again and again, the platform lets a started  *)
(* call go on until it ends or is cut off, and time passes.                *)
Fairness ==
  /\ \A s \in Sweeps : WF_vars(SweepStep(s))
  /\ \A w \in Workers : WF_vars(RunStep(w))
  /\ \A d \in Docs : WF_vars(Age(d))

FairSpec == Spec /\ Fairness

\* A pending document is taken up, whoever registered or split it off and
\* died.
PendingEnds ==
  \A d \in Docs : (status[d] = "pending") ~> (status[d] # "pending")

\* A document does not stay in processing when its runner dies.
ProcessingEnds ==
  \A d \in Docs : (status[d] = "processing") ~> (status[d] # "processing")
=============================================================================
