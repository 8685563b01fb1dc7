---------------------- MODULE DocumentProcessingProofs ----------------------
(* Theorems about DocumentProcessing: type correctness, and that documents  *)
(* have one processor and primary facts are followed by an analysis, for    *)
(* every number of uploads, parts, requests, sweeps and faults.             *)
EXTENDS DocumentProcessing, TLAPS

\* What kinds of documents there are, and when two stand for the same facts.
LEMMA Documents ==
  /\ Packets \subseteq Docs /\ Plain \subseteq Docs /\ Parts \subseteq Docs
  /\ Packets \subseteq Roots /\ Roots \subseteq Docs
  /\ \A d \in Docs : d \in Packets \/ d \in Plain \/ d \in Parts
  /\ \A d \in Packets : d \notin Plain /\ d \notin Parts
  /\ \A d \in Plain : d \notin Parts
  /\ None \notin Docs
  /\ MaxSplits \in Nat
BY PacketsAssumption, PartsAssumption, NoneAssumption, BoundsAssumption
   DEF Docs, Roots

LEMMA PartShape ==
  ASSUME NEW d \in Parts
  PROVE  d.packet \in Packets /\ d.role \in Roles /\ d.nth \in 1..MaxSplits
BY DEF Parts

LEMMA SamePart ==
  ASSUME NEW d \in Parts, NEW e \in Parts,
         d.packet = e.packet, d.role = e.role, d.nth = e.nth
  PROVE  d = e
BY DEF Parts

LEMMA SameFacts ==
  ASSUME NEW d \in Docs, NEW e \in Docs, FactsOf(d) = FactsOf(e)
  PROVE  \/ d = e
         \/ d \in Parts /\ e \in Parts /\ d.packet = e.packet /\ d.role = e.role
<1>1. Upload(d) = Upload(e)
  BY DEF FactsOf
<1>2. (IF d \in Parts THEN d.role ELSE None) = (IF e \in Parts THEN e.role ELSE None)
  BY DEF FactsOf
<1>3. d \in Parts <=> e \in Parts
  BY <1>2, NoneAssumption, PartShape
<1> QED BY <1>1, <1>2, <1>3 DEF Upload

LEMMA UploadShape ==
  ASSUME NEW d \in Docs
  PROVE  /\ Upload(d) \in Roots
         /\ Upload(d) \in Docs
         /\ FactsOf(d)[1] = Upload(d)
         /\ FactsOf(d) \in Facts
         /\ d \in Parts => Upload(d) = d.packet
         /\ d \notin Parts => Upload(d) = d
<1>1. FactsOf(d) \in Facts /\ FactsOf(d)[1] = Upload(d)
  BY DEF Facts, FactsOf
<1>2. CASE d \in Parts
  BY <1>1, <1>2, Documents, PartShape DEF Upload
<1>3. CASE d \notin Parts
  BY <1>1, <1>3, Documents DEF Upload, Roots
<1> QED BY <1>2, <1>3

LEMMA CalmShape ==
  /\ Idle \in Worker /\ Idle.pc = "idle" /\ Idle.nested = FALSE
  /\ Pull \in Worker /\ Pull.pc = "pull" /\ Pull.nested = FALSE
BY DEF Idle, Pull, At, Worker

\* A step of one worker.
Others(w) == \A v \in Workers \ {w} : worker'[v] = worker[v]

LEMMA GotoShape ==
  ASSUME worker \in [Workers -> Worker], NEW w \in Workers,
         NEW pc \in {"idle", "pull", "followUp", "parts"} \cup Working, Goto(w, pc)
  PROVE  /\ worker' \in [Workers -> Worker]
         /\ worker'[w].pc = pc
         /\ worker'[w].doc = worker[w].doc
         /\ worker'[w].nested = worker[w].nested
         /\ worker'[w].parts = worker[w].parts
         /\ Others(w)
BY DEF Goto, Worker, Others

LEMMA ReturnShape ==
  ASSUME worker \in [Workers -> Worker], NEW w \in Workers, Return(w),
         worker[w].nested => worker[w].doc \in Parts
  PROVE  /\ worker' \in [Workers -> Worker]
         /\ Others(w)
         /\ worker'[w].nested = FALSE
         /\ \/ worker'[w].pc \in {"idle", "pull"}
            \/ /\ worker[w].nested
               /\ worker'[w].pc = "parts"
               /\ worker'[w].doc = worker[w].doc.packet
<1>1. CASE worker[w].nested
  <2> DEFINE a == At("parts", worker[w].doc.packet)
             x == [a EXCEPT !.parts = worker[w].parts]
  <2>1. worker[w].doc.packet \in Docs
    BY <1>1, PartShape, Documents
  <2>2. a \in Worker /\ a.pc = "parts" /\ a.doc = worker[w].doc.packet /\ a.nested = FALSE
    BY <2>1 DEF At, Worker
  <2>3. worker[w].parts \in SUBSET Parts
    BY DEF Worker
  <2>4. x \in Worker /\ x.pc = "parts" /\ x.doc = worker[w].doc.packet /\ x.nested = FALSE
    BY <2>2, <2>3 DEF Worker
  <2>5. worker' = [worker EXCEPT ![w] = x]
    BY <1>1 DEF Return
  <2> HIDE DEF x
  <2> QED BY <1>1, <2>4, <2>5 DEF Others
<1>2. CASE ~worker[w].nested
  <2>1. PICK x \in {Idle, Pull} : worker' = [worker EXCEPT ![w] = x]
    BY <1>2 DEF Return
  <2> QED BY <2>1, CalmShape DEF Others
<1>3. worker[w].nested \in BOOLEAN
  BY DEF Worker
<1> QED BY <1>1, <1>2, <1>3

-----------------------------------------------------------------------------
(* The inductive invariant.                                                *)

Core ==
  /\ WorkerShape /\ HeldProcessing /\ SoleProcessor
  /\ SplitOff /\ Registered /\ OneGeneration /\ PartsOnFile /\ NothingOwed

IInv == TypeOK /\ Core

\* That facts are queued follows: the part that carries unqueued facts is not
\* processed, and when there is no such part its packet is not.
LEMMA QueuedFollows == IInv => FactsQueued
<1> SUFFICES ASSUME IInv, NEW f \in owed, f[1] \notin upset
             PROVE  \E d \in Docs :
                      /\ FactsOf(d) = f \/ d = f[1]
                      /\ status[d] \in {"pending", "processing", "failed"}
  BY DEF FactsQueued
<1>1. PICK e \in Docs : IsPrimary(e) /\ f = FactsOf(e) /\ status[f[1]] # "none"
  BY DEF IInv, Core, Registered
<1>2. /\ f[1] = Upload(e) /\ f[1] \in Docs /\ f[1] \in Roots
      /\ e \in Parts => f[1] = e.packet
      /\ e \notin Parts => f[1] = e
  BY <1>1, UploadShape
<1>3. \A d \in Docs : status[d] \in Status
  BY DEF IInv, TypeOK
<1>4. CASE e \in Parts
  <2>1. e.packet \in Packets /\ e.packet \notin upset /\ e.role \in Roles
    BY <1>2, <1>4, PartShape
  <2>2. CASE status[e.packet] = "processed"
    <3>1. PICK d \in PartsOf(e.packet) : d.role = e.role /\ status[d] # "none"
      BY <2>1, <2>2 DEF IInv, Core, PartsOnFile
    <3>2. d \in Parts /\ d.packet = e.packet
      BY <3>1 DEF PartsOf
    <3>3. FactsOf(d) = f /\ IsPrimary(d) /\ Upload(d) \notin upset
      BY <3>1, <3>2, <1>1, <1>4, <2>1 DEF FactsOf, Upload, IsPrimary
    <3>4. d \in Docs \ Packets
      BY <3>2, Documents
    <3>5. status[d] # "processed"
      BY <3>3, <3>4 DEF IInv, Core, NothingOwed
    <3> QED BY <3>1, <3>3, <3>4, <3>5, <1>3 DEF Status
  <2>3. CASE status[e.packet] # "processed"
    BY <2>3, <1>1, <1>2, <1>3, <1>4 DEF Status
  <2> QED BY <2>2, <2>3
<1>5. CASE e \notin Parts
  <2>1. e \notin Packets
    BY <1>1, <1>5, PrimaryAssumption DEF IsPrimary
  <2>2. status[e] # "processed"
    BY <1>1, <1>2, <1>5, <2>1 DEF IInv, Core, NothingOwed
  <2> QED BY <2>2, <1>1, <1>2, <1>3, <1>5 DEF Status
<1> QED BY <1>4, <1>5

LEMMA DocumentInit == Init => IInv
<1> SUFFICES ASSUME Init PROVE IInv
  OBVIOUS
<1>1. TypeOK
  <2>1. Idle \in Worker /\ OffSweep \in Sweep
    BY CalmShape DEF OffSweep, Sweep
  <2> QED BY <2>1, Documents DEF Init, TypeOK, Status
<1>2. \A w \in Workers : worker[w].pc = "idle" /\ worker[w].nested = FALSE
  BY CalmShape DEF Init
<1>3. \A d \in Docs : status[d] = "none"
  BY DEF Init
<1>4. owed = {}
  BY DEF Init
<1>5. WorkerShape /\ HeldProcessing /\ SoleProcessor /\ SplitOff
  BY <1>2, <1>3, Documents
     DEF WorkerShape, HeldProcessing, SoleProcessor, SplitOff, Processes, Working
<1>6. Registered /\ NothingOwed
  BY <1>2, <1>3, <1>4, Documents DEF Registered, NothingOwed
<1>7. OneGeneration /\ PartsOnFile
  BY <1>2, <1>3, Documents DEF OneGeneration, PartsOnFile, PartsOf
<1> QED BY <1>1, <1>5, <1>6, <1>7 DEF IInv, Core

-----------------------------------------------------------------------------
(* Steps that leave the rows and the debts alone.                          *)

RowsKept ==
  /\ UNCHANGED <<status, stale, splits, owed>>
  /\ upset \subseteq upset'

\* Every worker stays where it is or is calm.
Resting ==
  /\ RowsKept
  /\ \A v \in Workers :
       \/ worker'[v].pc \in {"idle", "pull"} /\ worker'[v].nested = FALSE
       \/ /\ worker'[v].pc = worker[v].pc
          /\ worker'[v].doc = worker[v].doc
          /\ worker'[v].nested = worker[v].nested

LEMMA RestingKeeps ==
  ASSUME Core, Resting
  PROVE  Core'
<1>1. \A v \in Workers :
        worker'[v].pc \notin {"idle", "pull"} =>
          /\ worker'[v].pc = worker[v].pc
          /\ worker'[v].doc = worker[v].doc
          /\ worker'[v].nested = worker[v].nested
  BY DEF Resting
<1>2. \A v \in Workers, d \in Docs : Processes(v, d)' => Processes(v, d)
  BY <1>1 DEF Processes, Working
<1>3. WorkerShape'
  BY <1>1 DEF Resting, Core, WorkerShape, Working, IsPrimary
<1>4. HeldProcessing' /\ SoleProcessor'
  BY <1>2 DEF Resting, RowsKept, Core, HeldProcessing, SoleProcessor
<1>5. SplitOff'
  BY <1>2, Documents DEF Resting, RowsKept, Core, SplitOff
<1>6. Registered'
  BY <1>1 DEF Resting, RowsKept, Core, Registered, Upload
<1>7. OneGeneration'
  BY <1>1 DEF Resting, RowsKept, Core, OneGeneration
<1>8. PartsOnFile'
  BY <1>1 DEF Resting, RowsKept, Core, PartsOnFile
<1>9. NothingOwed'
  BY <1>1 DEF Resting, RowsKept, Core, NothingOwed
<1> QED BY <1>3, <1>4, <1>5, <1>6, <1>7, <1>8, <1>9 DEF Core

\* Worker w goes to a step at which nothing is claimed of the rows: to the
\* extraction's answer, or to its catch block.
Stepping(w, pc) ==
  /\ RowsKept
  /\ Others(w)
  /\ worker'[w].pc = pc
  /\ worker'[w].doc = worker[w].doc
  /\ worker'[w].nested = worker[w].nested
  /\ \/ worker[w].pc \in Working
     \/ worker[w].pc \in {"followUp", "parts"} /\ worker[w].doc \in upset'
  /\ worker[w].doc \in Docs
  /\ \/ pc = "fail"
     \/ pc \in {"check", "delete"} /\ worker[w].doc \in Packets
     \/ pc = "link" /\ worker[w].doc \notin Packets

LEMMA SteppingKeeps ==
  ASSUME Core, NEW w \in Workers, NEW pc, Stepping(w, pc)
  PROVE  Core'
<1>1. \A v \in Workers \ {w} : worker'[v] = worker[v]
  BY DEF Stepping, Others
<1>2. /\ pc \in Working \ {"insert", "persist", "queue"}
      /\ worker'[w].pc = pc
      /\ worker'[w].doc = worker[w].doc
      /\ worker'[w].nested = worker[w].nested
  BY DEF Stepping, Working
<1>3. \A v \in Workers, d \in Docs :
        Processes(v, d)' => Processes(v, d) \/ d \in upset'
  BY <1>1, <1>2 DEF Processes, Stepping
<1>4. WorkerShape'
  BY <1>1, <1>2 DEF Stepping, Core, WorkerShape, Working, IsPrimary
<1>5. HeldProcessing' /\ SoleProcessor'
  BY <1>3 DEF Stepping, RowsKept, Core, HeldProcessing, SoleProcessor
<1>6. SplitOff'
  <2>1. \A v \in Workers, d \in Parts :
          Processes(v, d)' => Processes(v, d)
    BY <1>1, <1>2, Documents, QuotesAssumption DEF Processes, Stepping, Core, WorkerShape
  <2> QED BY <2>1, Documents DEF Stepping, RowsKept, Core, SplitOff
<1>7. Registered'
  BY <1>1, <1>2 DEF Working, Stepping, RowsKept, Core, Registered, Upload
<1>8. OneGeneration'
  BY <1>1, <1>2 DEF Stepping, RowsKept, Core, OneGeneration
<1>9. PartsOnFile'
  BY <1>1, <1>2 DEF Stepping, RowsKept, Core, PartsOnFile
<1>10. NothingOwed'
  BY <1>1, <1>2 DEF Stepping, RowsKept, Core, NothingOwed
<1> QED BY <1>4, <1>5, <1>6, <1>7, <1>8, <1>9, <1>10 DEF Core

-----------------------------------------------------------------------------
(* Steps that write a row.                                                 *)

LEMMA UploadOnFile ==
  ASSUME IInv, NEW d \in Docs, status[d] # "none"
  PROVE  status[Upload(d)] # "none"
BY UploadShape DEF IInv, Core, Registered

\* No upload disappears; who or what is new has its upload on file.
LEMMA RegisteredKeeps ==
  ASSUME IInv,
         \A d \in Roots : status[d] # "none" => status'[d] # "none",
         \A v \in Workers : worker'[v].pc \notin {"idle", "pull"} =>
           \/ worker[v].pc \notin {"idle", "pull"} /\ worker'[v].doc = worker[v].doc
           \/ status'[Upload(worker'[v].doc)] # "none",
         \A d \in Parts :
           status'[d] # "none" => status[d] # "none" \/ status'[d.packet] # "none",
         \A f \in owed' :
           f \in owed \/ \E d \in Docs : /\ IsPrimary(d) /\ f = FactsOf(d)
                                       /\ status'[Upload(d)] # "none"
  PROVE  Registered'
<1>1. \A v \in Workers : worker'[v].pc \notin {"idle", "pull"} =>
        status'[Upload(worker'[v].doc)] # "none"
  <2> SUFFICES ASSUME NEW v \in Workers, worker[v].pc \notin {"idle", "pull"}
               PROVE  status'[Upload(worker[v].doc)] # "none"
    OBVIOUS
  <2>1. status[Upload(worker[v].doc)] # "none" /\ worker[v].doc \in Docs
    BY Documents, QuotesAssumption
       DEF IInv, TypeOK, Worker, Core, Registered, WorkerShape, Working
  <2> QED BY <2>1, UploadShape
<1>2. \A d \in Parts : status'[d] # "none" => status'[d.packet] # "none"
  BY Documents, PartShape DEF IInv, Core, Registered
<1>3. \A f \in owed' :
        \E d \in Docs : IsPrimary(d) /\ f = FactsOf(d) /\ status'[f[1]] # "none"
  <2> SUFFICES ASSUME NEW f \in owed'
               PROVE  \E d \in Docs : IsPrimary(d) /\ f = FactsOf(d) /\ status'[f[1]] # "none"
    OBVIOUS
  <2>1. CASE f \in owed
    <3>1. PICK d \in Docs : IsPrimary(d) /\ f = FactsOf(d) /\ status[f[1]] # "none"
      BY <2>1 DEF IInv, Core, Registered
    <3> QED BY <3>1, UploadShape
  <2>2. CASE f \notin owed
    BY <2>2, UploadShape
  <2> QED BY <2>1, <2>2
<1> QED BY <1>1, <1>2, <1>3 DEF Registered, Upload, IsPrimary, FactsOf

\* Worker w claims a row that is on file and that nobody processes.
Claiming(w, d) ==
  /\ d \in Docs
  /\ status[d] # "none"
  /\ \A v \in Workers : Processes(v, d) => d \in upset
  /\ Claim(d)
  /\ UNCHANGED <<splits, owed, upset>>
  /\ Others(w)
  /\ worker'[w].pc = "extract"
  /\ worker'[w].doc = d
  /\ worker'[w].nested => d \in Parts

LEMMA Unclaimed ==
  ASSUME Core, NEW d \in Docs,
         Free(d) \/ (status[d] = "processing" /\ d \in stale)
  PROVE  status[d] # "none" /\ \A v \in Workers : Processes(v, d) => d \in upset
BY DEF Core, HeldProcessing, Free

LEMMA ClaimingKeeps ==
  ASSUME IInv, NEW w \in Workers, NEW d, Claiming(w, d)
  PROVE  Core'
<1>1. \A v \in Workers \ {w} : worker'[v] = worker[v]
  BY DEF Claiming, Others
<1>2. /\ d \in Docs /\ status[d] # "none"
      /\ worker'[w].pc = "extract" /\ worker'[w].doc = d
      /\ worker'[w].nested => d \in Parts
      /\ upset' = upset /\ owed' = owed /\ splits' = splits
  BY DEF Claiming
<1>3. /\ status'[d] = "processing" /\ d \notin stale'
      /\ \A e \in Docs \ {d} : status'[e] = status[e]
      /\ stale' \subseteq stale
  BY DEF Claiming, Claim, IInv, TypeOK
<1>4. \A v \in Workers, e \in Docs :
        Processes(v, e)' => (v = w /\ e = d) \/ (Processes(v, e) /\ v # w)
  BY <1>1, <1>2 DEF Processes
<1>5. WorkerShape'
  BY <1>1, <1>2 DEF IInv, Core, WorkerShape, Working, IsPrimary
<1>6. HeldProcessing'
  BY <1>1, <1>2, <1>3, <1>4 DEF IInv, Core, HeldProcessing, Claiming
<1>7. SoleProcessor'
  BY <1>2, <1>4 DEF IInv, Core, SoleProcessor, Claiming
<1>8. SplitOff'
  BY <1>2, <1>3, <1>4, Documents DEF IInv, Core, SplitOff
<1>9. Registered'
  <2>1. \A e \in Docs : status[e] # "none" => status'[e] # "none"
    BY <1>3
  <2>2. \A v \in Workers : worker'[v].pc \notin {"idle", "pull"} =>
          \/ worker[v].pc \notin {"idle", "pull"} /\ worker'[v].doc = worker[v].doc
          \/ status'[Upload(worker'[v].doc)] # "none"
    BY <1>1, <1>2, <2>1, UploadOnFile, UploadShape
  <2> QED BY <1>2, <1>3, <2>1, <2>2, RegisteredKeeps, Documents
<1>10. OneGeneration'
  BY <1>1, <1>2, <1>3, Documents DEF IInv, Core, OneGeneration, PartsOf
<1>11. PartsOnFile'
  BY <1>1, <1>2, <1>3, Documents DEF IInv, Core, PartsOnFile, PartsOf
<1>12. NothingOwed'
  BY <1>1, <1>2, <1>3 DEF IInv, Core, NothingOwed, IsPrimary, FactsOf, Upload
<1> QED BY <1>5, <1>6, <1>7, <1>8, <1>9, <1>10, <1>11, <1>12 DEF Core

\* Worker w, who processes its document, or has persisted it and thrown since,
\* writes an outcome and goes on to what follows it or is calm.
Ending(w, d, outcome) ==
  /\ worker[w].pc \in Working
  /\ worker[w].doc = d
  /\ Outcome(d, outcome)
  /\ UNCHANGED <<splits, owed, upset>>
  /\ Others(w)
  /\ worker'[w].nested = FALSE
  /\ \/ worker'[w].pc \in {"idle", "pull"}
     \/ /\ worker'[w].pc = "parts"
        /\ worker'[w].doc \in Packets
        /\ \/ worker'[w].doc = d
           \/ d \in Parts /\ worker'[w].doc = d.packet
     \/ worker'[w].pc = "followUp" /\ worker'[w].doc = d /\ d \in QuoteSheets
  /\ outcome \in {"processed", "failed"}
  /\ outcome = "processed" => worker[w].pc = "persist"

LEMMA EndingKeeps ==
  ASSUME IInv, NEW w \in Workers, NEW d, NEW outcome, Ending(w, d, outcome)
  PROVE  Core'
<1>1. \A v \in Workers \ {w} : worker'[v] = worker[v]
  BY DEF Ending, Others
<1>2. /\ d \in Docs
      /\ worker[w].pc \in Working /\ worker[w].doc = d
      /\ worker'[w].pc \in {"idle", "pull", "followUp", "parts"}
      /\ worker'[w].nested = FALSE
      /\ upset' = upset /\ owed' = owed /\ splits' = splits
  BY DEF Ending, IInv, Core, WorkerShape
<1>3. /\ status[d] = "none" => status'[d] = "none"
      /\ status[d] # "none" => status'[d] = outcome
      /\ outcome \in {"processed", "failed"}
      /\ outcome = "processed" => worker[w].pc = "persist"
      /\ \A e \in Docs \ {d} : status'[e] = status[e]
      /\ stale' \subseteq stale
  BY <1>2 DEF Ending, Outcome, IInv, TypeOK
<1>4. \A v \in Workers, e \in Docs :
        Processes(v, e)' => v # w /\ Processes(v, e)
  BY <1>1, <1>2 DEF Processes, Working
<1>5. \A v \in Workers : Processes(v, d)' => d \in upset
  BY <1>2, <1>4 DEF IInv, Core, SoleProcessor, Processes
<1>6. WorkerShape'
  BY <1>1, <1>2 DEF Ending, IInv, Core, WorkerShape, Working, IsPrimary
<1>7. HeldProcessing'
  BY <1>2, <1>3, <1>4, <1>5 DEF IInv, Core, HeldProcessing
<1>8. SoleProcessor'
  BY <1>2, <1>4 DEF IInv, Core, SoleProcessor
<1>9. SplitOff'
  BY <1>2, <1>3, <1>4, Documents DEF IInv, Core, SplitOff
<1>10. \A e \in Docs : status[e] # "none" <=> status'[e] # "none"
  BY <1>2, <1>3
<1>11. Registered'
  <2>1. status'[Upload(d)] # "none"
    BY <1>2, <1>10, UploadShape DEF IInv, Core, Registered, Working
  <2>2. \A v \in Workers : worker'[v].pc \notin {"idle", "pull"} =>
          \/ worker[v].pc \notin {"idle", "pull"} /\ worker'[v].doc = worker[v].doc
          \/ status'[Upload(worker'[v].doc)] # "none"
    <3>1. CASE worker'[w].pc \in {"followUp", "parts"}
      <4>1. Upload(worker'[w].doc) = Upload(d)
        BY <3>1, <1>2, Documents, PartShape, UploadShape DEF Ending
      <4> QED BY <4>1, <2>1, <1>1
    <3>2. CASE worker'[w].pc \notin {"followUp", "parts"}
      BY <3>2, <1>1, <1>2
    <3> QED BY <3>1, <3>2
  <2> QED BY <1>2, <1>10, <2>2, RegisteredKeeps, Documents
<1>12. OneGeneration'
  BY <1>1, <1>2, <1>10, Documents DEF IInv, Core, OneGeneration, PartsOf
<1>13. PartsOnFile'
  <2> SUFFICES ASSUME NEW p \in Packets \ upset, NEW r \in Roles,
                      \/ status'[p] = "processed"
                      \/ \E v \in Workers : worker'[v].pc \in {"link", "persist"} /\ worker'[v].doc = p
               PROVE  \E e \in PartsOf(p) : e.role = r /\ status'[e] # "none"
    BY <1>2 DEF PartsOnFile, PartsOf
  <2>1. \/ status[p] = "processed"
        \/ \E v \in Workers : worker[v].pc \in {"link", "persist"} /\ worker[v].doc = p
    BY <1>1, <1>2, <1>3, Documents
  <2>2. PICK e \in PartsOf(p) : e.role = r /\ status[e] # "none"
    BY <2>1 DEF IInv, Core, PartsOnFile
  <2> QED BY <2>2, <1>10, Documents DEF PartsOf
<1>14. NothingOwed'
  <2> SUFFICES ASSUME NEW e \in Docs \ Packets, IsPrimary(e), Upload(e) \notin upset,
                      \/ status'[e] = "processed"
                      \/ /\ status'[e] # "none"
                         /\ \E v \in Workers : worker'[v].pc = "persist" /\ worker'[v].doc = e
               PROVE  FactsOf(e) \notin owed
    BY <1>2 DEF NothingOwed, IsPrimary, FactsOf, Upload
  <2>1. \/ status[e] = "processed"
        \/ /\ status[e] # "none"
           /\ \E v \in Workers : worker[v].pc = "persist" /\ worker[v].doc = e
    BY <1>1, <1>2, <1>3
  <2> QED BY <2>1 DEF IInv, Core, NothingOwed
<1> QED BY <1>6, <1>7, <1>8, <1>9, <1>11, <1>12, <1>13, <1>14 DEF Core

LEMMA RegisterKeeps ==
  ASSUME IInv, NEW d \in Roots, Register(d)
  PROVE  Core'
<1>1. /\ d \in Docs /\ d \notin Parts
      /\ UNCHANGED <<stale, worker, splits, owed, upset>>
      /\ status[d] = "none" /\ status'[d] = "pending"
      /\ \A e \in Docs \ {d} : status'[e] = status[e]
  BY Documents, PartsAssumption DEF Register, IInv, TypeOK
<1>2. \A v \in Workers, e \in Docs : Processes(v, e)' <=> Processes(v, e)
  BY <1>1 DEF Processes
<1>3. WorkerShape'
  BY <1>1 DEF IInv, Core, WorkerShape, IsPrimary
<1>4. HeldProcessing' /\ SoleProcessor'
  BY <1>1, <1>2 DEF IInv, Core, HeldProcessing, SoleProcessor
<1>5. SplitOff'
  BY <1>1, <1>2, Documents DEF IInv, Core, SplitOff
<1>6. Registered'
  BY <1>1, RegisteredKeeps, Documents
<1>7. OneGeneration'
  BY <1>1, Documents DEF IInv, Core, OneGeneration, PartsOf
<1>8. PartsOnFile'
  BY <1>1, Documents DEF IInv, Core, PartsOnFile, PartsOf
<1>9. NothingOwed'
  <2>1. \A v \in Workers : worker[v].pc = "persist" => worker[v].doc # d
    BY <1>1, UploadShape DEF IInv, Core, Registered
  <2> QED BY <1>1, <2>1 DEF IInv, Core, NothingOwed, IsPrimary, FactsOf, Upload
<1> QED BY <1>3, <1>4, <1>5, <1>6, <1>7, <1>8, <1>9 DEF Core

LEMMA AgeKeeps ==
  ASSUME IInv, NEW d \in Docs, Age(d)
  PROVE  Core'
<1>1. /\ UNCHANGED <<status, worker, splits, owed, upset>>
      /\ stale' = stale \cup {d}
      /\ \A v \in Workers : ~Processes(v, d)
  BY DEF Age, Processes, Working
<1>2. \A v \in Workers, e \in Docs : Processes(v, e)' <=> Processes(v, e)
  BY <1>1 DEF Processes
<1>3. HeldProcessing'
  BY <1>1, <1>2 DEF IInv, Core, HeldProcessing
<1>4. WorkerShape' /\ SoleProcessor' /\ SplitOff'
  BY <1>1, <1>2, Documents
     DEF IInv, Core, WorkerShape, SoleProcessor, SplitOff, IsPrimary
<1>5. Registered'
  BY <1>1, RegisteredKeeps, Documents
<1>6. OneGeneration' /\ PartsOnFile' /\ NothingOwed'
  BY <1>1 DEF IInv, Core, OneGeneration, PartsOnFile, NothingOwed, PartsOf,
     IsPrimary, FactsOf, Upload
<1> QED BY <1>3, <1>4, <1>5, <1>6 DEF Core

\* Nobody but w works on the packet w is at, unless it is upset.
LEMMA AlonePacket ==
  ASSUME IInv, NEW w \in Workers, worker[w].pc \in Working, worker[w].doc \notin upset
  PROVE  /\ \A v \in Workers \ {w} :
              worker[v].pc \in Working => worker[v].doc # worker[w].doc
         /\ worker[w].doc \in Packets => status[worker[w].doc] = "processing"
<1>1. worker[w].doc \in Docs /\ Processes(w, worker[w].doc)
  BY DEF IInv, Core, WorkerShape, Processes
<1> QED
  BY <1>1, Documents DEF IInv, Core, SoleProcessor, HeldProcessing, Processes

LEMMA DeleteKeeps ==
  ASSUME IInv, NEW w \in Workers, DeleteParts(w)
  PROVE  Core'
<1>1. PICK p \in Packets : p = worker[w].doc
  BY DEF DeleteParts, IInv, Core, WorkerShape
<1>2. /\ worker[w].pc = "delete"
      /\ UNCHANGED <<splits, owed, upset>>
      /\ stale' \subseteq stale
      /\ \A d \in Docs : status'[d] = IF d \in PartsOf(p) THEN "none" ELSE status[d]
      /\ \A d \in Docs : d \in PartsOf(p) => d \in Parts /\ d.packet = p
  BY <1>1 DEF DeleteParts, PartsOf
<1>3. /\ \A v \in Workers \ {w} : worker'[v] = worker[v]
      /\ worker'[w].pc = "insert" /\ worker'[w].doc = p
      /\ worker'[w].nested = worker[w].nested
  BY <1>1, GotoShape DEF DeleteParts, IInv, TypeOK, Others, Working
<1>4. \A v \in Workers, d \in Docs : Processes(v, d)' <=> Processes(v, d)
  BY <1>1, <1>2, <1>3 DEF Processes, Working
<1>5. WorkerShape'
  BY <1>1, <1>2, <1>3, Documents DEF IInv, Core, WorkerShape, Working, IsPrimary
<1>6. HeldProcessing' /\ SoleProcessor'
  BY <1>2, <1>4 DEF IInv, Core, HeldProcessing, SoleProcessor
<1>7. SplitOff'
  BY <1>2, <1>4, Documents DEF IInv, Core, SplitOff
<1>8. Registered'
  <2>1. \A d \in Roots : status'[d] = status[d]
    BY <1>2, Documents, PartsAssumption
  <2>2. status'[Upload(p)] # "none"
    BY <1>1, <1>2, <2>1, Documents, UploadShape DEF IInv, Core, Registered
  <2> QED BY <1>2, <1>3, <2>1, <2>2, RegisteredKeeps, Documents
<1>9. OneGeneration'
  <2>1. p \notin upset => \A v \in Workers \ {w} : worker[v].pc = "insert" => worker[v].doc # p
    BY <1>1, <1>2, AlonePacket DEF Working
  <2>2. \A d \in Parts : status'[d] # "none" => status[d] # "none"
    BY <1>2, Documents
  <2>3. \A q \in Packets \ upset :
          \A d \in PartsOf(q) : status'[d] # "none" => d.nth = splits[q]
    BY <2>2 DEF IInv, Core, OneGeneration, PartsOf
  <2>4. \A q \in Packets \ upset, v \in Workers :
          worker'[v].pc = "insert" /\ worker'[v].doc = q =>
            \A d \in PartsOf(q) : status'[d] = "none"
    BY <1>2, <1>3, <2>1, <2>2, Documents DEF IInv, Core, OneGeneration, PartsOf
  <2> QED BY <1>2, <2>3, <2>4 DEF OneGeneration, PartsOf
<1>10. PartsOnFile'
  <2>1. p \in upset \/ /\ status[p] # "processed"
                       /\ \A v \in Workers : worker[v].pc \in {"link", "persist"} =>
                            worker[v].doc # p
    BY <1>1, <1>2, AlonePacket DEF Working
  <2>2. p \notin Parts /\ \A q \in Packets : status'[q] = status[q]
    BY <1>2, Documents
  <2>3. \A q \in Packets \ {p} : \A d \in PartsOf(q) : status'[d] = status[d]
    BY <1>2, Documents DEF PartsOf
  <2> QED BY <1>2, <1>3, <2>1, <2>2, <2>3 DEF IInv, Core, PartsOnFile, PartsOf
<1>11. NothingOwed'
  BY <1>2, <1>3, Documents DEF IInv, Core, NothingOwed, IsPrimary, FactsOf, Upload
<1> QED BY <1>5, <1>6, <1>7, <1>8, <1>9, <1>10, <1>11 DEF Core

LEMMA InsertKeeps ==
  ASSUME IInv, NEW w \in Workers, InsertParts(w)
  PROVE  Core'
<1>1. PICK p \in Packets : p = worker[w].doc
  BY DEF InsertParts, IInv, Core, WorkerShape
<1> DEFINE n == splits[p] + 1
           new == {d \in PartsOf(p) : d.nth = n}
<1>2. /\ worker[w].pc = "insert"
      /\ splits' = [splits EXCEPT ![p] = n]
      /\ status' = [d \in Docs |-> IF d \in new THEN "pending" ELSE status[d]]
      /\ worker' = [worker EXCEPT ![w].pc = "link", ![w].parts = new]
      /\ splits[p] < MaxSplits
      /\ UNCHANGED <<stale, owed, upset>>
  BY <1>1 DEF InsertParts
<1>3. splits[p] \in 0..MaxSplits /\ n \in 1..MaxSplits /\ n = splits[p] + 1
  BY <1>2, BoundsAssumption DEF IInv, TypeOK
<1>4. /\ splits'[p] = n
      /\ \A q \in Packets \ {p} : splits'[q] = splits[q]
      /\ \A q \in Packets : splits[q] \in Nat
  BY <1>2, BoundsAssumption DEF IInv, TypeOK
<1>5. /\ \A v \in Workers \ {w} : worker'[v] = worker[v]
      /\ worker'[w].pc = "link" /\ worker'[w].doc = p
      /\ worker'[w].nested = worker[w].nested
  BY <1>1, <1>2 DEF IInv, TypeOK, Worker
<1>6. \A d \in Docs : d \in new <=> d \in Parts /\ d.packet = p /\ d.nth = n
  BY DEF PartsOf
<1>7. \A d \in Docs : status'[d] = IF d \in new THEN "pending" ELSE status[d]
  BY <1>2
<1> HIDE DEF n, new
<1>8. \A d \in Docs : d \in new => status[d] = "none"
  BY <1>3, <1>4, <1>6 DEF IInv, Core, SplitOff
<1>9. \A v \in Workers, d \in Docs : Processes(v, d)' <=> Processes(v, d)
  BY <1>1, <1>2, <1>5 DEF Processes, Working
<1>10. \A v \in Workers, d \in new : ~Processes(v, d)
  BY <1>3, <1>6 DEF IInv, Core, SplitOff, Processes, WorkerShape
<1>11. \A d \in Docs : status[d] # "none" => status'[d] = status[d]
  BY <1>7, <1>8
<1>12. WorkerShape'
  BY <1>1, <1>2, <1>5, Documents DEF IInv, Core, WorkerShape, Working, IsPrimary
<1>13. HeldProcessing' /\ SoleProcessor'
  BY <1>2, <1>7, <1>9, <1>10 DEF IInv, Core, HeldProcessing, SoleProcessor
<1>14. SplitOff'
  <2>1. \A d \in Parts : d.nth \in Nat /\ d.packet \in Packets /\ d \in Docs
    BY PartShape, Documents
  <2>2. \A q \in Packets : splits[q] <= splits'[q]
    BY <1>3, <1>4
  <2>3. \A d \in Parts : d.nth <= splits[d.packet] => d.nth <= splits'[d.packet]
    BY <2>1, <2>2, <1>3, <1>4
  <2>4. \A d \in Parts : status'[d] # "none" => d.nth <= splits'[d.packet]
    BY <1>3, <1>4, <1>6, <1>7, <2>1, <2>3 DEF IInv, Core, SplitOff
  <2> QED BY <1>9, <2>1, <2>3, <2>4 DEF IInv, Core, SplitOff
<1>15. Registered'
  <2>1. status'[p] # "none"
    BY <1>1, <1>2, <1>11, Documents, UploadShape DEF IInv, Core, Registered
  <2>2. \A d \in Parts :
          status'[d] # "none" => status[d] # "none" \/ status'[d.packet] # "none"
    BY <1>6, <1>7, <2>1, Documents
  <2>3. \A v \in Workers : worker'[v].pc \notin {"idle", "pull"} =>
          /\ worker[v].pc \notin {"idle", "pull"}
          /\ worker'[v].doc = worker[v].doc
    BY <1>1, <1>2, <1>5
  <2> QED BY <1>2, <1>11, <2>2, <2>3, RegisteredKeeps, Documents
<1>16. OneGeneration'
  <2> SUFFICES ASSUME NEW q \in Packets \ upset
               PROVE  /\ \A d \in PartsOf(q) : status'[d] # "none" => d.nth = splits'[q]
                      /\ \A v \in Workers : worker'[v].pc = "insert" /\ worker'[v].doc = q =>
                           \A d \in PartsOf(q) : status'[d] = "none"
    BY <1>2 DEF OneGeneration, PartsOf
  <2>1. \A d \in PartsOf(q) : d \in Parts /\ d \in Docs /\ d.packet = q
    BY Documents DEF PartsOf
  <2>2. CASE q = p
    <3>1. \A d \in PartsOf(p) : status[d] = "none"
      BY <1>1, <1>2, <2>2 DEF IInv, Core, OneGeneration
    <3>2. \A v \in Workers \ {w} : worker[v].pc = "insert" => worker[v].doc # p
      BY <1>1, <1>2, <2>2, AlonePacket DEF Working
    <3> QED BY <1>4, <1>5, <1>6, <1>7, <2>1, <2>2, <3>1, <3>2
  <2>3. CASE q # p
    <3>1. \A d \in PartsOf(q) : status'[d] = status[d]
      BY <1>6, <1>7, <2>1, <2>3
    <3> QED BY <1>1, <1>4, <1>5, <2>3, <3>1 DEF IInv, Core, OneGeneration
  <2> QED BY <2>2, <2>3
<1>17. PartsOnFile'
  <2> SUFFICES ASSUME NEW q \in Packets \ upset, NEW r \in Roles,
                      \/ status'[q] = "processed"
                      \/ \E v \in Workers : worker'[v].pc \in {"link", "persist"} /\ worker'[v].doc = q
               PROVE  \E d \in PartsOf(q) : d.role = r /\ status'[d] # "none"
    BY <1>2 DEF PartsOnFile, PartsOf
  <2>1. CASE q = p
    <3> DEFINE d == [packet |-> p, role |-> r, nth |-> n]
    <3>1. d \in Parts /\ d.packet = p /\ d.role = r /\ d.nth = n
      BY <1>3 DEF Parts
    <3> HIDE DEF d
    <3>2. d \in Docs /\ d \in new /\ d \in PartsOf(p)
      BY <3>1, <1>6, Documents DEF PartsOf
    <3>3. status'[d] = "pending"
      BY <3>2, <1>7
    <3> QED BY <3>1, <3>2, <3>3, <2>1
  <2>2. CASE q # p
    <3>1. status'[q] = status[q]
      BY <1>6, <1>7, Documents
    <3>2. \/ status[q] = "processed"
          \/ \E v \in Workers : worker[v].pc \in {"link", "persist"} /\ worker[v].doc = q
      BY <1>5, <2>2, <3>1
    <3>3. PICK d \in PartsOf(q) : d.role = r /\ status[d] # "none"
      BY <3>2 DEF IInv, Core, PartsOnFile
    <3> QED BY <3>3, <1>11, Documents DEF PartsOf
  <2> QED BY <2>1, <2>2
<1>18. NothingOwed'
  <2>1. \A d \in Docs : status'[d] = "processed" => status[d] = "processed"
    BY <1>7
  <2>2. \A d \in Docs, v \in Workers :
          worker'[v].pc = "persist" /\ worker'[v].doc = d /\ status'[d] # "none" =>
            worker[v].pc = "persist" /\ worker[v].doc = d /\ status[d] # "none"
    BY <1>5, <1>7, <1>10 DEF Processes, Working
  <2> QED BY <1>2, <2>1, <2>2 DEF IInv, Core, NothingOwed, IsPrimary, FactsOf, Upload
<1> QED BY <1>12, <1>13, <1>14, <1>15, <1>16, <1>17, <1>18 DEF Core

-----------------------------------------------------------------------------
(* Steps that incur or settle a debt.                                      *)

\* Worker w goes on with its document and the rows stay.
Advancing(w, d, pc) ==
  /\ UNCHANGED <<status, stale, splits, upset>>
  /\ worker[w].pc \in Working /\ worker[w].doc = d
  /\ Others(w)
  /\ worker'[w].pc = pc
  /\ worker'[w].doc = d
  /\ worker'[w].nested = worker[w].nested

LEMMA AdvancingKeeps ==
  ASSUME IInv, NEW w \in Workers, NEW d, NEW pc \in {"queue", "persist"},
         Advancing(w, d, pc),
         pc = "queue" => IsPrimary(d)
  PROVE  /\ WorkerShape' /\ HeldProcessing' /\ SoleProcessor' /\ SplitOff'
         /\ OneGeneration'
<1>1. \A v \in Workers \ {w} : worker'[v] = worker[v]
  BY DEF Advancing, Others
<1>2. \A v \in Workers, e \in Docs : Processes(v, e)' <=> Processes(v, e)
  BY <1>1 DEF Processes, Advancing, Working
<1>3. WorkerShape'
  BY <1>1 DEF Advancing, IInv, Core, WorkerShape, Working, IsPrimary
<1>4. HeldProcessing' /\ SoleProcessor'
  BY <1>2 DEF Advancing, IInv, Core, HeldProcessing, SoleProcessor
<1>5. SplitOff'
  BY <1>2, Documents DEF Advancing, IInv, Core, SplitOff
<1>6. OneGeneration'
  BY <1>1 DEF Advancing, IInv, Core, OneGeneration, PartsOf
<1> QED BY <1>3, <1>4, <1>5, <1>6

\* The facts of another document that is on file are other facts.
LEMMA OtherFacts ==
  ASSUME IInv, NEW d \in Docs, NEW e \in Docs, d # e,
         status[d] # "none", status[e] # "none", Upload(e) \notin upset
  PROVE  FactsOf(d) # FactsOf(e)
<1> SUFFICES ASSUME FactsOf(d) = FactsOf(e) PROVE FALSE
  OBVIOUS
<1>1. d \in Parts /\ e \in Parts /\ d.packet = e.packet /\ d.role = e.role
  BY SameFacts
<1>2. e.packet \in Packets \ upset
  BY <1>1, PartShape, UploadShape
<1>3. d \in PartsOf(e.packet) /\ e \in PartsOf(e.packet)
  BY <1>1 DEF PartsOf
<1>4. d.nth = e.nth
  BY <1>2, <1>3 DEF IInv, Core, OneGeneration
<1> QED BY <1>1, <1>4, SamePart

LEMMA LinkKeeps ==
  ASSUME IInv, NEW w \in Workers, Link(w)
  PROVE  Core'
<1>1. PICK d \in Docs : d = worker[w].doc
  BY DEF Link, IInv, Core, WorkerShape, Working
<1>2. /\ worker[w].pc = "link" /\ worker[w].pc \in Working
      /\ UNCHANGED <<status, stale, splits, upset>>
      /\ worker \in [Workers -> Worker]
  BY DEF Link, rows, IInv, TypeOK, Working
<1>3. CASE status[d] = "none"
  <2>1. Goto(w, "fail") /\ owed' = owed
    BY <1>1, <1>3 DEF Link
  <2>2. Stepping(w, "fail")
    BY <2>1, <1>1, <1>2, GotoShape DEF Stepping, RowsKept, Working
  <2> QED BY <2>2, SteppingKeeps DEF IInv
<1>4. CASE status[d] # "none" /\ IsPrimary(d)
  <2>1. Goto(w, "queue") /\ owed' = owed \cup {FactsOf(d)}
    BY <1>1, <1>4 DEF Link
  <2>2. Advancing(w, d, "queue")
    BY <2>1, <1>1, <1>2, GotoShape DEF Advancing, Working
  <2>3. \A v \in Workers \ {w} : worker'[v] = worker[v]
    BY <2>2 DEF Advancing, Others
  <2>4. Registered'
    <3>1. \A v \in Workers : worker'[v].pc \notin {"idle", "pull"} =>
            worker[v].pc \notin {"idle", "pull"} /\ worker'[v].doc = worker[v].doc
      BY <1>1, <1>2, <2>2, <2>3 DEF Advancing
    <3>2. status'[Upload(d)] # "none"
      BY <1>2, <1>4, UploadOnFile
    <3> QED BY <1>2, <1>4, <2>1, <3>1, <3>2, RegisteredKeeps
  <2>5. PartsOnFile'
    BY <1>2, <2>2, <2>3 DEF Advancing, IInv, Core, PartsOnFile, PartsOf
  <2>6. NothingOwed'
    <3> SUFFICES ASSUME NEW e \in Docs \ Packets, IsPrimary(e), Upload(e) \notin upset,
                        \/ status[e] = "processed"
                        \/ /\ status[e] # "none"
                           /\ \E v \in Workers : worker'[v].pc = "persist" /\ worker'[v].doc = e
                 PROVE  FactsOf(e) \notin owed \cup {FactsOf(d)}
      BY <1>2, <2>1 DEF NothingOwed, IsPrimary, FactsOf, Upload
    <3>1. \/ status[e] = "processed"
          \/ \E v \in Workers \ {w} : worker[v].pc = "persist" /\ worker[v].doc = e
      BY <2>2, <2>3 DEF Advancing
    <3>2. FactsOf(e) \notin owed
      BY <3>1 DEF IInv, Core, NothingOwed
    <3>3. e # d
      <4> SUFFICES ASSUME e = d PROVE FALSE
        OBVIOUS
      <4>1. d \notin upset
        <5>1. CASE d \in Parts
          BY <5>1, PartsAssumption DEF IInv, TypeOK
        <5>2. CASE d \notin Parts
          BY <5>2, UploadShape
        <5> QED BY <5>1, <5>2
      <4>2. status[d] # "processed"
        BY <1>1, <1>2, <4>1 DEF IInv, Core, HeldProcessing, Processes
      <4>3. \A v \in Workers \ {w} : worker[v].pc \in Working => worker[v].doc # d
        BY <1>1, <1>2, <4>1, AlonePacket
      <4> QED BY <3>1, <4>2, <4>3 DEF Working
    <3> QED BY <3>2, <3>3, <1>4, OtherFacts
  <2> QED BY <1>4, <2>2, <2>4, <2>5, <2>6, AdvancingKeeps DEF Core
<1>5. CASE status[d] # "none" /\ ~IsPrimary(d)
  <2>1. Goto(w, "persist") /\ owed' = owed
    BY <1>1, <1>5 DEF Link
  <2>2. Advancing(w, d, "persist")
    BY <2>1, <1>1, <1>2, GotoShape DEF Advancing, Working
  <2>3. \A v \in Workers \ {w} : worker'[v] = worker[v]
    BY <2>2 DEF Advancing, Others
  <2>4. Registered'
    <3>1. \A v \in Workers : worker'[v].pc \notin {"idle", "pull"} =>
            worker[v].pc \notin {"idle", "pull"} /\ worker'[v].doc = worker[v].doc
      BY <1>1, <1>2, <2>2, <2>3 DEF Advancing
    <3> QED BY <1>2, <2>1, <3>1, RegisteredKeeps
  <2>5. PartsOnFile'
    BY <1>1, <1>2, <2>2, <2>3 DEF Advancing, IInv, Core, PartsOnFile, PartsOf
  <2>6. NothingOwed'
    BY <1>1, <1>2, <1>5, <2>1, <2>2, <2>3
       DEF Advancing, IInv, Core, NothingOwed, IsPrimary, FactsOf, Upload
  <2> QED BY <2>2, <2>4, <2>5, <2>6, AdvancingKeeps DEF Core
<1> QED BY <1>3, <1>4, <1>5

LEMMA QueueKeeps ==
  ASSUME IInv, NEW w \in Workers, Queue(w)
  PROVE  Core'
<1>1. PICK d \in Docs : d = worker[w].doc
  BY DEF Queue, IInv, Core, WorkerShape, Working
<1>2. /\ worker[w].pc = "queue" /\ worker[w].pc \in Working
      /\ UNCHANGED <<status, stale, splits, upset>>
      /\ worker \in [Workers -> Worker]
      /\ IsPrimary(d) /\ d \notin Packets
      /\ owed' \subseteq owed
      /\ status[d] # "none" => FactsOf(d) \notin owed'
      /\ Goto(w, "persist")
  BY <1>1, PrimaryAssumption, Documents
     DEF Queue, rows, IInv, TypeOK, Working, Core, WorkerShape, IsPrimary
<1>3. Advancing(w, d, "persist")
  BY <1>1, <1>2, GotoShape DEF Advancing, Working
<1>4. \A v \in Workers \ {w} : worker'[v] = worker[v]
  BY <1>3 DEF Advancing, Others
<1>5. Registered'
  <2>1. \A v \in Workers : worker'[v].pc \notin {"idle", "pull"} =>
          worker[v].pc \notin {"idle", "pull"} /\ worker'[v].doc = worker[v].doc
    BY <1>1, <1>2, <1>3, <1>4 DEF Advancing
  <2> QED BY <1>2, <2>1, RegisteredKeeps
<1>6. PartsOnFile'
  BY <1>1, <1>2, <1>3, <1>4 DEF Advancing, IInv, Core, PartsOnFile, PartsOf
<1>7. NothingOwed'
  BY <1>1, <1>2, <1>3, <1>4
     DEF Advancing, IInv, Core, NothingOwed, IsPrimary, FactsOf, Upload
<1> QED BY <1>3, <1>5, <1>6, <1>7, AdvancingKeeps DEF Core

-----------------------------------------------------------------------------
(* Types.                                                                  *)

RowTypes ==
  /\ status' \in [Docs -> Status]
  /\ stale' \in SUBSET Docs
  /\ splits' \in [Packets -> 0..MaxSplits]

LEMMA TypesKept ==
  ASSUME TypeOK, RowTypes,
         worker' \in [Workers -> Worker], sweep' \in [Sweeps -> Sweep],
         owed' \in SUBSET Facts, upset' \in SUBSET Roots,
         requests' \in Nat, faults' \in Nat
  PROVE  TypeOK'
BY DEF TypeOK, RowTypes

LEMMA RowsUnchanged == ASSUME TypeOK, UNCHANGED rows PROVE RowTypes
BY DEF TypeOK, rows, RowTypes

LEMMA ClaimTypes ==
  ASSUME TypeOK, NEW d \in Docs, Claim(d), UNCHANGED splits
  PROVE  RowTypes
BY DEF TypeOK, Claim, RowTypes, Status

LEMMA OutcomeTypes ==
  ASSUME TypeOK, NEW d \in Docs, NEW outcome \in {"processed", "failed"},
         Outcome(d, outcome), UNCHANGED splits
  PROVE  RowTypes
<1>1. status' \in [Docs -> Status]
  BY DEF TypeOK, Outcome, Status
<1> QED BY <1>1 DEF TypeOK, Outcome, RowTypes

\* A worker starts on a document it has claimed.
LEMMA StartShape ==
  ASSUME worker \in [Workers -> Worker], NEW w \in Workers, NEW d \in Docs,
         worker' = [worker EXCEPT ![w] = At("extract", d)]
  PROVE  /\ worker' \in [Workers -> Worker]
         /\ Others(w)
         /\ worker'[w].pc = "extract" /\ worker'[w].doc = d
         /\ worker'[w].nested = FALSE
<1> DEFINE x == At("extract", d)
<1>1. x \in Worker /\ x.pc = "extract" /\ x.doc = d /\ x.nested = FALSE
  BY DEF At, Worker, Working
<1>2. worker' = [worker EXCEPT ![w] = x]
  OBVIOUS
<1> HIDE DEF x
<1> QED BY <1>1, <1>2 DEF Others

\* The slots of a sweep all start, stop or die.
LEMMA SlotsShape ==
  ASSUME worker \in [Workers -> Worker], NEW s, NEW x \in {Idle, Pull},
         worker' = [w \in Workers |-> IF w \in {s} \X Slots THEN x ELSE worker[w]]
  PROVE  /\ worker' \in [Workers -> Worker]
         /\ \A v \in Workers :
              \/ worker'[v].pc \in {"idle", "pull"} /\ worker'[v].nested = FALSE
              \/ worker'[v] = worker[v]
BY CalmShape

-----------------------------------------------------------------------------
(* The actions.                                                            *)

LEMMA RegisterStep ==
  ASSUME IInv, NEW d \in Roots, Register(d) PROVE IInv'
<1>1. status' \in [Docs -> Status]
  BY Documents DEF Register, IInv, TypeOK, Status
<1>2. TypeOK'
  BY <1>1 DEF Register, IInv, TypeOK
<1> QED BY <1>2, RegisterKeeps DEF IInv

LEMMA RequestStep ==
  ASSUME IInv, NEW q \in Requests, NEW d \in Docs, Request(q, d) PROVE IInv'
<1>1. q \in Workers /\ TypeOK /\ Core
  BY DEF Workers, IInv
<1>2. /\ worker' \in [Workers -> Worker] /\ Others(q)
      /\ worker'[q].pc = "extract" /\ worker'[q].doc = d
      /\ worker'[q].nested = FALSE
  BY <1>1, StartShape DEF Request, TypeOK
<1>3. Claiming(q, d)
  BY <1>1, <1>2, Unclaimed DEF Request, Claiming
<1>4. RowTypes
  BY <1>1, ClaimTypes DEF Request
<1>5. TypeOK'
  BY <1>1, <1>2, <1>4, TypesKept DEF Request, TypeOK
<1> QED BY <1>1, <1>3, <1>5, ClaimingKeeps DEF IInv

LEMMA TakeStep ==
  ASSUME IInv, NEW s \in Sweeps, NEW k \in Slots, NEW d \in Docs, TakeListed(s, k, d)
  PROVE  IInv'
<1>1. <<s, k>> \in Workers /\ TypeOK /\ Core
  BY DEF Workers, IInv
<1>2. /\ worker' \in [Workers -> Worker] /\ Others(<<s, k>>)
      /\ worker'[<<s, k>>].pc = "extract" /\ worker'[<<s, k>>].doc = d
      /\ worker'[<<s, k>>].nested = FALSE
  BY <1>1, StartShape DEF TakeListed, TypeOK
<1>3. Claiming(<<s, k>>, d)
  BY <1>1, <1>2, Unclaimed DEF TakeListed, Claiming, SweptFor, Free
<1>4. RowTypes
  BY <1>1, ClaimTypes DEF TakeListed
<1>5. sweep' \in [Sweeps -> Sweep]
  BY <1>1 DEF TakeListed, TypeOK, Sweep
<1>6. TypeOK'
  BY <1>1, <1>2, <1>4, <1>5, TypesKept DEF TakeListed, TypeOK
<1> QED BY <1>1, <1>3, <1>6, ClaimingKeeps DEF IInv

\* A sweep, or all of its slots, starts, stops or dies; a slot skips a row.
LEMMA SweepRests ==
  ASSUME IInv, NEW s \in Sweeps,
         \/ List(s) \/ EndSweep(s) \/ CrashSweep(s)
         \/ \E k \in Slots, d \in Docs : SkipListed(s, k, d)
  PROVE  IInv'
<1>1. TypeOK /\ Core /\ worker \in [Workers -> Worker]
  BY DEF IInv, TypeOK
<1>2. UNCHANGED rows /\ UNCHANGED <<owed, upset, requests>>
  BY DEF List, EndSweep, CrashSweep, SkipListed
<1>3. /\ worker' \in [Workers -> Worker]
      /\ \A v \in Workers :
           \/ worker'[v].pc \in {"idle", "pull"} /\ worker'[v].nested = FALSE
           \/ worker'[v] = worker[v]
  <2>1. CASE \E x \in {Idle, Pull} :
               worker' = [w \in Workers |-> IF w \in {s} \X Slots THEN x ELSE worker[w]]
    BY <1>1, <2>1, SlotsShape
  <2>2. CASE UNCHANGED worker
    BY <1>1, <2>2
  <2> QED BY <2>1, <2>2 DEF List, EndSweep, CrashSweep, SkipListed
<1>4. sweep' \in [Sweeps -> Sweep] /\ faults' \in Nat
  <2>1. CASE List(s)
    <3> DEFINE x == [on |-> TRUE,
                     list |-> {d \in Docs : status[d] = "pending"} \cup stale,
                     old |-> stale]
    <3>1. x \in Sweep
      BY <1>1 DEF TypeOK, Sweep
    <3>2. sweep' = [sweep EXCEPT ![s] = x] /\ faults' = faults
      BY <2>1 DEF List
    <3> HIDE DEF x
    <3> QED BY <1>1, <3>1, <3>2 DEF TypeOK
  <2>2. CASE EndSweep(s) \/ CrashSweep(s)
    <3>1. OffSweep \in Sweep
      BY DEF OffSweep, Sweep
    <3> QED BY <1>1, <2>2, <3>1 DEF EndSweep, CrashSweep, TypeOK
  <2>3. CASE \E k \in Slots, d \in Docs : SkipListed(s, k, d)
    BY <1>1, <2>3 DEF SkipListed, TypeOK, Sweep
  <2> QED BY <2>1, <2>2, <2>3
<1>5. TypeOK'
  BY <1>1, <1>2, <1>3, <1>4, RowsUnchanged, TypesKept DEF TypeOK
<1>6. Resting
  BY <1>2, <1>3 DEF Resting, RowsKept, rows
<1> QED BY <1>1, <1>5, <1>6, RestingKeeps DEF IInv

LEMMA CrashRequestStep ==
  ASSUME IInv, NEW q \in Requests, CrashRequest(q) PROVE IInv'
<1>1. TypeOK /\ Core /\ q \in Workers
  BY DEF IInv, Workers
<1>2. /\ worker' \in [Workers -> Worker]
      /\ \A v \in Workers :
           \/ worker'[v].pc \in {"idle", "pull"} /\ worker'[v].nested = FALSE
           \/ worker'[v] = worker[v]
  BY <1>1, CalmShape DEF CrashRequest, TypeOK
<1>3. Resting
  BY <1>2 DEF CrashRequest, Resting, RowsKept, rows
<1>4. TypeOK'
  BY <1>1, <1>2, RowsUnchanged, TypesKept DEF CrashRequest, TypeOK
<1> QED BY <1>1, <1>3, <1>4, RestingKeeps DEF IInv

\* Steps of a worker that only move it, typed.
LEMMA StepsOn ==
  ASSUME IInv, NEW w \in Workers,
         NEW pc \in {"idle", "pull", "followUp", "parts"} \cup Working, Goto(w, pc),
         UNCHANGED rows, UNCHANGED <<sweep, owed, requests>>,
         upset' \in SUBSET Roots, faults' \in Nat
  PROVE  /\ TypeOK'
         /\ Others(w)
         /\ worker'[w].pc = pc
         /\ worker'[w].doc = worker[w].doc
         /\ worker'[w].nested = worker[w].nested
<1>1. TypeOK
  BY DEF IInv
<1>2. /\ worker' \in [Workers -> Worker]
      /\ worker'[w].pc = pc
      /\ worker'[w].doc = worker[w].doc
      /\ worker'[w].nested = worker[w].nested
      /\ Others(w)
  BY <1>1, GotoShape DEF TypeOK
<1> QED BY <1>1, <1>2, RowsUnchanged, TypesKept DEF TypeOK

LEMMA MoveStep ==
  ASSUME IInv, NEW w \in Workers,
         \/ Extracted(w) \/ ExtractFails(w) \/ CheckParts(w)
         \/ Throw(w) \/ FollowUpThrows(w)
  PROVE  IInv'
<1>1. PICK pc \in {"check", "delete", "link", "fail"} :
        /\ Goto(w, pc)
        /\ pc \in {"check", "delete"} => worker[w].doc \in Packets
        /\ pc = "link" => worker[w].doc \notin Packets
  <2>1. CASE Extracted(w)
    BY <2>1 DEF Extracted
  <2>2. CASE CheckParts(w)
    BY <2>2 DEF CheckParts, IInv, Core, WorkerShape
  <2>3. CASE ExtractFails(w) \/ Throw(w) \/ FollowUpThrows(w)
    BY <2>3 DEF ExtractFails, Throw, FollowUpThrows
  <2> QED BY <2>1, <2>2, <2>3
<1>2. /\ UNCHANGED rows /\ UNCHANGED <<sweep, owed, requests>>
      /\ \/ UNCHANGED upset /\ worker[w].pc \in Working
         \/ /\ worker[w].pc \in {"followUp", "parts"}
            /\ upset' = upset \cup {worker[w].doc}
  BY DEF Extracted, ExtractFails, CheckParts, Throw, FollowUpThrows, Working
<1>3. /\ worker[w].doc \in Docs
      /\ worker[w].pc \in {"followUp", "parts"} => worker[w].doc \in Roots
  BY <1>2, Documents, QuotesAssumption DEF IInv, Core, WorkerShape, Roots
<1>4. upset' \in SUBSET Roots /\ faults' \in Nat
  BY <1>2, <1>3
     DEF IInv, TypeOK, Extracted, ExtractFails, CheckParts, Throw, FollowUpThrows
<1>5. /\ TypeOK'
      /\ Others(w)
      /\ worker'[w].pc = pc
      /\ worker'[w].doc = worker[w].doc
      /\ worker'[w].nested = worker[w].nested
  BY <1>1, <1>2, <1>4, StepsOn DEF Working
<1>6. Stepping(w, pc)
  BY <1>1, <1>2, <1>3, <1>5 DEF Stepping, RowsKept, rows
<1> QED BY <1>5, <1>6, SteppingKeeps DEF IInv

LEMMA DeleteStep ==
  ASSUME IInv, NEW w \in Workers, DeleteParts(w) PROVE IInv'
<1>1. TypeOK
  BY DEF IInv
<1>2. worker' \in [Workers -> Worker]
  BY <1>1, GotoShape DEF DeleteParts, TypeOK, Working
<1>3. RowTypes
  BY <1>1 DEF DeleteParts, RowTypes, TypeOK, Status
<1>4. TypeOK'
  BY <1>1, <1>2, <1>3, TypesKept DEF DeleteParts, TypeOK
<1> QED BY <1>4, DeleteKeeps DEF IInv

LEMMA InsertStep ==
  ASSUME IInv, NEW w \in Workers, InsertParts(w) PROVE IInv'
<1>1. TypeOK
  BY DEF IInv
<1>2. PICK p \in Packets : p = worker[w].doc
  BY DEF InsertParts, IInv, Core, WorkerShape
<1>3. {d \in PartsOf(p) : d.nth = splits[p] + 1} \in SUBSET Parts
  BY DEF PartsOf
<1>4. worker' \in [Workers -> Worker]
  <2> DEFINE new == {d \in PartsOf(p) : d.nth = splits[p] + 1}
             after == [worker[w] EXCEPT !.pc = "link", !.parts = new]
  <2>1. worker \in [Workers -> Worker] /\ worker[w] \in Worker
    BY <1>1 DEF TypeOK
  <2>2. worker' = [worker EXCEPT ![w] = after]
    BY <1>2, <2>1 DEF InsertParts, Worker
  <2>3. after \in Worker
    BY <1>3, <2>1 DEF Worker, Working
  <2> HIDE DEF after
  <2> QED BY <2>1, <2>2, <2>3
<1>5. splits' \in [Packets -> 0..MaxSplits]
  BY <1>1, <1>2, BoundsAssumption DEF InsertParts, TypeOK
<1>6. RowTypes
  BY <1>1, <1>5 DEF InsertParts, RowTypes, TypeOK, Status
<1>7. TypeOK'
  BY <1>1, <1>4, <1>6, TypesKept DEF InsertParts, TypeOK
<1> QED BY <1>7, InsertKeeps DEF IInv

LEMMA LinkStep ==
  ASSUME IInv, NEW w \in Workers, Link(w) PROVE IInv'
<1>1. TypeOK /\ worker[w].doc \in Docs
  BY DEF IInv, Core, WorkerShape, Working, Link
<1>2. worker' \in [Workers -> Worker]
  BY <1>1, GotoShape DEF Link, TypeOK, Working
<1>3. owed' \in SUBSET Facts
  BY <1>1, UploadShape DEF Link, TypeOK
<1>4. TypeOK'
  BY <1>1, <1>2, <1>3, RowsUnchanged, TypesKept DEF Link, TypeOK
<1> QED BY <1>4, LinkKeeps DEF IInv

LEMMA QueueStep ==
  ASSUME IInv, NEW w \in Workers, Queue(w) PROVE IInv'
<1>1. TypeOK
  BY DEF IInv
<1>2. worker' \in [Workers -> Worker]
  BY <1>1, GotoShape DEF Queue, TypeOK, Working
<1>3. owed' \in SUBSET Facts
  BY <1>1 DEF Queue, TypeOK
<1>4. TypeOK'
  BY <1>1, <1>2, <1>3, RowsUnchanged, TypesKept DEF Queue, TypeOK
<1> QED BY <1>4, QueueKeeps DEF IInv

LEMMA OutcomeStep ==
  ASSUME IInv, NEW w \in Workers, Persist(w) \/ Fail(w) PROVE IInv'
<1>1. TypeOK /\ Core /\ worker \in [Workers -> Worker]
  BY DEF IInv, TypeOK
<1>2. PICK d \in Docs : d = worker[w].doc
  BY DEF Persist, Fail, IInv, Core, WorkerShape, Working
<1>3. PICK outcome \in {"processed", "failed"} :
        /\ Outcome(d, outcome)
        /\ outcome = "processed" => worker[w].pc = "persist"
  BY <1>2 DEF Persist, Fail
<1>4. /\ worker[w].pc \in Working
      /\ UNCHANGED <<sweep, splits, owed, upset, requests, faults>>
  BY DEF Persist, Fail, Working
<1>5. /\ worker' \in [Workers -> Worker]
      /\ Others(w)
      /\ worker'[w].nested = FALSE
      /\ \/ worker'[w].pc \in {"idle", "pull"}
         \/ /\ worker'[w].pc = "parts"
            /\ worker'[w].doc \in Packets
            /\ \/ worker'[w].doc = d
               \/ d \in Parts /\ worker'[w].doc = d.packet
         \/ worker'[w].pc = "followUp" /\ worker'[w].doc = d /\ d \in QuoteSheets
  <2>3. CASE Goto(w, "followUp") /\ d \in QuoteSheets
    <3>1. ~worker[w].nested
      BY <1>2, <2>3, Documents, QuotesAssumption DEF IInv, Core, WorkerShape
    <3>2. worker[w].nested \in BOOLEAN
      BY <1>1 DEF Worker
    <3> QED BY <1>1, <1>2, <2>3, <3>1, <3>2, GotoShape
  <2>1. CASE Goto(w, "parts") /\ d \in Packets
    <3>1. ~worker[w].nested
      BY <1>2, <2>1, Documents DEF IInv, Core, WorkerShape
    <3>2. worker[w].nested \in BOOLEAN
      BY <1>1 DEF Worker
    <3> QED BY <1>1, <1>2, <2>1, <3>1, <3>2, GotoShape
  <2>2. CASE Return(w)
    <3>1. worker[w].nested => worker[w].doc \in Parts
      BY DEF IInv, Core, WorkerShape
    <3>2. worker[w].nested => d.packet \in Packets
      BY <1>2, <3>1, PartShape
    <3> QED BY <1>1, <1>2, <2>2, <3>1, <3>2, ReturnShape
  <2> QED BY <1>2, <2>1, <2>2, <2>3 DEF Persist, Fail
<1>6. Ending(w, d, outcome)
  BY <1>2, <1>3, <1>4, <1>5 DEF Ending
<1>7. RowTypes
  BY <1>1, <1>3, <1>4, OutcomeTypes
<1>8. TypeOK'
  BY <1>1, <1>4, <1>5, <1>7, TypesKept DEF TypeOK
<1> QED BY <1>6, <1>8, EndingKeeps DEF IInv

LEMMA PartStep ==
  ASSUME IInv, NEW w \in Workers, NEW d \in Parts, TakePart(w, d) PROVE IInv'
<1>1. TypeOK /\ Core /\ d \in Docs
  BY Documents DEF IInv
<1>2. CASE Free(d)
  <2> DEFINE x == [pc |-> "extract", doc |-> d, nested |-> TRUE,
                   parts |-> worker[w].parts \ {d}]
  <2>1. x \in Worker /\ x.pc = "extract" /\ x.doc = d
    BY <1>1 DEF TypeOK, Worker, Working
  <2>2. worker' = [worker EXCEPT ![w] = x] /\ Claim(d)
    BY <1>2 DEF TakePart
  <2> HIDE DEF x
  <2>3. /\ worker' \in [Workers -> Worker] /\ Others(w)
        /\ worker'[w].pc = "extract" /\ worker'[w].doc = d
    BY <1>1, <2>1, <2>2 DEF TypeOK, Others
  <2>4. Claiming(w, d)
    BY <1>1, <1>2, <2>2, <2>3, Unclaimed DEF TakePart, Claiming
  <2>5. RowTypes
    BY <1>1, <2>2, ClaimTypes DEF TakePart
  <2>6. TypeOK'
    BY <1>1, <2>3, <2>5, TypesKept DEF TakePart, TypeOK
  <2> QED BY <2>4, <2>6, ClaimingKeeps DEF IInv
<1>3. CASE ~Free(d)
  <2>1. worker' = [worker EXCEPT ![w].parts = @ \ {d}] /\ UNCHANGED rows
    BY <1>3 DEF TakePart, rows
  <2>2. /\ worker' \in [Workers -> Worker]
        /\ \A v \in Workers : /\ worker'[v].pc = worker[v].pc
                              /\ worker'[v].doc = worker[v].doc
                              /\ worker'[v].nested = worker[v].nested
    BY <1>1, <2>1 DEF TypeOK, Worker
  <2>3. Resting
    BY <2>1, <2>2 DEF TakePart, Resting, RowsKept, rows
  <2>4. TypeOK'
    BY <1>1, <2>1, <2>2, RowsUnchanged, TypesKept DEF TakePart, TypeOK
  <2> QED BY <1>1, <2>3, <2>4, RestingKeeps DEF IInv
<1> QED BY <1>2, <1>3

LEMMA CallEndStep ==
  ASSUME IInv, NEW w \in Workers, FollowUp(w) \/ PartsEnd(w) PROVE IInv'
<1>1. TypeOK /\ Core /\ worker \in [Workers -> Worker]
  BY DEF IInv, TypeOK
<1>2. ~worker[w].nested
  BY DEF FollowUp, PartsEnd, Core, IInv, WorkerShape, Working
<1>3. /\ worker' \in [Workers -> Worker]
      /\ \A v \in Workers :
           \/ worker'[v].pc \in {"idle", "pull"} /\ worker'[v].nested = FALSE
           \/ worker'[v] = worker[v]
  BY <1>1, <1>2, ReturnShape DEF FollowUp, PartsEnd, Others
<1>4. Resting
  BY <1>3 DEF FollowUp, PartsEnd, Resting, RowsKept, rows
<1>5. TypeOK'
  BY <1>1, <1>3, RowsUnchanged, TypesKept DEF FollowUp, PartsEnd, TypeOK
<1> QED BY <1>1, <1>4, <1>5, RestingKeeps DEF IInv

\* The catch block of a child throws into the catch block of its packet.
LEMMA FailThrowsStep ==
  ASSUME IInv, NEW w \in Workers, FailThrows(w) PROVE IInv'
<1>1. TypeOK /\ Core /\ worker \in [Workers -> Worker] /\ worker[w].nested \in BOOLEAN
  BY DEF IInv, TypeOK, Worker
<1>2. CASE ~worker[w].nested
  <2>1. worker' = [worker EXCEPT ![w] = Idle] /\ UNCHANGED upset
    BY <1>2 DEF FailThrows
  <2>2. /\ worker' \in [Workers -> Worker]
        /\ \A v \in Workers :
             \/ worker'[v].pc \in {"idle", "pull"} /\ worker'[v].nested = FALSE
             \/ worker'[v] = worker[v]
    BY <1>1, <2>1, CalmShape
  <2>3. Resting
    BY <2>1, <2>2 DEF FailThrows, Resting, RowsKept, rows
  <2>4. TypeOK'
    BY <1>1, <2>1, <2>2, RowsUnchanged, TypesKept DEF FailThrows, TypeOK
  <2> QED BY <1>1, <2>3, <2>4, RestingKeeps DEF IInv
<1>3. CASE worker[w].nested
  <2>1. PICK d \in Parts : d = worker[w].doc
    BY <1>3 DEF IInv, Core, WorkerShape
  <2>2. PICK p \in Packets : p = d.packet
    BY PartShape
  <2> DEFINE x == At("fail", p)
  <2>3. x \in Worker /\ x.pc = "fail" /\ x.doc = p /\ x.nested = FALSE
    BY Documents DEF At, Worker, Working
  <2>4. worker' = [worker EXCEPT ![w] = x] /\ upset' = upset \cup {p}
    BY <1>3, <2>1, <2>2 DEF FailThrows
  <2> HIDE DEF x
  <2>5. /\ worker' \in [Workers -> Worker]
        /\ \A v \in Workers \ {w} : worker'[v] = worker[v]
        /\ worker'[w].pc = "fail" /\ worker'[w].doc = p /\ worker'[w].nested = FALSE
    BY <1>1, <2>3, <2>4
  <2>6. /\ UNCHANGED <<status, stale, splits, sweep, owed, requests>>
        /\ worker[w].pc = "fail" /\ faults' \in Nat
    BY <1>1 DEF FailThrows, rows, TypeOK
  <2>7. TypeOK'
    BY <1>1, <2>4, <2>5, <2>6, Documents DEF TypeOK
  <2>8. \A v \in Workers, e \in Docs :
          Processes(v, e)' => Processes(v, e) \/ e = p
    BY <2>5 DEF Processes
  <2>9. WorkerShape'
    BY <2>2, <2>5, Documents DEF IInv, Core, WorkerShape, Working, IsPrimary
  <2>10. HeldProcessing' /\ SoleProcessor'
    BY <2>4, <2>6, <2>8 DEF IInv, Core, HeldProcessing, SoleProcessor
  <2>11. SplitOff'
    BY <2>2, <2>6, <2>8, Documents DEF IInv, Core, SplitOff
  <2>12. Registered'
    <3>1. status'[Upload(p)] # "none"
      BY <2>1, <2>2, <2>6, Documents, UploadShape DEF IInv, Core, Registered
    <3> QED BY <2>5, <2>6, <3>1, RegisteredKeeps
  <2>13. OneGeneration'
    BY <2>4, <2>5, <2>6 DEF IInv, Core, OneGeneration, PartsOf
  <2>14. PartsOnFile'
    BY <2>4, <2>5, <2>6 DEF IInv, Core, PartsOnFile, PartsOf
  <2>15. NothingOwed'
    BY <2>4, <2>5, <2>6 DEF IInv, Core, NothingOwed, IsPrimary, FactsOf, Upload
  <2> QED BY <2>7, <2>9, <2>10, <2>11, <2>12, <2>13, <2>14, <2>15 DEF IInv, Core
<1> QED BY <1>1, <1>2, <1>3

LEMMA AgeStep ==
  ASSUME IInv, NEW d \in Docs, Age(d) PROVE IInv'
<1>1. TypeOK'
  BY DEF Age, IInv, TypeOK
<1> QED BY <1>1, AgeKeeps DEF IInv

LEMMA DocumentStep == IInv /\ [Next]_vars => IInv'
<1> SUFFICES ASSUME IInv, [Next]_vars PROVE IInv'
  OBVIOUS
<1>1. ASSUME NEW w \in Workers, RunStep(w) \/ FaultStep(w) PROVE IInv'
  BY <1>1, MoveStep, DeleteStep, InsertStep, LinkStep, QueueStep, OutcomeStep,
     PartStep, CallEndStep, FailThrowsStep DEF RunStep, FaultStep
<1>2. ASSUME NEW s \in Sweeps, SweepStep(s) \/ CrashSweep(s) PROVE IInv'
  BY <1>2, TakeStep, SweepRests DEF SweepStep
<1>3. CASE UNCHANGED vars
  <2>1. Resting
    BY <1>3 DEF vars, Resting, RowsKept
  <2>2. TypeOK'
    BY <1>3 DEF vars, IInv, TypeOK
  <2> QED BY <2>1, <2>2, RestingKeeps DEF IInv
<1> QED
  BY <1>1, <1>2, <1>3, RegisterStep, RequestStep, CrashRequestStep, AgeStep DEF Next

LEMMA Invariance == Spec => []IInv
BY DocumentInit, DocumentStep, PTL DEF Spec

-----------------------------------------------------------------------------
(* The theorems.                                                           *)

\* Every statement of a call, a sweep or a crash keeps all state in its type,
\* in particular no worker is ever at a step without its document.
THEOREM DocumentTypes == Spec => []TypeOK
<1>1. IInv => TypeOK
  BY DEF IInv
<1> QED BY <1>1, Invariance, PTL

\* Callers racing for a document resolve to one processor, for every number of
\* requests and overlapping sweeps, whatever crashes or throws.
THEOREM SoleProcessorAlways == Spec => []SoleProcessor
<1>1. IInv => SoleProcessor
  BY DEF IInv, Core
<1> QED BY <1>1, Invariance, PTL

\* Facts on an entry that no analysis has been queued for still have a
\* document that will bring them again.
THEOREM FactsQueuedAlways == Spec => []FactsQueued
BY QueuedFollows, Invariance, PTL

\* The inductive invariant itself: one generation of parts, all on file when
\* their packet is processed, none of them processed and in debt.
THEOREM DocumentInvariant == Spec => []DocumentInv
<1>1. IInv => DocumentInv
  BY QueuedFollows DEF IInv, Core, DocumentInv
<1> QED BY <1>1, Invariance, PTL

\* Of all steps only the catch block turns a document into a failed one.
LEMMA OnlyFailFails ==
  ASSUME IInv, [Next]_vars, NEW d \in Docs,
         status[d] = "processed", status'[d] = "failed"
  PROVE  \E w \in Workers : Fail(w)
<1> USE DEF IInv, TypeOK
<1>1. ASSUME NEW e \in Docs, Claim(e) \/ Register(e) PROVE FALSE
  BY <1>1 DEF Claim, Register
<1>2. ASSUME status' = status PROVE FALSE
  BY <1>2
<1>3. ASSUME NEW w \in Workers, RunStep(w) \/ FaultStep(w), ~Fail(w) PROVE FALSE
  <2>1. CASE DeleteParts(w) \/ InsertParts(w) \/ Persist(w)
    BY <2>1 DEF DeleteParts, InsertParts, Persist, Outcome
  <2>2. ASSUME NEW e \in Parts, TakePart(w, e) PROVE FALSE
    BY <1>1, <1>2, <2>2, Documents DEF TakePart
  <2>3. CASE FaultStep(w)
    BY <1>2, <2>3 DEF FaultStep, Throw, FollowUpThrows, FailThrows, rows
  <2>4. CASE Extracted(w) \/ ExtractFails(w) \/ CheckParts(w) \/ Link(w) \/ Queue(w)
             \/ FollowUp(w) \/ PartsEnd(w)
    BY <1>2, <2>4 DEF Extracted, ExtractFails, CheckParts, Link, Queue, FollowUp, PartsEnd, rows
  <2> QED BY <1>3, <2>1, <2>2, <2>3, <2>4 DEF RunStep
<1>4. ASSUME NEW s \in Sweeps, SweepStep(s) \/ CrashSweep(s) PROVE FALSE
  BY <1>1, <1>2, <1>4 DEF SweepStep, List, TakeListed, SkipListed, EndSweep,
     CrashSweep, rows
<1>5. ASSUME NEW q \in Requests, CrashRequest(q) PROVE FALSE
  BY <1>2, <1>5 DEF CrashRequest, rows
<1>6. ASSUME NEW q \in Requests, NEW e \in Docs, Request(q, e) PROVE FALSE
  BY <1>1, <1>6 DEF Request
<1>7. ASSUME NEW e \in Docs, Age(e) PROVE FALSE
  BY <1>2, <1>7 DEF Age
<1>8. CASE UNCHANGED vars
  BY <1>2, <1>8 DEF vars
<1>9. \A e \in Roots : e \in Docs
  BY Documents
<1> QED BY <1>1, <1>3, <1>4, <1>5, <1>6, <1>7, <1>8, <1>9 DEF Next

\* A processed document becomes failed only as an upload whose own call threw in
\* what follows its outcome, the quote sheet's follow-up or the packet's children.
THEOREM OutcomeStandsAlways == Spec => OutcomeStands
<1> DEFINE Stands ==
      \A d \in Docs : status[d] = "processed" /\ status'[d] = "failed" => d \in upset
<1>1. IInv /\ [Next]_vars => [Stands]_vars
  <2> SUFFICES ASSUME IInv, [Next]_vars, NEW d \in Docs,
                      status[d] = "processed", status'[d] = "failed"
               PROVE  d \in upset
    OBVIOUS
  <2>1. PICK w \in Workers : Fail(w)
    BY OnlyFailFails
  <2>2. worker[w].doc = d
    BY <2>1 DEF Fail, Outcome, IInv, TypeOK
  <2>3. Processes(w, d)
    BY <2>1, <2>2 DEF Fail, Processes, Working
  <2> QED BY <2>3 DEF IInv, Core, HeldProcessing
<1> QED BY <1>1, Invariance, PTL DEF Spec, OutcomeStands
=============================================================================
