----------------------------- MODULE AgentTurn -----------------------------
(***************************************************************************)
(* A conversation with the assistant (agent/service.ts, agent/claude.ts):  *)
(* a turn claims the soft lock of the conversation, stores the question,   *)
(* rebuilds the transcript the model is sent (agent/transcript.ts), stores *)
(* what the tool runner produces and releases the lock.                    *)
(*                                                                         *)
(* A lock older than the deadline and a grace (360 s) is reclaimed, while  *)
(* a turn may live for 800 s: only the model's calls stop at the deadline. *)
(***************************************************************************)
EXTENDS Integers, Sequences

LOCAL INSTANCE SequencesExt

CONSTANTS
  Turns,     \* requests to POST a message
  Calls,     \* ids of tool_use blocks
  MaxFails   \* bound: crashes, turns cut off and locks outlived

ASSUME CallsAssumption == Turns # {} /\ MaxFails \in Nat

VARIABLES
  turnLock,  \* turn_started_at: unset, recent or past the cutoff
  messages,  \* agent_messages rows in the order of seq
  turn,      \* what each turn does, the seq it inserts next, what it has not stored
  outlived,  \* ghost: the lock of a living turn has passed the cutoff
  fails      \* bound counter

turnVars == <<turnLock, messages, turn, outlived, fails>>

-----------------------------------------------------------------------------
(* Messages.                                                               *)

Message == [role : {"user", "assistant"}, uses : SUBSET Calls, answers : SUBSET Calls]

Question == [role |-> "user", uses |-> {}, answers |-> {}]
Answer(calls) == [role |-> "assistant", uses |-> calls, answers |-> {}]
Results(calls) == [role |-> "user", uses |-> {}, answers |-> calls]

\* Mutant: only a tool_use at the end is answered.
RepairLast(stored) ==
  IF stored # <<>> /\ Last(stored).uses # {}
  THEN Append(stored, Results(Last(stored).uses)) ELSE stored

\* rebuildMessages: a result is made up for every tool_use that the next user
\* message does not answer, in that message or in one of its own.
Unanswered(stored, i) == i = Len(stored) \/ stored[i + 1].role = "assistant"
UsesBefore(stored, i) == IF i = 1 THEN {} ELSE stored[i - 1].uses
Rebuilt(stored, i) ==
  LET m == stored[i] IN
  IF m.role = "user" THEN <<[m EXCEPT !.answers = m.answers \cup UsesBefore(stored, i)]>>
  ELSE IF m.uses # {} /\ Unanswered(stored, i) THEN <<m, Results(m.uses)>> ELSE <<m>>
Repair(stored) ==
  LET rebuilt[n \in 0..Len(stored)] ==
        IF n = 0 THEN <<>> ELSE rebuilt[n - 1] \o Rebuilt(stored, n)
  IN rebuilt[Len(stored)]

\* appendUserMessage: the question joins a message of the user at the end.
Wire(stored) ==
  LET w == Repair(stored) IN
  IF w # <<>> /\ Last(w).role = "user" THEN w ELSE Append(w, Question)

-----------------------------------------------------------------------------
(* The turn.                                                               *)

Waiting == [pc |-> "waiting", next |-> 0, fresh |-> <<>>]
Running == {t \in Turns : turn[t].pc \in {"claimed", "read", "asking", "settling"}}
CallsMade == UNION ({messages[i].uses : i \in DOMAIN messages} \cup
                    {m.uses : m \in UNION {Range(turn[t].fresh) : t \in Turns}})
NewCalls == IF Calls \subseteq CallsMade THEN {} ELSE {CHOOSE c \in Calls : c \notin CallsMade}

TurnTypeOK ==
  /\ turnLock \in {"free", "held", "stale"}
  /\ messages \in Seq(Message)
  /\ turn \in [Turns -> [pc : {"waiting", "claimed", "read", "asking", "settling", "over"},
                         next : Nat, fresh : Seq(Message)]]
  /\ outlived \in BOOLEAN /\ fails \in 0..MaxFails

TurnInit ==
  /\ turnLock = "free" /\ messages = <<>>
  /\ turn = [t \in Turns |-> Waiting]
  /\ outlived = FALSE /\ fails = 0

\* Mutant: whoever finds the lock set takes it as well.
ClaimableAlways == TRUE

Claimable == turnLock # "held"

ClaimTurn(t) ==
  /\ turn[t].pc = "waiting" /\ Claimable
  /\ turnLock' = "held"
  /\ turn' = [turn EXCEPT ![t].pc = "claimed"]
  /\ UNCHANGED <<messages, outlived, fails>>

ReadTranscript(t) ==
  /\ turn[t].pc = "claimed"
  /\ turn' = [turn EXCEPT ![t] = [@ EXCEPT !.pc = "read", !.next = Len(messages) + 1]]
  /\ UNCHANGED <<turnLock, messages, outlived, fails>>

\* The unique index on (conversation, seq).
Free(t) == turn[t].next = Len(messages) + 1

SaveQuestion(t) ==
  /\ turn[t].pc = "read" /\ Free(t)
  /\ messages' = Append(messages, Question)
  /\ turn' = [turn EXCEPT ![t] = [@ EXCEPT !.pc = "asking", !.next = turn[t].next + 1]]
  /\ UNCHANGED <<turnLock, outlived, fails>>

\* The model calls tools, whose results the runner adds, or ends the turn.
Ask(t) ==
  /\ turn[t].pc = "asking" /\ turn[t].fresh = <<>>
  /\ \/ \E c \in NewCalls :
          turn' = [turn EXCEPT ![t].fresh = <<Answer({c}), Results({c})>>]
     \/ turn' = [turn EXCEPT ![t] = [@ EXCEPT !.pc = "settling", !.fresh = <<Answer({})>>]]
  /\ UNCHANGED <<turnLock, messages, outlived, fails>>

\* persistBeyond: one INSERT of what is new.
SaveFresh(t) ==
  /\ turn[t].fresh # <<>> /\ Free(t)
  /\ messages' = messages \o turn[t].fresh
  /\ turn' = [turn EXCEPT ![t] = [@ EXCEPT !.next = turn[t].next + Len(turn[t].fresh), !.fresh = <<>>]]
  /\ UNCHANGED <<turnLock, outlived, fails>>

\* The deadline or an error cuts the turn off, between calls or before the
\* results of one; what is new is still stored.
CutOff(t) ==
  /\ turn[t].pc \in {"claimed", "read", "asking"} /\ fails < MaxFails
  /\ \/ turn' = [turn EXCEPT ![t].pc = "settling"]
     \/ /\ turn[t].pc = "asking" /\ turn[t].fresh = <<>>
        /\ \E c \in NewCalls :
             turn' = [turn EXCEPT ![t] = [@ EXCEPT !.pc = "settling", !.fresh = <<Answer({c})>>]]
  /\ fails' = fails + 1
  /\ UNCHANGED <<turnLock, messages, outlived>>

\* The seq is taken: what was to be stored is lost and the turn ends.
SeqTaken(t) ==
  /\ turn[t].pc = "read" \/ turn[t].fresh # <<>>
  /\ ~Free(t)
  /\ turn' = [turn EXCEPT ![t] = [@ EXCEPT !.pc = "settling", !.fresh = <<>>]]
  /\ UNCHANGED <<turnLock, messages, outlived, fails>>

\* The lock is released, whoever holds it.
Settle(t) ==
  /\ turn[t].pc = "settling" /\ turn[t].fresh = <<>>
  /\ turnLock' = "free"
  /\ turn' = [turn EXCEPT ![t].pc = "over"]
  /\ UNCHANGED <<messages, outlived, fails>>

CrashTurn(t) ==
  /\ t \in Running /\ fails < MaxFails
  /\ turn' = [turn EXCEPT ![t] = [@ EXCEPT !.pc = "over", !.fresh = <<>>]]
  /\ fails' = fails + 1
  /\ UNCHANGED <<turnLock, messages, outlived>>

PassCutoff ==
  /\ turnLock = "held"
  /\ turnLock' = "stale"
  /\ IF Running = {} THEN UNCHANGED <<outlived, fails>>
     ELSE fails < MaxFails /\ fails' = fails + 1 /\ outlived' = TRUE
  /\ UNCHANGED <<messages, turn>>

TurnNext ==
  \/ PassCutoff
  \/ \E t \in Turns : \/ ClaimTurn(t) \/ ReadTranscript(t) \/ SaveQuestion(t) \/ Ask(t)
                      \/ SaveFresh(t) \/ CutOff(t) \/ SeqTaken(t) \/ Settle(t) \/ CrashTurn(t)

TurnSpec == TurnInit /\ [][TurnNext]_turnVars

-----------------------------------------------------------------------------
(* Properties.                                                             *)

Accepted(w) == \A i \in DOMAIN w :
  /\ w[i].uses # {} => i < Len(w) /\ w[i].uses \subseteq w[i + 1].answers
  /\ w[i].answers # {} => i > 1 /\ w[i].answers \subseteq w[i - 1].uses

\* "Every tool_use must be answered by a tool_result in the next user message,
\* or the API rejects the transcript": whatever was cut off, crashed, lost or
\* interleaved, the transcript the next turn would send is accepted.
TranscriptAccepted == Accepted(Wire(messages))

\* "One turn per conversation": two turns run at a time only after a living
\* turn's lock has passed the cutoff.
OneTurn == outlived \/ \A t, u \in Running : t = u
=============================================================================
