---------------------------- MODULE SessionMailbox ----------------------------
(***************************************************************************)
(* Instructions for one conversation: its durable mailbox                  *)
(* (sessionMailbox.ts), the drain before a turn and the steering within    *)
(* one (brainSteering.ts), and what a turn of the agent does with them     *)
(* (agent-harness/framework/chat-agent.ts, getAgent and askAgentHarness of *)
(* brain.ts).  JavaScript runs one task at a time: an action is what       *)
(* happens between two awaits.  The process may die at any point, with the *)
(* machine or without it; the session journal is fsynced on every append.  *)
(*                                                                         *)
(* Instructions are numbered in the order of their timestamps.  History    *)
(* holds the numbers of instructions and 0 for any other message.          *)
(***************************************************************************)
EXTENDS Integers, Sequences, FiniteSets, SequencesExt

CONSTANTS
  Instructions,  \* how many are sent
  Turns,         \* how many turns are started
  Rounds,        \* maxToolRounds of a turn
  Faults         \* bound: crashes, failed calls of the file system, retirements, aborts

VARIABLES
  visible,       \* files in the pending directory
  durable,       \* files a power failure leaves there
  receipt,       \* what the sender of each was told
  publishing,    \* the instruction another process is sending, or 0
  history,       \* the conversation the model sees, from the journal
  known,         \* instructions whose ID the journal holds
  turn,          \* the running turn
  ask,           \* callers of getAgent and what they wait for
  drains,        \* drains of this mailbox, in their order; the first one runs
  lock,          \* the agent's turn lock: its holder, then those waiting
  retiring,      \* the cached agent is being closed
  cut,           \* instructions a fault caught between delivery and removal: history
  budget         \* turns started and faults so far

mailbox == <<visible, durable, receipt, publishing>>
journal == <<history, known>>
agent == <<ask, drains, lock, retiring>>
vars == <<mailbox, journal, turn, agent, cut, budget>>

ASSUME BoundsAreNumbers == Instructions \in Nat /\ Rounds \in Nat

Ids == 1 .. Instructions
Callers == {"turn", "tool", "look"}
Receipts == {"none", "confirmed", "unconfirmed", "refused"}

NoTurn == [pc |-> "idle", window |-> FALSE, before |-> 0, checkpoint |-> 0, rounds |-> 0,
           accepted |-> {}, steered |-> {}, finished |-> FALSE]

Fault == budget.faults < Faults /\ budget' = [budget EXCEPT !.faults = @ + 1]
NoFault == UNCHANGED budget

(* activeSteering for this conversation *)
Window == turn.window

-----------------------------------------------------------------------------
(* The mailbox *)

Sent == {i \in Ids : receipt[i] # "none" \/ i \in visible \/ i \in known \/ Contains(history, i)}
NextId == CHOOSE i \in Ids \cup {0} :
            IF Ids \subseteq Sent THEN i = 0
            ELSE i \in Ids \ Sent /\ \A h \in Ids \ Sent : i <= h

(* Variant: a publication whose durability is unknown is a failure. *)
AnyFailureRefuses(outcome) == IF outcome = "confirmed" THEN "confirmed" ELSE "refused"

(* What the sender is told: a link that is there was not refused.           *)
Told(outcome) == outcome

(* Staged, fsynced, linked and made durable, or one of these fails.         *)
Published(i, outcome) ==
  /\ visible' = IF outcome = "refused" THEN visible ELSE visible \cup {i}
  /\ durable' = IF outcome = "confirmed" THEN visible \cup {i} ELSE durable
  /\ receipt' = [receipt EXCEPT ![i] = Told(outcome)]
  /\ IF outcome = "confirmed" THEN NoFault ELSE Fault

(* steerTurn: a correction for the running turn, sent by this process.      *)
Steer(outcome) ==
  /\ Window /\ NextId # 0 /\ publishing = 0
  /\ Published(NextId, outcome)
  /\ turn' = IF outcome = "refused" THEN turn
             ELSE [turn EXCEPT !.accepted = @ \cup {NextId}]
  /\ UNCHANGED <<publishing, journal, agent, cut>>

(* Another process sends: between the link and the fsync of the directory   *)
(* this one already sees the file.                                          *)
Link ==
  /\ NextId # 0 /\ publishing = 0
  /\ publishing' = NextId
  /\ visible' = visible \cup {NextId}
  /\ UNCHANGED <<durable, receipt, journal, turn, agent, cut, budget>>

SyncLink(outcome) ==
  /\ publishing # 0 /\ outcome \in {"confirmed", "unconfirmed"}
  /\ durable' = IF outcome = "confirmed" THEN visible ELSE durable
  /\ receipt' = [receipt EXCEPT ![publishing] = Told(outcome)]
  /\ publishing' = 0
  /\ IF outcome = "confirmed" THEN NoFault ELSE Fault
  /\ UNCHANGED <<visible, journal, turn, agent, cut>>

(* acknowledgeSessionInstruction: unlinked and synced, or one of them fails *)
Acknowledged(gone, synced) ==
  /\ visible' = visible \ gone
  /\ durable' = IF synced THEN visible \ gone ELSE durable

-----------------------------------------------------------------------------
(* getAgent and drainSessionMailbox *)

(* A cached agent, or one built when the retired one has closed.            *)
GetAgent(c) == IF retiring THEN ask' = [ask EXCEPT ![c] = "agent"] /\ UNCHANGED drains
               ELSE /\ ask' = [ask EXCEPT ![c] = "drain"]
                    /\ drains' = Append(drains, [by |-> c, at |-> "start", todo |-> <<>>])

AgentBuilt(c) ==
  /\ ask[c] = "agent" /\ ~retiring
  /\ GetAgent(c)
  /\ UNCHANGED <<mailbox, journal, turn, lock, retiring, cut, budget>>

(* /inspect and the like, beside the turn *)
Look ==
  /\ ask["look"] = "none"
  /\ GetAgent("look")
  /\ UNCHANGED <<mailbox, journal, turn, lock, retiring, cut, budget>>

LookDone ==
  /\ ask["look"] \in {"ready", "failed"}
  /\ ask' = [ask EXCEPT !["look"] = "none"]
  /\ UNCHANGED <<mailbox, journal, turn, drains, lock, retiring, cut, budget>>

First == Head(drains)
DrainEnds == /\ drains' = Tail(drains)
             /\ ask' = [ask EXCEPT ![First.by] = "ready"]

(* A drain that fails fails those chained to it.                            *)
DrainsFail == /\ drains' = <<>>
              /\ ask' = [c \in Callers |-> IF ask[c] = "drain" THEN "failed" ELSE ask[c]]

(* The files are listed by their names, oldest first.                       *)
InOrder(S) ==
  [n \in 1 .. Cardinality(S) |-> CHOOSE i \in S : Cardinality({h \in S : h <= i}) = n]
Pending == InOrder(visible)

Wait(task) == lock' = Append(lock, task)

(* Variant: a drain does not look for a running turn. *)
NeverSkips == FALSE

SkipsDrain == Window

ListPending ==
  /\ drains # <<>> /\ First.at = "start"
  /\ IF SkipsDrain \/ visible = {} THEN DrainEnds /\ UNCHANGED lock
     ELSE /\ drains' = [drains EXCEPT ![1].at = "ingest", ![1].todo = Pending]
          /\ Wait("drain") /\ UNCHANGED ask
  /\ UNCHANGED <<mailbox, journal, turn, retiring, cut, budget>>

(* Variant: an instruction is appended whether the journal holds it or not. *)
AlwaysNew(i) == TRUE

IsNew(i) == i \notin known

(* ingestExternalMessage, under the turn lock *)
Ingest ==
  /\ drains # <<>> /\ First.at = "ingest" /\ Head(lock) = "drain"
  /\ LET i == Head(First.todo) IN
     /\ history' = IF IsNew(i) THEN Append(history, i) ELSE history
     /\ known' = known \cup {i}
  /\ lock' = Tail(lock)
  /\ drains' = [drains EXCEPT ![1].at = "ack"]
  /\ UNCHANGED <<mailbox, turn, ask, retiring, cut, budget>>

AckDrained(removed, synced) ==
  /\ drains # <<>> /\ First.at = "ack"
  /\ synced => removed
  /\ Acknowledged(IF removed THEN {Head(First.todo)} ELSE {}, synced)
  /\ LET rest == Tail(First.todo) IN
     IF ~synced THEN DrainsFail /\ UNCHANGED lock
     ELSE IF rest = <<>> THEN DrainEnds /\ UNCHANGED lock
     ELSE /\ drains' = [drains EXCEPT ![1].at = "ingest", ![1].todo = rest]
          /\ Wait("drain") /\ UNCHANGED ask
  /\ IF synced THEN NoFault ELSE Fault
  /\ UNCHANGED <<receipt, publishing, journal, turn, retiring, cut>>

(* The mailbox cannot be read.                                              *)
ListFails ==
  /\ drains # <<>> /\ First.at = "start" /\ ~SkipsDrain
  /\ Fault /\ DrainsFail
  /\ UNCHANGED <<mailbox, journal, turn, lock, retiring, cut>>

(* A model switch or a forgotten key retires the agent: its close waits for *)
(* the lock. A drain under way by then is left out.                         *)
Retire ==
  /\ ~retiring /\ drains = <<>> /\ turn.pc \in {"idle", "step", "answer", "tool"}
  /\ Fault
  /\ retiring' = TRUE /\ Wait("close")
  /\ UNCHANGED <<mailbox, journal, turn, ask, drains, cut>>

Closed ==
  /\ lock # <<>> /\ Head(lock) = "close"
  /\ lock' = Tail(lock) /\ retiring' = FALSE
  /\ UNCHANGED <<mailbox, journal, turn, ask, drains, cut, budget>>

-----------------------------------------------------------------------------
(* The turn *)

StartTurn ==
  /\ turn.pc = "idle" /\ ask["turn"] = "none" /\ budget.turns < Turns
  /\ turn' = [NoTurn EXCEPT !.pc = "setup"]
  /\ GetAgent("turn")
  /\ budget' = [budget EXCEPT !.turns = @ + 1]
  /\ UNCHANGED <<mailbox, journal, lock, retiring, cut>>

(* The window opens unless navigation moved the session during the setup.   *)
Begin(enabled) ==
  /\ turn.pc = "setup" /\ ask["turn"] = "ready"
  /\ turn' = [turn EXCEPT !.pc = "lock", !.window = enabled]
  /\ ask' = [ask EXCEPT !["turn"] = "none"]
  /\ Wait("turn")
  /\ UNCHANGED <<mailbox, journal, drains, retiring, cut, budget>>

SetupFails ==
  /\ turn.pc = "setup" /\ ask["turn"] = "failed"
  /\ turn' = NoTurn
  /\ ask' = [ask EXCEPT !["turn"] = "none"]
  /\ UNCHANGED <<mailbox, journal, drains, lock, retiring, cut, budget>>

(* Aborted during the setup, which goes on by itself: its end is unheeded.   *)
(* The next turn begins after that.                                         *)
SetupAborted ==
  /\ turn.pc = "setup"
  /\ Fault
  /\ turn' = NoTurn
  /\ UNCHANGED <<mailbox, journal, agent, cut>>

SetupUnheeded ==
  /\ turn.pc = "idle" /\ ask["turn"] \in {"ready", "failed"}
  /\ ask' = [ask EXCEPT !["turn"] = "none"]
  /\ UNCHANGED <<mailbox, journal, turn, drains, lock, retiring, cut, budget>>

(* Aborted while it waits for the lock: its place in the line is given up.  *)
StopsWaiting ==
  /\ turn.pc = "lock" /\ Head(lock) # "turn"
  /\ Fault
  /\ \E n \in DOMAIN lock : lock[n] = "turn" /\ lock' = RemoveAt(lock, n)
  /\ turn' = [turn EXCEPT !.pc = "ended"]
  /\ UNCHANGED <<mailbox, journal, ask, drains, retiring, cut>>

Admit ==
  /\ turn.pc = "lock" /\ Head(lock) = "turn"
  /\ turn' = [turn EXCEPT !.pc = "step", !.before = Len(history),
                          !.checkpoint = Len(history), !.rounds = Rounds]
  /\ history' = Append(history, 0)
  /\ UNCHANGED <<mailbox, known, agent, cut, budget>>

(* pending of the turn's steering, less what it was given already.          *)
Steering == {i \in visible \cap turn.accepted : \A s \in turn.steered : s[1] # i}
Corrections == InOrder(Steering)
WithCorrections(h) == h \o Corrections
SteeredAt(h) == turn.steered \cup {<<Corrections[n], Len(h) + n>> : n \in DOMAIN Corrections}

(* A step: corrections, then the request. The mailbox may be unreadable,    *)
(* which leaves them for later.                                             *)
Step(read) ==
  /\ turn.pc = "step" /\ turn.rounds > 0
  /\ ~read => Steering # {}
  /\ history' = IF read THEN WithCorrections(history) ELSE history
  /\ turn' = [turn EXCEPT !.pc = "answer", !.rounds = @ - 1,
                          !.steered = IF read THEN SteeredAt(history) ELSE @]
  /\ IF read THEN NoFault ELSE Fault
  /\ UNCHANGED <<mailbox, known, agent, cut>>

(* The model calls tools, read_tool_output among them or not.               *)
CallTools(reads) ==
  /\ turn.pc = "answer"
  /\ history' = Append(history, 0)
  /\ turn' = [turn EXCEPT !.pc = "tool"]
  /\ IF reads THEN GetAgent("tool") ELSE UNCHANGED <<ask, drains>>
  /\ UNCHANGED <<mailbox, known, lock, retiring, cut, budget>>

(* The batch returns when each tool has: what it did stays in history.      *)
ToolsDone ==
  /\ turn.pc = "tool" /\ ask["tool"] \in {"none", "ready", "failed"}
  /\ history' = Append(history, 0)
  /\ turn' = [turn EXCEPT !.pc = "step", !.checkpoint = Len(history) + 1]
  /\ ask' = [ask EXCEPT !["tool"] = "none"]
  /\ UNCHANGED <<mailbox, known, drains, lock, retiring, cut, budget>>

(* The answer. A correction that came meanwhile earns another step, unless  *)
(* the mailbox is unreadable.                                               *)
AnswerGiven(read) ==
  /\ turn.pc = "answer"
  /\ ~read => turn.rounds > 0 /\ Steering # {}
  /\ LET h == Append(history, 0)
         more == read /\ turn.rounds > 0 /\ Steering # {}
     IN /\ history' = IF more THEN WithCorrections(h) ELSE h
        /\ turn' = IF more
             THEN [turn EXCEPT !.pc = "step", !.steered = SteeredAt(h),
                               !.checkpoint = Len(history')]
             ELSE [turn EXCEPT !.pc = "ended", !.finished = TRUE]
        /\ lock' = IF more THEN lock ELSE Tail(lock)
  /\ IF read THEN NoFault ELSE Fault
  /\ UNCHANGED <<mailbox, known, ask, drains, retiring, cut>>

(* The rounds are spent: a last request without tools.                      *)
Exhausted ==
  /\ turn.pc = "step" /\ turn.rounds = 0
  /\ history' = Append(history, 0)
  /\ turn' = [turn EXCEPT !.pc = "ended", !.finished = TRUE]
  /\ lock' = Tail(lock)
  /\ UNCHANGED <<mailbox, known, ask, drains, retiring, cut, budget>>

(* Failed or aborted. A batch in flight stays, unless an earlier attempt of *)
(* the turn failed; else history goes back to the last effects.             *)
Fail(keep) ==
  /\ turn.pc \in {"step", "answer"} \/ (turn.pc = "tool" /\ ask["tool"] = "none")
  /\ keep => turn.pc = "tool"
  /\ Fault
  /\ history' = IF keep THEN history
                ELSE SubSeq(history, 1, IF turn.pc = "tool" THEN turn.before ELSE turn.checkpoint)
  /\ turn' = [turn EXCEPT !.pc = "ended"]
  /\ lock' = Tail(lock)
  /\ UNCHANGED <<mailbox, known, ask, drains, retiring, cut>>

(* Variant: every delivered correction is taken as held. *)
AnyDelivered(s) == TRUE

(* A turn that did not finish holds what its history still has in its place *)
StillHeld(s) == turn.finished \/ (s[2] \in DOMAIN history /\ history[s[2]] = s[1])

(* settle: the window closes and what the conversation holds is removed.    *)
Settle(stuck, synced) ==
  /\ turn.pc = "ended"
  /\ LET held == {s[1] : s \in {t \in turn.steered : StillHeld(t)}} IN
     /\ stuck \subseteq held
     /\ held = {} => synced
     /\ Acknowledged(held \ stuck, synced /\ held # {})
     /\ cut' = cut \cup stuck
  /\ turn' = NoTurn
  /\ IF stuck = {} /\ synced THEN NoFault ELSE Fault
  /\ UNCHANGED <<receipt, publishing, journal, agent>>

-----------------------------------------------------------------------------
(* The process dies; the next one recovers the open turn: rolled back, or   *)
(* kept when the model has answered in it.                                  *)

Answered == \E n \in turn.before + 2 .. Len(history) : history[n] = 0

Crash(keep, power) ==
  /\ Fault
  /\ keep => Answered
  /\ history' = IF turn.pc \in {"step", "answer", "tool"} /\ ~keep
                THEN SubSeq(history, 1, turn.before) ELSE history
  /\ cut' = cut \cup {s[1] : s \in turn.steered} \cup (IF power THEN durable \ visible ELSE {})
  /\ turn' = NoTurn
  /\ ask' = [c \in Callers |-> "none"] /\ drains' = <<>> /\ lock' = <<>> /\ retiring' = FALSE
  /\ IF power
     THEN /\ \E lost \in SUBSET ((visible \cup durable) \ (visible \cap durable)) :
               visible' = (visible \cup durable) \ lost
          /\ durable' = visible' /\ publishing' = 0
     ELSE UNCHANGED <<visible, durable, publishing>>
  /\ UNCHANGED <<receipt, known>>

Init ==
  /\ visible = {} /\ durable = {} /\ receipt = [i \in Ids |-> "none"] /\ publishing = 0
  /\ history = <<>> /\ known = {} /\ turn = NoTurn
  /\ ask = [c \in Callers |-> "none"] /\ drains = <<>> /\ lock = <<>> /\ retiring = FALSE
  /\ cut = {} /\ budget = [turns |-> 0, faults |-> 0]

TurnStep ==
  \/ \E enabled \in BOOLEAN : Begin(enabled)
  \/ SetupFails \/ SetupAborted \/ SetupUnheeded \/ StopsWaiting
  \/ Admit \/ ToolsDone \/ Exhausted
  \/ \E flag \in BOOLEAN : Step(flag) \/ CallTools(flag) \/ AnswerGiven(flag) \/ Fail(flag)
  \/ \E stuck \in SUBSET Ids, synced \in BOOLEAN : Settle(stuck, synced)

DrainStep ==
  \/ ListPending \/ ListFails \/ Ingest \/ Closed \/ LookDone
  \/ \E removed, synced \in BOOLEAN : AckDrained(removed, synced)
  \/ \E c \in Callers : AgentBuilt(c)

Others ==
  \/ StartTurn \/ Look \/ Retire \/ Link
  \/ \E outcome \in {"confirmed", "unconfirmed", "refused"} : Steer(outcome) \/ SyncLink(outcome)
  \/ \E keep, power \in BOOLEAN : Crash(keep, power)

Next == TurnStep \/ DrainStep \/ Others

Spec == Init /\ [][Next]_vars

(* The model answers, tools return and promises resolve.                    *)
Fairness ==
  /\ WF_vars(TurnStep) /\ WF_vars(DrainStep)
  /\ \A c \in Callers : WF_vars(AgentBuilt(c))
LiveSpec == Spec /\ Fairness

-----------------------------------------------------------------------------
(* Properties *)

Phases == {"idle", "setup", "lock", "step", "answer", "tool", "ended"}

(* Every variable holds a value of its kind, and the lock is the turn's     *)
(* exactly while the turn runs.                                             *)
TypeOK ==
  /\ visible \subseteq Ids /\ durable \subseteq Ids /\ known \subseteq Ids /\ cut \subseteq Ids
  /\ receipt \in [Ids -> Receipts] /\ publishing \in 0 .. Instructions
  /\ \A n \in DOMAIN history : history[n] \in 0 .. Instructions
  /\ turn.pc \in Phases /\ turn.accepted \subseteq Ids
  /\ ask \in [Callers -> {"none", "agent", "drain", "ready", "failed"}]
  /\ turn.pc \in {"step", "answer", "tool"} => lock # <<>> /\ Head(lock) = "turn"
  /\ Cardinality({n \in DOMAIN lock : lock[n] = "drain"}) <= 1

(* What the conversation holds whatever becomes of the turn.                *)
Settled == IF turn.pc \in {"step", "answer", "tool"} THEN SubSeq(history, 1, turn.before)
           ELSE history

(* An instruction whose sender was told it is safe is never lost: it is in  *)
(* the mailbox, and will be after a power failure, until the conversation   *)
(* holds it and no failure of the turn can take it back.                    *)
AcceptedIsKept ==
  \A i \in Ids : receipt[i] = "confirmed" => i \in visible \cap durable \/ Contains(Settled, i)

(* A refused instruction never reaches the conversation: its sender queues  *)
(* it as a task of its own.                                                 *)
RefusedIsNotHeard ==
  \A i \in Ids : receipt[i] = "refused" => i \notin visible /\ ~Contains(history, i)

(* The conversation holds an instruction once, unless a fault came between  *)
(* its delivery within a turn and its removal from the mailbox.             *)
HeardOnce ==
  \A m, n \in DOMAIN history : history[m] = history[n] /\ history[m] # 0 => m = n \/ history[m] \in cut

(* Where a turn can wait for itself: it reads its own session while its     *)
(* agent is being retired, without a window, or with a drain still on its   *)
(* way from before.                                                         *)
ReadsItself ==
  /\ turn.pc = "tool" /\ ask["tool"] \in {"agent", "drain"}
  /\ retiring \/ ~Window \/ ask["look"] = "drain"

(* A turn ends: its own reads do not wait for its lock, however drains and  *)
(* steering interleave with it.                                             *)
TurnEnds == turn.pc # "idle" ~> (turn.pc = "idle" \/ ReadsItself)
=============================================================================
