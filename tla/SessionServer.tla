---------------------------- MODULE SessionServer ----------------------------
(***************************************************************************)
(* The long-lived session server of the terminal agent:                    *)
(* interactive-tui/sessionServer.ts with the two gates it drives,          *)
(* confirmGate.ts and questionGate.ts.  One process serves one session:    *)
(* it runs at most one turn of an engine, relays the engine's approvals    *)
(* and questions to a client, and writes every event to a wire log that a  *)
(* later process resumes from.  A process may die at any point; the log    *)
(* then keeps everything an fsync covered and any part of what follows.    *)
(*                                                                         *)
(* JavaScript runs a handler to its end, so a handler is one action.  The  *)
(* fsync inside it is not part of that action, because the process may die *)
(* between the appends and the fsync: `duty' says that a flush is still    *)
(* to run, and whether the handler itself ("command", "now") or the event  *)
(* loop ("scheduled") is to run it.                                        *)
(***************************************************************************)
EXTENDS Integers, Sequences, FiniteSets

CONSTANTS
  Kind,        \* the engine: "harness" or "codex"
  Approvals,   \* ids of the approval requests the engine may raise
  Pinned,      \* those raised with allowBypass: false
  Questions,   \* ids of the questions the engine may ask
  MaxTurns,    \* bound: turns of the session
  MaxProcs,    \* bound: processes that serve the session, one after another
  MaxSpend,    \* bound: provider requests of one turn
  PageSize,    \* events of a replay page
  MaxFaults    \* bound: fsync calls that fail under a client command

ASSUME KindAssumption == Kind \in {"harness", "codex"}
ASSUME RequestAssumption ==
  /\ IsFiniteSet(Approvals) /\ IsFiniteSet(Questions)
  /\ Approvals \cap Questions = {}
  /\ Pinned \subseteq Approvals
ASSUME BoundAssumption ==
  /\ MaxTurns \in Nat /\ MaxProcs \in Nat
  /\ MaxSpend \in Nat /\ MaxFaults \in Nat /\ PageSize \in Nat \ {0}

Requests == Approvals \cup Questions
NoTurn == 0      \* `active' when no turn runs; turn ids are 1, 2, ...
Null == -1       \* usage the engine did not report

VARIABLES
  log,         \* the events of the wire log, at the index of their seq
  synced,      \* the prefix of the log an fsync has covered
  assumed,     \* the prefix the process takes for synced
  copy,        \* <<seq, event>> pairs the client was ever sent
  told,        \* what responses told the client: turns admitted, answers recorded
  phase,       \* "down", "up", "stopping", "closing", "closed"
  initialized,
  duty,        \* the flush that is still to run
  outbound,    \* lines waiting for the log to be durable
  active,      \* the running turn
  cancel,      \* its cancelReason, or "none"
  ask,         \* engine.ask of the turn: "none", "due", "running", "lost", "abandoned"
  attempts,    \* provider requests the turn has started
  records,     \* the server's approval and question records
  gate,        \* the gates: "idle", "pending", then the answer the engine got
  bypassing,
  usage, complete, lastTurn, turns,
  blocked,     \* unconfirmedStop: "no", "live" or "sticky"
  problems,    \* shutdown met a problem
  (* what happens outside the server, for the properties to speak of *)
  mine,        \* turns this process has handed to its engine
  unproven,    \* turns handed to an engine whose end nothing has proved
  spent,       \* provider requests really made
  acted,       \* requests whose allow the engine has acted on
  procs, faults

logVars == <<log, outbound, duty>>
clientVars == <<synced, assumed, copy, told>>
turnVars == <<active, cancel, ask, attempts>>
gateVars == <<records, gate, bypassing>>
usageVars == <<usage, complete, lastTurn, turns>>
lifeVars == <<phase, initialized, blocked, problems>>
outsideVars == <<mine, unproven, spent, acted>>
boundVars == <<procs, faults>>
vars == <<logVars, clientVars, turnVars, gateVars, usageVars, lifeVars,
          outsideVars, boundVars>>

-----------------------------------------------------------------------------
(* Wire events *)

Decisions(r) == IF r \in Approvals
                THEN IF r \in Pinned THEN {"deny", "allow"}
                                     ELSE {"deny", "allow", "bypass"}
                ELSE {"answered", "declined"}
Refusal(r) == IF r \in Approvals THEN "deny" ELSE "cancelled"
Allows(d) == d \in {"allow", "bypass", "answered"}

Words == {"deny", "allow", "bypass", "answered", "declined", "cancelled"}
Sources == {"client", "cancelled", "process_exit"}
CancelReasons == {"client", "deadline", "shutdown"}
StopReasons == CancelReasons \cup {"shutdown_timeout", "process_exit"}
Statuses == {"completed", "failed"}

Started(t) == [type |-> "turn.started", turn |-> t]
Brain(t) == [type |-> "brain", turn |-> t]
Stopping(t, why) == [type |-> "status", turn |-> t, reason |-> why]
Request(r, t) == [type |-> "request", turn |-> t, req |-> r]
Resolved(r, t, d, src) ==
  [type |-> "resolved", turn |-> t, req |-> r, decision |-> d, source |-> src]
Usage(t, n, total, whole) ==
  [type |-> "usage", turn |-> t, used |-> n, cumulative |-> total, complete |-> whole]
Ended(t, how, why) == [type |-> "turn.ended", turn |-> t, how |-> how, reason |-> why]
Closed(bad) == [type |-> "session.closed", error |-> bad]

Event ==
  [type : {"turn.started", "brain"}, turn : Nat]
    \cup [type : {"status"}, turn : Nat, reason : CancelReasons]
    \cup [type : {"request"}, turn : Nat, req : Requests]
    \cup [type : {"resolved"}, turn : Nat, req : Requests, decision : Words,
          source : Sources]
    \cup [type : {"usage"}, turn : Nat, used : Nat \cup {Null}, cumulative : Nat,
          complete : BOOLEAN]
    \cup [type : {"turn.ended"}, turn : Nat,
          how : Statuses \cup {"stopped", "stop_unconfirmed"},
          reason : StopReasons \cup {"none"}]
    \cup [type : {"session.closed"}, error : BOOLEAN]

At(l, type) == {i \in DOMAIN l : l[i].type = type}

(* What a response tells the client that a restart must not take back. *)
Admitted(t) == [turn |-> t]
Recorded(r, d) == [req |-> r, decision |-> d]

(* A line of the outbound queue: events with their seq, or a response. *)
Lines(es) == [i \in 1 .. Len(es) |-> [events |-> {<<Len(log) + i, es[i]>>}, told |-> {}]]
Reply(S) == [events |-> {}, told |-> S]
Page(after) ==
  [events |-> {<<i, log[i]>> : i \in {j \in DOMAIN log : after < j /\ j <= after + PageSize}},
   told |-> {}]

Emit(es) ==
  /\ log' = log \o es
  /\ outbound' = outbound \o Lines(es)
  /\ duty' = IF es = <<>> THEN duty ELSE "scheduled"

EmitAndFlush(es) ==
  /\ log' = log \o es
  /\ outbound' = outbound \o Lines(es)
  /\ duty' = "now"

EmitAndRespond(es, line) ==
  /\ log' = log \o es
  /\ outbound' = Append(outbound \o Lines(es), line)
  /\ duty' = "command"

(* Variant: shutdown does not wait for the turn. *)
NothingToWaitFor == TRUE

(* No handler is running.  After the last await on a turn, shutdown goes on *)
(* in microtasks that no other handler gets between.                        *)
TurnSettled == active = NoTurn \/ ask = "lost"
AtRest == /\ duty \in {"none", "scheduled"}
          /\ phase # "down"
          /\ ~(phase = "stopping" /\ TurnSettled)

-----------------------------------------------------------------------------
(* The group commit *)

(* Variant: the queue is written without an fsync. *)
FlushedWithoutSync == synced

(* The prefix a flush leaves durable: it calls fsync only when it has lines *)
(* to write and knows of events appended since the last one.                *)
Flushed == IF outbound = <<>> \/ assumed = Len(log) THEN synced ELSE Len(log)

(* fsync through every queued event, then write the queue.  What a handler  *)
(* does after its flush follows at once: prompt hands the turn to the       *)
(* engine, and an approved tool call goes on.                               *)
Flush ==
  /\ duty # "none"
  /\ duty' = "none"
  /\ outbound' = <<>>
  /\ synced' = Flushed
  /\ assumed' = IF outbound = <<>> THEN assumed ELSE Len(log)
  /\ copy' = copy \cup UNION {outbound[i].events : i \in DOMAIN outbound}
  /\ told' = told \cup UNION {outbound[i].told : i \in DOMAIN outbound}
  /\ ask' = IF ask = "due" THEN "running" ELSE ask
  /\ mine' = IF ask = "due" THEN mine \cup {active} ELSE mine
  /\ unproven' = IF ask = "due" THEN unproven \cup {active} ELSE unproven
  /\ acted' = acted \cup {r \in Requests : gate[r] = "allow"}
  /\ UNCHANGED <<log, active, cancel, attempts, gateVars, usageVars, lifeVars,
                 spent, boundVars>>

(* fsync throws under a client command: serveLines swallows the error, the  *)
(* lines stay queued, and what the handler had left to do is never done.    *)
(* The flush that emit scheduled for what is not synced is still to come:   *)
(* it tries again, or throws where nothing catches it (Crash).              *)
(*                                                                          *)
(* One that throws in a flush of shutdown's own is a Crash if the end of    *)
(* the input or a signal asked for the shutdown: nothing catches it.  If a  *)
(* client did, it is swallowed as well, nothing settles `closed`, and the   *)
(* process stays as it is until it is killed: that is not modelled.         *)
FlushFails ==
  /\ duty = "command"
  /\ assumed # Len(log)
  /\ faults < MaxFaults
  /\ faults' = faults + 1
  /\ duty' = "scheduled"
  /\ ask' = IF ask = "due" THEN "lost" ELSE ask
  /\ acted' = acted \cup {r \in Requests : gate[r] = "allow"}
  /\ UNCHANGED <<log, outbound, clientVars, active, cancel, attempts, gateVars,
                 usageVars, lifeVars, mine, unproven, spent, procs>>

-----------------------------------------------------------------------------
(* The gates: what the engine asks and how it is revoked *)

Unknown == [state |-> "unknown", turn |-> NoTurn, decision |-> "deny", source |-> "client"]
Record(s, t, d, src) == [state |-> s, turn |-> t, decision |-> d, source |-> src]

Pending == {r \in Requests : gate[r] = "pending"}
Orders(S) == {f \in [1 .. Cardinality(S) -> S] :
                \A i, j \in DOMAIN f : f[i] = f[j] => i = j}
ApprovalsFirst(S) == {f \in Orders(S) : \A i, j \in DOMAIN f :
                        i < j /\ f[j] \in Approvals => f[i] \in Approvals}

(* Variant: the gates have no cancellation listener. *)
NoneStillOpen(S) == {}

(* Every request of S is refused; the cancellation listener closes the      *)
(* records that are still pending, in the order of registration when a      *)
(* signal fires, approvals before questions when both gates are emptied.    *)
StillOpen(S) == {r \in S : records[r].state = "pending"}
Revoke(S) ==
  /\ gate' = [r \in Requests |-> IF r \in S THEN "deny" ELSE gate[r]]
  /\ records' = [r \in Requests |->
       IF r \in StillOpen(S)
       THEN Record("resolved", records[r].turn, Refusal(r), "cancelled")
       ELSE records[r]]
Revocations(order) ==
  [i \in DOMAIN order |->
     Resolved(order[i], records[order[i]].turn, Refusal(order[i]), "cancelled")]

(* The harness passes the turn's abort signal with a request, Codex one of  *)
(* its own that fires when the app-server disconnects.                      *)
AbortedWithTurn == IF Kind = "harness" THEN Pending ELSE {}

(* Who may raise a request: the running tool loop; for Codex, also one that *)
(* is still running after its turn was closed as unconfirmed.               *)
EngineAsks(r) ==
  IF Kind = "harness" THEN ask = "running" /\ cancel = "none"
  ELSE r \in Approvals /\ (ask = "running" \/ unproven \cap mine # {})

GateRequest(r) ==
  /\ AtRest /\ phase \in {"up", "stopping"}
  /\ EngineAsks(r)
  /\ gate[r] = "idle"
  /\ r \in Approvals \ Pinned => ~bypassing
  /\ gate' = [gate EXCEPT ![r] = "pending"]
  /\ records' = [records EXCEPT ![r] = Record("pending", active, Refusal(r), "client")]
  /\ Emit(<<Request(r, active)>>)
  /\ UNCHANGED <<clientVars, turnVars, bypassing, usageVars, lifeVars, outsideVars,
                 boundVars>>

(* The request's own signal fires: a tool call timed out, or the app-server went away. *)
GateAbort(r) ==
  /\ AtRest /\ phase \in {"up", "stopping"}
  /\ gate[r] = "pending"
  /\ Revoke({r})
  /\ \E order \in Orders(StillOpen({r})) : Emit(Revocations(order))
  /\ UNCHANGED <<clientVars, turnVars, bypassing, usageVars, lifeVars, outsideVars,
                 boundVars>>

-----------------------------------------------------------------------------
(* Client commands.  A command that is refused changes nothing but the      *)
(* client's screen, so only accepted ones are steps.                        *)

Serving == AtRest /\ phase = "up" /\ initialized

Initialize ==
  /\ AtRest /\ phase = "up" /\ ~initialized
  /\ initialized' = TRUE
  /\ EmitAndRespond(<<>>, Reply({}))
  /\ UNCHANGED <<clientVars, turnVars, gateVars, usageVars, phase, blocked, problems,
                 outsideVars, boundVars>>

Prompt ==
  /\ Serving
  /\ active = NoTurn
  /\ blocked = "no"
  /\ turns < MaxTurns
  /\ active' = turns + 1
  /\ turns' = turns + 1
  /\ cancel' = "none"
  /\ ask' = "due"
  /\ attempts' = 0
  /\ EmitAndRespond(<<Started(turns + 1)>>, Reply({Admitted(turns + 1)}))
  /\ UNCHANGED <<clientVars, gateVars, usage, complete, lastTurn, lifeVars,
                 outsideVars, boundVars>>

ApprovalRespond(r, d) ==
  /\ Serving
  /\ r \in Approvals /\ d \in Decisions(r)
  /\ records[r].state = "pending"
  /\ records' = [records EXCEPT ![r] = Record("resolved", @.turn, d, "client")]
  /\ gate' = IF gate[r] = "pending"
             THEN [gate EXCEPT ![r] = IF Allows(d) THEN "allow" ELSE "deny"]
             ELSE gate
  /\ bypassing' = (bypassing \/ (d = "bypass" /\ gate[r] = "pending"))
  /\ EmitAndRespond(<<Resolved(r, records[r].turn, d, "client")>>, Reply({Recorded(r, d)}))
  /\ UNCHANGED <<clientVars, turnVars, usageVars, lifeVars, outsideVars, boundVars>>

QuestionAnswer(r, d) ==
  /\ Serving
  /\ r \in Questions /\ d \in Decisions(r)
  /\ records[r].state = "pending"
  /\ records' = [records EXCEPT ![r] = Record("resolved", @.turn, d, "client")]
  /\ gate' = IF gate[r] = "pending"
             THEN [gate EXCEPT ![r] = IF Allows(d) THEN "allow" ELSE "deny"]
             ELSE gate
  /\ EmitAndRespond(<<Resolved(r, records[r].turn, d, "client")>>, Reply({Recorded(r, d)}))
  /\ UNCHANGED <<clientVars, turnVars, bypassing, usageVars, lifeVars, outsideVars,
                 boundVars>>

(* A late or repeated answer reports what was recorded. *)
AlreadyResolved(r) ==
  /\ Serving
  /\ records[r].state = "resolved"
  /\ EmitAndRespond(<<>>, Reply({Recorded(r, records[r].decision)}))
  /\ UNCHANGED <<clientVars, turnVars, gateVars, usageVars, lifeVars, outsideVars,
                 boundVars>>

(* The client asks for what follows the events it holds without a gap. *)
Cursor == Cardinality({i \in DOMAIN log : \A j \in 1 .. i : \E p \in copy : p[1] = j})
Replay ==
  /\ Serving
  /\ EmitAndRespond(<<>>, Page(Cursor))
  /\ UNCHANGED <<clientVars, turnVars, gateVars, usageVars, lifeVars, outsideVars,
                 boundVars>>

(* requestCancel: the reason sticks, and aborting the signal runs the gates' *)
(* abort listeners before anything else does.                                *)
CancelEvents(why, order) == <<Stopping(active, why)>> \o Revocations(order)

Cancel ==
  /\ Serving
  /\ active # NoTurn /\ cancel = "none"
  /\ cancel' = "client"
  /\ Revoke(AbortedWithTurn)
  /\ \E order \in Orders(StillOpen(AbortedWithTurn)) :
       EmitAndRespond(CancelEvents("client", order), Reply({}))
  /\ UNCHANGED <<clientVars, active, ask, attempts, bypassing, usageVars, lifeVars,
                 outsideVars, boundVars>>

-----------------------------------------------------------------------------
(* The turn *)

(* Variant: the deadline is suspended while the client is asked something. *)
DeadlineUnlessAsked == ask = "running" /\ cancel = "none" /\ Pending = {}

DeadlineDue == ask = "running" /\ cancel = "none"

Deadline ==
  /\ AtRest
  /\ DeadlineDue
  /\ cancel' = "deadline"
  /\ Revoke(AbortedWithTurn)
  /\ \E order \in Orders(StillOpen(AbortedWithTurn)) : Emit(CancelEvents("deadline", order))
  /\ UNCHANGED <<clientVars, active, ask, attempts, bypassing, usageVars, lifeVars,
                 outsideVars, boundVars>>

(* Variant: an abandoned turn still reports. *)
RelayedAlways == <<Brain(turns)>>

Relayed == IF ask = "abandoned" THEN <<>> ELSE <<Brain(active)>>

(* The engine starts a provider request and reports it; the event of an     *)
(* abandoned turn is dropped.                                               *)
EngineEvent ==
  /\ AtRest
  /\ ask \in {"running", "abandoned"}
  /\ attempts < MaxSpend
  /\ attempts' = attempts + 1
  /\ spent' = spent + 1
  /\ Emit(Relayed)
  /\ UNCHANGED <<clientVars, active, cancel, ask, gateVars, usageVars, lifeVars,
                 mine, unproven, acted, boundVars>>

(* What the result says of the turn's usage.  The harness counts receipts;  *)
(* a started request without one, or a receipt without usage, makes the     *)
(* figure a lower bound.  Codex may report nothing; only a completed turn   *)
(* has reported everything.                                                 *)
TurnUsage(status) ==
  IF Kind = "harness"
  THEN {[used |-> attempts, complete |-> TRUE]} \cup
       {[used |-> n, complete |-> FALSE] : n \in {m \in 0 .. attempts : attempts # 0}}
  ELSE {[used |-> Null, complete |-> FALSE]} \cup
       (IF status = "completed"
        THEN {[used |-> attempts, complete |-> TRUE]}
        ELSE {[used |-> n, complete |-> FALSE] : n \in 0 .. attempts})

(* Variant: the total is summed without asking whether usage was reported. *)
TotalUnchecked(n) == usage + n

Total(n) == IF n = Null THEN usage ELSE usage + n

(* The terminal event of a turn that returned. *)
Terminal(status, confirmed) ==
  IF cancel = "none" THEN Ended(active, status, "none")
  ELSE Ended(active, IF confirmed THEN "stopped" ELSE "stop_unconfirmed", cancel)

EngineReturn(status, confirmed) ==
  /\ AtRest
  /\ ask = "running"
  /\ active' = NoTurn
  /\ ask' = "none"
  /\ Revoke(Pending)
  /\ \E order \in ApprovalsFirst(StillOpen(Pending)), u \in TurnUsage(status) :
       /\ usage' = Total(u.used)
       /\ complete' = (complete /\ u.complete)
       /\ lastTurn' = u.used
       /\ EmitAndFlush(Revocations(order) \o
            <<Usage(active, u.used, Total(u.used), complete /\ u.complete),
              Terminal(status, confirmed)>>)
  /\ blocked' = IF cancel # "none" /\ ~confirmed THEN "live" ELSE blocked
  /\ unproven' = IF cancel # "none" /\ ~confirmed THEN unproven ELSE unproven \ {active}
  /\ UNCHANGED <<clientVars, cancel, attempts, bypassing, turns, phase, initialized,
                 problems, mine, spent, acted, boundVars>>

(* The engine of an abandoned turn returns: its result is dropped. *)
LateReturn ==
  /\ AtRest
  /\ ask = "abandoned"
  /\ ask' = "none"
  /\ UNCHANGED <<logVars, clientVars, active, cancel, attempts, gateVars, usageVars,
                 lifeVars, outsideVars, boundVars>>

-----------------------------------------------------------------------------
(* Shutdown, by command, end of input or signal *)

Shutdown ==
  /\ AtRest /\ phase = "up"
  /\ phase' = "stopping"
  /\ IF active # NoTurn /\ cancel = "none"
     THEN /\ cancel' = "shutdown"
          /\ Revoke(AbortedWithTurn)
          /\ \E order \in Orders(StillOpen(AbortedWithTurn)) :
               Emit(CancelEvents("shutdown", order))
     ELSE UNCHANGED <<cancel, gate, records, logVars>>
  /\ UNCHANGED <<clientVars, active, ask, attempts, bypassing, usageVars, initialized,
                 blocked, problems, outsideVars, boundVars>>

(* Variant: the wait is bounded only when it was shutdown that cancelled the turn. *)
OverdueIfOwn == ask = "running" /\ cancel = "shutdown"

Overdue == ask = "running"

(* The turn did not return within the bound: it is closed without it. *)
ShutdownTimeout ==
  /\ AtRest /\ phase = "stopping"
  /\ Overdue
  /\ active' = NoTurn
  /\ ask' = "abandoned"
  /\ Revoke(Pending)
  /\ complete' = FALSE
  /\ lastTurn' = Null
  /\ problems' = TRUE
  /\ \E order \in ApprovalsFirst(StillOpen(Pending)) :
       EmitAndFlush(Revocations(order) \o
         <<Usage(active, Null, usage, FALSE),
           Ended(active, "stop_unconfirmed", "shutdown_timeout")>>)
  /\ UNCHANGED <<clientVars, cancel, attempts, bypassing, usage, turns, phase,
                 initialized, blocked, outsideVars, boundVars>>

(* No turn is left to wait for: revoke, drop the listeners, close the engine. *)
Teardown ==
  /\ phase = "stopping" /\ TurnSettled
  /\ duty \in {"none", "scheduled"}
  /\ phase' = "closing"
  /\ Revoke(Pending)
  /\ \E order \in ApprovalsFirst(StillOpen(Pending)) : Emit(Revocations(order))
  /\ UNCHANGED <<clientVars, turnVars, bypassing, usageVars, initialized, blocked,
                 problems, outsideVars, boundVars>>

(* engine.close() ended well, or failed or outlasted its bound. *)
EngineClosed(ok) ==
  /\ AtRest /\ phase = "closing"
  /\ phase' = "closed"
  /\ problems' = (problems \/ ~ok)
  /\ EmitAndFlush(<<Closed(problems \/ ~ok)>>)
  /\ unproven' = IF ok THEN unproven \ mine ELSE unproven
  /\ UNCHANGED <<clientVars, turnVars, gateVars, usageVars, initialized, blocked,
                 mine, spent, acted, boundVars>>

-----------------------------------------------------------------------------
(* Processes come and go *)

(* All that a process forgets when it ends. *)
Forget ==
  /\ phase' = "down"
  /\ initialized' = FALSE
  /\ duty' = "none"
  /\ outbound' = <<>>
  /\ active' = NoTurn
  /\ cancel' = "none"
  /\ ask' = "none"
  /\ attempts' = 0
  /\ records' = [r \in Requests |-> Unknown]
  /\ gate' = [r \in Requests |->
       IF gate[r] = "pending" \/ (gate[r] = "allow" /\ r \notin acted)
       THEN "gone" ELSE gate[r]]
  /\ bypassing' = FALSE
  /\ usage' = 0 /\ complete' = TRUE /\ lastTurn' = Null /\ turns' = 0
  /\ blocked' = "no"
  /\ problems' = FALSE
  /\ mine' = {}

Exit ==
  /\ phase = "closed" /\ duty = "none"
  /\ Forget
  /\ UNCHANGED <<log, clientVars, unproven, spent, acted, boundVars>>

(* The process dies.  What no fsync covered may survive in part; a torn     *)
(* last line is cut when the log is opened.                                 *)
Crash ==
  /\ phase # "down"
  /\ \E kept \in synced .. Len(log) : log' = SubSeq(log, 1, kept)
  /\ Forget
  /\ UNCHANGED <<clientVars, unproven, spent, acted, boundVars>>

-----------------------------------------------------------------------------
(* Resuming from a log l: what restoreFromLog's scan leaves *)

LastOf(S) == CHOOSE i \in S : \A j \in S : j <= i

(* Variant: the terminal event of any turn counts for the last one. *)
OpenTurnUnlessAnyEnded(l) ==
  IF At(l, "turn.started") = {} \/ At(l, "turn.ended") # {} THEN NoTurn
  ELSE l[LastOf(At(l, "turn.started"))].turn

(* The last turn started, unless a terminal event of that turn follows. *)
OpenTurn(l) ==
  LET S == At(l, "turn.started")
  IN IF S = {} THEN NoTurn
     ELSE LET i == LastOf(S)
          IN IF \E j \in At(l, "turn.ended") : j > i /\ l[j].turn = l[i].turn
             THEN NoTurn ELSE l[i].turn

(* Variant: recovery never looks for a usage event of the open turn. *)
UsageNeverRecorded(l) == FALSE

OpenUsageRecorded(l) ==
  LET i == LastOf(At(l, "turn.started"))
  IN \E j \in At(l, "usage") : j > i /\ l[j].turn = l[i].turn

(* Variant: a turn cut off by the death of its process counts as free. *)
NeverUnknown(l) == FALSE

UsageUnknown(l) == OpenTurn(l) # NoTurn /\ ~OpenUsageRecorded(l)

RestoredUsage(l) ==
  IF At(l, "usage") = {} THEN 0 ELSE l[LastOf(At(l, "usage"))].cumulative
RestoredLastTurn(l) ==
  IF At(l, "usage") = {} THEN Null ELSE l[LastOf(At(l, "usage"))].used
RestoredComplete(l) == \A i \in At(l, "usage") : l[i].complete

(* The record of r: its last resolution, or pending. *)
RestoredRecord(l, r) ==
  LET asked == {i \in At(l, "request") : l[i].req = r}
      answers == {i \in At(l, "resolved") : l[i].req = r}
  IN IF asked = {} THEN Unknown
     ELSE IF answers = {}
     THEN Record("pending", l[LastOf(asked)].turn, Refusal(r), "client")
     ELSE LET i == LastOf(answers)
          IN Record("resolved", l[LastOf(asked)].turn, l[i].decision, l[i].source)

Unconfirmed(l) == {i \in At(l, "turn.ended") : l[i].how = "stop_unconfirmed"}
(* Variant: a clean close lifts every block. *)
LiftedByAnyClose(l) ==
  IF \E i \in Unconfirmed(l) : \A j \in At(l, "session.closed") : j > i => l[j].error
  THEN "live" ELSE "no"
(* Variant: a failed close lifts a live block too. *)
LiftedByFailedClose(l) ==
  IF \E i \in Unconfirmed(l) : l[i].reason = "process_exit" THEN "sticky"
  ELSE IF \E i \in Unconfirmed(l) : \A j \in At(l, "session.closed") : j < i
  THEN "live" ELSE "no"

(* A clean close lifts the block of a live unconfirmed stop, never that of  *)
(* a turn some process died in.                                             *)
RestoredBlock(l) ==
  IF \E i \in Unconfirmed(l) : l[i].reason = "process_exit" THEN "sticky"
  ELSE IF \E i \in Unconfirmed(l) :
            \A j \in At(l, "session.closed") : j > i => l[j].error
  THEN "live" ELSE "no"

(* Variant: recovery resolves every request it finds in the log. *)
EveryRequest(l) == {r \in Requests : RestoredRecord(l, r).state # "unknown"}

LeftPending(l) == {r \in Requests : RestoredRecord(l, r).state = "pending"}

(* The events that close what a dead process left open. *)
Recovery(l, order) ==
  [i \in DOMAIN order |->
     Resolved(order[i], RestoredRecord(l, order[i]).turn, Refusal(order[i]), "process_exit")]
  \o (IF UsageUnknown(l) THEN <<Usage(OpenTurn(l), Null, RestoredUsage(l), FALSE)>>
      ELSE <<>>)
  \o (IF OpenTurn(l) = NoTurn THEN <<>>
      ELSE <<Ended(OpenTurn(l), "stop_unconfirmed", "process_exit")>>)

(* Variant: the log is opened without an fsync. *)
OpenedWithoutSync == synced

(* The prefix that opening the log leaves durable. *)
Opened == Len(log)

(* A new process opens the log, fsyncs it before it trusts a line of it,    *)
(* restores its state and closes what was left open.                        *)
Start ==
  /\ phase = "down" /\ procs < MaxProcs
  /\ procs' = procs + 1
  /\ phase' = "up"
  /\ synced' = Opened
  /\ assumed' = Len(log)
  /\ records' = [r \in Requests |->
       IF r \in LeftPending(log)
       THEN Record("resolved", RestoredRecord(log, r).turn, Refusal(r), "process_exit")
       ELSE RestoredRecord(log, r)]
  /\ usage' = RestoredUsage(log)
  /\ lastTurn' = IF UsageUnknown(log) THEN Null ELSE RestoredLastTurn(log)
  /\ complete' = (RestoredComplete(log) /\ ~UsageUnknown(log))
  /\ turns' = Cardinality(At(log, "turn.started"))
  /\ blocked' = IF OpenTurn(log) # NoTurn THEN "sticky" ELSE RestoredBlock(log)
  /\ \E order \in ApprovalsFirst(LeftPending(log)) :
       LET es == Recovery(log, order)
       IN IF es = <<>> THEN UNCHANGED logVars ELSE EmitAndFlush(es)
  /\ UNCHANGED <<copy, told, turnVars, gate, bypassing, initialized, problems,
                 outsideVars, faults>>

-----------------------------------------------------------------------------
Init ==
  /\ log = <<>> /\ outbound = <<>> /\ duty = "none"
  /\ synced = 0 /\ assumed = 0 /\ copy = {} /\ told = {}
  /\ active = NoTurn /\ cancel = "none" /\ ask = "none" /\ attempts = 0
  /\ records = [r \in Requests |-> Unknown]
  /\ gate = [r \in Requests |-> "idle"]
  /\ bypassing = FALSE
  /\ usage = 0 /\ complete = TRUE /\ lastTurn = Null /\ turns = 0
  /\ phase = "down" /\ initialized = FALSE /\ blocked = "no" /\ problems = FALSE
  /\ mine = {} /\ unproven = {} /\ spent = 0 /\ acted = {}
  /\ procs = 0 /\ faults = 0

Command ==
  \/ Initialize \/ Prompt \/ Cancel \/ Replay
  \/ \E r \in Requests :
       \/ AlreadyResolved(r)
       \/ \E d \in Words : ApprovalRespond(r, d) \/ QuestionAnswer(r, d)

Engine ==
  \/ EngineEvent \/ LateReturn
  \/ \E status \in Statuses, confirmed \in BOOLEAN : EngineReturn(status, confirmed)
  \/ \E r \in Requests : GateRequest(r) \/ GateAbort(r)

Closing == Shutdown \/ ShutdownTimeout \/ Teardown
           \/ \E ok \in BOOLEAN : EngineClosed(ok)

Next == Flush \/ FlushFails \/ Command \/ Engine \/ Deadline \/ Closing
        \/ Exit \/ Crash \/ Start

Spec == Init /\ [][Next]_vars

(* The event loop runs a queued flush, the bounds of shutdown are timers,   *)
(* and a process that has closed its session exits.                         *)
Fairness == /\ WF_vars(Flush)
            /\ WF_vars(ShutdownTimeout)
            /\ WF_vars(Teardown)
            /\ WF_vars(\E ok \in BOOLEAN : EngineClosed(ok))
            /\ WF_vars(Exit)
FairSpec == Spec /\ Fairness
=============================================================================
