-------------------------- MODULE SessionProperties --------------------------
(***************************************************************************)
(* What a client, and whoever reads the wire log later, may rely on.       *)
(***************************************************************************)
EXTENDS SessionServer

Line == [events : SUBSET (Nat \X Event),
         told : SUBSET ([turn : Nat] \cup [req : Requests, decision : Words])]
RequestRecord == [state : {"unknown", "pending", "resolved"}, turn : Nat,
                  decision : Words, source : Sources]

(* Every variable holds a value of its kind; an unreported usage never gets *)
(* into a total (sessionServer.ts, state of SessionServer and WireEventLog). *)
TypeOK ==
  /\ log \in Seq(Event) /\ outbound \in Seq(Line)
  /\ duty \in {"none", "scheduled", "command", "now"}
  /\ synced \in 0 .. Len(log) /\ assumed \in Nat
  /\ copy \subseteq Nat \X Event
  /\ told \subseteq [turn : Nat] \cup [req : Requests, decision : Words]
  /\ active \in Nat /\ attempts \in Nat
  /\ cancel \in CancelReasons \cup {"none"}
  /\ ask \in {"none", "due", "running", "lost", "abandoned"}
  /\ records \in [Requests -> RequestRecord]
  /\ gate \in [Requests -> {"idle", "pending", "allow", "deny", "gone"}]
  /\ bypassing \in BOOLEAN /\ initialized \in BOOLEAN /\ problems \in BOOLEAN
  /\ usage \in Nat /\ complete \in BOOLEAN /\ lastTurn \in Nat \cup {Null}
  /\ turns \in Nat
  /\ phase \in {"down", "up", "stopping", "closing", "closed"}
  /\ blocked \in {"no", "live", "sticky"}
  /\ mine \subseteq Nat /\ unproven \subseteq Nat /\ acted \subseteq Requests
  /\ spent \in Nat /\ procs \in Nat /\ faults \in Nat

(* A client never holds a seq that a restart could lose: all it was ever    *)
(* sent, live or in a replay page and by whatever process, is in the        *)
(* durable prefix, under the same seq (group commit: emit, flush, sync).    *)
HeldIsDurable == \A p \in copy : p[1] \in 1 .. synced /\ log[p[1]] = p[2]

(* A turn the client was told of is in the durable log, and an answer it    *)
(* was told was recorded is the one resolution of that request, before and  *)
(* after any restart (approvalRespond, questionAnswer, restoreFromLog).     *)
AnswersAreFinal ==
  /\ \A i, j \in At(log, "resolved") : log[i].req = log[j].req => i = j
  /\ \A m \in told : \E i \in 1 .. synced :
       IF "req" \in DOMAIN m
       THEN log[i].type = "resolved" /\ log[i].req = m.req /\ log[i].decision = m.decision
       ELSE log[i].type = "turn.started" /\ log[i].turn = m.turn

(* The engine is told what the log says: it acts on an allow only when the  *)
(* client's allow is durable, and a resolution that is not an allow of the  *)
(* client never let it act (resolveApproval, the cancellation listeners).   *)
GateAgreesWithLog ==
  /\ \A r \in acted : \E i \in At(log, "resolved") :
       /\ i <= synced /\ log[i].req = r
       /\ log[i].source = "client" /\ Allows(log[i].decision)
  /\ \A i \in At(log, "resolved") :
       gate[log[i].req] \in
         IF log[i].source = "client" /\ Allows(log[i].decision)
         THEN {"allow", "gone"} ELSE {"deny", "gone"}

Precedes(i, j, type, t) == \E e \in At(log, type) : i < e /\ e < j /\ log[e].turn = t

(* A turn ends once, after its only usage event and after every request it  *)
(* raised is resolved, and nothing of that turn follows; no turn starts     *)
(* before the one before it has ended (runTurn, shutdown, restoreFromLog).  *)
TurnIsSealed ==
  /\ \A i \in At(log, "turn.ended") :
       LET t == log[i].turn
       IN /\ Precedes(0, i, "turn.started", t)
          /\ Cardinality({u \in At(log, "usage") : log[u].turn = t}) = 1
          /\ \A q \in At(log, "request") : log[q].turn = t =>
               \E a \in At(log, "resolved") : q < a /\ a < i /\ log[a].req = log[q].req
          /\ \A j \in i + 1 .. Len(log) :
               log[j].type # "session.closed" => log[j].turn # t
  /\ \A i, j \in At(log, "turn.started") :
       i < j => Precedes(i, j, "turn.ended", log[i].turn)

(* When session.closed is logged, every turn has its terminal event and no  *)
(* request is pending (shutdown waits for the turn, or closes it itself).   *)
ClosedLeavesNothingOpen ==
  \A c \in At(log, "session.closed") :
    /\ \A s \in At(log, "turn.started") :
         s < c => Precedes(s, c, "turn.ended", log[s].turn)
    /\ \A q \in At(log, "request") : q < c =>
         \E a \in At(log, "resolved") : q < a /\ a < c /\ log[a].req = log[q].req

(* session.closed is the last event of a process: once it is logged the     *)
(* process appends nothing more (listeners cleared, abandoned turn muted).  *)
ClosedIsLast == [][phase = "closed" /\ phase' = "closed" => log' = log]_vars

(* A turn some process died in blocks the session for good, through any     *)
(* number of clean shutdowns and restarts (restoreFromLog, prompt).         *)
DeadTurnBlocksForGood ==
  \A i \in At(log, "turn.ended"), j \in At(log, "turn.started") :
    log[i].reason = "process_exit" => j < i

(* After an unconfirmed stop no turn starts until some process has closed   *)
(* the session without an error (runTurn, prompt, restoreFromLog).          *)
LiveStopBlocks ==
  \A i \in Unconfirmed(log), j \in At(log, "turn.started") : i < j =>
    \E c \in At(log, "session.closed") : i < c /\ c < j /\ ~log[c].error

(* No turn runs beside another one whose end nobody has proved: what an     *)
(* unconfirmed stop may have left running was accounted for by the process  *)
(* that started it.                                                         *)
NoTurnBesideUnproven == ask = "running" => unproven \subseteq {active}

(* The cumulative usage never exceeds what was spent, and it is exact as    *)
(* long as it is said to be complete, across crashes and restarts.          *)
UsageIsHonest ==
  AtRest =>
    /\ usage <= spent
    /\ complete => usage + (IF active = NoTurn THEN 0 ELSE attempts) = spent

(* Once shutdown has begun the process ends, whatever its engine does, as   *)
(* long as no fsync fails (FlushFails says what happens when one does).     *)
ShutdownCompletes == phase \in {"stopping", "closing", "closed"} ~> phase = "down"

(* The durable prefix of the log and what the client was sent behave like   *)
(* the abstract stream, whatever crashes and restarts come between.         *)
Stream == INSTANCE EventStream WITH stream <- SubSeq(log, 1, synced)
ImplementsEventStream == Stream!Spec

(* A timer that has fired and an engine that has returned wait in the event *)
(* loop's queue while other handlers run: strong fairness, because a handler *)
(* in progress disables them for a moment.                                  *)
LiveSpec == FairSpec /\ SF_vars(Deadline)

EngineStops ==
  SF_vars(cancel # "none" /\ \E s \in Statuses, ok \in BOOLEAN : EngineReturn(s, ok))

(* If an aborted engine returns within its stop bound, an admitted turn     *)
(* ends: the deadline aborts it if nothing else does (runTurn).             *)
TurnEnds == EngineStops => \A t \in 1 .. MaxTurns : active = t ~> active # t
=============================================================================
