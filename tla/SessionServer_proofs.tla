------------------------- MODULE SessionServer_proofs -------------------------
(***************************************************************************)
(* Theorems about SessionServer for every engine, every finite set of      *)
(* requests and all bounds.                                                *)
(***************************************************************************)
EXTENDS SessionProperties, TLAPS, SequenceTheorems, FiniteSetTheorems,
        WellFoundedInduction

-----------------------------------------------------------------------------
(* Lemmas on data *)

(* A set of positions of a sequence has a last one, and LastOf finds it. *)
LEMMA LastOfIsLast ==
  ASSUME NEW n \in Nat, NEW S \in SUBSET (1 .. n), S # {}
  PROVE  LastOf(S) \in S /\ \A j \in S : j <= LastOf(S)
<1> DEFINE R == OpToRel(<, Nat)
           T == {n - i : i \in S}
<1>1. IsWellFoundedOn(R, Nat)
  BY NatLessThanWellFounded
<1> HIDE DEF R
<1>2. T \subseteq Nat /\ T # {}
  <2>1. \A i \in S : n - i \in Nat
    OBVIOUS
  <2>2. PICK i \in S : TRUE
    OBVIOUS
  <2>3. n - i \in T
    BY <2>2
  <2> QED BY <2>1, <2>3
<1>3. PICK x \in T : \A y \in T : ~ (<<y, x>> \in R)
  <2> HIDE DEF T
  <2> QED BY <1>1, <1>2, WFMin
<1>4. \A y \in T : ~ (y < x)
  BY <1>2, <1>3 DEF OpToRel, R
<1>5. PICK i \in S : x = n - i
  BY <1>3
<1>6. \A j \in S : j <= i
  BY <1>4, <1>5
<1> QED BY <1>6 DEF LastOf

(* An element of a concatenation is an element of one of its parts. *)
LEMMA ElementOfConcat ==
  ASSUME NEW S, NEW a \in Seq(S), NEW b \in Seq(S), NEW c \in Seq(S),
         NEW k \in DOMAIN ((a \o b) \o c)
  PROVE  \/ \E i \in DOMAIN a : ((a \o b) \o c)[k] = a[i]
         \/ \E i \in DOMAIN b : ((a \o b) \o c)[k] = b[i]
         \/ \E i \in DOMAIN c : ((a \o b) \o c)[k] = c[i]
<1>1. /\ a \o b \in Seq(S) /\ Len(a \o b) = Len(a) + Len(b)
      /\ \A i \in 1 .. Len(a) + Len(b) :
           (a \o b)[i] = IF i <= Len(a) THEN a[i] ELSE b[i - Len(a)]
  BY ConcatProperties
<1>2. /\ Len((a \o b) \o c) = Len(a \o b) + Len(c)
      /\ (a \o b) \o c \in Seq(S)
      /\ \A i \in 1 .. Len(a \o b) + Len(c) : ((a \o b) \o c)[i] =
           IF i <= Len(a \o b) THEN (a \o b)[i] ELSE c[i - Len(a \o b)]
  BY <1>1, ConcatProperties
<1>3. /\ Len(a) \in Nat /\ Len(b) \in Nat /\ Len(c) \in Nat
      /\ DOMAIN a = 1 .. Len(a) /\ DOMAIN b = 1 .. Len(b) /\ DOMAIN c = 1 .. Len(c)
      /\ k \in 1 .. Len(a) + Len(b) + Len(c)
  BY <1>1, <1>2, LenProperties
<1>4. CASE k <= Len(a)
  BY <1>1, <1>2, <1>3, <1>4
<1>5. CASE k > Len(a) /\ k <= Len(a) + Len(b)
  <2>1. ((a \o b) \o c)[k] = b[k - Len(a)] /\ k - Len(a) \in 1 .. Len(b)
    BY <1>1, <1>2, <1>3, <1>5
  <2> QED BY <2>1, <1>3
<1>6. CASE k > Len(a) + Len(b)
  <2>1. ((a \o b) \o c)[k] = c[k - (Len(a) + Len(b))]
        /\ k - (Len(a) + Len(b)) \in 1 .. Len(c)
    BY <1>1, <1>2, <1>3, <1>6
  <2> QED BY <2>1, <1>3
<1> QED BY <1>3, <1>4, <1>5, <1>6

(* The indices of a kind of event are positions of the log. *)
LEMMA AtIsFinite ==
  ASSUME NEW l \in Seq(Event), NEW type
  PROVE  /\ At(l, type) \in SUBSET (1 .. Len(l))
         /\ Cardinality(At(l, type)) \in Nat
<1>1. At(l, type) \in SUBSET (1 .. Len(l))
  BY DEF At
<1>2. IsFiniteSet(1 .. Len(l))
  BY FS_Interval
<1> QED BY <1>1, <1>2, FS_Subset, FS_CardinalityType

(* A set of requests can be listed: an order of it is a sequence of it. *)
LEMMA OrderIsSequence ==
  ASSUME NEW S \in SUBSET Requests, NEW order \in Orders(S)
  PROVE  \E n \in Nat : order \in [1 .. n -> S]
<1>1. IsFiniteSet(Requests)
  BY RequestAssumption, FS_Union DEF Requests
<1>2. Cardinality(S) \in Nat
  BY <1>1, FS_Subset, FS_CardinalityType
<1> QED BY <1>2 DEF Orders

(* The kinds of events are events. *)
LEMMA EventKinds ==
  ASSUME NEW t \in Nat
  PROVE  /\ Started(t) \in Event /\ Brain(t) \in Event
         /\ \A why \in CancelReasons : Stopping(t, why) \in Event
         /\ \A r \in Requests : Request(r, t) \in Event
         /\ \A r \in Requests, d \in Words, src \in Sources : Resolved(r, t, d, src) \in Event
         /\ \A n \in Nat \cup {Null}, m \in Nat, b \in BOOLEAN : Usage(t, n, m, b) \in Event
         /\ \A how \in Statuses \cup {"stopped", "stop_unconfirmed"} :
              \A why \in StopReasons \cup {"none"} : Ended(t, how, why) \in Event
BY DEF Event, Started, Brain, Stopping, Request, Resolved, Usage, Ended, CancelReasons

(* One or two events make a sequence of events. *)
LEMMA FewEvents ==
  ASSUME NEW a \in Event, NEW b \in Event
  PROVE  <<a>> \in Seq(Event) /\ <<a, b>> \in Seq(Event)
OBVIOUS

LEMMA ClosedIsEvent == \A b \in BOOLEAN : Closed(b) \in Event
BY DEF Event, Closed

-----------------------------------------------------------------------------
(* The inductive invariant                                                 *)
(*                                                                         *)
(* HeldIsDurable is not inductive: a flush sends what is queued, so every  *)
(* queued line must agree with the log; and the fsync before it makes the  *)
(* whole log durable, or is left out rightly: what the process takes for   *)
(* synced is.                                                              *)

Agrees(line) == \A p \in line.events : p[1] \in 1 .. Len(log) /\ log[p[1]] = p[2]
QueueAgrees == \A k \in DOMAIN outbound : Agrees(outbound[k])

Duties == {"none", "scheduled", "command", "now"}
LogTypes ==
  /\ log \in Seq(Event) /\ outbound \in Seq(Line)
  /\ duty \in Duties
  /\ synced \in 0 .. Len(log) /\ assumed = synced
  /\ copy \subseteq Nat \X Event
  /\ told \subseteq [turn : Nat] \cup [req : Requests, decision : Words]
LogInv == LogTypes /\ QueueAgrees /\ HeldIsDurable

TurnTypes ==
  /\ active \in Nat /\ attempts \in Nat
  /\ cancel \in CancelReasons \cup {"none"}
  /\ ask \in {"none", "due", "running", "lost", "abandoned"}
GateTypes ==
  /\ records \in [Requests -> RequestRecord]
  /\ gate \in [Requests -> {"idle", "pending", "allow", "deny", "gone"}]
  /\ bypassing \in BOOLEAN
UsageTypes ==
  /\ usage \in Nat /\ complete \in BOOLEAN /\ lastTurn \in Nat \cup {Null}
  /\ turns \in Nat
LifeTypes ==
  /\ phase \in {"down", "up", "stopping", "closing", "closed"}
  /\ initialized \in BOOLEAN /\ problems \in BOOLEAN
  /\ blocked \in {"no", "live", "sticky"}
OutsideTypes ==
  /\ mine \subseteq Nat /\ unproven \subseteq Nat /\ acted \subseteq Requests
  /\ spent \in Nat /\ procs \in Nat /\ faults \in Nat
StateTypes == TurnTypes /\ GateTypes /\ UsageTypes /\ LifeTypes /\ OutsideTypes

IInv == LogInv /\ StateTypes

LEMMA IInvIsTyped == IInv => TypeOK
BY DEF IInv, LogInv, LogTypes, StateTypes, TurnTypes, GateTypes, UsageTypes, LifeTypes,
       OutsideTypes, Duties, TypeOK

(* What every handler does to the log: append some events, queue a line for *)
(* each, then perhaps queue responses whose events are already in the log.  *)
(* Opening a log fsyncs it before anything is appended.                      *)
Emits(es, tail) ==
  /\ es \in Seq(Event) /\ tail \in Seq(Line)
  /\ \A k \in DOMAIN tail : Agrees(tail[k])
  /\ log' = log \o es
  /\ outbound' = (outbound \o Lines(es)) \o tail
  /\ duty' \in Duties
  /\ synced' \in synced .. Len(log) /\ assumed' = synced'
  /\ UNCHANGED <<copy, told>>

(* The lines of new events are lines, and hold the events at their new seq. *)
LEMMA LinesAreLines ==
  ASSUME log \in Seq(Event), NEW es \in Seq(Event)
  PROVE  /\ Lines(es) \in Seq(Line)
         /\ Len(Lines(es)) = Len(es)
         /\ \A k \in 1 .. Len(es) : Lines(es)[k].events = {<<Len(log) + k, es[k]>>}
<1>1. Len(es) \in Nat /\ Len(log) \in Nat
  BY LenProperties
<1>2. \A k \in 1 .. Len(es) :
        [events |-> {<<Len(log) + k, es[k]>>}, told |-> {}] \in Line
  <2> TAKE k \in 1 .. Len(es)
  <2>1. es[k] \in Event /\ Len(log) + k \in Nat
    BY <1>1, ElementOfSeq
  <2> QED BY <2>1 DEF Line
<1> QED BY <1>1, <1>2 DEF Lines

(* What a client or an fsync has is never taken back. *)
Kept ==
  /\ synced <= synced' /\ synced' <= Len(log')
  /\ \A i \in 1 .. synced : log'[i] = log[i]
  /\ copy \subseteq copy'

(* Appending keeps the log's part of the invariant. *)
LEMMA EmitsKeepsLogInv ==
  ASSUME LogInv, NEW es, NEW tail, Emits(es, tail)
  PROVE  LogInv' /\ Kept
<1>1. /\ es \in Seq(Event) /\ tail \in Seq(Line) /\ Lines(es) \in Seq(Line)
      /\ Len(Lines(es)) = Len(es)
      /\ \A k \in 1 .. Len(es) : Lines(es)[k].events = {<<Len(log) + k, es[k]>>}
  BY LinesAreLines DEF Emits, LogInv, LogTypes
<1>2. /\ log' \in Seq(Event) /\ Len(log') = Len(log) + Len(es)
      /\ Len(log) \in Nat /\ Len(es) \in Nat
      /\ \A i \in 1 .. Len(log) : log'[i] = log[i]
      /\ \A i \in 1 .. Len(es) : log'[Len(log) + i] = es[i]
  BY <1>1, ConcatProperties, LenProperties DEF Emits, LogInv, LogTypes
<1>3. outbound \o Lines(es) \in Seq(Line) /\ outbound' \in Seq(Line)
  BY <1>1, ConcatProperties DEF Emits, LogInv, LogTypes
<1>4. \A line : Agrees(line) =>
        \A p \in line.events : p[1] \in 1 .. Len(log') /\ log'[p[1]] = p[2]
  BY <1>2 DEF Agrees
<1>5. QueueAgrees'
  <2> SUFFICES ASSUME NEW k \in DOMAIN outbound', NEW p \in outbound'[k].events
               PROVE  p[1] \in 1 .. Len(log') /\ log'[p[1]] = p[2]
    BY DEF QueueAgrees, Agrees
  <2>1. CASE \E i \in DOMAIN outbound : outbound'[k] = outbound[i]
    BY <2>1, <1>4 DEF QueueAgrees, LogInv
  <2>2. CASE \E i \in DOMAIN Lines(es) : outbound'[k] = Lines(es)[i]
    <3>1. PICK i \in 1 .. Len(es) : outbound'[k] = Lines(es)[i]
      BY <2>2, <1>1, LenProperties
    <3>2. p = <<Len(log) + i, es[i]>>
      BY <3>1, <1>1
    <3> QED BY <3>2, <1>2
  <2>3. CASE \E i \in DOMAIN tail : outbound'[k] = tail[i]
    BY <2>3, <1>4 DEF Emits
  <2>4. outbound' = (outbound \o Lines(es)) \o tail /\ outbound \in Seq(Line)
    BY DEF Emits, LogInv, LogTypes
  <2> QED BY <2>1, <2>2, <2>3, <2>4, <1>1, ElementOfConcat
<1>6. HeldIsDurable' /\ synced' \in 0 .. Len(log')
  BY <1>2 DEF HeldIsDurable, Emits, LogInv, LogTypes
<1>7. Kept
  BY <1>2 DEF Kept, Emits, LogInv, LogTypes
<1> QED BY <1>2, <1>3, <1>5, <1>6, <1>7 DEF Emits, LogInv, LogTypes

(* The three ways a handler emits. *)
LEMMA EmitKeeps ==
  ASSUME LogInv, NEW es \in Seq(Event), Emit(es) \/ EmitAndFlush(es), UNCHANGED clientVars
  PROVE  LogInv' /\ Kept
<1>1. Lines(es) \in Seq(Line) /\ outbound \in Seq(Line) /\ duty \in Duties
  BY LinesAreLines DEF LogInv, LogTypes
<1>2. <<>> \in Seq(Line) /\ (outbound \o Lines(es)) \o <<>> = outbound \o Lines(es)
  BY <1>1, ConcatProperties, ConcatEmptySeq, EmptySeq
<1>3. Emits(es, <<>>)
  BY <1>1, <1>2, LenProperties DEF Emits, Emit, EmitAndFlush, Duties, LogInv, LogTypes, clientVars
<1> QED BY <1>3, EmitsKeepsLogInv

LEMMA RespondKeeps ==
  ASSUME LogInv, NEW es \in Seq(Event), NEW line \in Line, Agrees(line),
         EmitAndRespond(es, line), UNCHANGED clientVars
  PROVE  LogInv' /\ Kept
<1>1. Lines(es) \in Seq(Line) /\ outbound \in Seq(Line)
  BY LinesAreLines DEF LogInv, LogTypes
<1>2. outbound \o Lines(es) \in Seq(Line)
  BY <1>1, ConcatProperties
<1>3. /\ <<line>> \in Seq(Line)
      /\ Append(outbound \o Lines(es), line) = (outbound \o Lines(es)) \o <<line>>
  BY <1>2, AppendIsConcat
<1>4. \A k \in DOMAIN <<line>> : Agrees(<<line>>[k])
  OBVIOUS
<1>5. Emits(es, <<line>>)
  BY <1>3, <1>4, LenProperties DEF Emits, EmitAndRespond, Duties, LogInv, LogTypes, clientVars
<1> QED BY <1>5, EmitsKeepsLogInv

(* Responses are lines that agree with the log. *)
LEMMA ReplyAgrees ==
  ASSUME NEW S \in SUBSET ([turn : Nat] \cup [req : Requests, decision : Words])
  PROVE  Reply(S) \in Line /\ Agrees(Reply(S))
BY DEF Reply, Line, Agrees

LEMMA PageAgrees ==
  ASSUME LogInv, NEW after \in Nat
  PROVE  Page(after) \in Line /\ Agrees(Page(after))
<1>1. log \in Seq(Event) /\ Len(log) \in Nat /\ DOMAIN log = 1 .. Len(log)
  BY LenProperties DEF LogInv, LogTypes
<1>2. \A i \in DOMAIN log : log[i] \in Event /\ i \in Nat
  BY <1>1, ElementOfSeq
<1> QED BY <1>1, <1>2 DEF Page, Line, Agrees

(* The cancellation listeners write events. *)
LEMMA RevocationsAreEvents ==
  ASSUME StateTypes, NEW S \in SUBSET Requests, NEW order \in Orders(S)
  PROVE  Revocations(order) \in Seq(Event)
<1>1. PICK n \in Nat : order \in [1 .. n -> S]
  BY OrderIsSequence
<1>2. \A i \in 1 .. n :
        Resolved(order[i], records[order[i]].turn, Refusal(order[i]), "cancelled") \in Event
  <2> TAKE i \in 1 .. n
  <2>1. order[i] \in Requests
    BY <1>1
  <2>2. records[order[i]].turn \in Nat
    BY <2>1 DEF StateTypes, GateTypes, RequestRecord
  <2>3. Refusal(order[i]) \in Words /\ "cancelled" \in Sources
    BY DEF Refusal, Words, Sources
  <2> QED BY <2>1, <2>2, <2>3, EventKinds
<1> QED BY <1>1, <1>2 DEF Revocations

-----------------------------------------------------------------------------
(* Every step keeps the log's part of the invariant *)

(* What a handler emits is events, whichever way it emits them. *)
LEMMA CancelEventsAreEvents ==
  ASSUME StateTypes, NEW S \in SUBSET Requests, NEW order \in Orders(S),
         NEW why \in CancelReasons
  PROVE  CancelEvents(why, order) \in Seq(Event)
<1>1. Revocations(order) \in Seq(Event)
  BY RevocationsAreEvents
<1>2. <<Stopping(active, why)>> \in Seq(Event)
  BY EventKinds DEF StateTypes, TurnTypes
<1> QED BY <1>1, <1>2, ConcatProperties DEF CancelEvents

LEMMA PendingAreRequests ==
  /\ Pending \in SUBSET Requests /\ AbortedWithTurn \in SUBSET Requests
  /\ \A S \in SUBSET Requests : StillOpen(S) \in SUBSET Requests
BY DEF Pending, AbortedWithTurn, StillOpen

LEMMA TurnUsageTypes ==
  ASSUME StateTypes, NEW status \in Statuses, NEW u \in TurnUsage(status)
  PROVE  u.used \in Nat \cup {Null} /\ u.complete \in BOOLEAN /\ Total(u.used) \in Nat
<1> attempts \in Nat
  BY DEF StateTypes, TurnTypes
<1>1. u.used \in Nat \cup {Null} /\ u.complete \in BOOLEAN
  <2>1. CASE Kind = "harness"
    <3>1. \/ u = [used |-> attempts, complete |-> TRUE]
          \/ \E n \in 0 .. attempts : u = [used |-> n, complete |-> FALSE]
      BY <2>1 DEF TurnUsage
    <3>2. u.used \in Nat
      BY <3>1
    <3>3. u.complete = FALSE \/ u.complete = TRUE
      BY <3>1
    <3> QED BY <3>2, <3>3
  <2>2. CASE Kind # "harness" /\ status = "completed"
    <3>1. u \in {[used |-> Null, complete |-> FALSE], [used |-> attempts, complete |-> TRUE]}
      BY <2>2 DEF TurnUsage
    <3>2. u.used = Null \/ u.used = attempts
      BY <3>1
    <3>3. u.complete = FALSE \/ u.complete = TRUE
      BY <3>1
    <3> QED BY <3>2, <3>3
  <2>3. CASE Kind # "harness" /\ status # "completed"
    <3>1. \/ u = [used |-> Null, complete |-> FALSE]
          \/ \E n \in 0 .. attempts : u = [used |-> n, complete |-> FALSE]
      BY <2>3 DEF TurnUsage
    <3>2. u.used = Null \/ u.used \in Nat
      BY <3>1
    <3>3. u.complete = FALSE
      BY <3>1
    <3> QED BY <3>2, <3>3
  <2> QED BY <2>1, <2>2, <2>3
<1>2. usage \in Nat
  BY DEF StateTypes, UsageTypes
<1> QED BY <1>1, <1>2 DEF Total, Null

LEMMA CommandKeepsLog ==
  ASSUME IInv, Command
  PROVE  LogInv' /\ Kept
<1>1. LogInv /\ StateTypes /\ <<>> \in Seq(Event)
  BY EmptySeq DEF IInv
<1>2. CASE Initialize
  <2>1. Reply({}) \in Line /\ Agrees(Reply({}))
    BY ReplyAgrees
  <2> QED BY <1>1, <1>2, <2>1, RespondKeeps DEF Initialize
<1>3. CASE Prompt
  <2>1. <<Started(turns + 1)>> \in Seq(Event)
    BY <1>1, EventKinds DEF StateTypes, UsageTypes
  <2>2. Reply({Admitted(turns + 1)}) \in Line /\ Agrees(Reply({Admitted(turns + 1)}))
    BY <1>1, ReplyAgrees DEF Admitted, StateTypes, UsageTypes
  <2> QED BY <1>1, <1>3, <2>1, <2>2, RespondKeeps DEF Prompt
<1>4. CASE Cancel
  <2>1. PICK order \in Orders(StillOpen(AbortedWithTurn)) :
          EmitAndRespond(CancelEvents("client", order), Reply({}))
    BY <1>4 DEF Cancel
  <2>2. CancelEvents("client", order) \in Seq(Event)
    BY <1>1, CancelEventsAreEvents, PendingAreRequests DEF CancelReasons
  <2>3. Reply({}) \in Line /\ Agrees(Reply({}))
    BY ReplyAgrees
  <2> QED BY <1>1, <1>4, <2>1, <2>2, <2>3, RespondKeeps DEF Cancel
<1>5. CASE Replay
  <2>1. Cursor \in Nat
    <3>1. IsFiniteSet(DOMAIN log)
      BY <1>1, FS_Interval, LenProperties DEF LogInv, LogTypes
    <3> QED BY <3>1, FS_Subset, FS_CardinalityType DEF Cursor
  <2> QED BY <1>1, <1>5, <2>1, PageAgrees, RespondKeeps DEF Replay
<1>6. ASSUME NEW r \in Requests, AlreadyResolved(r)
      PROVE  LogInv' /\ Kept
  <2>1. records[r].decision \in Words
    BY <1>1 DEF StateTypes, GateTypes, RequestRecord
  <2>2. LET line == Reply({Recorded(r, records[r].decision)})
        IN line \in Line /\ Agrees(line)
    BY <2>1, ReplyAgrees DEF Recorded
  <2> QED BY <1>1, <1>6, <2>2, RespondKeeps DEF AlreadyResolved
<1>7. ASSUME NEW r \in Requests, NEW d \in Words,
             ApprovalRespond(r, d) \/ QuestionAnswer(r, d)
      PROVE  LogInv' /\ Kept
  <2>1. records[r].turn \in Nat /\ "client" \in Sources
    BY <1>1 DEF StateTypes, GateTypes, RequestRecord, Sources
  <2>2. <<Resolved(r, records[r].turn, d, "client")>> \in Seq(Event)
    BY <2>1, EventKinds
  <2>3. Reply({Recorded(r, d)}) \in Line /\ Agrees(Reply({Recorded(r, d)}))
    BY ReplyAgrees DEF Recorded
  <2> QED BY <1>1, <1>7, <2>2, <2>3, RespondKeeps DEF ApprovalRespond, QuestionAnswer
<1> QED BY <1>2, <1>3, <1>4, <1>5, <1>6, <1>7 DEF Command

LEMMA EngineKeepsLog ==
  ASSUME IInv, Engine \/ Deadline
  PROVE  LogInv' /\ Kept
<1>1. LogInv /\ StateTypes /\ <<>> \in Seq(Event) /\ active \in Nat
  BY EmptySeq DEF IInv, StateTypes, TurnTypes
<1>2. CASE EngineEvent
  <2>1. Relayed \in Seq(Event)
    BY <1>1, EventKinds DEF Relayed
  <2> QED BY <1>1, <1>2, <2>1, EmitKeeps DEF EngineEvent
<1>3. CASE LateReturn
  BY <1>1, <1>3 DEF LateReturn, logVars, clientVars, LogInv, LogTypes, QueueAgrees, Agrees,
       HeldIsDurable, Kept
<1>4. ASSUME NEW status \in Statuses, NEW confirmed \in BOOLEAN,
             EngineReturn(status, confirmed)
      PROVE  LogInv' /\ Kept
  <2>1. PICK order \in ApprovalsFirst(StillOpen(Pending)), u \in TurnUsage(status) :
          EmitAndFlush(Revocations(order) \o
            <<Usage(active, u.used, Total(u.used), complete /\ u.complete),
              Terminal(status, confirmed)>>)
    BY <1>4 DEF EngineReturn
  <2>2. Revocations(order) \in Seq(Event)
    BY <1>1, RevocationsAreEvents, PendingAreRequests DEF ApprovalsFirst
  <2>3. (complete /\ u.complete) \in BOOLEAN
    OBVIOUS
  <2>4. Usage(active, u.used, Total(u.used), complete /\ u.complete) \in Event
    BY <1>1, <2>3, TurnUsageTypes, EventKinds
  <2>5. cancel \in StopReasons \cup {"none"}
    BY <1>1 DEF StateTypes, TurnTypes, StopReasons
  <2>6. Terminal(status, confirmed) \in Event
    <3>1. CASE cancel = "none"
      BY <1>1, <3>1, EventKinds DEF Terminal
    <3>2. CASE cancel # "none"
      BY <1>1, <3>2, <2>5, EventKinds DEF Terminal
    <3> QED BY <3>1, <3>2
  <2> DEFINE rest == <<Usage(active, u.used, Total(u.used), complete /\ u.complete),
                       Terminal(status, confirmed)>>
  <2>7. rest \in Seq(Event)
    BY <2>4, <2>6
  <2>8. Revocations(order) \o rest \in Seq(Event)
    <3> HIDE DEF rest
    <3> QED BY <2>2, <2>7, ConcatProperties
  <2> QED BY <1>1, <1>4, <2>1, <2>8, EmitKeeps DEF EngineReturn
<1>5. ASSUME NEW r \in Requests, GateRequest(r)
      PROVE  LogInv' /\ Kept
  <2>1. <<Request(r, active)>> \in Seq(Event)
    BY <1>1, EventKinds
  <2> QED BY <1>1, <1>5, <2>1, EmitKeeps DEF GateRequest
<1>6. ASSUME NEW r \in Requests, GateAbort(r)
      PROVE  LogInv' /\ Kept
  <2>1. PICK order \in Orders(StillOpen({r})) : Emit(Revocations(order))
    BY <1>6 DEF GateAbort
  <2>2. Revocations(order) \in Seq(Event)
    BY <1>1, RevocationsAreEvents, PendingAreRequests
  <2> QED BY <1>1, <1>6, <2>1, <2>2, EmitKeeps DEF GateAbort
<1>7. CASE Deadline
  <2>1. PICK order \in Orders(StillOpen(AbortedWithTurn)) :
          Emit(CancelEvents("deadline", order))
    BY <1>7 DEF Deadline
  <2>2. CancelEvents("deadline", order) \in Seq(Event)
    BY <1>1, CancelEventsAreEvents, PendingAreRequests DEF CancelReasons
  <2> QED BY <1>1, <1>7, <2>1, <2>2, EmitKeeps DEF Deadline
<1> QED BY <1>2, <1>3, <1>4, <1>5, <1>6, <1>7 DEF Engine

LEMMA ClosingKeepsLog ==
  ASSUME IInv, Closing
  PROVE  LogInv' /\ Kept
<1>1. LogInv /\ StateTypes /\ active \in Nat
  BY DEF IInv, StateTypes, TurnTypes
<1>2. CASE Shutdown
  <2>1. CASE active # NoTurn /\ cancel = "none"
    <3>1. PICK order \in Orders(StillOpen(AbortedWithTurn)) :
            Emit(CancelEvents("shutdown", order))
      BY <1>2, <2>1 DEF Shutdown
    <3>2. CancelEvents("shutdown", order) \in Seq(Event)
      BY <1>1, CancelEventsAreEvents, PendingAreRequests DEF CancelReasons
    <3> QED BY <1>1, <1>2, <3>1, <3>2, EmitKeeps DEF Shutdown
  <2>2. CASE ~(active # NoTurn /\ cancel = "none")
    BY <1>1, <1>2, <2>2 DEF Shutdown, logVars, clientVars, LogInv, LogTypes, QueueAgrees,
         Agrees, HeldIsDurable, Kept
  <2> QED BY <2>1, <2>2
<1>3. CASE ShutdownTimeout
  <2> DEFINE rest == <<Usage(active, Null, usage, FALSE),
                       Ended(active, "stop_unconfirmed", "shutdown_timeout")>>
  <2>1. PICK order \in ApprovalsFirst(StillOpen(Pending)) : EmitAndFlush(Revocations(order) \o rest)
    BY <1>3 DEF ShutdownTimeout
  <2>2. Revocations(order) \in Seq(Event)
    BY <1>1, RevocationsAreEvents, PendingAreRequests DEF ApprovalsFirst
  <2>3. rest \in Seq(Event)
    <3>1. Usage(active, Null, usage, FALSE) \in Event
      BY <1>1, EventKinds DEF StateTypes, UsageTypes
    <3>2. Ended(active, "stop_unconfirmed", "shutdown_timeout") \in Event
      BY <1>1, EventKinds DEF StopReasons
    <3> QED BY <3>1, <3>2, FewEvents
  <2>4. Revocations(order) \o rest \in Seq(Event)
    <3> HIDE DEF rest
    <3> QED BY <2>2, <2>3, ConcatProperties
  <2> QED BY <1>1, <1>3, <2>1, <2>4, EmitKeeps DEF ShutdownTimeout
<1>4. CASE Teardown
  <2>1. PICK order \in ApprovalsFirst(StillOpen(Pending)) : Emit(Revocations(order))
    BY <1>4 DEF Teardown
  <2>2. Revocations(order) \in Seq(Event)
    BY <1>1, RevocationsAreEvents, PendingAreRequests DEF ApprovalsFirst
  <2> QED BY <1>1, <1>4, <2>1, <2>2, EmitKeeps DEF Teardown
<1>5. ASSUME NEW ok \in BOOLEAN, EngineClosed(ok)
      PROVE  LogInv' /\ Kept
  <2>1. (problems \/ ~ok) \in BOOLEAN
    OBVIOUS
  <2>2. <<Closed(problems \/ ~ok)>> \in Seq(Event)
    BY <2>1, ClosedIsEvent, FewEvents
  <2> QED BY <1>1, <1>5, <2>2, EmitKeeps DEF EngineClosed
<1> QED BY <1>2, <1>3, <1>4, <1>5 DEF Closing

(* A flush sends what is queued, after an fsync of the whole log. *)
LEMMA FlushKeepsLog ==
  ASSUME IInv, Flush
  PROVE  LogInv' /\ Kept
<1>1. LogInv /\ log \in Seq(Event) /\ Len(log) \in Nat /\ outbound \in Seq(Line)
  BY LenProperties DEF IInv, LogInv, LogTypes
<1>2. /\ synced \in 0 .. Len(log) /\ synced' \in 0 .. Len(log) /\ synced <= synced'
      /\ log' = log /\ assumed' = synced'
  BY <1>1 DEF Flush, Flushed, LogInv, LogTypes
<1>3. \A k \in DOMAIN outbound : /\ outbound[k].events \subseteq Nat \X Event
                                 /\ outbound[k].told \subseteq
                                      [turn : Nat] \cup [req : Requests, decision : Words]
  <2> TAKE k \in DOMAIN outbound
  <2>1. outbound[k] \in Line
    BY <1>1, LenProperties, ElementOfSeq
  <2> QED BY <2>1 DEF Line
<1>4. LogTypes'
  <2>1. copy' \subseteq Nat \X Event
    BY <1>1, <1>3 DEF Flush, LogInv, LogTypes
  <2>2. told' \subseteq [turn : Nat] \cup [req : Requests, decision : Words]
    BY <1>1, <1>3 DEF Flush, LogInv, LogTypes
  <2>3. outbound' \in Seq(Line) /\ duty' \in Duties
    BY EmptySeq DEF Flush, Duties
  <2> QED BY <1>1, <1>2, <2>1, <2>2, <2>3 DEF LogTypes
<1>5. QueueAgrees'
  BY DEF Flush, QueueAgrees
<1>6. HeldIsDurable'
  <2> SUFFICES ASSUME NEW p \in copy' PROVE p[1] \in 1 .. synced' /\ log[p[1]] = p[2]
    BY <1>2 DEF HeldIsDurable
  <2>1. CASE p \in copy
    BY <1>1, <1>2, <2>1 DEF LogInv, HeldIsDurable
  <2>2. CASE p \notin copy
    <3>1. PICK k \in DOMAIN outbound : p \in outbound[k].events
      BY <2>2 DEF Flush
    <3>2. outbound # <<>> /\ synced' = Len(log)
      BY <1>1, <3>1 DEF Flush, Flushed, LogInv, LogTypes
    <3> QED BY <1>1, <3>1, <3>2 DEF LogInv, QueueAgrees, Agrees
  <2> QED BY <2>1, <2>2
<1>7. Kept
  BY <1>1, <1>2 DEF Kept, Flush
<1> QED BY <1>4, <1>5, <1>6, <1>7 DEF LogInv

LEMMA FlushFailsKeepsLog ==
  ASSUME IInv, FlushFails
  PROVE  LogInv' /\ Kept
<1>1. LogInv
  BY DEF IInv
<1>2. log' = log /\ outbound' = outbound /\ UNCHANGED clientVars /\ duty' \in Duties
  BY DEF FlushFails, Duties
<1> QED BY <1>1, <1>2 DEF clientVars, LogInv, LogTypes, QueueAgrees, Agrees, HeldIsDurable, Kept

(* A process that ends keeps at least the durable prefix. *)
LEMMA EndKeepsLog ==
  ASSUME IInv, Exit \/ Crash
  PROVE  LogInv' /\ Kept
<1>1. LogInv /\ log \in Seq(Event) /\ Len(log) \in Nat /\ synced \in 0 .. Len(log)
  BY LenProperties DEF IInv, LogInv, LogTypes
<1>2. /\ log' \in Seq(Event) /\ synced <= Len(log') /\ Len(log') \in Nat
      /\ \A i \in 1 .. synced : log'[i] = log[i]
  <2>1. CASE Exit
    BY <1>1, <2>1 DEF Exit
  <2>2. CASE Crash
    <3>1. PICK kept \in synced .. Len(log) : log' = SubSeq(log, 1, kept)
      BY <2>2 DEF Crash
    <3>2. kept \in Nat /\ kept <= Len(log) /\ synced <= kept
      BY <1>1, <3>1
    <3>3. \A i \in 1 .. kept : log[i] \in Event
      BY <1>1, <3>2, ElementOfSeq
    <3> QED BY <1>1, <3>1, <3>2, <3>3, SubSeqProperties
  <2> QED BY <2>1, <2>2
<1>3. outbound' = <<>> /\ duty' = "none" /\ UNCHANGED clientVars
  BY DEF Exit, Crash, Forget
<1>4. LogTypes' /\ QueueAgrees'
  BY <1>1, <1>2, <1>3, EmptySeq DEF LogInv, LogTypes, QueueAgrees, clientVars, Duties
<1>5. HeldIsDurable'
  BY <1>1, <1>2, <1>3 DEF LogInv, HeldIsDurable, clientVars
<1>6. Kept
  BY <1>1, <1>2, <1>3 DEF Kept, clientVars
<1> QED BY <1>4, <1>5, <1>6 DEF LogInv

-----------------------------------------------------------------------------
(* What is restored from a log of events is well typed *)

LEMMA EventFields ==
  ASSUME NEW e \in Event
  PROVE  /\ e.type \in {"turn.started", "request", "resolved", "usage", "turn.ended"} =>
              e.turn \in Nat
         /\ e.type = "resolved" => e.decision \in Words /\ e.source \in Sources
         /\ e.type = "usage" => /\ e.used \in Nat \cup {Null}
                                /\ e.cumulative \in Nat
BY DEF Event

LEMMA LastAt ==
  ASSUME NEW l \in Seq(Event), NEW S, S \subseteq DOMAIN l, S # {}
  PROVE  LastOf(S) \in S /\ l[LastOf(S)] \in Event
<1>1. Len(l) \in Nat /\ DOMAIN l = 1 .. Len(l)
  BY LenProperties
<1>2. LastOf(S) \in S
  BY <1>1, LastOfIsLast
<1> QED BY <1>1, <1>2, ElementOfSeq

LEMMA RestoredTypes ==
  ASSUME NEW l \in Seq(Event)
  PROVE  /\ OpenTurn(l) \in Nat
         /\ RestoredUsage(l) \in Nat
         /\ RestoredLastTurn(l) \in Nat \cup {Null}
         /\ \A r \in Requests : RestoredRecord(l, r) \in RequestRecord
<1>1. OpenTurn(l) \in Nat
  <2> DEFINE S == At(l, "turn.started")
  <2>1. CASE S = {}
    BY <2>1 DEF OpenTurn, NoTurn
  <2>2. CASE S # {}
    <3>1. S \subseteq DOMAIN l /\ \A i \in S : l[i].type = "turn.started"
      BY DEF At
    <3>2. LastOf(S) \in S /\ l[LastOf(S)] \in Event
      BY <2>2, <3>1, LastAt
    <3>3. l[LastOf(S)].turn \in Nat
      BY <3>1, <3>2, EventFields
    <3> QED BY <2>2, <3>3 DEF OpenTurn, NoTurn
  <2> QED BY <2>1, <2>2
<1>2. RestoredUsage(l) \in Nat /\ RestoredLastTurn(l) \in Nat \cup {Null}
  <2> DEFINE S == At(l, "usage")
  <2>1. CASE S = {}
    BY <2>1 DEF RestoredUsage, RestoredLastTurn
  <2>2. CASE S # {}
    <3>1. S \subseteq DOMAIN l /\ \A i \in S : l[i].type = "usage"
      BY DEF At
    <3>2. LastOf(S) \in S /\ l[LastOf(S)] \in Event
      BY <2>2, <3>1, LastAt
    <3>3. l[LastOf(S)].cumulative \in Nat /\ l[LastOf(S)].used \in Nat \cup {Null}
      BY <3>1, <3>2, EventFields
    <3> QED BY <2>2, <3>3 DEF RestoredUsage, RestoredLastTurn
  <2> QED BY <2>1, <2>2
<1>3. ASSUME NEW r \in Requests
      PROVE  RestoredRecord(l, r) \in RequestRecord
  <2> DEFINE asked == {i \in At(l, "request") : l[i].req = r}
             answers == {i \in At(l, "resolved") : l[i].req = r}
  <2>1. /\ asked \subseteq DOMAIN l /\ \A i \in asked : l[i].type = "request"
        /\ answers \subseteq DOMAIN l /\ \A i \in answers : l[i].type = "resolved"
    BY DEF At
  <2>2. asked # {} => l[LastOf(asked)].turn \in Nat
    <3> SUFFICES ASSUME asked # {} PROVE l[LastOf(asked)].turn \in Nat
      OBVIOUS
    <3>1. LastOf(asked) \in asked /\ l[LastOf(asked)] \in Event
      BY <2>1, LastAt
    <3> QED BY <2>1, <3>1, EventFields
  <2>3. answers # {} => /\ l[LastOf(answers)].decision \in Words
                        /\ l[LastOf(answers)].source \in Sources
    <3> SUFFICES ASSUME answers # {}
                 PROVE  /\ l[LastOf(answers)].decision \in Words
                        /\ l[LastOf(answers)].source \in Sources
      OBVIOUS
    <3>1. LastOf(answers) \in answers /\ l[LastOf(answers)] \in Event
      BY <2>1, LastAt
    <3> QED BY <2>1, <3>1, EventFields
  <2>4. Refusal(r) \in Words /\ "deny" \in Words /\ "client" \in Sources
    BY DEF Refusal, Words, Sources
  <2>5. CASE asked = {}
    <3>1. RestoredRecord(l, r) = Unknown
      BY <2>5 DEF RestoredRecord
    <3> QED BY <3>1, <2>4 DEF Unknown, RequestRecord, NoTurn
  <2>6. CASE asked # {} /\ answers = {}
    <3>1. RestoredRecord(l, r) = Record("pending", l[LastOf(asked)].turn, Refusal(r), "client")
      BY <2>6 DEF RestoredRecord
    <3> QED BY <3>1, <2>2, <2>4, <2>6 DEF Record, RequestRecord
  <2>7. CASE asked # {} /\ answers # {}
    <3>1. RestoredRecord(l, r) =
            Record("resolved", l[LastOf(asked)].turn, l[LastOf(answers)].decision,
                   l[LastOf(answers)].source)
      BY <2>7 DEF RestoredRecord
    <3> QED BY <3>1, <2>2, <2>3, <2>7 DEF Record, RequestRecord
  <2> QED BY <2>5, <2>6, <2>7
<1> QED BY <1>1, <1>2, <1>3

(* What a restart logs: the resolutions in order, the usage if none was     *)
(* recorded, and the terminal event if a turn was open.                     *)
RefusedAll(l, order) ==
  [i \in DOMAIN order |->
     Resolved(order[i], RestoredRecord(l, order[i]).turn, Refusal(order[i]), "process_exit")]
CountedOpen(l) ==
  IF UsageUnknown(l) THEN <<Usage(OpenTurn(l), Null, RestoredUsage(l), FALSE)>> ELSE <<>>
EndedOpen(l) ==
  IF OpenTurn(l) = NoTurn THEN <<>> ELSE <<Ended(OpenTurn(l), "stop_unconfirmed", "process_exit")>>

LEMMA RecoveryParts ==
  ASSUME NEW l \in Seq(Event), NEW order \in ApprovalsFirst(LeftPending(l))
  PROVE  /\ RefusedAll(l, order) \in Seq(Event)
         /\ CountedOpen(l) \in Seq(Event) /\ EndedOpen(l) \in Seq(Event)
         /\ Recovery(l, order) = (RefusedAll(l, order) \o CountedOpen(l)) \o EndedOpen(l)
<1>1. LeftPending(l) \in SUBSET Requests
  BY DEF LeftPending
<1>2. PICK n \in Nat : order \in [1 .. n -> LeftPending(l)]
  BY <1>1, OrderIsSequence DEF ApprovalsFirst
<1>3. RefusedAll(l, order) \in Seq(Event)
  <2>1. \A i \in 1 .. n :
          Resolved(order[i], RestoredRecord(l, order[i]).turn, Refusal(order[i]),
                   "process_exit") \in Event
    <3> TAKE i \in 1 .. n
    <3>1. order[i] \in Requests
      BY <1>1, <1>2
    <3>2. RestoredRecord(l, order[i]).turn \in Nat
      BY <3>1, RestoredTypes DEF RequestRecord
    <3>3. Refusal(order[i]) \in Words /\ "process_exit" \in Sources
      BY DEF Refusal, Words, Sources
    <3> QED BY <3>1, <3>2, <3>3, EventKinds
  <2> QED BY <1>2, <2>1 DEF RefusedAll
<1>4. CountedOpen(l) \in Seq(Event)
  <2>1. Usage(OpenTurn(l), Null, RestoredUsage(l), FALSE) \in Event
    BY RestoredTypes, EventKinds
  <2> QED BY <2>1, FewEvents, EmptySeq DEF CountedOpen
<1>5. EndedOpen(l) \in Seq(Event)
  <2>1. Ended(OpenTurn(l), "stop_unconfirmed", "process_exit") \in Event
    BY RestoredTypes, EventKinds DEF StopReasons
  <2> QED BY <2>1, FewEvents, EmptySeq DEF EndedOpen
<1>6. Recovery(l, order) = (RefusedAll(l, order) \o CountedOpen(l)) \o EndedOpen(l)
  BY DEF Recovery, RefusedAll, CountedOpen, EndedOpen
<1> QED BY <1>3, <1>4, <1>5, <1>6

(* It logs events only. *)
LEMMA RecoveryIsEvents ==
  ASSUME NEW l \in Seq(Event), NEW order \in ApprovalsFirst(LeftPending(l))
  PROVE  Recovery(l, order) \in Seq(Event)
<1>1. /\ RefusedAll(l, order) \o CountedOpen(l) \in Seq(Event)
      /\ EndedOpen(l) \in Seq(Event)
  BY RecoveryParts, ConcatProperties
<1>2. (RefusedAll(l, order) \o CountedOpen(l)) \o EndedOpen(l) \in Seq(Event)
  BY <1>1, ConcatProperties
<1> QED BY <1>2, RecoveryParts

(* A new process fsyncs the log it opens, then closes what was left open. *)
LEMMA StartKeepsLog ==
  ASSUME IInv, Start
  PROVE  LogInv' /\ Kept
<1>1. LogInv /\ log \in Seq(Event) /\ Len(log) \in Nat /\ synced \in 0 .. Len(log)
  BY LenProperties DEF IInv, LogInv, LogTypes
<1>2. PICK order \in ApprovalsFirst(LeftPending(log)) :
        IF Recovery(log, order) = <<>> THEN UNCHANGED logVars
        ELSE EmitAndFlush(Recovery(log, order))
  BY DEF Start
<1> DEFINE es == Recovery(log, order)
<1>3. es \in Seq(Event)
  BY <1>1, RecoveryIsEvents
<1>4. synced' = Len(log) /\ assumed' = synced' /\ UNCHANGED <<copy, told>>
  BY DEF Start, Opened
<1>5. CASE es = <<>>
  <2>1. log' = log /\ outbound' = outbound /\ duty' = duty
    BY <1>2, <1>5 DEF logVars
  <2> QED BY <1>1, <1>4, <2>1
          DEF LogInv, LogTypes, QueueAgrees, Agrees, HeldIsDurable, Kept
<1>6. CASE es # <<>>
  <2>1. EmitAndFlush(es)
    BY <1>2, <1>6
  <2>2. Lines(es) \in Seq(Line) /\ outbound \in Seq(Line) /\ <<>> \in Seq(Line)
    BY <1>1, <1>3, LinesAreLines, EmptySeq DEF LogInv, LogTypes
  <2>3. (outbound \o Lines(es)) \o <<>> = outbound \o Lines(es)
    BY <2>2, ConcatProperties, ConcatEmptySeq
  <2> HIDE DEF es
  <2>4. Emits(es, <<>>)
    BY <1>1, <1>3, <1>4, <2>1, <2>2, <2>3 DEF Emits, EmitAndFlush, Duties
  <2> QED BY <1>1, <2>4, EmitsKeepsLogInv
<1> QED BY <1>5, <1>6

LEMMA StepKeepsLog ==
  ASSUME IInv, [Next]_vars
  PROVE  LogInv' /\ Kept
<1>1. CASE UNCHANGED vars
  <2>1. LogInv /\ UNCHANGED <<logVars, clientVars>> /\ Len(log) \in Nat
    BY <1>1, LenProperties DEF IInv, LogInv, LogTypes, vars
  <2> QED BY <2>1 DEF logVars, clientVars, LogInv, LogTypes, QueueAgrees, Agrees,
                      HeldIsDurable, Kept
<1> QED BY <1>1, FlushKeepsLog, FlushFailsKeepsLog, CommandKeepsLog, EngineKeepsLog,
        ClosingKeepsLog, EndKeepsLog, StartKeepsLog DEF Next

-----------------------------------------------------------------------------
(* Every step keeps the types of the state *)

LEMMA RevokeTypes ==
  ASSUME StateTypes, NEW S, Revoke(S), bypassing' = bypassing
  PROVE  GateTypes'
<1>1. GateTypes
  BY DEF StateTypes
<1>2. \A r \in Requests : /\ Refusal(r) \in Words /\ "cancelled" \in Sources
                          /\ records[r].turn \in Nat
  BY <1>1 DEF Refusal, Words, Sources, GateTypes, RequestRecord
<1>3. \A r \in Requests :
        Record("resolved", records[r].turn, Refusal(r), "cancelled") \in RequestRecord
  BY <1>2 DEF Record, RequestRecord
<1>4. records' \in [Requests -> RequestRecord]
  BY <1>1, <1>3 DEF Revoke, GateTypes
<1>5. gate' \in [Requests -> {"idle", "pending", "allow", "deny", "gone"}]
  BY <1>1 DEF Revoke, GateTypes
<1> QED BY <1>1, <1>4, <1>5 DEF GateTypes

LEMMA FlushKeepsTypes ==
  ASSUME StateTypes, Flush \/ FlushFails
  PROVE  StateTypes'
<1>1. TurnTypes'
  BY DEF Flush, FlushFails, StateTypes, TurnTypes
<1>2. GateTypes' /\ UsageTypes' /\ LifeTypes'
  BY DEF Flush, FlushFails, StateTypes, GateTypes, UsageTypes, LifeTypes, gateVars,
         usageVars, lifeVars
<1>3. OutsideTypes'
  <2>1. mine' \subseteq Nat /\ unproven' \subseteq Nat /\ acted' \subseteq Requests
    BY DEF Flush, FlushFails, StateTypes, OutsideTypes, TurnTypes
  <2>2. spent' \in Nat /\ procs' \in Nat /\ faults' \in Nat
    <3>1. spent \in Nat /\ procs \in Nat /\ faults \in Nat
      BY DEF StateTypes, OutsideTypes
    <3>2. CASE Flush
      BY <3>1, <3>2 DEF Flush, boundVars
    <3>3. CASE FlushFails
      BY <3>1, <3>3 DEF FlushFails
    <3> QED BY <3>2, <3>3
  <2> QED BY <2>1, <2>2 DEF OutsideTypes
<1> QED BY <1>1, <1>2, <1>3 DEF StateTypes

LEMMA CommandKeepsTypes ==
  ASSUME StateTypes, Command
  PROVE  StateTypes'
<1>1. CASE Initialize
  BY <1>1 DEF Initialize, StateTypes, TurnTypes, GateTypes, UsageTypes, LifeTypes,
       OutsideTypes, turnVars, gateVars, usageVars, outsideVars, boundVars
<1>2. CASE Prompt
  <2>1. TurnTypes'
    BY <1>2 DEF Prompt, StateTypes, TurnTypes, UsageTypes
  <2>2. UsageTypes'
    BY <1>2 DEF Prompt, StateTypes, UsageTypes
  <2> QED BY <1>2, <2>1, <2>2 DEF Prompt, StateTypes, GateTypes, LifeTypes, OutsideTypes,
               gateVars, lifeVars, outsideVars, boundVars
<1>3. CASE Cancel
  <2>1. GateTypes'
    BY <1>3, RevokeTypes DEF Cancel
  <2>2. TurnTypes'
    BY <1>3 DEF Cancel, StateTypes, TurnTypes, CancelReasons
  <2> QED BY <1>3, <2>1, <2>2 DEF Cancel, StateTypes, UsageTypes, LifeTypes, OutsideTypes,
               usageVars, lifeVars, outsideVars, boundVars
<1>4. CASE Replay
  BY <1>4 DEF Replay, StateTypes, TurnTypes, GateTypes, UsageTypes, LifeTypes,
       OutsideTypes, turnVars, gateVars, usageVars, lifeVars, outsideVars, boundVars
<1>5. ASSUME NEW r \in Requests, AlreadyResolved(r)
      PROVE  StateTypes'
  BY <1>5 DEF AlreadyResolved, StateTypes, TurnTypes, GateTypes, UsageTypes, LifeTypes,
       OutsideTypes, turnVars, gateVars, usageVars, lifeVars, outsideVars, boundVars
<1>6. ASSUME NEW r \in Requests, NEW d \in Words,
             ApprovalRespond(r, d) \/ QuestionAnswer(r, d)
      PROVE  StateTypes'
  <2>1. GateTypes
    BY DEF StateTypes
  <2>2. Record("resolved", records[r].turn, d, "client") \in RequestRecord
    BY <2>1 DEF GateTypes, RequestRecord, Record, Sources
  <2>3. records' = [records EXCEPT ![r] = Record("resolved", records[r].turn, d, "client")]
    BY <1>6 DEF ApprovalRespond, QuestionAnswer
  <2>4. records' \in [Requests -> RequestRecord]
    BY <2>1, <2>2, <2>3 DEF GateTypes
  <2>5. gate' \in [Requests -> {"idle", "pending", "allow", "deny", "gone"}]
    BY <1>6, <2>1 DEF ApprovalRespond, QuestionAnswer, GateTypes
  <2>6. bypassing' \in BOOLEAN
    BY <1>6, <2>1 DEF ApprovalRespond, QuestionAnswer, GateTypes
  <2>7. UNCHANGED <<turnVars, usageVars, lifeVars, outsideVars, boundVars>>
    BY <1>6 DEF ApprovalRespond, QuestionAnswer
  <2> QED BY <2>4, <2>5, <2>6, <2>7 DEF StateTypes, TurnTypes, GateTypes, UsageTypes,
               LifeTypes, OutsideTypes, turnVars, usageVars, lifeVars, outsideVars, boundVars
<1> QED BY <1>1, <1>2, <1>3, <1>4, <1>5, <1>6 DEF Command

LEMMA EngineKeepsTypes ==
  ASSUME StateTypes, Engine \/ Deadline
  PROVE  StateTypes'
<1>1. CASE EngineEvent
  BY <1>1 DEF EngineEvent, StateTypes, TurnTypes, GateTypes, UsageTypes, LifeTypes,
       OutsideTypes, gateVars, usageVars, lifeVars, boundVars
<1>2. CASE LateReturn
  BY <1>2 DEF LateReturn, StateTypes, TurnTypes, GateTypes, UsageTypes, LifeTypes,
       OutsideTypes, gateVars, usageVars, lifeVars, outsideVars, boundVars
<1>3. ASSUME NEW status \in Statuses, NEW confirmed \in BOOLEAN,
             EngineReturn(status, confirmed)
      PROVE  StateTypes'
  <2>1. TurnTypes'
    BY <1>3 DEF EngineReturn, StateTypes, TurnTypes, NoTurn
  <2>2. GateTypes'
    BY <1>3, RevokeTypes DEF EngineReturn
  <2>3. UsageTypes'
    <3>1. PICK u \in TurnUsage(status) :
            /\ usage' = Total(u.used)
            /\ complete' = (complete /\ u.complete)
            /\ lastTurn' = u.used
      BY <1>3 DEF EngineReturn
    <3>2. u.used \in Nat \cup {Null} /\ Total(u.used) \in Nat
      BY TurnUsageTypes
    <3>3. complete' \in BOOLEAN
      BY <3>1
    <3>4. turns' \in Nat
      BY <1>3 DEF EngineReturn, StateTypes, UsageTypes
    <3> QED BY <3>1, <3>2, <3>3, <3>4 DEF UsageTypes
  <2>4. LifeTypes'
    BY <1>3 DEF EngineReturn, StateTypes, LifeTypes
  <2>5. OutsideTypes'
    BY <1>3 DEF EngineReturn, StateTypes, OutsideTypes, boundVars
  <2> QED BY <2>1, <2>2, <2>3, <2>4, <2>5 DEF StateTypes
<1>4. ASSUME NEW r \in Requests, GateRequest(r)
      PROVE  StateTypes'
  <2>1. Record("pending", active, Refusal(r), "client") \in RequestRecord
    BY DEF StateTypes, TurnTypes, Record, RequestRecord, Refusal, Words, Sources
  <2>2. GateTypes'
    BY <1>4, <2>1 DEF GateRequest, StateTypes, GateTypes
  <2> QED BY <1>4, <2>2 DEF GateRequest, StateTypes, TurnTypes, UsageTypes, LifeTypes,
               OutsideTypes, turnVars, usageVars, lifeVars, outsideVars, boundVars
<1>5. ASSUME NEW r \in Requests, GateAbort(r)
      PROVE  StateTypes'
  <2>1. GateTypes'
    BY <1>5, RevokeTypes DEF GateAbort
  <2> QED BY <1>5, <2>1 DEF GateAbort, StateTypes, TurnTypes, UsageTypes, LifeTypes,
               OutsideTypes, turnVars, usageVars, lifeVars, outsideVars, boundVars
<1>6. CASE Deadline
  <2>1. GateTypes'
    BY <1>6, RevokeTypes DEF Deadline
  <2>2. TurnTypes'
    BY <1>6 DEF Deadline, StateTypes, TurnTypes, CancelReasons
  <2> QED BY <1>6, <2>1, <2>2 DEF Deadline, StateTypes, UsageTypes, LifeTypes, OutsideTypes,
               usageVars, lifeVars, outsideVars, boundVars
<1> QED BY <1>1, <1>2, <1>3, <1>4, <1>5, <1>6 DEF Engine

LEMMA ClosingKeepsTypes ==
  ASSUME StateTypes, Closing
  PROVE  StateTypes'
<1>1. CASE Shutdown
  <2>1. CASE active # NoTurn /\ cancel = "none"
    <3>1. GateTypes'
      BY <1>1, <2>1, RevokeTypes DEF Shutdown
    <3>2. TurnTypes'
      BY <1>1, <2>1 DEF Shutdown, StateTypes, TurnTypes, CancelReasons
    <3> QED BY <1>1, <3>1, <3>2 DEF Shutdown, StateTypes, UsageTypes, LifeTypes,
                 OutsideTypes, usageVars, outsideVars, boundVars
  <2>2. CASE ~(active # NoTurn /\ cancel = "none")
    BY <1>1, <2>2 DEF Shutdown, StateTypes, TurnTypes, GateTypes, UsageTypes, LifeTypes,
         OutsideTypes, usageVars, outsideVars, boundVars
  <2> QED BY <2>1, <2>2
<1>2. CASE ShutdownTimeout
  <2>1. GateTypes'
    BY <1>2, RevokeTypes DEF ShutdownTimeout
  <2>2. TurnTypes' /\ UsageTypes'
    BY <1>2 DEF ShutdownTimeout, StateTypes, TurnTypes, UsageTypes, NoTurn
  <2> QED BY <1>2, <2>1, <2>2 DEF ShutdownTimeout, StateTypes, LifeTypes, OutsideTypes,
               outsideVars, boundVars
<1>3. CASE Teardown
  <2>1. GateTypes'
    BY <1>3, RevokeTypes DEF Teardown
  <2> QED BY <1>3, <2>1 DEF Teardown, StateTypes, TurnTypes, UsageTypes, LifeTypes,
               OutsideTypes, turnVars, usageVars, outsideVars, boundVars
<1>4. ASSUME NEW ok \in BOOLEAN, EngineClosed(ok)
      PROVE  StateTypes'
  <2>1. LifeTypes'
    <3>1. problems' \in BOOLEAN
      BY <1>4 DEF EngineClosed
    <3> QED BY <1>4, <3>1 DEF EngineClosed, StateTypes, LifeTypes
  <2>2. OutsideTypes'
    BY <1>4 DEF EngineClosed, StateTypes, OutsideTypes, boundVars
  <2> QED BY <1>4, <2>1, <2>2 DEF EngineClosed, StateTypes, TurnTypes, GateTypes,
               UsageTypes, turnVars, gateVars, usageVars
<1> QED BY <1>1, <1>2, <1>3, <1>4 DEF Closing

LEMMA EndKeepsTypes ==
  ASSUME StateTypes, Exit \/ Crash
  PROVE  StateTypes'
<1>1. Forget /\ UNCHANGED <<unproven, spent, acted, boundVars>>
  BY DEF Exit, Crash
<1>2. \A r \in Requests : Unknown \in RequestRecord
  BY DEF Unknown, RequestRecord, NoTurn, Words, Sources
<1>3. GateTypes'
  BY <1>1, <1>2 DEF Forget, StateTypes, GateTypes
<1>4. TurnTypes' /\ UsageTypes' /\ LifeTypes'
  BY <1>1 DEF Forget, TurnTypes, UsageTypes, LifeTypes, NoTurn
<1>5. OutsideTypes'
  BY <1>1 DEF Forget, StateTypes, OutsideTypes, boundVars
<1> QED BY <1>3, <1>4, <1>5 DEF StateTypes

LEMMA StartKeepsTypes ==
  ASSUME IInv, Start
  PROVE  StateTypes'
<1>1. StateTypes /\ log \in Seq(Event)
  BY DEF IInv, LogInv, LogTypes
<1>2. \A r \in LeftPending(log) :
        Record("resolved", RestoredRecord(log, r).turn, Refusal(r), "process_exit")
          \in RequestRecord
  <2> TAKE r \in LeftPending(log)
  <2>1. r \in Requests
    BY DEF LeftPending
  <2>2. RestoredRecord(log, r).turn \in Nat
    BY <1>1, <2>1, RestoredTypes DEF RequestRecord
  <2> QED BY <2>2 DEF Record, RequestRecord, Refusal, Words, Sources
<1>3. records' \in [Requests -> RequestRecord]
  BY <1>1, <1>2, RestoredTypes DEF Start
<1>4. GateTypes'
  BY <1>1, <1>3 DEF Start, StateTypes, GateTypes
<1>5. UsageTypes'
  <2>1. turns' \in Nat
    BY <1>1, AtIsFinite DEF Start
  <2>2. usage' \in Nat /\ lastTurn' \in Nat \cup {Null}
    BY <1>1, RestoredTypes DEF Start
  <2>3. complete' \in BOOLEAN
    BY DEF Start
  <2> QED BY <2>1, <2>2, <2>3 DEF UsageTypes
<1>6. LifeTypes'
  BY <1>1 DEF Start, RestoredBlock, StateTypes, LifeTypes
<1>7. OutsideTypes' /\ TurnTypes'
  BY <1>1 DEF Start, StateTypes, OutsideTypes, TurnTypes, outsideVars, turnVars
<1> QED BY <1>4, <1>5, <1>6, <1>7 DEF StateTypes

LEMMA StepKeepsTypes ==
  ASSUME IInv, [Next]_vars
  PROVE  StateTypes'
<1>1. StateTypes
  BY DEF IInv
<1>2. CASE UNCHANGED vars
  BY <1>1, <1>2 DEF vars, StateTypes, TurnTypes, GateTypes, UsageTypes, LifeTypes,
       OutsideTypes, turnVars, gateVars, usageVars, lifeVars, outsideVars, boundVars
<1> QED BY <1>1, <1>2, FlushKeepsTypes, CommandKeepsTypes, EngineKeepsTypes,
        ClosingKeepsTypes, EndKeepsTypes, StartKeepsTypes DEF Next

-----------------------------------------------------------------------------
(* The theorems *)

LEMMA InitIsInv == Init => IInv
<1> SUFFICES ASSUME Init PROVE IInv
  OBVIOUS
<1>1. LogInv
  <2>1. LogTypes
    BY EmptySeq DEF Init, LogTypes, Duties
  <2> QED BY <2>1 DEF Init, LogInv, QueueAgrees, HeldIsDurable
<1>2. GateTypes
  BY DEF Init, GateTypes, Unknown, RequestRecord, NoTurn, Words, Sources
<1>3. TurnTypes /\ UsageTypes /\ LifeTypes /\ OutsideTypes
  BY DEF Init, TurnTypes, UsageTypes, LifeTypes, OutsideTypes, NoTurn
<1> QED BY <1>1, <1>2, <1>3 DEF IInv, StateTypes

LEMMA StepKeepsInv == IInv /\ [Next]_vars => IInv'
BY StepKeepsLog, StepKeepsTypes DEF IInv

LEMMA InvHolds == Spec => []IInv
<1>1. Init => IInv
  BY InitIsInv
<1>2. IInv /\ [Next]_vars => IInv'
  BY StepKeepsInv
<1> QED BY <1>1, <1>2, PTL DEF Spec

(* The state of the server, its log and its client keeps its types: what a  *)
(* process restores from any log it can find is well typed too, and no      *)
(* unreported usage enters a total (restoreFromLog, runTurn).               *)
THEOREM TypeCorrect == Spec => []TypeOK
<1>1. IInv => TypeOK
  BY IInvIsTyped
<1> QED BY <1>1, InvHolds, PTL

(* Nothing the client holds can be lost: the group commit, for any number   *)
(* of processes, crashes, turns and requests.                               *)
THEOREM Durability == Spec => []HeldIsDurable
<1>1. IInv => HeldIsDurable
  BY DEF IInv, LogInv
<1> QED BY <1>1, InvHolds, PTL

LEMMA PrefixOfLog ==
  ASSUME NEW l \in Seq(Event), NEW n \in 0 .. Len(l)
  PROVE  /\ SubSeq(l, 1, n) \in Seq(Event) /\ Len(SubSeq(l, 1, n)) = n
         /\ \A i \in 1 .. n : SubSeq(l, 1, n)[i] = l[i]
<1>1. n \in Nat /\ \A i \in 1 .. n : l[i] \in Event
  BY LenProperties, ElementOfSeq
<1> QED BY <1>1, SubSeqProperties

(* A step of the server publishes a piece of the stream, or nothing.        *)
LEMMA StepPublishes ==
  ASSUME IInv, IInv', Kept
  PROVE  Stream!Publish
<1> DEFINE s == SubSeq(log, 1, synced)
           t == SubSeq(log', 1, synced')
<1>1. /\ log \in Seq(Event) /\ synced \in Nat /\ synced <= Len(log) /\ Len(log) \in Nat
      /\ log' \in Seq(Event) /\ synced' \in Nat /\ synced' <= Len(log') /\ Len(log') \in Nat
  BY LenProperties DEF IInv, LogInv, LogTypes
<1>2. synced \in 0 .. Len(log) /\ synced' \in 0 .. Len(log')
  BY <1>1
<1>3. s \in Seq(Event) /\ Len(s) = synced /\ \A i \in 1 .. synced : s[i] = log[i]
  BY <1>1, <1>2, PrefixOfLog
<1>4. t \in Seq(Event) /\ Len(t) = synced' /\ \A i \in 1 .. synced' : t[i] = log'[i]
  BY <1>1, <1>2, PrefixOfLog
<1>5. DOMAIN s = 1 .. synced /\ DOMAIN t = 1 .. synced'
  BY <1>3, <1>4, LenProperties
<1>6. synced <= synced' /\ \A i \in 1 .. synced : log'[i] = log[i]
  BY DEF Kept
<1>7. \A i \in DOMAIN s : t[i] = s[i]
  BY <1>1, <1>3, <1>4, <1>5, <1>6
<1>8. copy' \subseteq Stream!Numbered(t)
  <2> SUFFICES ASSUME NEW p \in copy' PROVE p \in Stream!Numbered(t)
    OBVIOUS
  <2>1. p \in Nat \X Event /\ p[1] \in 1 .. synced' /\ log'[p[1]] = p[2]
    BY DEF IInv, LogInv, LogTypes, HeldIsDurable
  <2>2. p = <<p[1], t[p[1]]>>
    BY <1>4, <2>1
  <2> QED BY <1>5, <2>1, <2>2 DEF Stream!Numbered
<1> HIDE DEF s, t
<1> QED BY <1>3, <1>4, <1>6, <1>7, <1>8 DEF Stream!Publish, Kept, s, t

(* Seen from a client, crashes and restarts do not exist: the durable log   *)
(* and what the client was sent are an event stream.                        *)
THEOREM Refinement == Spec => ImplementsEventStream
<1>1. Init => Stream!Init
  BY SubSeqEmpty DEF Init, Stream!Init
<1>2. IInv /\ IInv' /\ [Next]_vars => [Stream!Publish]_<<SubSeq(log, 1, synced), copy>>
  BY StepKeepsLog, StepPublishes
<1> QED BY <1>1, <1>2, InvHolds, PTL DEF Spec, ImplementsEventStream, Stream!Spec

=============================================================================
