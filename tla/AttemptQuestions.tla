--------------------------- MODULE AttemptQuestions ---------------------------
(***************************************************************************)
(* The questions a supervised attempt asks a person (attemptQuestions.ts,  *)
(* with the journal writes and the stop of superviseLoop.ts). The writer   *)
(* asks through the relay; the tick of the supervisor's loop opens the     *)
(* question as a request on the server, picks up the person's answer and   *)
(* offers it to the writer, whose receipt is recorded as delivery. A stop, *)
(* or the recovery from a crash, closes what is left.                      *)
(*                                                                         *)
(* An action is what happens between two awaits. A write of the journal is *)
(* one action, at the moment it takes what it writes: the process may die  *)
(* before it, and nothing sees the difference until it dies. Writes that   *)
(* wait for one another may be done in any order, as each writes all.      *)
(***************************************************************************)
EXTENDS Naturals

CONSTANTS
  Questions,    \* those within MAX_QUESTIONS; further ones are refused
  MaxFaults     \* bound on crashes, failed writes, lost calls, expired claims

VARIABLES
  phase,     \* where the attempt is: what superviseOnce does with the desk
  desk,      \* state of each question in memory, "none" before it is asked
  journal,   \* the same in the attempt journal on disk
  tick,      \* the tick of the loop: its stage, and what that has left to do
  close,     \* the close at a stop or in recovery, likewise
  saving,    \* of the tick and the close, those in an update's write
  noting,    \* questions whose receipt is answered once its write is done
  request,   \* the server's runtime request for each question (external)
  writer,    \* history: receipts sent, and those answered after their write
  claim,     \* whether the attempt's claim still holds
  faults

vars == <<phase, desk, journal, tick, close, saving, noting, request, writer,
          claim, faults>>

relay == <<noting, writer>>
outside == <<request, claim, faults>>

States == {"none", "asked", "opened", "offered", "received", "acknowledged",
           "rejected"}
Idle == [at |-> "idle", todo |-> {}]
Alive == phase \in {"running", "stopping", "closing", "recovering"}

InState(s) == {q \in Questions : desk[q] = s}
(* Variant: only questions that were offered keep the server waiting.       *)
KnownOffered == InState("offered")
Known == {q \in Questions : desk[q] # "none"}

Fault == /\ faults < MaxFaults
         /\ faults' = faults + 1
(* A call is not answered, or refused as the claim is gone. *)
CallFails == \/ Fault
             \/ ~claim /\ UNCHANGED faults

-----------------------------------------------------------------------------
(* The relay's routes (handle), open while the attempt runs. What a poll    *)
(* returns is known to the writer as soon as it is offered.                 *)
RelayOpen == phase = "running"

Ask(q) ==
  /\ RelayOpen /\ desk[q] = "none"
  /\ desk' = [desk EXCEPT ![q] = "asked"]
  /\ UNCHANGED <<phase, journal, tick, close, saving, relay, outside>>

(* One that is sent again changes nothing and is answered at once, written  *)
(* or not: kept has only those answered after their write.                  *)
Receipt(q) ==
  /\ RelayOpen /\ desk[q] = "offered"
  /\ desk' = [desk EXCEPT ![q] = "received"]
  /\ noting' = noting \cup {q}
  /\ writer' = [writer EXCEPT !.sent = @ \cup {q}]
  /\ UNCHANGED <<phase, journal, tick, close, saving, outside>>

-----------------------------------------------------------------------------
(* Writes of the journal. The teardown of a stop keeps a copy of it, so     *)
(* that an offer made meanwhile may be missing from what it writes.         *)

Copies == {j \in [Questions -> States] :
             \A q \in Questions : \/ j[q] = desk[q]
                                  \/ desk[q] = "offered" /\ j[q] = "opened"}

(* The write of an ask, or any other of the attempt; one that fails is none. *)
Save ==
  /\ \/ phase = "running" /\ journal' = desk
     \/ phase = "stopping" /\ journal' \in Copies
  /\ UNCHANGED <<phase, desk, tick, close, saving, relay, outside>>

Saved(thread) ==
  /\ Alive /\ thread \in saving
  /\ saving' = saving \ {thread}
  /\ journal' = desk
  /\ UNCHANGED <<phase, desk, tick, close, relay, outside>>

Noted(q) ==
  /\ Alive /\ q \in noting
  /\ noting' = noting \ {q}
  /\ journal' = desk
  /\ writer' = [writer EXCEPT !.kept = @ \cup {q}]
  /\ UNCHANGED <<phase, desk, tick, close, saving, outside>>

(* The process dies, or leaves the attempt to the next cycle, with the      *)
(* journal as it is on disk; all else in memory is forgotten.               *)
GoDown ==
  /\ phase' = "down"
  /\ desk' = journal'
  /\ tick' = Idle /\ close' = Idle /\ saving' = {} /\ noting' = {}
  /\ UNCHANGED <<writer, claim>>

(* A failed write leaves memory as it is. The error fails the receipt, ends *)
(* the tick and with it the run, or ends the close.                         *)
NoteFails(q) ==
  /\ Alive /\ q \in noting
  /\ Fault
  /\ noting' = noting \ {q}
  /\ UNCHANGED <<phase, desk, journal, tick, close, saving, request, writer, claim>>

TickSaveFails ==
  /\ Alive /\ "tick" \in saving
  /\ Fault
  /\ saving' = saving \ {"tick"} /\ tick' = Idle
  /\ phase' = IF phase = "running" THEN "stopping" ELSE phase
  /\ UNCHANGED <<desk, journal, close, request, claim, relay>>

(* The error of a stop's close is caught, and the stop runs once more; that  *)
(* of the second one, or of a recovery, leaves the attempt to the next cycle.*)
CloseSaveFails ==
  /\ Alive /\ "close" \in saving
  /\ Fault
  /\ \/ /\ phase = "closing" /\ phase' = "stopping"
        /\ close' = Idle /\ saving' = saving \ {"close"}
        /\ UNCHANGED <<desk, journal, tick, request, claim, relay>>
     \/ UNCHANGED <<journal, request>> /\ GoDown

-----------------------------------------------------------------------------
(* Delivery of q is recorded by the tick or the close: the server keeps the *)
(* first record of an answer. Without the reply the desk is not updated.    *)
Delivers(q, thread) ==
  /\ claim /\ request[q] \in {"answered", "delivered"}
  /\ request' = [request EXCEPT ![q] = "delivered"]
  /\ \/ /\ desk' = [desk EXCEPT ![q] = "acknowledged"]
        /\ saving' = saving \cup {thread}
        /\ UNCHANGED faults
     \/ Fault /\ UNCHANGED <<desk, saving>>

(* What recordReceipts is to record, and whether nothing is left of it.     *)
\* Variants: an offer taken for a receipt; receipts recorded only by the tick.
OfferedToo == InState("offered") \cup InState("received")
ByTheTick == IF phase = "running" THEN InState("received") ELSE {}
Unrecorded == InState("received")
\* Variants: each was tried once; offers are waited for as well.
AllTried == close.todo = {}
AllConfirmed == InState("received") \cup InState("offered") = {}
AllRecorded == InState("received") = {}

-----------------------------------------------------------------------------
(* The tick. Its calls end with the run, but what a listing returned is     *)
(* still offered in memory.                                                 *)

Ticking(stage) == tick.at = stage /\ "tick" \notin saving
TickDoes(q, stage) ==
  /\ phase = "running" /\ Ticking(stage) /\ q \in tick.todo
  /\ tick' = [tick EXCEPT !.todo = @ \ {q}]

TickBegins ==
  /\ phase = "running" /\ Ticking("idle")
  /\ tick' = [at |-> "opening", todo |-> InState("asked")]
  /\ UNCHANGED <<phase, desk, journal, close, saving, relay, outside>>

Opens(q) ==
  /\ TickDoes(q, "opening")
  /\ claim
  /\ request' = [request EXCEPT ![q] = IF @ = "none" THEN "open" ELSE @]
  /\ \/ /\ desk' = [desk EXCEPT ![q] = "opened"]
        /\ saving' = saving \cup {"tick"}
        /\ UNCHANGED faults
     \/ Fault /\ UNCHANGED <<desk, saving>>
  /\ UNCHANGED <<phase, journal, close, claim, relay>>

(* 400: the server will never open it. *)
Rejects(q) ==
  /\ TickDoes(q, "opening")
  /\ claim /\ request[q] = "none"
  /\ desk' = [desk EXCEPT ![q] = "rejected"]
  /\ saving' = saving \cup {"tick"}
  /\ UNCHANGED <<phase, journal, close, relay, outside>>

(* The listing holds every answer whose delivery is pending, also those     *)
(* offered before.                                                          *)
Pending == {q \in Questions : request[q] = "answered"}

Lists ==
  /\ phase = "running" /\ Ticking("opening") /\ tick.todo = {}
  /\ \/ /\ claim /\ UNCHANGED faults
        /\ tick' = [at |-> "offering", todo |-> Pending]
     \/ CallFails /\ tick' = [at |-> "offering", todo |-> {}]
  /\ UNCHANGED <<phase, desk, journal, close, saving, request, claim, relay>>

MayOffer(q) == q \in tick.todo /\ desk[q] = "opened"

Offers(q) ==
  /\ Alive /\ Ticking("offering") /\ MayOffer(q)
  /\ desk' = [desk EXCEPT ![q] = "offered"]
  /\ saving' = saving \cup {"tick"}
  /\ tick' = [tick EXCEPT !.todo = @ \ {q}]
  /\ UNCHANGED <<phase, journal, close, relay, outside>>

Collects ==
  /\ phase = "running" /\ Ticking("offering")
  /\ \A q \in Questions : ~MayOffer(q)
  /\ tick' = [at |-> "recording", todo |-> Unrecorded]
  /\ UNCHANGED <<phase, desk, journal, close, saving, relay, outside>>

TickRecords(q) ==
  /\ TickDoes(q, "recording")
  /\ Delivers(q, "tick")
  /\ UNCHANGED <<phase, journal, close, claim, relay>>

TickCallFails(q) ==
  /\ \E stage \in {"opening", "recording"} : TickDoes(q, stage)
  /\ CallFails
  /\ UNCHANGED <<phase, desk, journal, close, saving, request, claim, relay>>

(* The run is sealed when a question has been open for two hours by the     *)
(* server's clock. That its time of opening is noted is a Save; the tick    *)
(* that cannot write it ends in a Stop.                                     *)
TickEnds ==
  /\ phase = "running" /\ Ticking("recording") /\ tick.todo = {}
  /\ tick' = Idle
  /\ \/ phase' = "running"
     \/ phase' = "stopping" /\ InState("opened") # {}
  /\ UNCHANGED <<desk, journal, close, saving, relay, outside>>

TickIsLeft ==
  /\ Alive /\ phase # "running"
  /\ tick.at # "idle" /\ "tick" \notin saving
  /\ tick.at = "offering" => \A q \in Questions : ~MayOffer(q)
  /\ tick' = Idle
  /\ UNCHANGED <<phase, desk, journal, close, saving, relay, outside>>

-----------------------------------------------------------------------------
(* The stop, for any reason, and the close: received answers are recorded   *)
(* delivered, then unconfirmed offers failed, then the session is ended.    *)

Stop ==
  /\ phase = "running"
  /\ phase' = "stopping"
  /\ UNCHANGED <<desk, journal, tick, close, saving, relay, outside>>

CloseBegins ==
  /\ claim
  /\ \/ phase = "stopping" /\ phase' = "closing"
     \/ phase = "down" /\ phase' = "recovering"
  /\ close' = IF Known = {} THEN [at |-> "ended", todo |-> {}]
              ELSE [at |-> "recording", todo |-> Unrecorded]
  /\ UNCHANGED <<desk, journal, tick, saving, relay, outside>>

Closing(stage) == Alive /\ close.at = stage /\ "close" \notin saving
CloseDoes(q, stage) ==
  /\ Closing(stage) /\ q \in close.todo
  /\ close' = [close EXCEPT !.todo = @ \ {q}]

CloseRecords(q) ==
  /\ CloseDoes(q, "recording")
  /\ Delivers(q, "close")
  /\ UNCHANGED <<phase, journal, tick, claim, relay>>

(* A lost reply of the last kind changes nothing here: it is not looked at. *)
CloseCallFails(q) ==
  /\ \E stage \in {"recording", "failing"} : CloseDoes(q, stage)
  /\ CallFails
  /\ UNCHANGED <<phase, desk, journal, tick, saving, request, claim, relay>>

(* With a receipt unrecorded the attempt is left unsettled (keepUnsettled,  *)
(* or the end of the recovery).                                             *)
GiveUp ==
  /\ \/ phase \in {"stopping", "closing"} /\ journal' \in Copies
     \/ phase = "recovering" /\ UNCHANGED journal
  /\ GoDown

Recorded ==
  /\ Closing("recording") /\ close.todo = {}
  /\ \/ /\ AllRecorded
        /\ close' = [at |-> "failing", todo |-> InState("offered")]
        /\ UNCHANGED <<phase, desk, journal, tick, saving, claim, relay>>
     \/ ~AllRecorded /\ GiveUp
  /\ UNCHANGED <<request, faults>>

Fails(q) ==
  /\ CloseDoes(q, "failing")
  /\ claim
  /\ request' = [request EXCEPT ![q] = IF @ = "answered" THEN "failed" ELSE @]
  /\ UNCHANGED <<phase, desk, journal, tick, saving, claim, faults, relay>>

(* session_ended: the server closes what is open and fails what is pending. *)
SessionEnded == [q \in Questions |-> IF request[q] = "open" THEN "closed"
                                    ELSE IF request[q] = "answered" THEN "failed"
                                    ELSE request[q]]

Ends ==
  /\ Closing("failing") /\ close.todo = {}
  /\ claim
  /\ request' = SessionEnded
  /\ \/ /\ close' = [at |-> "ended", todo |-> {}]
        /\ UNCHANGED <<phase, desk, journal, tick, saving, claim, faults, relay>>
     \/ Fault /\ GiveUp

(* The budget is spent, or the evidence is not confirmed before the close.  *)
CloseIsCut ==
  /\ close.at # "ended" /\ "close" \notin saving
  /\ CallFails
  /\ GiveUp
  /\ UNCHANGED request

Settles ==
  /\ Closing("ended")
  /\ phase' = "settled"
  /\ UNCHANGED <<desk, journal, tick, close, saving, relay, outside>>

(* Without the claim nothing is closed: once the server has the attempt as   *)
(* over, the next cycle archives it as it is (reconcileUnclaimed).           *)
Archives ==
  /\ phase = "down" /\ ~claim
  /\ phase' = "archived"
  /\ UNCHANGED <<desk, journal, tick, close, saving, relay, outside>>

Crash ==
  /\ Alive
  /\ Fault
  /\ UNCHANGED <<journal, request>>
  /\ GoDown

-----------------------------------------------------------------------------
(* The server and the person (external). *)

Answered(q) ==
  /\ request[q] = "open"
  /\ request' = [request EXCEPT ![q] = "answered"]
  /\ UNCHANGED <<phase, desk, journal, tick, close, saving, claim, faults, relay>>

Expires ==
  /\ claim
  /\ Fault
  /\ claim' = FALSE
  /\ UNCHANGED <<phase, desk, journal, tick, close, saving, request, relay>>

-----------------------------------------------------------------------------
Init ==
  /\ phase = "running"
  /\ desk = [q \in Questions |-> "none"]
  /\ journal = [q \in Questions |-> "none"]
  /\ tick = Idle /\ close = Idle /\ saving = {} /\ noting = {}
  /\ request = [q \in Questions |-> "none"]
  /\ writer = [sent |-> {}, kept |-> {}]
  /\ claim = TRUE
  /\ faults = 0

TickStep ==
  \/ TickBegins \/ Lists \/ Collects \/ TickEnds \/ TickIsLeft \/ Saved("tick")
  \/ \E q \in Questions : \/ Opens(q) \/ Rejects(q) \/ Offers(q)
                          \/ TickRecords(q) \/ TickCallFails(q)
CloseStep ==
  \/ CloseBegins \/ Recorded \/ Ends \/ CloseIsCut \/ Settles \/ Saved("close")
  \/ \E q \in Questions : CloseRecords(q) \/ CloseCallFails(q) \/ Fails(q)
RelayStep ==
  \E q \in Questions : \/ Ask(q) \/ Receipt(q) \/ Noted(q) \/ NoteFails(q)
OtherStep ==
  \/ Save \/ TickSaveFails \/ CloseSaveFails \/ Stop \/ Crash \/ Expires \/ Archives
  \/ \E q \in Questions : Answered(q)

Next == TickStep \/ CloseStep \/ RelayStep \/ OtherStep
Spec == Init /\ [][Next]_vars

(* The loop ticks, and a stopped attempt is closed, by this process or by   *)
(* the next cycle. Nothing makes a writer ask or a person answer.           *)
FairSpec == Spec /\ WF_vars(TickStep) /\ WF_vars(CloseStep)

-----------------------------------------------------------------------------
Stages == {"idle", "opening", "offering", "recording", "failing", "ended"}

TypeOK ==
  /\ phase \in {"running", "stopping", "closing", "recovering", "down", "settled",
                "archived"}
  /\ desk \in [Questions -> States] /\ journal \in [Questions -> States]
  /\ tick \in [at : Stages, todo : SUBSET Questions]
  /\ close \in [at : Stages, todo : SUBSET Questions]
  /\ saving \subseteq {"tick", "close"} /\ noting \subseteq Questions
  /\ request \in [Questions -> {"none", "open", "answered", "delivered", "failed",
                                "closed"}]
  /\ writer \in [sent : SUBSET Questions, kept : SUBSET Questions]
  /\ claim \in BOOLEAN /\ faults \in Nat

(* What the server records of an answer is true: it is delivered only on the *)
(* writer's own receipt (attemptQuestions.ts:5-7), whatever a crash made the *)
(* supervisor forget; and failed only while the supervisor knows of none,    *)
(* by the close's failing of offers or by the end of the session, which      *)
(* fails everything pending (attemptQuestions.ts:224-227).                   *)
RecordIsTrue ==
  \A q \in Questions :
    /\ request[q] = "delivered" => q \in writer.sent
    /\ request[q] = "failed" => desk[q] \notin {"received", "acknowledged"}

(* A receipt answered once it was written is never recorded as a failed      *)
(* delivery, and the attempt is not settled before it is recorded (close).   *)
(* Of one that was sent again, and so answered before its write, this is     *)
(* false: the journal a crash leaves may not have it.  To settle is to close *)
(* under the claim: an attempt archived after its claim was gone keeps such  *)
(* a receipt unrecorded (superviseLoop.ts:405-411).                          *)
KeptIsDelivered ==
  \A q \in writer.kept :
     /\ request[q] \in {"answered", "delivered"}
     /\ phase = "settled" => request[q] = "delivered"

(* An attempt with a question in its journal settles only when the server    *)
(* has nothing open or pending of it, also of questions the journal lacks.   *)
(* With no question in its journal it may: an ask is opened from memory      *)
(* before it is written, and after a crash the recovery closes nothing.  An  *)
(* attempt archived without its claim is not settled: its questions are left *)
(* to the server.                                                            *)
NothingLeftOpen ==
  (phase = "settled" /\ \E q \in Questions : journal[q] # "none")
    => \A q \in Questions : request[q] \notin {"open", "answered"}

NotBehind(s, t) ==
  \/ s \in {t, "none"}
  \/ s = "asked" /\ t # "none"
  \/ s \in {"opened", "offered", "received"} /\ t = "acknowledged"
  \/ s \in {"opened", "offered"} /\ t = "received"
  \/ s = "opened" /\ t = "offered"

(* No write takes back what the journal holds of a question, so that nothing *)
(* is opened, offered or recorded as if for the first time. The one          *)
(* exception is an offer the teardown's copy of the journal missed.          *)
JournalMovesOn ==
  [][\A q \in Questions :
       \/ NotBehind(journal[q], journal'[q])
       \/ phase # "running" /\ journal[q] = "offered" /\ journal'[q] = "opened"]_vars

(* A stop ends in a settled attempt, through crashes and lost replies, as    *)
(* long as the claim holds.                                                  *)
StopSettles == phase = "stopping" ~> (phase = "settled" \/ ~claim)

(* An answer reaches the writer while the attempt runs, and the receipt that *)
(* was answered after its write reaches the server, at the latest in some    *)
(* recovery.                                                                 *)
AnswersArrive ==
  \A q \in Questions :
    /\ (request[q] = "answered" /\ desk[q] \in {"asked", "opened"})
         ~> (desk[q] \in {"offered", "received", "acknowledged"}
             \/ phase # "running" \/ ~claim)
    /\ q \in writer.kept ~> (request[q] = "delivered" \/ ~claim)
=============================================================================
