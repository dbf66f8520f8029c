-------------------------- MODULE SupervisedAttempt --------------------------
(***************************************************************************)
(* One supervised attempt after another: superviseOnce of                  *)
(* supervisor/superviseLoop.ts with its teardown (attemptSettle.ts,        *)
(* stopAttempt.ts), the settlement it posts (attemptReport.ts) and the     *)
(* recovery of what a crash left (attemptRecovery.ts), next to the Docker  *)
(* daemon and the server.  The process may die between any two steps; the  *)
(* journal, the ledger, the containers and the server stay.                *)
(*                                                                         *)
(* The plan has no checkout: what the attempt makes is a network, a relay  *)
(* sidecar and the agent.  Receipts are in CleanupReceipts.                *)
(***************************************************************************)
EXTENDS Integers, Sequences, FiniteSets

CONSTANTS
  Dispatches,  \* what the server has for this machine, one work item each
  Faults       \* bound: crashes, lost or refused calls, failures of the daemon

VARIABLES
  journal,     \* the attempt journal on disk, or NoJournal
  ledger,      \* dispatches an attempt was started for
  archived,    \* attempts under retired/: dispatch and surfaced conflicts
  pc,          \* where the process is in superviseOnce
  launched,    \* the process started the containers
  awaiting,    \* the create whose answer the process waits for, or "none"
  found,       \* what the current sweep listed
  daemon,      \* per dispatch and role: what Docker has of it
  alive,       \* dispatches whose agent container is running
  server,      \* the server's record of each dispatch
  told,        \* dispatches whose workload was told to go: history
  faults

process == <<pc, launched, awaiting, found>>
docker == <<daemon, alive>>
vars == <<journal, ledger, archived, process, docker, server, told, faults>>

Roles == {"network", "sidecar", "agent"}
NoJournal == [d |-> "none"]
Reasons == {"none", "stop", "exited", "lost", "shutdown", "failed", "recovered"}

NoSettlement == [started |-> FALSE, report |-> "none", work |-> "none"]

(* state 'claimed' *)
FreshJournal(d) ==
  [d |-> d, state |-> "active", workspace |-> FALSE, attached |-> FALSE,
   ids |-> {}, pending |-> {}, held |-> FALSE, empty |-> TRUE,
   evidence |-> "none", reason |-> "none", exit |-> "none", settlement |-> NoSettlement]

Settlement(started, report) == [started |-> started, report |-> report, work |-> "pending"]

D == journal.d
S == server[D]
Goto(at) == pc' = at /\ UNCHANGED <<launched, awaiting, found>>
Fault == faults < Faults /\ faults' = faults + 1

(* What Docker has of a resource. The last two are of a create whose CLI    *)
(* ended without the daemon's answer: still asked, and made after all.      *)
DockerHas == {"absent", "asked", "there", "unanswered", "stray"}
Listed == {"there", "stray"}

-----------------------------------------------------------------------------
(* Stopping: settle, stopAttempt and ownedResources *)

(* A started container was journaled as a sidecar or an agent. *)
Started == {"sidecar", "agent"} \cap journal.ids # {}

(* superviseOnce finds a journal that is not a settlement: a create without *)
(* an answer stays pending unless its resource is there under its name.     *)
Unresolved(d) == {r \in journal.pending : daemon[d][r] # "there"}

Recover ==
  /\ pc = "top" /\ journal # NoJournal /\ journal.state # "settling"
  /\ journal' = [journal EXCEPT
       !.pending = Unresolved(D),
       !.reason = IF @ = "none" THEN "recovered" ELSE @]
  /\ Goto("kill again")
  /\ UNCHANGED <<ledger, archived, docker, server, told, faults>>

(* The known containers are killed, the run's label lists the others. A     *)
(* kill that does not show the cgroup empty removes nothing.                *)
Kill(listed, empty) ==
  /\ pc \in {"kill", "kill again"}
  /\ found' = journal.ids \cup (IF listed THEN {r \in Roles : daemon[D][r] \in Listed} ELSE {})
  /\ alive' = IF empty THEN alive \ {D} ELSE alive
  /\ journal' = [journal EXCEPT !.held = ~listed \/ ~empty, !.empty = empty]
  /\ ~empty => journal.attached
  /\ pc' = CASE pc = "kill" -> "remove" [] pc = "kill again" -> "remove again"
  /\ IF listed /\ empty THEN UNCHANGED faults ELSE Fault
  /\ UNCHANGED <<ledger, archived, launched, awaiting, daemon, server, told>>

(* Removal of what was found; one may fail. What is pending is held too.    *)
Remove(failed) ==
  /\ pc \in {"remove", "remove again"}
  /\ failed \subseteq found
  /\ LET gone == IF journal.empty THEN found \ failed ELSE {} IN
     /\ daemon' = [daemon EXCEPT ![D] =
                     [r \in Roles |-> IF r \in gone /\ @[r] \in Listed THEN "absent" ELSE @[r]]]
     /\ journal' = [journal EXCEPT
          !.held = @ \/ failed # {} \/ journal.pending # {},
          !.state = IF journal.held \/ failed # {} \/ journal.pending # {} THEN "held" ELSE @]
  /\ IF failed = {} THEN UNCHANGED faults ELSE Fault
  /\ pc' = IF pc = "remove" THEN "evidence" ELSE "recovered"
  /\ found' = {}
  /\ UNCHANGED <<ledger, archived, launched, awaiting, alive, server, told>>

(* Evidence that was owed but never frozen can never be acknowledged.       *)
Recovered ==
  /\ pc = "recovered"
  /\ IF journal.held
     THEN UNCHANGED journal /\ Goto("top")
     ELSE /\ journal' = [journal EXCEPT !.state = "settling",
               !.evidence = IF @ = "owed" THEN "refused" ELSE @,
               !.settlement = IF @ # NoSettlement THEN @
                 ELSE Settlement(Started, IF journal.workspace THEN "pending" ELSE "skipped")]
          /\ Goto("consume")
  /\ UNCHANGED <<ledger, archived, docker, server, told, faults>>

-----------------------------------------------------------------------------
(* consume, and the start of a new attempt *)

Top ==
  /\ pc = "top" /\ (journal # NoJournal => journal.state = "settling")
  /\ Goto("consume")
  /\ UNCHANGED <<journal, ledger, archived, docker, server, told, faults>>

(* The server hands out the dispatch this machine holds, else a queued one. *)
Offered == LET mine == {d \in Dispatches : server[d].claim = "live"}
           IN IF mine # {} THEN mine ELSE {d \in Dispatches : server[d].claim = "queued"}

Claimed(d) == [server EXCEPT ![d].claim = "live", ![d].work =
                 IF server[d].claim = "queued" THEN "claimed" ELSE @]

(* A dispatch that expired unsettled makes the server refuse: 409.          *)
Refused ==
  /\ pc = "consume"
  /\ \E d \in Dispatches : server[d].claim = "expired"
  /\ Goto("top")
  /\ UNCHANGED <<journal, ledger, archived, docker, server, told, faults>>

Consume ==
  /\ pc = "consume"
  /\ \A d \in Dispatches : server[d].claim # "expired"
  /\ \/ \E d \in Offered :
          /\ server' = Claimed(d)
          /\ IF journal = NoJournal
             THEN journal' = FreshJournal(d) /\ Goto("claimed")
             ELSE UNCHANGED journal /\ Goto(IF d = D THEN "resume" ELSE "reconcile")
     \/ /\ Offered = {} /\ UNCHANGED <<server, journal>>
        /\ Goto(IF journal = NoJournal THEN "top" ELSE "reconcile")
  /\ UNCHANGED <<ledger, archived, docker, told, faults>>

(* conclude: the settlement is saved, then posted. *)
Concluding(reason, started, report) ==
  [journal EXCEPT !.state = "settling", !.settlement = Settlement(started, report),
                  !.reason = IF @ = "none" THEN reason ELSE @]

(* A dispatch of the ledger was started here once: it is never run again.   *)
AlreadyExecuted ==
  /\ pc = "claimed" /\ D \in ledger
  /\ journal' = Concluding("recovered", TRUE, "skipped")
  /\ Goto("post")
  /\ UNCHANGED <<ledger, archived, docker, server, told, faults>>

(* No plan, no lease: the start is refused before anything is done.         *)
RefuseStart ==
  /\ pc = "claimed" /\ D \notin ledger
  /\ Fault
  /\ journal' = Concluding("failed", FALSE, "skipped")
  /\ Goto("post")
  /\ UNCHANGED <<ledger, archived, docker, server, told>>

(* Variant: the dispatch is not written down before the attach. *)
Unrecorded == ledger

Recorded == ledger \cup {D}

RecordDispatch ==
  /\ pc = "claimed" /\ D \notin ledger
  /\ ledger' = Recorded
  /\ Goto("recorded")
  /\ UNCHANGED <<journal, archived, docker, server, told, faults>>

SaveWorkspace ==
  /\ pc = "recorded"
  /\ journal' = [journal EXCEPT !.workspace = TRUE]
  /\ Goto("attach")
  /\ UNCHANGED <<ledger, archived, docker, server, told, faults>>

(* Only a fresh attempt in `starting` is a launch; the reply may be lost.   *)
Attach(reply) ==
  /\ pc = "attach"
  /\ LET fresh == S.claim = "live" /\ S.attempt = "none" IN
     /\ \/ server' = IF fresh THEN [server EXCEPT ![D].attempt = "open"] ELSE server
        \/ ~reply /\ UNCHANGED server
     /\ IF reply /\ fresh
        THEN journal' = [journal EXCEPT !.attached = TRUE] /\ Goto("create")
        ELSE journal' = Concluding("failed", FALSE, "pending") /\ Goto("post")
  /\ IF reply THEN UNCHANGED faults ELSE Fault
  /\ UNCHANGED <<ledger, archived, docker, told>>

-----------------------------------------------------------------------------
(* Creates: journaled before they are sent, recorded whenever they answer   *)

NextRole == IF "network" \notin journal.ids THEN "network"
            ELSE IF "sidecar" \notin journal.ids THEN "sidecar" ELSE "agent"

(* Variant: the create is sent, and journaled with its answer. *)
NotJournaled(r) == UNCHANGED journal

JournalCreate(r) == journal' = [journal EXCEPT !.pending = @ \cup {r}]

AskCreate ==
  /\ pc = "create" /\ journal.ids # Roles
  /\ JournalCreate(NextRole)
  /\ pc' = "ask" /\ UNCHANGED <<launched, awaiting, found>>
  /\ UNCHANGED <<ledger, archived, docker, server, told, faults>>

Ask ==
  /\ pc = "ask"
  /\ daemon' = [daemon EXCEPT ![D][NextRole] = "asked"]
  /\ pc' = "asking" /\ awaiting' = NextRole /\ UNCHANGED <<launched, found>>
  /\ UNCHANGED <<journal, ledger, archived, alive, server, told, faults>>

(* The answer is recorded during the start and while finish waits for it.   *)
Created ==
  /\ awaiting # "none" /\ daemon[D][awaiting] = "there"
  /\ journal' = [journal EXCEPT !.ids = @ \cup {awaiting}, !.pending = @ \ {awaiting}]
  /\ awaiting' = "none"
  /\ pc' = IF pc = "asking" THEN "create" ELSE pc
  /\ UNCHANGED <<ledger, archived, launched, found, docker, server, told, faults>>

(* The CLI fails, and the create is no longer pending: the daemon refused   *)
(* it, or the CLI ended without its answer, which the code takes for the    *)
(* same.  Only a CLI cut off by the deadline leaves the create pending.     *)
CreateFails(refused) ==
  /\ awaiting # "none" /\ daemon[D][awaiting] \in {"asked", "there"}
  /\ refused => daemon[D][awaiting] = "asked"
  /\ Fault
  /\ daemon' = [daemon EXCEPT ![D][awaiting] = IF refused THEN "absent"
                 ELSE IF daemon[D][awaiting] = "asked" THEN "unanswered" ELSE "stray"]
  /\ journal' = [journal EXCEPT !.pending = @ \ {awaiting},
                                !.reason = IF @ = "none" THEN "failed" ELSE @]
  /\ awaiting' = "none" /\ pc' = "stop"
  /\ UNCHANGED <<ledger, archived, launched, found, alive, server, told>>

(* The daemon itself: an outstanding request ends, made or not. *)
Make(d, r) ==
  /\ daemon[d][r] = "asked"
  /\ daemon' = [daemon EXCEPT ![d][r] = "there"]
  /\ UNCHANGED <<journal, ledger, archived, process, alive, server, told, faults>>

Drop(d, r) ==
  /\ daemon[d][r] = "asked" /\ ~(journal # NoJournal /\ D = d /\ awaiting = r)
  /\ Fault
  /\ daemon' = [daemon EXCEPT ![d][r] = "absent"]
  /\ UNCHANGED <<journal, ledger, archived, process, alive, server, told>>

(* Nobody waits for it, no journal names it.                                *)
MakeUnanswered(d, r) ==
  /\ daemon[d][r] = "unanswered"
  /\ daemon' = [daemon EXCEPT ![d][r] = "stray"]
  /\ UNCHANGED <<journal, ledger, archived, process, alive, server, told, faults>>

-----------------------------------------------------------------------------
(* The run *)

StartContainers ==
  /\ pc = "create" /\ journal.ids = Roles
  /\ alive' = alive \cup {D}
  /\ pc' = "ready" /\ launched' = TRUE /\ UNCHANGED <<awaiting, found>>
  /\ UNCHANGED <<journal, ledger, archived, daemon, server, told, faults>>

(* The launcher is ready: from here the workload's log is owed as evidence. *)
Ready ==
  /\ pc = "ready"
  /\ journal' = [journal EXCEPT !.evidence = "owed"]
  /\ Goto("ack")
  /\ UNCHANGED <<ledger, archived, docker, server, told, faults>>

(* The dispatch is acknowledged, then the attempt reported running.         *)
Acknowledge ==
  /\ pc \in {"ack", "report running"} /\ S.claim = "live"
  /\ Goto(IF pc = "ack" THEN "report running" ELSE "go")
  /\ UNCHANGED <<journal, ledger, archived, docker, server, told, faults>>

Go ==
  /\ pc = "go"
  /\ told' = told \cup {D}
  /\ Goto("run")
  /\ UNCHANGED <<journal, ledger, archived, docker, server, faults>>

Exit(code) ==
  /\ pc = "run"
  /\ journal' = [journal EXCEPT !.reason = "exited", !.exit = code]
  /\ alive' = alive \ {D}
  /\ Goto("stop")
  /\ UNCHANGED <<ledger, archived, daemon, server, told, faults>>

(* Every await of the start and of the run may end it instead.              *)
Stop(reason) ==
  /\ pc \in {"create", "asking", "ready", "ack", "report running", "go", "run"}
  /\ reason \in {"shutdown", "failed", "lost", "stop"}
  /\ reason = "stop" => pc = "run"
  /\ IF reason = "lost" /\ S.claim # "live" THEN UNCHANGED faults ELSE Fault
  /\ journal' = [journal EXCEPT !.reason = reason]
  /\ Goto("stop")
  /\ UNCHANGED <<ledger, archived, docker, server, told>>

(* finish waits for a create in flight, within its budget.                  *)
StopWaited ==
  /\ pc = "stop"
  /\ awaiting' = "none"
  /\ pc' = "kill" /\ UNCHANGED <<launched, found>>
  /\ IF awaiting = "none" THEN UNCHANGED faults ELSE Fault
  /\ UNCHANGED <<journal, ledger, archived, docker, server, told>>

(* The log is frozen once everything stopped, or was not captured whole.    *)
Freeze(captured) ==
  /\ pc = "evidence"
  /\ IF journal.evidence = "owed"
     THEN /\ journal' = [journal EXCEPT !.evidence = IF captured THEN "frozen" ELSE "refused"]
          /\ Goto(IF captured THEN "upload" ELSE "close")
     ELSE UNCHANGED journal /\ captured /\ Goto("close")
  /\ IF captured THEN UNCHANGED faults ELSE Fault
  /\ UNCHANGED <<ledger, archived, docker, server, told>>

(* It is uploaded while the claim holds, after a stop that was clean.       *)
Uploadable == IF pc = "resume" THEN journal.evidence = "frozen"
              ELSE pc = "upload" /\ journal.empty /\ journal.reason \notin {"shutdown", "lost"}

Upload(acknowledged) ==
  /\ pc \in {"upload", "resume"} /\ journal.evidence = "frozen"
  /\ acknowledged => Uploadable /\ S.claim = "live"
  /\ journal' = [journal EXCEPT !.evidence = IF acknowledged THEN "acknowledged" ELSE "refused"]
  /\ server' \in {[server EXCEPT ![D].proof = p] :
                    p \in {S.proof \/ acknowledged, S.proof \/ (Uploadable /\ S.claim = "live")}}
  /\ IF acknowledged \/ ~Uploadable \/ S.claim # "live" THEN UNCHANGED faults ELSE Fault
  /\ IF pc = "upload" THEN Goto("close") ELSE UNCHANGED process
  /\ UNCHANGED <<ledger, archived, docker, told>>

(* A shutdown within the upload, or a question left unrecorded: nothing is  *)
(* decided; the next start sweeps again and goes on (keepUnsettled).        *)
KeepUnsettled ==
  /\ pc \in {"upload", "close", "resume"}
  /\ Fault
  /\ journal' = IF pc = "resume" THEN journal
                ELSE [journal EXCEPT !.settlement = Settlement(launched, "pending")]
  /\ Goto("top")
  /\ UNCHANGED <<ledger, archived, docker, server, told>>

(* Variant: what is held is not looked at before the server is told. *)
AlwaysConcludes == TRUE

MayConclude == ~journal.held

Close ==
  /\ pc = "close"
  /\ IF MayConclude
     THEN journal' = Concluding(journal.reason, launched, "pending") /\ Goto("post")
     ELSE journal' = [journal EXCEPT !.settlement = Settlement(launched, "pending")] /\ Goto("top")
  /\ UNCHANGED <<ledger, archived, docker, server, told, faults>>

-----------------------------------------------------------------------------
(* postSettlement *)

Result == journal.settlement

(* Variant: an exit is enough for a review. *)
ReviewsOnExit == Result.work = "pending" /\ Result.started /\ journal.reason = "exited" /\ journal.exit = "ok"

Reviews ==
  /\ Result.work = "pending" /\ Result.started
  /\ journal.reason = "exited" /\ journal.exit = "ok"
  /\ journal.evidence # "refused"

(* A review goes first: it is recorded only while the attempt is open.      *)
StartPost ==
  /\ pc = "post" \/ (pc = "resume" /\ journal.evidence # "frozen")
  /\ Goto(IF Reviews THEN "work" ELSE "report")
  /\ UNCHANGED <<journal, ledger, archived, docker, server, told, faults>>

(* The lease ran out before anything was posted.                            *)
PostLater ==
  /\ pc = "post" /\ Fault
  /\ Goto("top")
  /\ UNCHANGED <<journal, ledger, archived, docker, server, told>>

After(at) == IF at = "report" THEN "work" ELSE "posted"

(* 200 confirms, 409 is a conflict, anything else leaves it pending. After  *)
(* a review, which ended the attempt, a confirmation is a replay.           *)
Report(reply) ==
  /\ pc \in {"report", "late"}
  /\ IF Result.report # "pending"
     THEN reply = "done" /\ UNCHANGED <<journal, server, faults>>
     ELSE /\ journal' = [journal EXCEPT !.settlement.report = reply]
          /\ LET accepts == S.claim = "live" /\ S.attempt # "none" IN
             /\ reply = "done" => accepts \/ (S.work = "needs review" /\ S.attempt = "closed")
             /\ reply = "conflict" => ~accepts
             /\ \/ reply # "pending" /\ ~accepts /\ UNCHANGED server
                \/ reply = "pending" /\ UNCHANGED server
                \/ accepts /\ server' = [server EXCEPT ![D].attempt = "closed"]
             /\ IF reply = "pending" THEN Fault ELSE UNCHANGED faults
  /\ Goto(After(pc))
  /\ UNCHANGED <<ledger, archived, docker, told>>

WorkResult == IF ~Result.started THEN "failed start"
              ELSE IF journal.reason = "stop" THEN "cancelled"
              ELSE IF Reviews THEN "needs review" ELSE "failed"

(* The work's result ends the claim; a review ends the attempt with it.     *)
Accepts == S.claim = "live" /\ (WorkResult = "needs review" => S.attempt = "open")
WithResult == [server EXCEPT ![D].work = WorkResult, ![D].claim = "gone",
                 ![D].attempt = IF WorkResult = "needs review" THEN "closed" ELSE @]
SettledWork == {"needs review", "failed", "failed start", "cancelled"}

(* A 409 stands unless the work is read and found settled; a read may fail. *)
Work(reply) ==
  /\ pc = "work"
  /\ IF Result.work # "pending"
     THEN reply = "done" /\ Goto("posted") /\ UNCHANGED <<journal, server, faults>>
     ELSE /\ journal' = [journal EXCEPT !.settlement.work = reply]
          /\ CASE reply = "done" -> IF Accepts THEN server' = WithResult
                                    ELSE S.work \in SettledWork /\ UNCHANGED server
               [] reply = "conflict" -> UNCHANGED server
               [] reply = "pending" -> UNCHANGED server \/ (Accepts /\ server' = WithResult)
          /\ IF reply = "pending" \/ (reply = "conflict" /\ (Accepts \/ S.work \in SettledWork))
             THEN Fault ELSE UNCHANGED faults
          /\ Goto(IF Reviews /\ reply # "pending" THEN "late" ELSE "posted")
  /\ UNCHANGED <<ledger, archived, docker, told>>

(* Variant: the work's result is all that is waited for. *)
WorkIsSettled == Result.work # "pending"

IsSettled == Result.report # "pending" /\ Result.work # "pending"

Posted ==
  /\ pc = "posted"
  /\ Goto(IF IsSettled THEN "archive" ELSE "top")
  /\ UNCHANGED <<journal, ledger, archived, docker, server, told, faults>>

(* Variant: only a recorded result ends what is owed for the work. *)
ResultSeen(closed) == S.work \in SettledWork

(* The work of a closed attempt, or one that is not its own any more.       *)
NothingOwed(closed) == closed \/ S.work # "claimed"

(* reconcileUnclaimed: with the claim gone the server's record decides.     *)
(* The attempt is read by its ID, the work by its own.                      *)
Reconcile(readAttempt, readWork) ==
  /\ pc = "reconcile"
  /\ LET closedNow == /\ readAttempt /\ Result.report = "pending"
                      /\ journal.attached /\ S.attempt = "closed"
         closed == closedNow \/ Result.report = "observed"
         workDone == readWork /\ Result.work = "pending" /\ NothingOwed(closed)
     IN journal' = [journal EXCEPT
          !.settlement.report = IF closedNow THEN "observed" ELSE @,
          !.settlement.work = IF workDone THEN "done" ELSE @]
  /\ Goto(IF IsSettled' THEN "archive" ELSE "top")
  /\ IF readAttempt /\ readWork THEN UNCHANGED faults ELSE Fault
  /\ UNCHANGED <<ledger, archived, docker, server, told>>

Archive ==
  /\ pc = "archive"
  /\ archived' = archived \cup {[d |-> D, conflict |-> "conflict" \in {Result.report, Result.work}]}
  /\ Goto("forget")
  /\ UNCHANGED <<journal, ledger, docker, server, told, faults>>

RemoveJournal ==
  /\ pc = "forget"
  /\ journal' = NoJournal
  /\ Goto("top")
  /\ UNCHANGED <<ledger, archived, docker, server, told, faults>>

-----------------------------------------------------------------------------
(* The process, the server and the operator *)

Crash ==
  /\ pc # "top"
  /\ Fault
  /\ pc' = "top" /\ launched' = FALSE /\ awaiting' = "none" /\ found' = {}
  /\ UNCHANGED <<journal, ledger, archived, docker, server, told>>

(* A claim runs out; only the operator requeues its work.                   *)
Expire(d) ==
  /\ server[d].claim = "live" /\ Fault
  /\ server' = [server EXCEPT ![d].claim = "expired"]
  /\ UNCHANGED <<journal, ledger, archived, process, docker, told>>

Requeue(d) ==
  /\ server[d].claim = "expired"
  /\ server' = [server EXCEPT ![d].claim = "gone", ![d].work = "queued"]
  /\ UNCHANGED <<journal, ledger, archived, process, docker, told, faults>>

(* With the claim gone, a cleaned receipt closes the attempt.               *)
CleanedReceipt(d) ==
  /\ server[d].claim = "gone" /\ server[d].attempt = "open"
  /\ journal # NoJournal => D # d \/ journal.state = "settling"
  /\ server' = [server EXCEPT ![d].attempt = "closed"]
  /\ UNCHANGED <<journal, ledger, archived, process, docker, told, faults>>

(* --release-unknown-creates: the operator saw that Docker made none.       *)
ReleaseUnknownCreates ==
  /\ pc = "top" /\ journal # NoJournal /\ journal.state = "held" /\ journal.pending # {}
  /\ \A r \in journal.pending : daemon[D][r] = "absent"
  /\ journal' = [journal EXCEPT !.pending = {}]
  /\ Goto("kill again")
  /\ UNCHANGED <<ledger, archived, docker, server, told, faults>>

Init ==
  /\ journal = NoJournal /\ ledger = {} /\ archived = {}
  /\ pc = "top" /\ launched = FALSE /\ awaiting = "none" /\ found = {}
  /\ daemon = [d \in Dispatches |-> [r \in Roles |-> "absent"]]
  /\ alive = {} /\ told = {} /\ faults = 0
  /\ server = [d \in Dispatches |->
                 [claim |-> "queued", attempt |-> "none", work |-> "queued", proof |-> FALSE]]

Supervise ==
  \/ Recover \/ Recovered \/ Top \/ Refused \/ Consume
  \/ \E listed, empty \in BOOLEAN : Kill(listed, empty)
  \/ \E failed \in SUBSET Roles : Remove(failed)
  \/ AlreadyExecuted \/ RefuseStart \/ RecordDispatch \/ SaveWorkspace
  \/ \E reply \in BOOLEAN : Attach(reply)
  \/ AskCreate \/ Ask \/ Created \/ \E refused \in BOOLEAN : CreateFails(refused)
  \/ StartContainers \/ Ready \/ Acknowledge \/ Go
  \/ \E code \in {"ok", "bad"} : Exit(code)
  \/ \E reason \in Reasons : Stop(reason)
  \/ StopWaited
  \/ \E captured \in BOOLEAN : Freeze(captured)
  \/ \E acknowledged \in BOOLEAN : Upload(acknowledged)
  \/ KeepUnsettled \/ Close
  \/ StartPost \/ PostLater
  \/ \E reply \in {"done", "conflict", "pending"} : Report(reply) \/ Work(reply)
  \/ Posted
  \/ \E readAttempt, readWork \in BOOLEAN : Reconcile(readAttempt, readWork)
  \/ Archive \/ RemoveJournal

Environment ==
  \/ \E d \in Dispatches, r \in Roles : Make(d, r) \/ Drop(d, r) \/ MakeUnanswered(d, r)
  \/ \E d \in Dispatches : Expire(d) \/ Requeue(d) \/ CleanedReceipt(d)
  \/ ReleaseUnknownCreates \/ Crash

Next == Supervise \/ Environment

Spec == Init /\ [][Next]_vars

(* Nothing bounds a run: the supervisor waits for the workload, a Stop or a *)
(* shutdown as long as its renewals of the claim succeed.                   *)
Running == pc = "run" /\ S.claim = "live"

(* The process goes on but for the run, Docker answers, the server takes    *)
(* the receipt.  A run whose claim is not live any more is stopped.         *)
Fairness ==
  /\ WF_vars(~Running /\ Supervise)
  /\ \A d \in Dispatches : WF_vars(CleanedReceipt(d)) /\ \A r \in Roles : WF_vars(Make(d, r))
LiveSpec == Spec /\ Fairness

-----------------------------------------------------------------------------
(* Properties *)

JournalOK(j) ==
  /\ j.d \in Dispatches /\ j.state \in {"active", "held", "settling"}
  /\ j.ids \subseteq Roles /\ j.pending \subseteq Roles
  /\ j.reason \in Reasons /\ j.exit \in {"none", "ok", "bad"}
  /\ j.evidence \in {"none", "owed", "frozen", "acknowledged", "refused"}
  /\ j.state = "settling" => j.settlement # NoSettlement

(* Every variable holds a value of its kind; a settlement has its record.   *)
TypeOK ==
  /\ journal # NoJournal => JournalOK(journal)
  /\ ledger \subseteq Dispatches /\ alive \subseteq Dispatches /\ told \subseteq Dispatches
  /\ archived \subseteq [d : Dispatches, conflict : BOOLEAN]
  /\ found \subseteq Roles /\ awaiting \in Roles \cup {"none"}
  /\ daemon \in [Dispatches -> [Roles -> DockerHas]]

(* Whatever Docker holds of an attempt, or may still make of it, has a      *)
(* journal: through crashes, creates that answer late or never, and sweeps  *)
(* that fail, the record is not given up while anything is left.  A create  *)
(* whose CLI ended without the daemon's answer is excepted.                 *)
EveryResourceIsOwned ==
  \A d \in Dispatches, r \in Roles :
    daemon[d][r] \in {"asked", "there"} => journal # NoJournal /\ D = d

(* The server never has an attempt as over while its workload may run: a    *)
(* Stop is acknowledged, a result recorded and an attempt ended only after  *)
(* the container was seen stopped.                                          *)
NothingRunsOnceClosed ==
  \A d \in alive : server[d].attempt # "closed" /\ server[d].work \notin SettledWork

(* A failed start is reported only for a dispatch whose workload was never  *)
(* told to go, whatever crashed, was lost or was handed out again.          *)
FailedStartIsTrue ==
  \A d \in Dispatches : server[d].work = "failed start" => d \notin told

(* A dispatch whose workload was told to go is never on its way to a start  *)
(* again, though the server hands it out as long as its claim lives.        *)
NeverStartedAgain ==
  pc \in {"recorded", "attach", "create", "ask", "asking", "ready", "go"} => D \notin told

(* Work is sent to review only when its workload exited with 0 and the      *)
(* server holds its evidence.                                               *)
ReviewIsEarned ==
  \A d \in Dispatches : server[d].work = "needs review" => d \in told /\ server[d].proof

(* An attempt put away without a surfaced conflict is over on the server:   *)
(* nothing is left open there with nobody to close it.                      *)
QuietArchiveIsTrue ==
  \A rec \in archived :
    \/ [rec EXCEPT !.conflict = TRUE] \in archived
    \/ server[rec.d].attempt # "open" /\ server[rec.d].work # "claimed"

(* What only an operator, or nobody, can move on: an expired claim, a       *)
(* create that was never answered nor made, and an attempt whose attach     *)
(* reply was lost and whose claim is gone, which cannot be read.            *)
NeedsOperator ==
  \/ \E d \in Dispatches : server[d].claim = "expired"
  \/ /\ journal # NoJournal
     /\ \/ journal.pending # {}
        \/ S.claim = "gone" /\ ~journal.attached /\ Result.report = "pending"

(* If no workload runs for ever under a claim that is renewed for ever, an  *)
(* attempt is settled and put away, or waits for a person.                  *)
RunsEnd == []<>~Running
AttemptSettles == RunsEnd => (journal # NoJournal ~> (journal = NoJournal \/ NeedsOperator))
=============================================================================
