---------------------- MODULE SupervisedAttempt_proofs ----------------------
(***************************************************************************)
(* Proofs about SupervisedAttempt, for any set of dispatches and any bound *)
(* on the faults: the types, that every resource of Docker has a journal,  *)
(* that nothing runs once the server has its attempt closed, that a        *)
(* dispatch is started once, that a review is earned, and that an attempt  *)
(* put away without a surfaced conflict is over on the server.             *)
(*                                                                         *)
(* None of these is inductive. IInv relates the places where one attempt   *)
(* is recorded: the position of the process, the journal, what Docker has, *)
(* and the server's record.  Each action first gets the facts of its step  *)
(* (<1>f: the new journal and server, field by field); the parts of IInv   *)
(* then follow from these facts and the parts they rest on.                *)
(***************************************************************************)
EXTENDS SupervisedAttempt, TLAPS

(* What the variables hold.                                                *)
JournalSet ==
    [d : Dispatches, state : {"active", "held", "settling"}, workspace : BOOLEAN,
     attached : BOOLEAN, ids : SUBSET Roles, pending : SUBSET Roles, held : BOOLEAN,
     empty : BOOLEAN, evidence : {"none", "owed", "frozen", "acknowledged", "refused"},
     reason : Reasons, exit : {"none", "ok", "bad"},
     settlement :
        [started : BOOLEAN,
         report : {"none", "pending", "skipped", "done", "conflict", "observed"},
         work : {"none", "pending", "done", "conflict"}]]
ServerSet ==
    [claim : {"queued", "live", "expired", "gone"}, attempt : {"none", "open", "closed"},
     work : {"queued", "claimed", "needs review", "failed", "failed start", "cancelled"},
     proof : BOOLEAN]

Starting == {"recorded", "attach", "create", "ask", "asking", "ready", "ack", "report running",
             "go"}
Fresh == {"claimed", "recorded", "attach"}
Launching == {"create", "ask", "asking", "ready", "ack", "report running", "go", "run"}
Sweeping == {"kill", "remove", "evidence", "upload", "close", "kill again", "remove again",
             "recovered"}
Posting == {"post", "report", "work", "late", "posted"}
Concluded == Posting \cup {"resume", "reconcile", "archive", "forget"}

Open == journal # NoJournal
Settling == Open /\ journal.state = "settling"
Working == Open /\ journal.state # "settling"

JournalType == Open => journal \in JournalSet
ServerType == server \in [Dispatches -> ServerSet]
DaemonType == daemon \in [Dispatches -> [Roles -> DockerHas]]
SetsType ==
    /\ ledger \subseteq Dispatches /\ alive \subseteq Dispatches /\ told \subseteq Dispatches
    /\ archived \subseteq [d : Dispatches, conflict : BOOLEAN]
    /\ found \subseteq Roles /\ awaiting \in Roles \cup {"none"} /\ launched \in BOOLEAN
PcType == pc \in {"top", "consume", "stop"} \cup Fresh \cup Launching \cup Sweeping \cup Concluded

(* Where the process may be with which journal.                            *)
ControlInv ==
    /\ pc \in Fresh \cup Launching \cup Sweeping \cup {"stop"} => Working
    /\ pc \in Concluded => Settling
    /\ pc = "consume" /\ Open => Settling
    /\ awaiting # "none" => pc \in {"asking", "stop"}
    /\ pc = "ask" => NextRole \in journal.pending

(* The settlement a journal holds.                                         *)
SettlementInv ==
    /\ Open => \/ journal.settlement = NoSettlement
               \/ journal.settlement.work # "none" /\ journal.settlement.report # "none"
    /\ Settling => journal.settlement # NoSettlement
    /\ Working => journal.settlement = NoSettlement
                  \/ (journal.settlement.report = "pending" /\ journal.settlement.work = "pending")
    /\ pc \in {"archive", "forget"} => IsSettled

(* What Docker has, and may still make, is in the journal.                  *)
AllGone == \A r \in Roles : daemon[D][r] \notin {"asked", "there"}
PendingInv == Open => \A r \in Roles : daemon[D][r] = "asked" => r \in journal.pending
SweptInv ==
    /\ pc \in Fresh => AllGone
    /\ pc \in {"remove", "remove again"} /\ ~journal.held =>
         \A r \in Roles : daemon[D][r] = "there" => r \in found \cup journal.pending
    /\ pc \in {"evidence", "upload", "close", "recovered"} /\ ~journal.held => AllGone
    /\ Settling => AllGone

(* A workload that may run belongs to an attempt that is open.             *)
AliveInv ==
    /\ \A d \in alive : Working /\ D = d /\ journal.attached
    /\ pc \in Sweeping \ {"kill", "kill again"} =>
         (~journal.held => journal.empty) /\ (journal.empty => D \notin alive)
    /\ pc \in Fresh => ~journal.attached
    /\ pc \in Launching => journal.attached
    /\ Working /\ journal.attached => S.attempt = "open" /\ S.work \in {"claimed", "queued"}

(* A workload is told to go once.                                          *)
LedgerInv ==
    /\ told \subseteq ledger
    /\ pc \in Launching \cup {"recorded", "attach"} => D \in ledger
    /\ pc \in Starting => D \notin told

(* The claims, and the work under them.                                    *)
WorkInv ==
    \A d \in Dispatches :
      /\ server[d].claim = "queued" => server[d].work = "queued" /\ server[d].attempt = "none"
      /\ server[d].claim \in {"live", "expired"} => server[d].work = "claimed"
      /\ server[d].claim = "gone" => server[d].work # "claimed"
OneLive ==
    \A d, e \in Dispatches : server[d].claim = "live" /\ server[e].claim = "live" => d = e
ClaimInv ==
    /\ Open => S.claim # "queued"
    /\ pc = "reconcile" => S.claim = "gone"

(* The evidence of a workload that exited.                                 *)
EvidenceInv ==
    /\ Open /\ journal.evidence = "acknowledged" => S.proof
    /\ Open /\ journal.reason = "exited" => D \in told /\ journal.evidence # "none"
    /\ Settling => journal.evidence # "owed"
    /\ pc \in Fresh => journal.evidence = "none"
    /\ pc \in Launching \cup {"stop", "kill", "remove", "evidence"}
       => journal.evidence \in {"none", "owed"}
    /\ pc \in {"ack", "report running", "go", "run"} => journal.evidence = "owed"
    /\ pc = "run" => D \in told
    /\ pc = "upload" => journal.evidence = "frozen"
    /\ pc = "close" => journal.evidence \notin {"owed", "frozen"}
    /\ pc \in Posting => journal.evidence # "frozen"

(* What was put away, and what the settlement says of the server.           *)
Surfaced(d) == [d |-> d, conflict |-> TRUE] \in archived
OverInv ==
    \A rec \in archived :
      Surfaced(rec.d) \/ (server[rec.d].claim = "gone" /\ server[rec.d].attempt # "open")
LiveInv ==
    \A d \in Dispatches :
      server[d].claim = "live" /\ server[d].attempt # "none" => (Open /\ D = d) \/ Surfaced(d)
ForgetInv == pc = "forget" => \E rec \in archived : rec.d = D

(* What the settlement says of the server, and what a journal without a     *)
(* workspace says.                                                         *)
AnswerInv ==
    Settling =>
      /\ journal.settlement.report \in {"done", "observed"} => S.attempt = "closed"
      /\ journal.settlement.report = "skipped" => S.attempt = "none" \/ Surfaced(D)
      /\ journal.settlement.work = "done" => S.claim = "gone"
WorkspaceInv ==
    /\ Working /\ ~journal.workspace => S.attempt = "none" \/ Surfaced(D)
    /\ pc = "claimed" => ~journal.workspace
    /\ pc = "attach" => journal.workspace

IInv ==
    /\ JournalType /\ ServerType /\ DaemonType /\ SetsType /\ PcType /\ ControlInv /\ SettlementInv
    /\ EveryResourceIsOwned /\ PendingInv /\ SweptInv /\ AliveInv /\ LedgerInv
    /\ WorkInv /\ OneLive /\ ClaimInv /\ EvidenceInv /\ ReviewIsEarned
    /\ OverInv /\ LiveInv /\ ForgetInv /\ AnswerInv /\ WorkspaceInv

-----------------------------------------------------------------------------
(* NoJournal is none of the journals.                                      *)
LEMMA IsOpen == \A j \in JournalSet : j # NoJournal
<1> SUFFICES ASSUME NEW j \in JournalSet, j = NoJournal PROVE FALSE
  OBVIOUS
<1>1. "state" \in DOMAIN j
  BY DEF JournalSet
<1>2. DOMAIN NoJournal = {"d"}
  BY DEF NoJournal
<1> QED BY <1>1, <1>2

(* What the server has after it changed the record of one dispatch.        *)
LEMMA ServerUpdate ==
    ASSUME ServerType, NEW d \in Dispatches, NEW r \in ServerSet, server' = [server EXCEPT ![d] = r]
    PROVE  /\ server' \in [Dispatches -> ServerSet] /\ server'[d] = r
           /\ \A e \in Dispatches : e # d => server'[e] = server[e]
BY DEF ServerType

(* What Docker has after it changed the resources of one dispatch.         *)
LEMMA DaemonUpdate ==
    ASSUME DaemonType, NEW d \in Dispatches,
           NEW has \in [Roles -> DockerHas], daemon' = [daemon EXCEPT ![d] = has]
    PROVE  /\ daemon' \in [Dispatches -> [Roles -> DockerHas]]
    /\ daemon'[d] = has
           /\ \A e \in Dispatches : e # d => daemon'[e] = daemon[e]
BY DEF DaemonType

(* The journal, its dispatch and the server's record of it are of their kind. *)
LEMMA Now ==
    ASSUME IInv, Open
    PROVE  journal \in JournalSet /\ D \in Dispatches /\ S \in ServerSet
BY DEF IInv, JournalType, ServerType, D, S, JournalSet

-----------------------------------------------------------------------------
(* Recovery looks its pending creates up; what is not there stays pending. *)
LEMMA RecoverKeeps ==
    ASSUME IInv, Recover
    PROVE  IInv'
<1> USE DEF IInv, Open, Settling, Working, D, S
<1>n. Open => journal \in JournalSet /\ D \in Dispatches /\ S \in ServerSet
  BY Now
<1>o. Open
  BY DEF Recover, Goto, Unresolved, docker, ControlInv, Fresh, Starting, Launching, Sweeping,
     Posting, Concluded
<1>f. /\ pc = "top" /\ pc' = "kill again"
      /\ Working
      /\ journal' \in JournalSet
      /\ UNCHANGED <<journal.d, journal.state, journal.workspace, journal.attached, journal.ids,
                     journal.held, journal.empty, journal.evidence, journal.exit,
                     journal.settlement>>
      /\ journal'.pending = {r \in journal.pending : daemon[D][r] # "there"}
      /\ journal'.reason = "exited" => journal.reason = "exited"
      /\ UNCHANGED <<ledger, archived, docker, server, told, launched, awaiting, found>>
  BY <1>n, <1>o DEF Recover, Goto, Unresolved, docker, JournalSet, ServerSet, ServerType,
     DaemonType, SetsType, Reasons, ControlInv, Fresh, Starting, Launching, Sweeping, Posting,
     Concluded, process
<1>p. Open'
  BY <1>f, IsOpen
<1> USE <1>f, <1>n, <1>o, <1>p DEF Fresh, Starting, Launching, Sweeping, Posting, Concluded,
process, docker
<1>1. JournalType' /\ ServerType' /\ DaemonType' /\ SetsType' /\ PcType'
  BY DEF JournalType, ServerType, DaemonType, SetsType, PcType
<1>2. ControlInv' /\ SettlementInv'
  BY DEF ControlInv, NextRole, SettlementInv, IsSettled, Result, NoSettlement
<1>3. EveryResourceIsOwned' /\ PendingInv' /\ SweptInv'
  BY DEF EveryResourceIsOwned, PendingInv, SweptInv, AllGone
<1>4. AliveInv' /\ LedgerInv'
  BY DEF AliveInv, LedgerInv
<1>5. WorkInv' /\ OneLive' /\ ClaimInv'
  BY DEF WorkInv, OneLive, ClaimInv
<1>6. EvidenceInv' /\ ReviewIsEarned'
  BY DEF EvidenceInv, ReviewIsEarned
<1>7. OverInv' /\ LiveInv' /\ ForgetInv' /\ AnswerInv' /\ WorkspaceInv'
  BY DEF OverInv, Surfaced, LiveInv, ForgetInv, AnswerInv, WorkspaceInv
<1> QED BY <1>1, <1>2, <1>3, <1>4, <1>5, <1>6, <1>7

(* The kill stops the agent or leaves something held.                      *)
LEMMA KillKeeps ==
    ASSUME IInv, NEW listed \in BOOLEAN, NEW empty \in BOOLEAN, Kill(listed, empty)
    PROVE  IInv'
<1> USE DEF IInv, Open, Settling, Working, D, S
<1>n. Open => journal \in JournalSet /\ D \in Dispatches /\ S \in ServerSet
  BY Now
<1>o. Working
  BY DEF Kill, ControlInv, Fresh, Starting, Launching, Sweeping, Posting, Concluded
<1>f. /\ (pc = "kill" /\ pc' = "remove") \/ (pc = "kill again" /\ pc' = "remove again")
      /\ journal' \in JournalSet
      /\ journal'.held = (~listed \/ ~empty)
      /\ journal'.empty = empty
      /\ UNCHANGED <<journal.d, journal.state, journal.workspace, journal.attached, journal.ids,
                     journal.pending, journal.evidence, journal.reason, journal.exit,
                     journal.settlement>>
      /\ found' = journal.ids \cup (IF listed THEN {r \in Roles : daemon[D][r] \in Listed} ELSE {})
      /\ alive' = IF empty THEN alive \ {D} ELSE alive
      /\ UNCHANGED <<ledger, archived, launched, awaiting, daemon, server, told>>
  BY <1>n, <1>o DEF Kill, JournalSet, ServerSet, ServerType, DaemonType, SetsType, Reasons,
     ControlInv, Fresh, Starting, Launching, Sweeping, Posting, Concluded, process
<1>p. Open'
  BY <1>f, IsOpen
<1> USE <1>f, <1>n, <1>o, <1>p DEF Fresh, Starting, Launching, Sweeping, Posting, Concluded,
process, docker
<1>1. JournalType'
  BY DEF JournalType
<1>2. ServerType'
  BY DEF ServerType
<1>3. DaemonType'
  BY DEF DaemonType
<1>4. SetsType'
  BY DEF SetsType, JournalSet
<1>5. PcType'
  BY DEF PcType
<1>6. ControlInv' /\ SettlementInv'
  BY DEF ControlInv, NextRole, SettlementInv, IsSettled, Result, NoSettlement
<1>7. EveryResourceIsOwned' /\ PendingInv' /\ SweptInv'
  BY DEF EveryResourceIsOwned, PendingInv, SweptInv, AllGone, Listed
<1>8. AliveInv' /\ LedgerInv'
  BY DEF AliveInv, LedgerInv
<1>9. WorkInv' /\ OneLive' /\ ClaimInv'
  BY DEF WorkInv, OneLive, ClaimInv
<1>10. EvidenceInv' /\ ReviewIsEarned'
  BY DEF EvidenceInv, ReviewIsEarned
<1>11. OverInv' /\ LiveInv' /\ ForgetInv' /\ AnswerInv' /\ WorkspaceInv'
  BY DEF OverInv, Surfaced, LiveInv, ForgetInv, AnswerInv, WorkspaceInv
<1> QED BY <1>1, <1>2, <1>3, <1>4, <1>5, <1>6, <1>7, <1>8, <1>9, <1>10, <1>11

(* The removal empties what was found, or something stays held.            *)
LEMMA RemoveKeeps ==
    ASSUME IInv, NEW failed \in SUBSET Roles, Remove(failed)
    PROVE  IInv'
<1> USE DEF IInv, Open, Settling, Working, D, S
<1>n. Open => journal \in JournalSet /\ D \in Dispatches /\ S \in ServerSet
  BY Now
<1>o. Working
  BY DEF Remove, ControlInv, Fresh, Starting, Launching, Sweeping, Posting, Concluded
<1>f. /\ (pc = "remove" /\ pc' = "evidence") \/ (pc = "remove again" /\ pc' = "recovered")
      /\ journal' \in JournalSet
      /\ journal'.held = (journal.held \/ failed # {} \/ journal.pending # {})
      /\ journal'.state \in {journal.state, "held"}
      /\ UNCHANGED <<journal.d, journal.workspace, journal.attached, journal.ids, journal.pending,
                     journal.empty, journal.evidence, journal.reason, journal.exit,
                     journal.settlement>>
      /\ daemon' \in [Dispatches -> [Roles -> DockerHas]]
      /\ \A d \in Dispatches : d # D => daemon'[d] = daemon[d]
      /\ \A r \in Roles : daemon'[D][r] = daemon[D][r] \/ daemon'[D][r] = "absent"
      /\ journal.empty => \A r \in found \ failed : daemon'[D][r] # "there"
      /\ found' = {}
      /\ UNCHANGED <<ledger, archived, launched, awaiting, alive, server, told>>
  <2> DEFINE has == [r \in Roles |-> IF r \in (IF journal.empty THEN found \ failed ELSE {})
                                           /\ daemon[D][r] \in Listed
                                     THEN "absent" ELSE daemon[D][r]]
  <2>1. has \in [Roles -> DockerHas]
    BY <1>n, <1>o DEF DaemonType, DockerHas
  <2>2. daemon' = [daemon EXCEPT ![D] = has]
    BY <1>n, <1>o DEF Remove, DaemonType
  <2>3. /\ \A r \in Roles : has[r] = daemon[D][r] \/ has[r] = "absent"
        /\ journal.empty => \A r \in found \ failed : has[r] # "there"
    <3>1. found \subseteq Roles
      BY DEF SetsType
    <3> QED BY <3>1 DEF Listed
  <2> HIDE DEF has
  <2>4. /\ daemon' \in [Dispatches -> [Roles -> DockerHas]] /\ daemon'[D] = has
        /\ \A e \in Dispatches : e # D => daemon'[e] = daemon[e]
    BY <1>n, <1>o, <2>1, <2>2, DaemonUpdate
  <2>5. journal' = [journal EXCEPT !.held = (journal.held \/ failed # {} \/ journal.pending # {}),
                                   !.state = IF journal.held \/ failed # {} \/ journal.pending # {}
                                               THEN "held" ELSE @]
    BY DEF Remove
  <2>6. /\ journal' \in JournalSet
        /\ journal'.held = (journal.held \/ failed # {} \/ journal.pending # {})
        /\ journal'.state \in {journal.state, "held"}
        /\ UNCHANGED <<journal.d, journal.workspace, journal.attached, journal.ids,
                       journal.pending, journal.empty, journal.evidence, journal.reason,
                       journal.exit, journal.settlement>>
    BY <1>n, <1>o, <2>5 DEF JournalSet
  <2>7. /\ (pc = "remove" /\ pc' = "evidence") \/ (pc = "remove again" /\ pc' = "recovered")
        /\ found' = {}
        /\ UNCHANGED <<ledger, archived, launched, awaiting, alive, server, told>>
    BY DEF Remove
  <2> QED BY <2>3, <2>4, <2>6, <2>7
<1>p. Open'
  BY <1>f, IsOpen
<1> USE <1>f, <1>n, <1>o, <1>p DEF Fresh, Starting, Launching, Sweeping, Posting, Concluded,
process, docker
<1>1. JournalType' /\ ServerType' /\ DaemonType' /\ SetsType' /\ PcType'
  BY DEF JournalType, ServerType, DaemonType, SetsType, PcType
<1>2. ControlInv' /\ SettlementInv'
  BY DEF ControlInv, NextRole, SettlementInv, IsSettled, Result, NoSettlement
<1>3. EveryResourceIsOwned'
  <2> SUFFICES ASSUME NEW d \in Dispatches, NEW r \in Roles, daemon'[d][r] \in {"asked", "there"}
               PROVE  journal' # NoJournal /\ D' = d
    BY DEF EveryResourceIsOwned
  <2>1. daemon[d][r] \in {"asked", "there"}
    BY <1>n, <1>o
  <2> QED BY <2>1, <1>n, <1>o DEF EveryResourceIsOwned
<1>4. PendingInv'
  <2> SUFFICES ASSUME NEW r \in Roles, daemon'[D][r] = "asked" PROVE r \in journal.pending
    BY DEF PendingInv
  <2>1. daemon[D][r] = "asked"
    OBVIOUS
  <2> QED BY <2>1 DEF PendingInv
<1>5. SweptInv'
  <2>1. pc' \notin Fresh /\ pc' \notin {"remove", "remove again"} /\ ~Settling'
    OBVIOUS
  <2>2. ASSUME ~journal'.held, NEW r \in Roles PROVE daemon'[D][r] \notin {"asked", "there"}
    <3>1. ~journal.held /\ failed = {} /\ journal.pending = {}
      BY <2>2
    <3>2. journal.empty
      BY <3>1 DEF AliveInv
    <3>3. daemon'[D][r] # "asked"
      BY <3>1 DEF PendingInv
    <3>4. daemon[D][r] = "there" => r \in found
      BY <2>2, <3>1 DEF SweptInv
    <3>5. daemon'[D][r] # "there"
      BY <2>2, <3>1, <3>2, <3>4
    <3> QED BY <3>3, <3>5
  <2> QED BY <2>1, <2>2 DEF SweptInv, AllGone
<1>6. AliveInv' /\ LedgerInv'
  BY DEF AliveInv, LedgerInv
<1>7. WorkInv' /\ OneLive' /\ ClaimInv'
  BY DEF WorkInv, OneLive, ClaimInv
<1>8. EvidenceInv' /\ ReviewIsEarned'
  BY DEF EvidenceInv, ReviewIsEarned
<1>9. OverInv' /\ LiveInv' /\ ForgetInv' /\ AnswerInv' /\ WorkspaceInv'
  BY DEF OverInv, Surfaced, LiveInv, ForgetInv, AnswerInv, WorkspaceInv
<1> QED BY <1>1, <1>2, <1>3, <1>4, <1>5, <1>6, <1>7, <1>8, <1>9

(* Recovery found something held: nothing is concluded.                    *)
LEMMA RecoveredHeldKeeps ==
    ASSUME IInv, Recovered, journal.held
    PROVE  IInv'
<1> USE DEF IInv, Open, Settling, Working, D, S
<1>n. Open => journal \in JournalSet /\ D \in Dispatches /\ S \in ServerSet
  BY Now
<1>o. Working
  BY DEF Recovered, Goto, docker, ControlInv, Fresh, Starting, Launching, Sweeping, Posting,
     Concluded
<1>f. /\ pc = "recovered" /\ pc' = "top"
      /\ UNCHANGED <<journal, ledger, archived, docker, server, told, launched, awaiting, found>>
  BY <1>n, <1>o DEF Recovered, Goto, docker, JournalSet, ServerSet, ServerType, DaemonType,
     SetsType, Reasons, ControlInv, Fresh, Starting, Launching, Sweeping, Posting, Concluded,
     process
<1> USE <1>f, <1>n, <1>o DEF Fresh, Starting, Launching, Sweeping, Posting, Concluded, process,
docker
<1>1. JournalType' /\ ServerType' /\ DaemonType' /\ SetsType' /\ PcType'
  BY DEF JournalType, ServerType, DaemonType, SetsType, PcType
<1>2. ControlInv' /\ SettlementInv'
  BY DEF ControlInv, NextRole, SettlementInv, IsSettled, Result, NoSettlement
<1>3. EveryResourceIsOwned' /\ PendingInv' /\ SweptInv'
  BY DEF EveryResourceIsOwned, PendingInv, SweptInv, AllGone
<1>4. AliveInv' /\ LedgerInv'
  BY DEF AliveInv, LedgerInv
<1>5. WorkInv' /\ OneLive' /\ ClaimInv'
  BY DEF WorkInv, OneLive, ClaimInv
<1>6. EvidenceInv' /\ ReviewIsEarned'
  BY DEF EvidenceInv, ReviewIsEarned
<1>7. OverInv' /\ LiveInv' /\ ForgetInv' /\ AnswerInv' /\ WorkspaceInv'
  BY DEF OverInv, Surfaced, LiveInv, ForgetInv, AnswerInv, WorkspaceInv
<1> QED BY <1>1, <1>2, <1>3, <1>4, <1>5, <1>6, <1>7

(* Recovery concludes: all is gone, and an owed log was refused.           *)
LEMMA RecoveredCleanKeeps ==
    ASSUME IInv, Recovered, ~journal.held
    PROVE  IInv'
<1> USE DEF IInv, Open, Settling, Working, D, S
<1>n. Open => journal \in JournalSet /\ D \in Dispatches /\ S \in ServerSet
  BY Now
<1>o. Working
  BY DEF Recovered, Goto, docker, Settlement, ControlInv, Fresh, Starting, Launching, Sweeping,
     Posting, Concluded
<1>f. /\ pc = "recovered" /\ pc' = "consume"
      /\ journal' \in JournalSet
      /\ journal'.state = "settling"
      /\ journal'.evidence = (IF journal.evidence = "owed" THEN "refused" ELSE journal.evidence)
      /\ (journal'.settlement = journal.settlement /\ journal.settlement # NoSettlement)
         \/ (/\ journal'.settlement.report = (IF journal.workspace THEN "pending" ELSE "skipped")
             /\ journal'.settlement.work = "pending" /\ journal.settlement = NoSettlement
                /\ journal'.settlement # NoSettlement)
      /\ UNCHANGED <<journal.d, journal.workspace, journal.attached, journal.ids, journal.pending,
                     journal.held, journal.empty, journal.reason, journal.exit>>
      /\ UNCHANGED <<ledger, archived, docker, server, told, launched, awaiting, found>>
  <2> DEFINE it == IF journal.settlement # NoSettlement THEN journal.settlement
                   ELSE [started |-> Started,
                   report |-> IF journal.workspace THEN "pending" ELSE "skipped",
                         work |-> "pending"]
  <2>1. journal' = [journal EXCEPT !.state = "settling",
        !.evidence = IF @ = "owed" THEN "refused" ELSE @,
                                   !.settlement = it]
    BY <1>n, <1>o DEF Recovered, Goto, docker, Settlement, MayConclude
  <2>2. /\ it \in [started : BOOLEAN,
           report : {"none", "pending", "skipped", "done", "conflict", "observed"},
           work : {"none", "pending", "done", "conflict"}]
        /\ it # NoSettlement
        /\ journal.settlement # NoSettlement => it = journal.settlement
        /\ journal.settlement = NoSettlement =>
            it.work = "pending" /\ it.report = (IF journal.workspace THEN "pending" ELSE "skipped")
    <3>1. Started \in BOOLEAN
      BY DEF Started
    <3>2. CASE journal.settlement # NoSettlement
      BY <1>n, <1>o, <3>2 DEF JournalSet
    <3>3. CASE journal.settlement = NoSettlement
      BY <1>n, <1>o, <3>1, <3>3 DEF JournalSet, NoSettlement
    <3> QED BY <3>2, <3>3
  <2> HIDE DEF it
  <2>3. it \in [started : BOOLEAN,
           report : {"none", "pending", "skipped", "done", "conflict", "observed"},
           work : {"none", "pending", "done", "conflict"}]
    BY <2>2
  <2>4. /\ journal' \in JournalSet
        /\ journal'.state = "settling"
        /\ journal'.evidence = (IF journal.evidence = "owed" THEN "refused" ELSE journal.evidence)
        /\ UNCHANGED <<journal.d, journal.workspace, journal.attached, journal.ids,
                       journal.pending, journal.held, journal.empty, journal.reason, journal.exit>>
        /\ journal'.settlement = it
    BY <1>n, <1>o, <2>1, <2>3 DEF JournalSet, Reasons
  <2>5. /\ (journal'.settlement = journal.settlement /\ journal.settlement # NoSettlement)
           \/ (/\ journal'.settlement.report = (IF journal.workspace THEN "pending" ELSE "skipped")
               /\ journal'.settlement.work = "pending" /\ journal.settlement = NoSettlement
                  /\ journal'.settlement # NoSettlement)
    BY <2>2, <2>4
  <2>6. /\ pc = "recovered" /\ pc' = "consume"
        /\ UNCHANGED <<ledger, archived, docker, server, told, launched, awaiting, found>>
    BY <1>n, <1>o DEF Recovered, Goto, docker, Settlement, ControlInv, process, MayConclude
  <2> QED BY <2>4, <2>5, <2>6
<1>p. Open'
  BY <1>f, IsOpen
<1> USE <1>f, <1>n, <1>o, <1>p DEF Fresh, Starting, Launching, Sweeping, Posting, Concluded,
process, docker
<1>1. JournalType' /\ ServerType' /\ DaemonType' /\ SetsType' /\ PcType'
  BY DEF JournalType, ServerType, DaemonType, SetsType, PcType
<1>2. ControlInv' /\ SettlementInv'
  BY DEF ControlInv, NextRole, SettlementInv, IsSettled, Result, NoSettlement
<1>3. EveryResourceIsOwned' /\ PendingInv' /\ SweptInv'
  BY DEF EveryResourceIsOwned, PendingInv, SweptInv, AllGone
<1>4. AliveInv' /\ LedgerInv'
  BY DEF AliveInv, LedgerInv
<1>5. WorkInv' /\ OneLive' /\ ClaimInv'
  BY DEF WorkInv, OneLive, ClaimInv
<1>6. EvidenceInv' /\ ReviewIsEarned'
  BY DEF EvidenceInv, ReviewIsEarned
<1>7. OverInv' /\ LiveInv' /\ ForgetInv' /\ AnswerInv' /\ WorkspaceInv'
  BY DEF OverInv, Surfaced, LiveInv, ForgetInv, AnswerInv, WorkspaceInv, SettlementInv
<1> QED BY <1>1, <1>2, <1>3, <1>4, <1>5, <1>6, <1>7

(* A cycle begins with no journal, or with a settlement.                   *)
LEMMA TopKeeps ==
    ASSUME IInv, Top
    PROVE  IInv'
<1> USE DEF IInv, Open, Settling, Working, D, S
<1>n. Open => journal \in JournalSet /\ D \in Dispatches /\ S \in ServerSet
  BY Now
<1> USE <1>n DEF Top, Goto, process, docker, Fresh, Starting, Launching, Sweeping, Posting,
Concluded
<1>1. JournalType' /\ ServerType' /\ DaemonType' /\ SetsType' /\ PcType'
  BY DEF JournalType, ServerType, DaemonType, SetsType, PcType
<1>2. ControlInv' /\ SettlementInv'
  BY DEF ControlInv, NextRole, SettlementInv, IsSettled, Result, NoSettlement
<1>3. EveryResourceIsOwned' /\ PendingInv' /\ SweptInv'
  BY DEF EveryResourceIsOwned, PendingInv, SweptInv, AllGone
<1>4. AliveInv' /\ LedgerInv'
  BY DEF AliveInv, LedgerInv
<1>5. WorkInv' /\ OneLive' /\ ClaimInv'
  BY DEF WorkInv, OneLive, ClaimInv
<1>6. EvidenceInv' /\ ReviewIsEarned'
  BY DEF EvidenceInv, ReviewIsEarned
<1>7. OverInv' /\ LiveInv' /\ ForgetInv' /\ AnswerInv' /\ WorkspaceInv'
  BY DEF OverInv, Surfaced, LiveInv, ForgetInv, AnswerInv, WorkspaceInv
<1> QED BY <1>1, <1>2, <1>3, <1>4, <1>5, <1>6, <1>7

(* The server refuses to hand anything out.                                *)
LEMMA RefusedKeeps ==
    ASSUME IInv, Refused
    PROVE  IInv'
<1> USE DEF IInv, Open, Settling, Working, D, S
<1>n. Open => journal \in JournalSet /\ D \in Dispatches /\ S \in ServerSet
  BY Now
<1> USE <1>n DEF Refused, Goto, process, docker, Fresh, Starting, Launching, Sweeping, Posting,
Concluded
<1>1. JournalType' /\ ServerType' /\ DaemonType' /\ SetsType' /\ PcType'
  BY DEF JournalType, ServerType, DaemonType, SetsType, PcType
<1>2. ControlInv' /\ SettlementInv'
  BY DEF ControlInv, NextRole, SettlementInv, IsSettled, Result, NoSettlement
<1>3. EveryResourceIsOwned' /\ PendingInv' /\ SweptInv'
  BY DEF EveryResourceIsOwned, PendingInv, SweptInv, AllGone
<1>4. AliveInv' /\ LedgerInv'
  BY DEF AliveInv, LedgerInv
<1>5. WorkInv' /\ OneLive' /\ ClaimInv'
  BY DEF WorkInv, OneLive, ClaimInv
<1>6. EvidenceInv' /\ ReviewIsEarned'
  BY DEF EvidenceInv, ReviewIsEarned
<1>7. OverInv' /\ LiveInv' /\ ForgetInv' /\ AnswerInv' /\ WorkspaceInv'
  BY DEF OverInv, Surfaced, LiveInv, ForgetInv, AnswerInv, WorkspaceInv
<1> QED BY <1>1, <1>2, <1>3, <1>4, <1>5, <1>6, <1>7

(* Nothing is offered: the claim of a journal that is left is gone.        *)
LEMMA ConsumeNothingKeeps ==
    ASSUME IInv, pc = "consume", Offered = {},
           \A d \in Dispatches : server[d].claim # "expired",
           pc' = (IF journal = NoJournal THEN "top" ELSE "reconcile"),
           UNCHANGED <<journal, server>>, UNCHANGED <<ledger, archived, docker, told, launched,
                       awaiting, found>>
    PROVE  IInv'
<1> USE DEF IInv, Open, Settling, Working, D, S
<1>n. Open => journal \in JournalSet /\ D \in Dispatches /\ S \in ServerSet
  BY Now
<1>f. /\ pc = "consume"
      /\ (Open /\ pc' = "reconcile") \/ (~Open /\ pc' = "top")
      /\ \A d \in Dispatches : server[d].claim \notin {"expired", "live"}
      /\ UNCHANGED <<journal, ledger, archived, docker, server, told, launched, awaiting, found>>
  <2>1. \A d \in Dispatches : server[d].claim # "live"
    BY DEF Offered
  <2> QED BY <2>1
<1> USE <1>f, <1>n DEF Fresh, Starting, Launching, Sweeping, Posting, Concluded, process, docker
<1>1. JournalType' /\ ServerType' /\ DaemonType' /\ SetsType' /\ PcType'
  BY DEF JournalType, ServerType, DaemonType, SetsType, PcType
<1>2. ControlInv' /\ SettlementInv'
  BY DEF ControlInv, NextRole, SettlementInv, IsSettled, Result, NoSettlement
<1>3. EveryResourceIsOwned' /\ PendingInv' /\ SweptInv'
  BY DEF EveryResourceIsOwned, PendingInv, SweptInv, AllGone
<1>4. AliveInv' /\ LedgerInv'
  BY DEF AliveInv, LedgerInv
<1>5. WorkInv' /\ OneLive' /\ ClaimInv'
  BY DEF WorkInv, OneLive, ClaimInv, ServerSet
<1>6. EvidenceInv' /\ ReviewIsEarned'
  BY DEF EvidenceInv, ReviewIsEarned
<1>7. OverInv' /\ LiveInv' /\ ForgetInv' /\ AnswerInv' /\ WorkspaceInv'
  BY DEF OverInv, Surfaced, LiveInv, ForgetInv, AnswerInv, WorkspaceInv
<1> QED BY <1>1, <1>2, <1>3, <1>4, <1>5, <1>6, <1>7

(* A dispatch is claimed for a new journal; nothing of it is in Docker.    *)
LEMMA ConsumeFreshKeeps ==
    ASSUME IInv, NEW d \in Dispatches, d \in Offered, pc = "consume", pc' = "claimed",
           server' = Claimed(d), journal = NoJournal, journal' = FreshJournal(d),
           UNCHANGED <<ledger, archived, docker, told, launched, awaiting, found>>
    PROVE  IInv'
<1> USE DEF IInv, Open, Settling, Working, D, S
<1>n. Open => journal \in JournalSet /\ D \in Dispatches /\ S \in ServerSet
  BY Now
<1>f. /\ pc = "consume" /\ pc' = "claimed"
      /\ ~Open
      /\ journal' \in JournalSet
      /\ journal'.d = d
      /\ journal'.state = "active"
      /\ ~journal'.workspace /\ ~journal'.attached
      /\ journal'.ids = {} /\ journal'.pending = {}
      /\ journal'.evidence = "none"
      /\ journal'.reason = "none"
      /\ journal'.settlement = NoSettlement
      /\ server' \in [Dispatches -> ServerSet]
      /\ \A e \in Dispatches : e # d => server'[e] = server[e]
      /\ server'[d].claim = "live"
      /\ server'[d].attempt = server[d].attempt
      /\ server'[d].work = (IF server[d].claim = "queued" THEN "claimed" ELSE server[d].work)
      /\ server'[d].proof = server[d].proof
      /\ \/ server[d].claim = "live"
         \/ server[d].claim = "queued" /\ \A e \in Dispatches : server[e].claim # "live"
      /\ UNCHANGED <<ledger, archived, docker, told, launched, awaiting, found>>
  <2>1. \/ server[d].claim = "live"
        \/ server[d].claim = "queued" /\ \A e \in Dispatches : server[e].claim # "live"
    BY DEF Offered
  <2> DEFINE r == [server[d] EXCEPT !.claim = "live",
  !.work = IF server[d].claim = "queued" THEN "claimed" ELSE @]
  <2>2. /\ r \in ServerSet /\ r.claim = "live" /\ r.attempt = server[d].attempt
           /\ r.proof = server[d].proof
        /\ r.work = (IF server[d].claim = "queued" THEN "claimed" ELSE server[d].work)
    <3>1. server[d] \in ServerSet
      BY DEF ServerType
    <3> QED BY <3>1 DEF ServerSet
  <2>3. server' = [server EXCEPT ![d] = r]
    <3>1. server[d] \in ServerSet
      BY DEF ServerType
    <3> QED BY <3>1 DEF Claimed, ServerType, ServerSet
  <2> HIDE DEF r
  <2>4. server' \in [Dispatches -> ServerSet] /\ server'[d] = r
        /\ \A e \in Dispatches : e # d => server'[e] = server[e]
    BY <2>2, <2>3, ServerUpdate
  <2>5. journal' = FreshJournal(d)
    OBVIOUS
  <2>6. /\ journal' \in JournalSet
        /\ journal'.d = d
        /\ journal'.state = "active"
        /\ ~journal'.workspace /\ ~journal'.attached
        /\ journal'.ids = {} /\ journal'.pending = {}
        /\ journal'.evidence = "none"
        /\ journal'.reason = "none"
        /\ journal'.settlement = NoSettlement
    BY <2>5 DEF FreshJournal, JournalSet, NoSettlement, Reasons
  <2> QED BY <2>1, <2>2, <2>4, <2>6
<1>p. Open'
  BY <1>f, IsOpen
<1> USE <1>f, <1>n, <1>p DEF Fresh, Starting, Launching, Sweeping, Posting, Concluded, process,
docker
<1>1. JournalType' /\ ServerType' /\ DaemonType' /\ SetsType' /\ PcType'
  BY DEF JournalType, ServerType, DaemonType, SetsType, PcType
<1>2. ControlInv' /\ SettlementInv'
  BY DEF ControlInv, NextRole, SettlementInv, IsSettled, Result, NoSettlement
<1>3. EveryResourceIsOwned' /\ PendingInv' /\ SweptInv'
  BY DEF EveryResourceIsOwned, PendingInv, SweptInv, AllGone
<1>4. AliveInv' /\ LedgerInv'
  BY DEF AliveInv, LedgerInv
<1>5. WorkInv' /\ OneLive' /\ ClaimInv'
  BY DEF WorkInv, OneLive, ClaimInv
<1>6. EvidenceInv' /\ ReviewIsEarned'
  BY DEF EvidenceInv, ReviewIsEarned
<1>7. LiveInv' /\ ForgetInv' /\ AnswerInv' /\ WorkspaceInv'
  <2>1. LiveInv'
    BY DEF LiveInv, Surfaced
  <2>2. S'.attempt = "none" \/ Surfaced(D)'
    BY DEF LiveInv, Surfaced, WorkInv
  <2>3. ForgetInv' /\ AnswerInv'
    BY DEF ForgetInv, AnswerInv
  <2>4. WorkspaceInv'
    BY <2>2 DEF WorkspaceInv
  <2> QED BY <2>1, <2>3, <2>4
<1>8. OverInv'
  <2> SUFFICES ASSUME NEW rec \in archived
               PROVE  Surfaced(rec.d) \/ (server'[rec.d].claim = "gone"
               /\ server'[rec.d].attempt # "open")
    BY DEF OverInv, Surfaced
  <2>1. rec.d \in Dispatches
    BY DEF SetsType
  <2>2. Surfaced(rec.d) \/ (server[rec.d].claim = "gone" /\ server[rec.d].attempt # "open")
    BY DEF OverInv
  <2> QED BY <2>1, <2>2
<1> QED BY <1>1, <1>2, <1>3, <1>4, <1>5, <1>6, <1>7, <1>8

(* A dispatch is handed out while a journal is left: its own or another.   *)
LEMMA ConsumeKeptKeeps ==
    ASSUME IInv, NEW d \in Dispatches, d \in Offered, pc = "consume",
           pc' = (IF d = D THEN "resume" ELSE "reconcile"),
           \A e \in Dispatches : server[e].claim # "expired",
           server' = Claimed(d), journal # NoJournal, UNCHANGED journal,
           UNCHANGED <<ledger, archived, docker, told, launched, awaiting, found>>
    PROVE  IInv'
<1> USE DEF IInv, Open, Settling, Working, D, S
<1>n. Open => journal \in JournalSet /\ D \in Dispatches /\ S \in ServerSet
  BY Now
<1>f. /\ pc = "consume"
      /\ Open
      /\ (d = D /\ pc' = "resume") \/ (d # D /\ pc' = "reconcile")
      /\ server' \in [Dispatches -> ServerSet]
      /\ \A e \in Dispatches : e # d => server'[e] = server[e]
      /\ server'[d].claim = "live"
      /\ server'[d].attempt = server[d].attempt
      /\ server'[d].work = (IF server[d].claim = "queued" THEN "claimed" ELSE server[d].work)
      /\ server'[d].proof = server[d].proof
      /\ \/ server[d].claim = "live"
         \/ server[d].claim = "queued" /\ \A e \in Dispatches : server[e].claim # "live"
      /\ UNCHANGED <<journal, ledger, archived, docker, told, launched, awaiting, found>>
  <2>1. \/ server[d].claim = "live"
        \/ server[d].claim = "queued" /\ \A e \in Dispatches : server[e].claim # "live"
    BY DEF Offered
  <2> DEFINE r == [server[d] EXCEPT !.claim = "live",
  !.work = IF server[d].claim = "queued" THEN "claimed" ELSE @]
  <2>2. /\ r \in ServerSet /\ r.claim = "live" /\ r.attempt = server[d].attempt
           /\ r.proof = server[d].proof
        /\ r.work = (IF server[d].claim = "queued" THEN "claimed" ELSE server[d].work)
    <3>1. server[d] \in ServerSet
      BY DEF ServerType
    <3> QED BY <3>1 DEF ServerSet
  <2>3. server' = [server EXCEPT ![d] = r]
    <3>1. server[d] \in ServerSet
      BY DEF ServerType
    <3> QED BY <3>1 DEF Claimed, ServerType, ServerSet
  <2> HIDE DEF r
  <2>4. server' \in [Dispatches -> ServerSet] /\ server'[d] = r
        /\ \A e \in Dispatches : e # d => server'[e] = server[e]
    BY <2>2, <2>3, ServerUpdate
  <2> QED BY <2>1, <2>2, <2>4
<1> USE <1>f, <1>n DEF Fresh, Starting, Launching, Sweeping, Posting, Concluded, process, docker
<1>1. JournalType' /\ ServerType' /\ DaemonType' /\ SetsType' /\ PcType'
  BY DEF JournalType, ServerType, DaemonType, SetsType, PcType
<1>2. ControlInv' /\ SettlementInv'
  BY DEF ControlInv, NextRole, SettlementInv, IsSettled, Result, NoSettlement
<1>3. EveryResourceIsOwned' /\ PendingInv' /\ SweptInv'
  BY DEF EveryResourceIsOwned, PendingInv, SweptInv, AllGone
<1>4. AliveInv' /\ LedgerInv'
  BY DEF AliveInv, LedgerInv
<1>5. WorkInv' /\ OneLive'
  BY DEF WorkInv, OneLive
<1>6. ClaimInv'
  <2>1. ASSUME d # D PROVE S.claim = "gone"
    <3>1. S.claim # "live"
      BY <2>1, <1>n DEF OneLive
    <3> QED BY <3>1, <1>n DEF ClaimInv, ServerSet
  <2> QED BY <2>1, <1>n DEF ClaimInv
<1>7. EvidenceInv' /\ ReviewIsEarned'
  BY DEF EvidenceInv, ReviewIsEarned
<1>8. LiveInv' /\ ForgetInv' /\ AnswerInv' /\ WorkspaceInv'
  BY DEF LiveInv, Surfaced, WorkInv, ForgetInv, AnswerInv, WorkspaceInv
<1>9. OverInv'
  <2> SUFFICES ASSUME NEW rec \in archived
               PROVE  Surfaced(rec.d) \/ (server'[rec.d].claim = "gone"
               /\ server'[rec.d].attempt # "open")
    BY DEF OverInv, Surfaced
  <2>1. rec.d \in Dispatches
    BY DEF SetsType
  <2>2. Surfaced(rec.d) \/ (server[rec.d].claim = "gone" /\ server[rec.d].attempt # "open")
    BY DEF OverInv
  <2> QED BY <2>1, <2>2
<1> QED BY <1>1, <1>2, <1>3, <1>4, <1>5, <1>6, <1>7, <1>8, <1>9

(* A dispatch of the ledger is settled and not started.                    *)
LEMMA AlreadyExecutedKeeps ==
    ASSUME IInv, AlreadyExecuted
    PROVE  IInv'
<1> USE DEF IInv, Open, Settling, Working, D, S
<1>n. Open => journal \in JournalSet /\ D \in Dispatches /\ S \in ServerSet
  BY Now
<1>o. Working
  BY DEF AlreadyExecuted, Concluding, Settlement, Goto, docker, ControlInv, Fresh, Starting,
     Launching, Sweeping, Posting, Concluded
<1>f. /\ pc = "claimed" /\ pc' = "post"
      /\ journal' \in JournalSet
      /\ journal'.state = "settling"
      /\ journal'.settlement = [started |-> TRUE, report |-> "skipped", work |-> "pending"]
      /\ (journal'.reason = "exited" => journal.reason = "exited")
      /\ UNCHANGED <<journal.d, journal.workspace, journal.attached, journal.ids, journal.pending,
                     journal.held, journal.empty, journal.evidence, journal.exit>>
      /\ UNCHANGED <<ledger, archived, docker, server, told, launched, awaiting, found>>
  BY <1>n, <1>o DEF AlreadyExecuted, Concluding, Settlement, Goto, docker, JournalSet, ServerSet,
     ServerType, DaemonType, SetsType, Reasons, ControlInv, Fresh, Starting, Launching, Sweeping,
     Posting, Concluded, process
<1>p. Open'
  BY <1>f, IsOpen
<1> USE <1>f, <1>n, <1>o, <1>p DEF Fresh, Starting, Launching, Sweeping, Posting, Concluded,
process, docker
<1>1. JournalType' /\ ServerType' /\ DaemonType' /\ SetsType' /\ PcType'
  BY DEF JournalType, ServerType, DaemonType, SetsType, PcType
<1>2. ControlInv' /\ SettlementInv'
  BY DEF ControlInv, NextRole, SettlementInv, IsSettled, Result, NoSettlement
<1>3. EveryResourceIsOwned' /\ PendingInv' /\ SweptInv'
  BY DEF EveryResourceIsOwned, PendingInv, SweptInv, AllGone
<1>4. AliveInv' /\ LedgerInv'
  BY DEF AliveInv, LedgerInv
<1>5. WorkInv' /\ OneLive' /\ ClaimInv'
  BY DEF WorkInv, OneLive, ClaimInv
<1>6. EvidenceInv' /\ ReviewIsEarned'
  BY DEF EvidenceInv, ReviewIsEarned
<1>7. OverInv' /\ LiveInv' /\ ForgetInv' /\ AnswerInv' /\ WorkspaceInv'
  BY DEF OverInv, Surfaced, LiveInv, ForgetInv, AnswerInv, WorkspaceInv
<1> QED BY <1>1, <1>2, <1>3, <1>4, <1>5, <1>6, <1>7

(* A start is refused before anything is done.                             *)
LEMMA RefuseStartKeeps ==
    ASSUME IInv, RefuseStart
    PROVE  IInv'
<1> USE DEF IInv, Open, Settling, Working, D, S
<1>n. Open => journal \in JournalSet /\ D \in Dispatches /\ S \in ServerSet
  BY Now
<1>o. Working
  BY DEF RefuseStart, Concluding, Settlement, Goto, docker, ControlInv, Fresh, Starting, Launching,
     Sweeping, Posting, Concluded
<1>f. /\ pc = "claimed" /\ pc' = "post"
      /\ journal' \in JournalSet
      /\ journal'.state = "settling"
      /\ journal'.settlement = [started |-> FALSE, report |-> "skipped", work |-> "pending"]
      /\ (journal'.reason = "exited" => journal.reason = "exited")
      /\ UNCHANGED <<journal.d, journal.workspace, journal.attached, journal.ids, journal.pending,
                     journal.held, journal.empty, journal.evidence, journal.exit>>
      /\ UNCHANGED <<ledger, archived, docker, server, told, launched, awaiting, found>>
  <2>1. journal' = [journal EXCEPT !.state = "settling",
        !.reason = IF @ = "none" THEN "failed" ELSE @,
                                   !.settlement = [started |-> FALSE, report |-> "skipped",
                                   work |-> "pending"]]
    BY <1>n, <1>o DEF RefuseStart, Concluding, Settlement, Goto, docker, MayConclude
  <2>2. /\ journal' \in JournalSet
        /\ journal'.state = "settling"
        /\ journal'.settlement = [started |-> FALSE, report |-> "skipped", work |-> "pending"]
        /\ (journal'.reason = "exited" => journal.reason = "exited")
        /\ UNCHANGED <<journal.d, journal.workspace, journal.attached, journal.ids,
                       journal.pending, journal.held, journal.empty, journal.evidence,
                       journal.exit>>
    BY <1>n, <1>o, <2>1 DEF JournalSet, Reasons, NoSettlement, SettlementInv, SetsType
  <2>3. /\ pc = "claimed" /\ pc' = "post"
        /\ UNCHANGED <<ledger, archived, docker, server, told, launched, awaiting, found>>
    BY <1>n, <1>o DEF RefuseStart, Concluding, Settlement, Goto, docker, ControlInv, process,
       MayConclude
  <2> QED BY <2>2, <2>3
<1>p. Open'
  BY <1>f, IsOpen
<1> USE <1>f, <1>n, <1>o, <1>p DEF Fresh, Starting, Launching, Sweeping, Posting, Concluded,
process, docker
<1>1. JournalType' /\ ServerType' /\ DaemonType' /\ SetsType' /\ PcType'
  BY DEF JournalType, ServerType, DaemonType, SetsType, PcType
<1>2. ControlInv' /\ SettlementInv'
  BY DEF ControlInv, NextRole, SettlementInv, IsSettled, Result, NoSettlement
<1>3. EveryResourceIsOwned' /\ PendingInv' /\ SweptInv'
  BY DEF EveryResourceIsOwned, PendingInv, SweptInv, AllGone
<1>4. AliveInv' /\ LedgerInv'
  BY DEF AliveInv, LedgerInv
<1>5. WorkInv' /\ OneLive' /\ ClaimInv'
  BY DEF WorkInv, OneLive, ClaimInv
<1>6. EvidenceInv' /\ ReviewIsEarned'
  BY DEF EvidenceInv, ReviewIsEarned
<1>7. OverInv' /\ LiveInv' /\ ForgetInv' /\ AnswerInv' /\ WorkspaceInv'
  BY DEF OverInv, Surfaced, LiveInv, ForgetInv, AnswerInv, WorkspaceInv
<1> QED BY <1>1, <1>2, <1>3, <1>4, <1>5, <1>6, <1>7

(* The dispatch is written down before it is attached.                     *)
LEMMA RecordDispatchKeeps ==
    ASSUME IInv, RecordDispatch
    PROVE  IInv'
<1> USE DEF IInv, Open, Settling, Working, D, S
<1>n. Open => journal \in JournalSet /\ D \in Dispatches /\ S \in ServerSet
  BY Now
<1>o. Working
  BY DEF RecordDispatch, Recorded, Goto, ControlInv, Fresh, Starting, Launching, Sweeping, Posting,
     Concluded
<1> USE <1>n, <1>o DEF RecordDispatch, Recorded, Goto, process, docker, Fresh, Starting, Launching,
Sweeping, Posting, Concluded
<1>1. JournalType' /\ ServerType' /\ DaemonType' /\ SetsType' /\ PcType'
  BY DEF JournalType, ServerType, DaemonType, SetsType, PcType
<1>2. ControlInv' /\ SettlementInv'
  BY DEF ControlInv, NextRole, SettlementInv, IsSettled, Result, NoSettlement
<1>3. EveryResourceIsOwned' /\ PendingInv' /\ SweptInv'
  BY DEF EveryResourceIsOwned, PendingInv, SweptInv, AllGone
<1>4. AliveInv' /\ LedgerInv'
  BY DEF AliveInv, LedgerInv
<1>5. WorkInv' /\ OneLive' /\ ClaimInv'
  BY DEF WorkInv, OneLive, ClaimInv
<1>6. EvidenceInv' /\ ReviewIsEarned'
  BY DEF EvidenceInv, ReviewIsEarned
<1>7. OverInv' /\ LiveInv' /\ ForgetInv' /\ AnswerInv' /\ WorkspaceInv'
  BY DEF OverInv, Surfaced, LiveInv, ForgetInv, AnswerInv, WorkspaceInv
<1> QED BY <1>1, <1>2, <1>3, <1>4, <1>5, <1>6, <1>7

(* The journal says that an attempt may be attached.                       *)
LEMMA SaveWorkspaceKeeps ==
    ASSUME IInv, SaveWorkspace
    PROVE  IInv'
<1> USE DEF IInv, Open, Settling, Working, D, S
<1>n. Open => journal \in JournalSet /\ D \in Dispatches /\ S \in ServerSet
  BY Now
<1>o. Working
  BY DEF SaveWorkspace, Goto, docker, ControlInv, Fresh, Starting, Launching, Sweeping, Posting,
     Concluded
<1>f. /\ pc = "recorded" /\ pc' = "attach"
      /\ journal' \in JournalSet
      /\ journal'.workspace = TRUE
      /\ UNCHANGED <<journal.d, journal.state, journal.attached, journal.ids, journal.pending,
                     journal.held, journal.empty, journal.evidence, journal.reason, journal.exit,
                     journal.settlement>>
      /\ UNCHANGED <<ledger, archived, docker, server, told, launched, awaiting, found>>
  BY <1>n, <1>o DEF SaveWorkspace, Goto, docker, JournalSet, ServerSet, ServerType, DaemonType,
     SetsType, Reasons, ControlInv, Fresh, Starting, Launching, Sweeping, Posting, Concluded,
     process
<1>p. Open'
  BY <1>f, IsOpen
<1> USE <1>f, <1>n, <1>o, <1>p DEF Fresh, Starting, Launching, Sweeping, Posting, Concluded,
process, docker
<1>1. JournalType' /\ ServerType' /\ DaemonType' /\ SetsType' /\ PcType'
  BY DEF JournalType, ServerType, DaemonType, SetsType, PcType
<1>2. ControlInv' /\ SettlementInv'
  BY DEF ControlInv, NextRole, SettlementInv, IsSettled, Result, NoSettlement
<1>3. EveryResourceIsOwned' /\ PendingInv' /\ SweptInv'
  BY DEF EveryResourceIsOwned, PendingInv, SweptInv, AllGone
<1>4. AliveInv' /\ LedgerInv'
  BY DEF AliveInv, LedgerInv
<1>5. WorkInv' /\ OneLive' /\ ClaimInv'
  BY DEF WorkInv, OneLive, ClaimInv
<1>6. EvidenceInv' /\ ReviewIsEarned'
  BY DEF EvidenceInv, ReviewIsEarned
<1>7. OverInv' /\ LiveInv' /\ ForgetInv' /\ AnswerInv' /\ WorkspaceInv'
  BY DEF OverInv, Surfaced, LiveInv, ForgetInv, AnswerInv, WorkspaceInv
<1> QED BY <1>1, <1>2, <1>3, <1>4, <1>5, <1>6, <1>7

(* A fresh attempt is attached: it is open, its work is claimed.           *)
LEMMA AttachStartsKeeps ==
    ASSUME IInv, NEW reply \in BOOLEAN, Attach(reply),
           reply /\ S.claim = "live" /\ S.attempt = "none"
    PROVE  IInv'
<1> USE DEF IInv, Open, Settling, Working, D, S
<1>n. Open => journal \in JournalSet /\ D \in Dispatches /\ S \in ServerSet
  BY Now
<1>o. Working
  BY DEF Attach, Goto, docker, ControlInv, Fresh, Starting, Launching, Sweeping, Posting, Concluded
<1>f. /\ pc = "attach" /\ pc' = "create"
      /\ S.claim = "live" /\ S.attempt = "none"
      /\ journal' \in JournalSet
      /\ journal'.attached = TRUE
      /\ UNCHANGED <<journal.d, journal.state, journal.workspace, journal.ids, journal.pending,
                     journal.held, journal.empty, journal.evidence, journal.reason, journal.exit,
                     journal.settlement>>
      /\ server' \in [Dispatches -> ServerSet]
      /\ \A e \in Dispatches : e # D => server'[e] = server[e]
      /\ server'[D].claim = server[D].claim
      /\ server'[D].attempt = "open"
      /\ server'[D].work = server[D].work
      /\ server'[D].proof = server[D].proof
      /\ UNCHANGED <<ledger, archived, docker, told, launched, awaiting, found>>
  <2> DEFINE r == [server[D] EXCEPT !.attempt = "open"]
  <2>1. /\ r \in ServerSet /\ r.attempt = "open"
        /\ r.claim = server[D].claim /\ r.work = server[D].work /\ r.proof = server[D].proof
    BY <1>n, <1>o DEF ServerSet
  <2>2. server' = [server EXCEPT ![D] = r]
    BY DEF Attach
  <2> HIDE DEF r
  <2>3. ASSUME server' = [server EXCEPT ![D] = r]
        PROVE  /\ server' \in [Dispatches -> ServerSet] /\ server'[D] = r
               /\ \A e \in Dispatches : e # D => server'[e] = server[e]
    BY <1>n, <1>o, <2>1, <2>3, ServerUpdate
  <2>4. ASSUME UNCHANGED server
        PROVE  /\ server' \in [Dispatches -> ServerSet]
               /\ \A e \in Dispatches : server'[e] = server[e]
    BY <2>4 DEF ServerType
  <2>5. journal' = [journal EXCEPT !.attached = TRUE]
    BY DEF Attach, Goto, docker
  <2>6. /\ journal' \in JournalSet
        /\ journal'.attached = TRUE
        /\ UNCHANGED <<journal.d, journal.state, journal.workspace, journal.ids, journal.pending,
                       journal.held, journal.empty, journal.evidence, journal.reason, journal.exit,
                       journal.settlement>>
    BY <1>n, <1>o, <2>5 DEF JournalSet, NoSettlement, SettlementInv, Reasons
  <2>7. /\ pc = "attach" /\ pc' = "create"
        /\ S.claim = "live" /\ S.attempt = "none"
        /\ UNCHANGED <<ledger, archived, docker, told, launched, awaiting, found>>
    BY <1>n, <1>o DEF Attach, Goto, docker, ControlInv, process
  <2> QED BY <2>1, <2>2, <2>3, <2>6, <2>7
<1>p. Open'
  BY <1>f, IsOpen
<1> USE <1>f, <1>n, <1>o, <1>p DEF Fresh, Starting, Launching, Sweeping, Posting, Concluded,
process, docker
<1>1. JournalType' /\ ServerType' /\ DaemonType' /\ SetsType' /\ PcType'
  BY DEF JournalType, ServerType, DaemonType, SetsType, PcType
<1>2. ControlInv' /\ SettlementInv'
  BY DEF ControlInv, NextRole, SettlementInv, IsSettled, Result, NoSettlement
<1>3. EveryResourceIsOwned' /\ PendingInv' /\ SweptInv'
  BY DEF EveryResourceIsOwned, PendingInv, SweptInv, AllGone
<1>4. AliveInv' /\ LedgerInv'
  BY DEF AliveInv, WorkInv, LedgerInv
<1>5. WorkInv' /\ OneLive' /\ ClaimInv'
  BY DEF WorkInv, OneLive, ClaimInv
<1>6. EvidenceInv'
  BY DEF EvidenceInv
<1>7. ReviewIsEarned'
  <2> SUFFICES ASSUME NEW d \in Dispatches, server'[d].work = "needs review"
               PROVE  d \in told /\ server'[d].proof
    BY DEF ReviewIsEarned
  <2>1. CASE d = D
    BY <2>1 DEF ReviewIsEarned
  <2>2. CASE d # D
    BY <2>2 DEF ReviewIsEarned
  <2> QED BY <2>1, <2>2
<1>8. LiveInv' /\ ForgetInv' /\ AnswerInv' /\ WorkspaceInv'
  BY DEF LiveInv, Surfaced, ForgetInv, AnswerInv, WorkspaceInv
<1>9. OverInv'
  <2> SUFFICES ASSUME NEW rec \in archived
               PROVE  Surfaced(rec.d) \/ (server'[rec.d].claim = "gone"
               /\ server'[rec.d].attempt # "open")
    BY DEF OverInv, Surfaced
  <2>1. rec.d \in Dispatches
    BY DEF SetsType
  <2>2. Surfaced(rec.d) \/ (server[rec.d].claim = "gone" /\ server[rec.d].attempt # "open")
    BY DEF OverInv
  <2>3. CASE rec.d = D
    BY <2>2, <2>3
  <2>4. CASE rec.d # D
    BY <2>1, <2>2, <2>4
  <2> QED BY <2>3, <2>4
<1> QED BY <1>1, <1>2, <1>3, <1>4, <1>5, <1>6, <1>7, <1>8, <1>9

(* The attach is not a launch, or its reply was lost.                      *)
LEMMA AttachFailsKeeps ==
    ASSUME IInv, NEW reply \in BOOLEAN, Attach(reply),
           ~(reply /\ S.claim = "live" /\ S.attempt = "none")
    PROVE  IInv'
<1> USE DEF IInv, Open, Settling, Working, D, S
<1>n. Open => journal \in JournalSet /\ D \in Dispatches /\ S \in ServerSet
  BY Now
<1>o. Working
  BY DEF Attach, Concluding, Settlement, Goto, docker, ControlInv, Fresh, Starting, Launching,
     Sweeping, Posting, Concluded
<1>f. /\ pc = "attach" /\ pc' = "post"
      /\ journal' \in JournalSet
      /\ journal'.state = "settling"
      /\ journal'.settlement = [started |-> FALSE, report |-> "pending", work |-> "pending"]
      /\ (journal'.reason = "exited" => journal.reason = "exited")
      /\ UNCHANGED <<journal.d, journal.workspace, journal.attached, journal.ids, journal.pending,
                     journal.held, journal.empty, journal.evidence, journal.exit>>
      /\ server' \in [Dispatches -> ServerSet]
      /\ \A e \in Dispatches : e # D => server'[e] = server[e]
      /\ server'[D].claim = server[D].claim
      /\ (server'[D].attempt = server[D].attempt
          \/ (server'[D].attempt = "open" /\ server[D].attempt = "none"
             /\ server[D].claim = "live"))
      /\ server'[D].work = server[D].work
      /\ server'[D].proof = server[D].proof
      /\ UNCHANGED <<ledger, archived, docker, told, launched, awaiting, found>>
  <2> DEFINE r == [server[D] EXCEPT !.attempt = "open"]
  <2>1. /\ r \in ServerSet /\ r.attempt = "open"
        /\ r.claim = server[D].claim /\ r.work = server[D].work /\ r.proof = server[D].proof
    BY <1>n, <1>o DEF ServerSet
  <2>2. \/ server' = [server EXCEPT ![D] = r] /\ server[D].claim = "live"
           /\ server[D].attempt = "none"
        \/ UNCHANGED server
    BY DEF Attach
  <2> HIDE DEF r
  <2>3. ASSUME server' = [server EXCEPT ![D] = r]
        PROVE  /\ server' \in [Dispatches -> ServerSet] /\ server'[D] = r
               /\ \A e \in Dispatches : e # D => server'[e] = server[e]
    BY <1>n, <1>o, <2>1, <2>3, ServerUpdate
  <2>4. ASSUME UNCHANGED server
        PROVE  /\ server' \in [Dispatches -> ServerSet]
               /\ \A e \in Dispatches : server'[e] = server[e]
    BY <2>4 DEF ServerType
  <2>5. journal' = [journal EXCEPT !.state = "settling",
        !.reason = IF @ = "none" THEN "failed" ELSE @,
                                   !.settlement = [started |-> FALSE, report |-> "pending",
                                   work |-> "pending"]]
    BY DEF Attach, Concluding, Settlement, Goto, docker
  <2>6. /\ journal' \in JournalSet
        /\ journal'.state = "settling"
        /\ journal'.settlement = [started |-> FALSE, report |-> "pending", work |-> "pending"]
        /\ (journal'.reason = "exited" => journal.reason = "exited")
        /\ UNCHANGED <<journal.d, journal.workspace, journal.attached, journal.ids,
                       journal.pending, journal.held, journal.empty, journal.evidence,
                       journal.exit>>
    BY <1>n, <1>o, <2>5 DEF JournalSet, NoSettlement, SettlementInv, Reasons
  <2>7. /\ pc = "attach" /\ pc' = "post"
        /\ UNCHANGED <<ledger, archived, docker, told, launched, awaiting, found>>
    BY <1>n, <1>o DEF Attach, Concluding, Settlement, Goto, docker, ControlInv, process
  <2>8. /\ server' \in [Dispatches -> ServerSet]
        /\ \A e \in Dispatches : e # D => server'[e] = server[e]
        /\ server'[D].claim = server[D].claim
        /\ (server'[D].attempt = server[D].attempt
            \/ (server'[D].attempt = "open" /\ server[D].attempt = "none"
               /\ server[D].claim = "live"))
        /\ server'[D].work = server[D].work
        /\ server'[D].proof = server[D].proof
    <3>1. CASE server' = [server EXCEPT ![D] = r] /\ server[D].claim = "live"
          /\ server[D].attempt = "none"
      BY <2>1, <2>3, <3>1
    <3>2. CASE UNCHANGED server
      <4>1. server' = server /\ server[D] \in ServerSet
        BY <1>n, <1>o, <3>2
      <4>2. server \in [Dispatches -> ServerSet]
        BY DEF ServerType
      <4> QED BY <3>2, <4>1, <4>2
    <3> QED BY <2>2, <3>1, <3>2
  <2> QED BY <2>6, <2>7, <2>8
<1>p. Open'
  BY <1>f, IsOpen
<1> USE <1>f, <1>n, <1>o, <1>p DEF Fresh, Starting, Launching, Sweeping, Posting, Concluded,
process, docker
<1>1. JournalType' /\ ServerType' /\ DaemonType' /\ SetsType' /\ PcType'
  BY DEF JournalType, ServerType, DaemonType, SetsType, PcType
<1>2. ControlInv' /\ SettlementInv'
  BY DEF ControlInv, NextRole, SettlementInv, IsSettled, Result, NoSettlement
<1>3. EveryResourceIsOwned' /\ PendingInv' /\ SweptInv'
  BY DEF EveryResourceIsOwned, PendingInv, SweptInv, AllGone
<1>4. AliveInv' /\ LedgerInv'
  BY DEF AliveInv, LedgerInv
<1>5. WorkInv' /\ OneLive' /\ ClaimInv'
  BY DEF WorkInv, OneLive, ClaimInv
<1>6. EvidenceInv'
  BY DEF EvidenceInv
<1>7. ReviewIsEarned'
  <2> SUFFICES ASSUME NEW d \in Dispatches, server'[d].work = "needs review"
               PROVE  d \in told /\ server'[d].proof
    BY DEF ReviewIsEarned
  <2>1. CASE d = D
    BY <2>1 DEF ReviewIsEarned
  <2>2. CASE d # D
    BY <2>2 DEF ReviewIsEarned
  <2> QED BY <2>1, <2>2
<1>8. LiveInv' /\ ForgetInv' /\ AnswerInv' /\ WorkspaceInv'
  BY DEF LiveInv, Surfaced, ForgetInv, AnswerInv, WorkspaceInv
<1>9. OverInv'
  <2> SUFFICES ASSUME NEW rec \in archived
               PROVE  Surfaced(rec.d) \/ (server'[rec.d].claim = "gone"
               /\ server'[rec.d].attempt # "open")
    BY DEF OverInv, Surfaced
  <2>1. rec.d \in Dispatches
    BY DEF SetsType
  <2>2. Surfaced(rec.d) \/ (server[rec.d].claim = "gone" /\ server[rec.d].attempt # "open")
    BY DEF OverInv
  <2>3. CASE rec.d = D
    BY <2>2, <2>3
  <2>4. CASE rec.d # D
    BY <2>1, <2>2, <2>4
  <2> QED BY <2>3, <2>4
<1> QED BY <1>1, <1>2, <1>3, <1>4, <1>5, <1>6, <1>7, <1>8, <1>9

(* A create is journaled before it is sent.                                *)
LEMMA AskCreateKeeps ==
    ASSUME IInv, AskCreate
    PROVE  IInv'
<1> USE DEF IInv, Open, Settling, Working, D, S
<1>n. Open => journal \in JournalSet /\ D \in Dispatches /\ S \in ServerSet
  BY Now
<1>o. Working
  BY DEF AskCreate, JournalCreate, NextRole, Roles, docker, ControlInv, Fresh, Starting, Launching,
     Sweeping, Posting, Concluded
<1>f. /\ pc = "create" /\ pc' = "ask"
      /\ journal' \in JournalSet
      /\ journal'.pending = journal.pending \cup {NextRole}
      /\ UNCHANGED <<journal.d, journal.state, journal.workspace, journal.attached, journal.ids,
                     journal.held, journal.empty, journal.evidence, journal.reason, journal.exit,
                     journal.settlement>>
      /\ UNCHANGED <<ledger, archived, docker, server, told, launched, awaiting, found>>
  BY <1>n, <1>o DEF AskCreate, JournalCreate, NextRole, Roles, docker, JournalSet, ServerSet,
     ServerType, DaemonType, SetsType, Reasons, ControlInv, Fresh, Starting, Launching, Sweeping,
     Posting, Concluded, process
<1>p. Open'
  BY <1>f, IsOpen
<1> USE <1>f, <1>n, <1>o, <1>p DEF Fresh, Starting, Launching, Sweeping, Posting, Concluded,
process, docker
<1>1. JournalType' /\ ServerType' /\ DaemonType' /\ SetsType' /\ PcType'
  BY DEF JournalType, ServerType, DaemonType, SetsType, PcType
<1>2. ControlInv' /\ SettlementInv'
  BY DEF ControlInv, NextRole, SettlementInv, IsSettled, Result, NoSettlement
<1>3. EveryResourceIsOwned' /\ PendingInv' /\ SweptInv'
  BY DEF EveryResourceIsOwned, PendingInv, SweptInv, AllGone
<1>4. AliveInv' /\ LedgerInv'
  BY DEF AliveInv, LedgerInv
<1>5. WorkInv' /\ OneLive' /\ ClaimInv'
  BY DEF WorkInv, OneLive, ClaimInv
<1>6. EvidenceInv' /\ ReviewIsEarned'
  BY DEF EvidenceInv, ReviewIsEarned
<1>7. OverInv' /\ LiveInv' /\ ForgetInv' /\ AnswerInv' /\ WorkspaceInv'
  BY DEF OverInv, Surfaced, LiveInv, ForgetInv, AnswerInv, WorkspaceInv
<1> QED BY <1>1, <1>2, <1>3, <1>4, <1>5, <1>6, <1>7

(* The create that is sent is one the journal has pending.                 *)
LEMMA AskKeeps ==
    ASSUME IInv, Ask
    PROVE  IInv'
<1> USE DEF IInv, Open, Settling, Working, D, S
<1>n. Open => journal \in JournalSet /\ D \in Dispatches /\ S \in ServerSet
  BY Now
<1>o. Working
  BY DEF Ask, NextRole, Roles, docker, ControlInv, Fresh, Starting, Launching, Sweeping, Posting,
     Concluded
<1>f. /\ pc = "ask" /\ pc' = "asking"
      /\ awaiting' \in Roles
      /\ awaiting' = NextRole
      /\ daemon' \in [Dispatches -> [Roles -> DockerHas]]
      /\ \A d \in Dispatches : d # D => daemon'[d] = daemon[d]
      /\ \A r \in Roles : r # NextRole => daemon'[D][r] = daemon[D][r]
      /\ UNCHANGED <<journal, ledger, archived, alive, server, told, launched, found>>
  <2>1. NextRole \in Roles
    BY DEF NextRole, Roles
  <2> DEFINE has == [daemon[D] EXCEPT ![NextRole] = "asked"]
  <2>2. has \in [Roles -> DockerHas]
        /\ \A r \in Roles : r # NextRole => has[r] = daemon[D][r]
    BY <1>n, <1>o, <2>1 DEF DaemonType, DockerHas
  <2>3. daemon' = [daemon EXCEPT ![D] = has]
    BY DEF Ask
  <2> HIDE DEF has
  <2>4. /\ daemon' \in [Dispatches -> [Roles -> DockerHas]] /\ daemon'[D] = has
        /\ \A e \in Dispatches : e # D => daemon'[e] = daemon[e]
    BY <1>n, <1>o, <2>2, <2>3, DaemonUpdate
  <2> QED BY <2>1, <2>2, <2>4 DEF Ask
<1> USE <1>f, <1>n, <1>o DEF Fresh, Starting, Launching, Sweeping, Posting, Concluded, process,
docker
<1>1. JournalType' /\ ServerType' /\ DaemonType' /\ SetsType' /\ PcType'
  BY DEF JournalType, ServerType, DaemonType, SetsType, PcType
<1>2. ControlInv' /\ SettlementInv'
  BY DEF ControlInv, NextRole, SettlementInv, IsSettled, Result, NoSettlement
<1>3. EveryResourceIsOwned' /\ PendingInv' /\ SweptInv'
  BY DEF EveryResourceIsOwned, PendingInv, ControlInv, SweptInv, AllGone
<1>4. AliveInv' /\ LedgerInv'
  BY DEF AliveInv, LedgerInv
<1>5. WorkInv' /\ OneLive' /\ ClaimInv'
  BY DEF WorkInv, OneLive, ClaimInv
<1>6. EvidenceInv' /\ ReviewIsEarned'
  BY DEF EvidenceInv, ReviewIsEarned
<1>7. OverInv' /\ LiveInv' /\ ForgetInv' /\ AnswerInv' /\ WorkspaceInv'
  BY DEF OverInv, Surfaced, LiveInv, ForgetInv, AnswerInv, WorkspaceInv
<1> QED BY <1>1, <1>2, <1>3, <1>4, <1>5, <1>6, <1>7

(* An answer moves a create from pending to the known.                     *)
LEMMA CreatedKeeps ==
    ASSUME IInv, Created
    PROVE  IInv'
<1> USE DEF IInv, Open, Settling, Working, D, S
<1>n. Open => journal \in JournalSet /\ D \in Dispatches /\ S \in ServerSet
  BY Now
<1>o. Working
  BY DEF Created, docker, ControlInv, Fresh, Starting, Launching, Sweeping, Posting, Concluded
<1>f. /\ awaiting # "none" /\ daemon[D][awaiting] = "there" /\ awaiting' = "none"
      /\ (pc = "asking" /\ pc' = "create") \/ (pc = "stop" /\ pc' = "stop")
      /\ journal' \in JournalSet
      /\ journal'.ids = journal.ids \cup {awaiting}
      /\ journal'.pending = journal.pending \ {awaiting}
      /\ UNCHANGED <<journal.d, journal.state, journal.workspace, journal.attached, journal.held,
                     journal.empty, journal.evidence, journal.reason, journal.exit,
                     journal.settlement>>
      /\ UNCHANGED <<ledger, archived, launched, found, docker, server, told>>
  BY <1>n, <1>o DEF Created, docker, JournalSet, ServerSet, ServerType, DaemonType, SetsType,
     Reasons, ControlInv, Fresh, Starting, Launching, Sweeping, Posting, Concluded, process
<1>p. Open'
  BY <1>f, IsOpen
<1> USE <1>f, <1>n, <1>o, <1>p DEF Fresh, Starting, Launching, Sweeping, Posting, Concluded,
process, docker
<1>1. JournalType' /\ ServerType' /\ DaemonType' /\ SetsType' /\ PcType'
  BY DEF JournalType, ServerType, DaemonType, SetsType, PcType
<1>2. ControlInv' /\ SettlementInv'
  BY DEF ControlInv, NextRole, SettlementInv, IsSettled, Result, NoSettlement
<1>3. EveryResourceIsOwned' /\ PendingInv' /\ SweptInv'
  BY DEF EveryResourceIsOwned, PendingInv, SweptInv, AllGone
<1>4. AliveInv' /\ LedgerInv'
  BY DEF AliveInv, LedgerInv
<1>5. WorkInv' /\ OneLive' /\ ClaimInv'
  BY DEF WorkInv, OneLive, ClaimInv
<1>6. EvidenceInv' /\ ReviewIsEarned'
  BY DEF EvidenceInv, ReviewIsEarned
<1>7. OverInv' /\ LiveInv' /\ ForgetInv' /\ AnswerInv' /\ WorkspaceInv'
  BY DEF OverInv, Surfaced, LiveInv, ForgetInv, AnswerInv, WorkspaceInv
<1> QED BY <1>1, <1>2, <1>3, <1>4, <1>5, <1>6, <1>7

(* A create that failed is nobody's any more: it was not made, or its CLI   *)
(* ended without the daemon's answer.                                      *)
LEMMA CreateFailsKeeps ==
    ASSUME IInv, NEW refused \in BOOLEAN, CreateFails(refused)
    PROVE  IInv'
<1> USE DEF IInv, Open, Settling, Working, D, S
<1>n. Open => journal \in JournalSet /\ D \in Dispatches /\ S \in ServerSet
  BY Now
<1>o. Working
  BY DEF CreateFails, ControlInv, Fresh, Starting, Launching, Sweeping, Posting, Concluded
<1>f. /\ awaiting # "none" /\ awaiting' = "none"
      /\ pc \in {"asking", "stop"} /\ pc' = "stop"
      /\ journal' \in JournalSet
      /\ journal'.pending = journal.pending \ {awaiting}
      /\ (journal'.reason = "exited" => journal.reason = "exited")
      /\ UNCHANGED <<journal.d, journal.state, journal.workspace, journal.attached, journal.ids,
                     journal.held, journal.empty, journal.evidence, journal.exit,
                     journal.settlement>>
      /\ daemon' \in [Dispatches -> [Roles -> DockerHas]]
      /\ \A d \in Dispatches : d # D => daemon'[d] = daemon[d]
      /\ \A r \in Roles : r # awaiting => daemon'[D][r] = daemon[D][r]
      /\ daemon'[D][awaiting] \notin {"asked", "there"}
      /\ UNCHANGED <<ledger, archived, launched, found, alive, server, told>>
  BY <1>n, <1>o DEF CreateFails, JournalSet, ServerSet, ServerType, DaemonType, SetsType, Reasons,
     DockerHas, ControlInv, Fresh, Starting, Launching, Sweeping, Posting, Concluded, process
<1>p. Open'
  BY <1>f, IsOpen
<1> USE <1>f, <1>n, <1>o, <1>p DEF Fresh, Starting, Launching, Sweeping, Posting, Concluded,
process, docker
<1>1. JournalType' /\ ServerType' /\ DaemonType' /\ SetsType' /\ PcType'
  BY DEF JournalType, ServerType, DaemonType, SetsType, PcType
<1>2. ControlInv' /\ SettlementInv'
  BY DEF ControlInv, NextRole, SettlementInv, IsSettled, Result, NoSettlement
<1>3. EveryResourceIsOwned'
  BY DEF EveryResourceIsOwned
<1>4. PendingInv'
  BY DEF PendingInv
<1>5. SweptInv'
  BY DEF SweptInv, AllGone
<1>6. AliveInv' /\ LedgerInv'
  BY DEF AliveInv, LedgerInv
<1>7. WorkInv' /\ OneLive' /\ ClaimInv'
  BY DEF WorkInv, OneLive, ClaimInv
<1>8. EvidenceInv' /\ ReviewIsEarned'
  BY DEF EvidenceInv, ReviewIsEarned
<1>9. OverInv' /\ LiveInv' /\ ForgetInv' /\ AnswerInv' /\ WorkspaceInv'
  BY DEF OverInv, Surfaced, LiveInv, ForgetInv, AnswerInv, WorkspaceInv
<1> QED BY <1>1, <1>2, <1>3, <1>4, <1>5, <1>6, <1>7, <1>8, <1>9

(* The containers are started for an attempt that is open.                 *)
LEMMA StartContainersKeeps ==
    ASSUME IInv, StartContainers
    PROVE  IInv'
<1> USE DEF IInv, Open, Settling, Working, D, S
<1>n. Open => journal \in JournalSet /\ D \in Dispatches /\ S \in ServerSet
  BY Now
<1>o. Working
  BY DEF StartContainers, ControlInv, Fresh, Starting, Launching, Sweeping, Posting, Concluded
<1> USE <1>n, <1>o DEF StartContainers, process, docker, Fresh, Starting, Launching, Sweeping,
Posting, Concluded
<1>1. JournalType' /\ ServerType' /\ DaemonType' /\ SetsType' /\ PcType'
  BY DEF JournalType, ServerType, DaemonType, SetsType, PcType
<1>2. ControlInv' /\ SettlementInv'
  BY DEF ControlInv, NextRole, SettlementInv, IsSettled, Result, NoSettlement
<1>3. EveryResourceIsOwned' /\ PendingInv' /\ SweptInv'
  BY DEF EveryResourceIsOwned, PendingInv, SweptInv, AllGone
<1>4. AliveInv' /\ LedgerInv'
  BY DEF AliveInv, EvidenceInv, LedgerInv
<1>5. WorkInv' /\ OneLive' /\ ClaimInv'
  BY DEF WorkInv, OneLive, ClaimInv
<1>6. EvidenceInv' /\ ReviewIsEarned'
  BY DEF EvidenceInv, ReviewIsEarned
<1>7. OverInv' /\ LiveInv' /\ ForgetInv' /\ AnswerInv' /\ WorkspaceInv'
  BY DEF OverInv, Surfaced, LiveInv, ForgetInv, AnswerInv, WorkspaceInv
<1> QED BY <1>1, <1>2, <1>3, <1>4, <1>5, <1>6, <1>7

(* The launcher is ready: the workload's log is owed.                      *)
LEMMA ReadyKeeps ==
    ASSUME IInv, Ready
    PROVE  IInv'
<1> USE DEF IInv, Open, Settling, Working, D, S
<1>n. Open => journal \in JournalSet /\ D \in Dispatches /\ S \in ServerSet
  BY Now
<1>o. Working
  BY DEF Ready, Goto, docker, ControlInv, Fresh, Starting, Launching, Sweeping, Posting, Concluded
<1>f. /\ pc = "ready" /\ pc' = "ack"
      /\ journal' \in JournalSet
      /\ journal'.evidence = "owed"
      /\ UNCHANGED <<journal.d, journal.state, journal.workspace, journal.attached, journal.ids,
                     journal.pending, journal.held, journal.empty, journal.reason, journal.exit,
                     journal.settlement>>
      /\ UNCHANGED <<ledger, archived, docker, server, told, launched, awaiting, found>>
  BY <1>n, <1>o DEF Ready, Goto, docker, JournalSet, ServerSet, ServerType, DaemonType, SetsType,
     Reasons, ControlInv, Fresh, Starting, Launching, Sweeping, Posting, Concluded, process
<1>p. Open'
  BY <1>f, IsOpen
<1> USE <1>f, <1>n, <1>o, <1>p DEF Fresh, Starting, Launching, Sweeping, Posting, Concluded,
process, docker
<1>1. JournalType' /\ ServerType' /\ DaemonType' /\ SetsType' /\ PcType'
  BY DEF JournalType, ServerType, DaemonType, SetsType, PcType
<1>2. ControlInv' /\ SettlementInv'
  BY DEF ControlInv, NextRole, SettlementInv, IsSettled, Result, NoSettlement
<1>3. EveryResourceIsOwned' /\ PendingInv' /\ SweptInv'
  BY DEF EveryResourceIsOwned, PendingInv, SweptInv, AllGone
<1>4. AliveInv' /\ LedgerInv'
  BY DEF AliveInv, LedgerInv
<1>5. WorkInv' /\ OneLive' /\ ClaimInv'
  BY DEF WorkInv, OneLive, ClaimInv
<1>6. EvidenceInv' /\ ReviewIsEarned'
  BY DEF EvidenceInv, ReviewIsEarned
<1>7. OverInv' /\ LiveInv' /\ ForgetInv' /\ AnswerInv' /\ WorkspaceInv'
  BY DEF OverInv, Surfaced, LiveInv, ForgetInv, AnswerInv, WorkspaceInv
<1> QED BY <1>1, <1>2, <1>3, <1>4, <1>5, <1>6, <1>7

(* The dispatch is acknowledged and the attempt reported running.          *)
LEMMA AcknowledgeKeeps ==
    ASSUME IInv, Acknowledge
    PROVE  IInv'
<1> USE DEF IInv, Open, Settling, Working, D, S
<1>n. Open => journal \in JournalSet /\ D \in Dispatches /\ S \in ServerSet
  BY Now
<1>o. Working
  BY DEF Acknowledge, Goto, ControlInv, Fresh, Starting, Launching, Sweeping, Posting, Concluded
<1> USE <1>n, <1>o DEF Acknowledge, Goto, process, docker, Fresh, Starting, Launching, Sweeping,
Posting, Concluded
<1>1. JournalType' /\ ServerType' /\ DaemonType' /\ SetsType' /\ PcType'
  BY DEF JournalType, ServerType, DaemonType, SetsType, PcType
<1>2. ControlInv' /\ SettlementInv'
  BY DEF ControlInv, NextRole, SettlementInv, IsSettled, Result, NoSettlement
<1>3. EveryResourceIsOwned' /\ PendingInv' /\ SweptInv'
  BY DEF EveryResourceIsOwned, PendingInv, SweptInv, AllGone
<1>4. AliveInv' /\ LedgerInv'
  BY DEF AliveInv, LedgerInv
<1>5. WorkInv' /\ OneLive' /\ ClaimInv'
  BY DEF WorkInv, OneLive, ClaimInv
<1>6. EvidenceInv' /\ ReviewIsEarned'
  BY DEF EvidenceInv, ReviewIsEarned
<1>7. OverInv' /\ LiveInv' /\ ForgetInv' /\ AnswerInv' /\ WorkspaceInv'
  BY DEF OverInv, Surfaced, LiveInv, ForgetInv, AnswerInv, WorkspaceInv
<1> QED BY <1>1, <1>2, <1>3, <1>4, <1>5, <1>6, <1>7

(* The workload is told to go, of a dispatch that is in the ledger.        *)
LEMMA GoKeeps ==
    ASSUME IInv, Go
    PROVE  IInv'
<1> USE DEF IInv, Open, Settling, Working, D, S
<1>n. Open => journal \in JournalSet /\ D \in Dispatches /\ S \in ServerSet
  BY Now
<1>o. Working
  BY DEF Go, Goto, ControlInv, Fresh, Starting, Launching, Sweeping, Posting, Concluded
<1> USE <1>n, <1>o DEF Go, Goto, process, docker, Fresh, Starting, Launching, Sweeping, Posting,
Concluded
<1>1. JournalType' /\ ServerType' /\ DaemonType' /\ SetsType' /\ PcType'
  BY DEF JournalType, ServerType, DaemonType, SetsType, PcType
<1>2. ControlInv' /\ SettlementInv'
  BY DEF ControlInv, NextRole, SettlementInv, IsSettled, Result, NoSettlement
<1>3. EveryResourceIsOwned' /\ PendingInv' /\ SweptInv'
  BY DEF EveryResourceIsOwned, PendingInv, SweptInv, AllGone
<1>4. AliveInv' /\ LedgerInv'
  BY DEF AliveInv, LedgerInv
<1>5. WorkInv' /\ OneLive' /\ ClaimInv'
  BY DEF WorkInv, OneLive, ClaimInv
<1>6. EvidenceInv' /\ ReviewIsEarned'
  BY DEF EvidenceInv, ReviewIsEarned
<1>7. OverInv' /\ LiveInv' /\ ForgetInv' /\ AnswerInv' /\ WorkspaceInv'
  BY DEF OverInv, Surfaced, LiveInv, ForgetInv, AnswerInv, WorkspaceInv
<1> QED BY <1>1, <1>2, <1>3, <1>4, <1>5, <1>6, <1>7

(* The workload exits, its log still owed.                                 *)
LEMMA ExitKeeps ==
    ASSUME IInv, NEW code \in {"ok", "bad"}, Exit(code)
    PROVE  IInv'
<1> USE DEF IInv, Open, Settling, Working, D, S
<1>n. Open => journal \in JournalSet /\ D \in Dispatches /\ S \in ServerSet
  BY Now
<1>o. Working
  BY DEF Exit, Goto, ControlInv, Fresh, Starting, Launching, Sweeping, Posting, Concluded
<1>f. /\ pc = "run" /\ pc' = "stop"
      /\ journal' \in JournalSet
      /\ journal'.reason = "exited"
      /\ journal'.exit = code
      /\ UNCHANGED <<journal.d, journal.state, journal.workspace, journal.attached, journal.ids,
                     journal.pending, journal.held, journal.empty, journal.evidence,
                     journal.settlement>>
      /\ alive' = alive \ {D}
      /\ UNCHANGED <<ledger, archived, daemon, server, told, launched, awaiting, found>>
  BY <1>n, <1>o DEF Exit, Goto, JournalSet, ServerSet, ServerType, DaemonType, SetsType, Reasons,
     ControlInv, Fresh, Starting, Launching, Sweeping, Posting, Concluded, process
<1>p. Open'
  BY <1>f, IsOpen
<1> USE <1>f, <1>n, <1>o, <1>p DEF Fresh, Starting, Launching, Sweeping, Posting, Concluded,
process, docker
<1>1. JournalType' /\ ServerType' /\ DaemonType' /\ SetsType' /\ PcType'
  BY DEF JournalType, ServerType, DaemonType, SetsType, PcType
<1>2. ControlInv' /\ SettlementInv'
  BY DEF ControlInv, NextRole, SettlementInv, IsSettled, Result, NoSettlement
<1>3. EveryResourceIsOwned' /\ PendingInv' /\ SweptInv'
  BY DEF EveryResourceIsOwned, PendingInv, SweptInv, AllGone
<1>4. AliveInv' /\ LedgerInv'
  BY DEF AliveInv, LedgerInv
<1>5. WorkInv' /\ OneLive' /\ ClaimInv'
  BY DEF WorkInv, OneLive, ClaimInv
<1>6. EvidenceInv' /\ ReviewIsEarned'
  BY DEF EvidenceInv, ReviewIsEarned
<1>7. OverInv' /\ LiveInv' /\ ForgetInv' /\ AnswerInv' /\ WorkspaceInv'
  BY DEF OverInv, Surfaced, LiveInv, ForgetInv, AnswerInv, WorkspaceInv
<1> QED BY <1>1, <1>2, <1>3, <1>4, <1>5, <1>6, <1>7

(* An await ends in a stop; only an exit gives the reason exited.          *)
LEMMA StopKeeps ==
    ASSUME IInv, NEW reason \in Reasons, Stop(reason)
    PROVE  IInv'
<1> USE DEF IInv, Open, Settling, Working, D, S
<1>n. Open => journal \in JournalSet /\ D \in Dispatches /\ S \in ServerSet
  BY Now
<1>o. Working
  BY DEF Stop, Goto, docker, ControlInv, Fresh, Starting, Launching, Sweeping, Posting, Concluded
<1>f. /\ pc \in {"create", "asking", "ready", "ack", "report running", "go", "run"} /\ pc' = "stop"
      /\ journal' \in JournalSet
      /\ journal'.reason = reason
      /\ UNCHANGED <<journal.d, journal.state, journal.workspace, journal.attached, journal.ids,
                     journal.pending, journal.held, journal.empty, journal.evidence, journal.exit,
                     journal.settlement>>
      /\ reason # "exited"
      /\ UNCHANGED <<ledger, archived, docker, server, told, launched, awaiting, found>>
  BY <1>n, <1>o DEF Stop, Goto, docker, JournalSet, ServerSet, ServerType, DaemonType, SetsType,
     Reasons, ControlInv, Fresh, Starting, Launching, Sweeping, Posting, Concluded, process
<1>p. Open'
  BY <1>f, IsOpen
<1> USE <1>f, <1>n, <1>o, <1>p DEF Fresh, Starting, Launching, Sweeping, Posting, Concluded,
process, docker
<1>1. JournalType' /\ ServerType' /\ DaemonType' /\ SetsType' /\ PcType'
  BY DEF JournalType, ServerType, DaemonType, SetsType, PcType
<1>2. ControlInv' /\ SettlementInv'
  BY DEF ControlInv, NextRole, SettlementInv, IsSettled, Result, NoSettlement
<1>3. EveryResourceIsOwned' /\ PendingInv' /\ SweptInv'
  BY DEF EveryResourceIsOwned, PendingInv, SweptInv, AllGone
<1>4. AliveInv' /\ LedgerInv'
  BY DEF AliveInv, LedgerInv
<1>5. WorkInv' /\ OneLive' /\ ClaimInv'
  BY DEF WorkInv, OneLive, ClaimInv
<1>6. EvidenceInv' /\ ReviewIsEarned'
  BY DEF EvidenceInv, ReviewIsEarned
<1>7. OverInv' /\ LiveInv' /\ ForgetInv' /\ AnswerInv' /\ WorkspaceInv'
  BY DEF OverInv, Surfaced, LiveInv, ForgetInv, AnswerInv, WorkspaceInv
<1> QED BY <1>1, <1>2, <1>3, <1>4, <1>5, <1>6, <1>7

(* The wait for a create in flight is over.                                *)
LEMMA StopWaitedKeeps ==
    ASSUME IInv, StopWaited
    PROVE  IInv'
<1> USE DEF IInv, Open, Settling, Working, D, S
<1>n. Open => journal \in JournalSet /\ D \in Dispatches /\ S \in ServerSet
  BY Now
<1>o. Working
  BY DEF StopWaited, ControlInv, Fresh, Starting, Launching, Sweeping, Posting, Concluded
<1> USE <1>n, <1>o DEF StopWaited, process, docker, Fresh, Starting, Launching, Sweeping, Posting,
Concluded
<1>1. JournalType' /\ ServerType' /\ DaemonType' /\ SetsType' /\ PcType'
  BY DEF JournalType, ServerType, DaemonType, SetsType, PcType
<1>2. ControlInv' /\ SettlementInv'
  BY DEF ControlInv, NextRole, SettlementInv, IsSettled, Result, NoSettlement
<1>3. EveryResourceIsOwned' /\ PendingInv' /\ SweptInv'
  BY DEF EveryResourceIsOwned, PendingInv, SweptInv, AllGone
<1>4. AliveInv' /\ LedgerInv'
  BY DEF AliveInv, LedgerInv
<1>5. WorkInv' /\ OneLive' /\ ClaimInv'
  BY DEF WorkInv, OneLive, ClaimInv
<1>6. EvidenceInv' /\ ReviewIsEarned'
  BY DEF EvidenceInv, ReviewIsEarned
<1>7. OverInv' /\ LiveInv' /\ ForgetInv' /\ AnswerInv' /\ WorkspaceInv'
  BY DEF OverInv, Surfaced, LiveInv, ForgetInv, AnswerInv, WorkspaceInv
<1> QED BY <1>1, <1>2, <1>3, <1>4, <1>5, <1>6, <1>7

(* The log is frozen or refused.                                           *)
LEMMA FreezeOwedKeeps ==
    ASSUME IInv, NEW captured \in BOOLEAN, Freeze(captured), journal.evidence = "owed"
    PROVE  IInv'
<1> USE DEF IInv, Open, Settling, Working, D, S
<1>n. Open => journal \in JournalSet /\ D \in Dispatches /\ S \in ServerSet
  BY Now
<1>o. Working
  BY DEF Freeze, Goto, docker, ControlInv, Fresh, Starting, Launching, Sweeping, Posting, Concluded
<1>f. /\ pc = "evidence" /\ journal.evidence = "owed"
      /\ (captured /\ pc' = "upload") \/ (~captured /\ pc' = "close")
      /\ journal' \in JournalSet
      /\ journal'.evidence = (IF captured THEN "frozen" ELSE "refused")
      /\ UNCHANGED <<journal.d, journal.state, journal.workspace, journal.attached, journal.ids,
                     journal.pending, journal.held, journal.empty, journal.reason, journal.exit,
                     journal.settlement>>
      /\ UNCHANGED <<ledger, archived, docker, server, told, launched, awaiting, found>>
  <2>1. journal' = [journal EXCEPT !.evidence = IF captured THEN "frozen" ELSE "refused"]
    BY <1>n, <1>o DEF Freeze, Goto, docker, MayConclude
  <2>2. /\ journal' \in JournalSet
        /\ journal'.evidence = (IF captured THEN "frozen" ELSE "refused")
        /\ UNCHANGED <<journal.d, journal.state, journal.workspace, journal.attached, journal.ids,
                       journal.pending, journal.held, journal.empty, journal.reason, journal.exit,
                       journal.settlement>>
    BY <1>n, <1>o, <2>1 DEF JournalSet, Reasons, NoSettlement, SettlementInv, SetsType
  <2>3. /\ pc = "evidence" /\ journal.evidence = "owed"
        /\ (captured /\ pc' = "upload") \/ (~captured /\ pc' = "close")
        /\ UNCHANGED <<ledger, archived, docker, server, told, launched, awaiting, found>>
    BY <1>n, <1>o DEF Freeze, Goto, docker, ControlInv, process, MayConclude
  <2> QED BY <2>2, <2>3
<1>p. Open'
  BY <1>f, IsOpen
<1> USE <1>f, <1>n, <1>o, <1>p DEF Fresh, Starting, Launching, Sweeping, Posting, Concluded,
process, docker
<1>1. JournalType' /\ ServerType' /\ DaemonType' /\ SetsType' /\ PcType'
  BY DEF JournalType, ServerType, DaemonType, SetsType, PcType
<1>2. ControlInv' /\ SettlementInv'
  BY DEF ControlInv, NextRole, SettlementInv, IsSettled, Result, NoSettlement
<1>3. EveryResourceIsOwned' /\ PendingInv' /\ SweptInv'
  BY DEF EveryResourceIsOwned, PendingInv, SweptInv, AllGone
<1>4. AliveInv' /\ LedgerInv'
  BY DEF AliveInv, LedgerInv
<1>5. WorkInv' /\ OneLive' /\ ClaimInv'
  BY DEF WorkInv, OneLive, ClaimInv
<1>6. EvidenceInv' /\ ReviewIsEarned'
  BY DEF EvidenceInv, ReviewIsEarned
<1>7. OverInv' /\ LiveInv' /\ ForgetInv' /\ AnswerInv' /\ WorkspaceInv'
  BY DEF OverInv, Surfaced, LiveInv, ForgetInv, AnswerInv, WorkspaceInv
<1> QED BY <1>1, <1>2, <1>3, <1>4, <1>5, <1>6, <1>7

(* No log is owed.                                                         *)
LEMMA FreezeNothingKeeps ==
    ASSUME IInv, NEW captured \in BOOLEAN, Freeze(captured), journal.evidence # "owed"
    PROVE  IInv'
<1> USE DEF IInv, Open, Settling, Working, D, S
<1>n. Open => journal \in JournalSet /\ D \in Dispatches /\ S \in ServerSet
  BY Now
<1>o. Working
  BY DEF Freeze, Goto, docker, ControlInv, Fresh, Starting, Launching, Sweeping, Posting, Concluded
<1>f. /\ pc = "evidence" /\ pc' = "close"
      /\ UNCHANGED <<journal, ledger, archived, docker, server, told, launched, awaiting, found>>
  BY <1>n, <1>o DEF Freeze, Goto, docker, JournalSet, ServerSet, ServerType, DaemonType, SetsType,
     Reasons, ControlInv, Fresh, Starting, Launching, Sweeping, Posting, Concluded, process
<1> USE <1>f, <1>n, <1>o DEF Fresh, Starting, Launching, Sweeping, Posting, Concluded, process,
docker
<1>1. JournalType' /\ ServerType' /\ DaemonType' /\ SetsType' /\ PcType'
  BY DEF JournalType, ServerType, DaemonType, SetsType, PcType
<1>2. ControlInv' /\ SettlementInv'
  BY DEF ControlInv, NextRole, SettlementInv, IsSettled, Result, NoSettlement
<1>3. EveryResourceIsOwned' /\ PendingInv' /\ SweptInv'
  BY DEF EveryResourceIsOwned, PendingInv, SweptInv, AllGone
<1>4. AliveInv' /\ LedgerInv'
  BY DEF AliveInv, LedgerInv
<1>5. WorkInv' /\ OneLive' /\ ClaimInv'
  BY DEF WorkInv, OneLive, ClaimInv
<1>6. EvidenceInv' /\ ReviewIsEarned'
  BY DEF EvidenceInv, ReviewIsEarned
<1>7. OverInv' /\ LiveInv' /\ ForgetInv' /\ AnswerInv' /\ WorkspaceInv'
  BY DEF OverInv, Surfaced, LiveInv, ForgetInv, AnswerInv, WorkspaceInv
<1> QED BY <1>1, <1>2, <1>3, <1>4, <1>5, <1>6, <1>7

(* The server holds the evidence before the journal says so.               *)
LEMMA UploadKeeps ==
    ASSUME IInv, NEW acknowledged \in BOOLEAN, Upload(acknowledged)
    PROVE  IInv'
<1> USE DEF IInv, Open, Settling, Working, D, S
<1>n. Open => journal \in JournalSet /\ D \in Dispatches /\ S \in ServerSet
  BY Now
<1>o. Open
  BY DEF Upload, Goto, docker, ControlInv, Fresh, Starting, Launching, Sweeping, Posting, Concluded
<1>f. /\ (pc = "upload" /\ pc' = "close") \/ (pc = "resume" /\ pc' = "resume")
      /\ journal.evidence = "frozen"
      /\ journal' \in JournalSet
      /\ journal'.evidence = (IF acknowledged THEN "acknowledged" ELSE "refused")
      /\ UNCHANGED <<journal.d, journal.state, journal.workspace, journal.attached, journal.ids,
                     journal.pending, journal.held, journal.empty, journal.reason, journal.exit,
                     journal.settlement>>
      /\ server' \in [Dispatches -> ServerSet]
      /\ \A d \in Dispatches : server'[d].claim = server[d].claim
         /\ server'[d].attempt = server[d].attempt /\ server'[d].work = server[d].work
      /\ \A d \in Dispatches : server[d].proof => server'[d].proof
      /\ acknowledged => server'[D].proof
      /\ UNCHANGED <<ledger, archived, docker, told, launched, awaiting, found>>
  <2>1. PICK p \in BOOLEAN : /\ server' = [server EXCEPT ![D].proof = p]
                             /\ S.proof = TRUE => p = TRUE
                             /\ acknowledged = TRUE => p = TRUE
    <3>1. S.proof \in BOOLEAN
      BY <1>n, <1>o DEF ServerSet
    <3>2. acknowledged => Uploadable /\ S.claim = "live"
      BY DEF Upload
    <3>3. \E p \in {S.proof \/ acknowledged, S.proof \/ (Uploadable /\ S.claim = "live")} :
            server' = [server EXCEPT ![D].proof = p]
      BY DEF Upload
    <3>4. PICK p \in {S.proof \/ acknowledged, S.proof \/ (Uploadable /\ S.claim = "live")} :
            server' = [server EXCEPT ![D].proof = p]
      BY <3>3
    <3>5. p \in BOOLEAN /\ (S.proof = TRUE => p = TRUE) /\ (acknowledged = TRUE => p = TRUE)
      BY <3>1, <3>2, <3>4
    <3> QED BY <3>4, <3>5
  <2> DEFINE r == [server[D] EXCEPT !.proof = p]
  <2>2. r \in ServerSet /\ r.claim = S.claim /\ r.attempt = S.attempt /\ r.work = S.work
        /\ r.proof = p
    BY <1>n, <1>o, <2>1 DEF ServerSet
  <2>3. server' = [server EXCEPT ![D] = r]
    BY <2>1
  <2> HIDE DEF r
  <2>4. server' \in [Dispatches -> ServerSet] /\ server'[D] = r
        /\ \A e \in Dispatches : e # D => server'[e] = server[e]
    BY <1>n, <1>o, <2>2, <2>3, ServerUpdate
  <2>5. /\ (pc = "upload" /\ pc' = "close") \/ (pc = "resume" /\ pc' = "resume")
        /\ journal.evidence = "frozen"
        /\ journal' = [journal EXCEPT !.evidence = IF acknowledged THEN "acknowledged" ELSE "refused"]
        /\ UNCHANGED <<ledger, archived, docker, told, launched, awaiting, found>>
    BY DEF Upload, Goto, process
  <2>6. /\ journal' \in JournalSet
        /\ journal'.evidence = (IF acknowledged THEN "acknowledged" ELSE "refused")
        /\ UNCHANGED <<journal.d, journal.state, journal.workspace, journal.attached, journal.ids,
                       journal.pending, journal.held, journal.empty, journal.reason, journal.exit,
                       journal.settlement>>
    BY <1>n, <1>o, <2>5 DEF JournalSet
  <2>7. \A d \in Dispatches : /\ server'[d].claim = server[d].claim
        /\ server'[d].attempt = server[d].attempt
                             /\ server'[d].work = server[d].work
                                /\ (server[d].proof => server'[d].proof)
    <3> SUFFICES ASSUME NEW d \in Dispatches
                 PROVE  /\ server'[d].claim = server[d].claim
                 /\ server'[d].attempt = server[d].attempt
                        /\ server'[d].work = server[d].work /\ (server[d].proof => server'[d].proof)
      OBVIOUS
    <3>1. CASE d = D
      BY <3>1, <2>1, <2>2, <2>4
    <3>2. CASE d # D
      BY <3>2, <2>4
    <3> QED BY <3>1, <3>2
  <2>8. acknowledged => server'[D].proof
    BY <2>1, <2>2, <2>4
  <2> QED BY <2>4, <2>5, <2>6, <2>7, <2>8
<1>p. Open'
  BY <1>f, IsOpen
<1> USE <1>f, <1>n, <1>o, <1>p DEF Fresh, Starting, Launching, Sweeping, Posting, Concluded,
process, docker
<1>1. JournalType' /\ ServerType' /\ DaemonType' /\ SetsType' /\ PcType'
  BY DEF JournalType, ServerType, DaemonType, SetsType, PcType
<1>2. ControlInv' /\ SettlementInv'
  BY DEF ControlInv, NextRole, SettlementInv, IsSettled, Result, NoSettlement
<1>3. EveryResourceIsOwned' /\ PendingInv' /\ SweptInv'
  BY DEF EveryResourceIsOwned, PendingInv, SweptInv, AllGone
<1>4. AliveInv' /\ LedgerInv'
  BY DEF AliveInv, LedgerInv
<1>5. WorkInv' /\ OneLive' /\ ClaimInv'
  BY DEF WorkInv, OneLive, ClaimInv
<1>6. EvidenceInv' /\ ReviewIsEarned'
  BY DEF EvidenceInv, ReviewIsEarned
<1>7. LiveInv' /\ ForgetInv' /\ AnswerInv' /\ WorkspaceInv'
  BY DEF LiveInv, Surfaced, ForgetInv, AnswerInv, WorkspaceInv
<1>8. OverInv'
  <2> SUFFICES ASSUME NEW rec \in archived
               PROVE  Surfaced(rec.d) \/ (server'[rec.d].claim = "gone"
               /\ server'[rec.d].attempt # "open")
    BY DEF OverInv, Surfaced
  <2>1. rec.d \in Dispatches
    BY DEF SetsType
  <2>2. Surfaced(rec.d) \/ (server[rec.d].claim = "gone" /\ server[rec.d].attempt # "open")
    BY DEF OverInv
  <2> QED BY <2>1, <2>2
<1> QED BY <1>1, <1>2, <1>3, <1>4, <1>5, <1>6, <1>7, <1>8

(* A resumed settlement is left for the next cycle.                        *)
LEMMA KeepResumeKeeps ==
    ASSUME IInv, KeepUnsettled, pc = "resume"
    PROVE  IInv'
<1> USE DEF IInv, Open, Settling, Working, D, S
<1>n. Open => journal \in JournalSet /\ D \in Dispatches /\ S \in ServerSet
  BY Now
<1>o. Settling
  BY DEF KeepUnsettled, Goto, docker, ControlInv, Fresh, Starting, Launching, Sweeping, Posting,
     Concluded
<1>f. /\ pc = "resume" /\ pc' = "top"
      /\ UNCHANGED <<journal, ledger, archived, docker, server, told, launched, awaiting, found>>
  BY <1>n, <1>o DEF KeepUnsettled, Goto, docker, JournalSet, ServerSet, ServerType, DaemonType,
     SetsType, Reasons, ControlInv, Fresh, Starting, Launching, Sweeping, Posting, Concluded,
     process
<1> USE <1>f, <1>n, <1>o DEF Fresh, Starting, Launching, Sweeping, Posting, Concluded, process,
docker
<1>1. JournalType' /\ ServerType' /\ DaemonType' /\ SetsType' /\ PcType'
  BY DEF JournalType, ServerType, DaemonType, SetsType, PcType
<1>2. ControlInv' /\ SettlementInv'
  BY DEF ControlInv, NextRole, SettlementInv, IsSettled, Result, NoSettlement
<1>3. EveryResourceIsOwned' /\ PendingInv' /\ SweptInv'
  BY DEF EveryResourceIsOwned, PendingInv, SweptInv, AllGone
<1>4. AliveInv' /\ LedgerInv'
  BY DEF AliveInv, LedgerInv
<1>5. WorkInv' /\ OneLive' /\ ClaimInv'
  BY DEF WorkInv, OneLive, ClaimInv
<1>6. EvidenceInv' /\ ReviewIsEarned'
  BY DEF EvidenceInv, ReviewIsEarned
<1>7. OverInv' /\ LiveInv' /\ ForgetInv' /\ AnswerInv' /\ WorkspaceInv'
  BY DEF OverInv, Surfaced, LiveInv, ForgetInv, AnswerInv, WorkspaceInv
<1> QED BY <1>1, <1>2, <1>3, <1>4, <1>5, <1>6, <1>7

(* A stop that decided nothing keeps an unposted settlement.               *)
LEMMA KeepEarlyKeeps ==
    ASSUME IInv, KeepUnsettled, pc # "resume"
    PROVE  IInv'
<1> USE DEF IInv, Open, Settling, Working, D, S
<1>n. Open => journal \in JournalSet /\ D \in Dispatches /\ S \in ServerSet
  BY Now
<1>o. Working
  BY DEF KeepUnsettled, Settlement, Goto, docker, ControlInv, Fresh, Starting, Launching, Sweeping,
     Posting, Concluded
<1>f. /\ pc \in {"upload", "close"} /\ pc' = "top"
      /\ journal' \in JournalSet
      /\ journal'.settlement = [started |-> launched, report |-> "pending", work |-> "pending"]
      /\ UNCHANGED <<journal.d, journal.state, journal.workspace, journal.attached, journal.ids,
                     journal.pending, journal.held, journal.empty, journal.evidence,
                     journal.reason, journal.exit>>
      /\ UNCHANGED <<ledger, archived, docker, server, told, launched, awaiting, found>>
  BY <1>n, <1>o DEF KeepUnsettled, Settlement, Goto, docker, JournalSet, ServerSet, ServerType,
     DaemonType, SetsType, Reasons, ControlInv, Fresh, Starting, Launching, Sweeping, Posting,
     Concluded, process
<1>p. Open'
  BY <1>f, IsOpen
<1> USE <1>f, <1>n, <1>o, <1>p DEF Fresh, Starting, Launching, Sweeping, Posting, Concluded,
process, docker
<1>1. JournalType' /\ ServerType' /\ DaemonType' /\ SetsType' /\ PcType'
  BY DEF JournalType, ServerType, DaemonType, SetsType, PcType
<1>2. ControlInv'
  BY DEF ControlInv, NextRole
<1>3. SettlementInv'
  BY DEF SettlementInv, IsSettled, Result, NoSettlement
<1>4. EveryResourceIsOwned' /\ PendingInv' /\ SweptInv'
  BY DEF EveryResourceIsOwned, PendingInv, SweptInv, AllGone
<1>5. AliveInv' /\ LedgerInv'
  BY DEF AliveInv, LedgerInv
<1>6. WorkInv' /\ OneLive' /\ ClaimInv'
  BY DEF WorkInv, OneLive, ClaimInv
<1>7. EvidenceInv' /\ ReviewIsEarned'
  BY DEF EvidenceInv, ReviewIsEarned
<1>8. OverInv' /\ LiveInv' /\ ForgetInv' /\ AnswerInv' /\ WorkspaceInv'
  BY DEF OverInv, Surfaced, LiveInv, ForgetInv, AnswerInv, WorkspaceInv
<1> QED BY <1>1, <1>2, <1>3, <1>4, <1>5, <1>6, <1>7, <1>8

(* Something is held: nothing is concluded.                                *)
LEMMA CloseHeldKeeps ==
    ASSUME IInv, Close, journal.held
    PROVE  IInv'
<1> USE DEF IInv, Open, Settling, Working, D, S
<1>n. Open => journal \in JournalSet /\ D \in Dispatches /\ S \in ServerSet
  BY Now
<1>o. Working
  BY DEF Close, MayConclude, Settlement, Goto, docker, ControlInv, Fresh, Starting, Launching,
     Sweeping, Posting, Concluded
<1>f. /\ pc = "close" /\ pc' = "top"
      /\ journal' \in JournalSet
      /\ journal'.settlement = [started |-> launched, report |-> "pending", work |-> "pending"]
      /\ UNCHANGED <<journal.d, journal.state, journal.workspace, journal.attached, journal.ids,
                     journal.pending, journal.held, journal.empty, journal.evidence,
                     journal.reason, journal.exit>>
      /\ UNCHANGED <<ledger, archived, docker, server, told, launched, awaiting, found>>
  <2>1. journal' = [journal EXCEPT !.settlement = [started |-> launched, report |-> "pending",
        work |-> "pending"]]
    BY <1>n, <1>o DEF Close, MayConclude, Settlement, Goto, docker, MayConclude
  <2>2. /\ journal' \in JournalSet
        /\ journal'.settlement = [started |-> launched, report |-> "pending", work |-> "pending"]
        /\ UNCHANGED <<journal.d, journal.state, journal.workspace, journal.attached, journal.ids,
                       journal.pending, journal.held, journal.empty, journal.evidence,
                       journal.reason, journal.exit>>
    BY <1>n, <1>o, <2>1 DEF JournalSet, Reasons, NoSettlement, SettlementInv, SetsType
  <2>3. /\ pc = "close" /\ pc' = "top"
        /\ UNCHANGED <<ledger, archived, docker, server, told, launched, awaiting, found>>
    BY <1>n, <1>o DEF Close, MayConclude, Settlement, Goto, docker, ControlInv, process, MayConclude
  <2> QED BY <2>2, <2>3
<1>p. Open'
  BY <1>f, IsOpen
<1> USE <1>f, <1>n, <1>o, <1>p DEF Fresh, Starting, Launching, Sweeping, Posting, Concluded,
process, docker
<1>1. JournalType' /\ ServerType' /\ DaemonType' /\ SetsType' /\ PcType'
  BY DEF JournalType, ServerType, DaemonType, SetsType, PcType
<1>2. ControlInv' /\ SettlementInv'
  BY DEF ControlInv, NextRole, SettlementInv, IsSettled, Result, NoSettlement
<1>3. EveryResourceIsOwned' /\ PendingInv' /\ SweptInv'
  BY DEF EveryResourceIsOwned, PendingInv, SweptInv, AllGone
<1>4. AliveInv' /\ LedgerInv'
  BY DEF AliveInv, LedgerInv
<1>5. WorkInv' /\ OneLive' /\ ClaimInv'
  BY DEF WorkInv, OneLive, ClaimInv
<1>6. EvidenceInv' /\ ReviewIsEarned'
  BY DEF EvidenceInv, ReviewIsEarned
<1>7. OverInv' /\ LiveInv' /\ ForgetInv' /\ AnswerInv' /\ WorkspaceInv'
  BY DEF OverInv, Surfaced, LiveInv, ForgetInv, AnswerInv, WorkspaceInv
<1> QED BY <1>1, <1>2, <1>3, <1>4, <1>5, <1>6, <1>7

(* Nothing is held: the journal becomes a settlement, and all is gone.     *)
LEMMA CloseSettledKeeps ==
    ASSUME IInv, Close, ~journal.held
    PROVE  IInv'
<1> USE DEF IInv, Open, Settling, Working, D, S
<1>n. Open => journal \in JournalSet /\ D \in Dispatches /\ S \in ServerSet
  BY Now
<1>o. Working
  BY DEF Close, MayConclude, Concluding, Settlement, Goto, docker, ControlInv, Fresh, Starting,
     Launching, Sweeping, Posting, Concluded
<1>f. /\ pc = "close" /\ pc' = "post"
      /\ ~journal.held
      /\ journal' \in JournalSet
      /\ journal'.state = "settling"
      /\ journal'.settlement = [started |-> launched, report |-> "pending", work |-> "pending"]
      /\ (journal'.reason = "exited" => journal.reason = "exited")
      /\ UNCHANGED <<journal.d, journal.workspace, journal.attached, journal.ids, journal.pending,
                     journal.held, journal.empty, journal.evidence, journal.exit>>
      /\ UNCHANGED <<ledger, archived, docker, server, told, launched, awaiting, found>>
  <2> DEFINE it == [started |-> launched, report |-> "pending", work |-> "pending"]
  <2>1. journal' = [journal EXCEPT !.state = "settling", !.settlement = it,
                                   !.reason = IF @ = "none" THEN journal.reason ELSE @]
    BY <1>n, <1>o DEF Close, MayConclude, Concluding, Settlement, Goto, docker, MayConclude
  <2>2. /\ it \in [started : BOOLEAN,
           report : {"none", "pending", "skipped", "done", "conflict", "observed"},
           work : {"none", "pending", "done", "conflict"}]
        /\ it = [started |-> launched, report |-> "pending", work |-> "pending"]
    BY DEF SetsType
  <2> HIDE DEF it
  <2>3. it \in [started : BOOLEAN,
           report : {"none", "pending", "skipped", "done", "conflict", "observed"},
           work : {"none", "pending", "done", "conflict"}]
    BY <2>2
  <2>4. /\ journal' \in JournalSet
        /\ journal'.state = "settling"
        /\ (journal'.reason = "exited" => journal.reason = "exited")
        /\ UNCHANGED <<journal.d, journal.workspace, journal.attached, journal.ids,
                       journal.pending, journal.held, journal.empty, journal.evidence,
                       journal.exit>>
        /\ journal'.settlement = it
    BY <1>n, <1>o, <2>1, <2>3 DEF JournalSet, Reasons
  <2>5. /\ journal'.settlement = [started |-> launched, report |-> "pending", work |-> "pending"]
    BY <2>2, <2>4
  <2>6. /\ pc = "close" /\ pc' = "post"
        /\ ~journal.held
        /\ UNCHANGED <<ledger, archived, docker, server, told, launched, awaiting, found>>
    BY <1>n, <1>o DEF Close, MayConclude, Concluding, Settlement, Goto, docker, ControlInv,
       process, MayConclude
  <2> QED BY <2>4, <2>5, <2>6
<1>p. Open'
  BY <1>f, IsOpen
<1> USE <1>f, <1>n, <1>o, <1>p DEF Fresh, Starting, Launching, Sweeping, Posting, Concluded,
process, docker
<1>1. JournalType' /\ ServerType' /\ DaemonType' /\ SetsType' /\ PcType'
  BY DEF JournalType, ServerType, DaemonType, SetsType, PcType
<1>2. ControlInv' /\ SettlementInv'
  BY DEF ControlInv, NextRole, SettlementInv, IsSettled, Result, NoSettlement
<1>3. EveryResourceIsOwned' /\ PendingInv' /\ SweptInv'
  BY DEF EveryResourceIsOwned, PendingInv, SweptInv, AllGone
<1>4. AliveInv' /\ LedgerInv'
  BY DEF AliveInv, LedgerInv
<1>5. WorkInv' /\ OneLive' /\ ClaimInv'
  BY DEF WorkInv, OneLive, ClaimInv
<1>6. EvidenceInv' /\ ReviewIsEarned'
  BY DEF EvidenceInv, ReviewIsEarned
<1>7. OverInv' /\ LiveInv' /\ ForgetInv' /\ AnswerInv' /\ WorkspaceInv'
  BY DEF OverInv, Surfaced, LiveInv, ForgetInv, AnswerInv, WorkspaceInv
<1> QED BY <1>1, <1>2, <1>3, <1>4, <1>5, <1>6, <1>7

(* The settlement goes to the server, a review before its report.          *)
LEMMA StartPostKeeps ==
    ASSUME IInv, StartPost
    PROVE  IInv'
<1> USE DEF IInv, Open, Settling, Working, D, S
<1>n. Open => journal \in JournalSet /\ D \in Dispatches /\ S \in ServerSet
  BY Now
<1>o. Open
  BY DEF StartPost, Goto, ControlInv, Fresh, Starting, Launching, Sweeping, Posting, Concluded
<1> USE <1>n, <1>o DEF StartPost, Goto, process, docker, Fresh, Starting, Launching, Sweeping,
Posting, Concluded
<1>1. JournalType' /\ ServerType' /\ DaemonType' /\ SetsType' /\ PcType'
  BY DEF JournalType, ServerType, DaemonType, SetsType, PcType
<1>2. ControlInv' /\ SettlementInv'
  BY DEF ControlInv, NextRole, SettlementInv, IsSettled, Result, NoSettlement
<1>3. EveryResourceIsOwned' /\ PendingInv' /\ SweptInv'
  BY DEF EveryResourceIsOwned, PendingInv, SweptInv, AllGone
<1>4. AliveInv' /\ LedgerInv'
  BY DEF AliveInv, LedgerInv
<1>5. WorkInv' /\ OneLive' /\ ClaimInv'
  BY DEF WorkInv, OneLive, ClaimInv
<1>6. EvidenceInv' /\ ReviewIsEarned'
  BY DEF EvidenceInv, ReviewIsEarned
<1>7. OverInv' /\ LiveInv' /\ ForgetInv' /\ AnswerInv' /\ WorkspaceInv'
  BY DEF OverInv, Surfaced, LiveInv, ForgetInv, AnswerInv, WorkspaceInv
<1> QED BY <1>1, <1>2, <1>3, <1>4, <1>5, <1>6, <1>7

(* The settlement is posted in a later cycle.                              *)
LEMMA PostLaterKeeps ==
    ASSUME IInv, PostLater
    PROVE  IInv'
<1> USE DEF IInv, Open, Settling, Working, D, S
<1>n. Open => journal \in JournalSet /\ D \in Dispatches /\ S \in ServerSet
  BY Now
<1>o. Settling
  BY DEF PostLater, Goto, ControlInv, Fresh, Starting, Launching, Sweeping, Posting, Concluded
<1> USE <1>n, <1>o DEF PostLater, Goto, process, docker, Fresh, Starting, Launching, Sweeping,
Posting, Concluded
<1>1. JournalType' /\ ServerType' /\ DaemonType' /\ SetsType' /\ PcType'
  BY DEF JournalType, ServerType, DaemonType, SetsType, PcType
<1>2. ControlInv' /\ SettlementInv'
  BY DEF ControlInv, NextRole, SettlementInv, IsSettled, Result, NoSettlement
<1>3. EveryResourceIsOwned' /\ PendingInv' /\ SweptInv'
  BY DEF EveryResourceIsOwned, PendingInv, SweptInv, AllGone
<1>4. AliveInv' /\ LedgerInv'
  BY DEF AliveInv, LedgerInv
<1>5. WorkInv' /\ OneLive' /\ ClaimInv'
  BY DEF WorkInv, OneLive, ClaimInv
<1>6. EvidenceInv' /\ ReviewIsEarned'
  BY DEF EvidenceInv, ReviewIsEarned
<1>7. OverInv' /\ LiveInv' /\ ForgetInv' /\ AnswerInv' /\ WorkspaceInv'
  BY DEF OverInv, Surfaced, LiveInv, ForgetInv, AnswerInv, WorkspaceInv
<1> QED BY <1>1, <1>2, <1>3, <1>4, <1>5, <1>6, <1>7

(* The report was settled before.                                          *)
LEMMA ReportAgainKeeps ==
    ASSUME IInv, NEW reply \in {"done", "conflict", "pending"}, Report(reply),
           journal.settlement.report # "pending"
    PROVE  IInv'
<1> USE DEF IInv, Open, Settling, Working, D, S
<1>n. Open => journal \in JournalSet /\ D \in Dispatches /\ S \in ServerSet
  BY Now
<1>o. Settling
  BY DEF Report, Result, After, Goto, docker, ControlInv, Fresh, Starting, Launching, Sweeping,
     Posting, Concluded
<1>f. /\ (pc = "report" /\ pc' = "work") \/ (pc = "late" /\ pc' = "posted")
      /\ UNCHANGED <<journal, ledger, archived, docker, server, told, launched, awaiting, found>>
  BY <1>n, <1>o DEF Report, Result, After, Goto, docker, JournalSet, ServerSet, ServerType,
     DaemonType, SetsType, Reasons, ControlInv, Fresh, Starting, Launching, Sweeping, Posting,
     Concluded, process
<1> USE <1>f, <1>n, <1>o DEF Fresh, Starting, Launching, Sweeping, Posting, Concluded, process,
docker
<1>1. JournalType' /\ ServerType' /\ DaemonType' /\ SetsType' /\ PcType'
  BY DEF JournalType, ServerType, DaemonType, SetsType, PcType
<1>2. ControlInv' /\ SettlementInv'
  BY DEF ControlInv, NextRole, SettlementInv, IsSettled, Result, NoSettlement
<1>3. EveryResourceIsOwned' /\ PendingInv' /\ SweptInv'
  BY DEF EveryResourceIsOwned, PendingInv, SweptInv, AllGone
<1>4. AliveInv' /\ LedgerInv'
  BY DEF AliveInv, LedgerInv
<1>5. WorkInv' /\ OneLive' /\ ClaimInv'
  BY DEF WorkInv, OneLive, ClaimInv
<1>6. EvidenceInv' /\ ReviewIsEarned'
  BY DEF EvidenceInv, ReviewIsEarned
<1>7. OverInv' /\ LiveInv' /\ ForgetInv' /\ AnswerInv' /\ WorkspaceInv'
  BY DEF OverInv, Surfaced, LiveInv, ForgetInv, AnswerInv, WorkspaceInv
<1> QED BY <1>1, <1>2, <1>3, <1>4, <1>5, <1>6, <1>7

(* A report that is confirmed closed the attempt, under a live claim.      *)
LEMMA ReportSentKeeps ==
    ASSUME IInv, NEW reply \in {"done", "conflict", "pending"}, Report(reply),
           journal.settlement.report = "pending"
    PROVE  IInv'
<1> USE DEF IInv, Open, Settling, Working, D, S
<1>n. Open => journal \in JournalSet /\ D \in Dispatches /\ S \in ServerSet
  BY Now
<1>o. Settling
  BY DEF Report, Result, After, Goto, docker, ControlInv, Fresh, Starting, Launching, Sweeping,
     Posting, Concluded
<1>f. /\ (pc = "report" /\ pc' = "work") \/ (pc = "late" /\ pc' = "posted")
      /\ journal' \in JournalSet
      /\ journal'.settlement # NoSettlement
      /\ UNCHANGED <<journal.d, journal.state, journal.workspace, journal.attached, journal.ids,
                     journal.pending, journal.held, journal.empty, journal.evidence,
                     journal.reason, journal.exit>>
      /\ journal'.settlement.report = reply /\ journal'.settlement.work = journal.settlement.work
      /\ server' \in [Dispatches -> ServerSet]
      /\ \A e \in Dispatches : e # D => server'[e] = server[e]
      /\ server'[D].claim = server[D].claim
      /\ ((server'[D].attempt = server[D].attempt 
           /\ (reply # "done" \/ server[D].attempt = "closed"))
          \/ (server'[D].attempt = "closed" /\ server[D].claim = "live"))
      /\ server'[D].work = server[D].work
      /\ server'[D].proof = server[D].proof
      /\ UNCHANGED <<ledger, archived, docker, told, launched, awaiting, found>>
  <2> DEFINE r == [server[D] EXCEPT !.attempt = "closed"]
  <2>1. /\ r \in ServerSet /\ r.attempt = "closed"
        /\ r.claim = server[D].claim /\ r.work = server[D].work /\ r.proof = server[D].proof
    BY <1>n, <1>o DEF ServerSet
  <2>2. \/ server' = [server EXCEPT ![D] = r] /\ server[D].claim = "live"
        \/ UNCHANGED server /\ (reply # "done" \/ server[D].attempt = "closed")
    BY DEF Report, Result
  <2> HIDE DEF r
  <2>3. ASSUME server' = [server EXCEPT ![D] = r]
        PROVE  /\ server' \in [Dispatches -> ServerSet] /\ server'[D] = r
               /\ \A e \in Dispatches : e # D => server'[e] = server[e]
    BY <1>n, <1>o, <2>1, <2>3, ServerUpdate
  <2>4. ASSUME UNCHANGED server
        PROVE  /\ server' \in [Dispatches -> ServerSet]
               /\ \A e \in Dispatches : server'[e] = server[e]
    BY <2>4 DEF ServerType
  <2>5. journal' = [journal EXCEPT !.settlement.report = reply]
    BY DEF Report, Result, After, Goto, docker
  <2>6. /\ journal' \in JournalSet
        /\ journal'.settlement # NoSettlement
        /\ UNCHANGED <<journal.d, journal.state, journal.workspace, journal.attached, journal.ids,
                       journal.pending, journal.held, journal.empty, journal.evidence,
                       journal.reason, journal.exit>>
        /\ journal'.settlement.report = reply /\ journal'.settlement.work = journal.settlement.work
    BY <1>n, <1>o, <2>5 DEF JournalSet, NoSettlement, SettlementInv, Reasons
  <2>7. /\ (pc = "report" /\ pc' = "work") \/ (pc = "late" /\ pc' = "posted")
        /\ UNCHANGED <<ledger, archived, docker, told, launched, awaiting, found>>
    BY <1>n, <1>o DEF Report, Result, After, Goto, docker, ControlInv, process
  <2>8. /\ server' \in [Dispatches -> ServerSet]
        /\ \A e \in Dispatches : e # D => server'[e] = server[e]
        /\ server'[D].claim = server[D].claim
        /\ ((server'[D].attempt = server[D].attempt 
           /\ (reply # "done" \/ server[D].attempt = "closed"))
            \/ (server'[D].attempt = "closed" /\ server[D].claim = "live"))
        /\ server'[D].work = server[D].work
        /\ server'[D].proof = server[D].proof
    <3>1. CASE server' = [server EXCEPT ![D] = r] /\ server[D].claim = "live"
      BY <2>1, <2>3, <3>1
    <3>2. CASE UNCHANGED server /\ (reply # "done" \/ server[D].attempt = "closed")
      <4>1. server' = server /\ server[D] \in ServerSet
        BY <1>n, <1>o, <3>2
      <4>2. server \in [Dispatches -> ServerSet]
        BY DEF ServerType
      <4> QED BY <3>2, <4>1, <4>2
    <3> QED BY <2>2, <3>1, <3>2
  <2> QED BY <2>6, <2>7, <2>8
<1>p. Open'
  BY <1>f, IsOpen
<1> USE <1>f, <1>n, <1>o, <1>p DEF Fresh, Starting, Launching, Sweeping, Posting, Concluded,
process, docker
<1>1. JournalType' /\ ServerType' /\ DaemonType' /\ SetsType' /\ PcType'
  BY DEF JournalType, ServerType, DaemonType, SetsType, PcType
<1>2. ControlInv' /\ SettlementInv'
  BY DEF ControlInv, NextRole, SettlementInv, IsSettled, Result, NoSettlement
<1>3. EveryResourceIsOwned' /\ PendingInv' /\ SweptInv'
  BY DEF EveryResourceIsOwned, PendingInv, SweptInv, AllGone
<1>4. AliveInv' /\ LedgerInv'
  BY DEF AliveInv, LedgerInv
<1>5. WorkInv' /\ OneLive' /\ ClaimInv'
  BY DEF WorkInv, OneLive, ClaimInv
<1>6. EvidenceInv'
  BY DEF EvidenceInv
<1>7. ReviewIsEarned'
  <2> SUFFICES ASSUME NEW d \in Dispatches, server'[d].work = "needs review"
               PROVE  d \in told /\ server'[d].proof
    BY DEF ReviewIsEarned
  <2>1. CASE d = D
    BY <2>1 DEF ReviewIsEarned
  <2>2. CASE d # D
    BY <2>2 DEF ReviewIsEarned
  <2> QED BY <2>1, <2>2
<1>8. LiveInv' /\ ForgetInv' /\ AnswerInv' /\ WorkspaceInv'
  BY DEF LiveInv, Surfaced, ForgetInv, AnswerInv, WorkspaceInv
<1>9. OverInv'
  <2> SUFFICES ASSUME NEW rec \in archived
               PROVE  Surfaced(rec.d) \/ (server'[rec.d].claim = "gone"
               /\ server'[rec.d].attempt # "open")
    BY DEF OverInv, Surfaced
  <2>1. rec.d \in Dispatches
    BY DEF SetsType
  <2>2. Surfaced(rec.d) \/ (server[rec.d].claim = "gone" /\ server[rec.d].attempt # "open")
    BY DEF OverInv
  <2>3. CASE rec.d = D
    BY <2>2, <2>3
  <2>4. CASE rec.d # D
    BY <2>1, <2>2, <2>4
  <2> QED BY <2>3, <2>4
<1> QED BY <1>1, <1>2, <1>3, <1>4, <1>5, <1>6, <1>7, <1>8, <1>9

(* The work was settled before.                                            *)
LEMMA WorkAgainKeeps ==
    ASSUME IInv, NEW reply \in {"done", "conflict", "pending"}, Work(reply),
           journal.settlement.work # "pending"
    PROVE  IInv'
<1> USE DEF IInv, Open, Settling, Working, D, S
<1>n. Open => journal \in JournalSet /\ D \in Dispatches /\ S \in ServerSet
  BY Now
<1>o. Settling
  BY DEF Work, Result, Goto, docker, ControlInv, Fresh, Starting, Launching, Sweeping, Posting,
     Concluded
<1>f. /\ pc = "work" /\ pc' = "posted"
      /\ UNCHANGED <<journal, ledger, archived, docker, server, told, launched, awaiting, found>>
  BY <1>n, <1>o DEF Work, Result, Goto, docker, JournalSet, ServerSet, ServerType, DaemonType,
     SetsType, Reasons, ControlInv, Fresh, Starting, Launching, Sweeping, Posting, Concluded,
     process
<1> USE <1>f, <1>n, <1>o DEF Fresh, Starting, Launching, Sweeping, Posting, Concluded, process,
docker
<1>1. JournalType' /\ ServerType' /\ DaemonType' /\ SetsType' /\ PcType'
  BY DEF JournalType, ServerType, DaemonType, SetsType, PcType
<1>2. ControlInv' /\ SettlementInv'
  BY DEF ControlInv, NextRole, SettlementInv, IsSettled, Result, NoSettlement
<1>3. EveryResourceIsOwned' /\ PendingInv' /\ SweptInv'
  BY DEF EveryResourceIsOwned, PendingInv, SweptInv, AllGone
<1>4. AliveInv' /\ LedgerInv'
  BY DEF AliveInv, LedgerInv
<1>5. WorkInv' /\ OneLive' /\ ClaimInv'
  BY DEF WorkInv, OneLive, ClaimInv
<1>6. EvidenceInv' /\ ReviewIsEarned'
  BY DEF EvidenceInv, ReviewIsEarned
<1>7. OverInv' /\ LiveInv' /\ ForgetInv' /\ AnswerInv' /\ WorkspaceInv'
  BY DEF OverInv, Surfaced, LiveInv, ForgetInv, AnswerInv, WorkspaceInv
<1> QED BY <1>1, <1>2, <1>3, <1>4, <1>5, <1>6, <1>7

(* A result that is recorded ends the claim; a review needs the evidence.  *)
LEMMA WorkSentKeeps ==
    ASSUME IInv, NEW reply \in {"done", "conflict", "pending"}, Work(reply),
           journal.settlement.work = "pending"
    PROVE  IInv'
<1> USE DEF IInv, Open, Settling, Working, D, S
<1>n. Open => journal \in JournalSet /\ D \in Dispatches /\ S \in ServerSet
  BY Now
<1>o. Settling
  BY DEF Work, Result, Goto, docker, ControlInv, Fresh, Starting, Launching, Sweeping, Posting,
     Concluded
<1>f. /\ pc = "work" /\ pc' \in {"late", "posted"}
      /\ journal' \in JournalSet
      /\ journal'.settlement # NoSettlement
      /\ UNCHANGED <<journal.d, journal.state, journal.workspace, journal.attached, journal.ids,
                     journal.pending, journal.held, journal.empty, journal.evidence,
                     journal.reason, journal.exit>>
      /\ journal'.settlement.work = reply /\ journal'.settlement.report = journal.settlement.report
      /\ server' \in [Dispatches -> ServerSet]
      /\ \A e \in Dispatches : e # D => server'[e] = server[e]
      /\ \/ server'[D] = server[D] /\ (reply = "done" => server[D].work \in SettledWork)
         \/ /\ server[D].claim = "live" /\ server'[D].claim = "gone"
               /\ server'[D].proof = server[D].proof
            /\ server'[D].work \in SettledWork /\ (server'[D].work = "needs review" => Reviews)
            /\ \/ server'[D].attempt = server[D].attempt
               \/ server'[D].attempt = "closed" /\ server[D].attempt = "open"
            /\ (server'[D].work = "needs review" => server'[D].attempt = "closed")
      /\ UNCHANGED <<ledger, archived, docker, told, launched, awaiting, found>>
  <2> DEFINE r == [server[D] EXCEPT !.work = WorkResult, !.claim = "gone",
                                    !.attempt = IF WorkResult = "needs review" THEN "closed" ELSE @]
  <2>w. WorkResult \in SettledWork /\ (WorkResult = "needs review" => Reviews)
    BY DEF WorkResult, SettledWork
  <2>1. /\ r \in ServerSet /\ r.claim = "gone" /\ r.proof = server[D].proof /\ r.work = WorkResult
        /\ r.attempt = (IF WorkResult = "needs review" THEN "closed" ELSE server[D].attempt)
    BY <1>n, <1>o, <2>w DEF ServerSet, SettledWork
  <2>2. \/ server' = [server EXCEPT ![D] = r] /\ Accepts
        \/ UNCHANGED server /\ (reply = "done" => server[D].work \in SettledWork)
    <3>1. CASE reply = "done"
      BY <3>1 DEF Work, Result, WithResult
    <3>2. CASE reply = "conflict"
      BY <3>2 DEF Work, Result, WithResult
    <3>3. CASE reply = "pending"
      BY <3>3 DEF Work, Result, WithResult
    <3> QED BY <3>1, <3>2, <3>3
  <2> HIDE DEF r
  <2>3. ASSUME server' = [server EXCEPT ![D] = r]
        PROVE  /\ server' \in [Dispatches -> ServerSet] /\ server'[D] = r
               /\ \A e \in Dispatches : e # D => server'[e] = server[e]
    BY <1>n, <1>o, <2>1, <2>3, ServerUpdate
  <2>4. ASSUME UNCHANGED server
        PROVE  /\ server' \in [Dispatches -> ServerSet]
               /\ \A e \in Dispatches : server'[e] = server[e]
    BY <2>4 DEF ServerType
  <2>5. journal' = [journal EXCEPT !.settlement.work = reply]
    BY DEF Work, Result, Goto, docker
  <2>6. /\ journal' \in JournalSet
        /\ journal'.settlement # NoSettlement
        /\ UNCHANGED <<journal.d, journal.state, journal.workspace, journal.attached, journal.ids,
                       journal.pending, journal.held, journal.empty, journal.evidence,
                       journal.reason, journal.exit>>
        /\ journal'.settlement.work = reply
           /\ journal'.settlement.report = journal.settlement.report
    BY <1>n, <1>o, <2>5 DEF JournalSet, NoSettlement, SettlementInv, Reasons
  <2>7. /\ pc = "work" /\ pc' \in {"late", "posted"}
        /\ UNCHANGED <<ledger, archived, docker, told, launched, awaiting, found>>
    BY <1>n, <1>o DEF Work, Result, Goto, docker, ControlInv, process
  <2>8. /\ server' \in [Dispatches -> ServerSet]
        /\ \A e \in Dispatches : e # D => server'[e] = server[e]
        /\ \/ server'[D] = server[D] /\ (reply = "done" => server[D].work \in SettledWork)
           \/ /\ server[D].claim = "live" /\ server'[D].claim = "gone"
                 /\ server'[D].proof = server[D].proof
              /\ server'[D].work \in SettledWork /\ (server'[D].work = "needs review" => Reviews)
              /\ \/ server'[D].attempt = server[D].attempt
                 \/ server'[D].attempt = "closed" /\ server[D].attempt = "open"
              /\ (server'[D].work = "needs review" => server'[D].attempt = "closed")
    <3>1. CASE server' = [server EXCEPT ![D] = r] /\ Accepts
      BY <2>1, <2>3, <2>w, <3>1 DEF Accepts
    <3>2. CASE UNCHANGED server /\ (reply = "done" => server[D].work \in SettledWork)
      <4>1. server' = server /\ server[D] \in ServerSet
        BY <1>n, <1>o, <3>2
      <4>2. server \in [Dispatches -> ServerSet]
        BY DEF ServerType
      <4>3. server'[D] = server[D] /\ (reply = "done" => server[D].work \in SettledWork)
        BY <3>2, <4>1
      <4>4. server' \in [Dispatches -> ServerSet]
            /\ \A e \in Dispatches : e # D => server'[e] = server[e]
        BY <4>1, <4>2
      <4> QED BY <4>3, <4>4
    <3> QED BY <2>2, <3>1, <3>2
  <2> QED BY <2>6, <2>7, <2>8
<1>p. Open'
  BY <1>f, IsOpen
<1> USE <1>f, <1>n, <1>o, <1>p DEF Fresh, Starting, Launching, Sweeping, Posting, Concluded,
process, docker
<1>1. JournalType' /\ ServerType' /\ DaemonType' /\ SetsType' /\ PcType'
  BY DEF JournalType, ServerType, DaemonType, SetsType, PcType
<1>2. ControlInv' /\ SettlementInv'
  BY DEF ControlInv, NextRole, SettlementInv, IsSettled, Result, NoSettlement
<1>3. EveryResourceIsOwned' /\ PendingInv' /\ SweptInv'
  BY DEF EveryResourceIsOwned, PendingInv, SweptInv, AllGone
<1>4. AliveInv' /\ LedgerInv'
  BY DEF AliveInv, LedgerInv
<1>5. ClaimInv'
  BY DEF ClaimInv
<1>6. WorkInv'
  <2>1. \A d \in Dispatches : \/ server'[d] = server[d]
                              \/ server'[d].claim = "gone" /\ server'[d].work \in SettledWork
    OBVIOUS
  <2>2. WorkInv
    OBVIOUS
  <2> HIDE <1>f, <1>n, <1>o, <1>p
  <2> HIDE DEF IInv
  <2> QED BY <2>1, <2>2 DEF WorkInv, SettledWork
<1>7. OneLive'
  <2>1. \A d \in Dispatches : server'[d].claim = "live" => server[d].claim = "live"
    OBVIOUS
  <2> QED BY <2>1 DEF OneLive
<1>8. EvidenceInv'
  BY DEF EvidenceInv
<1>9. ReviewIsEarned'
  <2> SUFFICES ASSUME NEW d \in Dispatches, server'[d].work = "needs review"
               PROVE  d \in told /\ server'[d].proof
    BY DEF ReviewIsEarned
  <2>1. CASE d = D
    BY <2>1 DEF ReviewIsEarned, EvidenceInv, Reviews, Result, JournalSet
  <2>2. CASE d # D
    BY <2>2 DEF ReviewIsEarned
  <2> QED BY <2>1, <2>2
<1>10. LiveInv' /\ ForgetInv' /\ WorkspaceInv'
  BY DEF LiveInv, Surfaced, ForgetInv, WorkspaceInv
<1>11. OverInv'
  <2> SUFFICES ASSUME NEW rec \in archived
               PROVE  Surfaced(rec.d) \/ (server'[rec.d].claim = "gone"
               /\ server'[rec.d].attempt # "open")
    BY DEF OverInv, Surfaced
  <2>1. rec.d \in Dispatches
    BY DEF SetsType
  <2>2. Surfaced(rec.d) \/ (server[rec.d].claim = "gone" /\ server[rec.d].attempt # "open")
    BY DEF OverInv
  <2>3. CASE rec.d = D
    BY <2>2, <2>3
  <2>4. CASE rec.d # D
    BY <2>1, <2>2, <2>4
  <2> QED BY <2>3, <2>4
<1>12. AnswerInv'
  <2>1. reply = "done" => server'[D].claim = "gone"
    BY DEF WorkInv, SettledWork, ServerSet
  <2>2. server'[D].attempt = server[D].attempt \/ (server'[D].attempt = "closed"
        /\ server[D].attempt = "open")
    OBVIOUS
  <2>3. journal'.settlement.work = reply /\ journal'.settlement.report = journal.settlement.report
    OBVIOUS
  <2> QED BY <2>1, <2>2, <2>3 DEF AnswerInv, Surfaced
<1> QED BY <1>1, <1>2, <1>3, <1>4, <1>5, <1>6, <1>7, <1>8, <1>9, <1>10, <1>11, <1>12

(* A settlement that is not confirmed is kept.                             *)
LEMMA PostedKeeps ==
    ASSUME IInv, Posted
    PROVE  IInv'
<1> USE DEF IInv, Open, Settling, Working, D, S
<1>n. Open => journal \in JournalSet /\ D \in Dispatches /\ S \in ServerSet
  BY Now
<1>o. Settling
  BY DEF Posted, Goto, ControlInv, Fresh, Starting, Launching, Sweeping, Posting, Concluded
<1> USE <1>n, <1>o DEF Posted, Goto, process, docker, Fresh, Starting, Launching, Sweeping,
Posting, Concluded
<1>1. JournalType' /\ ServerType' /\ DaemonType' /\ SetsType' /\ PcType'
  BY DEF JournalType, ServerType, DaemonType, SetsType, PcType
<1>2. ControlInv' /\ SettlementInv'
  BY DEF ControlInv, NextRole, SettlementInv, IsSettled, Result, NoSettlement
<1>3. EveryResourceIsOwned' /\ PendingInv' /\ SweptInv'
  BY DEF EveryResourceIsOwned, PendingInv, SweptInv, AllGone
<1>4. AliveInv' /\ LedgerInv'
  BY DEF AliveInv, LedgerInv
<1>5. WorkInv' /\ OneLive' /\ ClaimInv'
  BY DEF WorkInv, OneLive, ClaimInv
<1>6. EvidenceInv' /\ ReviewIsEarned'
  BY DEF EvidenceInv, ReviewIsEarned
<1>7. OverInv' /\ LiveInv' /\ ForgetInv' /\ AnswerInv' /\ WorkspaceInv'
  BY DEF OverInv, Surfaced, LiveInv, ForgetInv, AnswerInv, WorkspaceInv
<1> QED BY <1>1, <1>2, <1>3, <1>4, <1>5, <1>6, <1>7

(* With the claim gone the server's record settles what it shows over.     *)
LEMMA ReconcileKeeps ==
    ASSUME IInv, NEW readAttempt \in BOOLEAN, NEW readWork \in BOOLEAN, Reconcile(readAttempt,
           readWork)
    PROVE  IInv'
<1> USE DEF IInv, Open, Settling, Working, D, S
<1>n. Open => journal \in JournalSet /\ D \in Dispatches /\ S \in ServerSet
  BY Now
<1>o. Settling
  BY DEF Reconcile, Result, NothingOwed, Goto, IsSettled, docker, ControlInv, Fresh, Starting,
     Launching, Sweeping, Posting, Concluded
<1>f. /\ pc = "reconcile" /\ pc' \in {"archive", "top"}
      /\ pc' = "archive" => journal'.settlement.report # "pending"
         /\ journal'.settlement.work # "pending"
      /\ journal' \in JournalSet
      /\ journal'.settlement # NoSettlement
      /\ UNCHANGED <<journal.d, journal.state, journal.workspace, journal.attached, journal.ids,
                     journal.pending, journal.held, journal.empty, journal.evidence,
                     journal.reason, journal.exit>>
      /\ \/ journal'.settlement.report = journal.settlement.report
         \/ journal'.settlement.report = "observed" /\ S.attempt = "closed"
      /\ \/ journal'.settlement.work = journal.settlement.work
         \/ journal'.settlement.work = "done"
      /\ UNCHANGED <<ledger, archived, docker, server, told, launched, awaiting, found>>
  <2>1. PICK rep \in {journal.settlement.report, "observed"}, w \in {journal.settlement.work,
        "done"} :
          /\ journal' = [journal EXCEPT !.settlement.report = rep, !.settlement.work = w]
          /\ rep = journal.settlement.report \/ (rep = "observed" /\ S.attempt = "closed")
    <3> DEFINE closedNow == /\ readAttempt /\ Result.report = "pending"
                            /\ journal.attached /\ S.attempt = "closed"
               workDone == /\ readWork /\ Result.work = "pending"
                           /\ NothingOwed(closedNow \/ Result.report = "observed")
               rep == IF closedNow THEN "observed" ELSE journal.settlement.report
               w == IF workDone THEN "done" ELSE journal.settlement.work
    <3>1. journal' = [journal EXCEPT !.settlement.report = rep, !.settlement.work = w]
      BY <1>n, <1>o DEF Reconcile, Result, JournalSet
    <3>2. rep = journal.settlement.report \/ (rep = "observed" /\ S.attempt = "closed")
      OBVIOUS
    <3>3. rep \in {journal.settlement.report, "observed"} /\ w \in {journal.settlement.work, "done"}
      OBVIOUS
    <3> HIDE DEF rep, w
    <3> QED BY <3>1, <3>2, <3>3
  <2>2. journal.settlement.work # "none" /\ journal.settlement.report # "none"
    BY <1>o DEF SettlementInv
  <2>3. /\ journal' \in JournalSet
        /\ journal'.settlement # NoSettlement
        /\ UNCHANGED <<journal.d, journal.state, journal.workspace, journal.attached, journal.ids,
                       journal.pending, journal.held, journal.empty, journal.evidence,
                       journal.reason, journal.exit>>
        /\ \/ journal'.settlement.report = journal.settlement.report
           \/ journal'.settlement.report = "observed" /\ S.attempt = "closed"
        /\ \/ journal'.settlement.work = journal.settlement.work
           \/ journal'.settlement.work = "done"
    BY <1>n, <1>o, <2>1, <2>2 DEF JournalSet, NoSettlement
  <2>4. /\ pc = "reconcile" /\ pc' \in {"archive", "top"}
        /\ pc' = "archive" => journal'.settlement.report # "pending"
           /\ journal'.settlement.work # "pending"
        /\ UNCHANGED <<ledger, archived, docker, server, told, launched, awaiting, found>>
    BY DEF Reconcile, Goto, IsSettled, Result, docker
  <2> QED BY <2>3, <2>4
<1>p. Open'
  BY <1>f, IsOpen
<1> USE <1>f, <1>n, <1>o, <1>p DEF Fresh, Starting, Launching, Sweeping, Posting, Concluded,
process, docker
<1>1. JournalType' /\ ServerType' /\ DaemonType' /\ SetsType' /\ PcType'
  BY DEF JournalType, ServerType, DaemonType, SetsType, PcType
<1>2. ControlInv' /\ SettlementInv'
  BY DEF ControlInv, NextRole, SettlementInv, IsSettled, Result, NoSettlement
<1>3. EveryResourceIsOwned' /\ PendingInv' /\ SweptInv'
  BY DEF EveryResourceIsOwned, PendingInv, SweptInv, AllGone
<1>4. AliveInv' /\ LedgerInv'
  BY DEF AliveInv, LedgerInv
<1>5. WorkInv' /\ OneLive' /\ ClaimInv'
  BY DEF WorkInv, OneLive, ClaimInv
<1>6. EvidenceInv' /\ ReviewIsEarned'
  BY DEF EvidenceInv, ReviewIsEarned
<1>7. OverInv' /\ LiveInv' /\ ForgetInv' /\ AnswerInv' /\ WorkspaceInv'
  BY DEF OverInv, Surfaced, LiveInv, ForgetInv, AnswerInv, ClaimInv, WorkspaceInv
<1> QED BY <1>1, <1>2, <1>3, <1>4, <1>5, <1>6, <1>7

(* A settlement without a conflict is put away: the server shows it over.  *)
LEMMA ArchiveKeeps ==
    ASSUME IInv, Archive
    PROVE  IInv'
<1> USE DEF IInv, Open, Settling, Working, D, S
<1>n. Open => journal \in JournalSet /\ D \in Dispatches /\ S \in ServerSet
  BY Now
<1>o. Settling
  BY DEF Archive, Result, Goto, ControlInv, Fresh, Starting, Launching, Sweeping, Posting, Concluded
<1> USE <1>n, <1>o DEF Archive, Result, Goto, process, docker, Fresh, Starting, Launching,
Sweeping, Posting, Concluded
<1>1. JournalType' /\ ServerType' /\ DaemonType' /\ PcType'
  BY DEF JournalType, ServerType, DaemonType, PcType
<1>2. SetsType'
  <2>1. [d |-> D, conflict |-> "conflict" \in {Result.report, Result.work}] \in [d : Dispatches,
        conflict : BOOLEAN]
    BY <1>n, <1>o
  <2> QED BY <2>1 DEF SetsType
<1>3. ControlInv' /\ SettlementInv'
  BY DEF ControlInv, NextRole, SettlementInv, IsSettled, Result, NoSettlement
<1>4. EveryResourceIsOwned' /\ PendingInv' /\ SweptInv'
  BY DEF EveryResourceIsOwned, PendingInv, SweptInv, AllGone
<1>5. AliveInv' /\ LedgerInv'
  BY DEF AliveInv, LedgerInv
<1>6. WorkInv' /\ OneLive' /\ ClaimInv'
  BY DEF WorkInv, OneLive, ClaimInv
<1>7. EvidenceInv' /\ ReviewIsEarned'
  BY DEF EvidenceInv, ReviewIsEarned
<1>8. LiveInv' /\ AnswerInv' /\ WorkspaceInv'
  BY DEF LiveInv, Surfaced, AnswerInv, WorkspaceInv
<1>9. OverInv'
  <2> DEFINE it == [d |-> D, conflict |-> "conflict" \in {Result.report, Result.work}]
  <2>1. archived' = archived \cup {it} /\ it.d = D /\ UNCHANGED server
    BY DEF Archive
  <2>2. ASSUME it.conflict PROVE it = [d |-> D, conflict |-> TRUE]
    BY <2>2
  <2>3. ASSUME ~it.conflict PROVE Surfaced(D) \/ (S.claim = "gone" /\ S.attempt # "open")
    <3>1. /\ journal.settlement.report \notin {"pending", "conflict"}
          /\ journal.settlement.work \notin {"pending", "conflict"}
      BY <2>3 DEF SettlementInv, IsSettled, Result
    <3>2. journal.settlement \in [started : BOOLEAN,
            report : {"none", "pending", "skipped", "done", "conflict", "observed"},
            work : {"none", "pending", "done", "conflict"}]
      BY DEF JournalSet
    <3>3. journal.settlement.work = "done"
      BY <3>1, <3>2 DEF SettlementInv, NoSettlement
    <3> QED BY <3>1, <3>2, <3>3 DEF AnswerInv, SettlementInv
  <2> SUFFICES ASSUME NEW rec \in archived'
               PROVE  Surfaced(rec.d)' \/ (server[rec.d].claim = "gone"
               /\ server[rec.d].attempt # "open")
    BY <2>1 DEF OverInv
  <2> HIDE DEF it
  <2>4. CASE rec \in archived
    BY <2>1, <2>4 DEF OverInv, Surfaced
  <2>5. CASE rec = it
    BY <2>1, <2>2, <2>3, <2>5 DEF Surfaced
  <2> QED BY <2>1, <2>4, <2>5
<1>10. ForgetInv'
  <2>1. [d |-> D, conflict |-> "conflict" \in {Result.report, Result.work}] \in archived'
    BY DEF Archive
  <2> QED BY <2>1 DEF ForgetInv
<1> QED BY <1>1, <1>2, <1>3, <1>4, <1>5, <1>6, <1>7, <1>8, <1>9, <1>10

(* The journal goes once its attempt is put away.                          *)
LEMMA RemoveJournalKeeps ==
    ASSUME IInv, RemoveJournal
    PROVE  IInv'
<1> USE DEF IInv, Open, Settling, Working, D, S
<1>n. Open => journal \in JournalSet /\ D \in Dispatches /\ S \in ServerSet
  BY Now
<1>o. Settling
  BY DEF RemoveJournal, Goto, ControlInv, Fresh, Starting, Launching, Sweeping, Posting, Concluded
<1> USE <1>n, <1>o DEF RemoveJournal, Goto, process, docker, Fresh, Starting, Launching, Sweeping,
Posting, Concluded
<1>1. JournalType' /\ ServerType' /\ DaemonType' /\ SetsType' /\ PcType'
  BY DEF JournalType, ServerType, DaemonType, SetsType, PcType
<1>2. ControlInv' /\ SettlementInv'
  BY DEF ControlInv, NextRole, SettlementInv, IsSettled, Result, NoSettlement
<1>3. EveryResourceIsOwned' /\ PendingInv' /\ SweptInv'
  BY DEF EveryResourceIsOwned, SweptInv, AllGone, PendingInv
<1>4. AliveInv' /\ LedgerInv'
  BY DEF AliveInv, LedgerInv
<1>5. WorkInv' /\ OneLive' /\ ClaimInv'
  BY DEF WorkInv, OneLive, ClaimInv
<1>6. EvidenceInv' /\ ReviewIsEarned'
  BY DEF EvidenceInv, ReviewIsEarned
<1>7. OverInv' /\ LiveInv' /\ ForgetInv' /\ AnswerInv' /\ WorkspaceInv'
  BY DEF OverInv, Surfaced, LiveInv, ForgetInv, AnswerInv, WorkspaceInv
<1> QED BY <1>1, <1>2, <1>3, <1>4, <1>5, <1>6, <1>7

(* Docker makes only what the journal has pending.                         *)
LEMMA MakeKeeps ==
    ASSUME IInv, NEW d \in Dispatches, NEW r \in Roles, Make(d, r)
    PROVE  IInv'
<1> USE DEF IInv, Open, Settling, Working, D, S
<1>n. Open => journal \in JournalSet /\ D \in Dispatches /\ S \in ServerSet
  BY Now
<1>f. /\ daemon[d][r] = "asked"
      /\ daemon' \in [Dispatches -> [Roles -> DockerHas]]
      /\ \A e \in Dispatches : e # d => daemon'[e] = daemon[e]
      /\ \A q \in Roles : q # r => daemon'[d][q] = daemon[d][q]
      /\ daemon'[d][r] = "there"
      /\ UNCHANGED <<journal, ledger, archived, process, alive, server, told>>
  BY <1>n DEF Make, JournalSet, ServerSet, ServerType, DaemonType, SetsType, Reasons, DockerHas,
     ControlInv, Fresh, Starting, Launching, Sweeping, Posting, Concluded, process
<1> USE <1>f, <1>n DEF Fresh, Starting, Launching, Sweeping, Posting, Concluded, process, docker
<1>1. JournalType' /\ ServerType' /\ DaemonType' /\ SetsType' /\ PcType'
  BY DEF JournalType, ServerType, DaemonType, SetsType, PcType
<1>2. ControlInv' /\ SettlementInv'
  BY DEF ControlInv, NextRole, SettlementInv, IsSettled, Result, NoSettlement
<1>3. EveryResourceIsOwned' /\ PendingInv'
  BY DEF EveryResourceIsOwned, PendingInv
<1>4. SweptInv'
  <2>1. Open /\ D = d /\ r \in journal.pending
    BY DEF EveryResourceIsOwned, PendingInv
  <2>2. ~AllGone
    BY <2>1 DEF AllGone
  <2>3. \A q \in Roles : daemon'[D][q] = "there" => q = r \/ daemon[D][q] = "there"
    BY <2>1
  <2> QED BY <2>1, <2>2, <2>3 DEF SweptInv
<1>5. AliveInv' /\ LedgerInv'
  BY DEF AliveInv, LedgerInv
<1>6. WorkInv' /\ OneLive' /\ ClaimInv'
  BY DEF WorkInv, OneLive, ClaimInv
<1>7. EvidenceInv' /\ ReviewIsEarned'
  BY DEF EvidenceInv, ReviewIsEarned
<1>8. OverInv' /\ LiveInv' /\ ForgetInv' /\ AnswerInv' /\ WorkspaceInv'
  BY DEF OverInv, Surfaced, LiveInv, ForgetInv, AnswerInv, WorkspaceInv
<1> QED BY <1>1, <1>2, <1>3, <1>4, <1>5, <1>6, <1>7, <1>8

(* A create nobody waits for is made after all: no journal speaks of it.   *)
LEMMA MakeUnansweredKeeps ==
    ASSUME IInv, NEW d \in Dispatches, NEW r \in Roles, MakeUnanswered(d, r)
    PROVE  IInv'
<1> USE DEF IInv, Open, Settling, Working, D, S
<1>n. Open => journal \in JournalSet /\ D \in Dispatches /\ S \in ServerSet
  BY Now
<1>f. /\ daemon[d][r] = "unanswered"
      /\ daemon' \in [Dispatches -> [Roles -> DockerHas]]
      /\ \A e \in Dispatches : e # d => daemon'[e] = daemon[e]
      /\ \A q \in Roles : q # r => daemon'[d][q] = daemon[d][q]
      /\ daemon'[d][r] = "stray"
      /\ UNCHANGED <<journal, ledger, archived, process, alive, server, told>>
  BY <1>n DEF MakeUnanswered, JournalSet, ServerSet, ServerType, DaemonType, SetsType, Reasons,
     DockerHas, ControlInv, Fresh, Starting, Launching, Sweeping, Posting, Concluded, process
<1> USE <1>f, <1>n DEF Fresh, Starting, Launching, Sweeping, Posting, Concluded, process, docker
<1>1. JournalType' /\ ServerType' /\ DaemonType' /\ SetsType' /\ PcType'
  BY DEF JournalType, ServerType, DaemonType, SetsType, PcType
<1>2. ControlInv' /\ SettlementInv'
  BY DEF ControlInv, NextRole, SettlementInv, IsSettled, Result, NoSettlement
<1>3. EveryResourceIsOwned' /\ PendingInv'
  BY DEF EveryResourceIsOwned, PendingInv
<1>4. SweptInv'
  <2>1. Open => \A q \in Roles :
                  daemon'[D][q] \in {"asked", "there"} => daemon'[D][q] = daemon[D][q]
    OBVIOUS
  <2>2. Open /\ AllGone => AllGone'
    BY <2>1 DEF AllGone
  <2> QED BY <2>1, <2>2 DEF SweptInv, ControlInv
<1>5. AliveInv' /\ LedgerInv'
  BY DEF AliveInv, LedgerInv
<1>6. WorkInv' /\ OneLive' /\ ClaimInv'
  BY DEF WorkInv, OneLive, ClaimInv
<1>7. EvidenceInv' /\ ReviewIsEarned'
  BY DEF EvidenceInv, ReviewIsEarned
<1>8. OverInv' /\ LiveInv' /\ ForgetInv' /\ AnswerInv' /\ WorkspaceInv'
  BY DEF OverInv, Surfaced, LiveInv, ForgetInv, AnswerInv, WorkspaceInv
<1> QED BY <1>1, <1>2, <1>3, <1>4, <1>5, <1>6, <1>7, <1>8

(* Docker drops a request.                                                 *)
LEMMA DropKeeps ==
    ASSUME IInv, NEW d \in Dispatches, NEW r \in Roles, Drop(d, r)
    PROVE  IInv'
<1> USE DEF IInv, Open, Settling, Working, D, S
<1>n. Open => journal \in JournalSet /\ D \in Dispatches /\ S \in ServerSet
  BY Now
<1>f. /\ daemon[d][r] = "asked"
      /\ daemon' \in [Dispatches -> [Roles -> DockerHas]]
      /\ \A e \in Dispatches : e # d => daemon'[e] = daemon[e]
      /\ \A q \in Roles : q # r => daemon'[d][q] = daemon[d][q]
      /\ daemon'[d][r] = "absent"
      /\ UNCHANGED <<journal, ledger, archived, process, alive, server, told>>
  BY <1>n DEF Drop, JournalSet, ServerSet, ServerType, DaemonType, SetsType, Reasons, DockerHas,
     ControlInv, Fresh, Starting, Launching, Sweeping, Posting, Concluded, process
<1> USE <1>f, <1>n DEF Fresh, Starting, Launching, Sweeping, Posting, Concluded, process, docker
<1>1. JournalType' /\ ServerType' /\ DaemonType' /\ SetsType' /\ PcType'
  BY DEF JournalType, ServerType, DaemonType, SetsType, PcType
<1>2. ControlInv' /\ SettlementInv'
  BY DEF ControlInv, NextRole, SettlementInv, IsSettled, Result, NoSettlement
<1>3. EveryResourceIsOwned' /\ PendingInv'
  BY DEF EveryResourceIsOwned, PendingInv
<1>4. SweptInv'
  <2>1. Open /\ D = d /\ r \in journal.pending
    BY DEF EveryResourceIsOwned, PendingInv
  <2>2. ~AllGone
    BY <2>1 DEF AllGone
  <2>3. \A q \in Roles : daemon'[D][q] = "there" => q = r \/ daemon[D][q] = "there"
    BY <2>1
  <2> QED BY <2>1, <2>2, <2>3 DEF SweptInv
<1>5. AliveInv' /\ LedgerInv'
  BY DEF AliveInv, LedgerInv
<1>6. WorkInv' /\ OneLive' /\ ClaimInv'
  BY DEF WorkInv, OneLive, ClaimInv
<1>7. EvidenceInv' /\ ReviewIsEarned'
  BY DEF EvidenceInv, ReviewIsEarned
<1>8. OverInv' /\ LiveInv' /\ ForgetInv' /\ AnswerInv' /\ WorkspaceInv'
  BY DEF OverInv, Surfaced, LiveInv, ForgetInv, AnswerInv, WorkspaceInv
<1> QED BY <1>1, <1>2, <1>3, <1>4, <1>5, <1>6, <1>7, <1>8

(* A claim runs out.                                                       *)
LEMMA ExpireKeeps ==
    ASSUME IInv, NEW d \in Dispatches, Expire(d)
    PROVE  IInv'
<1> USE DEF IInv, Open, Settling, Working, D, S
<1>n. Open => journal \in JournalSet /\ D \in Dispatches /\ S \in ServerSet
  BY Now
<1>f. /\ server[d].claim = "live"
      /\ server' \in [Dispatches -> ServerSet]
      /\ \A e \in Dispatches : e # d => server'[e] = server[e]
      /\ server'[d].claim = "expired"
      /\ server'[d].attempt = server[d].attempt
      /\ server'[d].work = server[d].work
      /\ server'[d].proof = server[d].proof
      /\ UNCHANGED <<journal, ledger, archived, process, docker, told>>
  <2> DEFINE r == [server[d] EXCEPT !.claim = "expired"]
  <2>1. server[d] \in ServerSet
    BY DEF ServerType
  <2>2. r \in ServerSet
    BY <2>1 DEF ServerSet
  <2>3. r.claim = "expired" /\ r.attempt = server[d].attempt /\ r.work = server[d].work
        /\ r.proof = server[d].proof
    BY <2>1 DEF ServerSet
  <2>4. server' = [server EXCEPT ![d] = r] /\ server[d].claim = "live"
        /\ UNCHANGED <<journal, ledger, archived, process, docker, told>>
    BY DEF Expire, docker, process
  <2> HIDE DEF r
  <2>5. server' \in [Dispatches -> ServerSet] /\ server'[d] = r
        /\ \A e \in Dispatches : e # d => server'[e] = server[e]
    BY <2>2, <2>4, ServerUpdate
  <2> QED BY <2>3, <2>4, <2>5
<1> USE <1>f, <1>n DEF Fresh, Starting, Launching, Sweeping, Posting, Concluded, process, docker
<1>1. JournalType' /\ ServerType' /\ DaemonType' /\ SetsType' /\ PcType'
  BY DEF JournalType, ServerType, DaemonType, SetsType, PcType
<1>2. ControlInv' /\ SettlementInv'
  BY DEF ControlInv, NextRole, SettlementInv, IsSettled, Result, NoSettlement
<1>3. EveryResourceIsOwned' /\ PendingInv' /\ SweptInv'
  BY DEF EveryResourceIsOwned, PendingInv, SweptInv, AllGone
<1>4. AliveInv' /\ LedgerInv'
  BY DEF AliveInv, LedgerInv
<1>5. WorkInv' /\ OneLive'
  BY DEF WorkInv, OneLive
<1>6. ClaimInv'
  <2>1. CASE Open /\ D = d
    BY <2>1 DEF ClaimInv
  <2>2. CASE ~Open \/ D # d
    BY <2>2 DEF ClaimInv, ControlInv
  <2> QED BY <2>1, <2>2
<1>7. EvidenceInv' /\ ReviewIsEarned'
  BY DEF EvidenceInv, ReviewIsEarned
<1>8. LiveInv' /\ ForgetInv' /\ AnswerInv' /\ WorkspaceInv'
  BY DEF LiveInv, Surfaced, ForgetInv, AnswerInv, WorkspaceInv
<1>9. OverInv'
  <2> SUFFICES ASSUME NEW rec \in archived
               PROVE  Surfaced(rec.d) \/ (server'[rec.d].claim = "gone"
               /\ server'[rec.d].attempt # "open")
    BY DEF OverInv, Surfaced
  <2>1. rec.d \in Dispatches
    BY DEF SetsType
  <2>2. Surfaced(rec.d) \/ (server[rec.d].claim = "gone" /\ server[rec.d].attempt # "open")
    BY DEF OverInv
  <2> QED BY <2>1, <2>2
<1> QED BY <1>1, <1>2, <1>3, <1>4, <1>5, <1>6, <1>7, <1>8, <1>9

(* The operator requeues the work of an expired claim.                     *)
LEMMA RequeueKeeps ==
    ASSUME IInv, NEW d \in Dispatches, Requeue(d)
    PROVE  IInv'
<1> USE DEF IInv, Open, Settling, Working, D, S
<1>n. Open => journal \in JournalSet /\ D \in Dispatches /\ S \in ServerSet
  BY Now
<1>f. /\ server[d].claim = "expired"
      /\ server' \in [Dispatches -> ServerSet]
      /\ \A e \in Dispatches : e # d => server'[e] = server[e]
      /\ server'[d].claim = "gone"
      /\ server'[d].attempt = server[d].attempt
      /\ server'[d].work = "queued"
      /\ server'[d].proof = server[d].proof
      /\ UNCHANGED <<journal, ledger, archived, process, docker, told>>
  <2> DEFINE r == [server[d] EXCEPT !.claim = "gone", !.work = "queued"]
  <2>1. server[d] \in ServerSet
    BY DEF ServerType
  <2>2. r \in ServerSet
    BY <2>1 DEF ServerSet
  <2>3. r.claim = "gone" /\ r.attempt = server[d].attempt /\ r.work = "queued"
        /\ r.proof = server[d].proof
    BY <2>1 DEF ServerSet
  <2>4. server' = [server EXCEPT ![d] = r] /\ server[d].claim = "expired"
        /\ UNCHANGED <<journal, ledger, archived, process, docker, told>>
    BY DEF Requeue, docker, process
  <2> HIDE DEF r
  <2>5. server' \in [Dispatches -> ServerSet] /\ server'[d] = r
        /\ \A e \in Dispatches : e # d => server'[e] = server[e]
    BY <2>2, <2>4, ServerUpdate
  <2> QED BY <2>3, <2>4, <2>5
<1> USE <1>f, <1>n DEF Fresh, Starting, Launching, Sweeping, Posting, Concluded, process, docker
<1>1. JournalType' /\ ServerType' /\ DaemonType' /\ SetsType' /\ PcType'
  BY DEF JournalType, ServerType, DaemonType, SetsType, PcType
<1>2. ControlInv' /\ SettlementInv'
  BY DEF ControlInv, NextRole, SettlementInv, IsSettled, Result, NoSettlement
<1>3. EveryResourceIsOwned' /\ PendingInv' /\ SweptInv'
  BY DEF EveryResourceIsOwned, PendingInv, SweptInv, AllGone
<1>4. AliveInv' /\ LedgerInv'
  BY DEF AliveInv, LedgerInv
<1>5. WorkInv' /\ OneLive'
  BY DEF WorkInv, OneLive
<1>6. ClaimInv'
  <2>1. CASE Open /\ D = d
    BY <2>1 DEF ClaimInv
  <2>2. CASE ~Open \/ D # d
    BY <2>2 DEF ClaimInv, ControlInv
  <2> QED BY <2>1, <2>2
<1>7. EvidenceInv' /\ ReviewIsEarned'
  BY DEF EvidenceInv, ReviewIsEarned
<1>8. LiveInv' /\ ForgetInv' /\ AnswerInv' /\ WorkspaceInv'
  BY DEF LiveInv, Surfaced, ForgetInv, AnswerInv, WorkspaceInv
<1>9. OverInv'
  <2> SUFFICES ASSUME NEW rec \in archived
               PROVE  Surfaced(rec.d) \/ (server'[rec.d].claim = "gone"
               /\ server'[rec.d].attempt # "open")
    BY DEF OverInv, Surfaced
  <2>1. rec.d \in Dispatches
    BY DEF SetsType
  <2>2. Surfaced(rec.d) \/ (server[rec.d].claim = "gone" /\ server[rec.d].attempt # "open")
    BY DEF OverInv
  <2> QED BY <2>1, <2>2
<1> QED BY <1>1, <1>2, <1>3, <1>4, <1>5, <1>6, <1>7, <1>8, <1>9

(* A cleaned receipt closes an attempt whose claim is gone.                *)
LEMMA CleanedReceiptKeeps ==
    ASSUME IInv, NEW d \in Dispatches, CleanedReceipt(d)
    PROVE  IInv'
<1> USE DEF IInv, Open, Settling, Working, D, S
<1>n. Open => journal \in JournalSet /\ D \in Dispatches /\ S \in ServerSet
  BY Now
<1>f. /\ server[d].claim = "gone" /\ server[d].attempt = "open"
      /\ Open => D # d \/ journal.state = "settling"
      /\ server' \in [Dispatches -> ServerSet]
      /\ \A e \in Dispatches : e # d => server'[e] = server[e]
      /\ server'[d].claim = server[d].claim
      /\ server'[d].attempt = "closed"
      /\ server'[d].work = server[d].work
      /\ server'[d].proof = server[d].proof
      /\ UNCHANGED <<journal, ledger, archived, process, docker, told>>
  <2> DEFINE r == [server[d] EXCEPT !.attempt = "closed"]
  <2>1. server[d] \in ServerSet
    BY DEF ServerType
  <2>2. r \in ServerSet
    BY <2>1 DEF ServerSet
  <2>3. r.claim = server[d].claim /\ r.attempt = "closed" /\ r.work = server[d].work
        /\ r.proof = server[d].proof
    BY <2>1 DEF ServerSet
  <2>4. server' = [server EXCEPT ![d] = r] /\ server[d].claim = "gone"
        /\ server[d].attempt = "open" /\ (Open => D # d \/ journal.state = "settling")
           /\ UNCHANGED <<journal, ledger, archived, process, docker, told>>
    BY DEF CleanedReceipt, docker, process
  <2> HIDE DEF r
  <2>5. server' \in [Dispatches -> ServerSet] /\ server'[d] = r
        /\ \A e \in Dispatches : e # d => server'[e] = server[e]
    BY <2>2, <2>4, ServerUpdate
  <2> QED BY <2>3, <2>4, <2>5
<1> USE <1>f, <1>n DEF Fresh, Starting, Launching, Sweeping, Posting, Concluded, process, docker
<1>1. JournalType' /\ ServerType' /\ DaemonType' /\ SetsType' /\ PcType'
  BY DEF JournalType, ServerType, DaemonType, SetsType, PcType
<1>2. ControlInv' /\ SettlementInv'
  BY DEF ControlInv, NextRole, SettlementInv, IsSettled, Result, NoSettlement
<1>3. EveryResourceIsOwned' /\ PendingInv' /\ SweptInv'
  BY DEF EveryResourceIsOwned, PendingInv, SweptInv, AllGone
<1>4. AliveInv' /\ LedgerInv'
  BY DEF AliveInv, LedgerInv
<1>5. WorkInv' /\ OneLive'
  BY DEF WorkInv, OneLive
<1>6. ClaimInv'
  <2>1. CASE Open /\ D = d
    BY <2>1 DEF ClaimInv
  <2>2. CASE ~Open \/ D # d
    BY <2>2 DEF ClaimInv, ControlInv
  <2> QED BY <2>1, <2>2
<1>7. EvidenceInv' /\ ReviewIsEarned'
  BY DEF EvidenceInv, ReviewIsEarned
<1>8. LiveInv' /\ ForgetInv' /\ AnswerInv' /\ WorkspaceInv'
  BY DEF LiveInv, Surfaced, ForgetInv, AnswerInv, WorkspaceInv
<1>9. OverInv'
  <2> SUFFICES ASSUME NEW rec \in archived
               PROVE  Surfaced(rec.d) \/ (server'[rec.d].claim = "gone"
               /\ server'[rec.d].attempt # "open")
    BY DEF OverInv, Surfaced
  <2>1. rec.d \in Dispatches
    BY DEF SetsType
  <2>2. Surfaced(rec.d) \/ (server[rec.d].claim = "gone" /\ server[rec.d].attempt # "open")
    BY DEF OverInv
  <2> QED BY <2>1, <2>2
<1> QED BY <1>1, <1>2, <1>3, <1>4, <1>5, <1>6, <1>7, <1>8, <1>9

(* The operator releases creates of which Docker made none.                *)
LEMMA ReleaseUnknownCreatesKeeps ==
    ASSUME IInv, ReleaseUnknownCreates
    PROVE  IInv'
<1> USE DEF IInv, Open, Settling, Working, D, S
<1>n. Open => journal \in JournalSet /\ D \in Dispatches /\ S \in ServerSet
  BY Now
<1>o. Open
  BY DEF ReleaseUnknownCreates, Goto, docker, ControlInv, Fresh, Starting, Launching, Sweeping,
     Posting, Concluded
<1>f. /\ pc = "top" /\ pc' = "kill again"
      /\ Working
      /\ \A r \in journal.pending : daemon[D][r] = "absent"
      /\ journal' \in JournalSet
      /\ journal'.pending = {}
      /\ UNCHANGED <<journal.d, journal.state, journal.workspace, journal.attached, journal.ids,
                     journal.held, journal.empty, journal.evidence, journal.reason, journal.exit,
                     journal.settlement>>
      /\ UNCHANGED <<ledger, archived, docker, server, told, launched, awaiting, found>>
  BY <1>n, <1>o DEF ReleaseUnknownCreates, Goto, docker, JournalSet, ServerSet, ServerType,
     DaemonType, SetsType, Reasons, ControlInv, Fresh, Starting, Launching, Sweeping, Posting,
     Concluded, process
<1>p. Open'
  BY <1>f, IsOpen
<1> USE <1>f, <1>n, <1>o, <1>p DEF Fresh, Starting, Launching, Sweeping, Posting, Concluded,
process, docker
<1>1. JournalType' /\ ServerType' /\ DaemonType' /\ SetsType' /\ PcType'
  BY DEF JournalType, ServerType, DaemonType, SetsType, PcType
<1>2. ControlInv' /\ SettlementInv'
  BY DEF ControlInv, NextRole, SettlementInv, IsSettled, Result, NoSettlement
<1>3. EveryResourceIsOwned' /\ PendingInv' /\ SweptInv'
  BY DEF EveryResourceIsOwned, PendingInv, SweptInv, AllGone
<1>4. AliveInv' /\ LedgerInv'
  BY DEF AliveInv, LedgerInv
<1>5. WorkInv' /\ OneLive' /\ ClaimInv'
  BY DEF WorkInv, OneLive, ClaimInv
<1>6. EvidenceInv' /\ ReviewIsEarned'
  BY DEF EvidenceInv, ReviewIsEarned
<1>7. OverInv' /\ LiveInv' /\ ForgetInv' /\ AnswerInv' /\ WorkspaceInv'
  BY DEF OverInv, Surfaced, LiveInv, ForgetInv, AnswerInv, WorkspaceInv
<1> QED BY <1>1, <1>2, <1>3, <1>4, <1>5, <1>6, <1>7

(* The process dies; what it remembered is gone.                           *)
LEMMA CrashKeeps ==
    ASSUME IInv, Crash
    PROVE  IInv'
<1> USE DEF IInv, Open, Settling, Working, D, S
<1>n. Open => journal \in JournalSet /\ D \in Dispatches /\ S \in ServerSet
  BY Now
<1> USE <1>n DEF Crash, process, docker, Fresh, Starting, Launching, Sweeping, Posting, Concluded
<1>1. JournalType' /\ ServerType' /\ DaemonType' /\ SetsType' /\ PcType'
  BY DEF JournalType, ServerType, DaemonType, SetsType, PcType
<1>2. ControlInv' /\ SettlementInv'
  BY DEF ControlInv, NextRole, SettlementInv, IsSettled, Result, NoSettlement
<1>3. EveryResourceIsOwned' /\ PendingInv' /\ SweptInv'
  BY DEF EveryResourceIsOwned, PendingInv, SweptInv, AllGone
<1>4. AliveInv' /\ LedgerInv'
  BY DEF AliveInv, LedgerInv
<1>5. WorkInv' /\ OneLive' /\ ClaimInv'
  BY DEF WorkInv, OneLive, ClaimInv
<1>6. EvidenceInv' /\ ReviewIsEarned'
  BY DEF EvidenceInv, ReviewIsEarned
<1>7. OverInv' /\ LiveInv' /\ ForgetInv' /\ AnswerInv' /\ WorkspaceInv'
  BY DEF OverInv, Surfaced, LiveInv, ForgetInv, AnswerInv, WorkspaceInv
<1> QED BY <1>1, <1>2, <1>3, <1>4, <1>5, <1>6, <1>7

-----------------------------------------------------------------------------
(* The initial states have no journal, no resource and no open attempt.    *)
LEMMA InitInv == Init => IInv
<1> SUFFICES ASSUME Init PROVE IInv
  OBVIOUS
<1> USE DEF Init, Open, Settling, Working, D, S
<1>1. JournalType /\ ServerType /\ DaemonType /\ SetsType /\ PcType
  BY DEF JournalType, ServerType, DaemonType, DockerHas, SetsType, PcType, ServerSet
<1>2. ControlInv /\ SettlementInv
  BY DEF ControlInv, SettlementInv, Fresh, Launching, Sweeping, Posting, Concluded
<1>3. EveryResourceIsOwned /\ PendingInv /\ SweptInv /\ AliveInv /\ LedgerInv
  BY DEF EveryResourceIsOwned, PendingInv, SweptInv, AliveInv, LedgerInv, Fresh, Launching,
     Sweeping, Starting
<1>4. WorkInv /\ OneLive /\ ClaimInv
  BY DEF WorkInv, OneLive, ClaimInv
<1>5. EvidenceInv /\ ReviewIsEarned
  BY DEF EvidenceInv, ReviewIsEarned, Fresh, Launching, Posting
<1>6. OverInv /\ LiveInv /\ ForgetInv /\ AnswerInv /\ WorkspaceInv
  BY DEF OverInv, LiveInv, ForgetInv, AnswerInv, WorkspaceInv
<1> QED BY <1>1, <1>2, <1>3, <1>4, <1>5, <1>6 DEF IInv

(* A step that changes nothing changes no part.                            *)
LEMMA StutterKeeps ==
    ASSUME IInv, UNCHANGED vars
    PROVE  IInv'
<1> USE DEF IInv, vars, process, docker, Open, Settling, Working, D, S
<1>1. JournalType' /\ ServerType' /\ DaemonType' /\ SetsType' /\ PcType'
  BY DEF JournalType, ServerType, DaemonType, SetsType, PcType
<1>2. ControlInv' /\ SettlementInv'
  BY DEF ControlInv, NextRole, SettlementInv, IsSettled, Result
<1>3. EveryResourceIsOwned' /\ PendingInv' /\ SweptInv' /\ AliveInv' /\ LedgerInv'
  BY DEF EveryResourceIsOwned, PendingInv, SweptInv, AllGone, AliveInv, LedgerInv
<1>4. WorkInv' /\ OneLive' /\ ClaimInv'
  BY DEF WorkInv, OneLive, ClaimInv
<1>5. EvidenceInv' /\ ReviewIsEarned'
  BY DEF EvidenceInv, ReviewIsEarned
<1>6. OverInv' /\ LiveInv' /\ ForgetInv' /\ AnswerInv' /\ WorkspaceInv'
  BY DEF OverInv, LiveInv, ForgetInv, AnswerInv, WorkspaceInv, Surfaced
<1> QED BY <1>1, <1>2, <1>3, <1>4, <1>5, <1>6

(* Consume is one of three: nothing, a new journal, a journal that is left. *)
LEMMA ConsumeKeeps ==
    ASSUME IInv, Consume
    PROVE  IInv'
<1> USE DEF Goto
<1>1. CASE Offered = {} /\ UNCHANGED <<server, journal>>
  BY <1>1, ConsumeNothingKeeps DEF Consume
<1>2. ASSUME NEW d \in Offered, server' = Claimed(d), journal = NoJournal,
             journal' = FreshJournal(d), Goto("claimed")
      PROVE  IInv'
  <2>1. d \in Dispatches
    BY DEF Offered
  <2> QED BY <1>2, <2>1, ConsumeFreshKeeps DEF Consume
<1>3. ASSUME NEW d \in Offered, server' = Claimed(d), journal # NoJournal, UNCHANGED journal,
             Goto(IF d = D THEN "resume" ELSE "reconcile")
      PROVE  IInv'
  <2>1. d \in Dispatches
    BY DEF Offered
  <2> QED BY <1>3, <2>1, ConsumeKeptKeeps DEF Consume
<1> QED BY <1>1, <1>2, <1>3 DEF Consume

(* Every step of the supervisor keeps the invariant.                       *)
LEMMA SuperviseKeeps ==
    ASSUME IInv, Supervise
    PROVE  IInv'
<1>1. CASE Recover
  BY <1>1, RecoverKeeps
<1>2. CASE Recovered
  BY <1>2, RecoveredHeldKeeps, RecoveredCleanKeeps
<1>3. CASE Top
  BY <1>3, TopKeeps
<1>4. CASE Refused
  BY <1>4, RefusedKeeps
<1>5. CASE Consume
  BY <1>5, ConsumeKeeps
<1>6. ASSUME NEW listed \in BOOLEAN, NEW empty \in BOOLEAN, Kill(listed, empty) PROVE IInv'
  BY <1>6, KillKeeps
<1>7. ASSUME NEW failed \in SUBSET Roles, Remove(failed) PROVE IInv'
  BY <1>7, RemoveKeeps
<1>8. CASE AlreadyExecuted
  BY <1>8, AlreadyExecutedKeeps
<1>9. CASE RefuseStart
  BY <1>9, RefuseStartKeeps
<1>10. CASE RecordDispatch
  BY <1>10, RecordDispatchKeeps
<1>11. CASE SaveWorkspace
  BY <1>11, SaveWorkspaceKeeps
<1>12. ASSUME NEW reply \in BOOLEAN, Attach(reply) PROVE IInv'
  BY <1>12, AttachStartsKeeps, AttachFailsKeeps
<1>13. CASE AskCreate
  BY <1>13, AskCreateKeeps
<1>14. CASE Ask
  BY <1>14, AskKeeps
<1>15. CASE Created
  BY <1>15, CreatedKeeps
<1>16. ASSUME NEW refused \in BOOLEAN, CreateFails(refused) PROVE IInv'
  BY <1>16, CreateFailsKeeps
<1>17. CASE StartContainers
  BY <1>17, StartContainersKeeps
<1>18. CASE Ready
  BY <1>18, ReadyKeeps
<1>19. CASE Acknowledge
  BY <1>19, AcknowledgeKeeps
<1>20. CASE Go
  BY <1>20, GoKeeps
<1>21. ASSUME NEW code \in {"ok", "bad"}, Exit(code) PROVE IInv'
  BY <1>21, ExitKeeps
<1>22. ASSUME NEW reason \in Reasons, Stop(reason) PROVE IInv'
  BY <1>22, StopKeeps
<1>23. CASE StopWaited
  BY <1>23, StopWaitedKeeps
<1>24. ASSUME NEW captured \in BOOLEAN, Freeze(captured) PROVE IInv'
  BY <1>24, FreezeOwedKeeps, FreezeNothingKeeps
<1>25. ASSUME NEW acknowledged \in BOOLEAN, Upload(acknowledged) PROVE IInv'
  BY <1>25, UploadKeeps
<1>26. CASE KeepUnsettled
  BY <1>26, KeepResumeKeeps, KeepEarlyKeeps
<1>27. CASE Close
  BY <1>27, CloseHeldKeeps, CloseSettledKeeps
<1>28. CASE StartPost
  BY <1>28, StartPostKeeps
<1>29. CASE PostLater
  BY <1>29, PostLaterKeeps
<1>30. ASSUME NEW reply \in {"done", "conflict", "pending"}, Report(reply) PROVE IInv'
  BY <1>30, ReportAgainKeeps, ReportSentKeeps
<1>31. ASSUME NEW reply \in {"done", "conflict", "pending"}, Work(reply) PROVE IInv'
  BY <1>31, WorkAgainKeeps, WorkSentKeeps
<1>32. CASE Posted
  BY <1>32, PostedKeeps
<1>33. ASSUME NEW readAttempt \in BOOLEAN, NEW readWork \in BOOLEAN, Reconcile(readAttempt,
              readWork) PROVE IInv'
  BY <1>33, ReconcileKeeps
<1>34. CASE Archive
  BY <1>34, ArchiveKeeps
<1>35. CASE RemoveJournal
  BY <1>35, RemoveJournalKeeps
<1> QED BY <1>1, <1>2, <1>3, <1>4, <1>5, <1>6, <1>7, <1>8, <1>9, <1>10, <1>11, <1>12, <1>13, <1>14,
<1>15, <1>16, <1>17, <1>18, <1>19, <1>20, <1>21, <1>22, <1>23, <1>24, <1>25, <1>26, <1>27, <1>28,
<1>29, <1>30, <1>31, <1>32, <1>33, <1>34, <1>35 DEF Supervise

(* So does every step of Docker, of the server, of the operator, and death. *)
LEMMA EnvironmentKeeps ==
    ASSUME IInv, Environment
    PROVE  IInv'
<1>1. ASSUME NEW d \in Dispatches, NEW r \in Roles, Make(d, r) PROVE IInv'
  BY <1>1, MakeKeeps
<1>2. ASSUME NEW d \in Dispatches, NEW r \in Roles, Drop(d, r) PROVE IInv'
  BY <1>2, DropKeeps
<1>3. ASSUME NEW d \in Dispatches, Expire(d) PROVE IInv'
  BY <1>3, ExpireKeeps
<1>4. ASSUME NEW d \in Dispatches, Requeue(d) PROVE IInv'
  BY <1>4, RequeueKeeps
<1>5. ASSUME NEW d \in Dispatches, CleanedReceipt(d) PROVE IInv'
  BY <1>5, CleanedReceiptKeeps
<1>6. CASE ReleaseUnknownCreates
  BY <1>6, ReleaseUnknownCreatesKeeps
<1>7. CASE Crash
  BY <1>7, CrashKeeps
<1>8. ASSUME NEW d \in Dispatches, NEW r \in Roles, MakeUnanswered(d, r) PROVE IInv'
  BY <1>8, MakeUnansweredKeeps
<1> QED BY <1>1, <1>2, <1>3, <1>4, <1>5, <1>6, <1>7, <1>8 DEF Environment

-----------------------------------------------------------------------------
(* The invariant holds in every state a run of the supervisor reaches.     *)
THEOREM Invariance == Spec => []IInv
<1>1. Init => IInv
  BY InitInv
<1>2. IInv /\ [Next]_vars => IInv'
  BY SuperviseKeeps, EnvironmentKeeps, StutterKeeps DEF Next
<1> QED BY <1>1, <1>2, PTL DEF Spec

(* Every variable holds a value of its kind, and a journal is a settlement *)
(* only with its record (superviseOnce).                                   *)
THEOREM TypeCorrect == Spec => []TypeOK
<1>1. ASSUME IInv PROVE TypeOK
  <2>1. journal # NoJournal => JournalOK(journal)
    BY <1>1 DEF IInv, JournalType, SettlementInv, Open, Settling, JournalSet, JournalOK
  <2> QED BY <1>1, <2>1 DEF IInv, SetsType, DaemonType, TypeOK
<1> QED BY <1>1, Invariance, PTL

(* Whatever Docker has, or may still make, has a journal.                  *)
THEOREM Owned == Spec => []EveryResourceIsOwned
<1>1. IInv => EveryResourceIsOwned
  BY DEF IInv
<1> QED BY <1>1, Invariance, PTL

(* The server never has an attempt as over while its workload may run: one *)
(* that may run belongs to a journal that is no settlement, whose attempt  *)
(* is open (settle, stopAttempt, postSettlement).                          *)
THEOREM StoppedFirst == Spec => []NothingRunsOnceClosed
<1>1. ASSUME IInv PROVE NothingRunsOnceClosed
  BY <1>1 DEF IInv, AliveInv, Working, Open, D, S, NothingRunsOnceClosed, SettledWork
<1> QED BY <1>1, Invariance, PTL

(* A dispatch whose workload was told to go is not started again.          *)
THEOREM StartedOnce == Spec => []NeverStartedAgain
<1>1. ASSUME IInv PROVE NeverStartedAgain
  BY <1>1 DEF IInv, LedgerInv, NeverStartedAgain, Starting
<1> QED BY <1>1, Invariance, PTL

(* Work goes to review only with an exit and the evidence of it.           *)
THEOREM ReviewEarned == Spec => []ReviewIsEarned
<1>1. IInv => ReviewIsEarned
  BY DEF IInv
<1> QED BY <1>1, Invariance, PTL

(* An attempt put away without a surfaced conflict is over on the server.  *)
THEOREM QuietArchive == Spec => []QuietArchiveIsTrue
<1>1. ASSUME IInv PROVE QuietArchiveIsTrue
  <2> SUFFICES ASSUME NEW rec \in archived
               PROVE  \/ [rec EXCEPT !.conflict = TRUE] \in archived
                      \/ server[rec.d].attempt # "open" /\ server[rec.d].work # "claimed"
    BY DEF QuietArchiveIsTrue
  <2>1. rec \in [d : Dispatches, conflict : BOOLEAN]
    BY <1>1 DEF IInv, SetsType
  <2>2. [rec EXCEPT !.conflict = TRUE] = [d |-> rec.d, conflict |-> TRUE]
    <3> DEFINE x == [rec EXCEPT !.conflict = TRUE]
    <3>1. x \in [d : Dispatches, conflict : BOOLEAN]
      BY <2>1
    <3>2. x.d = rec.d /\ x.conflict = TRUE
      BY <2>1
    <3> HIDE DEF x
    <3>3. x = [d |-> rec.d, conflict |-> TRUE]
      BY <3>1, <3>2
    <3> QED BY <3>3 DEF x
  <2>3. CASE Surfaced(rec.d)
    BY <2>2, <2>3 DEF Surfaced
  <2>4. CASE server[rec.d].claim = "gone" /\ server[rec.d].attempt # "open"
    BY <1>1, <2>1, <2>4 DEF IInv, WorkInv
  <2> QED BY <1>1, <2>3, <2>4 DEF IInv, OverInv
<1> QED BY <1>1, Invariance, PTL

=============================================================================
