--------------------------- MODULE CleanupReceipts ---------------------------
(***************************************************************************)
(* What the supervisor tells the server about the cleanup of its attempts: *)
(* the receipts an attempt's journal owes (supervisor/attemptSettle.ts),   *)
(* the durable outbox they wait in (supervisor/cleanupReceiptOutbox.ts),   *)
(* the cycle of superviseOnce that moves them, and the server that records *)
(* them.  Every file is written atomically; the process may die between    *)
(* any two writes, and the next one starts at the top of superviseOnce.    *)
(*                                                                         *)
(* The teardown itself is left out: a stop ends "clean", with something    *)
(* "held", or with a cgroup that was not seen empty ("populated").         *)
(***************************************************************************)
EXTENDS Integers, Sequences, FiniteSets, SequencesExt

CONSTANTS
  Attempts,   \* attempts, one after the other
  Faults,     \* bound: crashes, stops that hold, releases that fail, bad replies
  Limit,      \* OUTBOX_LIMIT
  PerCycle,   \* SEND_PER_CYCLE
  Stubborn    \* keys the server never gives a clear answer to

VARIABLES
  journal,    \* the attempt journal on disk, or NoJournal
  retired,    \* journals copied under retired/
  outbox,     \* the outbox on disk
  tried,      \* keys in the outbox in the order they were last sent
  pc, then,   \* where the process is in superviseOnce, and what follows
  due,        \* keys the current cycle still sends
  recorded,   \* receipts on the server
  claim,      \* the server still hands out the attempt's own claim
  ended,      \* keys whose sending was ended by an answer: history
  left,       \* stops that left something held: history
  faults

files == <<journal, retired, outbox, tried>>
memory == <<pc, then, due>>
history == <<ended, left>>
vars == <<files, memory, recorded, claim, history, faults>>

ASSUME BoundsAreNumbers ==
  Attempts \in Nat /\ Faults \in Nat /\ Limit \in Nat /\ PerCycle \in Nat

NoJournal == [attempt |-> 0]

States == {"execution_stopped", "cleaned", "cleanup_failed"}
Outcomes == {"clean", "held", "populated"}

(* The elements of a sequence at some of its positions, in their order.     *)
At(s, places) ==
  [n \in 1 .. Cardinality(places) |->
     s[CHOOSE i \in places : Cardinality({h \in places : h <= i}) = n]]

(* operationKey: attempt, state, number. *)
KeyOf(r) == <<r.attempt, r.state, r.n>>

Receipt(j, state, n) ==
  [attempt |-> j.attempt, state |-> state, n |-> n, stop |-> j.stop, retained |-> FALSE]

(* Variant: a number is taken again by each stop. *)
SameNumber(receipts, state) == 1

NextNumber(receipts, state) ==
  Cardinality({i \in DOMAIN receipts : receipts[i].state = state}) + 1

ReceiptsForStop(j, carried) ==
  LET new(state) == <<Receipt(j, state, NextNumber(carried, state))>>
      stopped == \E i \in DOMAIN carried : carried[i].state = "execution_stopped"
  IN IF j.facts = "populated" THEN new("cleanup_failed")
     ELSE (IF stopped THEN <<>> ELSE new("execution_stopped"))
          \o new(IF j.facts = "clean" THEN "cleaned" ELSE "cleanup_failed")

(* An attempt that was never attached has nothing to report. *)
ReceiptsOwed(j, carried) ==
  IF j.attached THEN carried \o ReceiptsForStop(j, carried) ELSE carried

Carried(j) == SubSeq(j.receipts, 1, j.carried)

(* Variant: receipts are left as they were, whatever the release showed. *)
KeepReceipts(j) == j

RederiveReceipts(j) ==
  IF j.queued THEN j
  ELSE [j EXCEPT !.receipts = ReceiptsOwed(j, Carried(j)), !.derived = TRUE]

(* Something turned out to be held after the stop's receipts were worked out. *)
NowHeld(j) == RederiveReceipts([j EXCEPT !.facts = "held", !.settling = FALSE])

(* Whether the attempt's filesystem is there when the receipts are queued. *)
Retained(j) == j.fs = "open"
WithRetention(j) ==
  [i \in DOMAIN j.receipts |-> [j.receipts[i] EXCEPT !.retained = Retained(j)]]

-----------------------------------------------------------------------------
(* The outbox *)

Entry(r) == [facts |-> r, status |-> "pending"]
KeysIn(box) == {KeyOf(box[i].facts) : i \in DOMAIN box}
IndexOf(k) == CHOOSE i \in DOMAIN outbox : KeyOf(outbox[i].facts) = k

(* Variant: the oldest entries are dropped, answered or not. *)
DropOldest(box) ==
  SubSeq(box, IF Len(box) > Limit THEN Len(box) - Limit + 1 ELSE 1, Len(box))

(* Past the limit, settled entries are dropped oldest first. *)
Trim(box) ==
  LET excess == Len(box) - Limit
      settledBefore(i) == Cardinality({h \in 1 .. i : box[h].status # "pending"})
  IN At(box, {i \in DOMAIN box : box[i].status = "pending" \/ settledBefore(i) > excess})

Queued(receipts) ==
  LET new == At(receipts, {i \in DOMAIN receipts : KeyOf(receipts[i]) \notin KeysIn(outbox)})
  IN Trim(outbox \o [i \in DOMAIN new |-> Entry(new[i])])

(* Variant: pending receipts in the order they were queued. *)
OldestFirst(h, i) == h < i

TriedBefore(h, i) ==
  LET rank(n) == LET k == KeyOf(outbox[n].facts)
                 IN IF Contains(tried, k) THEN CHOOSE t \in DOMAIN tried : tried[t] = k ELSE 0
  IN rank(h) < rank(i) \/ (rank(h) = rank(i) /\ h < i)

(* The first of the pending receipts, least recently tried first.           *)
Due ==
  LET pending == {i \in DOMAIN outbox : outbox[i].status = "pending"}
      place(i) == Cardinality({h \in pending : h = i \/ TriedBefore(h, i)})
      all == Cardinality(pending)
  IN [n \in 1 .. (IF all < PerCycle THEN all ELSE PerCycle) |->
        KeyOf(outbox[CHOOSE i \in pending : place(i) = n].facts)]

-----------------------------------------------------------------------------
(* superviseOnce *)

Goto(at, follow) == pc' = at /\ then' = follow
Fault == faults < Faults /\ faults' = faults + 1

Fresh(a, attached, fs) ==
  [attempt |-> a, attached |-> attached, fs |-> fs, facts |-> "none", stop |-> 0,
   receipts |-> <<>>, queued |-> TRUE, derived |-> TRUE, carried |-> 0, settling |-> FALSE]

Done == {j.attempt : j \in retired}

(* A new attempt runs, once no journal is left. *)
NewAttempt ==
  /\ pc = "idle" /\ journal = NoJournal
  /\ \E a \in 1 .. Attempts : a = Cardinality(Done) + 1
       /\ \E attached \in BOOLEAN, fs \in {"none", "open"} :
            /\ fs = "open" => attached
            /\ journal' = Fresh(a, attached, fs)
  /\ claim' = TRUE
  /\ UNCHANGED <<retired, outbox, tried, memory, recorded, history, faults>>

(* settle: the stop's facts and what it owes are written, frozen. *)
Stopped(o, derived) ==
  LET j == [journal EXCEPT !.facts = o, !.stop = @ + 1]
      receipts == IF derived THEN ReceiptsOwed(j, j.receipts) ELSE j.receipts
  IN [j EXCEPT !.receipts = receipts, !.derived = derived, !.carried = Len(j.receipts),
               !.queued = IF ~derived \/ Len(receipts) > Len(j.receipts) THEN FALSE ELSE @]

Settle(o, derived) ==
  /\ pc = "idle" /\ journal # NoJournal /\ ~journal.settling
  /\ ~derived => journal.attached
  /\ o = "populated" => journal.attached
  /\ journal' = Stopped(o, derived)
  /\ IF Retained(journal) /\ o = "clean" THEN Goto("settling", "idle")
     ELSE Goto("queue", IF o = "clean" THEN "settling" ELSE "send")
  /\ left' = IF o = "clean" THEN left ELSE left \cup {<<journal.attempt, journal.stop + 1>>}
  /\ IF o = "clean" /\ derived THEN UNCHANGED faults ELSE Fault
  /\ UNCHANGED <<retired, outbox, tried, due, recorded, claim, ended>>

(* ensureReceiptsQueued: receipts that could not be worked out are now. *)
Derive ==
  /\ pc = "queue" /\ ~journal.derived
  /\ journal' = [journal EXCEPT !.receipts = ReceiptsOwed(journal, journal.receipts),
                                !.derived = TRUE, !.queued = FALSE]
  /\ UNCHANGED <<retired, outbox, tried, memory, recorded, claim, history, faults>>

Enqueue ==
  /\ pc = "queue" /\ journal.derived /\ ~journal.queued /\ journal.receipts # <<>>
  /\ outbox' = Queued(WithRetention(journal))
  /\ tried' = At(tried, {i \in DOMAIN tried : tried[i] \in KeysIn(outbox')})
  /\ Goto("mark", then)
  /\ UNCHANGED <<journal, retired, due, recorded, claim, history, faults>>

Mark ==
  /\ \/ pc = "mark"
     \/ pc = "queue" /\ journal.derived /\ (journal.queued \/ journal.receipts = <<>>)
  /\ journal' = IF journal.queued THEN journal
                ELSE [journal EXCEPT !.queued = TRUE, !.receipts = WithRetention(journal)]
  /\ Goto(then, "idle")
  /\ UNCHANGED <<retired, outbox, tried, due, recorded, claim, history, faults>>

(* ensureReceiptsQueued returns null: only the archive waits for it. *)
QueueFails ==
  /\ pc \in {"queue", "mark"}
  /\ Fault
  /\ Goto(IF then = "archive" THEN "idle" ELSE then, "idle")
  /\ UNCHANGED <<files, due, recorded, claim, history>>

(* The process that ran the attempt releases its filesystem before it posts. *)
ReleaseAtStop ==
  /\ pc = "settling" /\ journal.fs = "open"
  /\ journal' = [journal EXCEPT !.fs = "released"]
  /\ UNCHANGED <<retired, outbox, tried, memory, recorded, claim, history, faults>>

Hold(fs) ==
  /\ Fault
  /\ journal' = [NowHeld(journal) EXCEPT !.fs = fs]
  /\ left' = left \cup {<<journal.attempt, journal.stop>>}
  /\ Goto("queue", "idle")
  /\ UNCHANGED <<retired, outbox, tried, due, recorded, claim, ended>>

(* It may find a helper, a create or the release itself held.  With no      *)
(* filesystem the receipts of the stop are queued by then, and a workspace  *)
(* whose preparation never ended is held all the same: left out here.       *)
HeldAtStop ==
  /\ pc = "settling" /\ journal.fs = "open"
  /\ \E fs \in {"open", "released"} : Hold(fs)

(* Nothing is held: the journal becomes a settlement. *)
Settling ==
  /\ pc = "settling"
  /\ journal' = [journal EXCEPT !.settling = TRUE]
  /\ Goto("send", "claimed")
  /\ UNCHANGED <<retired, outbox, tried, due, recorded, claim, history, faults>>

(* A cycle starts with no journal, or with one that only has to be settled. *)
Cycle ==
  /\ pc = "idle" /\ (journal # NoJournal => journal.settling)
  /\ Goto("send", IF journal = NoJournal THEN "idle" ELSE "claimed")
  /\ UNCHANGED <<files, due, recorded, claim, history, faults>>

-----------------------------------------------------------------------------
(* flushReceipts and the server *)

StartFlush ==
  /\ pc = "send"
  /\ due' = Due
  /\ Goto("sending", then)
  /\ UNCHANGED <<files, recorded, claim, history, faults>>

Known(r) == {x \in recorded : KeyOf(x) = KeyOf(r)}

(* What the server may do with a receipt and how its answer is classified. *)
Answer(r, status) ==
  CASE status = "accepted" -> Known(r) \subseteq {r} /\ recorded' = recorded \cup {r}
    [] status = "conflict" -> Known(r) \subseteq recorded \ {r} /\ Known(r) # {}
                              /\ UNCHANGED recorded
    [] status = "refused" -> Known(r) = {} /\ UNCHANGED recorded
    [] status = "pending" -> \/ UNCHANGED recorded
                             \/ Known(r) = {} /\ recorded' = recorded \cup {r}

NextDue == outbox[IndexOf(Head(due))].facts

Send(status) ==
  LET k == Head(due) IN
  /\ pc \in {"sending", "sent"} /\ due # <<>>
  /\ k \in Stubborn => status = "pending"
  /\ Answer(NextDue, status)
  /\ outbox' = [outbox EXCEPT ![IndexOf(k)].status = status]
  /\ tried' = Append(At(tried, {i \in DOMAIN tried : tried[i] # k}), k)
  /\ ended' = IF status = "pending" THEN ended ELSE ended \cup {k}
  /\ due' = Tail(due)
  /\ Goto("sent", then)
  /\ IF status = "pending" /\ k \notin Stubborn THEN Fault ELSE UNCHANGED faults
  /\ UNCHANGED <<journal, retired, claim, left>>

(* The budget may run out after the first receipt. *)
EndFlush ==
  /\ pc = "sent" \/ (pc = "sending" /\ due = <<>>)
  /\ due' = <<>>
  /\ Goto(then, "idle")
  /\ UNCHANGED <<files, recorded, claim, history, faults>>

-----------------------------------------------------------------------------
(* The settlement, under the attempt's own claim or without it *)

(* The server did not confirm everything: the next cycle goes on. *)
Unsettled ==
  /\ pc \in {"claimed", "posting", "archive"}
  /\ Goto("idle", "idle")
  /\ UNCHANGED <<files, due, recorded, claim, history, faults>>

(* The filesystem is released, or stays for what is still owed from it. *)
Release(fs) ==
  /\ pc = "claimed" /\ claim /\ journal.fs = "open"
  /\ journal' = [journal EXCEPT !.fs = fs]
  /\ Goto("posting", "idle")
  /\ UNCHANGED <<retired, outbox, tried, due, recorded, claim, history, faults>>

ReleaseHeld ==
  /\ pc = "claimed" /\ claim /\ journal.fs = "open"
  /\ Hold("open")

(* The settlement is posted, which closes the work at the server, or the   *)
(* claim is gone and the server shows the attempt closed.                  *)
Posted ==
  /\ pc = "posting" \/ (pc = "claimed" /\ (claim => journal.fs # "open"))
  /\ claim' = FALSE
  /\ Goto("queue", "archive")
  /\ UNCHANGED <<files, due, recorded, history, faults>>

Archive ==
  /\ pc = "archive"
  /\ retired' = retired \cup {journal}
  /\ Goto("remove", "idle")
  /\ UNCHANGED <<journal, outbox, tried, due, recorded, claim, history, faults>>

RemoveJournal ==
  /\ pc = "remove"
  /\ journal' = NoJournal
  /\ Goto("idle", "idle")
  /\ UNCHANGED <<retired, outbox, tried, due, recorded, claim, history, faults>>

ClaimGone ==
  /\ claim /\ claim' = FALSE
  /\ UNCHANGED <<files, memory, recorded, history, faults>>

(* The process dies; a receipt just sent may have been recorded. *)
Crash ==
  /\ pc # "idle"
  /\ Fault
  /\ Goto("idle", "idle") /\ due' = <<>>
  /\ \/ UNCHANGED recorded
     \/ /\ pc \in {"sending", "sent"} /\ due # <<>> /\ Known(NextDue) = {}
        /\ recorded' = recorded \cup {NextDue}
  /\ UNCHANGED <<files, claim, history>>

Init ==
  /\ journal = NoJournal /\ retired = {} /\ outbox = <<>> /\ tried = <<>>
  /\ pc = "idle" /\ then = "idle" /\ due = <<>>
  /\ recorded = {} /\ claim = FALSE /\ ended = {} /\ left = {} /\ faults = 0

Supervise ==
  \/ \E o \in Outcomes, derived \in BOOLEAN : Settle(o, derived)
  \/ Derive \/ Enqueue \/ Mark \/ ReleaseAtStop \/ Settling \/ Cycle
  \/ StartFlush \/ EndFlush
  \/ \E status \in {"accepted", "conflict", "refused", "pending"} : Send(status)
  \/ \E fs \in {"open", "released"} : Release(fs)
  \/ Unsettled \/ Posted \/ Archive \/ RemoveJournal

Next == Supervise \/ NewAttempt \/ QueueFails \/ HeldAtStop \/ ReleaseHeld \/ ClaimGone \/ Crash

Spec == Init /\ [][Next]_vars
LiveSpec == Spec /\ WF_vars(Supervise)

-----------------------------------------------------------------------------
(* Properties *)

KeySet == (1 .. Attempts) \X States \X Nat
ReceiptSet == [attempt : 1 .. Attempts, state : States, n : Nat \ {0}, stop : Nat, retained : BOOLEAN]

(* Every variable holds a value of its kind. *)
TypeOK ==
  /\ journal # NoJournal =>
       /\ journal.attempt \in 1 .. Attempts
       /\ journal.fs \in {"none", "open", "released"}
       /\ journal.facts \in Outcomes \cup {"none"}
       /\ journal.carried <= Len(journal.receipts)
       /\ \A i \in DOMAIN journal.receipts : journal.receipts[i] \in ReceiptSet
  /\ \A i \in DOMAIN outbox :
       /\ outbox[i].facts \in ReceiptSet
       /\ outbox[i].status \in {"pending", "accepted", "conflict", "refused"}
  /\ recorded \subseteq ReceiptSet
  /\ ended \subseteq KeySet
  /\ claim \in BOOLEAN

RangeOf(f) == {f[i] : i \in DOMAIN f}
Frozen == UNION {RangeOf(j.receipts) : j \in retired \cup (IF journal = NoJournal THEN {} ELSE {journal})}

(* An operation key stands for one stop only: whatever was re-derived,      *)
(* dropped from the outbox and queued again, or sent twice, no receipt of   *)
(* one stop carries the key of another, on the machine or at the server.    *)
KeyNamesOneStop ==
  LET all == Frozen \cup recorded \cup {outbox[i].facts : i \in DOMAIN outbox}
  IN \A r, s \in all : KeyOf(r) = KeyOf(s) => r.stop = s.stop

IsPending(k) == \E i \in DOMAIN outbox : KeyOf(outbox[i].facts) = k /\ outbox[i].status = "pending"

(* Once an attempt is archived nothing else remembers what it owes: each of *)
(* its receipts was ended by an answer or still waits in the outbox.        *)
NothingOwedIsLost ==
  \A j \in retired : \A i \in DOMAIN j.receipts :
    KeyOf(j.receipts[i]) \in ended \/ IsPending(KeyOf(j.receipts[i]))

(* The server is never told that a stop is cleaned when it left something   *)
(* held, and the last receipt of an archived attempt says it is cleaned.    *)
CleanedIsTrue ==
  /\ \A r \in recorded : r.state = "cleaned" => <<r.attempt, r.stop>> \notin left
  /\ \A j \in retired : j.attached => j.receipts # <<>> /\ Last(j.receipts).state = "cleaned"

(* A receipt that keeps failing cannot hold back the others: each one the   *)
(* server would answer is answered.                                         *)
EveryReceiptIsAnswered ==
  \A k \in (1 .. Attempts) \X States \X (1 .. Faults + 1) :
    k \notin Stubborn => (IsPending(k) ~> k \in ended)
=============================================================================
