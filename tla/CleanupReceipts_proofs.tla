------------------------ MODULE CleanupReceipts_proofs ------------------------
(***************************************************************************)
(* The safety of the cleanup receipts, for any number of attempts and      *)
(* faults, any limit of the outbox and any size of a cycle. The invariant  *)
(* IInv adds to the properties of CleanupReceipts what they rest on:       *)
(*   - the number in the key of a receipt is its place among the receipts  *)
(*     of its state in its journal, and the receipts a journal carries     *)
(*     belong to earlier stops than the ones it derived last (InShape);    *)
(*   - each attempt has one journal, live or archived (Counted);           *)
(*   - every receipt the outbox or the server was told of is a receipt of  *)
(*     one of these journals, so that no memory but theirs names a key     *)
(*     (Anchored);                                                         *)
(*   - while a settlement waits for a release, nothing of its last stop    *)
(*     was told, so that deriving its receipts again reuses no key         *)
(*     (Deferred);                                                         *)
(*   - an entry that is not pending was answered, and once a journal says  *)
(*     queued every receipt of it is answered or pending (Answered).       *)
(* A step changes the journal, the outbox or the place of the process: a   *)
(* lemma shows for each such change what it keeps of IInv, and the steps   *)
(* of the code are put together from them.                                 *)
(***************************************************************************)
EXTENDS CleanupReceipts, TLAPS, FiniteSetTheorems

(* What the outbox holds: a receipt and the answer to it.                  *)
Statuses == {"pending", "accepted", "conflict", "refused"}
EntrySet == [facts : ReceiptSet, status : Statuses]

(* The journals, as superviseLoop.ts saves and archives them.              *)
JournalSet ==
  [attempt : 1 .. Attempts, attached : BOOLEAN, fs : {"none", "open", "released"},
   facts : Outcomes \cup {"none"}, stop : Nat, receipts : Seq(ReceiptSet),
   queued : BOOLEAN, derived : BOOLEAN, carried : Nat, settling : BOOLEAN]

(* Where the process may be.                                               *)
Places == {"idle", "queue", "mark", "settling", "send", "sending", "sent", "claimed",
           "posting", "archive", "remove"}

(* The types of the variables, without the counts of TypeOK.               *)
Typed ==
  /\ journal \in JournalSet \cup {NoJournal}
  /\ retired \subseteq JournalSet
  /\ outbox \in Seq(EntrySet)
  /\ tried \in Seq(KeySet)
  /\ recorded \subseteq ReceiptSet
  /\ claim \in BOOLEAN
  /\ ended \subseteq KeySet
  /\ left \subseteq (1 .. Attempts) \X Nat
  /\ pc \in Places /\ then \in Places

(* There is a live journal.                                                *)
Attempted == journal # NoJournal

(* What the process may still have to do once its current step is over.    *)
Follows ==
  /\ pc \in {"idle", "settling", "claimed", "posting", "archive", "remove"} => then = "idle"
  /\ pc \in {"queue", "mark"} => then \in {"idle", "send", "settling", "archive"}
  /\ pc \in {"send", "sending", "sent"} => then \in {"idle", "claimed"}

(* Where the process is, against the journal and the claim.                *)
Placed ==
  /\ Follows
  /\ pc \in {"queue", "mark", "settling", "claimed", "posting", "archive", "remove"} => Attempted
  /\ then # "idle" => then = "send" \/ Attempted
  /\ "settling" \in {pc, then} => journal.facts = "clean" /\ ~journal.settling
  /\ then = "settling" => journal.fs # "open"
  /\ Attempted /\ journal.settling => journal.facts = "clean"
  /\ pc \in {"claimed", "posting", "archive", "remove"} \/ then \in {"claimed", "archive"}
       => journal.settling
  /\ pc \in {"queue", "mark", "archive", "remove"} /\ journal.settling =>
       ~claim /\ (pc \in {"queue", "mark"} => then = "archive")
  /\ pc \in {"archive", "remove"} => journal.queued /\ journal.derived
  /\ pc = "mark" => journal.derived
  /\ pc = "remove" => journal \in retired

(* Only a flush has receipts to send, and they are in the outbox.          *)
Sends ==
  /\ due \in Seq(KeysIn(outbox))
  /\ pc \notin {"sending", "sent"} => due = <<>>

(* The place of a receipt among those of its state.                        *)
Position(receipts, i) ==
  Cardinality({h \in 1 .. i : receipts[h].state = receipts[i].state})

(* Keys are given by place, so that no two receipts of a journal share one.*)
Numbered(receipts, attempt) ==
  \A i \in DOMAIN receipts :
    receipts[i].attempt = attempt /\ receipts[i].n = Position(receipts, i)

(* A journal: numbered, the carried receipts of earlier stops before the   *)
(* ones of its last stop, and nothing of that stop until it was derived.   *)
InShape(j) ==
  /\ Numbered(j.receipts, j.attempt)
  /\ j.carried <= Len(j.receipts)
  /\ \A i \in DOMAIN j.receipts :
       IF i <= j.carried THEN j.receipts[i].stop < j.stop ELSE j.receipts[i].stop = j.stop
  /\ j.attached \/ (j.receipts = <<>> /\ j.derived /\ j.fs # "open")
  /\ ~j.derived => j.carried = Len(j.receipts) /\ ~j.queued
  /\ j.derived /\ j.attached /\ j.facts = "clean" =>
       j.receipts # <<>> /\ j.receipts[Len(j.receipts)].state = "cleaned"

(* Every journal there is, live or archived.                               *)
Current == IF Attempted THEN {journal} ELSE {}
Journals == retired \cup Current
WellKept == \A j \in Journals : InShape(j)

(* Attempts are numbered one after the other, each has one journal, and    *)
(* nothing is known to be left over by a stop that has not happened.       *)
Counted ==
  /\ \E k \in Nat : Done = 1 .. k /\ (Attempted => journal.attempt \in {k, k + 1})
  /\ \A j, h \in retired : j.attempt = h.attempt => j = h
  /\ Attempted /\ journal.attempt \in Done =>
       journal \in retired /\ journal.settling /\ ~claim
  /\ \A j \in retired : j.derived /\ j.facts = "clean" /\ j.queued
  /\ \A p \in left : p[1] \in Done \/ (Attempted /\ p[1] = journal.attempt)
  /\ Attempted => \A p \in left : p[1] = journal.attempt => p[2] <= journal.stop

(* Every receipt the outbox or the server ever saw is one of a journal.    *)
Told == recorded \cup {outbox[i].facts : i \in DOMAIN outbox}
Stands(r, j) == \E i \in DOMAIN j.receipts :
  KeyOf(j.receipts[i]) = KeyOf(r) /\ j.receipts[i].stop = r.stop
Anchored == \A r \in Told : \E j \in Journals : Stands(r, j)

(* While the release of a filesystem is waited for, no receipt of the last *)
(* stop has left the journal.                                              *)
Deferred ==
  (pc = "settling" \/ (Attempted /\ journal.settling /\ claim)) /\ journal.fs = "open" =>
    ~journal.queued /\ \A r \in Told : r.attempt = journal.attempt => r.stop < journal.stop

(* Receipts of a journal that says queued are answered or will be sent.    *)
Held(j) == \A i \in DOMAIN j.receipts :
  KeyOf(j.receipts[i]) \in ended \/ IsPending(KeyOf(j.receipts[i]))
Answered ==
  /\ \A i \in DOMAIN outbox : outbox[i].status # "pending" => KeyOf(outbox[i].facts) \in ended
  /\ \A j \in retired : Held(j)
  /\ Attempted /\ (journal.queued \/ pc = "mark") => Held(journal)

(* No receipt says cleaned of a stop that left something behind.           *)
Truthful ==
  /\ \A j \in Journals : \A i \in DOMAIN j.receipts :
       j.receipts[i].state = "cleaned" => <<j.attempt, j.receipts[i].stop>> \notin left
  /\ Attempted /\ journal.facts = "clean" => <<journal.attempt, journal.stop>> \notin left

(* The inductive invariant.                                                *)
IInv ==
  /\ Typed /\ Placed /\ Sends /\ WellKept /\ Counted /\ Anchored /\ Deferred /\ Answered
  /\ Truthful

-----------------------------------------------------------------------------
(* Sequences, and the elements at some of their positions                  *)

(* In a finite set that is totally ordered by R every place is taken.      *)
LEMMA EveryPlaceTaken ==
  ASSUME NEW S, IsFiniteSet(S), NEW R,
         \A i, j \in S : i = j \/ <<i, j>> \in R \/ <<j, i>> \in R,
         \A i, j \in S : ~(<<i, j>> \in R /\ <<j, i>> \in R),
         \A h, i, j \in S : <<h, i>> \in R /\ <<i, j>> \in R => <<h, j>> \in R
  PROVE  /\ Cardinality(S) \in Nat
         /\ \A n \in 1 .. Cardinality(S) :
              \E i \in S : Cardinality({h \in S : h = i \/ <<h, i>> \in R}) = n
         /\ \A i \in S : Cardinality({h \in S : h = i \/ <<h, i>> \in R}) \in 1 .. Cardinality(S)
         /\ \A i, j \in S : Cardinality({h \in S : h = i \/ <<h, i>> \in R})
                            = Cardinality({h \in S : h = j \/ <<h, j>> \in R}) => i = j
<1> DEFINE upTo(i) == {h \in S : h = i \/ <<h, i>> \in R}
           c == Cardinality(S)
           rank == [i \in S |-> Cardinality(upTo(i))]
<1>1. c \in Nat
  BY FS_CardinalityType
<1>2. \A i \in S : IsFiniteSet(upTo(i)) /\ Cardinality(upTo(i)) \in 1 .. c
  <2> TAKE i \in S
  <2>1. upTo(i) \in SUBSET S /\ i \in upTo(i)
    OBVIOUS
  <2> HIDE DEF upTo
  <2>2. IsFiniteSet(upTo(i)) /\ Cardinality(upTo(i)) \in Nat /\ Cardinality(upTo(i)) <= c
    BY <2>1, FS_Subset, FS_CardinalityType
  <2>3. Cardinality(upTo(i)) # 0
    BY <2>1, <2>2, FS_EmptySet
  <2> QED BY <1>1, <2>2, <2>3
<1>3. \A i, j \in S : <<i, j>> \in R => Cardinality(upTo(i)) < Cardinality(upTo(j))
  <2> SUFFICES ASSUME NEW i \in S, NEW j \in S, <<i, j>> \in R
               PROVE  Cardinality(upTo(i)) < Cardinality(upTo(j))
    OBVIOUS
  <2>1. upTo(i) \cup {j} \in SUBSET upTo(j)
    OBVIOUS
  <2>2. j \notin upTo(i)
    OBVIOUS
  <2> HIDE DEF upTo
  <2>3. Cardinality(upTo(i) \cup {j}) = Cardinality(upTo(i)) + 1
    BY <1>2, <2>2, FS_AddElement
  <2>4. Cardinality(upTo(i) \cup {j}) <= Cardinality(upTo(j))
    BY <1>2, <2>1, FS_Subset
  <2> QED BY <1>1, <1>2, <2>3, <2>4
<1> HIDE DEF upTo
<1>4. \A i, j \in S : Cardinality(upTo(i)) = Cardinality(upTo(j)) => i = j
  <2> TAKE i, j \in S
  <2>1. Cardinality(upTo(i)) \in Int /\ Cardinality(upTo(j)) \in Int
    BY <1>1, <1>2
  <2>2. <<i, j>> \in R => Cardinality(upTo(i)) < Cardinality(upTo(j))
    BY <1>3
  <2>3. <<j, i>> \in R => Cardinality(upTo(j)) < Cardinality(upTo(i))
    BY <1>3
  <2> QED BY <2>1, <2>2, <2>3
<1>5. rank \in Injection(S, 1 .. c)
  BY <1>2, <1>4 DEF Injection, IsInjective
<1>6. rank \in Surjection(S, 1 .. c)
  <2>1. IsFiniteSet(1 .. c) /\ Cardinality(1 .. c) = c
    BY <1>1, FS_Interval
  <2> HIDE DEF rank
  <2> QED BY <1>5, <2>1, FS_Injection
<1>7. \A n \in 1 .. c : \E i \in S : Cardinality(upTo(i)) = n
  BY <1>6 DEF Surjection
<1> QED BY <1>1, <1>2, <1>4, <1>7 DEF upTo

(* A sequence, its indices and its elements.                               *)
LEMMA SequenceFacts ==
  ASSUME NEW T, NEW s \in Seq(T)
  PROVE  /\ Len(s) \in Nat /\ DOMAIN s = 1 .. Len(s) /\ s \in [1 .. Len(s) -> T]
         /\ \A n \in DOMAIN s : s[n] \in T
         /\ IsFiniteSet(DOMAIN s) /\ Cardinality(DOMAIN s) = Len(s)
<1>1. Len(s) \in Nat /\ DOMAIN s = 1 .. Len(s) /\ s \in [1 .. Len(s) -> T]
  OBVIOUS
<1>2. IsFiniteSet(1 .. Len(s)) /\ Cardinality(1 .. Len(s)) = Len(s)
  BY <1>1, FS_Interval
<1> QED BY <1>1, <1>2

(* At(s, places) holds the elements at those places and no other.          *)
LEMMA AtHolds ==
  ASSUME NEW T, NEW s \in Seq(T), NEW places \in SUBSET (DOMAIN s)
  PROVE  /\ At(s, places) \in Seq(T)
         /\ \A n \in DOMAIN At(s, places) : \E i \in places : At(s, places)[n] = s[i]
         /\ \A i \in places : \E n \in DOMAIN At(s, places) : At(s, places)[n] = s[i]
<1> DEFINE c == Cardinality(places)
           upTo(i) == {h \in places : h <= i}
           R == {p \in places \X places : p[1] < p[2]}
           pick(n) == CHOOSE i \in places : Cardinality(upTo(i)) = n
<1>1. IsFiniteSet(places) /\ places \subseteq Nat /\ DOMAIN s \subseteq Nat
  BY SequenceFacts, FS_Subset
<1>2. \A i, j \in places : <<i, j>> \in R <=> i < j
  OBVIOUS
<1>3. \A i \in places : {h \in places : h = i \/ <<h, i>> \in R} = upTo(i)
  <2> TAKE i \in places
  <2>1. \A h \in places : h \in Int /\ i \in Int
    BY <1>1
  <2>2. \A h \in places : (h = i \/ <<h, i>> \in R) <=> h <= i
    BY <1>2, <2>1
  <2> HIDE DEF R
  <2> QED BY <2>2
<1>4. \A i, j \in places : i = j \/ <<i, j>> \in R \/ <<j, i>> \in R
  <2> TAKE i, j \in places
  <2>1. i \in Int /\ j \in Int
    BY <1>1
  <2> HIDE DEF R
  <2> QED BY <1>2, <2>1
<1>5. \A i, j \in places : ~(<<i, j>> \in R /\ <<j, i>> \in R)
  <2> TAKE i, j \in places
  <2>1. i \in Int /\ j \in Int
    BY <1>1
  <2> HIDE DEF R
  <2> QED BY <1>2, <2>1
<1>6. \A h, i, j \in places : <<h, i>> \in R /\ <<i, j>> \in R => <<h, j>> \in R
  <2> TAKE h, i, j \in places
  <2>1. h \in Int /\ i \in Int /\ j \in Int
    BY <1>1
  <2> HIDE DEF R
  <2> QED BY <1>2, <2>1
<1>7. /\ c \in Nat
      /\ \A n \in 1 .. c : \E i \in places : Cardinality(upTo(i)) = n
      /\ \A i \in places : Cardinality(upTo(i)) \in 1 .. c
      /\ \A i, j \in places : Cardinality(upTo(i)) = Cardinality(upTo(j)) => i = j
  <2> DEFINE low(i) == {h \in places : h = i \/ <<h, i>> \in R}
  <2>1. /\ c \in Nat
        /\ \A n \in 1 .. c : \E i \in places : Cardinality(low(i)) = n
        /\ \A i \in places : Cardinality(low(i)) \in 1 .. c
        /\ \A i, j \in places : Cardinality(low(i)) = Cardinality(low(j)) => i = j
    <3> HIDE DEF R
    <3> QED BY <1>1, <1>4, <1>5, <1>6, EveryPlaceTaken
  <2>2. \A i \in places : low(i) = upTo(i)
    BY <1>3
  <2> HIDE DEF low, upTo
  <2> QED BY <2>1, <2>2
<1>8. At(s, places) = [n \in 1 .. c |-> s[pick(n)]]
  BY DEF At
<1> HIDE DEF upTo
<1>9. \A n \in 1 .. c : pick(n) \in places /\ Cardinality(upTo(pick(n))) = n
  BY <1>7
<1> HIDE DEF pick
<1>10. \A i \in places : Cardinality(upTo(i)) \in 1 .. c /\ pick(Cardinality(upTo(i))) = i
  BY <1>7, <1>9
<1>11. \A i \in places : s[i] \in T
  BY SequenceFacts
<1>12. DOMAIN At(s, places) = 1 .. c /\ \A n \in 1 .. c : At(s, places)[n] = s[pick(n)]
  BY <1>8
<1>13. At(s, places) \in Seq(T)
  BY <1>7, <1>8, <1>9, <1>11
<1> HIDE DEF c
<1>14. \A i \in places : \E n \in 1 .. c : At(s, places)[n] = s[i]
  <2> TAKE i \in places
  <2>1. Cardinality(upTo(i)) \in 1 .. c /\ pick(Cardinality(upTo(i))) = i
    BY <1>10
  <2> QED BY <1>12, <2>1
<1> QED BY <1>9, <1>12, <1>13, <1>14

-----------------------------------------------------------------------------
(* The receipts of a journal                                               *)

(* What a receipt holds, and its key.                                      *)
LEMMA ReceiptKinds ==
  ASSUME NEW r \in ReceiptSet
  PROVE  /\ r.attempt \in 1 .. Attempts /\ r.state \in States /\ r.n \in Nat \ {0}
         /\ r.stop \in Nat /\ r.retained \in BOOLEAN
         /\ KeyOf(r) = <<r.attempt, r.state, r.n>> /\ KeyOf(r) \in KeySet
BY DEF ReceiptSet, KeyOf, KeySet

(* The receipt of a stop.                                                  *)
LEMMA NewReceipt ==
  ASSUME NEW j \in JournalSet, NEW state \in States, NEW n \in Nat \ {0}
  PROVE  /\ Receipt(j, state, n) \in ReceiptSet
         /\ Receipt(j, state, n).attempt = j.attempt /\ Receipt(j, state, n).state = state
         /\ Receipt(j, state, n).n = n /\ Receipt(j, state, n).stop = j.stop
BY DEF Receipt, ReceiptSet, JournalSet

(* The receipts of a state up to one of them, counted.                     *)
LEMMA PositionGrows ==
  ASSUME NEW s \in Seq(ReceiptSet), NEW i \in DOMAIN s
  PROVE  /\ Position(s, i) \in Nat \ {0}
         /\ \A h \in DOMAIN s : h < i /\ s[h].state = s[i].state => Position(s, h) < Position(s, i)
<1> DEFINE upTo(h) == {g \in 1 .. h : s[g].state = s[h].state}
<1>1. \A h \in DOMAIN s : h \in Int /\ h >= 1 /\ IsFiniteSet(1 .. h)
  <2> TAKE h \in DOMAIN s
  <2>1. h \in Int /\ h >= 1
    BY SequenceFacts
  <2> QED BY <2>1, FS_Interval
<1>2. \A h \in DOMAIN s : IsFiniteSet(upTo(h)) /\ Cardinality(upTo(h)) \in Nat /\ h \in upTo(h)
  <2> TAKE h \in DOMAIN s
  <2>1. upTo(h) \in SUBSET (1 .. h) /\ h \in upTo(h)
    BY <1>1
  <2> HIDE DEF upTo
  <2> QED BY <1>1, <2>1, FS_Subset, FS_CardinalityType
<1>3. \A h \in DOMAIN s : Position(s, h) = Cardinality(upTo(h))
  BY DEF Position
<1>4. ASSUME NEW h \in DOMAIN s, h < i, s[h].state = s[i].state
      PROVE  Cardinality(upTo(h)) < Cardinality(upTo(i))
  <2>1. upTo(h) \cup {i} \in SUBSET upTo(i) /\ i \notin upTo(h)
    BY <1>1, <1>4
  <2> HIDE DEF upTo
  <2>2. Cardinality(upTo(h) \cup {i}) = Cardinality(upTo(h)) + 1
    BY <1>2, <2>1, FS_AddElement
  <2>3. Cardinality(upTo(h) \cup {i}) <= Cardinality(upTo(i))
    BY <1>2, <2>1, FS_Subset
  <2> QED BY <1>2, <2>2, <2>3
<1> HIDE DEF upTo
<1>5. Cardinality(upTo(i)) # 0
  BY <1>2, FS_EmptySet
<1> QED BY <1>2, <1>3, <1>4, <1>5

(* No two receipts of a journal have the same key.                         *)
LEMMA KeysDiffer ==
  ASSUME NEW s \in Seq(ReceiptSet), NEW a, Numbered(s, a), NEW h \in DOMAIN s, NEW i \in DOMAIN s,
         KeyOf(s[h]) = KeyOf(s[i])
  PROVE  h = i
<1>1. s[h].state = s[i].state /\ s[h].n = s[i].n
  BY DEF KeyOf
<1>2. s[h].n = Position(s, h) /\ s[i].n = Position(s, i)
  BY DEF Numbered
<1>3. h \in Int /\ i \in Int
  BY SequenceFacts
<1>4. Position(s, h) \in Int /\ Position(s, i) \in Int
  BY PositionGrows
<1>5. h < i => Position(s, h) < Position(s, i)
  BY <1>1, PositionGrows
<1>6. i < h => Position(s, i) < Position(s, h)
  BY <1>1, PositionGrows
<1>7. Position(s, h) = Position(s, i)
  BY <1>1, <1>2
<1>8. ~(h < i) /\ ~(i < h)
  BY <1>4, <1>5, <1>6, <1>7
<1> QED BY <1>3, <1>8

(* Positions only depend on the states up to them.                         *)
LEMMA PositionOfOld ==
  ASSUME NEW s, NEW t, NEW i, \A h \in 1 .. i : t[h].state = s[h].state, i \in 1 .. i
  PROVE  Position(t, i) = Position(s, i)
BY DEF Position

(* The first receipt of a state after those of s has the next number.      *)
LEMMA PositionOfNew ==
  ASSUME NEW s \in Seq(ReceiptSet), NEW t, NEW i \in Nat, i > Len(s),
         \A h \in DOMAIN s : t[h].state = s[h].state,
         \A h \in 1 .. i : h > Len(s) /\ t[h].state = t[i].state => h = i
  PROVE  Position(t, i) = NextNumber(s, t[i].state) /\ NextNumber(s, t[i].state) \in Nat \ {0}
<1> DEFINE old == {h \in DOMAIN s : s[h].state = t[i].state}
           all == {h \in 1 .. i : t[h].state = t[i].state}
<1>1. DOMAIN s = 1 .. Len(s) /\ Len(s) \in Nat /\ IsFiniteSet(DOMAIN s)
  BY SequenceFacts
<1>2. all = old \cup {i} /\ i \notin old /\ old \subseteq DOMAIN s
  BY <1>1
<1>3. NextNumber(s, t[i].state) = Cardinality(old) + 1 /\ Position(t, i) = Cardinality(all)
  BY DEF NextNumber, Position
<1> HIDE DEF old, all
<1>4. IsFiniteSet(old) /\ Cardinality(old) \in Nat
  BY <1>1, <1>2, FS_Subset, FS_CardinalityType
<1>5. Cardinality(all) = Cardinality(old) + 1
  BY <1>2, <1>4, FS_AddElement
<1> QED BY <1>3, <1>4, <1>5

(* Two sequences with the same elements are the same.                      *)
LEMMA SameSequence ==
  ASSUME NEW T, NEW s \in Seq(T), NEW t \in Seq(T), Len(s) = Len(t),
         \A i \in 1 .. Len(s) : s[i] = t[i]
  PROVE  s = t
<1>1. s = [i \in 1 .. Len(s) |-> s[i]]
  OBVIOUS
<1>2. t = [i \in 1 .. Len(s) |-> t[i]]
  OBVIOUS
<1> QED BY <1>1, <1>2

(* The receipts of a stop are one, or two of which the first says that it  *)
(* was stopped; the last is cleaned if and only if the stop was clean.     *)
LEMMA ForStop ==
  ASSUME NEW j \in JournalSet, NEW c \in Seq(ReceiptSet)
  PROVE  \E state \in {"cleaned", "cleanup_failed"} :
           /\ state = "cleaned" <=> j.facts = "clean"
           /\ \/ ReceiptsForStop(j, c) = <<Receipt(j, state, NextNumber(c, state))>>
              \/ ReceiptsForStop(j, c) =
                   <<Receipt(j, "execution_stopped", NextNumber(c, "execution_stopped")),
                     Receipt(j, state, NextNumber(c, state))>>
<1> DEFINE new(state) == <<Receipt(j, state, NextNumber(c, state))>>
           stopped == \E i \in DOMAIN c : c[i].state = "execution_stopped"
           last == IF j.facts = "clean" THEN "cleaned" ELSE "cleanup_failed"
           two == <<Receipt(j, "execution_stopped", NextNumber(c, "execution_stopped")),
                    Receipt(j, last, NextNumber(c, last))>>
<1>1. new("execution_stopped") \o new(last) = two /\ <<>> \o new(last) = new(last)
  <2>1. ASSUME NEW a, NEW b
        PROVE  <<a>> \o <<b>> = <<a, b>> /\ <<>> \o <<b>> = <<b>>
    <3> DEFINE T == {a, b}
    <3>1. <<a>> \in Seq(T) /\ <<b>> \in Seq(T) /\ <<>> \in Seq(T) /\ <<a, b>> \in Seq(T)
      OBVIOUS
    <3>2. Len(<<a>>) = 1 /\ Len(<<b>>) = 1 /\ Len(<<>>) = 0 /\ Len(<<a, b>>) = 2
      OBVIOUS
    <3>3. <<a>> \o <<b>> \in Seq(T) /\ <<>> \o <<b>> \in Seq(T)
      BY <3>1
    <3>4. Len(<<a>> \o <<b>>) = 2 /\ Len(<<>> \o <<b>>) = 1
      BY <3>1, <3>2
    <3>5. (<<a>> \o <<b>>)[1] = a /\ (<<a>> \o <<b>>)[2] = b /\ (<<>> \o <<b>>)[1] = b
      BY <3>1, <3>2
    <3>6. <<a, b>>[1] = a /\ <<a, b>>[2] = b /\ <<b>>[1] = b
      OBVIOUS
    <3> DEFINE x == <<a>> \o <<b>>
               y == <<>> \o <<b>>
               u == <<a, b>>
               v == <<b>>
    <3> HIDE DEF x, y, u, v, T
    <3>7. \A i \in 1 .. 2 : x[i] = u[i]
      <4> TAKE i \in 1 .. 2
      <4>1. i = 1 \/ i = 2
        OBVIOUS
      <4> QED BY <3>5, <3>6, <4>1 DEF x, u
    <3>8. \A i \in 1 .. 1 : y[i] = v[i]
      <4> TAKE i \in 1 .. 1
      <4>1. i = 1
        OBVIOUS
      <4> QED BY <3>5, <3>6, <4>1 DEF y, v
    <3>9. x \in Seq(T) /\ u \in Seq(T) /\ y \in Seq(T) /\ v \in Seq(T)
      BY <3>1, <3>3 DEF x, y, u, v
    <3>10. Len(x) = 2 /\ Len(u) = 2 /\ Len(y) = 1 /\ Len(v) = 1
      BY <3>2, <3>4 DEF x, y, u, v
    <3>11. x = u /\ y = v
      BY <3>7, <3>8, <3>9, <3>10, SameSequence
    <3> QED BY <3>11 DEF x, y, u, v
  <2>2. new("execution_stopped") \o new(last) = two
    BY <2>1
  <2>3. <<>> \o new(last) = new(last)
    BY <2>1
  <2> QED BY <2>2, <2>3
<1>2. ReceiptsForStop(j, c) =
        IF j.facts = "populated" THEN new("cleanup_failed")
        ELSE (IF stopped THEN <<>> ELSE new("execution_stopped")) \o new(last)
  BY DEF ReceiptsForStop
<1> HIDE DEF stopped
<1>3. ReceiptsForStop(j, c) = new(last) \/ ReceiptsForStop(j, c) = two
  <2> HIDE DEF new, two
  <2> CASE j.facts = "populated"
    BY <1>2
  <2> CASE j.facts # "populated"
    BY <1>1, <1>2
  <2> QED OBVIOUS
<1>4. last \in {"cleaned", "cleanup_failed"} /\ (last = "cleaned" <=> j.facts = "clean")
  OBVIOUS
<1> QED BY <1>3, <1>4

(* The next number of a state.                                             *)
LEMMA NumberKinds ==
  ASSUME NEW s \in Seq(ReceiptSet), NEW state
  PROVE  NextNumber(s, state) \in Nat \ {0}
<1> DEFINE old == {h \in DOMAIN s : s[h].state = state}
<1>1. IsFiniteSet(old) /\ Cardinality(old) \in Nat
  <2>1. old \in SUBSET (DOMAIN s) /\ IsFiniteSet(DOMAIN s)
    BY SequenceFacts
  <2> HIDE DEF old
  <2> QED BY <2>1, FS_Subset, FS_CardinalityType
<1>2. NextNumber(s, state) = Cardinality(old) + 1
  BY DEF NextNumber
<1> HIDE DEF old
<1> QED BY <1>1, <1>2

(* The receipts owed are those carried and, once attached, the receipts of *)
(* the stop after them, under numbers that no other receipt has.           *)
LEMMA OwedFacts ==
  ASSUME NEW j \in JournalSet, NEW c \in Seq(ReceiptSet), Numbered(c, j.attempt),
         NEW r, r = ReceiptsOwed(j, c)
  PROVE  /\ r \in Seq(ReceiptSet) /\ Len(r) >= Len(c) /\ Numbered(r, j.attempt)
         /\ \A i \in DOMAIN c : i \in DOMAIN r /\ r[i] = c[i]
         /\ \A i \in DOMAIN r : i > Len(c) =>
              r[i].stop = j.stop /\ (r[i].state = "cleaned" => j.facts = "clean")
         /\ j.attached => /\ Len(r) > Len(c)
                          /\ j.facts = "clean" => r[Len(r)].state = "cleaned"
         /\ ~j.attached => r = c
<1>1. j.attempt \in 1 .. Attempts /\ j.attached \in BOOLEAN
  BY DEF JournalSet
<1>2. Len(c) \in Nat /\ DOMAIN c = 1 .. Len(c)
  BY SequenceFacts
<1>3. CASE ~j.attached
  <2>1. r = c
    BY <1>3 DEF ReceiptsOwed
  <2> QED BY <1>2, <1>3, <2>1
<1>4. CASE j.attached
  <2>1. PICK state \in {"cleaned", "cleanup_failed"} :
           /\ state = "cleaned" <=> j.facts = "clean"
           /\ \/ ReceiptsForStop(j, c) = <<Receipt(j, state, NextNumber(c, state))>>
              \/ ReceiptsForStop(j, c) =
                   <<Receipt(j, "execution_stopped", NextNumber(c, "execution_stopped")),
                     Receipt(j, state, NextNumber(c, state))>>
    BY ForStop
  <2>2. PICK a : a = Receipt(j, state, NextNumber(c, state))
    OBVIOUS
  <2>3. PICK b : b = Receipt(j, "execution_stopped", NextNumber(c, "execution_stopped"))
    OBVIOUS
  <2>4. PICK f : f = ReceiptsForStop(j, c)
    OBVIOUS
  <2>5. f = <<a>> \/ f = <<b, a>>
    BY <2>1, <2>2, <2>3, <2>4
  <2>6. /\ a \in ReceiptSet /\ a.attempt = j.attempt /\ a.state = state
        /\ a.n = NextNumber(c, state) /\ a.stop = j.stop
    <3>1. state \in States /\ NextNumber(c, state) \in Nat \ {0}
      BY NumberKinds DEF States
    <3> QED BY <2>2, <3>1, NewReceipt
  <2>7. /\ b \in ReceiptSet /\ b.attempt = j.attempt /\ b.state = "execution_stopped"
        /\ b.n = NextNumber(c, "execution_stopped") /\ b.stop = j.stop
    <3>1. "execution_stopped" \in States /\ NextNumber(c, "execution_stopped") \in Nat \ {0}
      BY NumberKinds DEF States
    <3> QED BY <2>3, <3>1, NewReceipt
  <2>8. f \in Seq(ReceiptSet) /\ Len(f) \in {1, 2} /\ f[Len(f)] = a
        /\ (Len(f) = 2 => f[1] = b)
    <3>1. a \in ReceiptSet /\ b \in ReceiptSet
      BY <2>6, <2>7
    <3>2. CASE f = <<a>>
      <4>1. <<a>> \in Seq(ReceiptSet) /\ Len(<<a>>) = 1 /\ <<a>>[1] = a
        BY ONLY <3>1
      <4> QED BY <3>2, <4>1
    <3>3. CASE f = <<b, a>>
      <4>1. <<b, a>> \in Seq(ReceiptSet) /\ Len(<<b, a>>) = 2 /\ <<b, a>>[1] = b /\ <<b, a>>[2] = a
        BY ONLY <3>1
      <4> QED BY <3>3, <4>1
    <3> QED BY <2>5, <3>2, <3>3
  <2>9. r = c \o f
    BY <1>4, <2>4 DEF ReceiptsOwed
  <2>10. /\ r \in Seq(ReceiptSet) /\ Len(r) = Len(c) + Len(f) /\ DOMAIN r = 1 .. Len(r)
         /\ \A i \in 1 .. Len(c) : r[i] = c[i]
         /\ \A i \in 1 .. Len(r) : i > Len(c) => r[i] = f[i - Len(c)]
    BY ONLY c \in Seq(ReceiptSet), <2>8, <2>9
  <2>11. \A i \in 1 .. Len(r) : i > Len(c) => (i = Len(r) /\ r[i] = a) \/ (i # Len(r) /\ r[i] = b)
    <3> SUFFICES ASSUME NEW i \in 1 .. Len(r), i > Len(c)
                 PROVE  (i = Len(r) /\ r[i] = a) \/ (i # Len(r) /\ r[i] = b)
      OBVIOUS
    <3>1. i \in Int /\ r[i] = f[i - Len(c)] /\ i <= Len(c) + Len(f)
      BY <1>2, <2>8, <2>10
    <3>2. i - Len(c) = Len(f) \/ (i - Len(c) = 1 /\ Len(f) = 2)
      BY <1>2, <2>8, <3>1
    <3>3. i - Len(c) = Len(f) => i = Len(r)
      BY <1>2, <2>8, <2>10, <3>1
    <3>4. i - Len(c) = 1 /\ Len(f) = 2 => i # Len(r)
      BY <1>2, <2>8, <2>10, <3>1
    <3> QED BY <2>8, <3>1, <3>2, <3>3, <3>4
  <2>12. Numbered(r, j.attempt)
    <3> SUFFICES ASSUME NEW i \in 1 .. Len(r)
                 PROVE  r[i].attempt = j.attempt /\ r[i].n = Position(r, i)
      BY <2>10 DEF Numbered
    <3>0. i \in Nat /\ Len(r) \in Nat
      BY <1>2, <2>8, <2>10
    <3>1. CASE i <= Len(c)
      <4>1. i \in DOMAIN c /\ i \in 1 .. i
        BY <1>2, <3>0, <3>1
      <4>2. r[i] = c[i] /\ \A h \in 1 .. i : r[h].state = c[h].state
        BY <1>2, <2>10, <3>0, <3>1
      <4>3. Position(r, i) = Position(c, i)
        BY <4>1, <4>2, PositionOfOld
      <4> QED BY <4>1, <4>2, <4>3 DEF Numbered
    <3>2. CASE i > Len(c)
      <4>1. r[i] \in {a, b}
        BY <2>11, <3>2
      <4>2. \A h \in DOMAIN c : r[h].state = c[h].state
        BY <1>2, <2>10
      <4>3. \A h \in 1 .. i : h > Len(c) /\ r[h].state = r[i].state => h = i
        <5> SUFFICES ASSUME NEW h \in 1 .. i, h > Len(c), r[h].state = r[i].state
                     PROVE  h = i
          OBVIOUS
        <5>1. h \in 1 .. Len(r) /\ h \in Int
          BY <3>0
        <5>2. a.state # b.state
          BY <2>6, <2>7
        <5>3. (r[h] = a /\ h = Len(r)) \/ (r[h] = b /\ h # Len(r))
          BY <2>11, <5>1
        <5>4. (r[i] = a /\ i = Len(r)) \/ (r[i] = b /\ i # Len(r))
          BY <2>11, <3>2
        <5>5. CASE r[i] = a
          BY <5>2, <5>3, <5>4, <5>5
        <5>6. CASE r[i] = b
          <6>1. i = Len(c) + 1 /\ h = Len(c) + 1
            BY <1>2, <2>8, <2>10, <3>0, <3>2, <5>1, <5>2, <5>3, <5>4, <5>6
          <6> QED BY <6>1
        <5> QED BY <5>4, <5>5, <5>6
      <4>4. Position(r, i) = NextNumber(c, r[i].state)
        BY ONLY <3>0, <3>2, <4>2, <4>3, PositionOfNew, c \in Seq(ReceiptSet)
      <4> QED BY <2>6, <2>7, <4>1, <4>4
    <3> QED BY <1>2, <3>0, <3>1, <3>2
  <2>13. \A i \in DOMAIN r : i > Len(c) =>
              r[i].stop = j.stop /\ (r[i].state = "cleaned" => j.facts = "clean")
    BY <2>1, <2>6, <2>7, <2>10, <2>11
  <2>14. Len(r) > Len(c) /\ Len(r) >= Len(c) /\ Len(r) \in 1 .. Len(r)
    <3>1. Len(f) \in {1, 2} /\ Len(c) \in Nat /\ Len(r) = Len(c) + Len(f)
      BY <1>2, <2>8, <2>10
    <3> QED BY <3>1
  <2>15. j.facts = "clean" => r[Len(r)].state = "cleaned"
    BY <2>1, <2>6, <2>11, <2>14
  <2>16. \A i \in DOMAIN c : i \in DOMAIN r /\ r[i] = c[i]
    <3> SUFFICES ASSUME NEW i \in 1 .. Len(c)
                 PROVE  i \in 1 .. Len(r) /\ r[i] = c[i]
      BY <1>2, <2>10
    <3>1. i \in 1 .. Len(r)
      BY <1>2, <2>14
    <3> QED BY <2>10, <3>1
  <2> QED BY <1>4, <2>10, <2>12, <2>13, <2>14, <2>15, <2>16
<1> QED BY <1>1, <1>3, <1>4

(* The fields of a journal.                                                *)
LEMMA JournalKinds ==
  ASSUME NEW j \in JournalSet
  PROVE  /\ j.attempt \in 1 .. Attempts /\ j.attempt # 0
         /\ j.attached \in BOOLEAN /\ j.fs \in {"none", "open", "released"}
         /\ j.facts \in Outcomes \cup {"none"} /\ j.stop \in Nat
         /\ j.receipts \in Seq(ReceiptSet) /\ j.queued \in BOOLEAN
         /\ j.derived \in BOOLEAN /\ j.carried \in Nat /\ j.settling \in BOOLEAN
         /\ j # NoJournal
BY BoundsAreNumbers DEF JournalSet, NoJournal

(* A new attempt owes nothing.                                             *)
LEMMA FreshShape ==
  ASSUME NEW a \in 1 .. Attempts, NEW attached \in BOOLEAN, NEW fs \in {"none", "open"},
         fs = "open" => attached, NEW q, q = Fresh(a, attached, fs)
  PROVE  /\ q \in JournalSet /\ InShape(q) /\ q.attempt = a /\ ~q.settling /\ q.receipts = <<>>
         /\ q.facts = "none"
<1>1. <<>> \in Seq(ReceiptSet) /\ DOMAIN <<>> = {} /\ Len(<<>>) = 0
  OBVIOUS
<1>2. /\ q.attempt = a /\ q.attached = attached /\ q.fs = fs /\ q.facts = "none" /\ q.stop = 0
      /\ q.receipts = <<>> /\ q.queued = TRUE /\ q.derived = TRUE /\ q.carried = 0
      /\ q.settling = FALSE
  BY DEF Fresh
<1>3. q \in JournalSet
  BY <1>1 DEF JournalSet, Fresh
<1>4. InShape(q)
  BY <1>1, <1>2 DEF InShape, Numbered
<1> QED BY <1>2, <1>3, <1>4

(* A change of the flags alone keeps the shape.                            *)
LEMMA SameShape ==
  ASSUME NEW j \in JournalSet, InShape(j), NEW q, q.attempt = j.attempt, q.attached = j.attached,
         q.facts = j.facts, q.stop = j.stop, q.receipts = j.receipts, q.derived = j.derived,
         q.carried = j.carried, j.attached \/ q.fs # "open", j.derived \/ q.queued = j.queued
  PROVE  InShape(q)
<1>1. j.derived \in BOOLEAN /\ j.attached \in BOOLEAN
  BY JournalKinds
<1> QED BY <1>1 DEF InShape

(* What is kept of the receipts when their retention is written.           *)
LEMMA RetentionKeeps ==
  ASSUME NEW j \in JournalSet, NEW w, w = WithRetention(j)
  PROVE  /\ w \in Seq(ReceiptSet) /\ DOMAIN w = DOMAIN j.receipts /\ Len(w) = Len(j.receipts)
         /\ \A i \in DOMAIN w :
              /\ KeyOf(w[i]) = KeyOf(j.receipts[i]) /\ w[i].stop = j.receipts[i].stop
              /\ w[i].attempt = j.receipts[i].attempt /\ w[i].state = j.receipts[i].state
              /\ w[i].n = j.receipts[i].n
<1>1. PICK s : s = j.receipts
  OBVIOUS
<1>2. s \in Seq(ReceiptSet) /\ DOMAIN s = 1 .. Len(s) /\ Len(s) \in Nat
      /\ \A i \in DOMAIN s : s[i] \in ReceiptSet
  BY <1>1, JournalKinds, SequenceFacts
<1>3. w = [i \in DOMAIN s |-> [s[i] EXCEPT !.retained = Retained(j)]]
  BY <1>1 DEF WithRetention
<1>4. Retained(j) \in BOOLEAN
  BY DEF Retained
<1>5. \A i \in DOMAIN s : [s[i] EXCEPT !.retained = Retained(j)] \in ReceiptSet
  BY <1>2, <1>4 DEF ReceiptSet
<1>6. w \in Seq(ReceiptSet) /\ DOMAIN w = DOMAIN s /\ Len(w) = Len(s)
  BY <1>2, <1>3, <1>5
<1>7. \A i \in DOMAIN s :
         /\ w[i].stop = s[i].stop /\ w[i].attempt = s[i].attempt
         /\ w[i].state = s[i].state /\ w[i].n = s[i].n
  BY <1>2, <1>3 DEF ReceiptSet
<1>8. \A i \in DOMAIN s : KeyOf(w[i]) = KeyOf(s[i])
  BY <1>7 DEF KeyOf
<1> QED BY <1>1, <1>6, <1>7, <1>8

(* Numbers do not depend on what else the receipts say.                    *)
LEMMA NumberedAlike ==
  ASSUME NEW s, NEW w, NEW a, Numbered(s, a), NEW n \in Nat, DOMAIN s = 1 .. n, DOMAIN w = 1 .. n,
         \A i \in 1 .. n : w[i].attempt = s[i].attempt /\ w[i].state = s[i].state /\ w[i].n = s[i].n
  PROVE  Numbered(w, a)
<1> SUFFICES ASSUME NEW i \in 1 .. n
             PROVE  w[i].attempt = a /\ w[i].n = Position(w, i)
  BY DEF Numbered
<1>1. i \in 1 .. i /\ \A h \in 1 .. i : h \in 1 .. n
  OBVIOUS
<1>2. Position(w, i) = Position(s, i)
  BY <1>1, PositionOfOld
<1>3. s[i].attempt = a /\ s[i].n = Position(s, i)
  BY DEF Numbered
<1> QED BY <1>2, <1>3

(* The journal once its receipts are queued.                               *)
NowQueued(j) == [j EXCEPT !.queued = TRUE, !.receipts = WithRetention(j)]

(* The journal whose receipts were queued.                                 *)
LEMMA MarkedShape ==
  ASSUME NEW j \in JournalSet, InShape(j), j.derived, ~j.queued,
         NEW q, q = NowQueued(j)
  PROVE  /\ q \in JournalSet /\ InShape(q)
         /\ q.attempt = j.attempt /\ q.attached = j.attached /\ q.fs = j.fs /\ q.facts = j.facts
         /\ q.stop = j.stop /\ q.queued /\ q.derived /\ q.settling = j.settling
         /\ DOMAIN q.receipts = DOMAIN j.receipts
         /\ \A i \in DOMAIN j.receipts :
              /\ KeyOf(q.receipts[i]) = KeyOf(j.receipts[i])
              /\ q.receipts[i].stop = j.receipts[i].stop
              /\ q.receipts[i].state = j.receipts[i].state
<1>1. PICK w : w = WithRetention(j)
  OBVIOUS
<1>2. /\ w \in Seq(ReceiptSet) /\ DOMAIN w = DOMAIN j.receipts /\ Len(w) = Len(j.receipts)
      /\ \A i \in DOMAIN w :
           /\ KeyOf(w[i]) = KeyOf(j.receipts[i]) /\ w[i].stop = j.receipts[i].stop
           /\ w[i].attempt = j.receipts[i].attempt /\ w[i].state = j.receipts[i].state
           /\ w[i].n = j.receipts[i].n
  BY <1>1, RetentionKeeps
<1>3. /\ q.attempt = j.attempt /\ q.attached = j.attached /\ q.fs = j.fs /\ q.facts = j.facts
      /\ q.stop = j.stop /\ q.queued = TRUE /\ q.derived = j.derived /\ q.settling = j.settling
      /\ q.carried = j.carried /\ q.receipts = w
  BY <1>1 DEF JournalSet, NowQueued
<1>4. q \in JournalSet
  BY <1>1, <1>2 DEF JournalSet, NowQueued
<1>5. DOMAIN w = 1 .. Len(w) /\ Len(w) \in Nat /\ DOMAIN j.receipts = 1 .. Len(w)
  BY <1>2, SequenceFacts
<1>6. Numbered(w, j.attempt)
  <2>1. Numbered(j.receipts, j.attempt)
    BY DEF InShape
  <2> QED BY <1>2, <1>5, <2>1, NumberedAlike
<1>7. w = <<>> <=> j.receipts = <<>>
  <2>1. j.receipts \in Seq(ReceiptSet)
    BY JournalKinds
  <2>2. \A s \in Seq(ReceiptSet) : s = <<>> <=> Len(s) = 0
    OBVIOUS
  <2> QED BY <1>2, <2>1, <2>2
<1>8. InShape(q)
  <2>1. Numbered(q.receipts, q.attempt) /\ q.carried <= Len(q.receipts)
    BY <1>2, <1>3, <1>6 DEF InShape
  <2>2. \A i \in DOMAIN q.receipts :
          IF i <= q.carried THEN q.receipts[i].stop < q.stop ELSE q.receipts[i].stop = q.stop
    <3> TAKE i \in DOMAIN q.receipts
    <3>1. i \in DOMAIN j.receipts /\ q.receipts[i].stop = j.receipts[i].stop
      BY <1>2, <1>3
    <3>2. IF i <= j.carried THEN j.receipts[i].stop < j.stop ELSE j.receipts[i].stop = j.stop
      BY <3>1 DEF InShape
    <3> QED BY <1>3, <3>1, <3>2
  <2>3. q.attached \/ (q.receipts = <<>> /\ q.derived /\ q.fs # "open")
    BY <1>3, <1>7 DEF InShape
  <2>4. q.attached /\ q.facts = "clean" =>
          q.receipts # <<>> /\ q.receipts[Len(q.receipts)].state = "cleaned"
    <3> SUFFICES ASSUME j.attached, j.facts = "clean"
                 PROVE  w # <<>> /\ w[Len(w)].state = "cleaned"
      BY <1>3
    <3>1. j.receipts # <<>> /\ j.receipts[Len(j.receipts)].state = "cleaned"
      BY DEF InShape
    <3>2. Len(w) # 0
      <4>1. \A s \in Seq(ReceiptSet) : Len(s) = 0 => s = <<>>
        OBVIOUS
      <4> QED BY <1>2, <1>7, <3>1, <4>1
    <3>3. Len(w) \in DOMAIN w
      BY <1>5, <3>2
    <3> QED BY <1>2, <1>7, <3>1, <3>3
  <2> QED BY <1>3, <2>1, <2>2, <2>3, <2>4 DEF InShape
<1> QED BY <1>2, <1>3, <1>4, <1>8

(* Receipts of earlier stops.                                              *)
Older(receipts, stop) == \A i \in DOMAIN receipts : receipts[i].stop < stop

(* The journal q owes what j does after the receipts c.                    *)
Owes(q, j, c) ==
  /\ q.attempt = j.attempt /\ q.attached = j.attached /\ q.facts = j.facts /\ q.stop = j.stop
  /\ q.fs = j.fs /\ q.receipts = ReceiptsOwed(j, c) /\ q.derived = TRUE /\ q.carried = Len(c)

(* The journal whose receipts are those it owes after the ones carried.    *)
LEMMA OwedShape ==
  ASSUME NEW j \in JournalSet, NEW c \in Seq(ReceiptSet), Numbered(c, j.attempt),
         Older(c, j.stop), j.attached \/ (c = <<>> /\ j.fs # "open"),
         NEW q, Owes(q, j, c)
  PROVE  /\ InShape(q) /\ q.receipts \in Seq(ReceiptSet)
         /\ \A i \in DOMAIN c : i \in DOMAIN q.receipts /\ q.receipts[i] = c[i]
         /\ \A i \in DOMAIN q.receipts : i \notin DOMAIN c =>
              q.receipts[i].stop = j.stop /\ (q.receipts[i].state = "cleaned" => j.facts = "clean")
         /\ j.attached => Len(q.receipts) > Len(c)
         /\ ~j.attached => q.receipts = c
<1>0. /\ q.attempt = j.attempt /\ q.attached = j.attached /\ q.facts = j.facts /\ q.stop = j.stop
      /\ q.fs = j.fs /\ q.receipts = ReceiptsOwed(j, c) /\ q.derived = TRUE /\ q.carried = Len(c)
  BY DEF Owes
<1>1. PICK r : r = ReceiptsOwed(j, c)
  OBVIOUS
<1>2. /\ r \in Seq(ReceiptSet) /\ Len(r) >= Len(c) /\ Numbered(r, j.attempt)
      /\ \A i \in DOMAIN c : i \in DOMAIN r /\ r[i] = c[i]
      /\ \A i \in DOMAIN r : i > Len(c) =>
           r[i].stop = j.stop /\ (r[i].state = "cleaned" => j.facts = "clean")
      /\ j.attached => /\ Len(r) > Len(c)
                       /\ j.facts = "clean" => r[Len(r)].state = "cleaned"
      /\ ~j.attached => r = c
  BY <1>1, OwedFacts
<1>3. DOMAIN r = 1 .. Len(r) /\ Len(r) \in Nat /\ DOMAIN c = 1 .. Len(c) /\ Len(c) \in Nat
  BY <1>2, SequenceFacts
<1>4. \A i \in DOMAIN r : IF i <= q.carried THEN r[i].stop < q.stop ELSE r[i].stop = q.stop
  <2> TAKE i \in DOMAIN r
  <2>1. CASE i <= Len(c)
    <3>1. i \in DOMAIN c
      BY <1>3, <2>1
    <3> QED BY <1>0, <1>2, <2>1, <3>1 DEF Older
  <2>2. CASE ~(i <= Len(c))
    <3>1. i > Len(c)
      BY <1>3, <2>2
    <3> QED BY <1>0, <1>2, <2>2, <3>1
  <2> QED BY <2>1, <2>2
<1>5. j.attached => r # <<>>
  <2>1. \A s \in Seq(ReceiptSet) : s = <<>> => Len(s) = 0
    OBVIOUS
  <2> QED BY <1>2, <1>3, <2>1
<1>6. InShape(q)
  BY <1>0, <1>1, <1>2, <1>4, <1>5 DEF InShape
<1>7. \A i \in DOMAIN r : i \notin DOMAIN c => i > Len(c)
  BY <1>3
<1> QED BY <1>0, <1>1, <1>2, <1>6, <1>7

(* settle writes what the stop showed and, when it can, what is owed.      *)
LEMMA StoppedShape ==
  ASSUME journal \in JournalSet, InShape(journal), NEW o \in Outcomes, NEW derived \in BOOLEAN,
         ~derived => journal.attached, NEW q, q = Stopped(o, derived)
  PROVE  /\ q \in JournalSet /\ InShape(q)
         /\ q.attempt = journal.attempt /\ q.fs = journal.fs /\ q.stop = journal.stop + 1
         /\ q.facts = o /\ q.settling = journal.settling /\ q.derived = derived
         /\ q.attached = journal.attached
         /\ \A i \in DOMAIN journal.receipts :
              i \in DOMAIN q.receipts /\ q.receipts[i] = journal.receipts[i]
         /\ \A i \in DOMAIN q.receipts : i \notin DOMAIN journal.receipts =>
              q.receipts[i].stop = q.stop /\ (q.receipts[i].state = "cleaned" => o = "clean")
         /\ q.queued => journal.queued /\ q.receipts = journal.receipts
         /\ q.attached => ~q.queued
<1>1. PICK c : c = journal.receipts
  OBVIOUS
<1>2. PICK j : j = [journal EXCEPT !.facts = o, !.stop = @ + 1]
  OBVIOUS
<1>3. /\ j \in JournalSet /\ j.attempt = journal.attempt /\ j.attached = journal.attached
      /\ j.fs = journal.fs /\ j.facts = o /\ j.stop = journal.stop + 1 /\ j.receipts = c
      /\ j.queued = journal.queued /\ j.settling = journal.settling
  <2>1. o \in Outcomes \cup {"none"} /\ journal.stop + 1 \in Nat
    BY JournalKinds
  <2> QED BY <1>1, <1>2, <2>1 DEF JournalSet
<1>4. PICK r : r = IF derived THEN ReceiptsOwed(j, c) ELSE c
  OBVIOUS
<1>5. PICK b : b = IF ~derived \/ Len(r) > Len(c) THEN FALSE ELSE journal.queued
  OBVIOUS
<1>6. q = [j EXCEPT !.receipts = r, !.derived = derived, !.carried = Len(c), !.queued = b]
  BY <1>1, <1>2, <1>3, <1>4, <1>5 DEF Stopped, JournalSet
<1>7. /\ q.attempt = j.attempt /\ q.attached = j.attached /\ q.fs = j.fs /\ q.facts = j.facts
      /\ q.stop = j.stop /\ q.receipts = r /\ q.derived = derived /\ q.carried = Len(c)
      /\ q.queued = b /\ q.settling = j.settling
  BY <1>3, <1>6 DEF JournalSet
<1>8. c \in Seq(ReceiptSet) /\ Numbered(c, j.attempt) /\ Len(c) \in Nat /\ DOMAIN c = 1 .. Len(c)
  <2>1. c \in Seq(ReceiptSet)
    BY <1>1, JournalKinds
  <2> QED BY <1>1, <1>3, <2>1, SequenceFacts DEF InShape
<1>9. Older(c, j.stop)
  <2> SUFFICES ASSUME NEW i \in DOMAIN c PROVE c[i].stop < j.stop
    BY DEF Older
  <2>1. c[i].stop \in Nat /\ journal.stop \in Nat
    BY <1>8, SequenceFacts, JournalKinds, ReceiptKinds
  <2>2. c[i].stop < journal.stop \/ c[i].stop = journal.stop
    BY <1>1 DEF InShape
  <2> QED BY <1>3, <2>1, <2>2
<1>10. j.attached \/ (c = <<>> /\ j.fs # "open")
  BY <1>1, <1>3 DEF InShape
<1>11. /\ InShape(q) /\ r \in Seq(ReceiptSet)
       /\ \A i \in DOMAIN c : i \in DOMAIN r /\ r[i] = c[i]
       /\ \A i \in DOMAIN r : i \notin DOMAIN c =>
            r[i].stop = j.stop /\ (r[i].state = "cleaned" => j.facts = "clean")
       /\ derived /\ j.attached => Len(r) > Len(c)
       /\ ~derived \/ ~j.attached => r = c
  <2>1. CASE derived
    <3>1. r = ReceiptsOwed(j, c) /\ q.derived
      BY <1>4, <1>7, <2>1
    <3>0. Owes(q, j, c)
      BY <1>7, <3>1 DEF Owes
    <3>2. /\ InShape(q) /\ q.receipts \in Seq(ReceiptSet)
          /\ \A i \in DOMAIN c : i \in DOMAIN q.receipts /\ q.receipts[i] = c[i]
          /\ \A i \in DOMAIN q.receipts : i \notin DOMAIN c =>
               q.receipts[i].stop = j.stop /\ (q.receipts[i].state = "cleaned" => j.facts = "clean")
          /\ j.attached => Len(q.receipts) > Len(c)
          /\ ~j.attached => q.receipts = c
      BY <1>3, <1>8, <1>9, <1>10, <3>0, OwedShape
    <3> QED BY <1>7, <2>1, <3>2
  <2>2. CASE ~derived
    <3>1. r = c /\ b = FALSE /\ j.attached
      BY <1>3, <1>4, <1>5, <2>2
    <3>2. InShape(q)
      BY <1>7, <1>8, <1>9, <2>2, <3>1 DEF InShape, Older
    <3> QED BY <1>8, <2>2, <3>1, <3>2
  <2> QED BY <2>1, <2>2
<1>12. q \in JournalSet
  <2>1. b \in BOOLEAN
    BY <1>3, <1>5, JournalKinds
  <2> QED BY <1>3, <1>6, <1>8, <1>11, <2>1 DEF JournalSet
<1>13. b => journal.queued /\ r = c
  <2>1. b => derived /\ ~(Len(r) > Len(c))
    BY <1>5
  <2>2. j.attached \in BOOLEAN
    BY <1>3, JournalKinds
  <2> QED BY <1>5, <1>11, <2>1, <2>2
<1>14. j.attached => ~b
  BY <1>5, <1>11
<1> QED BY <1>1, <1>3, <1>7, <1>11, <1>12, <1>13, <1>14

(* The journal once its receipts are worked out.                           *)
NowDerived(j) ==
  [j EXCEPT !.receipts = ReceiptsOwed(j, j.receipts), !.derived = TRUE, !.queued = FALSE]

(* ensureReceiptsQueued works out what could not be worked out before.     *)
LEMMA DerivedShape ==
  ASSUME NEW j \in JournalSet, InShape(j), ~j.derived,
         NEW q, q = NowDerived(j)
  PROVE  /\ q \in JournalSet /\ InShape(q)
         /\ q.attempt = j.attempt /\ q.fs = j.fs /\ q.stop = j.stop /\ q.facts = j.facts
         /\ q.settling = j.settling /\ ~q.queued /\ q.derived
         /\ \A i \in DOMAIN j.receipts : i \in DOMAIN q.receipts /\ q.receipts[i] = j.receipts[i]
         /\ \A i \in DOMAIN q.receipts : i \notin DOMAIN j.receipts =>
              q.receipts[i].stop = q.stop /\ (q.receipts[i].state = "cleaned" => q.facts = "clean")
<1>1. PICK c : c = j.receipts
  OBVIOUS
<1>2. c \in Seq(ReceiptSet) /\ Numbered(c, j.attempt) /\ Len(c) \in Nat /\ DOMAIN c = 1 .. Len(c)
  <2>1. c \in Seq(ReceiptSet)
    BY <1>1, JournalKinds
  <2> QED BY <1>1, <2>1, SequenceFacts DEF InShape
<1>3. j.carried = Len(c) /\ j.attached
  BY <1>1 DEF InShape
<1>4. Older(c, j.stop)
  <2> SUFFICES ASSUME NEW i \in DOMAIN c PROVE c[i].stop < j.stop
    BY DEF Older
  <2>1. i <= j.carried
    BY <1>2, <1>3
  <2> QED BY <1>1, <2>1 DEF InShape
<1>5. /\ q.attempt = j.attempt /\ q.attached = j.attached /\ q.fs = j.fs /\ q.facts = j.facts
      /\ q.stop = j.stop /\ q.receipts = ReceiptsOwed(j, c) /\ q.derived = TRUE
      /\ q.carried = Len(c) /\ q.queued = FALSE /\ q.settling = j.settling
  BY <1>1, <1>3 DEF JournalSet, NowDerived
<1>6. Owes(q, j, c)
  BY <1>5 DEF Owes
<1>7. /\ InShape(q) /\ q.receipts \in Seq(ReceiptSet)
      /\ \A i \in DOMAIN c : i \in DOMAIN q.receipts /\ q.receipts[i] = c[i]
      /\ \A i \in DOMAIN q.receipts : i \notin DOMAIN c =>
           q.receipts[i].stop = j.stop /\ (q.receipts[i].state = "cleaned" => j.facts = "clean")
  BY ONLY j \in JournalSet, <1>2, <1>3, <1>4, <1>6, OwedShape
<1>8. q \in JournalSet
  BY <1>1, <1>5, <1>7 DEF JournalSet, NowDerived
<1> QED BY <1>1, <1>5, <1>7, <1>8

(* A release that holds something works the receipts of the stop out anew. *)
LEMMA RederivedShape ==
  ASSUME NEW j \in JournalSet, InShape(j), j.attached, ~j.queued,
         NEW q, q = NowHeld(j)
  PROVE  /\ q \in JournalSet /\ InShape(q)
         /\ q.attempt = j.attempt /\ q.fs = j.fs /\ q.stop = j.stop /\ q.facts = "held"
         /\ ~q.settling /\ ~q.queued /\ q.derived
         /\ \A i \in DOMAIN j.receipts : j.receipts[i].stop < j.stop =>
              i \in DOMAIN q.receipts /\ q.receipts[i] = j.receipts[i]
         /\ \A i \in DOMAIN q.receipts :
              \/ i \in DOMAIN j.receipts /\ q.receipts[i] = j.receipts[i] /\ q.receipts[i].stop < q.stop
              \/ q.receipts[i].state # "cleaned"
<1>1. PICK h : h = [j EXCEPT !.facts = "held", !.settling = FALSE]
  OBVIOUS
<1>2. /\ h \in JournalSet /\ h.attempt = j.attempt /\ h.attached = j.attached /\ h.fs = j.fs
      /\ h.facts = "held" /\ h.stop = j.stop /\ h.receipts = j.receipts /\ h.queued = j.queued
      /\ h.carried = j.carried /\ h.settling = FALSE
  BY <1>1 DEF JournalSet, Outcomes
<1>3. PICK s : s = j.receipts
  OBVIOUS
<1>4. /\ s \in Seq(ReceiptSet) /\ Len(s) \in Nat /\ DOMAIN s = 1 .. Len(s) /\ Numbered(s, j.attempt)
      /\ j.carried \in Nat /\ j.carried <= Len(s) /\ j.stop \in Nat
  <2>1. s \in Seq(ReceiptSet) /\ j.carried \in Nat /\ j.stop \in Nat
    BY <1>3, JournalKinds
  <2> QED BY <1>3, <2>1, SequenceFacts DEF InShape
<1>5. PICK c : c = SubSeq(s, 1, j.carried)
  OBVIOUS
<1>6. c \in Seq(ReceiptSet) /\ Len(c) = j.carried /\ DOMAIN c = 1 .. j.carried
      /\ \A i \in 1 .. j.carried : c[i] = s[i]
  BY <1>4, <1>5
<1>7. q = [h EXCEPT !.receipts = ReceiptsOwed(h, c), !.derived = TRUE]
  BY <1>1, <1>2, <1>3, <1>5 DEF NowHeld, RederiveReceipts, Carried
<1>8. /\ q.attempt = h.attempt /\ q.attached = h.attached /\ q.fs = h.fs /\ q.facts = h.facts
      /\ q.stop = h.stop /\ q.receipts = ReceiptsOwed(h, c) /\ q.derived = TRUE
      /\ q.carried = Len(c) /\ q.queued = h.queued /\ q.settling = h.settling
  BY <1>2, <1>6, <1>7 DEF JournalSet
<1>9. Numbered(c, h.attempt)
  <2> SUFFICES ASSUME NEW i \in 1 .. j.carried
               PROVE  c[i].attempt = h.attempt /\ c[i].n = Position(c, i)
    BY <1>6 DEF Numbered
  <2>1. i \in DOMAIN s /\ i \in 1 .. i /\ \A g \in 1 .. i : g \in 1 .. j.carried
    BY <1>4
  <2>2. Position(c, i) = Position(s, i)
    BY <1>6, <2>1, PositionOfOld
  <2>3. s[i].attempt = j.attempt /\ s[i].n = Position(s, i)
    BY <1>4, <2>1 DEF Numbered
  <2> QED BY <1>2, <1>6, <2>2, <2>3
<1>10. Older(c, h.stop)
  <2> SUFFICES ASSUME NEW i \in DOMAIN c PROVE c[i].stop < h.stop
    BY DEF Older
  <2>1. i \in DOMAIN s /\ i <= j.carried /\ c[i] = s[i]
    BY <1>4, <1>6
  <2> QED BY <1>2, <1>3, <2>1 DEF InShape
<1>11. Owes(q, h, c)
  BY <1>8 DEF Owes
<1>12. h \in JournalSet /\ h.attached /\ c \in Seq(ReceiptSet)
  BY <1>2, <1>6
<1>13. /\ InShape(q) /\ q.receipts \in Seq(ReceiptSet)
       /\ \A i \in DOMAIN c : i \in DOMAIN q.receipts /\ q.receipts[i] = c[i]
       /\ \A i \in DOMAIN q.receipts : i \notin DOMAIN c =>
            q.receipts[i].stop = h.stop /\ (q.receipts[i].state = "cleaned" => h.facts = "clean")
  BY ONLY <1>12, <1>9, <1>10, <1>11, OwedShape
<1>14. q \in JournalSet
  BY <1>2, <1>7, <1>13, <1>8 DEF JournalSet
<1>15. \A i \in DOMAIN s : s[i].stop < j.stop => i \in DOMAIN c
  <2> SUFFICES ASSUME NEW i \in DOMAIN s, s[i].stop < j.stop
               PROVE  i \in DOMAIN c
    OBVIOUS
  <2>1. s[i].stop # j.stop
    BY <1>4, SequenceFacts, ReceiptKinds
  <2>2. i <= j.carried
    BY <1>3, <2>1 DEF InShape
  <2> QED BY <1>4, <1>6, <2>2
<1>16. \A i \in DOMAIN c : i \in DOMAIN s /\ c[i] = s[i]
  BY <1>4, <1>6
<1>17. \A i \in DOMAIN s : s[i].stop < j.stop => i \in DOMAIN q.receipts /\ q.receipts[i] = s[i]
  BY <1>13, <1>15, <1>16
<1>18. \A i \in DOMAIN q.receipts :
         \/ i \in DOMAIN s /\ q.receipts[i] = s[i] /\ q.receipts[i].stop < q.stop
         \/ q.receipts[i].state # "cleaned"
  BY <1>2, <1>8, <1>10, <1>13, <1>16 DEF Older
<1> QED BY <1>2, <1>3, <1>8, <1>13, <1>14, <1>17, <1>18

-----------------------------------------------------------------------------
(* The outbox                                                              *)

(* A sequence after another.                                               *)
LEMMA JoinedHolds ==
  ASSUME NEW T, NEW s \in Seq(T), NEW t \in Seq(T)
  PROVE  /\ s \o t \in Seq(T) /\ DOMAIN (s \o t) = 1 .. Len(s) + Len(t)
         /\ \A i \in 1 .. Len(s) : (s \o t)[i] = s[i]
         /\ \A i \in 1 .. Len(s) + Len(t) : i > Len(s) => (s \o t)[i] = t[i - Len(s)]
<1>1. Len(s) \in Nat /\ Len(t) \in Nat
  OBVIOUS
<1>2. s \o t \in Seq(T) /\ Len(s \o t) = Len(s) + Len(t)
  OBVIOUS
<1>3. \A i \in 1 .. Len(s) : (s \o t)[i] = s[i]
  BY <1>1
<1>4. \A i \in 1 .. Len(s) + Len(t) : i > Len(s) => (s \o t)[i] = t[i - Len(s)]
  BY <1>1
<1>5. DOMAIN (s \o t) = 1 .. Len(s \o t)
  BY <1>2
<1> QED BY <1>2, <1>3, <1>4, <1>5

(* An entry for a receipt.                                                 *)
LEMMA EntryKinds ==
  /\ \A r \in ReceiptSet : /\ Entry(r) \in EntrySet /\ Entry(r).facts = r
                           /\ Entry(r).status = "pending"
  /\ \A e \in EntrySet : e.facts \in ReceiptSet /\ e.status \in Statuses
BY DEF Entry, EntrySet, Statuses

(* A trim only drops entries, and none that is pending.                    *)
LEMMA TrimHolds ==
  ASSUME NEW box \in Seq(EntrySet), NEW t, t = Trim(box)
  PROVE  /\ t \in Seq(EntrySet)
         /\ \A n \in DOMAIN t : \E i \in DOMAIN box : t[n] = box[i]
         /\ \A i \in DOMAIN box : box[i].status = "pending" => \E n \in DOMAIN t : t[n] = box[i]
<1> DEFINE excess == Len(box) - Limit
           settledBefore(i) == Cardinality({h \in 1 .. i : box[h].status # "pending"})
<1>1. PICK places : places = {i \in DOMAIN box : box[i].status = "pending" \/ settledBefore(i) > excess}
  OBVIOUS
<1>2. t = At(box, places)
  BY <1>1 DEF Trim
<1>3. /\ places \in SUBSET (DOMAIN box)
      /\ \A i \in DOMAIN box : box[i].status = "pending" => i \in places
  BY <1>1
<1> HIDE DEF excess, settledBefore
<1> QED BY <1>2, <1>3, AtHolds

(* Queueing keeps what is pending and adds what the outbox does not hold.  *)
LEMMA QueuedHolds ==
  ASSUME outbox \in Seq(EntrySet), NEW receipts \in Seq(ReceiptSet), NEW q, q = Queued(receipts)
  PROVE  /\ q \in Seq(EntrySet)
         /\ \A n \in DOMAIN q : \/ \E i \in DOMAIN outbox : q[n] = outbox[i]
                                \/ \E i \in DOMAIN receipts : q[n] = Entry(receipts[i])
         /\ \A i \in DOMAIN outbox :
              outbox[i].status = "pending" => \E n \in DOMAIN q : q[n] = outbox[i]
         /\ \A i \in DOMAIN receipts :
              KeyOf(receipts[i]) \notin KeysIn(outbox) => \E n \in DOMAIN q : q[n] = Entry(receipts[i])
<1>1. PICK places : places = {i \in DOMAIN receipts : KeyOf(receipts[i]) \notin KeysIn(outbox)}
  OBVIOUS
<1>2. PICK new : new = At(receipts, places)
  OBVIOUS
<1>3. /\ places \in SUBSET (DOMAIN receipts)
      /\ \A i \in DOMAIN receipts : KeyOf(receipts[i]) \notin KeysIn(outbox) => i \in places
  BY <1>1
<1>4. /\ new \in Seq(ReceiptSet)
      /\ \A n \in DOMAIN new : \E i \in places : new[n] = receipts[i]
      /\ \A i \in places : \E n \in DOMAIN new : new[n] = receipts[i]
  BY <1>2, <1>3, AtHolds
<1>5. PICK added : added = [i \in DOMAIN new |-> Entry(new[i])]
  OBVIOUS
<1>6. Len(new) \in Nat /\ DOMAIN new = 1 .. Len(new) /\ \A n \in DOMAIN new : new[n] \in ReceiptSet
  BY <1>4, SequenceFacts
<1>7. added \in Seq(EntrySet) /\ Len(added) = Len(new)
      /\ \A n \in DOMAIN new : added[n] = Entry(new[n])
  <2>1. \A n \in DOMAIN new : Entry(new[n]) \in EntrySet
    BY <1>6, EntryKinds
  <2> QED BY <1>5, <1>6, <2>1
<1>8. PICK box : box = outbox \o added
  OBVIOUS
<1>9. q = Trim(box)
  BY <1>1, <1>2, <1>5, <1>8 DEF Queued
<1>10. Len(outbox) \in Nat /\ DOMAIN outbox = 1 .. Len(outbox)
  BY SequenceFacts
<1>11. /\ box \in Seq(EntrySet) /\ DOMAIN box = 1 .. Len(outbox) + Len(new)
       /\ \A i \in 1 .. Len(outbox) : box[i] = outbox[i]
       /\ \A i \in 1 .. Len(outbox) + Len(new) : i > Len(outbox) => box[i] = added[i - Len(outbox)]
  <2>1. /\ box \in Seq(EntrySet) /\ DOMAIN box = 1 .. Len(outbox) + Len(added)
        /\ \A i \in 1 .. Len(outbox) : box[i] = outbox[i]
        /\ \A i \in 1 .. Len(outbox) + Len(added) : i > Len(outbox) => box[i] = added[i - Len(outbox)]
    <3>1. added \in Seq(EntrySet)
      BY <1>7
    <3> QED BY ONLY <1>8, <3>1, outbox \in Seq(EntrySet), JoinedHolds
  <2>2. Len(added) = Len(new)
    BY <1>7
  <2> QED BY ONLY <2>1, <2>2
<1>12. /\ q \in Seq(EntrySet)
       /\ \A n \in DOMAIN q : \E i \in DOMAIN box : q[n] = box[i]
       /\ \A i \in DOMAIN box : box[i].status = "pending" => \E n \in DOMAIN q : q[n] = box[i]
  <2>1. box \in Seq(EntrySet)
    BY <1>11
  <2> QED BY ONLY <1>9, <2>1, TrimHolds
<1>13. \A i \in DOMAIN box : \/ \E h \in DOMAIN outbox : box[i] = outbox[h]
                             \/ \E h \in DOMAIN receipts : box[i] = Entry(receipts[h])
  <2> TAKE i \in DOMAIN box
  <2>1. i \in Int /\ i >= 1 /\ i <= Len(outbox) + Len(new)
    BY <1>6, <1>10, <1>11
  <2>2. CASE i <= Len(outbox)
    <3>1. i \in DOMAIN outbox
      BY <1>10, <2>1, <2>2
    <3> QED BY <1>10, <1>11, <3>1
  <2>3. CASE i > Len(outbox)
    <3>1. i - Len(outbox) \in DOMAIN new
      BY <1>6, <1>10, <2>1, <2>3
    <3>2. box[i] = Entry(new[i - Len(outbox)])
      BY <1>7, <1>11, <2>3, <3>1
    <3>3. PICK h \in places : new[i - Len(outbox)] = receipts[h]
      BY <1>4, <3>1
    <3> QED BY <1>3, <3>2, <3>3
  <2> QED BY <1>10, <2>1, <2>2, <2>3
<1>14. \A i \in DOMAIN outbox :
         outbox[i].status = "pending" => \E n \in DOMAIN q : q[n] = outbox[i]
  <2> SUFFICES ASSUME NEW i \in DOMAIN outbox, outbox[i].status = "pending"
               PROVE  \E n \in DOMAIN q : q[n] = outbox[i]
    OBVIOUS
  <2>1. i \in DOMAIN box /\ box[i] = outbox[i]
    BY <1>6, <1>10, <1>11
  <2> QED BY <1>12, <2>1
<1>15. \A i \in DOMAIN receipts :
         KeyOf(receipts[i]) \notin KeysIn(outbox) => \E n \in DOMAIN q : q[n] = Entry(receipts[i])
  <2> SUFFICES ASSUME NEW i \in DOMAIN receipts, KeyOf(receipts[i]) \notin KeysIn(outbox)
               PROVE  \E n \in DOMAIN q : q[n] = Entry(receipts[i])
    OBVIOUS
  <2>1. PICK n \in DOMAIN new : new[n] = receipts[i]
    BY <1>3, <1>4
  <2>2. n \in Int /\ n >= 1 /\ n <= Len(new)
    BY <1>6
  <2>3. n + Len(outbox) \in DOMAIN box /\ n + Len(outbox) > Len(outbox) /\ (n + Len(outbox)) - Len(outbox) = n
    BY <1>6, <1>10, <1>11, <2>2
  <2>4. box[n + Len(outbox)] = Entry(receipts[i])
    BY <1>7, <1>11, <2>1, <2>3
  <2>5. receipts[i] \in ReceiptSet
    BY SequenceFacts
  <2>6. box[n + Len(outbox)].status = "pending"
    BY <2>4, <2>5, EntryKinds
  <2> QED BY <1>12, <2>3, <2>4, <2>6
<1>16. \A n \in DOMAIN q : \/ \E i \in DOMAIN outbox : q[n] = outbox[i]
                           \/ \E i \in DOMAIN receipts : q[n] = Entry(receipts[i])
  <2> TAKE n \in DOMAIN q
  <2>1. PICK i \in DOMAIN box : q[n] = box[i]
    BY <1>12
  <2> QED BY <1>13, <2>1
<1> QED BY <1>12, <1>14, <1>15, <1>16

(* What a cycle sends are keys of the outbox.                              *)
LEMMA DueHolds ==
  ASSUME outbox \in Seq(EntrySet), tried \in Seq(KeySet)
  PROVE  Due \in Seq(KeysIn(outbox))
<1> DEFINE key(n) == KeyOf(outbox[n].facts)
           rank(n) == IF Contains(tried, key(n)) THEN CHOOSE t \in DOMAIN tried : tried[t] = key(n)
                      ELSE 0
           pending == {i \in DOMAIN outbox : outbox[i].status = "pending"}
           place(i) == Cardinality({h \in pending : h = i \/ TriedBefore(h, i)})
           R == {p \in pending \X pending : TriedBefore(p[1], p[2])}
           all == Cardinality(pending)
           many == IF all < PerCycle THEN all ELSE PerCycle
<1>1. DOMAIN tried = 1 .. Len(tried) /\ Len(tried) \in Nat
      /\ DOMAIN outbox = 1 .. Len(outbox) /\ Len(outbox) \in Nat /\ IsFiniteSet(DOMAIN outbox)
  BY SequenceFacts
<1>2. \A n : rank(n) \in Int
  <2> TAKE n
  <2>1. CASE Contains(tried, key(n))
    <3>1. \E t \in DOMAIN tried : tried[t] = key(n)
      BY <1>1, <2>1 DEF Contains
    <3>2. rank(n) \in DOMAIN tried
      BY <2>1, <3>1
    <3> QED BY <1>1, <3>2
  <2>2. CASE ~Contains(tried, key(n))
    BY <2>2
  <2> QED BY <2>1, <2>2
<1>3. \A h, i : TriedBefore(h, i) <=> rank(h) < rank(i) \/ (rank(h) = rank(i) /\ h < i)
  BY DEF TriedBefore
<1>4. pending \in SUBSET (DOMAIN outbox) /\ \A i \in pending : i \in Int
  BY <1>1
<1> HIDE DEF key, rank, pending
<1>5. \A h, i \in pending : <<h, i>> \in R <=> rank(h) < rank(i) \/ (rank(h) = rank(i) /\ h < i)
  BY <1>3
<1>6. \A i \in pending : {h \in pending : h = i \/ <<h, i>> \in R}
                         = {h \in pending : h = i \/ TriedBefore(h, i)}
  OBVIOUS
<1> HIDE DEF R
<1>7. \A i, j \in pending : i = j \/ <<i, j>> \in R \/ <<j, i>> \in R
  <2> TAKE i, j \in pending
  <2>1. i \in Int /\ j \in Int /\ rank(i) \in Int /\ rank(j) \in Int
    BY <1>2, <1>4
  <2> QED BY <1>5, <2>1
<1>8. \A i, j \in pending : ~(<<i, j>> \in R /\ <<j, i>> \in R)
  <2> TAKE i, j \in pending
  <2>1. i \in Int /\ j \in Int /\ rank(i) \in Int /\ rank(j) \in Int
    BY <1>2, <1>4
  <2>2. <<i, j>> \in R => rank(i) < rank(j) \/ (rank(i) = rank(j) /\ i < j)
    BY <1>5
  <2>3. <<j, i>> \in R => rank(j) < rank(i) \/ (rank(j) = rank(i) /\ j < i)
    BY <1>5
  <2> QED BY <2>1, <2>2, <2>3
<1>9. \A h, i, j \in pending : <<h, i>> \in R /\ <<i, j>> \in R => <<h, j>> \in R
  <2> SUFFICES ASSUME NEW h \in pending, NEW i \in pending, NEW j \in pending,
                      <<h, i>> \in R, <<i, j>> \in R
               PROVE  <<h, j>> \in R
    OBVIOUS
  <2>1. /\ h \in Int /\ i \in Int /\ j \in Int
        /\ rank(h) \in Int /\ rank(i) \in Int /\ rank(j) \in Int
    BY <1>2, <1>4
  <2>2. rank(h) < rank(i) \/ (rank(h) = rank(i) /\ h < i)
    BY <1>5
  <2>3. rank(i) < rank(j) \/ (rank(i) = rank(j) /\ i < j)
    BY <1>5
  <2>4. rank(h) < rank(j) \/ (rank(h) = rank(j) /\ h < j)
    BY ONLY <2>1, <2>2, <2>3
  <2> QED BY <1>5, <2>4
<1>10. IsFiniteSet(pending)
  BY <1>1, <1>4, FS_Subset
<1>11. all \in Nat /\ \A n \in 1 .. all : \E i \in pending : place(i) = n
  <2> DEFINE low(i) == {h \in pending : h = i \/ <<h, i>> \in R}
  <2>1. all \in Nat /\ \A n \in 1 .. all : \E i \in pending : Cardinality(low(i)) = n
    <3>1. PICK S : S = pending
      OBVIOUS
    <3>2. PICK Q : Q = R
      OBVIOUS
    <3>3. IsFiniteSet(S)
      BY <1>10, <3>1
    <3>4. \A i, j \in S : i = j \/ <<i, j>> \in Q \/ <<j, i>> \in Q
      BY <1>7, <3>1, <3>2
    <3>5. \A i, j \in S : ~(<<i, j>> \in Q /\ <<j, i>> \in Q)
      BY <1>8, <3>1, <3>2
    <3>6. \A h, i, j \in S : <<h, i>> \in Q /\ <<i, j>> \in Q => <<h, j>> \in Q
      BY <1>9, <3>1, <3>2
    <3>7. /\ Cardinality(S) \in Nat
          /\ \A n \in 1 .. Cardinality(S) : \E i \in S :
               Cardinality({h \in S : h = i \/ <<h, i>> \in Q}) = n
          /\ \A i \in S : Cardinality({h \in S : h = i \/ <<h, i>> \in Q}) \in 1 .. Cardinality(S)
          /\ \A i, j \in S : Cardinality({h \in S : h = i \/ <<h, i>> \in Q})
                             = Cardinality({h \in S : h = j \/ <<h, j>> \in Q}) => i = j
      BY ONLY <3>3, <3>4, <3>5, <3>6, EveryPlaceTaken
    <3>8. \A i \in S : low(i) = {h \in S : h = i \/ <<h, i>> \in Q}
      BY <3>1, <3>2
    <3>9. \A n \in 1 .. Cardinality(S) : \E i \in S : Cardinality(low(i)) = n
      <4> HIDE DEF low
      <4> QED BY <3>7, <3>8
    <3> HIDE DEF low
    <3> QED BY <3>1, <3>7, <3>9
  <2>2. \A i \in pending : Cardinality(low(i)) = place(i)
    BY <1>6
  <2> HIDE DEF low, place
  <2> QED BY <2>1, <2>2
<1>12. many \in Nat /\ many <= all
  BY <1>11, BoundsAreNumbers
<1>13. Due = [n \in 1 .. many |-> KeyOf(outbox[CHOOSE i \in pending : place(i) = n].facts)]
  BY DEF Due, pending
<1> HIDE DEF place, many, all
<1>14. \A n \in 1 .. many :
         KeyOf(outbox[CHOOSE i \in pending : place(i) = n].facts) \in KeysIn(outbox)
  <2> TAKE n \in 1 .. many
  <2>1. \E i \in pending : place(i) = n
    BY <1>11, <1>12
  <2>2. PICK i : i = CHOOSE h \in pending : place(h) = n
    OBVIOUS
  <2>3. i \in DOMAIN outbox
    BY <1>4, <2>1, <2>2
  <2> QED BY <2>2, <2>3 DEF KeysIn
<1> DEFINE f == [n \in 1 .. many |-> KeyOf(outbox[CHOOSE i \in pending : place(i) = n].facts)]
<1>15. f \in [1 .. many -> KeysIn(outbox)]
  BY <1>14
<1> HIDE DEF f
<1>16. f \in Seq(KeysIn(outbox))
  BY <1>12, <1>15
<1> QED BY <1>13, <1>16 DEF f

(* A key of the outbox is the key of the entry it stands for.              *)
LEMMA IndexHolds ==
  ASSUME NEW k \in KeysIn(outbox)
  PROVE  IndexOf(k) \in DOMAIN outbox /\ KeyOf(outbox[IndexOf(k)].facts) = k
<1>1. \E i \in DOMAIN outbox : KeyOf(outbox[i].facts) = k
  BY DEF KeysIn
<1> QED BY <1>1 DEF IndexOf

-----------------------------------------------------------------------------
(* Steps that leave the files, the server's receipts and the history alone *)

(* The claim may only end, and the process move on: not to where a receipt *)
(* is to be marked, nor to a settlement that would have to wait.           *)
Moves ==
  /\ UNCHANGED <<journal, retired, outbox, tried, recorded, ended, left>>
  /\ (claim' = claim \/ claim' = FALSE)
  /\ pc' \in Places /\ then' \in Places
  /\ pc' = "mark" => pc = "mark"
  /\ pc' = "settling" => pc = "settling" \/ journal.fs # "open"

(* Such a step keeps what the files say.                                   *)
LEMMA MovesKeep ==
  ASSUME IInv, Moves
  PROVE  /\ Typed' /\ WellKept' /\ Counted' /\ Anchored' /\ Deferred' /\ Answered' /\ Truthful'
<1>1. /\ journal' = journal /\ retired' = retired /\ outbox' = outbox /\ tried' = tried
      /\ recorded' = recorded /\ ended' = ended /\ left' = left /\ (claim' = claim \/ claim' = FALSE)
      /\ pc' \in Places /\ then' \in Places /\ (pc' = "mark" => pc = "mark")
      /\ pc' = "settling" => pc = "settling" \/ journal.fs # "open"
  BY DEF Moves
<1>2. Typed'
  <2>1. Typed
    BY DEF IInv
  <2>2. claim' \in BOOLEAN
    BY <1>1, <2>1 DEF Typed
  <2>3. journal' \in JournalSet \cup {NoJournal} /\ retired' \subseteq JournalSet
    BY <1>1, <2>1 DEF Typed
  <2>4. outbox' \in Seq(EntrySet) /\ tried' \in Seq(KeySet) /\ recorded' \subseteq ReceiptSet
    BY <1>1, <2>1 DEF Typed
  <2>5. ended' \subseteq KeySet /\ left' \subseteq (1 .. Attempts) \X Nat
    BY <1>1, <2>1 DEF Typed
  <2> QED BY <1>1, <2>2, <2>3, <2>4, <2>5 DEF Typed
<1>3. claim \in BOOLEAN /\ (claim' => claim)
  <2>1. claim \in BOOLEAN
    BY DEF IInv, Typed
  <2>2. claim' => claim
    <3>1. CASE claim' = claim
      BY <3>1
    <3>2. CASE claim' = FALSE
      BY <3>2
    <3> QED BY <1>1, <3>1, <3>2
  <2> QED BY <2>1, <2>2
<1>4. (Attempted <=> Attempted') /\ Journals' = Journals /\ Done' = Done /\ Told' = Told
  BY <1>1 DEF Attempted, Journals, Current, Done, Told
<1>5. WellKept'
  BY <1>4 DEF IInv, WellKept
<1>6. Counted'
  BY <1>1, <1>3, <1>4 DEF IInv, Counted
<1>7. Anchored'
  BY <1>1, <1>4 DEF IInv, Anchored, Stands
<1>8. Deferred'
  BY <1>1, <1>3, <1>4 DEF IInv, Deferred
<1>9. \A k : IsPending(k)' <=> IsPending(k)
  BY <1>1 DEF IsPending
<1>10. \A j : Held(j)' <=> Held(j)
  BY <1>1, <1>9 DEF Held
<1>11. Answered'
  <2>1. \A i \in DOMAIN outbox : outbox[i].status # "pending" => KeyOf(outbox[i].facts) \in ended
    BY DEF IInv, Answered
  <2>2. \A j \in retired : Held(j)
    BY DEF IInv, Answered
  <2>3. Attempted /\ (journal.queued \/ pc = "mark") => Held(journal)
    BY DEF IInv, Answered
  <2>4. \A j \in retired' : Held(j)'
    BY <1>1, <1>10, <2>2
  <2>5. (Attempted /\ (journal.queued \/ pc = "mark") => Held(journal))'
    <3> SUFFICES ASSUME Attempted', journal.queued' \/ pc' = "mark"
                 PROVE  Held(journal)'
      OBVIOUS
    <3>1. PICK j : j = journal
      OBVIOUS
    <3>2. Held(j)
      BY <1>1, <1>4, <2>3, <3>1
    <3>3. Held(j)'
      BY <1>10, <3>2
    <3>4. j = journal'
      BY <1>1, <3>1
    <3> QED BY <3>3, <3>4 DEF Held
  <2>6. (\A i \in DOMAIN outbox : outbox[i].status # "pending" => KeyOf(outbox[i].facts) \in ended)'
    BY <1>1, <2>1
  <2> QED BY <2>4, <2>5, <2>6 DEF Answered
<1>12. Truthful'
  BY <1>1, <1>4 DEF IInv, Truthful
<1> QED BY <1>2, <1>5, <1>6, <1>7, <1>8, <1>11, <1>12

(* The parts of the invariant that such a step has to be shown to keep.    *)
LEMMA MovesInv ==
  ASSUME IInv, Moves, Placed', Sends'
  PROVE  IInv'
BY MovesKeep DEF IInv

(* A cycle begins.                                                         *)
LEMMA CycleKeeps == ASSUME IInv, Cycle PROVE IInv'
<1>1. Moves
  BY DEF Cycle, Moves, Goto, files, memory, history, Places
<1>2. /\ journal' = journal /\ claim' = claim /\ retired' = retired /\ outbox' = outbox
      /\ due' = due /\ pc = "idle" /\ pc' = "send"
      /\ then' = IF journal = NoJournal THEN "idle" ELSE "claimed"
      /\ journal # NoJournal => journal.settling
  BY DEF Cycle, Goto, files, history
<1>3. Placed'
  BY <1>2 DEF IInv, Placed, Follows, Attempted
<1>4. Sends'
  BY <1>2 DEF IInv, Sends, KeysIn
<1> QED BY <1>1, <1>3, <1>4, MovesInv

(* Queueing the receipts failed: only the archive waits for it.            *)
LEMMA QueueFailsKeeps == ASSUME IInv, QueueFails PROVE IInv'
<1>1. /\ journal' = journal /\ claim' = claim /\ retired' = retired /\ outbox' = outbox
      /\ due' = due /\ pc \in {"queue", "mark"} /\ then' = "idle"
      /\ pc' = IF then = "archive" THEN "idle" ELSE then
      /\ tried' = tried /\ recorded' = recorded /\ ended' = ended /\ left' = left
  BY DEF QueueFails, Goto, files, history
<1>2. then \in {"idle", "send", "settling", "archive"} /\ (then = "settling" => journal.fs # "open")
  BY <1>1 DEF IInv, Placed, Follows
<1>3. Moves
  BY <1>1, <1>2 DEF Moves, Places
<1>4. Placed'
  BY <1>1, <1>2 DEF IInv, Placed, Follows, Attempted
<1>5. Sends'
  BY <1>1, <1>2 DEF IInv, Sends, KeysIn
<1> QED BY <1>3, <1>4, <1>5, MovesInv

(* The receipts of this cycle are chosen.                                  *)
LEMMA StartFlushKeeps == ASSUME IInv, StartFlush PROVE IInv'
<1>1. /\ journal' = journal /\ claim' = claim /\ retired' = retired /\ outbox' = outbox
      /\ due' = Due /\ pc = "send" /\ then' = then /\ pc' = "sending"
      /\ tried' = tried /\ recorded' = recorded /\ ended' = ended /\ left' = left
  BY DEF StartFlush, Goto, files, history
<1>2. then \in {"idle", "claimed"}
  BY <1>1 DEF IInv, Placed, Follows
<1>3. Moves
  BY <1>1, <1>2 DEF Moves, Places
<1>4. Placed'
  BY <1>1, <1>2 DEF IInv, Placed, Follows, Attempted
<1>5. Due \in Seq(KeysIn(outbox))
  BY DueHolds DEF IInv, Typed
<1>6. Sends'
  BY <1>1, <1>5 DEF Sends, KeysIn
<1> QED BY <1>3, <1>4, <1>6, MovesInv

(* The cycle sends no more.                                                *)
LEMMA EndFlushKeeps == ASSUME IInv, EndFlush PROVE IInv'
<1>1. /\ journal' = journal /\ claim' = claim /\ retired' = retired /\ outbox' = outbox
      /\ due' = <<>> /\ pc \in {"sending", "sent"} /\ then' = "idle" /\ pc' = then
      /\ tried' = tried /\ recorded' = recorded /\ ended' = ended /\ left' = left
  BY DEF EndFlush, Goto, files, history
<1>2. then \in {"idle", "claimed"}
  BY <1>1 DEF IInv, Placed, Follows
<1>3. Moves
  BY <1>1, <1>2 DEF Moves, Places
<1>4. Placed'
  BY <1>1, <1>2 DEF IInv, Placed, Follows, Attempted
<1>5. \A S : <<>> \in Seq(S)
  OBVIOUS
<1>6. Sends'
  BY <1>1, <1>5 DEF Sends
<1> QED BY <1>3, <1>4, <1>6, MovesInv

(* The server did not confirm everything.                                  *)
LEMMA UnsettledKeeps == ASSUME IInv, Unsettled PROVE IInv'
<1>1. /\ journal' = journal /\ claim' = claim /\ retired' = retired /\ outbox' = outbox
      /\ due' = due /\ pc \in {"claimed", "posting", "archive"} /\ then' = "idle" /\ pc' = "idle"
      /\ tried' = tried /\ recorded' = recorded /\ ended' = ended /\ left' = left
  BY DEF Unsettled, Goto, files, history
<1>2. Moves
  BY <1>1 DEF Moves, Places
<1>3. Placed'
  BY <1>1 DEF IInv, Placed, Follows, Attempted
<1>4. Sends'
  BY <1>1 DEF IInv, Sends, KeysIn
<1> QED BY <1>2, <1>3, <1>4, MovesInv

(* The settlement is posted, or the claim is found gone.                   *)
LEMMA PostedKeeps == ASSUME IInv, Posted PROVE IInv'
<1>1. /\ journal' = journal /\ claim' = FALSE /\ retired' = retired /\ outbox' = outbox
      /\ due' = due /\ pc \in {"claimed", "posting"} /\ then' = "archive" /\ pc' = "queue"
      /\ tried' = tried /\ recorded' = recorded /\ ended' = ended /\ left' = left
  BY DEF Posted, Goto, files, history
<1>2. Moves
  BY <1>1 DEF Moves, Places
<1>3. Placed'
  BY <1>1 DEF IInv, Placed, Follows, Attempted
<1>4. Sends'
  BY <1>1 DEF IInv, Sends, KeysIn
<1> QED BY <1>2, <1>3, <1>4, MovesInv

(* The server ends the claim.                                              *)
LEMMA ClaimGoneKeeps == ASSUME IInv, ClaimGone PROVE IInv'
<1>1. /\ journal' = journal /\ claim' = FALSE /\ retired' = retired /\ outbox' = outbox
      /\ due' = due /\ then' = then /\ pc' = pc /\ claim
      /\ tried' = tried /\ recorded' = recorded /\ ended' = ended /\ left' = left
  BY DEF ClaimGone, files, memory, history
<1>2. pc \in Places /\ then \in Places
  BY DEF IInv, Typed
<1>3. Moves
  BY <1>1, <1>2 DEF Moves
<1>4. Placed'
  BY <1>1 DEF IInv, Placed, Follows, Attempted
<1>5. Sends'
  BY <1>1 DEF IInv, Sends, KeysIn
<1> QED BY <1>3, <1>4, <1>5, MovesInv

-----------------------------------------------------------------------------
(* Steps that write the journal                                            *)

(* The journal of an attempt that is not archived is written: its receipts *)
(* keep whatever was queued or recorded, and what it says is still true.   *)
Rewrites ==
  /\ UNCHANGED <<retired, outbox, tried, recorded, ended, claim>>
  /\ pc' \in Places /\ then' \in Places
  /\ Attempted /\ journal.attempt \notin Done
  /\ journal' \in JournalSet /\ InShape(journal')
  /\ journal'.attempt = journal.attempt /\ journal'.stop >= journal.stop
  /\ left' = left \/ left' = left \cup {<<journal.attempt, journal'.stop>>}
  /\ \A r \in Told : Stands(r, journal) => Stands(r, journal')

(* What the journal says after the step.                                   *)
Says ==
  /\ \A i \in DOMAIN journal.receipts :
       journal.receipts[i].state = "cleaned" =>
         <<journal.attempt, journal.receipts[i].stop>> \notin left
  /\ journal.facts = "clean" => <<journal.attempt, journal.stop>> \notin left
  /\ journal.queued \/ pc = "mark" => Held(journal)

(* The invariant says it of the journal.                                   *)
LEMMA JournalSays ==
  ASSUME IInv, Attempted
  PROVE  Says /\ journal \in JournalSet /\ InShape(journal) /\ journal \in Journals
<1>1. journal \in Journals
  BY DEF Journals, Current
<1>2. journal \in JournalSet
  BY DEF IInv, Typed, Attempted
<1>3. InShape(journal)
  BY <1>1 DEF IInv, WellKept
<1>4. Says
  BY <1>1 DEF IInv, Answered, Truthful, Says
<1> QED BY <1>1, <1>2, <1>3, <1>4

(* Such a step keeps what the files say.                                   *)
LEMMA RewritesKeep ==
  ASSUME IInv, Rewrites, Says'
  PROVE  Typed' /\ WellKept' /\ Counted' /\ Anchored' /\ Answered' /\ Truthful'
<1>1. /\ retired' = retired /\ outbox' = outbox /\ tried' = tried /\ recorded' = recorded
      /\ ended' = ended /\ claim' = claim
      /\ pc' \in Places /\ then' \in Places
      /\ journal # NoJournal /\ journal.attempt \notin Done
      /\ journal' \in JournalSet /\ InShape(journal')
      /\ journal'.attempt = journal.attempt /\ journal'.stop >= journal.stop
      /\ left' = left \/ left' = left \cup {<<journal.attempt, journal'.stop>>}
      /\ \A r \in Told : Stands(r, journal) => Stands(r, journal')
  BY DEF Rewrites, Attempted
<1>2. journal \in JournalSet /\ retired \subseteq JournalSet /\ journal' # NoJournal
      /\ journal.stop \in Nat /\ journal'.stop \in Nat /\ journal.attempt \in 1 .. Attempts
  <2>1. journal \in JournalSet /\ retired \subseteq JournalSet
    BY <1>1 DEF IInv, Typed
  <2> QED BY <1>1, <2>1, JournalKinds
<1>3. Attempted /\ Attempted' /\ Done' = Done /\ Told' = Told
      /\ Journals = retired \cup {journal} /\ Journals' = retired \cup {journal'}
  BY <1>1, <1>2 DEF Attempted, Done, Told, Journals, Current
<1>4. Typed'
  <2>1. Typed
    BY DEF IInv
  <2>2. left' \subseteq (1 .. Attempts) \X Nat
    <3>1. left \subseteq (1 .. Attempts) \X Nat
      BY <2>1 DEF Typed
    <3>2. <<journal.attempt, journal'.stop>> \in (1 .. Attempts) \X Nat
      BY <1>2
    <3> QED BY <1>1, <3>1, <3>2
  <2>3. claim' \in BOOLEAN
    BY <1>1, <2>1 DEF Typed
  <2>4. outbox' \in Seq(EntrySet) /\ tried' \in Seq(KeySet) /\ recorded' \subseteq ReceiptSet
    BY <1>1, <2>1 DEF Typed
  <2>5. ended' \subseteq KeySet /\ retired' \subseteq JournalSet
    BY <1>1, <2>1 DEF Typed
  <2> QED BY <1>1, <2>2, <2>3, <2>4, <2>5 DEF Typed
<1>5. WellKept'
  <2>1. \A j \in retired : InShape(j)
    BY <1>3 DEF IInv, WellKept
  <2> QED BY <1>1, <1>3, <2>1 DEF WellKept
<1>6. Counted'
  <2>1. Counted
    BY DEF IInv
  <2>2. \E k \in Nat : Done' = 1 .. k /\ (Attempted' => journal'.attempt \in {k, k + 1})
    <3>1. PICK k \in Nat : Done = 1 .. k /\ (Attempted => journal.attempt \in {k, k + 1})
      BY <2>1 DEF Counted
    <3> QED BY <1>1, <1>3, <3>1
  <2>3. \A j, h \in retired' : j.attempt = h.attempt => j = h
    BY <1>1, <2>1 DEF Counted
  <2>4. journal'.attempt \notin Done'
    BY <1>1, <1>3
  <2>5. \A j \in retired' : j.derived /\ j.facts = "clean" /\ j.queued
    BY <1>1, <2>1 DEF Counted
  <2>6. \A p \in left' : p[1] \in Done' \/ (Attempted' /\ p[1] = journal'.attempt)
    <3> TAKE p \in left'
    <3>1. p \in left \/ p[1] = journal.attempt
      BY <1>1
    <3> QED BY <1>1, <1>3, <2>1, <3>1 DEF Counted
  <2>7. \A p \in left' : p[1] = journal'.attempt => p[2] <= journal'.stop
    <3> SUFFICES ASSUME NEW p \in left', p[1] = journal'.attempt
                 PROVE  p[2] <= journal'.stop
      OBVIOUS
    <3>1. CASE p \in left
      <4>1. p[2] <= journal.stop
        BY <1>1, <1>3, <2>1, <3>1 DEF Counted
      <4>2. p[2] \in Nat
        BY <3>1 DEF IInv, Typed
      <4> QED BY <1>1, <1>2, <4>1, <4>2
    <3>2. CASE p = <<journal.attempt, journal'.stop>>
      BY <1>2, <3>2
    <3> QED BY <1>1, <3>1, <3>2
  <2> QED BY <2>2, <2>3, <2>4, <2>5, <2>6, <2>7 DEF Counted
<1>7. Anchored'
  <2> SUFFICES ASSUME NEW r \in Told
               PROVE  \E j \in Journals' : Stands(r, j)
    BY <1>3 DEF Anchored, Stands
  <2>1. PICK j \in Journals : Stands(r, j)
    BY DEF IInv, Anchored
  <2>2. j \in retired \/ j = journal
    BY <1>3
  <2> QED BY <1>1, <1>3, <2>1, <2>2
<1>8. \A k : IsPending(k)' <=> IsPending(k)
  BY <1>1 DEF IsPending
<1>9. \A j : Held(j)' <=> Held(j)
  BY <1>1, <1>8 DEF Held
<1>10. Answered'
  <2>1. Answered
    BY DEF IInv
  <2>2. \A j \in retired' : Held(j)'
    BY <1>1, <1>9, <2>1 DEF Answered
  <2>3. (\A i \in DOMAIN outbox : outbox[i].status # "pending" => KeyOf(outbox[i].facts) \in ended)'
    BY <1>1, <2>1 DEF Answered
  <2> QED BY <2>2, <2>3 DEF Answered, Says
<1>11. Truthful'
  <2>1. \A j \in retired : \A i \in DOMAIN j.receipts :
          j.receipts[i].state = "cleaned" => <<j.attempt, j.receipts[i].stop>> \notin left'
    <3> SUFFICES ASSUME NEW j \in retired, NEW i \in DOMAIN j.receipts,
                        j.receipts[i].state = "cleaned"
                 PROVE  <<j.attempt, j.receipts[i].stop>> \notin left'
      OBVIOUS
    <3>1. <<j.attempt, j.receipts[i].stop>> \notin left
      BY <1>3 DEF IInv, Truthful
    <3>2. j.attempt # journal.attempt
      BY <1>1 DEF Done
    <3> QED BY <1>1, <3>1, <3>2
  <2> QED BY <1>3, <2>1 DEF Truthful, Says
<1> QED BY <1>4, <1>5, <1>6, <1>7, <1>10, <1>11

(* The parts of the invariant that such a step has to be shown to keep.    *)
LEMMA RewritesInv ==
  ASSUME IInv, Rewrites, Says', Placed', Sends', Deferred'
  PROVE  IInv'
BY RewritesKeep DEF IInv

(* An attempt that is archived is settled and has nothing left to queue.   *)
LEMMA NotDone ==
  ASSUME IInv, Attempted, ~journal.settling \/ claim \/ ~journal.queued \/ ~journal.derived
  PROVE  journal.attempt \notin Done
<1>1. journal.attempt \in Done => journal \in retired /\ journal.settling /\ ~claim
  BY DEF IInv, Counted
<1>2. journal \in retired => journal.derived /\ journal.queued
  BY DEF IInv, Counted
<1> QED BY <1>1, <1>2

(* Receipts that keep their keys and stops stand for what they stood for.  *)
LEMMA StandsOn ==
  ASSUME NEW j, NEW q,
         \A i \in DOMAIN j.receipts :
           /\ i \in DOMAIN q.receipts /\ KeyOf(q.receipts[i]) = KeyOf(j.receipts[i])
           /\ q.receipts[i].stop = j.receipts[i].stop
  PROVE  \A r : Stands(r, j) => Stands(r, q)
BY DEF Stands

(* What was told of an attempt that runs is in its journal, and no later   *)
(* than its last stop.                                                     *)
LEMMA ToldStops ==
  ASSUME IInv, Attempted, journal.attempt \notin Done, NEW r \in Told, r.attempt = journal.attempt
  PROVE  Stands(r, journal) /\ r.stop \in Nat /\ r.stop <= journal.stop
<1>1. PICK j \in Journals : Stands(r, j)
  BY DEF IInv, Anchored
<1>2. PICK i \in DOMAIN j.receipts : KeyOf(j.receipts[i]) = KeyOf(r) /\ j.receipts[i].stop = r.stop
  BY <1>1 DEF Stands
<1>3. InShape(j) /\ j \in JournalSet
  <2>1. InShape(j)
    BY DEF IInv, WellKept
  <2> QED BY <2>1 DEF IInv, Typed, Journals, Current, Attempted
<1>4. j.receipts[i].attempt = j.attempt
  BY <1>3 DEF InShape, Numbered
<1>5. j.attempt = journal.attempt
  BY <1>2, <1>4 DEF KeyOf
<1>6. j = journal
  <2>1. j \in retired \/ j = journal
    BY DEF Journals, Current
  <2> QED BY <1>5, <2>1 DEF Done
<1>7. j.receipts \in Seq(ReceiptSet) /\ j.stop \in Nat
  BY <1>3, JournalKinds
<1>8. j.receipts[i].stop \in Nat
  BY <1>7, SequenceFacts, ReceiptKinds
<1>9. j.receipts[i].stop < j.stop \/ j.receipts[i].stop = j.stop
  BY <1>3 DEF InShape
<1> QED BY <1>1, <1>2, <1>6, <1>7, <1>8, <1>9

(* Stops that left something held are no later than the journal's.         *)
LEMMA LeftBefore ==
  ASSUME IInv, Attempted, NEW s \in Nat, s > journal.stop
  PROVE  <<journal.attempt, s>> \notin left
<1>1. \A p \in left : p[1] = journal.attempt => p[2] <= journal.stop
  BY DEF IInv, Counted
<1>2. journal.stop \in Nat
  BY JournalSays, JournalKinds
<1>3. <<journal.attempt, s>>[1] = journal.attempt /\ <<journal.attempt, s>>[2] = s
  OBVIOUS
<1> QED BY <1>1, <1>2, <1>3

(* A stop is settled.                                                      *)
LEMMA SettleKeeps ==
  ASSUME IInv, NEW o \in Outcomes, NEW derived \in BOOLEAN, Settle(o, derived)
  PROVE  IInv'
<1>1. PICK q : q = Stopped(o, derived)
  OBVIOUS
<1>2. /\ pc = "idle" /\ journal # NoJournal /\ ~journal.settling
      /\ ~derived => journal.attached
      /\ journal' = q
      /\ \/ pc' = "settling" /\ then' = "idle" /\ o = "clean"
         \/ pc' = "queue" /\ then' = "settling" /\ o = "clean" /\ journal.fs # "open"
         \/ pc' = "queue" /\ then' = "send" /\ o # "clean"
      /\ left' = IF o = "clean" THEN left ELSE left \cup {<<journal.attempt, journal.stop + 1>>}
      /\ retired' = retired /\ outbox' = outbox /\ tried' = tried /\ due' = due
      /\ recorded' = recorded /\ claim' = claim /\ ended' = ended
  BY <1>1 DEF Settle, Goto, Retained
<1>3. /\ Says /\ journal \in JournalSet /\ InShape(journal) /\ Attempted /\ journal.stop \in Nat
      /\ journal.receipts \in Seq(ReceiptSet)
  BY <1>2, JournalSays, JournalKinds DEF Attempted
<1>4. /\ q \in JournalSet /\ InShape(q)
      /\ q.attempt = journal.attempt /\ q.fs = journal.fs /\ q.stop = journal.stop + 1
      /\ q.facts = o /\ q.settling = journal.settling /\ q.derived = derived
      /\ q.attached = journal.attached
      /\ \A i \in DOMAIN journal.receipts :
           i \in DOMAIN q.receipts /\ q.receipts[i] = journal.receipts[i]
      /\ \A i \in DOMAIN q.receipts : i \notin DOMAIN journal.receipts =>
           q.receipts[i].stop = q.stop /\ (q.receipts[i].state = "cleaned" => o = "clean")
      /\ q.queued => journal.queued /\ q.receipts = journal.receipts
      /\ q.attached => ~q.queued
  BY <1>1, <1>2, <1>3, StoppedShape
<1>5. journal.attempt \notin Done
  BY <1>2, <1>3, NotDone
<1>6. \A r : Stands(r, journal) => Stands(r, q)
  BY <1>4, StandsOn
<1>7. Rewrites
  BY <1>2, <1>3, <1>4, <1>5, <1>6 DEF Rewrites, Places
<1>8. <<journal.attempt, journal.stop + 1>> \notin left
  BY <1>3, LeftBefore
<1>9. \A i \in DOMAIN q.receipts :
        q.receipts[i].state = "cleaned" => <<journal.attempt, q.receipts[i].stop>> \notin left'
  <2> SUFFICES ASSUME NEW i \in DOMAIN q.receipts, q.receipts[i].state = "cleaned"
               PROVE  <<journal.attempt, q.receipts[i].stop>> \notin left'
    OBVIOUS
  <2>1. CASE i \in DOMAIN journal.receipts
    <3>1. q.receipts[i] = journal.receipts[i]
      BY <1>4, <2>1
    <3>2. <<journal.attempt, q.receipts[i].stop>> \notin left
      BY <1>3, <2>1, <3>1 DEF Says
    <3>3. q.receipts[i].stop \in Nat /\ q.receipts[i].stop <= journal.stop
      <4>1. q.receipts[i].stop \in Nat
        BY <1>3, <2>1, <3>1, SequenceFacts, ReceiptKinds
      <4>2. q.receipts[i].stop < journal.stop \/ q.receipts[i].stop = journal.stop
        BY <1>3, <2>1, <3>1 DEF InShape
      <4> QED BY <1>3, <4>1, <4>2
    <3>4. q.receipts[i].stop # journal.stop + 1
      BY <1>3, <3>3
    <3> QED BY <1>2, <3>2, <3>4
  <2>2. CASE i \notin DOMAIN journal.receipts
    BY <1>2, <1>4, <1>8, <2>2
  <2> QED BY <2>1, <2>2
<1>10. Held(journal)' <=> Held(q)
  BY <1>2 DEF Held, IsPending
<1>11. journal.receipts = q.receipts => (Held(journal) <=> Held(q))
  BY DEF Held
<1>12. Says'
  BY <1>2, <1>3, <1>4, <1>8, <1>9, <1>10, <1>11 DEF Says
<1>13. Placed'
  <2>1. q # NoJournal
    BY <1>4, JournalKinds
  <2> QED BY <1>2, <1>3, <1>4, <2>1 DEF IInv, Placed, Follows, Attempted
<1>14. Sends'
  BY <1>2 DEF IInv, Sends, KeysIn
<1>15. Deferred'
  <2>1. Told' = Told
    BY <1>2 DEF Told
  <2>2. \A r \in Told : r.attempt = journal.attempt => r.stop < journal.stop + 1
    <3> SUFFICES ASSUME NEW r \in Told, r.attempt = journal.attempt
                 PROVE  r.stop < journal.stop + 1
      OBVIOUS
    <3>1. r.stop \in Nat /\ r.stop <= journal.stop
      BY <1>3, <1>5, ToldStops
    <3> QED BY <1>3, <3>1
  <2>3. q.fs = "open" => ~q.queued
    BY <1>4 DEF InShape
  <2> QED BY <1>2, <1>4, <2>1, <2>2, <2>3 DEF Deferred
<1> QED BY <1>7, <1>12, <1>13, <1>14, <1>15, RewritesInv

(* Receipts that could not be worked out before are worked out.            *)
LEMMA DeriveKeeps == ASSUME IInv, Derive PROVE IInv'
<1>1. PICK q : q = NowDerived(journal)
  OBVIOUS
<1>2. /\ pc = "queue" /\ pc' = "queue" /\ then' = then /\ ~journal.derived /\ journal' = q
      /\ left' = left /\ retired' = retired /\ outbox' = outbox /\ tried' = tried /\ due' = due
      /\ recorded' = recorded /\ claim' = claim /\ ended' = ended
  BY <1>1 DEF Derive, memory, history, NowDerived
<1>3. Attempted
  BY <1>2 DEF IInv, Placed
<1>4. Says /\ journal \in JournalSet /\ InShape(journal) /\ journal.stop \in Nat /\ journal # NoJournal
  BY <1>3, JournalSays, JournalKinds
<1>5. /\ q \in JournalSet /\ InShape(q)
      /\ q.attempt = journal.attempt /\ q.fs = journal.fs /\ q.stop = journal.stop
      /\ q.facts = journal.facts /\ q.settling = journal.settling /\ ~q.queued /\ q.derived
      /\ \A i \in DOMAIN journal.receipts :
           i \in DOMAIN q.receipts /\ q.receipts[i] = journal.receipts[i]
      /\ \A i \in DOMAIN q.receipts : i \notin DOMAIN journal.receipts =>
           q.receipts[i].stop = q.stop /\ (q.receipts[i].state = "cleaned" => q.facts = "clean")
  BY <1>1, <1>2, <1>4, DerivedShape
<1>6. journal.attempt \notin Done
  BY <1>2, <1>3, NotDone
<1>7. \A r : Stands(r, journal) => Stands(r, q)
  BY <1>5, StandsOn
<1>8. Rewrites
  <2>1. then \in Places
    BY DEF IInv, Typed
  <2> QED BY <1>2, <1>3, <1>4, <1>5, <1>6, <1>7, <2>1 DEF Rewrites, Places
<1>9. \A i \in DOMAIN q.receipts :
        q.receipts[i].state = "cleaned" => <<journal.attempt, q.receipts[i].stop>> \notin left
  BY <1>4, <1>5 DEF Says
<1>10. Says'
  BY <1>2, <1>4, <1>5, <1>9 DEF Says
<1>11. q # NoJournal
  BY <1>5, JournalKinds
<1>12. Placed'
  BY <1>2, <1>4, <1>5, <1>11 DEF IInv, Placed, Follows, Attempted
<1>13. Sends'
  BY <1>2 DEF IInv, Sends, KeysIn
<1>14. Deferred'
  <2>1. ~(journal.settling /\ claim)
    BY <1>2, <1>3 DEF IInv, Placed
  <2> QED BY <1>2, <1>5, <2>1 DEF Deferred
<1> QED BY <1>8, <1>10, <1>12, <1>13, <1>14, RewritesInv

(* The receipts are marked as queued.                                      *)
LEMMA MarkKeeps == ASSUME IInv, Mark PROVE IInv'
<1>1. PICK q : q = NowQueued(journal)
  OBVIOUS
<1>2. /\ pc = "mark" \/ (pc = "queue" /\ journal.derived /\ (journal.queued \/ journal.receipts = <<>>))
      /\ pc' = then /\ then' = "idle"
      /\ journal.queued => journal' = journal
      /\ ~journal.queued => journal' = q
      /\ left' = left /\ retired' = retired /\ outbox' = outbox /\ tried' = tried /\ due' = due
      /\ recorded' = recorded /\ claim' = claim /\ ended' = ended
  BY <1>1 DEF Mark, Goto, history, NowQueued
<1>3. Attempted /\ then \in {"idle", "send", "settling", "archive"} /\ journal.derived
      /\ (then = "settling" => journal.fs # "open") /\ (journal.settling => ~claim)
  BY <1>2 DEF IInv, Placed, Follows
<1>4. Says /\ journal \in JournalSet /\ InShape(journal) /\ journal # NoJournal
  BY <1>3, JournalSays, JournalKinds
<1>5. Sends'
  BY <1>2, <1>3 DEF IInv, Sends, KeysIn
<1>6. CASE journal.queued
  <2>1. journal' = journal
    BY <1>2, <1>6
  <2>2. Moves
    BY <1>2, <1>3, <2>1 DEF Moves, Places
  <2>3. Placed'
    BY <1>2, <1>3, <1>6, <2>1 DEF IInv, Placed, Follows, Attempted
  <2> QED BY <1>5, <2>2, <2>3, MovesInv
<1>7. CASE ~journal.queued
  <2>1. journal' = q
    BY <1>2, <1>7
  <2>2. /\ q \in JournalSet /\ InShape(q)
        /\ q.attempt = journal.attempt /\ q.attached = journal.attached /\ q.fs = journal.fs
        /\ q.facts = journal.facts /\ q.stop = journal.stop /\ q.queued /\ q.derived
        /\ q.settling = journal.settling /\ DOMAIN q.receipts = DOMAIN journal.receipts
        /\ \A i \in DOMAIN journal.receipts :
             /\ KeyOf(q.receipts[i]) = KeyOf(journal.receipts[i])
             /\ q.receipts[i].stop = journal.receipts[i].stop
             /\ q.receipts[i].state = journal.receipts[i].state
    BY <1>1, <1>3, <1>4, <1>7, MarkedShape
  <2>3. journal.attempt \notin Done
    BY <1>3, <1>7, NotDone
  <2>4. \A r : Stands(r, journal) => Stands(r, q)
    BY <2>2, StandsOn
  <2>5. Rewrites
    <3>1. q.stop >= journal.stop
      BY <1>4, <2>2, JournalKinds
    <3> QED BY <1>2, <1>3, <2>1, <2>2, <2>3, <2>4, <3>1 DEF Rewrites, Places
  <2>6. Held(q)
    <3>1. CASE pc = "mark"
      BY <1>4, <2>2, <3>1 DEF Says, Held
    <3>2. CASE pc = "queue"
      <4>1. DOMAIN q.receipts = {}
        BY <1>2, <1>7, <2>2, <3>2
      <4> QED BY <4>1 DEF Held
    <3> QED BY <1>2, <3>1, <3>2
  <2>7. Held(q) => Held(journal)'
    BY <1>2, <2>1 DEF Held, IsPending
  <2>8. Says'
    BY <1>2, <1>4, <2>1, <2>2, <2>6, <2>7 DEF Says
  <2>9. q # NoJournal
    BY <2>2, JournalKinds
  <2>10. Placed'
    BY <1>2, <1>3, <1>4, <2>1, <2>2, <2>9 DEF IInv, Placed, Follows, Attempted
  <2>11. Deferred'
    BY <1>2, <1>3, <2>1, <2>2 DEF Deferred, Attempted
  <2> QED BY <1>5, <2>5, <2>8, <2>10, <2>11, RewritesInv
<1> QED BY <1>6, <1>7

(* Nothing is held: the journal becomes a settlement.                      *)
LEMMA SettlingKeeps == ASSUME IInv, Settling PROVE IInv'
<1>1. PICK q : q = [journal EXCEPT !.settling = TRUE]
  OBVIOUS
<1>2. /\ pc = "settling" /\ pc' = "send" /\ then' = "claimed" /\ journal' = q
      /\ left' = left /\ retired' = retired /\ outbox' = outbox /\ tried' = tried /\ due' = due
      /\ recorded' = recorded /\ claim' = claim /\ ended' = ended
  BY <1>1 DEF Settling, Goto, history
<1>3. Attempted /\ journal.facts = "clean" /\ ~journal.settling
  BY <1>2 DEF IInv, Placed
<1>4. Says /\ journal \in JournalSet /\ InShape(journal) /\ journal # NoJournal /\ journal.stop \in Nat
  BY <1>3, JournalSays, JournalKinds
<1>5. /\ q \in JournalSet /\ q.attempt = journal.attempt /\ q.attached = journal.attached
      /\ q.fs = journal.fs /\ q.facts = journal.facts /\ q.stop = journal.stop
      /\ q.receipts = journal.receipts /\ q.queued = journal.queued /\ q.derived = journal.derived
      /\ q.carried = journal.carried /\ q.settling = TRUE
  BY <1>1, <1>4 DEF JournalSet
<1>6. InShape(q)
  <2>1. journal.attached \/ q.fs # "open"
    BY <1>4, <1>5 DEF InShape
  <2> QED BY <1>4, <1>5, <2>1, SameShape
<1>7. journal.attempt \notin Done
  BY <1>3, NotDone
<1>8. \A r : Stands(r, journal) => Stands(r, q)
  BY <1>5 DEF Stands
<1>9. Rewrites
  BY <1>2, <1>3, <1>4, <1>5, <1>6, <1>7, <1>8 DEF Rewrites, Places
<1>10. Held(journal) => Held(journal)'
  BY <1>2, <1>5 DEF Held, IsPending
<1>11. Says'
  BY <1>2, <1>4, <1>5, <1>10 DEF Says
<1>12. q # NoJournal
  BY <1>5, JournalKinds
<1>13. Placed'
  BY <1>2, <1>3, <1>5, <1>12 DEF IInv, Placed, Follows, Attempted
<1>14. Sends'
  BY <1>2 DEF IInv, Sends, KeysIn
<1>15. Deferred'
  <2>1. Told' = Told
    BY <1>2 DEF Told
  <2> QED BY <1>2, <1>5, <2>1 DEF IInv, Deferred
<1> QED BY <1>9, <1>11, <1>13, <1>14, <1>15, RewritesInv

(* The filesystem is released, or stays.                                   *)
LEMMA ReleaseKeeps ==
  ASSUME IInv, NEW fs \in {"open", "released"}, Release(fs)
  PROVE  IInv'
<1>1. PICK q : q = [journal EXCEPT !.fs = fs]
  OBVIOUS
<1>2. /\ pc = "claimed" /\ pc' = "posting" /\ then' = "idle" /\ journal' = q
      /\ claim /\ journal.fs = "open"
      /\ left' = left /\ retired' = retired /\ outbox' = outbox /\ tried' = tried /\ due' = due
      /\ recorded' = recorded /\ claim' = claim /\ ended' = ended
  BY <1>1 DEF Release, Goto, history
<1>3. Attempted /\ journal.facts = "clean" /\ journal.settling
  BY <1>2 DEF IInv, Placed
<1>4. Says /\ journal \in JournalSet /\ InShape(journal) /\ journal # NoJournal /\ journal.stop \in Nat
  BY <1>3, JournalSays, JournalKinds
<1>5. /\ q \in JournalSet /\ q.attempt = journal.attempt /\ q.attached = journal.attached
      /\ q.fs = fs /\ q.facts = journal.facts /\ q.stop = journal.stop
      /\ q.receipts = journal.receipts /\ q.queued = journal.queued /\ q.derived = journal.derived
      /\ q.carried = journal.carried /\ q.settling = journal.settling
  BY <1>1, <1>4 DEF JournalSet
<1>6. InShape(q)
  <2>1. journal.attached
    BY <1>2, <1>4 DEF InShape
  <2> QED BY <1>4, <1>5, <2>1, SameShape
<1>7. journal.attempt \notin Done
  BY <1>2, <1>3, NotDone
<1>8. \A r : Stands(r, journal) => Stands(r, q)
  BY <1>5 DEF Stands
<1>9. Rewrites
  BY <1>2, <1>3, <1>4, <1>5, <1>6, <1>7, <1>8 DEF Rewrites, Places
<1>10. Held(journal) => Held(journal)'
  BY <1>2, <1>5 DEF Held, IsPending
<1>11. Says'
  BY <1>2, <1>4, <1>5, <1>10 DEF Says
<1>12. q # NoJournal
  BY <1>5, JournalKinds
<1>13. Placed'
  BY <1>2, <1>3, <1>5, <1>12 DEF IInv, Placed, Follows, Attempted
<1>14. Sends'
  BY <1>2 DEF IInv, Sends, KeysIn
<1>15. Deferred'
  <2>1. Told' = Told
    BY <1>2 DEF Told
  <2> QED BY <1>2, <1>3, <1>5, <2>1 DEF IInv, Deferred
<1> QED BY <1>9, <1>11, <1>13, <1>14, <1>15, RewritesInv

(* The filesystem is released before the settlement is posted.             *)
LEMMA ReleaseAtStopKeeps == ASSUME IInv, ReleaseAtStop PROVE IInv'
<1>1. PICK q : q = [journal EXCEPT !.fs = "released"]
  OBVIOUS
<1>2. /\ pc = "settling" /\ pc' = pc /\ then' = then /\ journal' = q /\ journal.fs = "open"
      /\ left' = left /\ retired' = retired /\ outbox' = outbox /\ tried' = tried /\ due' = due
      /\ recorded' = recorded /\ claim' = claim /\ ended' = ended
  BY <1>1 DEF ReleaseAtStop, memory, history
<1>3. Attempted /\ journal.facts = "clean" /\ ~journal.settling /\ then = "idle"
  BY <1>2 DEF IInv, Placed, Follows
<1>4. Says /\ journal \in JournalSet /\ InShape(journal) /\ journal # NoJournal /\ journal.stop \in Nat
  BY <1>3, JournalSays, JournalKinds
<1>5. /\ q \in JournalSet /\ q.attempt = journal.attempt /\ q.attached = journal.attached
      /\ q.fs = "released" /\ q.facts = journal.facts /\ q.stop = journal.stop
      /\ q.receipts = journal.receipts /\ q.queued = journal.queued /\ q.derived = journal.derived
      /\ q.carried = journal.carried /\ q.settling = journal.settling
  BY <1>1, <1>4 DEF JournalSet
<1>6. InShape(q)
  <2>1. journal.attached
    BY <1>2, <1>4 DEF InShape
  <2> QED BY <1>4, <1>5, <2>1, SameShape
<1>7. journal.attempt \notin Done
  BY <1>3, NotDone
<1>8. \A r : Stands(r, journal) => Stands(r, q)
  BY <1>5 DEF Stands
<1>9. Rewrites
  BY <1>2, <1>3, <1>4, <1>5, <1>6, <1>7, <1>8 DEF Rewrites, Places
<1>10. Held(journal) => Held(journal)'
  BY <1>2, <1>5 DEF Held, IsPending
<1>11. Says'
  BY <1>2, <1>4, <1>5, <1>10 DEF Says
<1>12. q # NoJournal
  BY <1>5, JournalKinds
<1>13. Placed'
  BY <1>2, <1>3, <1>5, <1>12 DEF IInv, Placed, Follows, Attempted
<1>14. Sends'
  BY <1>2 DEF IInv, Sends, KeysIn
<1>15. Deferred'
  BY <1>2, <1>5 DEF Deferred
<1> QED BY <1>9, <1>11, <1>13, <1>14, <1>15, RewritesInv

(* Something is held: the receipts of the stop are worked out anew, and    *)
(* none of them was queued.                                                *)
LEMMA HoldKeeps ==
  ASSUME IInv, NEW fs \in {"open", "released"}, Hold(fs), journal.fs = "open",
         pc = "settling" \/ (pc = "claimed" /\ claim)
  PROVE  IInv'
<1>1. PICK h : h = NowHeld(journal)
  OBVIOUS
<1>q. PICK q : q = [h EXCEPT !.fs = fs]
  OBVIOUS
<1>2. /\ pc' = "queue" /\ then' = "idle" /\ journal' = q
      /\ left' = left \cup {<<journal.attempt, journal.stop>>}
      /\ retired' = retired /\ outbox' = outbox /\ tried' = tried /\ due' = due
      /\ recorded' = recorded /\ claim' = claim /\ ended' = ended
  BY <1>1, <1>q DEF Hold, Goto
<1>3. Attempted /\ journal.facts = "clean" /\ (pc = "claimed" => journal.settling)
      /\ (pc = "settling" => ~journal.settling)
  BY DEF IInv, Placed
<1>4. Says /\ journal \in JournalSet /\ InShape(journal) /\ journal # NoJournal /\ journal.stop \in Nat
  BY <1>3, JournalSays, JournalKinds
<1>5. ~journal.queued /\ \A r \in Told : r.attempt = journal.attempt => r.stop < journal.stop
  BY <1>3 DEF IInv, Deferred
<1>6. journal.attached
  BY <1>4 DEF InShape
<1>h. /\ h \in JournalSet /\ InShape(h)
      /\ h.attempt = journal.attempt /\ h.fs = journal.fs /\ h.stop = journal.stop
      /\ h.facts = "held" /\ ~h.settling /\ ~h.queued /\ h.derived
      /\ \A i \in DOMAIN journal.receipts : journal.receipts[i].stop < journal.stop =>
           i \in DOMAIN h.receipts /\ h.receipts[i] = journal.receipts[i]
      /\ \A i \in DOMAIN h.receipts :
           \/ /\ i \in DOMAIN journal.receipts /\ h.receipts[i] = journal.receipts[i]
              /\ h.receipts[i].stop < h.stop
           \/ h.receipts[i].state # "cleaned"
  BY <1>1, <1>4, <1>5, <1>6, RederivedShape
<1>s. /\ q \in JournalSet /\ q.attempt = h.attempt /\ q.attached = h.attached
      /\ q.fs = fs /\ q.facts = h.facts /\ q.stop = h.stop
      /\ q.receipts = h.receipts /\ q.queued = h.queued /\ q.derived = h.derived
      /\ q.carried = h.carried /\ q.settling = h.settling
  BY <1>q, <1>h DEF JournalSet
<1>t. InShape(q)
  <2>1. h.attached
    BY <1>h DEF InShape
  <2> QED BY <1>h, <1>s, <2>1, SameShape
<1>7. /\ q \in JournalSet /\ InShape(q)
      /\ q.attempt = journal.attempt /\ q.stop = journal.stop
      /\ q.facts = "held" /\ ~q.settling /\ ~q.queued /\ q.derived
      /\ \A i \in DOMAIN journal.receipts : journal.receipts[i].stop < journal.stop =>
           i \in DOMAIN q.receipts /\ q.receipts[i] = journal.receipts[i]
      /\ \A i \in DOMAIN q.receipts :
           \/ /\ i \in DOMAIN journal.receipts /\ q.receipts[i] = journal.receipts[i]
              /\ q.receipts[i].stop < q.stop
           \/ q.receipts[i].state # "cleaned"
  BY <1>h, <1>s, <1>t
<1>8. journal.attempt \notin Done
  BY <1>3, NotDone
<1>9. \A r \in Told : Stands(r, journal) => Stands(r, q)
  <2> SUFFICES ASSUME NEW r \in Told, Stands(r, journal)
               PROVE  Stands(r, q)
    OBVIOUS
  <2>1. PICK i \in DOMAIN journal.receipts :
          KeyOf(journal.receipts[i]) = KeyOf(r) /\ journal.receipts[i].stop = r.stop
    BY DEF Stands
  <2>2. journal.receipts[i].attempt = journal.attempt
    BY <1>4 DEF InShape, Numbered
  <2>3. r.attempt = journal.attempt
    BY <2>1, <2>2 DEF KeyOf
  <2>4. i \in DOMAIN q.receipts /\ q.receipts[i] = journal.receipts[i]
    BY <1>5, <1>7, <2>1, <2>3
  <2> QED BY <2>1, <2>4 DEF Stands
<1>10. Rewrites
  BY <1>2, <1>3, <1>4, <1>7, <1>8, <1>9 DEF Rewrites, Places
<1>11. \A i \in DOMAIN q.receipts :
         q.receipts[i].state = "cleaned" => <<journal.attempt, q.receipts[i].stop>> \notin left'
  <2> SUFFICES ASSUME NEW i \in DOMAIN q.receipts, q.receipts[i].state = "cleaned"
               PROVE  <<journal.attempt, q.receipts[i].stop>> \notin left'
    OBVIOUS
  <2>1. i \in DOMAIN journal.receipts /\ q.receipts[i] = journal.receipts[i]
        /\ q.receipts[i].stop < journal.stop
    BY <1>7
  <2>2. <<journal.attempt, q.receipts[i].stop>> \notin left
    BY <1>4, <2>1 DEF Says
  <2>3. q.receipts[i].stop # journal.stop
    <3>1. q.receipts \in Seq(ReceiptSet)
      BY <1>7, JournalKinds
    <3>2. q.receipts[i].stop \in Nat
      BY <3>1, SequenceFacts, ReceiptKinds
    <3> QED BY <1>4, <2>1, <3>2
  <2> QED BY <1>2, <2>2, <2>3
<1>12. Says'
  BY <1>2, <1>7, <1>11 DEF Says
<1>13. q # NoJournal
  BY <1>7, JournalKinds
<1>14. Placed'
  BY <1>2, <1>7, <1>13 DEF Placed, Follows, Attempted
<1>15. Sends'
  BY <1>2 DEF IInv, Sends, KeysIn
<1>16. Deferred'
  BY <1>2, <1>7 DEF Deferred
<1> QED BY <1>10, <1>12, <1>14, <1>15, <1>16, RewritesInv

(* Before the settlement, or at the release of a recovered one.            *)
LEMMA HeldKeeps == ASSUME IInv, HeldAtStop \/ ReleaseHeld PROVE IInv'
<1>1. CASE HeldAtStop
  <2>1. PICK fs \in {"open", "released"} : Hold(fs)
    BY <1>1 DEF HeldAtStop
  <2> QED BY <1>1, <2>1, HoldKeeps DEF HeldAtStop
<1>2. CASE ReleaseHeld
  BY <1>2, HoldKeeps DEF ReleaseHeld
<1> QED BY <1>1, <1>2

-----------------------------------------------------------------------------
(* Steps that write the outbox or the server's receipts                    *)

(* The outbox, the server's receipts and the keys that were ended change:  *)
(* what is told stands for a receipt of a journal, an entry is no longer   *)
(* pending only once its key is ended, and nothing pending is dropped.     *)
Boxes ==
  /\ UNCHANGED <<journal, retired, claim, left>>
  /\ pc' \in Places /\ then' \in Places
  /\ outbox' \in Seq(EntrySet) /\ tried' \in Seq(KeySet) /\ recorded' \subseteq ReceiptSet
  /\ ended \subseteq ended' /\ ended' \subseteq KeySet
  /\ \A r \in Told' : \E j \in Journals : Stands(r, j)
  /\ \A i \in DOMAIN outbox' : outbox'[i].status # "pending" => KeyOf(outbox'[i].facts) \in ended'
  /\ \A k : IsPending(k) => IsPending(k)' \/ k \in ended'

(* Such a step keeps what the files say.                                   *)
LEMMA BoxesInv ==
  ASSUME IInv, Boxes, Placed', Sends', Deferred', pc' = "mark" => pc = "mark" \/ Held(journal)'
  PROVE  IInv'
<1>1. /\ journal' = journal /\ retired' = retired /\ claim' = claim /\ left' = left
      /\ pc' \in Places /\ then' \in Places
      /\ outbox' \in Seq(EntrySet) /\ tried' \in Seq(KeySet) /\ recorded' \subseteq ReceiptSet
      /\ ended \subseteq ended' /\ ended' \subseteq KeySet
      /\ \A r \in Told' : \E j \in Journals : Stands(r, j)
      /\ \A i \in DOMAIN outbox' : outbox'[i].status # "pending" => KeyOf(outbox'[i].facts) \in ended'
      /\ \A k : IsPending(k) => IsPending(k)' \/ k \in ended'
  BY DEF Boxes
<1>2. (Attempted <=> Attempted') /\ Journals' = Journals /\ Done' = Done
  BY <1>1 DEF Attempted, Journals, Current, Done
<1>3. Typed'
  <2>1. Typed
    BY DEF IInv
  <2>2. journal' \in JournalSet \cup {NoJournal} /\ retired' \subseteq JournalSet
    BY <1>1, <2>1 DEF Typed
  <2>3. claim' \in BOOLEAN /\ left' \subseteq (1 .. Attempts) \X Nat
    BY <1>1, <2>1 DEF Typed
  <2> QED BY <1>1, <2>2, <2>3 DEF Typed
<1>4. WellKept'
  BY <1>2 DEF IInv, WellKept
<1>5. Counted'
  BY <1>1, <1>2 DEF IInv, Counted
<1>6. Anchored'
  BY <1>1, <1>2 DEF Anchored, Stands
<1>7. \A j : Held(j) => Held(j)'
  BY <1>1 DEF Held
<1>8. Answered'
  <2>1. Answered
    BY DEF IInv
  <2>2. \A j \in retired' : Held(j)'
    BY <1>1, <1>7, <2>1 DEF Answered
  <2>3. Held(journal) => Held(journal)'
    <3>1. PICK j : j = journal
      OBVIOUS
    <3>2. Held(j) => Held(j)'
      BY <1>7
    <3>3. j = journal'
      BY <1>1, <3>1
    <3> QED BY <3>1, <3>2, <3>3 DEF Held
  <2>4. (Attempted /\ (journal.queued \/ pc = "mark") => Held(journal))'
    BY <1>1, <1>2, <2>1, <2>3 DEF Answered
  <2> QED BY <1>1, <2>2, <2>4 DEF Answered
<1>9. Truthful'
  BY <1>1, <1>2 DEF IInv, Truthful
<1> QED BY <1>3, <1>4, <1>5, <1>6, <1>8, <1>9 DEF IInv

(* The receipts of the journal are queued.                                 *)
LEMMA EnqueueKeeps == ASSUME IInv, Enqueue PROVE IInv'
<1>1. PICK w : w = WithRetention(journal)
  OBVIOUS
<1>2. PICK q : q = Queued(w)
  OBVIOUS
<1>3. /\ pc = "queue" /\ pc' = "mark" /\ then' = then /\ journal.derived /\ outbox' = q
      /\ tried' = At(tried, {i \in DOMAIN tried : tried[i] \in KeysIn(outbox)'})
      /\ journal' = journal /\ retired' = retired /\ due' = due /\ recorded' = recorded
      /\ claim' = claim /\ ended' = ended /\ left' = left
  BY <1>1, <1>2 DEF Enqueue, Goto, history, KeysIn
<1>4. Attempted /\ (journal.settling => ~claim)
  BY <1>3 DEF IInv, Placed
<1>5. journal \in JournalSet /\ journal \in Journals
  BY <1>4, JournalSays
<1>6. /\ w \in Seq(ReceiptSet) /\ DOMAIN w = DOMAIN journal.receipts
      /\ \A i \in DOMAIN w : /\ KeyOf(w[i]) = KeyOf(journal.receipts[i])
                             /\ w[i].stop = journal.receipts[i].stop
  BY <1>1, <1>5, RetentionKeeps
<1>7. outbox \in Seq(EntrySet) /\ tried \in Seq(KeySet)
  BY DEF IInv, Typed
<1>8. /\ q \in Seq(EntrySet)
      /\ \A n \in DOMAIN q : \/ \E i \in DOMAIN outbox : q[n] = outbox[i]
                             \/ \E i \in DOMAIN w : q[n] = Entry(w[i])
      /\ \A i \in DOMAIN outbox :
           outbox[i].status = "pending" => \E n \in DOMAIN q : q[n] = outbox[i]
      /\ \A i \in DOMAIN w :
           KeyOf(w[i]) \notin KeysIn(outbox) => \E n \in DOMAIN q : q[n] = Entry(w[i])
  <2>1. w \in Seq(ReceiptSet) /\ outbox \in Seq(EntrySet)
    BY <1>6, <1>7
  <2> QED BY ONLY <1>2, <2>1, QueuedHolds
<1>9. \A i \in DOMAIN w : w[i] \in ReceiptSet /\ Entry(w[i]).facts = w[i]
                          /\ Entry(w[i]).status = "pending"
  BY <1>6, SequenceFacts, EntryKinds
<1>10. tried' \in Seq(KeySet)
  <2>1. PICK places : places = {i \in DOMAIN tried : tried[i] \in KeysIn(outbox)'}
    OBVIOUS
  <2>2. places \in SUBSET (DOMAIN tried)
    BY <2>1
  <2>3. At(tried, places) \in Seq(KeySet)
    BY <1>7, <2>2, AtHolds
  <2> QED BY <1>3, <2>1, <2>3
<1>11. Answered
  BY DEF IInv
<1>12. \A r \in Told' : \E j \in Journals : Stands(r, j)
  <2> SUFFICES ASSUME NEW r \in Told'
               PROVE  \E j \in Journals : Stands(r, j)
    OBVIOUS
  <2>1. CASE r \in Told
    BY <2>1 DEF IInv, Anchored
  <2>2. CASE r \notin Told
    <3>1. PICK n \in DOMAIN q : r = q[n].facts
      BY <1>3, <2>2 DEF Told
    <3>2. ~ \E i \in DOMAIN outbox : q[n] = outbox[i]
      BY <2>2, <3>1 DEF Told
    <3>3. PICK i \in DOMAIN w : q[n] = Entry(w[i])
      BY <1>8, <3>2
    <3>4. r = w[i]
      BY <1>9, <3>1, <3>3
    <3>5. Stands(r, journal)
      BY <1>6, <3>3, <3>4 DEF Stands
    <3> QED BY <1>5, <3>5
  <2> QED BY <2>1, <2>2
<1>13. \A i \in DOMAIN q : q[i].status # "pending" => KeyOf(q[i].facts) \in ended
  <2> SUFFICES ASSUME NEW n \in DOMAIN q, q[n].status # "pending"
               PROVE  KeyOf(q[n].facts) \in ended
    OBVIOUS
  <2>1. PICK i \in DOMAIN outbox : q[n] = outbox[i]
    BY <1>8, <1>9
  <2> QED BY <1>11, <2>1 DEF Answered
<1>14. \A k : IsPending(k) => IsPending(k)'
  <2> SUFFICES ASSUME NEW k, IsPending(k)
               PROVE  \E n \in DOMAIN q : KeyOf(q[n].facts) = k /\ q[n].status = "pending"
    BY <1>3 DEF IsPending
  <2>1. PICK i \in DOMAIN outbox : KeyOf(outbox[i].facts) = k /\ outbox[i].status = "pending"
    BY DEF IsPending
  <2>2. PICK n \in DOMAIN q : q[n] = outbox[i]
    BY <1>8, <2>1
  <2> QED BY <2>1, <2>2
<1>15. Boxes
  <2>1. then \in Places /\ recorded \subseteq ReceiptSet /\ ended \subseteq KeySet
    BY DEF IInv, Typed
  <2> QED BY <1>3, <1>8, <1>10, <1>12, <1>13, <1>14, <2>1 DEF Boxes, Places
<1>16. Held(journal)'
  <2> SUFFICES ASSUME NEW i \in DOMAIN journal.receipts
               PROVE  KeyOf(journal.receipts[i]) \in ended \/ IsPending(KeyOf(journal.receipts[i]))'
    BY <1>3 DEF Held, IsPending
  <2>1. PICK k : k = KeyOf(journal.receipts[i])
    OBVIOUS
  <2>2. i \in DOMAIN w /\ KeyOf(w[i]) = k
    BY <1>6, <2>1
  <2>3. CASE k \in KeysIn(outbox)
    <3>1. PICK h \in DOMAIN outbox : KeyOf(outbox[h].facts) = k
      BY <2>3 DEF KeysIn
    <3>2. outbox[h].status = "pending" => IsPending(k)
      BY <3>1 DEF IsPending
    <3>3. outbox[h].status # "pending" => k \in ended
      BY <1>11, <3>1 DEF Answered
    <3>4. IsPending(k)' \/ k \in ended
      BY <1>14, <3>2, <3>3
    <3> QED BY <1>3, <2>1, <3>4 DEF IsPending
  <2>4. CASE k \notin KeysIn(outbox)
    <3>1. PICK n \in DOMAIN q : q[n] = Entry(w[i])
      BY <1>8, <2>2, <2>4
    <3>2. KeyOf(q[n].facts) = k /\ q[n].status = "pending"
      BY <1>9, <2>2, <3>1
    <3> QED BY <1>3, <2>1, <3>2 DEF IsPending
  <2> QED BY <2>3, <2>4
<1>17. Placed'
  BY <1>3, <1>4 DEF IInv, Placed, Follows, Attempted
<1>18. Sends'
  <2>1. \A S : <<>> \in Seq(S)
    OBVIOUS
  <2> QED BY <1>3, <2>1 DEF IInv, Sends
<1>19. Deferred'
  BY <1>3, <1>4 DEF Deferred
<1> QED BY <1>15, <1>16, <1>17, <1>18, <1>19, BoxesInv

(* A receipt is sent and its answer, or that there is none, is written.    *)
LEMMA SendKeeps ==
  ASSUME IInv, NEW status \in Statuses, Send(status)
  PROVE  IInv'
<1>1. PICK k : k = Head(due)
  OBVIOUS
<1>2. PICK x : x = IndexOf(k)
  OBVIOUS
<1>3. /\ pc \in {"sending", "sent"} /\ pc' = "sent" /\ then' = then /\ due # <<>>
      /\ Answer(outbox[x].facts, status)
      /\ outbox' = [outbox EXCEPT ![x].status = status]
      /\ tried' = Append(At(tried, {i \in DOMAIN tried : tried[i] # k}), k)
      /\ ended' = IF status = "pending" THEN ended ELSE ended \cup {k}
      /\ due' = Tail(due)
      /\ journal' = journal /\ retired' = retired /\ claim' = claim /\ left' = left
  BY <1>1, <1>2 DEF Send, Goto, NextDue
<1>4. outbox \in Seq(EntrySet) /\ tried \in Seq(KeySet) /\ recorded \subseteq ReceiptSet
      /\ ended \subseteq KeySet /\ then \in Places
  BY DEF IInv, Typed
<1>5. due \in Seq(KeysIn(outbox))
  BY DEF IInv, Sends
<1>6. k \in KeysIn(outbox) /\ Tail(due) \in Seq(KeysIn(outbox))
  BY <1>1, <1>3, <1>5
<1>7. x \in DOMAIN outbox /\ KeyOf(outbox[x].facts) = k
  BY <1>2, <1>6, IndexHolds
<1>8. DOMAIN outbox = 1 .. Len(outbox) /\ Len(outbox) \in Nat
      /\ \A i \in DOMAIN outbox : outbox[i] \in EntrySet
  BY <1>4, SequenceFacts
<1>9. /\ outbox' \in Seq(EntrySet) /\ DOMAIN outbox' = DOMAIN outbox
      /\ \A i \in DOMAIN outbox : outbox'[i].facts = outbox[i].facts
      /\ \A i \in DOMAIN outbox : i # x => outbox'[i] = outbox[i]
      /\ outbox'[x].status = status
  <2>1. [outbox[x] EXCEPT !.status = status] \in EntrySet
    BY <1>7, <1>8 DEF EntrySet
  <2>2. /\ [outbox[x] EXCEPT !.status = status].facts = outbox[x].facts
        /\ [outbox[x] EXCEPT !.status = status].status = status
    BY <1>7, <1>8 DEF EntrySet
  <2>3. outbox' = [outbox EXCEPT ![x] = [outbox[x] EXCEPT !.status = status]]
    BY <1>3
  <2>4. outbox \in [1 .. Len(outbox) -> EntrySet]
    BY <1>4, SequenceFacts
  <2>5. outbox' \in [1 .. Len(outbox) -> EntrySet]
    BY <1>7, <1>8, <2>1, <2>3, <2>4
  <2>6. outbox' \in Seq(EntrySet)
    BY <1>8, <2>5
  <2> QED BY <1>7, <1>8, <2>2, <2>3, <2>4, <2>5, <2>6
<1>10. KeysIn(outbox)' = KeysIn(outbox)
  BY <1>9 DEF KeysIn
<1>11. recorded' \subseteq recorded \cup {outbox[x].facts}
  BY <1>3 DEF Answer, Statuses
<1>12. outbox[x].facts \in ReceiptSet /\ k \in KeySet
  <2>1. outbox[x].facts \in ReceiptSet
    BY <1>7, <1>8, EntryKinds
  <2> QED BY <1>7, <2>1, ReceiptKinds
<1>13. Told' \subseteq Told
  BY <1>7, <1>9, <1>11 DEF Told
<1>14. \A r \in Told' : \E j \in Journals : Stands(r, j)
  BY <1>13 DEF IInv, Anchored
<1>15. \A i \in DOMAIN outbox' : outbox'[i].status # "pending" => KeyOf(outbox'[i].facts) \in ended'
  <2> SUFFICES ASSUME NEW i \in DOMAIN outbox, outbox'[i].status # "pending"
               PROVE  KeyOf(outbox[i].facts) \in ended'
    BY <1>9
  <2>1. CASE i = x
    BY <1>3, <1>7, <1>9, <2>1
  <2>2. CASE i # x
    <3>1. KeyOf(outbox[i].facts) \in ended
      BY <1>9, <2>2 DEF IInv, Answered
    <3> QED BY <1>3, <3>1
  <2> QED BY <2>1, <2>2
<1>16. \A c : IsPending(c) => IsPending(c)' \/ c \in ended'
  <2> SUFFICES ASSUME NEW c, IsPending(c)
               PROVE  \/ \E i \in DOMAIN outbox' : KeyOf(outbox'[i].facts) = c /\ outbox'[i].status = "pending"
                      \/ c \in ended'
    BY DEF IsPending
  <2>1. PICK i \in DOMAIN outbox : KeyOf(outbox[i].facts) = c /\ outbox[i].status = "pending"
    BY DEF IsPending
  <2>2. CASE i = x
    BY <1>3, <1>7, <1>9, <2>1, <2>2
  <2>3. CASE i # x
    BY <1>9, <2>1, <2>3
  <2> QED BY <2>2, <2>3
<1>17. tried' \in Seq(KeySet)
  <2>1. PICK places : places = {i \in DOMAIN tried : tried[i] # k}
    OBVIOUS
  <2>2. places \in SUBSET (DOMAIN tried)
    BY <2>1
  <2>3. At(tried, places) \in Seq(KeySet)
    BY <1>4, <2>2, AtHolds
  <2>4. Append(At(tried, places), k) \in Seq(KeySet)
    BY <1>12, <2>3
  <2> QED BY <1>3, <2>1, <2>4
<1>18. Boxes
  <2>1. recorded' \subseteq ReceiptSet /\ ended \subseteq ended' /\ ended' \subseteq KeySet
    BY <1>3, <1>4, <1>11, <1>12
  <2> QED BY <1>3, <1>4, <1>9, <1>14, <1>15, <1>16, <1>17, <2>1 DEF Boxes, Places
<1>19. Placed'
  BY <1>3 DEF IInv, Placed, Follows, Attempted
<1>20. Sends'
  BY <1>3, <1>6, <1>10 DEF Sends
<1>21. Deferred'
  BY <1>3, <1>13 DEF IInv, Deferred, Attempted
<1> QED BY <1>3, <1>18, <1>19, <1>20, <1>21, BoxesInv

(* The process dies; the receipt just sent may have been recorded.         *)
LEMMA CrashKeeps == ASSUME IInv, Crash PROVE IInv'
<1>1. PICK k : k = Head(due)
  OBVIOUS
<1>2. PICK x : x = IndexOf(k)
  OBVIOUS
<1>3. /\ pc' = "idle" /\ then' = "idle" /\ due' = <<>> /\ outbox' = outbox /\ tried' = tried
      /\ journal' = journal /\ retired' = retired /\ claim' = claim /\ left' = left
      /\ ended' = ended
      /\ \/ recorded' = recorded
         \/ due # <<>> /\ recorded' = recorded \cup {outbox[x].facts}
  BY <1>1, <1>2 DEF Crash, Goto, NextDue, files, history
<1>4. outbox \in Seq(EntrySet) /\ tried \in Seq(KeySet) /\ recorded \subseteq ReceiptSet
      /\ ended \subseteq KeySet /\ due \in Seq(KeysIn(outbox))
  BY DEF IInv, Typed, Sends
<1>5. due # <<>> => x \in DOMAIN outbox /\ outbox[x].facts \in ReceiptSet
  <2> SUFFICES ASSUME due # <<>>
               PROVE  x \in DOMAIN outbox /\ outbox[x].facts \in ReceiptSet
    OBVIOUS
  <2>1. k \in KeysIn(outbox)
    BY <1>1, <1>4
  <2>2. x \in DOMAIN outbox
    BY <1>2, <2>1, IndexHolds
  <2> QED BY <1>4, <2>2, SequenceFacts, EntryKinds
<1>6. Told' \subseteq Told /\ recorded' \subseteq ReceiptSet
  BY <1>3, <1>4, <1>5 DEF Told
<1>7. \A r \in Told' : \E j \in Journals : Stands(r, j)
  BY <1>6 DEF IInv, Anchored
<1>8. \A i \in DOMAIN outbox' : outbox'[i].status # "pending" => KeyOf(outbox'[i].facts) \in ended'
  BY <1>3 DEF IInv, Answered
<1>9. \A c : IsPending(c) => IsPending(c)'
  BY <1>3 DEF IsPending
<1>10. Boxes
  BY <1>3, <1>4, <1>6, <1>7, <1>8, <1>9 DEF Boxes, Places
<1>11. Placed'
  BY <1>3 DEF IInv, Placed, Follows, Attempted
<1>12. Sends'
  <2>1. \A S : <<>> \in Seq(S)
    OBVIOUS
  <2> QED BY <1>3, <2>1 DEF Sends
<1>13. Deferred'
  BY <1>3, <1>6 DEF IInv, Deferred, Attempted
<1> QED BY <1>3, <1>10, <1>11, <1>12, <1>13, BoxesInv

-----------------------------------------------------------------------------
(* Steps that begin and end an attempt                                     *)

(* A new attempt runs.                                                     *)
LEMMA NewAttemptKeeps == ASSUME IInv, NewAttempt PROVE IInv'
<1>1. PICK a \in 1 .. Attempts : \E attached \in BOOLEAN, fs \in {"none", "open"} :
        /\ a = Cardinality(Done) + 1
        /\ fs = "open" => attached
        /\ journal' = Fresh(a, attached, fs)
  BY DEF NewAttempt
<1>2. PICK q : q = journal'
  OBVIOUS
<1>3. /\ q \in JournalSet /\ InShape(q) /\ q.attempt = a /\ ~q.settling /\ q.receipts = <<>>
      /\ q.facts = "none"
  BY <1>1, <1>2, FreshShape
<1>4. /\ pc = "idle" /\ journal = NoJournal /\ claim' = TRUE /\ pc' = pc /\ then' = then /\ due' = due
      /\ retired' = retired /\ outbox' = outbox /\ tried' = tried /\ recorded' = recorded
      /\ ended' = ended /\ left' = left
  BY DEF NewAttempt, memory, history
<1>5. q # NoJournal /\ DOMAIN q.receipts = {} /\ q.stop \in Nat
  <2>1. DOMAIN <<>> = {}
    OBVIOUS
  <2> QED BY <1>3, <2>1, JournalKinds
<1>6. ~Attempted /\ Attempted' /\ Done' = Done /\ Told' = Told
      /\ Journals = retired /\ Journals' = retired \cup {q}
  BY <1>2, <1>4, <1>5 DEF Attempted, Done, Told, Journals, Current
<1>7. PICK k \in Nat : Done = 1 .. k
  BY DEF IInv, Counted
<1>8. a = k + 1 /\ a \notin Done
  <2>1. Cardinality(1 .. k) = k
    BY FS_Interval
  <2> QED BY <1>1, <1>7, <2>1
<1>9. Typed'
  <2>1. Typed
    BY DEF IInv
  <2>2. retired' \subseteq JournalSet /\ outbox' \in Seq(EntrySet) /\ tried' \in Seq(KeySet)
    BY <1>4, <2>1 DEF Typed
  <2>3. recorded' \subseteq ReceiptSet /\ ended' \subseteq KeySet /\ left' \subseteq (1 .. Attempts) \X Nat
    BY <1>4, <2>1 DEF Typed
  <2>4. pc' \in Places /\ then' \in Places
    BY <1>4, <2>1 DEF Typed
  <2> QED BY <1>2, <1>3, <1>4, <2>2, <2>3, <2>4 DEF Typed
<1>10. Placed'
  BY <1>2, <1>3, <1>4, <1>5 DEF IInv, Placed, Follows, Attempted
<1>11. Sends'
  BY <1>4 DEF IInv, Sends, KeysIn
<1>12. WellKept'
  BY <1>3, <1>6 DEF IInv, WellKept
<1>13. Counted'
  <2>1. Counted
    BY DEF IInv
  <2>2. \E n \in Nat : Done' = 1 .. n /\ (Attempted' => journal'.attempt \in {n, n + 1})
    BY <1>2, <1>3, <1>6, <1>7, <1>8
  <2>3. \A p \in left' : p[1] \in Done' /\ p[1] # journal'.attempt
    BY <1>2, <1>3, <1>4, <1>6, <1>8, <2>1 DEF Counted
  <2>4. journal'.attempt \notin Done'
    BY <1>2, <1>3, <1>6, <1>8
  <2>5. (\A j, h \in retired : j.attempt = h.attempt => j = h)'
        /\ (\A j \in retired : j.derived /\ j.facts = "clean" /\ j.queued)'
    BY <1>4, <2>1 DEF Counted
  <2> QED BY <2>2, <2>3, <2>4, <2>5 DEF Counted
<1>14. Anchored'
  BY <1>6 DEF IInv, Anchored, Stands
<1>15. Deferred'
  BY <1>2, <1>3, <1>4 DEF Deferred
<1>16. Answered'
  <2>1. Answered
    BY DEF IInv
  <2>2. \A j : Held(j) => Held(j)'
    BY <1>4 DEF Held, IsPending
  <2>3. \A j \in retired' : Held(j)'
    BY <1>4, <2>1, <2>2 DEF Answered
  <2>4. Held(journal)'
    BY <1>2, <1>5 DEF Held
  <2>5. (\A i \in DOMAIN outbox : outbox[i].status # "pending" => KeyOf(outbox[i].facts) \in ended)'
    BY <1>4, <2>1 DEF Answered
  <2> QED BY <2>3, <2>4, <2>5 DEF Answered
<1>17. Truthful'
  <2>1. \A j \in retired : \A i \in DOMAIN j.receipts :
          j.receipts[i].state = "cleaned" => <<j.attempt, j.receipts[i].stop>> \notin left
    BY <1>6 DEF IInv, Truthful
  <2> QED BY <1>2, <1>3, <1>4, <1>5, <1>6, <2>1 DEF Truthful
<1> QED BY <1>9, <1>10, <1>11, <1>12, <1>13, <1>14, <1>15, <1>16, <1>17 DEF IInv

(* The settled journal is archived.                                        *)
LEMMA ArchiveKeeps == ASSUME IInv, Archive PROVE IInv'
<1>1. /\ pc = "archive" /\ pc' = "remove" /\ then' = "idle" /\ retired' = retired \cup {journal}
      /\ journal' = journal /\ outbox' = outbox /\ tried' = tried /\ due' = due
      /\ recorded' = recorded /\ claim' = claim /\ ended' = ended /\ left' = left
  BY DEF Archive, Goto, history
<1>2. Attempted /\ journal.settling /\ ~claim /\ journal.queued /\ journal.derived
      /\ journal.facts = "clean"
  BY <1>1 DEF IInv, Placed
<1>3. journal \in JournalSet /\ Says /\ InShape(journal) /\ journal.attempt \in 1 .. Attempts
  BY <1>2, JournalSays, JournalKinds
<1>4. Attempted' /\ Journals' = Journals /\ Told' = Told /\ Done' = Done \cup {journal.attempt}
  <2>1. Done' = Done \cup {journal.attempt}
    BY <1>1 DEF Done
  <2> QED BY <1>1, <1>2, <2>1 DEF Attempted, Journals, Current, Told
<1>5. Typed'
  <2>1. Typed
    BY DEF IInv
  <2>2. journal' \in JournalSet /\ retired' \subseteq JournalSet
    BY <1>1, <1>3, <2>1 DEF Typed
  <2>3. outbox' \in Seq(EntrySet) /\ tried' \in Seq(KeySet) /\ recorded' \subseteq ReceiptSet
    BY <1>1, <2>1 DEF Typed
  <2>4. ended' \subseteq KeySet /\ left' \subseteq (1 .. Attempts) \X Nat /\ claim' \in BOOLEAN
    BY <1>1, <2>1 DEF Typed
  <2> QED BY <1>1, <2>2, <2>3, <2>4 DEF Typed, Places
<1>6. Placed'
  BY <1>1, <1>2 DEF IInv, Placed, Follows, Attempted
<1>7. Sends'
  BY <1>1 DEF IInv, Sends, KeysIn
<1>8. WellKept'
  BY <1>4 DEF IInv, WellKept
<1>9. Counted'
  <2>1. Counted
    BY DEF IInv
  <2>2. PICK k \in Nat : Done = 1 .. k /\ journal.attempt \in {k, k + 1}
    BY <1>2, <2>1 DEF Counted
  <2>3. \E n \in Nat : Done' = 1 .. n /\ (Attempted' => journal'.attempt \in {n, n + 1})
    <3>1. CASE journal.attempt = k
      <4>1. Done' = 1 .. k
        BY <1>3, <1>4, <2>2, <3>1
      <4> QED BY <1>1, <2>2, <3>1, <4>1
    <3>2. CASE journal.attempt = k + 1
      <4>1. Done' = 1 .. k + 1
        BY <1>4, <2>2, <3>2
      <4> QED BY <1>1, <2>2, <3>2, <4>1
    <3> QED BY <2>2, <3>1, <3>2
  <2>4. \A j, h \in retired' : j.attempt = h.attempt => j = h
    <3>1. \A j, h \in retired : j.attempt = h.attempt => j = h
      BY <2>1 DEF Counted
    <3>2. \A j \in retired : j.attempt = journal.attempt => j = journal
      <4> SUFFICES ASSUME NEW j \in retired, j.attempt = journal.attempt
                   PROVE  j = journal
        OBVIOUS
      <4>1. journal.attempt \in Done
        BY DEF Done
      <4>2. journal \in retired
        BY <1>2, <2>1, <4>1 DEF Counted
      <4> QED BY <3>1, <4>2
    <3> QED BY <1>1, <3>1, <3>2
  <2>5. journal' \in retired' /\ journal'.settling /\ ~claim'
    BY <1>1, <1>2
  <2>6. \A j \in retired' : j.derived /\ j.facts = "clean" /\ j.queued
    <3>1. \A j \in retired : j.derived /\ j.facts = "clean" /\ j.queued
      BY <2>1 DEF Counted
    <3> QED BY <1>1, <1>2, <3>1
  <2>7. \A p \in left' : p[1] \in Done' \/ (Attempted' /\ p[1] = journal'.attempt)
    BY <1>1, <1>4, <2>1 DEF Counted
  <2>8. Attempted' => \A p \in left' : p[1] = journal'.attempt => p[2] <= journal'.stop
    BY <1>1, <1>2, <2>1 DEF Counted
  <2> QED BY <2>3, <2>4, <2>5, <2>6, <2>7, <2>8 DEF Counted
<1>10. Anchored'
  BY <1>4 DEF IInv, Anchored, Stands
<1>11. Deferred'
  BY <1>1, <1>2 DEF Deferred
<1>12. Answered'
  <2>1. Answered
    BY DEF IInv
  <2>2. \A j : Held(j) => Held(j)'
    BY <1>1 DEF Held, IsPending
  <2>3. \A j \in retired' : Held(j)'
    BY <1>1, <1>2, <2>1, <2>2 DEF Answered
  <2>4. journal' \in retired'
    BY <1>1
  <2>5. Held(journal)'
    <3>1. PICK j : j = journal'
      OBVIOUS
    <3>2. Held(j)'
      BY <2>3, <2>4, <3>1
    <3> QED BY <3>1, <3>2 DEF Held
  <2>6. (\A i \in DOMAIN outbox : outbox[i].status # "pending" => KeyOf(outbox[i].facts) \in ended)'
    BY <1>1, <2>1 DEF Answered
  <2> QED BY <2>3, <2>5, <2>6 DEF Answered
<1>13. Truthful'
  BY <1>1, <1>4 DEF IInv, Truthful, Attempted
<1> QED BY <1>5, <1>6, <1>7, <1>8, <1>9, <1>10, <1>11, <1>12, <1>13 DEF IInv

(* The archived journal is removed.                                        *)
LEMMA RemoveJournalKeeps == ASSUME IInv, RemoveJournal PROVE IInv'
<1>1. /\ pc = "remove" /\ pc' = "idle" /\ then' = "idle" /\ journal' = NoJournal
      /\ retired' = retired /\ outbox' = outbox /\ tried' = tried /\ due' = due
      /\ recorded' = recorded /\ claim' = claim /\ ended' = ended /\ left' = left
  BY DEF RemoveJournal, Goto, history
<1>2. Attempted /\ journal \in retired
  BY <1>1 DEF IInv, Placed
<1>3. ~Attempted' /\ Journals' = Journals /\ Told' = Told /\ Done' = Done /\ journal.attempt \in Done
  BY <1>1, <1>2 DEF Attempted, Journals, Current, Told, Done
<1>4. Typed'
  <2>1. Typed
    BY DEF IInv
  <2>2. retired' \subseteq JournalSet /\ claim' \in BOOLEAN
    BY <1>1, <2>1 DEF Typed
  <2>3. outbox' \in Seq(EntrySet) /\ tried' \in Seq(KeySet) /\ recorded' \subseteq ReceiptSet
    BY <1>1, <2>1 DEF Typed
  <2>4. ended' \subseteq KeySet /\ left' \subseteq (1 .. Attempts) \X Nat
    BY <1>1, <2>1 DEF Typed
  <2> QED BY <1>1, <2>2, <2>3, <2>4 DEF Typed, Places
<1>5. Placed'
  BY <1>1, <1>3 DEF Placed, Follows, Attempted
<1>6. Sends'
  BY <1>1 DEF IInv, Sends, KeysIn
<1>7. WellKept'
  BY <1>3 DEF IInv, WellKept
<1>8. Counted'
  <2>1. Counted
    BY DEF IInv
  <2> QED BY <1>1, <1>3, <2>1 DEF Counted
<1>9. Anchored'
  BY <1>3 DEF IInv, Anchored, Stands
<1>10. Deferred'
  BY <1>1, <1>3 DEF Deferred
<1>11. Answered'
  <2>1. Answered
    BY DEF IInv
  <2>2. \A j : Held(j) => Held(j)'
    BY <1>1 DEF Held, IsPending
  <2> QED BY <1>1, <1>3, <2>1, <2>2 DEF Answered
<1>12. Truthful'
  BY <1>1, <1>3 DEF IInv, Truthful
<1> QED BY <1>4, <1>5, <1>6, <1>7, <1>8, <1>9, <1>10, <1>11, <1>12 DEF IInv

-----------------------------------------------------------------------------
(* The invariant and what follows from it                                  *)

(* The invariant holds before the first cycle.                             *)
LEMMA InitInv == ASSUME Init PROVE IInv
<1>1. /\ journal = NoJournal /\ retired = {} /\ outbox = <<>> /\ tried = <<>>
      /\ pc = "idle" /\ then = "idle" /\ due = <<>>
      /\ recorded = {} /\ claim = FALSE /\ ended = {} /\ left = {}
  BY DEF Init
<1>2. DOMAIN outbox = {} /\ \A S : <<>> \in Seq(S)
  <2>1. DOMAIN <<>> = {}
    OBVIOUS
  <2> QED BY <1>1, <2>1
<1>3. ~Attempted /\ Journals = {} /\ Done = {} /\ Told = {}
  BY <1>1, <1>2 DEF Attempted, Journals, Current, Done, Told
<1>4. Typed
  BY <1>1, <1>2 DEF Typed, Places
<1>5. Placed
  BY <1>1, <1>3 DEF Placed, Follows
<1>6. Sends
  BY <1>1, <1>2 DEF Sends
<1>7. WellKept /\ Anchored
  BY <1>3 DEF WellKept, Anchored
<1>8. Counted
  <2>1. 0 \in Nat /\ 1 .. 0 = {}
    OBVIOUS
  <2> QED BY <1>1, <1>3, <2>1 DEF Counted
<1>9. Deferred
  BY <1>1, <1>3 DEF Deferred
<1>10. Answered /\ Truthful
  BY <1>1, <1>2, <1>3 DEF Answered, Truthful
<1> QED BY <1>4, <1>5, <1>6, <1>7, <1>8, <1>9, <1>10 DEF IInv

(* A step that changes nothing keeps it.                                   *)
LEMMA StutterKeeps == ASSUME IInv, UNCHANGED vars PROVE IInv'
<1>1. /\ journal' = journal /\ claim' = claim /\ retired' = retired /\ outbox' = outbox
      /\ due' = due /\ then' = then /\ pc' = pc
      /\ tried' = tried /\ recorded' = recorded /\ ended' = ended /\ left' = left
  BY DEF vars, files, memory, history
<1>2. pc \in Places /\ then \in Places
  BY DEF IInv, Typed
<1>3. Moves
  BY <1>1, <1>2 DEF Moves
<1>4. Placed'
  BY <1>1 DEF IInv, Placed, Follows, Attempted
<1>5. Sends'
  BY <1>1 DEF IInv, Sends, KeysIn
<1> QED BY <1>3, <1>4, <1>5, MovesInv

(* Every step keeps it.                                                    *)
LEMMA NextKeeps == ASSUME IInv, [Next]_vars PROVE IInv'
<1>1. CASE Supervise
  <2>1. CASE \E o \in Outcomes, derived \in BOOLEAN : Settle(o, derived)
    BY <2>1, SettleKeeps
  <2>2. CASE Derive \/ Enqueue \/ Mark \/ ReleaseAtStop \/ Settling \/ Cycle
    BY <2>2, DeriveKeeps, EnqueueKeeps, MarkKeeps, ReleaseAtStopKeeps, SettlingKeeps, CycleKeeps
  <2>3. CASE StartFlush \/ EndFlush
    BY <2>3, StartFlushKeeps, EndFlushKeeps
  <2>4. CASE \E status \in {"accepted", "conflict", "refused", "pending"} : Send(status)
    BY <2>4, SendKeeps DEF Statuses
  <2>5. CASE \E fs \in {"open", "released"} : Release(fs)
    BY <2>5, ReleaseKeeps
  <2>6. CASE Unsettled \/ Posted \/ Archive \/ RemoveJournal
    BY <2>6, UnsettledKeeps, PostedKeeps, ArchiveKeeps, RemoveJournalKeeps
  <2> QED BY <1>1, <2>1, <2>2, <2>3, <2>4, <2>5, <2>6 DEF Supervise
<1>2. CASE NewAttempt \/ QueueFails \/ HeldAtStop \/ ReleaseHeld \/ ClaimGone \/ Crash
  BY <1>2, NewAttemptKeeps, QueueFailsKeeps, HeldKeeps, ClaimGoneKeeps, CrashKeeps
<1>3. CASE UNCHANGED vars
  BY <1>3, StutterKeeps
<1> QED BY <1>1, <1>2, <1>3 DEF Next

(* The invariant always holds.                                             *)
LEMMA InvAlways == Spec => []IInv
<1>1. Init => IInv
  BY InitInv
<1>2. IInv /\ [Next]_vars => IInv'
  BY NextKeeps
<1> QED BY <1>1, <1>2, PTL DEF Spec

(* The types that the invariant gives.                                     *)
LEMMA InvTypes == ASSUME IInv PROVE TypeOK
<1>1. Attempted => /\ journal.attempt \in 1 .. Attempts
                   /\ journal.fs \in {"none", "open", "released"}
                   /\ journal.facts \in Outcomes \cup {"none"}
                   /\ journal.carried <= Len(journal.receipts)
                   /\ \A i \in DOMAIN journal.receipts : journal.receipts[i] \in ReceiptSet
  <2> SUFFICES ASSUME Attempted
               PROVE  /\ journal.attempt \in 1 .. Attempts
                      /\ journal.fs \in {"none", "open", "released"}
                      /\ journal.facts \in Outcomes \cup {"none"}
                      /\ journal.carried <= Len(journal.receipts)
                      /\ \A i \in DOMAIN journal.receipts : journal.receipts[i] \in ReceiptSet
    OBVIOUS
  <2>1. journal \in JournalSet /\ InShape(journal)
    BY JournalSays
  <2>2. journal.receipts \in Seq(ReceiptSet)
    BY <2>1, JournalKinds
  <2> QED BY <2>1, <2>2, JournalKinds, SequenceFacts DEF InShape
<1>2. \A i \in DOMAIN outbox :
        /\ outbox[i].facts \in ReceiptSet
        /\ outbox[i].status \in {"pending", "accepted", "conflict", "refused"}
  <2>1. outbox \in Seq(EntrySet)
    BY DEF IInv, Typed
  <2> QED BY <2>1, SequenceFacts, EntryKinds DEF Statuses
<1>3. recorded \subseteq ReceiptSet /\ ended \subseteq KeySet /\ claim \in BOOLEAN
  BY DEF IInv, Typed
<1> QED BY <1>1, <1>2, <1>3 DEF TypeOK, Attempted

(* There is one journal of an attempt.                                     *)
LEMMA OneJournal ==
  ASSUME IInv, NEW j \in Journals, NEW h \in Journals, j.attempt = h.attempt
  PROVE  j = h
<1>1. \A g \in Journals : g \in retired \/ (Attempted /\ g = journal)
  BY DEF Journals, Current
<1>2. \A g \in retired : g.attempt \in Done
  BY DEF Done
<1>3. Attempted /\ journal.attempt \in Done => journal \in retired
  BY DEF IInv, Counted
<1>4. \A f, g \in retired : f.attempt = g.attempt => f = g
  BY DEF IInv, Counted
<1> QED BY <1>1, <1>2, <1>3, <1>4

(* A receipt of a journal names the journal's attempt.                     *)
LEMMA ReceiptsOfJournal ==
  ASSUME IInv, NEW j \in Journals, NEW i \in DOMAIN j.receipts
  PROVE  j.receipts[i].attempt = j.attempt /\ KeyOf(j.receipts[i])[1] = j.attempt
         /\ Numbered(j.receipts, j.attempt) /\ j.receipts \in Seq(ReceiptSet)
<1>1. InShape(j) /\ j \in JournalSet
  BY DEF IInv, WellKept, Typed, Journals, Current, Attempted
<1>2. j.receipts[i].attempt = j.attempt
  BY <1>1 DEF InShape, Numbered
<1> QED BY <1>1, <1>2, JournalKinds DEF InShape, KeyOf

(* Every variable holds a value of its kind.                               *)
THEOREM TypeCorrect == Spec => []TypeOK
BY InvAlways, InvTypes, PTL

(* An operation key stands for one stop only: every receipt on the machine *)
(* or at the server stands for one of the attempt's own journal, where no  *)
(* two have the same key (attemptSettle.ts, receiptsForStop).              *)
THEOREM OneStopPerKey == Spec => []KeyNamesOneStop
<1>1. ASSUME IInv PROVE KeyNamesOneStop
  <2> DEFINE all == Frozen \cup recorded \cup {outbox[i].facts : i \in DOMAIN outbox}
  <2>1. \A r \in all : \E j \in Journals : Stands(r, j)
    <3> SUFFICES ASSUME NEW r \in all
                 PROVE  \E j \in Journals : Stands(r, j)
      OBVIOUS
    <3>1. CASE r \in Told
      BY <1>1, <3>1 DEF IInv, Anchored
    <3>2. CASE r \in Frozen
      <4>1. Frozen = UNION {RangeOf(j.receipts) : j \in Journals}
        BY DEF Frozen, Journals, Current, Attempted
      <4>2. PICK j \in Journals : r \in RangeOf(j.receipts)
        BY <3>2, <4>1
      <4>3. PICK i \in DOMAIN j.receipts : r = j.receipts[i]
        BY <4>2 DEF RangeOf
      <4>4. Stands(r, j)
        BY <4>3 DEF Stands
      <4> QED BY <4>4
    <3> QED BY <3>1, <3>2 DEF Told
  <2> HIDE DEF all
  <2>2. ASSUME NEW r \in all, NEW s \in all, KeyOf(r) = KeyOf(s)
        PROVE  r.stop = s.stop
    <3>1. PICK j \in Journals : Stands(r, j)
      BY <2>1
    <3>2. PICK h \in Journals : Stands(s, h)
      BY <2>1
    <3>3. PICK i \in DOMAIN j.receipts : KeyOf(j.receipts[i]) = KeyOf(r) /\ j.receipts[i].stop = r.stop
      BY <3>1 DEF Stands
    <3>4. PICK m \in DOMAIN h.receipts : KeyOf(h.receipts[m]) = KeyOf(s) /\ h.receipts[m].stop = s.stop
      BY <3>2 DEF Stands
    <3>5. j = h
      <4>1. KeyOf(j.receipts[i])[1] = j.attempt
        BY <1>1, ReceiptsOfJournal
      <4>2. KeyOf(h.receipts[m])[1] = h.attempt
        BY <1>1, ReceiptsOfJournal
      <4>3. j.attempt = h.attempt
        BY <2>2, <3>3, <3>4, <4>1, <4>2
      <4> QED BY <1>1, <4>3, OneJournal
    <3>6. i = m
      <4>1. Numbered(j.receipts, j.attempt) /\ j.receipts \in Seq(ReceiptSet)
        BY <1>1, ReceiptsOfJournal
      <4>2. m \in DOMAIN j.receipts /\ KeyOf(j.receipts[i]) = KeyOf(j.receipts[m])
        BY <2>2, <3>3, <3>4, <3>5
      <4> QED BY <4>1, <4>2, KeysDiffer
    <3> QED BY <3>3, <3>4, <3>5, <3>6
  <2> QED BY <2>2 DEF KeyNamesOneStop, all
<1> QED BY <1>1, InvAlways, PTL

(* What an archived attempt owes was ended by an answer or waits in the    *)
(* outbox: the archive waits until all of it was queued, and queueing      *)
(* drops nothing that is pending (enqueueReceipts, ensureReceiptsQueued).  *)
THEOREM OwedIsKept == Spec => []NothingOwedIsLost
<1>1. ASSUME IInv PROVE NothingOwedIsLost
  BY <1>1 DEF IInv, Answered, Held, NothingOwedIsLost
<1> QED BY <1>1, InvAlways, PTL

(* The server is never told that a stop is cleaned when it left something  *)
(* held, and the last receipt of an archived attempt says that it is       *)
(* cleaned (superviseOnce, the release of the filesystem).                 *)
THEOREM CleanedTrue == Spec => []CleanedIsTrue
<1>1. ASSUME IInv PROVE CleanedIsTrue
  <2>1. ASSUME NEW r \in recorded, r.state = "cleaned"
        PROVE  <<r.attempt, r.stop>> \notin left
    <3>1. r \in Told
      BY DEF Told
    <3>2. PICK j \in Journals : Stands(r, j)
      BY <1>1, <3>1 DEF IInv, Anchored
    <3>3. PICK i \in DOMAIN j.receipts : KeyOf(j.receipts[i]) = KeyOf(r) /\ j.receipts[i].stop = r.stop
      BY <3>2 DEF Stands
    <3>4. j.receipts[i].state = "cleaned" /\ j.receipts[i].attempt = r.attempt
      BY <2>1, <3>3 DEF KeyOf
    <3>5. j.attempt = r.attempt
      BY <1>1, <3>4, ReceiptsOfJournal
    <3> QED BY <1>1, <3>3, <3>4, <3>5 DEF IInv, Truthful
  <2>2. ASSUME NEW j \in retired, j.attached
        PROVE  j.receipts # <<>> /\ Last(j.receipts).state = "cleaned"
    <3>1. j.derived /\ j.facts = "clean"
      BY <1>1 DEF IInv, Counted
    <3>2. InShape(j)
      BY <1>1 DEF IInv, WellKept, Journals
    <3> QED BY <2>2, <3>1, <3>2 DEF InShape, Last
  <2> QED BY <2>1, <2>2 DEF CleanedIsTrue
<1> QED BY <1>1, InvAlways, PTL
=============================================================================
