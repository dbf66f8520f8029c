----------------------- MODULE SessionMailbox_proofs -----------------------
(***************************************************************************)
(* Proofs about SessionMailbox, for any number of instructions, turns,     *)
(* rounds and faults: the types, that an instruction reported as safe is   *)
(* kept, that a refused one is never heard, and that each is heard once.   *)
(*                                                                         *)
(* None of the three is inductive.  Parts relate the places an instruction *)
(* may be in: its sender's receipt, the mailbox, a drain under way, the    *)
(* running turn and the conversation.                                      *)
(***************************************************************************)
EXTENDS SessionMailbox, FiniteSetTheorems, WellFoundedInduction, NaturalsInduction, TLAPS

Running == turn.pc \in {"step", "answer", "tool"}
ToIngest(i) == drains # <<>> /\ \E n \in DOMAIN drains[1].todo : drains[1].todo[n] = i
Steered == {s[1] : s \in turn.steered}
Heard(i) == \E n \in DOMAIN history : history[n] = i
Kept(i) == \E n \in DOMAIN history : history[n] = i /\ (Running => n <= turn.before)

-----------------------------------------------------------------------------
(* What the variables hold                                                 *)

Drains == [by : Callers, at : {"start", "ingest", "ack"}, todo : Seq(Ids)]
TurnSet ==
  [pc : Phases, window : BOOLEAN, before : Nat, checkpoint : Nat, rounds : Nat,
   accepted : SUBSET Ids, steered : SUBSET (Ids \X Nat), finished : BOOLEAN]

MailType ==
  /\ visible \subseteq Ids /\ durable \subseteq Ids /\ known \subseteq Ids /\ cut \subseteq Ids
  /\ receipt \in [Ids -> Receipts] /\ publishing \in 0 .. Instructions
HistoryType == history \in Seq(0 .. Instructions)
TurnType == turn \in TurnSet
AskType == ask \in [Callers -> {"none", "agent", "drain", "ready", "failed"}]
QueueType == drains \in Seq(Drains) /\ lock \in Seq({"turn", "drain", "close"})

(* The lock is the turn's while it runs, and one drain waits for it when it *)
(* is to ingest.                                                            *)
LockInv ==
  /\ Running => lock # <<>> /\ lock[1] = "turn"
  /\ turn.pc = "lock" => \E n \in DOMAIN lock : lock[n] = "turn"
  /\ (\E n \in DOMAIN lock : lock[n] = "drain") <=> drains # <<>> /\ drains[1].at = "ingest"
  /\ \A m, n \in DOMAIN lock : lock[m] = "drain" /\ lock[n] = "drain" => m = n

(* Only the first drain is under way, and then it has something to do.      *)
DrainInv ==
  /\ \A n \in DOMAIN drains : n # 1 => drains[n].at = "start"
  /\ \A n \in DOMAIN drains : drains[n].at = "start" <=> drains[n].todo = <<>>

(* Corrections come and go with the window, and are in the history at their *)
(* places as long as the turn runs and when it has finished.                *)
TurnInv ==
  /\ turn.pc \in {"idle", "setup"} => turn = [NoTurn EXCEPT !.pc = turn.pc]
  /\ turn.pc = "lock" => turn.steered = {}
  /\ ~Window => turn.accepted = {}
  /\ Steered \subseteq turn.accepted
  /\ Running => turn.before <= turn.checkpoint /\ turn.checkpoint <= Len(history)
  /\ turn.finished => turn.pc = "ended"
  /\ Running \/ turn.finished =>
       \A s \in turn.steered : s[2] \in DOMAIN history /\ history[s[2]] = s[1]

(* What was confirmed, is about to be, or has its ID in the journal.        *)
KeptInv ==
  /\ \A i \in Ids : receipt[i] = "confirmed" => i \in visible \cap durable \/ Kept(i)
  /\ publishing # 0 => publishing \in visible \/ Kept(publishing)
  /\ \A i \in known : Kept(i)
  /\ drains # <<>> /\ drains[1].at = "ack" => drains[1].todo[1] \in known

(* Whatever is heard, or may still be, was sent and not refused.            *)
Accounted(i) == i \in visible \/ i \in known \/ receipt[i] # "none"
Good(i) == receipt[i] \in {"confirmed", "unconfirmed"}
AccountInv ==
  /\ \A i \in Ids : ToIngest(i) => Accounted(i)
  /\ \A i \in durable : Accounted(i)
  /\ \A i \in turn.accepted : Good(i)
  /\ \A i \in Ids : Heard(i) => i \in known \/ Good(i)
  /\ \A i \in Ids : receipt[i] = "refused" =>
       i \notin visible \cup durable \cup known /\ ~ToIngest(i) /\ i # publishing

(* An instruction that was heard and may come again is known by its ID, was *)
(* steered into the running turn at one place, or was cut off by a fault.   *)
OnceInv ==
  /\ turn.accepted \cap known = {}
  /\ \A i \in turn.accepted : ~ToIngest(i)
  /\ \A i \in Ids : Heard(i) /\ i \notin known \cup cut /\ (i \in visible \/ ToIngest(i))
                    => i \in Steered
  /\ \A s \in turn.steered : \A n \in DOMAIN history :
       history[n] = s[1] => n = s[2] \/ s[1] \in cut
  /\ HeardOnce

Types == MailType /\ HistoryType /\ TurnType /\ AskType /\ QueueType
Inv == Types /\ LockInv /\ DrainInv /\ TurnInv /\ KeptInv /\ AccountInv /\ OnceInv

-----------------------------------------------------------------------------
(* Lemmas on data                                                          *)

(* A nonempty set of instructions has an oldest one.                        *)
LEMMA HasOldest ==
  ASSUME NEW S \in SUBSET Ids, S # {}
  PROVE  \E i \in S : \A h \in S : i <= h
<1> DEFINE R == OpToRel(<, Nat)
<1>1. IsWellFoundedOn(R, Nat)
  BY NatLessThanWellFounded
<1> HIDE DEF R
<1>2. S \subseteq Nat /\ S # {}
  BY BoundsAreNumbers DEF Ids
<1>3. PICK x \in S : \A y \in S : ~ (<<y, x>> \in R)
  BY <1>1, <1>2, WFMin
<1>4. \A y \in S : ~ (y < x)
  BY <1>2, <1>3 DEF OpToRel, R
<1> QED BY <1>2, <1>4

(* The next instruction, if there is one, was not sent.                     *)
LEMMA NextIsNew ==
  NextId \in Ids \cup {0} /\ (NextId # 0 => NextId \in Ids /\ NextId \notin Sent)
<1> DEFINE P(i) == IF Ids \subseteq Sent THEN i = 0
                   ELSE i \in Ids \ Sent /\ \A h \in Ids \ Sent : i <= h
<1>1. NextId = CHOOSE i \in Ids \cup {0} : P(i)
  BY DEF NextId
<1>2. \E i \in Ids \cup {0} : P(i)
  <2>1. CASE Ids \subseteq Sent
    BY <2>1
  <2>2. CASE ~ (Ids \subseteq Sent)
    <3>1. Ids \ Sent \in SUBSET Ids /\ Ids \ Sent # {}
      BY <2>2
    <3> HIDE DEF P
    <3>2. PICK i \in Ids \ Sent : \A h \in Ids \ Sent : i <= h
      BY <3>1, HasOldest
    <3>3. P(i)
      BY <2>2, <3>2 DEF P
    <3> QED BY <3>2, <3>3
  <2> QED BY <2>1, <2>2
<1>3. NextId \in Ids \cup {0} /\ P(NextId)
  <2> HIDE DEF P
  <2> QED BY <1>1, <1>2
<1> QED BY <1>3

(* The sequence of a set of instructions holds each of them once.           *)
LEMMA OrderHoldsEachOnce ==
  ASSUME NEW S \in SUBSET Ids
  PROVE  /\ InOrder(S) \in Seq(S)
         /\ \A i \in S : \E n \in DOMAIN InOrder(S) : InOrder(S)[n] = i
         /\ \A m, n \in DOMAIN InOrder(S) : InOrder(S)[m] = InOrder(S)[n] => m = n
         /\ S # {} => InOrder(S) # <<>>
<1> DEFINE c == Cardinality(S)
           upTo(i) == {h \in S : h <= i}
           rank == [i \in S |-> Cardinality(upTo(i))]
<1>1. IsFiniteSet(S) /\ S \subseteq Nat
  <2>1. IsFiniteSet(Ids) /\ Ids \subseteq Nat
    BY BoundsAreNumbers, FS_Interval DEF Ids
  <2> QED BY <2>1, FS_Subset
<1>2. c \in Nat
  BY <1>1, FS_CardinalityType
<1>3. \A i \in S : IsFiniteSet(upTo(i)) /\ Cardinality(upTo(i)) \in Nat /\ Cardinality(upTo(i)) <= c
  <2> TAKE i \in S
  <2>1. upTo(i) \in SUBSET S
    OBVIOUS
  <2> HIDE DEF upTo
  <2> QED BY <1>1, <2>1, FS_Subset, FS_CardinalityType
<1>4. \A i, j \in S : i < j => Cardinality(upTo(i)) < Cardinality(upTo(j))
  <2> SUFFICES ASSUME NEW i \in S, NEW j \in S, i < j
               PROVE  Cardinality(upTo(i)) < Cardinality(upTo(j))
    OBVIOUS
  <2>1. upTo(i) \cup {j} \in SUBSET upTo(j) /\ j \notin upTo(i)
    <3>1. i \in Nat /\ j \in Nat /\ \A h \in S : h \in Nat
      BY <1>1
    <3>2. \A h \in upTo(i) \cup {j} : h \in S /\ h <= j
      BY <3>1
    <3>3. \A h \in upTo(i) \cup {j} : h \in upTo(j)
      BY <3>2
    <3>4. j \notin upTo(i)
      BY <3>1
    <3> HIDE DEF upTo
    <3> QED BY <3>3, <3>4
  <2> HIDE DEF upTo
  <2>2. Cardinality(upTo(i) \cup {j}) = Cardinality(upTo(i)) + 1
    BY <1>3, <2>1, FS_AddElement
  <2>3. Cardinality(upTo(i) \cup {j}) <= Cardinality(upTo(j))
    BY <1>3, <2>1, FS_Subset
  <2> QED BY <1>3, <2>2, <2>3
<1>5. \A i \in S : Cardinality(upTo(i)) >= 1
  <2> TAKE i \in S
  <2>1. i \in upTo(i)
    BY <1>1
  <2> HIDE DEF upTo
  <2>2. Cardinality(upTo(i)) # 0
    BY <1>3, <2>1, FS_EmptySet
  <2> QED BY <1>3, <2>2
<1> HIDE DEF upTo
<1>6. rank \in Injection(S, 1 .. c)
  <2>1. rank \in [S -> 1 .. c]
    BY <1>2, <1>3, <1>5
  <2>2. \A i, j \in S : rank[i] = rank[j] => i = j
    BY <1>1, <1>3, <1>4
  <2> QED BY <2>1, <2>2 DEF Injection, IsInjective
<1>7. rank \in Surjection(S, 1 .. c)
  <2>1. IsFiniteSet(1 .. c) /\ Cardinality(1 .. c) = c
    BY <1>2, FS_Interval
  <2> HIDE DEF rank
  <2> QED BY <1>6, <2>1, FS_Injection
<1>8. \A n \in 1 .. c : \E i \in S : Cardinality(upTo(i)) = n
  BY <1>7 DEF Surjection
<1>9. InOrder(S) = [n \in 1 .. c |-> CHOOSE i \in S : Cardinality(upTo(i)) = n]
  BY DEF InOrder, upTo
<1> DEFINE s == InOrder(S)
<1>10. \A n \in 1 .. c : s[n] \in S /\ Cardinality(upTo(s[n])) = n
  <2> TAKE n \in 1 .. c
  <2>1. s[n] = CHOOSE i \in S : Cardinality(upTo(i)) = n
    BY <1>9
  <2> HIDE DEF s
  <2> QED BY <1>8, <2>1
<1>11. s \in Seq(S) /\ DOMAIN s = 1 .. c
  BY <1>2, <1>9, <1>10
<1> HIDE DEF s
<1>12. \A m, n \in 1 .. c : s[m] = s[n] => m = n
  BY <1>10
<1>13. \A i \in S : \E n \in 1 .. c : s[n] = i
  <2> TAKE i \in S
  <2>1. rank[i] \in 1 .. c /\ rank[i] = Cardinality(upTo(i))
    BY <1>2, <1>3, <1>5
  <2>2. s[rank[i]] \in S /\ rank[s[rank[i]]] = rank[i]
    BY <1>10, <2>1
  <2>3. s[rank[i]] = i
    BY <1>6, <2>2 DEF Injection, IsInjective
  <2> QED BY <2>1, <2>3
<1>14. S # {} => s # <<>>
  <2>1. S # {} => DOMAIN s # {}
    BY <1>11, <1>13
  <2> QED BY <2>1
<1> QED BY <1>11, <1>12, <1>13, <1>14 DEF s

-----------------------------------------------------------------------------
(* The types                                                               *)

(* A sequence keeps its kind when elements are appended, taken from its     *)
(* front or cut off its end.                                                *)
LEMMA SequenceKinds ==
  ASSUME NEW S, NEW s \in Seq(S)
  PROVE  /\ Len(s) \in Nat /\ DOMAIN s = 1 .. Len(s)
         /\ \A e \in S : Append(s, e) \in Seq(S)
         /\ s # <<>> => Tail(s) \in Seq(S) /\ Head(s) \in S /\ Head(s) = s[1]
         /\ \A t \in Seq(S) : s \o t \in Seq(S)
         /\ \A k \in Nat : k <= Len(s) => SubSeq(s, 1, k) \in Seq(S)
<1>1. \A k \in Nat : k <= Len(s) => SubSeq(s, 1, k) \in Seq(S)
  OBVIOUS
<1>2. \A t \in Seq(S) : s \o t \in Seq(S)
  OBVIOUS
<1> QED BY <1>1, <1>2

(* A sequence over a set is one over any larger set.                        *)
LEMMA WiderSequence ==
  ASSUME NEW S, NEW T, S \subseteq T, NEW s \in Seq(S)
  PROVE  s \in Seq(T)
OBVIOUS

(* A place in a sequence is given up.                                       *)
LEMMA PlaceGivenUp ==
  ASSUME NEW S, NEW s \in Seq(S), NEW k \in DOMAIN s
  PROVE  /\ RemoveAt(s, k) \in Seq(S) /\ DOMAIN RemoveAt(s, k) = 1 .. Len(s) - 1
         /\ \A n \in 1 .. Len(s) - 1 : RemoveAt(s, k)[n] = IF n < k THEN s[n] ELSE s[n + 1]
<1> DEFINE a == SubSeq(s, 1, k - 1)
           b == SubSeq(s, k + 1, Len(s))
<1>1. Len(s) \in Nat /\ DOMAIN s = 1 .. Len(s) /\ k \in 1 .. Len(s)
  OBVIOUS
<1>2. a \in Seq(S) /\ Len(a) = k - 1 /\ \A n \in 1 .. k - 1 : a[n] = s[n]
  BY <1>1
<1>3. b \in Seq(S) /\ Len(b) = Len(s) - k /\ \A n \in 1 .. Len(s) - k : b[n] = s[k + n]
  BY <1>1
<1> HIDE DEF a, b
<1>4. RemoveAt(s, k) = a \o b
  BY DEF RemoveAt, a, b
<1>5. /\ a \o b \in Seq(S) /\ Len(a \o b) = Len(a) + Len(b)
      /\ \A n \in 1 .. Len(a) + Len(b) :
           (a \o b)[n] = IF n <= Len(a) THEN a[n] ELSE b[n - Len(a)]
  BY ONLY <1>2, <1>3
<1>6. Len(a \o b) = Len(s) - 1 /\ DOMAIN (a \o b) = 1 .. Len(s) - 1
  <2>1. (k - 1) + (Len(s) - k) = Len(s) - 1
    BY <1>1
  <2> QED BY <1>2, <1>3, <1>5, <2>1
<1>7. ASSUME NEW n \in 1 .. Len(s) - 1
      PROVE  (a \o b)[n] = IF n < k THEN s[n] ELSE s[n + 1]
  <2>1. n \in 1 .. Len(a) + Len(b) /\ n \in Nat /\ k \in Nat
    BY <1>1, <1>2, <1>3
  <2>2. (a \o b)[n] = IF n <= Len(a) THEN a[n] ELSE b[n - Len(a)]
    BY <1>5, <2>1
  <2>3. CASE n < k
    <3>1. n <= Len(a) /\ n \in 1 .. k - 1
      BY <1>1, <1>2, <2>1, <2>3
    <3> QED BY <1>2, <2>2, <2>3, <3>1
  <2>4. CASE ~ (n < k)
    <3>1. ~ (n <= Len(a)) /\ n - Len(a) \in 1 .. Len(s) - k /\ k + (n - Len(a)) = n + 1
      BY <1>1, <1>2, <2>1, <2>4
    <3>2. b[n - Len(a)] = s[n + 1]
      BY <1>3, <3>1
    <3> QED BY <2>2, <2>4, <3>1, <3>2
  <2> QED BY <2>3, <2>4
<1> QED BY <1>4, <1>5, <1>7, <1>6

(* The position of the turn: only these fields change in most steps.        *)
LEMMA TurnKinds ==
  ASSUME TurnType
  PROVE  /\ turn.pc \in Phases /\ turn.window \in BOOLEAN /\ turn.before \in Nat
         /\ turn.checkpoint \in Nat /\ turn.rounds \in Nat /\ turn.accepted \subseteq Ids
         /\ turn.steered \subseteq Ids \X Nat /\ turn.finished \in BOOLEAN
         /\ Steered \subseteq Ids /\ Steering \in SUBSET Ids
  BY DEF TurnType, TurnSet, Steered, Steering

(* Callers of getAgent go on to a drain or wait for the agent to be built.  *)
LEMMA GetAgentKinds ==
  ASSUME AskType, QueueType, NEW c \in Callers, GetAgent(c)
  PROVE  /\ AskType'
         /\ drains' \in Seq(Drains)
         /\ \/ drains' = drains
            \/ drains' = Append(drains, [by |-> c, at |-> "start", todo |-> <<>>])
<1>1. [by |-> c, at |-> "start", todo |-> <<>>] \in Drains
  <2>1. <<>> \in Seq(Ids)
    OBVIOUS
  <2> QED BY <2>1 DEF Drains
<1>2. AskType'
  BY DEF AskType, GetAgent
<1>3. drains' = drains \/ drains' = Append(drains, [by |-> c, at |-> "start", todo |-> <<>>])
  BY DEF GetAgent
<1>4. drains \in Seq(Drains)
  BY DEF QueueType
<1>5. drains' \in Seq(Drains)
  BY ONLY <1>1, <1>3, <1>4, SequenceKinds
<1> QED BY <1>2, <1>3, <1>5

(* What a drain is told of the mailbox, and what is left of it.             *)
LEMMA FirstKinds ==
  ASSUME QueueType, drains # <<>>
  PROVE  /\ First = drains[1] /\ drains[1] \in Drains
         /\ drains[1].by \in Callers /\ drains[1].todo \in Seq(Ids)
         /\ drains[1].at \in {"start", "ingest", "ack"}
<1>1. First = drains[1] /\ drains[1] \in Drains
  BY SequenceKinds DEF QueueType, First
<1> QED BY <1>1 DEF Drains

(* The first drain goes on: with what it found, or with what is left.       *)
LEMMA FirstGoesOn ==
  ASSUME QueueType, drains # <<>>, NEW at \in {"start", "ingest", "ack"}, NEW todo \in Seq(Ids)
  PROVE  LET on == [drains EXCEPT ![1].at = at, ![1].todo = todo] IN
         /\ on \in Seq(Drains) /\ on # <<>> /\ DOMAIN on = DOMAIN drains
         /\ on[1].at = at /\ on[1].todo = todo
         /\ \A n \in DOMAIN drains : n # 1 => on[n] = drains[n]
<1> DEFINE first == [drains[1] EXCEPT !.at = at, !.todo = todo]
           on == [drains EXCEPT ![1].at = at, ![1].todo = todo]
<1>1. drains \in Seq(Drains) /\ 1 \in DOMAIN drains
  BY SequenceKinds DEF QueueType
<1>2. first \in Drains /\ first.at = at /\ first.todo = todo
  BY <1>1, FirstKinds DEF Drains
<1>3. on = [drains EXCEPT ![1] = first]
  BY <1>1, <1>2 DEF Drains
<1> HIDE DEF first, on
<1>4. DOMAIN on = DOMAIN drains /\ on[1] = first
      /\ \A n \in DOMAIN drains : n # 1 => on[n] = drains[n]
  BY <1>1, <1>3
<1>5. on \in Seq(Drains) /\ on # <<>>
  <2>1. \A n \in DOMAIN drains : on[n] \in Drains
    BY <1>1, <1>2, <1>4
  <2>2. Len(drains) \in Nat /\ DOMAIN drains = 1 .. Len(drains)
    BY <1>1
  <2>3. on = [n \in 1 .. Len(drains) |-> on[n]]
    BY <1>3, <2>2
  <2>4. on \in Seq(Drains)
    BY <2>1, <2>2, <2>3
  <2> QED BY <1>1, <1>4, <2>4
<1> QED BY <1>2, <1>4, <1>5 DEF on

(* The same, when only what it waits for changes.                           *)
LEMMA FirstWaits ==
  ASSUME QueueType, drains # <<>>, NEW at \in {"start", "ingest", "ack"}
  PROVE  [drains EXCEPT ![1].at = at] = [drains EXCEPT ![1].at = at, ![1].todo = drains[1].todo]
<1>1. drains \in Seq(Drains) /\ 1 \in DOMAIN drains /\ drains[1] \in Drains
  BY FirstKinds, SequenceKinds DEF QueueType
<1> QED BY <1>1 DEF Drains

(* A published file, and what a failure leaves of it.                       *)
LEMMA PublishedKinds ==
  ASSUME MailType, NEW i \in Ids, NEW outcome \in {"confirmed", "unconfirmed", "refused"},
         Published(i, outcome), UNCHANGED <<publishing, known, cut>>
  PROVE  MailType'
  BY DEF MailType, Published, Told, Receipts

(* Each step leaves values of their kinds. *)
LEMMA TypesHold ==
  ASSUME Types, LockInv, DrainInv, TurnInv, [Next]_vars
  PROVE  Types'
<1> USE DEF Types
<1>u. ASSUME UNCHANGED vars
      PROVE  Types'
  BY <1>u DEF vars, mailbox, journal, agent, MailType, HistoryType, TurnType, AskType, QueueType
<1>l. lock \in Seq({"turn", "drain", "close"}) /\ drains \in Seq(Drains)
  BY DEF QueueType
<1>a. \A task \in {"turn", "drain", "close"} :
        Wait(task) => lock' \in Seq({"turn", "drain", "close"})
  BY <1>l, SequenceKinds DEF Wait
<1>t. lock # <<>> /\ lock' = Tail(lock) => lock' \in Seq({"turn", "drain", "close"})
  BY <1>l, SequenceKinds
<1>d. drains # <<>> /\ DrainEnds => drains' \in Seq(Drains) /\ AskType'
  <2>1. drains # <<>> => First.by \in Callers /\ Tail(drains) \in Seq(Drains)
    BY <1>l, FirstKinds, SequenceKinds
  <2> QED BY <2>1 DEF DrainEnds, AskType
<1>f. DrainsFail => drains' \in Seq(Drains) /\ AskType'
  <2>1. <<>> \in Seq(Drains)
    OBVIOUS
  <2> QED BY <2>1 DEF DrainsFail, AskType
<1>1. ASSUME NEW enabled \in BOOLEAN, Begin(enabled)
      PROVE  Types'
  <2>1. Wait("turn") /\ UNCHANGED <<mailbox, journal, drains, cut>>
    BY <1>1 DEF Begin
  <2>2. QueueType' /\ MailType' /\ HistoryType'
    BY <1>a, <2>1 DEF QueueType, mailbox, journal, MailType, HistoryType
  <2>3. AskType' /\ TurnType'
    BY <1>1 DEF Begin, AskType, Callers, TurnType, TurnSet, Phases
  <2> QED BY <2>2, <2>3
<1>2. ASSUME SetupFails
      PROVE  Types'
  <2>1. UNCHANGED <<mailbox, journal, drains, lock, cut>>
    BY <1>2 DEF SetupFails
  <2>2. QueueType' /\ MailType' /\ HistoryType'
    BY <2>1 DEF QueueType, mailbox, journal, MailType, HistoryType
  <2>3. AskType' /\ TurnType'
    BY <1>2 DEF SetupFails, AskType, Callers, TurnType, TurnSet, Phases, NoTurn
  <2> QED BY <2>2, <2>3
<1>h. /\ Append(history, 0) \in Seq(0 .. Instructions)
      /\ Len(Append(history, 0)) \in Nat /\ Len(history) \in Nat
      /\ \A h \in Seq(0 .. Instructions) :
           /\ WithCorrections(h) \in Seq(0 .. Instructions) /\ Len(WithCorrections(h)) \in Nat
           /\ SteeredAt(h) \subseteq Ids \X Nat
  <2>1. history \in Seq(0 .. Instructions) /\ 0 \in 0 .. Instructions
    BY BoundsAreNumbers DEF HistoryType
  <2>2. Corrections \in Seq(Ids)
    <3>1. Steering \in SUBSET Ids
      BY TurnKinds
    <3>2. Corrections \in Seq(Steering)
      BY <3>1, OrderHoldsEachOnce DEF Corrections
    <3> QED BY <3>1, <3>2
  <2>3. Corrections \in Seq(0 .. Instructions)
    <3>1. Ids \subseteq 0 .. Instructions
      BY DEF Ids
    <3> QED BY ONLY <2>2, <3>1, WiderSequence
  <2>4. ASSUME NEW h \in Seq(0 .. Instructions)
        PROVE  SteeredAt(h) \subseteq Ids \X Nat
    <3>1. \A n \in DOMAIN Corrections : Corrections[n] \in Ids /\ Len(h) + n \in Nat
      BY <2>2
    <3>2. turn.steered \subseteq Ids \X Nat
      BY TurnKinds
    <3> QED BY <3>1, <3>2 DEF SteeredAt
  <2>5. \A h \in Seq(0 .. Instructions) :
          WithCorrections(h) \in Seq(0 .. Instructions) /\ Len(WithCorrections(h)) \in Nat
    BY <2>3, SequenceKinds DEF WithCorrections
  <2>6. Append(history, 0) \in Seq(0 .. Instructions) /\ Len(history) \in Nat
        /\ Len(Append(history, 0)) \in Nat
    BY <2>1, SequenceKinds
  <2> QED BY <2>4, <2>5, <2>6
<1>3. ASSUME Admit
      PROVE  Types'
  <2>1. UNCHANGED <<mailbox, known, agent, cut>> /\ history' = Append(history, 0)
    BY <1>3 DEF Admit
  <2>2. QueueType' /\ MailType' /\ HistoryType' /\ AskType'
    BY <1>h, <2>1 DEF QueueType, mailbox, agent, MailType, HistoryType, AskType
  <2>3. TurnType'
    BY <1>3, <1>h, BoundsAreNumbers DEF Admit, TurnType, TurnSet, Phases
  <2> QED BY <2>2, <2>3
<1>4. ASSUME ToolsDone
      PROVE  Types'
  <2>1. UNCHANGED <<mailbox, known, drains, lock, cut>> /\ history' = Append(history, 0)
    BY <1>4 DEF ToolsDone
  <2>2. QueueType' /\ MailType' /\ HistoryType'
    BY <1>h, <2>1 DEF QueueType, mailbox, MailType, HistoryType
  <2>3. TurnType'
    <3>1. Len(history) + 1 \in Nat
      BY <1>h
    <3> QED BY <1>4, <3>1 DEF ToolsDone, TurnType, TurnSet, Phases
  <2>4. AskType'
    BY <1>4 DEF ToolsDone, AskType, Callers
  <2> QED BY <2>2, <2>3, <2>4
<1>5. ASSUME NEW read \in BOOLEAN, AnswerGiven(read)
      PROVE  Types'
  <2> DEFINE h == Append(history, 0)
             more == read /\ turn.rounds > 0 /\ Steering # {}
  <2>1. /\ UNCHANGED <<mailbox, known, ask, drains, cut>>
        /\ history' = IF more THEN WithCorrections(h) ELSE h
        /\ lock' = IF more THEN lock ELSE Tail(lock)
        /\ turn' = IF more
             THEN [turn EXCEPT !.pc = "step", !.steered = SteeredAt(h), !.checkpoint = Len(history')]
             ELSE [turn EXCEPT !.pc = "ended", !.finished = TRUE]
    BY <1>5 DEF AnswerGiven
  <2>2. lock # <<>>
    BY <1>5 DEF AnswerGiven, LockInv, Running
  <2>3. h \in Seq(0 .. Instructions) /\ history' \in Seq(0 .. Instructions)
        /\ Len(history') \in Nat /\ SteeredAt(h) \subseteq Ids \X Nat
    BY <1>h, <2>1
  <2>4. QueueType' /\ MailType' /\ HistoryType' /\ AskType'
    BY <1>l, <1>t, <2>1, <2>2, <2>3 DEF QueueType, mailbox, MailType, HistoryType, AskType
  <2> HIDE DEF h, more
  <2>5. TurnType'
    BY <2>1, <2>3 DEF TurnType, TurnSet, Phases
  <2> QED BY <2>4, <2>5
<1>6. ASSUME Exhausted
      PROVE  Types'
  <2>1. /\ UNCHANGED <<mailbox, known, ask, drains, cut>>
        /\ history' = Append(history, 0) /\ lock' = Tail(lock)
    BY <1>6 DEF Exhausted
  <2>2. lock # <<>>
    BY <1>6 DEF Exhausted, LockInv, Running
  <2>3. QueueType' /\ MailType' /\ HistoryType' /\ AskType'
    BY <1>l, <1>t, <1>h, <2>1, <2>2 DEF QueueType, mailbox, MailType, HistoryType, AskType
  <2>4. TurnType'
    BY <1>6 DEF Exhausted, TurnType, TurnSet, Phases
  <2> QED BY <2>3, <2>4
<1>7. ASSUME NEW read \in BOOLEAN, Step(read)
      PROVE  Types'
  <2>1. /\ UNCHANGED <<mailbox, known, agent, cut>>
        /\ history' = IF read THEN WithCorrections(history) ELSE history
        /\ turn.rounds > 0
        /\ turn' = [turn EXCEPT !.pc = "answer", !.rounds = @ - 1,
                                !.steered = IF read THEN SteeredAt(history) ELSE @]
    BY <1>7 DEF Step
  <2>2. history \in Seq(0 .. Instructions)
    BY DEF HistoryType
  <2>3. QueueType' /\ MailType' /\ HistoryType' /\ AskType'
    BY <1>h, <2>1, <2>2 DEF QueueType, mailbox, agent, MailType, HistoryType, AskType
  <2>4. turn.rounds - 1 \in Nat
    BY <2>1, TurnKinds
  <2>5. SteeredAt(history) \subseteq Ids \X Nat
    BY <1>h, <2>2
  <2>6. TurnType'
    BY <2>1, <2>4, <2>5 DEF TurnType, TurnSet, Phases
  <2> QED BY <2>3, <2>6
<1>8. ASSUME NEW reads \in BOOLEAN, CallTools(reads)
      PROVE  Types'
  <2>1. UNCHANGED <<mailbox, known, lock, cut>> /\ history' = Append(history, 0)
    BY <1>8 DEF CallTools
  <2>2. AskType' /\ drains' \in Seq(Drains)
    <3>1. "tool" \in Callers
      BY DEF Callers
    <3> QED BY <1>8, <1>l, <3>1, GetAgentKinds DEF CallTools, AskType
  <2>3. QueueType' /\ MailType' /\ HistoryType'
    BY <1>h, <2>1, <2>2 DEF QueueType, mailbox, MailType, HistoryType
  <2>4. TurnType'
    BY <1>8 DEF CallTools, TurnType, TurnSet, Phases
  <2> QED BY <2>2, <2>3, <2>4
<1>9. ASSUME NEW keep \in BOOLEAN, Fail(keep)
      PROVE  Types'
  <2>1. /\ UNCHANGED <<mailbox, known, ask, drains, cut>> /\ lock' = Tail(lock)
        /\ history' = IF keep THEN history ELSE
             SubSeq(history, 1, IF turn.pc = "tool" THEN turn.before ELSE turn.checkpoint)
    BY <1>9 DEF Fail
  <2>2. lock # <<>> /\ Running
    BY <1>9 DEF Fail, LockInv, Running
  <2>3. /\ turn.before \in Nat /\ turn.before <= Len(history)
        /\ turn.checkpoint \in Nat /\ turn.checkpoint <= Len(history)
    BY <2>2, <1>h, TurnKinds DEF TurnInv
  <2>4. HistoryType'
    BY <2>1, <2>3, SequenceKinds DEF HistoryType
  <2>5. QueueType' /\ MailType' /\ AskType'
    BY <1>l, <1>t, <2>1, <2>2 DEF QueueType, mailbox, MailType, AskType
  <2>6. TurnType'
    BY <1>9 DEF Fail, TurnType, TurnSet, Phases
  <2> QED BY <2>4, <2>5, <2>6
<1>10. ASSUME NEW stuck \in SUBSET Ids, NEW synced \in BOOLEAN, Settle(stuck, synced)
       PROVE  Types'
  <2>1. /\ UNCHANGED <<receipt, publishing, journal, agent>> /\ turn' = NoTurn
        /\ cut' = cut \cup stuck
        /\ visible' \subseteq visible /\ durable' \subseteq durable \cup visible
    BY <1>10 DEF Settle, Acknowledged
  <2>2. TurnType'
    BY <2>1 DEF TurnType, TurnSet, Phases, NoTurn
  <2> QED BY <2>1, <2>2 DEF QueueType, journal, agent, MailType, HistoryType, AskType
<1>11. ASSUME ListPending
       PROVE  Types'
  <2>1. UNCHANGED <<mailbox, journal, turn, cut>> /\ drains # <<>>
    BY <1>11 DEF ListPending
  <2>2. MailType' /\ HistoryType' /\ TurnType'
    BY <2>1 DEF mailbox, journal, MailType, HistoryType, TurnType
  <2>3. CASE SkipsDrain \/ visible = {}
    <3>1. DrainEnds /\ UNCHANGED lock
      BY <1>11, <2>3 DEF ListPending
    <3> QED BY <1>d, <2>1, <2>2, <3>1 DEF QueueType
  <2>4. CASE ~ (SkipsDrain \/ visible = {})
    <3>1. /\ drains' = [drains EXCEPT ![1].at = "ingest", ![1].todo = Pending]
          /\ Wait("drain") /\ UNCHANGED ask
      BY <1>11, <2>4 DEF ListPending
    <3>2. Pending \in Seq(Ids)
      <4>1. visible \in SUBSET Ids
        BY DEF MailType
      <4>2. Pending \in Seq(visible)
        BY <4>1, OrderHoldsEachOnce DEF Pending
      <4> QED BY <4>1, <4>2
    <3>3. drains' \in Seq(Drains)
      BY <2>1, <3>1, <3>2, FirstGoesOn
    <3> QED BY <1>a, <2>2, <3>1, <3>3 DEF QueueType, AskType
  <2> QED BY <2>3, <2>4
<1>12. ASSUME ListFails
       PROVE  Types'
  <2>1. UNCHANGED <<mailbox, journal, turn, lock, cut>> /\ DrainsFail
    BY <1>12 DEF ListFails
  <2> QED BY <1>f, <2>1 DEF mailbox, journal, MailType, HistoryType, TurnType, QueueType
<1>13. ASSUME Ingest
       PROVE  Types'
  <2>1. /\ UNCHANGED <<mailbox, turn, ask, cut>> /\ drains # <<>> /\ First.at = "ingest"
        /\ history' = IF IsNew(Head(First.todo)) THEN Append(history, Head(First.todo)) ELSE history
        /\ known' = known \cup {Head(First.todo)}
        /\ lock' = Tail(lock) /\ drains' = [drains EXCEPT ![1].at = "ack"]
    BY <1>13 DEF Ingest
  <2>2. Head(First.todo) \in Ids
    <3>1. First = drains[1] /\ drains[1].todo \in Seq(Ids) /\ 1 \in DOMAIN drains
      BY <1>l, <2>1, FirstKinds
    <3>2. drains[1].todo # <<>>
      BY <2>1, <3>1 DEF DrainInv
    <3> QED BY <3>1, <3>2, SequenceKinds
  <2>3. lock # <<>>
    <3>1. drains[1].at = "ingest"
      BY <2>1, FirstKinds
    <3> QED BY <2>1, <3>1 DEF LockInv
  <2>4. HistoryType'
    <3>1. Head(First.todo) \in 0 .. Instructions
      BY <2>2 DEF Ids
    <3> QED BY <2>1, <3>1, SequenceKinds DEF HistoryType
  <2>5. drains' \in Seq(Drains)
    <3>1. drains[1].todo \in Seq(Ids)
      BY <2>1, FirstKinds
    <3> QED BY <2>1, <3>1, FirstWaits, FirstGoesOn
  <2>6. QueueType'
    BY <1>t, <2>1, <2>3, <2>5 DEF QueueType
  <2> QED BY <2>1, <2>2, <2>4, <2>6 DEF mailbox, MailType, TurnType, AskType
<1>14. ASSUME Closed
       PROVE  Types'
  BY <1>14, <1>t, <1>l
     DEF Closed, mailbox, journal, MailType, HistoryType, TurnType, QueueType, AskType
<1>15. ASSUME LookDone
       PROVE  Types'
  BY <1>15 DEF LookDone, mailbox, journal, MailType, HistoryType, TurnType, QueueType, AskType
<1>16. ASSUME NEW removed \in BOOLEAN, NEW synced \in BOOLEAN, AckDrained(removed, synced)
       PROVE  Types'
  <2> DEFINE rest == Tail(First.todo)
  <2>1. /\ UNCHANGED <<receipt, publishing, journal, turn, cut>>
        /\ drains # <<>> /\ First.at = "ack"
        /\ visible' \subseteq visible /\ durable' \subseteq durable \cup visible
        /\ IF ~synced THEN DrainsFail /\ UNCHANGED lock
           ELSE IF rest = <<>> THEN DrainEnds /\ UNCHANGED lock
           ELSE /\ drains' = [drains EXCEPT ![1].at = "ingest", ![1].todo = rest]
                /\ Wait("drain") /\ UNCHANGED ask
    BY <1>16 DEF AckDrained, Acknowledged
  <2>2. MailType' /\ HistoryType' /\ TurnType'
    BY <2>1 DEF journal, MailType, HistoryType, TurnType
  <2>3. rest \in Seq(Ids)
    <3>1. First = drains[1] /\ drains[1].todo \in Seq(Ids) /\ 1 \in DOMAIN drains
      BY <1>l, <2>1, FirstKinds
    <3>2. drains[1].todo # <<>>
      BY <2>1, <3>1 DEF DrainInv
    <3> QED BY <3>1, <3>2, SequenceKinds
  <2> HIDE DEF rest
  <2>4. CASE ~synced \/ rest = <<>>
    BY <1>d, <1>f, <1>l, <2>1, <2>2, <2>4 DEF QueueType
  <2>5. CASE synced /\ rest # <<>>
    <3>1. drains' \in Seq(Drains)
      <4>1. drains' = [drains EXCEPT ![1].at = "ingest", ![1].todo = rest] /\ drains # <<>>
        BY <2>1, <2>5
      <4> QED BY ONLY <2>3, <4>1, Types, FirstGoesOn
    <3> QED BY <1>a, <2>1, <2>2, <2>5, <3>1 DEF QueueType, AskType
  <2> QED BY <2>4, <2>5
<1>17. ASSUME NEW c \in Callers, GetAgent(c), UNCHANGED <<mailbox, journal, turn, lock, cut>>
       PROVE  Types'
  BY <1>17, <1>l, GetAgentKinds DEF mailbox, journal, MailType, HistoryType, TurnType, QueueType
<1>18. ASSUME StartTurn
       PROVE  Types'
  <2>1. /\ GetAgent("turn") /\ UNCHANGED <<mailbox, journal, lock, cut>>
        /\ turn' = [NoTurn EXCEPT !.pc = "setup"]
    BY <1>18 DEF StartTurn
  <2>2. TurnType'
    BY <2>1 DEF TurnType, TurnSet, Phases, NoTurn
  <2>3. "turn" \in Callers
    BY DEF Callers
  <2> QED BY <1>l, <2>1, <2>2, <2>3, GetAgentKinds
          DEF mailbox, journal, MailType, HistoryType, QueueType
<1>19. ASSUME Retire
       PROVE  Types'
  <2>1. Wait("close") /\ UNCHANGED <<mailbox, journal, turn, ask, drains, cut>>
    BY <1>19 DEF Retire
  <2> QED BY <1>a, <2>1
          DEF mailbox, journal, MailType, HistoryType, TurnType, QueueType, AskType
<1>20. ASSUME Link
       PROVE  Types'
  <2>1. NextId \in Ids
    BY <1>20, NextIsNew DEF Link
  <2>2. MailType'
    BY <1>20, <2>1, BoundsAreNumbers DEF Link, journal, MailType, Ids
  <2> QED BY <1>20, <2>2 DEF Link, journal, agent, HistoryType, TurnType, QueueType, AskType
<1>21. ASSUME NEW outcome \in {"confirmed", "unconfirmed", "refused"}, Steer(outcome)
       PROVE  Types'
  <2>1. NextId \in Ids
    BY <1>21, NextIsNew DEF Steer
  <2>2. MailType'
    <3>1. Published(NextId, outcome) /\ UNCHANGED <<publishing, known, cut>>
      BY <1>21 DEF Steer, journal
    <3> QED BY <2>1, <3>1, PublishedKinds
  <2>3. TurnType'
    BY <1>21, <2>1 DEF Steer, TurnType, TurnSet
  <2> QED BY <1>21, <2>2, <2>3 DEF Steer, journal, agent, HistoryType, QueueType, AskType
<1>22. ASSUME NEW outcome \in {"confirmed", "unconfirmed", "refused"}, SyncLink(outcome)
       PROVE  Types'
  <2>1. MailType'
    BY <1>22, BoundsAreNumbers DEF SyncLink, Told, journal, MailType, Ids, Receipts
  <2> QED BY <1>22, <2>1 DEF SyncLink, journal, agent, HistoryType, TurnType, QueueType, AskType
<1>23. ASSUME NEW keep \in BOOLEAN, NEW power \in BOOLEAN, Crash(keep, power)
       PROVE  Types'
  <2>1. /\ UNCHANGED <<receipt, known>> /\ turn' = NoTurn
        /\ ask' = [c \in Callers |-> "none"] /\ drains' = <<>> /\ lock' = <<>>
        /\ cut' = cut \cup Steered \cup (IF power THEN durable \ visible ELSE {})
        /\ history' = IF Running /\ ~keep THEN SubSeq(history, 1, turn.before) ELSE history
        /\ visible' \subseteq visible \cup durable /\ durable' \subseteq visible \cup durable
        /\ publishing' \in {0, publishing}
    BY <1>23 DEF Crash, Steered, Running
  <2>2. MailType'
    BY <2>1, TurnKinds, BoundsAreNumbers DEF MailType
  <2>3. Running => turn.before \in Nat /\ turn.before <= Len(history)
    BY <1>h, TurnKinds DEF TurnInv
  <2>4. HistoryType'
    BY <2>1, <2>3, SequenceKinds DEF HistoryType
  <2>5. TurnType'
    BY <2>1 DEF TurnType, TurnSet, Phases, NoTurn
  <2>6. AskType' /\ QueueType'
    BY <2>1 DEF AskType, QueueType
  <2> QED BY <2>2, <2>4, <2>5, <2>6
<1>24. \A c \in Callers : AgentBuilt(c) => Types'
  BY <1>17 DEF AgentBuilt
<1>25. Look => Types'
  <2>1. "look" \in Callers
    BY DEF Callers
  <2> QED BY <2>1, <1>17 DEF Look
<1>26. ASSUME SetupAborted
       PROVE  Types'
  <2>1. UNCHANGED <<mailbox, journal, agent, cut>> /\ turn' = NoTurn
    BY <1>26 DEF SetupAborted
  <2>2. TurnType'
    BY <2>1 DEF TurnType, TurnSet, Phases, NoTurn
  <2> QED BY <2>1, <2>2 DEF mailbox, journal, agent, MailType, HistoryType, QueueType, AskType
<1>27. ASSUME SetupUnheeded
       PROVE  Types'
  BY <1>27 DEF SetupUnheeded, mailbox, journal, MailType, HistoryType, TurnType, QueueType, AskType
<1>28. ASSUME StopsWaiting
       PROVE  Types'
  <2>1. /\ UNCHANGED <<mailbox, journal, ask, drains, cut>> /\ turn' = [turn EXCEPT !.pc = "ended"]
        /\ \E n \in DOMAIN lock : lock' = RemoveAt(lock, n)
    BY <1>28 DEF StopsWaiting
  <2>2. QueueType'
    BY <1>l, <2>1, PlaceGivenUp DEF QueueType
  <2>3. TurnType'
    BY <2>1 DEF TurnType, TurnSet, Phases
  <2> QED BY <2>1, <2>2, <2>3 DEF mailbox, journal, MailType, HistoryType, AskType
<1>29. TurnStep => Types'
  BY <1>26, <1>27, <1>28, <1>1, <1>2, <1>3, <1>4, <1>5, <1>6, <1>7, <1>8, <1>9, <1>10 DEF TurnStep
<1>30. DrainStep => Types'
  BY <1>11, <1>12, <1>13, <1>14, <1>15, <1>16, <1>24 DEF DrainStep
<1>31. Others => Types'
  BY <1>18, <1>19, <1>20, <1>21, <1>22, <1>23, <1>25 DEF Others
<1> QED BY <1>u, <1>29, <1>30, <1>31 DEF Next

-----------------------------------------------------------------------------
(* The chain of drains and the turn lock                                   *)

Waits == drains # <<>> /\ drains[1].at = "ingest"

(* No drain begins or goes on with its work.                                *)
NoNewWork ==
  drains' # <<>> /\ drains'[1].at # "start" => drains # <<>> /\ drains'[1] = drains[1]

(* A drain that is added to the chain waits its turn.                       *)
LEMMA DrainAdded ==
  ASSUME QueueType, DrainInv, NEW c \in Callers,
         drains' = Append(drains, [by |-> c, at |-> "start", todo |-> <<>>])
  PROVE  DrainInv' /\ NoNewWork /\ (Waits' <=> Waits)
<1> DEFINE new == [by |-> c, at |-> "start", todo |-> <<>>]
<1>1. drains \in Seq(Drains) /\ Len(drains) \in Nat /\ DOMAIN drains = 1 .. Len(drains)
  BY DEF QueueType
<1>2. new.at = "start" /\ new.todo = <<>>
  OBVIOUS
<1> HIDE DEF new
<1>3. /\ DOMAIN drains' = 1 .. Len(drains) + 1 /\ drains'[Len(drains) + 1] = new
      /\ \A n \in 1 .. Len(drains) : drains'[n] = drains[n]
      /\ drains' # <<>>
  BY <1>1 DEF new
<1>4. drains = <<>> <=> Len(drains) = 0
  BY <1>1
<1>5. DrainInv'
  <2>1. \A n \in DOMAIN drains' : (n \in DOMAIN drains /\ drains'[n] = drains[n]) \/ drains'[n] = new
    BY <1>1, <1>3
  <2> QED BY <1>2, <2>1 DEF DrainInv
<1>6. NoNewWork /\ (Waits' <=> Waits)
  <2>1. CASE drains = <<>>
    <3>1. drains'[1] = new
      BY <1>3, <1>4, <2>1
    <3> QED BY <1>2, <2>1, <3>1 DEF NoNewWork, Waits
  <2>2. CASE drains # <<>>
    <3>1. drains'[1] = drains[1]
      BY <1>1, <1>3, <1>4, <2>2
    <3> QED BY <1>3, <2>2, <3>1 DEF NoNewWork, Waits
  <2> QED BY <2>1, <2>2
<1> QED BY <1>5, <1>6

(* When the first drain ends the next one has not begun.                    *)
LEMMA DrainLeaves ==
  ASSUME QueueType, DrainInv, drains # <<>>, drains' = Tail(drains)
  PROVE  DrainInv' /\ NoNewWork /\ ~Waits'
<1>1. drains \in Seq(Drains) /\ Len(drains) \in Nat /\ DOMAIN drains = 1 .. Len(drains)
  BY DEF QueueType
<1>2. /\ DOMAIN drains' = 1 .. Len(drains) - 1
      /\ \A n \in 1 .. Len(drains) - 1 : drains'[n] = drains[n + 1]
      /\ drains' # <<>> => 1 \in DOMAIN drains'
  BY <1>1
<1>3. \A n \in DOMAIN drains' : drains'[n].at = "start" /\ drains'[n].todo = <<>>
  <2> TAKE n \in DOMAIN drains'
  <2>1. n + 1 \in DOMAIN drains /\ n + 1 # 1 /\ drains'[n] = drains[n + 1]
    BY <1>1, <1>2
  <2> QED BY <2>1 DEF DrainInv
<1> QED BY <1>2, <1>3 DEF DrainInv, NoNewWork, Waits

(* The first drain has something to do.                                     *)
LEMMA DrainWorks ==
  ASSUME QueueType, DrainInv, drains # <<>>, NEW at \in {"ingest", "ack"},
         NEW todo \in Seq(Ids), todo # <<>>,
         drains' = [drains EXCEPT ![1].at = at, ![1].todo = todo]
  PROVE  /\ DrainInv' /\ drains' # <<>> /\ drains'[1].at = at /\ drains'[1].todo = todo
         /\ Waits' <=> at = "ingest"
<1>0. at \in {"start", "ingest", "ack"}
  OBVIOUS
<1>1. /\ drains' # <<>> /\ DOMAIN drains' = DOMAIN drains
      /\ drains'[1].at = at /\ drains'[1].todo = todo
      /\ \A n \in DOMAIN drains : n # 1 => drains'[n] = drains[n]
  <2> DEFINE on == [drains EXCEPT ![1].at = at, ![1].todo = todo]
  <2>1. /\ on # <<>> /\ DOMAIN on = DOMAIN drains /\ on[1].at = at /\ on[1].todo = todo
        /\ \A n \in DOMAIN drains : n # 1 => on[n] = drains[n]
    BY ONLY QueueType, drains # <<>>, at \in {"start", "ingest", "ack"}, todo \in Seq(Ids),
            FirstGoesOn, <1>0
  <2>2. drains' = on
    OBVIOUS
  <2> HIDE DEF on
  <2> QED BY ONLY <2>1, <2>2
<1>2. DrainInv'
  <2>1. at # "start"
    OBVIOUS
  <2> QED BY <1>1, <2>1 DEF DrainInv
<1> QED BY <1>1, <1>2 DEF Waits

(* Nothing is done about the drains, or they all fail.                      *)
LEMMA DrainsRest ==
  ASSUME DrainInv, drains' = drains \/ drains' = <<>>
  PROVE  DrainInv' /\ NoNewWork /\ (Waits' => Waits) /\ (drains' = drains => (Waits' <=> Waits))
BY DEF DrainInv, NoNewWork, Waits

(* Whoever asks for the agent leaves the drain under way alone.             *)
LEMMA AskingWaits ==
  ASSUME QueueType, AskType, DrainInv, NEW c \in Callers, GetAgent(c)
  PROVE  DrainInv' /\ NoNewWork /\ (Waits' <=> Waits)
<1>1. drains' = drains \/ drains' = Append(drains, [by |-> c, at |-> "start", todo |-> <<>>])
  BY GetAgentKinds
<1> QED BY <1>1, DrainAdded, DrainsRest

(* The lock is not touched.                                                 *)
LEMMA LockSame ==
  ASSUME LockInv, UNCHANGED lock, Waits' <=> Waits, Running' => Running,
         turn'.pc = "lock" => turn.pc = "lock"
  PROVE  LockInv'
BY DEF LockInv, Waits

(* A task queues up for the lock.                                           *)
LEMMA LockQueued ==
  ASSUME QueueType, LockInv, NEW task \in {"turn", "drain", "close"}, Wait(task),
         Running' => Running, turn'.pc = "lock" => turn.pc = "lock" \/ task = "turn",
         Waits' <=> Waits \/ task = "drain", task = "drain" => ~Waits
  PROVE  LockInv'
<1>1. lock \in Seq({"turn", "drain", "close"}) /\ Len(lock) \in Nat /\ DOMAIN lock = 1 .. Len(lock)
  BY DEF QueueType
<1>2. /\ DOMAIN lock' = 1 .. Len(lock) + 1 /\ lock'[Len(lock) + 1] = task /\ lock' # <<>>
      /\ \A n \in 1 .. Len(lock) : lock'[n] = lock[n]
  BY <1>1 DEF Wait
<1>3. lock # <<>> => lock'[1] = lock[1]
  BY <1>1, <1>2
<1>4. (\E n \in DOMAIN lock : lock[n] = "drain") <=> Waits
  BY DEF LockInv, Waits
<1>5. \A t \in {"turn", "drain"} : (\E n \in DOMAIN lock' : lock'[n] = t)
                                   <=> (\E n \in DOMAIN lock : lock[n] = t) \/ task = t
  <2>1. \A n \in DOMAIN lock : n \in DOMAIN lock' /\ lock'[n] = lock[n]
    BY <1>1, <1>2
  <2>2. \A n \in DOMAIN lock' : (n \in DOMAIN lock /\ lock'[n] = lock[n]) \/ lock'[n] = task
    BY <1>1, <1>2
  <2>3. \E n \in DOMAIN lock' : lock'[n] = task
    <3>1. Len(lock) + 1 \in DOMAIN lock'
      BY <1>1, <1>2
    <3> QED BY <1>2, <3>1
  <2> QED BY <2>1, <2>2, <2>3
<1>6. \A m, n \in DOMAIN lock' : lock'[m] = "drain" /\ lock'[n] = "drain" => m = n
  <2>1. CASE task = "drain"
    <3>1. \A n \in DOMAIN lock : lock[n] # "drain"
      BY <1>4, <2>1
    <3>2. \A n \in DOMAIN lock' : lock'[n] = "drain" => n = Len(lock) + 1
      BY <1>1, <1>2, <3>1
    <3> QED BY <3>2
  <2>2. CASE task # "drain"
    <3>1. \A n \in DOMAIN lock' : lock'[n] = "drain" => n \in DOMAIN lock /\ lock[n] = "drain"
      BY <1>1, <1>2, <2>2
    <3> QED BY <3>1 DEF LockInv
  <2> QED BY <2>1, <2>2
<1>7. Running' => lock' # <<>> /\ lock'[1] = "turn"
  BY <1>2, <1>3 DEF LockInv
<1>8. turn'.pc = "lock" => \E n \in DOMAIN lock' : lock'[n] = "turn"
  BY <1>5 DEF LockInv
<1>9. (\E n \in DOMAIN lock' : lock'[n] = "drain") <=> Waits'
  BY <1>4, <1>5
<1> QED BY <1>6, <1>7, <1>8, <1>9 DEF LockInv, Waits

(* The lock is passed on.                                                   *)
LEMMA LockPassed ==
  ASSUME QueueType, LockInv, lock # <<>>, lock' = Tail(lock), ~Running',
         turn'.pc = "lock" => turn.pc = "lock" /\ lock[1] # "turn",
         lock[1] = "drain" => ~Waits', lock[1] # "drain" => (Waits' <=> Waits)
  PROVE  LockInv'
<1>1. lock \in Seq({"turn", "drain", "close"}) /\ Len(lock) \in Nat /\ DOMAIN lock = 1 .. Len(lock)
  BY DEF QueueType
<1>2. /\ DOMAIN lock' = 1 .. Len(lock) - 1
      /\ \A n \in 1 .. Len(lock) - 1 : lock'[n] = lock[n + 1]
  BY <1>1
<1>3. \A n \in DOMAIN lock' : n + 1 \in DOMAIN lock /\ lock'[n] = lock[n + 1] /\ n + 1 # 1
  BY <1>1, <1>2
<1>4. \A k \in DOMAIN lock : k # 1 => k - 1 \in DOMAIN lock' /\ lock'[k - 1] = lock[k]
  <2> SUFFICES ASSUME NEW k \in DOMAIN lock, k # 1
               PROVE  k - 1 \in DOMAIN lock' /\ lock'[k - 1] = lock[k]
    OBVIOUS
  <2>1. k - 1 \in 1 .. Len(lock) - 1 /\ (k - 1) + 1 = k
    BY <1>1
  <2> QED BY <1>2, <2>1
<1>5. \A m, n \in DOMAIN lock' : lock'[m] = "drain" /\ lock'[n] = "drain" => m = n
  <2> SUFFICES ASSUME NEW m \in DOMAIN lock', NEW n \in DOMAIN lock',
                      lock'[m] = "drain", lock'[n] = "drain"
               PROVE  m = n
    OBVIOUS
  <2>1. m + 1 = n + 1
    BY <1>3 DEF LockInv
  <2> QED BY <1>1, <1>2, <2>1
<1>6. (\E n \in DOMAIN lock : lock[n] = "drain") <=> Waits
  BY DEF LockInv, Waits
<1>7. (\E n \in DOMAIN lock' : lock'[n] = "drain") <=> Waits'
  <2>1. CASE lock[1] = "drain"
    <3>1. 1 \in DOMAIN lock
      BY <1>1
    <3>2. \A k \in DOMAIN lock : lock[k] = "drain" => k = 1
      BY <2>1, <3>1 DEF LockInv
    <3>3. \A n \in DOMAIN lock' : lock'[n] # "drain"
      BY <1>3, <3>2
    <3> QED BY <2>1, <3>3
  <2>2. CASE lock[1] # "drain"
    <3>1. (\E k \in DOMAIN lock : k # 1 /\ lock[k] = "drain") <=> Waits
      BY <1>6, <2>2
    <3>2. (\E n \in DOMAIN lock' : lock'[n] = "drain")
          <=> \E k \in DOMAIN lock : k # 1 /\ lock[k] = "drain"
      BY <1>3, <1>4
    <3> QED BY <2>2, <3>1, <3>2
  <2> QED BY <2>1, <2>2
<1>8. turn'.pc = "lock" => \E n \in DOMAIN lock' : lock'[n] = "turn"
  BY <1>4 DEF LockInv
<1> QED BY <1>5, <1>7, <1>8 DEF LockInv, Waits

(* The turn leaves the line for the lock.                                   *)
LEMMA LockLeft ==
  ASSUME QueueType, LockInv, NEW k \in DOMAIN lock, lock[k] = "turn",
         lock' = RemoveAt(lock, k), ~Running', turn'.pc # "lock", Waits' <=> Waits
  PROVE  LockInv'
<1>1. lock \in Seq({"turn", "drain", "close"}) /\ Len(lock) \in Nat /\ DOMAIN lock = 1 .. Len(lock)
  BY DEF QueueType
<1>2. /\ DOMAIN lock' = 1 .. Len(lock) - 1
      /\ \A n \in 1 .. Len(lock) - 1 : lock'[n] = IF n < k THEN lock[n] ELSE lock[n + 1]
  BY <1>1, PlaceGivenUp
<1> DEFINE was(n) == IF n < k THEN n ELSE n + 1
<1>3. \A n \in DOMAIN lock' : was(n) \in DOMAIN lock /\ lock'[n] = lock[was(n)]
  BY <1>1, <1>2
<1>4. ASSUME NEW m \in DOMAIN lock, lock[m] = "drain"
      PROVE  \E n \in DOMAIN lock' : lock'[n] = "drain"
  <2>1. CASE m < k
    BY <1>1, <1>2, <1>4, <2>1
  <2>2. CASE m > k
    <3>1. m - 1 \in 1 .. Len(lock) - 1 /\ ~ (m - 1 < k) /\ (m - 1) + 1 = m
      BY <1>1, <2>2
    <3> QED BY <1>2, <1>4, <3>1
  <2>3. m # k
    BY <1>4
  <2> QED BY <1>1, <2>1, <2>2, <2>3
<1>5. (\E n \in DOMAIN lock' : lock'[n] = "drain") <=> Waits'
  <2>1. (\E n \in DOMAIN lock : lock[n] = "drain") <=> Waits
    BY DEF LockInv, Waits
  <2> QED BY <1>3, <1>4, <2>1
<1>6. ASSUME NEW m \in DOMAIN lock', NEW n \in DOMAIN lock',
             lock'[m] = "drain", lock'[n] = "drain"
      PROVE  m = n
  <2>1. was(m) = was(n)
    BY <1>3, <1>6 DEF LockInv
  <2> QED BY <1>1, <1>2, <2>1
<1> QED BY <1>5, <1>6 DEF LockInv, Waits

(* What the first drain has to do, as its state says.                       *)
LEMMA WorkToDo ==
  ASSUME QueueType, DrainInv, drains # <<>>
  PROVE  /\ First = drains[1] /\ drains[1].todo \in Seq(Ids)
         /\ First.at # "start" <=> drains[1].todo # <<>>
         /\ drains[1].todo # <<>> =>
              /\ Head(First.todo) = drains[1].todo[1] /\ Head(First.todo) \in Ids
              /\ Tail(First.todo) \in Seq(Ids)
<1>1. First = drains[1] /\ drains[1].todo \in Seq(Ids) /\ 1 \in DOMAIN drains
  <2>1. drains \in Seq(Drains)
    BY DEF QueueType
  <2> QED BY <2>1, FirstKinds
<1>2. First.at # "start" <=> drains[1].todo # <<>>
  BY <1>1 DEF DrainInv
<1>3. drains[1].todo # <<>> =>
        /\ Head(drains[1].todo) = drains[1].todo[1] /\ Head(drains[1].todo) \in Ids
        /\ Tail(drains[1].todo) \in Seq(Ids)
  BY <1>1, SequenceKinds
<1> QED BY <1>1, <1>2, <1>3

(* Each step keeps the chain of drains and the turn lock in order. *)
LEMMA ChainHolds ==
  ASSUME Types, LockInv, DrainInv, TurnInv, [Next]_vars
  PROVE  LockInv' /\ DrainInv'
<1> USE DEF Types
<1>l. lock \in Seq({"turn", "drain", "close"}) /\ drains \in Seq(Drains) /\ TurnType
      /\ QueueType /\ AskType
  BY DEF QueueType
<1>h. /\ turn.pc \in Phases
      /\ \A pc \in Phases : [turn EXCEPT !.pc = pc].pc = pc
      /\ NoTurn.pc = "idle"
  BY TurnKinds DEF TurnType, TurnSet, NoTurn
<1>p. lock # <<>> => Head(lock) = lock[1]
  BY <1>l, SequenceKinds
<1>s. ASSUME UNCHANGED <<drains, lock>>, Running' => Running, turn'.pc = "lock" => turn.pc = "lock"
      PROVE  LockInv' /\ DrainInv'
  BY <1>s, DrainsRest, LockSame
<1>g. ASSUME NEW c \in Callers, GetAgent(c), UNCHANGED lock, Running' => Running,
             turn'.pc = "lock" => turn.pc = "lock"
      PROVE  LockInv' /\ DrainInv'
  BY <1>g, <1>l, AskingWaits, LockSame
<1>t. ASSUME UNCHANGED drains, lock # <<>>, lock' = Tail(lock), ~Running',
             turn'.pc = "lock" => turn.pc = "lock" /\ lock[1] # "turn", lock[1] # "drain"
      PROVE  LockInv' /\ DrainInv'
  BY <1>t, <1>l, DrainsRest, LockPassed
<1>1. ASSUME NEW enabled \in BOOLEAN, Begin(enabled)
      PROVE  LockInv' /\ DrainInv'
  <2>1. UNCHANGED drains /\ Wait("turn") /\ turn'.pc = "lock"
    BY <1>1, <1>l DEF Begin, TurnType, TurnSet
  <2>2. ~Running'
    BY <2>1 DEF Running
  <2> QED BY <1>l, <2>1, <2>2, DrainsRest, LockQueued
<1>2. ASSUME SetupFails
      PROVE  LockInv' /\ DrainInv'
  <2>1. UNCHANGED <<drains, lock>> /\ turn'.pc = "idle"
    BY <1>2, <1>h DEF SetupFails
  <2> QED BY <1>s, <2>1 DEF Running
<1>3. ASSUME Admit
      PROVE  LockInv' /\ DrainInv'
  <2>1. UNCHANGED <<drains, lock>> /\ turn.pc = "lock" /\ Head(lock) = "turn" /\ turn'.pc = "step"
    BY <1>3, <1>l DEF Admit, agent, TurnType, TurnSet
  <2>2. lock # <<>>
    BY <2>1 DEF LockInv
  <2>3. DrainInv' /\ (Waits' <=> Waits)
    BY <2>1, DrainsRest
  <2>4. LockInv'
    BY <1>p, <2>1, <2>2, <2>3 DEF LockInv, Waits
  <2> QED BY <2>3, <2>4
<1>4. ASSUME ToolsDone
      PROVE  LockInv' /\ DrainInv'
  <2>1. UNCHANGED <<drains, lock>> /\ turn'.pc = "step" /\ Running
    BY <1>4, <1>l DEF ToolsDone, TurnType, TurnSet, Running
  <2> QED BY <1>s, <2>1
<1>e. ASSUME Running, UNCHANGED drains, lock' = Tail(lock), turn'.pc = "ended"
      PROVE  LockInv' /\ DrainInv'
  <2>1. lock # <<>> /\ lock[1] = "turn"
    BY <1>e DEF LockInv
  <2>2. ~Running'
    BY <1>e DEF Running
  <2> QED BY ONLY <1>t, <1>e, <2>1, <2>2
<1>5. ASSUME NEW read \in BOOLEAN, AnswerGiven(read)
      PROVE  LockInv' /\ DrainInv'
  <2> DEFINE more == read /\ turn.rounds > 0 /\ Steering # {}
  <2>1. /\ UNCHANGED drains /\ Running
        /\ lock' = IF more THEN lock ELSE Tail(lock)
        /\ turn'.pc = IF more THEN "step" ELSE "ended"
    BY <1>5, <1>l DEF AnswerGiven, TurnType, TurnSet, Running
  <2> HIDE DEF more
  <2>2. CASE more
    BY <1>s, <2>1, <2>2
  <2>3. CASE ~more
    BY <1>e, <2>1, <2>3
  <2> QED BY <2>2, <2>3
<1>6. ASSUME Exhausted
      PROVE  LockInv' /\ DrainInv'
  <2>1. Running /\ UNCHANGED drains /\ lock' = Tail(lock) /\ turn'.pc = "ended"
    BY <1>6, <1>l DEF Exhausted, TurnType, TurnSet, Running
  <2> QED BY <1>e, <2>1
<1>7. ASSUME NEW read \in BOOLEAN, Step(read)
      PROVE  LockInv' /\ DrainInv'
  <2>1. UNCHANGED <<drains, lock>> /\ turn'.pc = "answer" /\ Running
    BY <1>7, <1>l DEF Step, agent, TurnType, TurnSet, Running
  <2> QED BY <1>s, <2>1
<1>8. ASSUME NEW reads \in BOOLEAN, CallTools(reads)
      PROVE  LockInv' /\ DrainInv'
  <2>1. UNCHANGED lock /\ turn'.pc = "tool" /\ Running
        /\ (GetAgent("tool") \/ UNCHANGED drains)
    BY <1>8, <1>l DEF CallTools, TurnType, TurnSet, Running
  <2>2. "tool" \in Callers
    BY DEF Callers
  <2> QED BY <1>s, <1>g, <2>1, <2>2
<1>9. ASSUME NEW keep \in BOOLEAN, Fail(keep)
      PROVE  LockInv' /\ DrainInv'
  <2>1. Running /\ UNCHANGED drains /\ lock' = Tail(lock) /\ turn'.pc = "ended"
    BY <1>9, <1>l DEF Fail, TurnType, TurnSet, Running
  <2> QED BY <1>e, <2>1
<1>10. ASSUME NEW stuck \in SUBSET Ids, NEW synced \in BOOLEAN, Settle(stuck, synced)
       PROVE  LockInv' /\ DrainInv'
  <2>1. UNCHANGED <<drains, lock>> /\ turn'.pc = "idle"
    BY <1>10, <1>h DEF Settle, agent
  <2> QED BY <1>s, <2>1 DEF Running
<1>q. ASSUME UNCHANGED turn
      PROVE  (Running' => Running) /\ (turn'.pc = "lock" => turn.pc = "lock")
  BY <1>q DEF Running
<1>11. ASSUME ListPending
       PROVE  LockInv' /\ DrainInv'
  <2>1. UNCHANGED turn /\ drains # <<>> /\ First.at = "start"
    BY <1>11 DEF ListPending
  <2>2. ~Waits
    BY <2>1, <1>l, WorkToDo DEF Waits
  <2>3. CASE SkipsDrain \/ visible = {}
    <3>1. drains' = Tail(drains) /\ UNCHANGED lock
      BY <1>11, <2>3 DEF ListPending, DrainEnds
    <3>2. DrainInv' /\ ~Waits'
      BY <1>l, <2>1, <3>1, DrainLeaves
    <3> QED BY <1>q, <2>1, <2>2, <3>1, <3>2, LockSame
  <2>4. CASE ~ (SkipsDrain \/ visible = {})
    <3>1. /\ drains' = [drains EXCEPT ![1].at = "ingest", ![1].todo = Pending]
          /\ Wait("drain") /\ visible # {}
      BY <1>11, <2>4 DEF ListPending
    <3>2. Pending \in Seq(Ids) /\ Pending # <<>>
      <4>1. visible \in SUBSET Ids
        BY DEF MailType
      <4>2. Pending \in Seq(visible) /\ Pending # <<>>
        BY <3>1, <4>1, OrderHoldsEachOnce DEF Pending
      <4> QED BY ONLY <4>1, <4>2, WiderSequence
    <3>3. DrainInv' /\ Waits'
      BY <1>l, <2>1, <3>1, <3>2, DrainWorks
    <3> QED BY <1>q, <1>l, <2>1, <2>2, <3>1, <3>3, LockQueued
  <2> QED BY <2>3, <2>4
<1>12. ASSUME ListFails
       PROVE  LockInv' /\ DrainInv'
  <2>1. UNCHANGED <<turn, lock>> /\ drains' = <<>> /\ drains # <<>> /\ First.at = "start"
    BY <1>12 DEF ListFails, DrainsFail
  <2>2. ~Waits
    BY <2>1, <1>l, WorkToDo DEF Waits
  <2>3. DrainInv' /\ ~Waits'
    BY <2>1, <2>2, DrainsRest
  <2> QED BY <1>q, <2>1, <2>2, <2>3, LockSame
<1>13. ASSUME Ingest
       PROVE  LockInv' /\ DrainInv'
  <2>1. /\ UNCHANGED turn /\ drains # <<>> /\ First.at = "ingest" /\ Head(lock) = "drain"
        /\ lock' = Tail(lock) /\ drains' = [drains EXCEPT ![1].at = "ack"]
    BY <1>13 DEF Ingest
  <2>2. drains[1].at = "ingest" /\ drains[1].todo \in Seq(Ids) /\ drains[1].todo # <<>>
    BY <1>l, <2>1, WorkToDo
  <2>3. lock # <<>> /\ lock[1] = "drain"
    <3>1. lock # <<>>
      BY <2>1, <2>2 DEF LockInv
    <3> QED BY <1>p, <2>1, <3>1
  <2>4. drains' = [drains EXCEPT ![1].at = "ack", ![1].todo = drains[1].todo]
    BY <1>l, <2>1, FirstWaits
  <2>5. DrainInv' /\ ~Waits'
    BY <1>l, <2>1, <2>2, <2>4, DrainWorks
  <2>6. ~Running /\ ~Running'
    <3>1. ~Running
      BY <2>3 DEF LockInv
    <3> QED BY <2>1, <3>1 DEF Running
  <2>7. LockInv'
    BY <1>l, <2>1, <2>3, <2>5, <2>6, LockPassed
  <2> QED BY <2>5, <2>7
<1>14. ASSUME Closed
       PROVE  LockInv' /\ DrainInv'
  <2>1. UNCHANGED <<turn, drains>> /\ lock # <<>> /\ lock' = Tail(lock) /\ lock[1] = "close"
    BY <1>14, <1>p DEF Closed
  <2>2. ~Running /\ ~Running'
    <3>1. ~Running
      BY <2>1 DEF LockInv
    <3> QED BY <2>1, <3>1 DEF Running
  <2> QED BY <1>q, <1>t, <2>1, <2>2
<1>15. ASSUME LookDone
       PROVE  LockInv' /\ DrainInv'
  BY <1>15, <1>s, <1>q DEF LookDone
<1>16. ASSUME NEW removed \in BOOLEAN, NEW synced \in BOOLEAN, AckDrained(removed, synced)
       PROVE  LockInv' /\ DrainInv'
  <2> DEFINE rest == Tail(First.todo)
  <2>1. /\ UNCHANGED turn /\ drains # <<>> /\ First.at = "ack"
        /\ IF ~synced THEN DrainsFail /\ UNCHANGED lock
           ELSE IF rest = <<>> THEN DrainEnds /\ UNCHANGED lock
           ELSE drains' = [drains EXCEPT ![1].at = "ingest", ![1].todo = rest] /\ Wait("drain")
    BY <1>16 DEF AckDrained
  <2>2. ~Waits /\ rest \in Seq(Ids)
    BY <1>l, <2>1, WorkToDo DEF Waits
  <2> HIDE DEF rest
  <2>3. CASE ~synced
    <3>1. drains' = <<>> /\ UNCHANGED lock
      BY <2>1, <2>3 DEF DrainsFail
    <3>2. DrainInv' /\ ~Waits'
      BY <2>2, <3>1, DrainsRest
    <3> QED BY <1>q, <2>1, <2>2, <3>1, <3>2, LockSame
  <2>4. CASE synced /\ rest = <<>>
    <3>1. drains' = Tail(drains) /\ UNCHANGED lock
      BY <2>1, <2>4 DEF DrainEnds
    <3>2. DrainInv' /\ ~Waits'
      BY <1>l, <2>1, <3>1, DrainLeaves
    <3> QED BY <1>q, <2>1, <2>2, <3>1, <3>2, LockSame
  <2>5. CASE synced /\ rest # <<>>
    <3>1. drains' = [drains EXCEPT ![1].at = "ingest", ![1].todo = rest] /\ Wait("drain")
      BY <2>1, <2>5
    <3>2. DrainInv' /\ Waits'
      BY <1>l, <2>1, <2>2, <2>5, <3>1, DrainWorks
    <3> QED BY <1>q, <1>l, <2>1, <2>2, <3>1, <3>2, LockQueued
  <2> QED BY <2>3, <2>4, <2>5
<1>17. ASSUME NEW c \in Callers, AgentBuilt(c)
       PROVE  LockInv' /\ DrainInv'
  BY <1>17, <1>g, <1>q DEF AgentBuilt
<1>18. ASSUME StartTurn
       PROVE  LockInv' /\ DrainInv'
  <2>1. GetAgent("turn") /\ UNCHANGED lock /\ turn' = [NoTurn EXCEPT !.pc = "setup"]
    BY <1>18 DEF StartTurn
  <2>2. turn'.pc = "setup" /\ "turn" \in Callers
    BY <2>1 DEF NoTurn, Callers
  <2> QED BY <1>g, <2>1, <2>2 DEF Running
<1>19. ASSUME Retire
       PROVE  LockInv' /\ DrainInv'
  <2>1. Wait("close") /\ UNCHANGED <<turn, drains>>
    BY <1>19 DEF Retire
  <2> QED BY <1>l, <1>q, <2>1, DrainsRest, LockQueued
<1>20. ASSUME Look
       PROVE  LockInv' /\ DrainInv'
  <2>1. GetAgent("look") /\ UNCHANGED <<turn, lock>> /\ "look" \in Callers
    BY <1>20 DEF Look, Callers
  <2> QED BY <1>g, <1>q, <2>1
<1>21. ASSUME Link
       PROVE  LockInv' /\ DrainInv'
  BY <1>21, <1>s, <1>q DEF Link, agent
<1>22. ASSUME NEW outcome \in {"confirmed", "unconfirmed", "refused"}, Steer(outcome)
       PROVE  LockInv' /\ DrainInv'
  <2>1. UNCHANGED <<drains, lock>> /\ turn'.pc = turn.pc
    BY <1>22, <1>l DEF Steer, agent, TurnType, TurnSet
  <2> QED BY <1>s, <2>1 DEF Running
<1>23. ASSUME NEW outcome \in {"confirmed", "unconfirmed", "refused"}, SyncLink(outcome)
       PROVE  LockInv' /\ DrainInv'
  BY <1>23, <1>s, <1>q DEF SyncLink, agent
<1>24. ASSUME NEW keep \in BOOLEAN, NEW power \in BOOLEAN, Crash(keep, power)
       PROVE  LockInv' /\ DrainInv'
  <2>1. turn'.pc = "idle" /\ drains' = <<>> /\ lock' = <<>>
    BY <1>24, <1>h DEF Crash
  <2> QED BY <2>1 DEF LockInv, DrainInv, Running
<1>25. ASSUME UNCHANGED vars
       PROVE  LockInv' /\ DrainInv'
  BY <1>25, <1>s, <1>q DEF vars, agent
<1>29. ASSUME SetupAborted
       PROVE  LockInv' /\ DrainInv'
  <2>1. UNCHANGED <<drains, lock>> /\ turn'.pc = "idle"
    BY <1>29, <1>h DEF SetupAborted, agent
  <2> QED BY <1>s, <2>1 DEF Running
<1>30. ASSUME SetupUnheeded
       PROVE  LockInv' /\ DrainInv'
  BY <1>30, <1>s, <1>q DEF SetupUnheeded
<1>31. ASSUME StopsWaiting
       PROVE  LockInv' /\ DrainInv'
  <2>1. UNCHANGED drains /\ turn'.pc = "ended"
    BY <1>31, <1>l DEF StopsWaiting, TurnType, TurnSet
  <2>2. PICK k \in DOMAIN lock : lock[k] = "turn" /\ lock' = RemoveAt(lock, k)
    BY <1>31 DEF StopsWaiting
  <2>3. DrainInv' /\ (Waits' <=> Waits)
    BY <2>1, DrainsRest
  <2>4. ~Running' /\ turn'.pc # "lock"
    BY <2>1 DEF Running
  <2> QED BY <1>l, <2>2, <2>3, <2>4, LockLeft
<1>26. TurnStep => LockInv' /\ DrainInv'
  BY <1>29, <1>30, <1>31, <1>1, <1>2, <1>3, <1>4, <1>5, <1>6, <1>7, <1>8, <1>9, <1>10 DEF TurnStep
<1>27. DrainStep => LockInv' /\ DrainInv'
  BY <1>11, <1>12, <1>13, <1>14, <1>15, <1>16, <1>17 DEF DrainStep
<1>28. Others => LockInv' /\ DrainInv'
  BY <1>18, <1>19, <1>20, <1>21, <1>22, <1>23, <1>24 DEF Others
<1> QED BY <1>25, <1>26, <1>27, <1>28 DEF Next

-----------------------------------------------------------------------------
(* What the turn adds to the conversation                                  *)

Extends(h, w) == \A n \in DOMAIN h : n \in DOMAIN w /\ w[n] = h[n]
New(h, w) == DOMAIN w \ DOMAIN h

(* Corrections are put at the end, each at a place of its own.              *)
Places(h, w, steered) ==
  /\ Extends(h, w) /\ turn.steered \subseteq steered
  /\ \A n \in New(h, w) : w[n] = 0 \/ (w[n] \in Steering /\ <<w[n], n>> \in steered)
  /\ \A m, n \in New(h, w) : w[m] = w[n] => m = n \/ w[m] = 0
  /\ \A s \in steered : s \in turn.steered
                        \/ (s[1] \in Steering /\ s[2] \in New(h, w) /\ w[s[2]] = s[1])

(* What an appended sequence adds.                                          *)
LEMMA Joined ==
  ASSUME NEW S, NEW h \in Seq(S), NEW c \in Seq(S)
  PROVE  /\ Len(h) \in Nat /\ Len(c) \in Nat /\ Len(h \o c) = Len(h) + Len(c)
         /\ h \o c \in Seq(S) /\ Extends(h, h \o c)
         /\ New(h, h \o c) = {Len(h) + k : k \in DOMAIN c}
         /\ \A k \in DOMAIN c : (h \o c)[Len(h) + k] = c[k]
<1>1. /\ Len(h) \in Nat /\ Len(c) \in Nat /\ Len(h \o c) = Len(h) + Len(c)
      /\ h \o c \in Seq(S) /\ DOMAIN h = 1 .. Len(h) /\ DOMAIN c = 1 .. Len(c)
      /\ DOMAIN (h \o c) = 1 .. Len(h) + Len(c)
      /\ \A n \in 1 .. Len(h) + Len(c) :
           (h \o c)[n] = IF n <= Len(h) THEN h[n] ELSE c[n - Len(h)]
  OBVIOUS
<1> DEFINE w == h \o c
<1>2. /\ DOMAIN w = 1 .. Len(h) + Len(c)
      /\ \A n \in 1 .. Len(h) + Len(c) : w[n] = IF n <= Len(h) THEN h[n] ELSE c[n - Len(h)]
  BY <1>1
<1> HIDE DEF w
<1>3. Extends(h, w)
  BY <1>1, <1>2 DEF Extends
<1>4. \A k \in DOMAIN c : Len(h) + k \in New(h, w) /\ w[Len(h) + k] = c[k]
  <2> SUFFICES ASSUME NEW k \in 1 .. Len(c)
               PROVE  Len(h) + k \in New(h, w) /\ w[Len(h) + k] = c[k]
    BY <1>1
  <2>1. Len(h) + k \in 1 .. Len(h) + Len(c) /\ ~ (Len(h) + k <= Len(h))
        /\ (Len(h) + k) - Len(h) = k
    BY <1>1
  <2> QED BY <1>1, <1>2, <2>1 DEF New
<1>5. \A n \in New(h, w) : n - Len(h) \in DOMAIN c /\ n = Len(h) + (n - Len(h))
  BY <1>1, <1>2 DEF New
<1>6. New(h, w) = {Len(h) + k : k \in DOMAIN c}
  BY <1>4, <1>5
<1> QED BY <1>1, <1>3, <1>4, <1>6 DEF w

(* A message of the turn is appended.                                       *)
LEMMA MessageJoins ==
  ASSUME Types
  PROVE  /\ Append(history, 0) \in Seq(0 .. Instructions)
         /\ Len(Append(history, 0)) = Len(history) + 1 /\ Len(history) \in Nat
         /\ Places(history, Append(history, 0), turn.steered)
<1>1. history \in Seq(0 .. Instructions) /\ 0 \in 0 .. Instructions
  BY BoundsAreNumbers DEF Types, HistoryType
<1> DEFINE w == Append(history, 0)
<1>2. /\ w \in Seq(0 .. Instructions) /\ Len(history) \in Nat /\ Len(w) = Len(history) + 1
      /\ DOMAIN history = 1 .. Len(history) /\ DOMAIN w = 1 .. Len(history) + 1
      /\ \A n \in 1 .. Len(history) : w[n] = history[n]
      /\ w[Len(history) + 1] = 0
  BY <1>1
<1> HIDE DEF w
<1>3. Extends(history, w)
  BY <1>2 DEF Extends
<1>4. \A n \in New(history, w) : n = Len(history) + 1 /\ w[n] = 0
  BY <1>2 DEF New
<1> QED BY <1>2, <1>3, <1>4 DEF Places, w

(* Corrections are appended to what the turn has said.                      *)
LEMMA CorrectionsJoin ==
  ASSUME Types, NEW h \in Seq(0 .. Instructions),
         Places(history, h, turn.steered), \A n \in New(history, h) : h[n] = 0
  PROVE  /\ WithCorrections(h) \in Seq(0 .. Instructions)
         /\ Len(h) \in Nat /\ Len(WithCorrections(h)) \in Nat /\ Len(h) <= Len(WithCorrections(h))
         /\ Places(history, WithCorrections(h), SteeredAt(h))
<1> DEFINE w == WithCorrections(h)
           c == Corrections
<1>1. /\ Steering \in SUBSET Ids /\ c \in Seq(Steering)
      /\ \A m, n \in DOMAIN c : c[m] = c[n] => m = n
  <2>1. Steering \in SUBSET Ids
    BY TurnKinds DEF Types
  <2> QED BY <2>1, OrderHoldsEachOnce DEF Corrections
<1>2. c \in Seq(0 .. Instructions)
  <2>1. Steering \subseteq 0 .. Instructions
    BY <1>1 DEF Ids
  <2> QED BY ONLY <1>1, <2>1, WiderSequence
<1>3. w = h \o c
  BY DEF WithCorrections
<1>4. SteeredAt(h) = turn.steered \cup {<<c[n], Len(h) + n>> : n \in DOMAIN c}
  BY DEF SteeredAt
<1>5. /\ Len(h) \in Nat /\ Len(c) \in Nat /\ Len(w) = Len(h) + Len(c)
      /\ w \in Seq(0 .. Instructions) /\ Extends(h, w)
      /\ New(h, w) = {Len(h) + k : k \in DOMAIN c}
      /\ \A k \in DOMAIN c : w[Len(h) + k] = c[k]
  BY <1>2, <1>3, Joined
<1>c. DOMAIN c \subseteq Nat /\ \A k \in DOMAIN c : c[k] \in Steering /\ c[k] # 0
  <2>1. DOMAIN c = 1 .. Len(c) /\ Len(c) \in Nat /\ \A k \in 1 .. Len(c) : c[k] \in Steering
    BY <1>1, <1>5
  <2>2. 0 \notin Ids
    BY BoundsAreNumbers DEF Ids
  <2> QED BY <1>1, <2>1, <2>2
<1> HIDE DEF w, c
<1>6. Extends(history, w)
  BY <1>5 DEF Places, Extends
<1>7. \A n \in New(history, w) :
        (n \in New(history, h) /\ w[n] = 0)
        \/ \E k \in DOMAIN c : n = Len(h) + k /\ w[n] = c[k]
  <2> TAKE n \in New(history, w)
  <2>1. CASE n \in DOMAIN h
    <3>1. n \in New(history, h) /\ w[n] = h[n]
      BY <1>5, <2>1 DEF New, Extends
    <3> QED BY <3>1
  <2>2. CASE n \notin DOMAIN h
    <3>1. n \in New(h, w)
      BY <2>2 DEF New
    <3> QED BY <1>5, <3>1
  <2> QED BY <2>1, <2>2
<1>8. \A k \in DOMAIN c : Len(h) + k \in New(history, w)
  <2> TAKE k \in DOMAIN c
  <2>1. Len(h) + k \in New(h, w)
    BY <1>5
  <2>2. DOMAIN history \subseteq DOMAIN h
    BY DEF Places, Extends
  <2> QED BY <2>1, <2>2 DEF New
<1>9. \A n \in New(history, w) : w[n] = 0 \/ (w[n] \in Steering /\ <<w[n], n>> \in SteeredAt(h))
  BY <1>4, <1>7, <1>c
<1>10. \A m, n \in New(history, w) : w[m] = w[n] => m = n \/ w[m] = 0
  <2> SUFFICES ASSUME NEW m \in New(history, w), NEW n \in New(history, w), w[m] = w[n], w[m] # 0
               PROVE  m = n
    OBVIOUS
  <2>1. PICK k \in DOMAIN c : m = Len(h) + k /\ w[m] = c[k]
    BY <1>7
  <2>2. PICK j \in DOMAIN c : n = Len(h) + j /\ w[n] = c[j]
    BY <1>7
  <2>3. k = j
    BY <1>1, <2>1, <2>2 DEF c
  <2> QED BY <2>1, <2>2, <2>3
<1>11. \A s \in SteeredAt(h) : s \in turn.steered
          \/ (s[1] \in Steering /\ s[2] \in New(history, w) /\ w[s[2]] = s[1])
  <2> SUFFICES ASSUME NEW k \in DOMAIN c
               PROVE  LET s == <<c[k], Len(h) + k>> IN
                      s[1] \in Steering /\ s[2] \in New(history, w) /\ w[s[2]] = s[1]
    BY <1>4
  <2> QED BY <1>5, <1>8, <1>c
<1>12. Places(history, w, SteeredAt(h))
  BY <1>4, <1>6, <1>9, <1>10, <1>11 DEF Places
<1> QED BY <1>5, <1>12 DEF w

(* The steps of a turn that say something.                                  *)
Speaks ==
  \/ Admit \/ ToolsDone \/ Exhausted
  \/ \E flag \in BOOLEAN : Step(flag) \/ CallTools(flag) \/ AnswerGiven(flag)

(* What they do to the turn: it is admitted, goes on or finishes.           *)
Proceeds ==
  \/ /\ turn.pc = "lock" /\ Running'
     /\ turn'.before = Len(history) /\ turn'.checkpoint = Len(history)
  \/ /\ Running /\ turn'.pc \in {"step", "answer", "tool", "ended"}
     /\ turn'.before = turn.before
     /\ turn'.checkpoint \in {turn.checkpoint, Len(history')}

(* Whatever a turn says is put at the end, with the corrections in place.   *)
LEMMA SpeakingDelivers ==
  ASSUME Types, Speaks
  PROVE  /\ Places(history, history', turn'.steered) /\ Len(history) <= Len(history')
         /\ turn'.accepted = turn.accepted /\ turn'.window = turn.window
         /\ turn'.finished => turn.finished \/ turn'.pc = "ended"
         /\ turn.pc \in {"lock", "step", "answer", "tool"} /\ Proceeds
         /\ UNCHANGED <<mailbox, known, cut>>
<1>0. turn \in TurnSet
  BY DEF Types, TurnType
<1>1. /\ Len(history) \in Nat /\ history \in Seq(0 .. Instructions)
      /\ Append(history, 0) \in Seq(0 .. Instructions)
      /\ Len(Append(history, 0)) = Len(history) + 1
      /\ Places(history, Append(history, 0), turn.steered)
  BY MessageJoins DEF Types, HistoryType
<1>2. Places(history, history, turn.steered)
  BY DEF Places, Extends, New
<1>3. \A n \in New(history, Append(history, 0)) : Append(history, 0)[n] = 0
  <2>1. \A n \in New(history, Append(history, 0)) : n = Len(history) + 1
    BY <1>1 DEF New
  <2> QED BY <1>1, <2>1
<1>a. ASSUME history' = Append(history, 0), turn'.steered = turn.steered
      PROVE  Places(history, history', turn'.steered) /\ Len(history) <= Len(history')
  <2>1. Places(history, history', turn'.steered)
    BY ONLY <1>a, <1>1
  <2> QED BY <1>a, <1>1, <2>1
<1>4. ASSUME Admit
      PROVE  /\ history' = Append(history, 0) /\ turn'.steered = turn.steered
             /\ turn'.accepted = turn.accepted /\ turn'.window = turn.window
             /\ turn'.finished = turn.finished /\ turn.pc = "lock" /\ Proceeds
             /\ UNCHANGED <<mailbox, known, cut>>
  BY <1>4, <1>0 DEF Admit, TurnSet, Proceeds, Running
<1>5. ASSUME ToolsDone
      PROVE  /\ history' = Append(history, 0) /\ turn'.steered = turn.steered
             /\ turn'.accepted = turn.accepted /\ turn'.window = turn.window
             /\ turn'.finished = turn.finished /\ turn.pc = "tool" /\ Proceeds
             /\ UNCHANGED <<mailbox, known, cut>>
  <2>1. history' = Append(history, 0) /\ turn.pc = "tool" /\ UNCHANGED <<mailbox, known, cut>>
        /\ turn' = [turn EXCEPT !.pc = "step", !.checkpoint = Len(history) + 1]
    BY <1>5 DEF ToolsDone
  <2>2. turn'.checkpoint = Len(history')
    BY <1>0, <1>1, <2>1 DEF TurnSet
  <2> QED BY <1>0, <2>1, <2>2 DEF TurnSet, Proceeds, Running
<1>6. ASSUME Exhausted
      PROVE  /\ history' = Append(history, 0) /\ turn'.steered = turn.steered
             /\ turn'.accepted = turn.accepted /\ turn'.window = turn.window
             /\ turn'.pc = "ended" /\ turn.pc = "step" /\ Proceeds
             /\ UNCHANGED <<mailbox, known, cut>>
  BY <1>6, <1>0 DEF Exhausted, TurnSet, Proceeds, Running
<1>7. ASSUME NEW flag \in BOOLEAN, CallTools(flag)
      PROVE  /\ history' = Append(history, 0) /\ turn'.steered = turn.steered
             /\ turn'.accepted = turn.accepted /\ turn'.window = turn.window
             /\ turn'.finished = turn.finished /\ turn.pc = "answer" /\ Proceeds
             /\ UNCHANGED <<mailbox, known, cut>>
  BY <1>7, <1>0 DEF CallTools, TurnSet, Proceeds, Running
<1>8. ASSUME NEW flag \in BOOLEAN, Step(flag)
      PROVE  /\ Places(history, history', turn'.steered) /\ Len(history) <= Len(history')
             /\ turn'.accepted = turn.accepted /\ turn'.window = turn.window
             /\ turn'.finished = turn.finished /\ turn.pc = "step" /\ Proceeds
             /\ UNCHANGED <<mailbox, known, cut>>
  <2>1. /\ turn.pc = "step" /\ UNCHANGED <<mailbox, known, cut>>
        /\ history' = IF flag THEN WithCorrections(history) ELSE history
        /\ turn' = [turn EXCEPT !.pc = "answer", !.rounds = @ - 1,
                                !.steered = IF flag THEN SteeredAt(history) ELSE @]
    BY <1>8 DEF Step
  <2>2. turn'.steered = IF flag THEN SteeredAt(history) ELSE turn.steered
    BY <1>0, <2>1 DEF TurnSet
  <2>3. \A n \in New(history, history) : history[n] = 0
    BY DEF New
  <2>4. /\ Places(history, WithCorrections(history), SteeredAt(history))
        /\ Len(history) <= Len(WithCorrections(history))
    BY ONLY <1>1, <1>2, <2>3, Types, CorrectionsJoin
  <2>5. Places(history, history', turn'.steered) /\ Len(history) <= Len(history')
    <3>1. CASE flag
      BY ONLY <2>1, <2>2, <2>4, <3>1
    <3>2. CASE ~flag
      BY <1>1, <1>2, <2>1, <2>2, <3>2
    <3> QED BY <3>1, <3>2
  <2> QED BY <1>0, <2>1, <2>5 DEF TurnSet, Proceeds, Running
<1>9. ASSUME NEW read \in BOOLEAN, AnswerGiven(read)
      PROVE  /\ Places(history, history', turn'.steered) /\ Len(history) <= Len(history')
             /\ turn'.accepted = turn.accepted /\ turn'.window = turn.window
             /\ turn'.finished => turn.finished \/ turn'.pc = "ended"
             /\ turn.pc = "answer" /\ Proceeds
             /\ UNCHANGED <<mailbox, known, cut>>
  <2> DEFINE h == Append(history, 0)
             more == read /\ turn.rounds > 0 /\ Steering # {}
  <2>1. /\ turn.pc = "answer" /\ UNCHANGED <<mailbox, known, cut>>
        /\ history' = IF more THEN WithCorrections(h) ELSE h
        /\ turn' = IF more
             THEN [turn EXCEPT !.pc = "step", !.steered = SteeredAt(h), !.checkpoint = Len(history')]
             ELSE [turn EXCEPT !.pc = "ended", !.finished = TRUE]
    BY <1>9 DEF AnswerGiven
  <2>2. turn'.steered = IF more THEN SteeredAt(h) ELSE turn.steered
    BY <1>0, <2>1 DEF TurnSet
  <2>3. Places(history, WithCorrections(h), SteeredAt(h)) /\ Len(h) <= Len(WithCorrections(h))
        /\ Len(WithCorrections(h)) \in Nat
    BY ONLY <1>1, <1>3, Types, CorrectionsJoin
  <2> HIDE DEF h, more
  <2>4. Places(history, history', turn'.steered) /\ Len(history) <= Len(history')
    <3>1. CASE more
      <4>1. history' = WithCorrections(h) /\ turn'.steered = SteeredAt(h)
        BY <2>1, <2>2, <3>1
      <4>2. Len(history) <= Len(WithCorrections(h))
        BY <1>1, <2>3 DEF h
      <4> QED BY ONLY <2>3, <4>1, <4>2
    <3>2. CASE ~more
      BY <1>a, <2>1, <2>2, <3>2 DEF h
    <3> QED BY <3>1, <3>2
  <2> QED BY <1>0, <2>1, <2>4 DEF TurnSet, Proceeds, Running
<1> QED BY <1>a, <1>4, <1>5, <1>6, <1>7, <1>8, <1>9 DEF Speaks

(* A drain lists the mailbox.                                               *)
Fetches ==
  /\ drains # <<>> /\ First.at = "start" /\ ~Window /\ visible # {}
  /\ drains' = [drains EXCEPT ![1].at = "ingest", ![1].todo = Pending]
  /\ UNCHANGED <<mailbox, journal, turn, cut>>

(* The other steps touch neither mailbox nor conversation: at most a turn   *)
(* that has not begun goes on or is given up.                               *)
Quiet ==
  /\ UNCHANGED <<mailbox, journal, cut>> /\ NoNewWork
  /\ \/ UNCHANGED turn
     \/ /\ turn.pc \in {"idle", "setup"}
        /\ \/ turn'.pc \in {"idle", "setup"} /\ turn' = [NoTurn EXCEPT !.pc = turn'.pc]
           \/ turn'.pc = "lock" /\ turn' = [NoTurn EXCEPT !.pc = "lock", !.window = turn'.window]
     \/ turn.pc = "lock" /\ turn' = [turn EXCEPT !.pc = "ended"]

(* The steps that change what the parts are about.                          *)
Moves ==
  \/ Fetches \/ Ingest \/ Link
  \/ \E removed, synced \in BOOLEAN : AckDrained(removed, synced)
  \/ \E keep \in BOOLEAN : Fail(keep) /\ NoNewWork
  \/ \E stuck \in SUBSET Ids, synced \in BOOLEAN : Settle(stuck, synced) /\ NoNewWork
  \/ \E outcome \in {"confirmed", "unconfirmed", "refused"} : Steer(outcome) /\ NoNewWork
  \/ \E outcome \in {"confirmed", "unconfirmed", "refused"} : SyncLink(outcome) /\ NoNewWork
  \/ \E keep, power \in BOOLEAN : Crash(keep, power)

(* A step says something, moves an instruction or is quiet.                 *)
LEMMA StepKinds ==
  ASSUME Types, DrainInv, TurnInv, [Next]_vars
  PROVE  (Speaks /\ NoNewWork) \/ Moves \/ Quiet
<1>0. QueueType /\ AskType /\ turn \in TurnSet
  BY DEF Types, TurnType
<1>k. UNCHANGED drains => NoNewWork
  BY DrainsRest
<1>g. \A c \in Callers : GetAgent(c) => NoNewWork
  BY <1>0, AskingWaits
<1>m. UNCHANGED drains \/ (\E c \in Callers : GetAgent(c)) \/ drains' = <<>> => NoNewWork
  BY <1>k, <1>g, DrainsRest
<1>c. "turn" \in Callers /\ "tool" \in Callers /\ "look" \in Callers
  BY DEF Callers
<1>q. UNCHANGED <<mailbox, journal, cut, turn>> /\ NoNewWork => Quiet
  BY DEF Quiet
<1>n. turn.pc \in {"idle", "setup"} => turn = [NoTurn EXCEPT !.pc = turn.pc]
  BY DEF TurnInv
<1>1. ASSUME NEW enabled \in BOOLEAN, Begin(enabled)
      PROVE  Quiet
  <2>1. /\ UNCHANGED <<mailbox, journal, cut, drains>> /\ turn.pc = "setup"
        /\ turn' = [turn EXCEPT !.pc = "lock", !.window = enabled]
    BY <1>1 DEF Begin
  <2>2. turn = [NoTurn EXCEPT !.pc = "setup"]
    BY <1>n, <2>1
  <2>3. turn' = [NoTurn EXCEPT !.pc = "lock", !.window = enabled]
    BY <2>1, <2>2 DEF NoTurn
  <2>4. turn'.pc = "lock" /\ turn'.window = enabled
    BY <2>3 DEF NoTurn
  <2>5. turn'.pc = "lock" /\ turn' = [NoTurn EXCEPT !.pc = "lock", !.window = turn'.window]
    BY <2>3, <2>4
  <2> QED BY <1>k, <2>1, <2>5 DEF Quiet
<1>2. ASSUME SetupFails
      PROVE  Quiet
  <2>1. UNCHANGED <<mailbox, journal, cut, drains>> /\ turn.pc = "setup" /\ turn' = NoTurn
    BY <1>2 DEF SetupFails
  <2>2. turn'.pc = "idle" /\ turn' = [NoTurn EXCEPT !.pc = turn'.pc]
    BY <2>1 DEF NoTurn
  <2> QED BY <1>k, <2>1, <2>2 DEF Quiet
<1>3. ASSUME StartTurn
      PROVE  Quiet
  <2>1. /\ UNCHANGED <<mailbox, journal, cut>> /\ turn.pc = "idle" /\ GetAgent("turn")
        /\ turn' = [NoTurn EXCEPT !.pc = "setup"]
    BY <1>3 DEF StartTurn
  <2>2. turn'.pc = "setup" /\ turn' = [NoTurn EXCEPT !.pc = turn'.pc]
    BY <2>1 DEF NoTurn
  <2> QED BY <1>c, <1>g, <2>1, <2>2 DEF Quiet
<1>4. ASSUME ListPending
      PROVE  Moves \/ Quiet
  <2>1. UNCHANGED <<mailbox, journal, turn, cut>> /\ drains # <<>> /\ First.at = "start"
    BY <1>4 DEF ListPending
  <2>2. CASE SkipsDrain \/ visible = {}
    <3>1. drains' = Tail(drains)
      BY <1>4, <2>2 DEF ListPending, DrainEnds
    <3>2. NoNewWork
      BY <1>0, <2>1, <3>1, DrainLeaves
    <3> QED BY <1>q, <2>1, <3>2
  <2>3. CASE ~ (SkipsDrain \/ visible = {})
    <3>1. Fetches
      BY <1>4, <2>1, <2>3 DEF ListPending, Fetches, SkipsDrain
    <3> QED BY <3>1 DEF Moves
  <2> QED BY <2>2, <2>3
<1>5. ASSUME ListFails \/ Closed \/ LookDone \/ Look \/ Retire \/ UNCHANGED vars
             \/ \E c \in Callers : AgentBuilt(c)
      PROVE  Quiet
  <2>1. UNCHANGED <<mailbox, journal, turn, cut>>
    BY <1>5 DEF ListFails, Closed, LookDone, Look, Retire, AgentBuilt, vars
  <2>2. UNCHANGED drains \/ (\E c \in Callers : GetAgent(c)) \/ drains' = <<>>
    BY <1>5, <1>c DEF ListFails, Closed, LookDone, Look, Retire, AgentBuilt, vars, agent, DrainsFail
  <2> QED BY <1>m, <1>q, <2>1, <2>2
<1>6. ASSUME Speaks
      PROVE  NoNewWork
  <2>1. UNCHANGED drains \/ GetAgent("tool")
    BY <1>6 DEF Speaks, Admit, ToolsDone, AnswerGiven, Exhausted, Step, CallTools, agent
  <2> QED BY <1>c, <1>m, <2>1
<1>7. ASSUME \/ \E keep \in BOOLEAN : Fail(keep)
             \/ \E stuck \in SUBSET Ids, synced \in BOOLEAN : Settle(stuck, synced)
             \/ \E outcome \in {"confirmed", "unconfirmed", "refused"} :
                  Steer(outcome) \/ SyncLink(outcome)
      PROVE  Moves
  <2>1. UNCHANGED drains
    BY <1>7 DEF Fail, Settle, Steer, SyncLink, agent
  <2> QED BY <1>k, <1>7, <2>1 DEF Moves
<1>11. ASSUME SetupAborted
       PROVE  Quiet
  <2>1. UNCHANGED <<mailbox, journal, cut, drains>> /\ turn.pc = "setup" /\ turn' = NoTurn
    BY <1>11 DEF SetupAborted, agent
  <2>2. turn'.pc = "idle" /\ turn' = [NoTurn EXCEPT !.pc = turn'.pc]
    BY <2>1 DEF NoTurn
  <2> QED BY <1>k, <2>1, <2>2 DEF Quiet
<1>12. ASSUME SetupUnheeded
       PROVE  Quiet
  BY <1>12, <1>k, <1>q DEF SetupUnheeded
<1>13. ASSUME StopsWaiting
       PROVE  Quiet
  BY <1>13, <1>k DEF StopsWaiting, Quiet
<1>8. TurnStep => Speaks \/ Moves \/ Quiet
  BY <1>1, <1>2, <1>7, <1>11, <1>12, <1>13 DEF TurnStep, Speaks
<1>9. DrainStep => Moves \/ Quiet
  BY <1>4, <1>5 DEF DrainStep, Moves
<1>10. Others => Moves \/ Quiet
  BY <1>3, <1>5, <1>7 DEF Others, Moves
<1> QED BY <1>5, <1>6, <1>8, <1>9, <1>10 DEF Next

-----------------------------------------------------------------------------
(* The running turn                                                        *)

(* A quiet step leaves to the turn what it was given.                       *)
LEMMA QuietTurn ==
  ASSUME Types, TurnInv, Quiet
  PROVE  /\ turn'.accepted = turn.accepted /\ turn'.steered = turn.steered
         /\ turn'.finished = turn.finished /\ turn'.before = turn.before
         /\ turn'.checkpoint = turn.checkpoint
         /\ Running' <=> Running
         /\ turn'.pc \in {"idle", "setup"} => turn' = [NoTurn EXCEPT !.pc = turn'.pc]
         /\ turn'.pc = "lock" => turn'.steered = {}
         /\ ~turn'.window => turn'.accepted = {}
         /\ turn'.finished => turn'.pc = "ended"
<1>1. CASE UNCHANGED turn
  BY <1>1 DEF TurnInv, Running, Window
<1>2. CASE /\ turn.pc \in {"idle", "setup"}
           /\ turn'.pc \in {"idle", "setup"} /\ turn' = [NoTurn EXCEPT !.pc = turn'.pc]
  <2>1. turn = [NoTurn EXCEPT !.pc = turn.pc]
    BY <1>2 DEF TurnInv
  <2> DEFINE a == turn.pc
             b == turn'.pc
  <2>2. turn = [NoTurn EXCEPT !.pc = a] /\ turn' = [NoTurn EXCEPT !.pc = b]
    BY <1>2, <2>1
  <2>3. a \in {"idle", "setup"} /\ b \in {"idle", "setup"}
    BY <1>2
  <2> HIDE DEF a, b
  <2> QED BY <2>2, <2>3 DEF NoTurn, Running
<1>3. CASE /\ turn.pc \in {"idle", "setup"}
           /\ turn'.pc = "lock" /\ turn' = [NoTurn EXCEPT !.pc = "lock", !.window = turn'.window]
  <2>1. turn = [NoTurn EXCEPT !.pc = turn.pc]
    BY <1>3 DEF TurnInv
  <2> DEFINE a == turn.pc
             b == turn'.window
  <2>2. turn = [NoTurn EXCEPT !.pc = a] /\ turn' = [NoTurn EXCEPT !.pc = "lock", !.window = b]
    BY <1>3, <2>1
  <2>3. a \in {"idle", "setup"}
    BY <1>3
  <2> HIDE DEF a, b
  <2> QED BY <2>2, <2>3 DEF NoTurn, Running
<1>4. CASE turn.pc = "lock" /\ turn' = [turn EXCEPT !.pc = "ended"]
  <2>1. turn \in TurnSet
    BY DEF Types, TurnType
  <2>2. /\ turn'.pc = "ended" /\ turn'.accepted = turn.accepted /\ turn'.steered = turn.steered
        /\ turn'.finished = turn.finished /\ turn'.before = turn.before
        /\ turn'.checkpoint = turn.checkpoint /\ turn'.window = turn.window
    BY <1>4, <2>1 DEF TurnSet
  <2> QED BY <1>4, <2>2 DEF TurnInv, Running, Window
<1> QED BY <1>1, <1>2, <1>3, <1>4 DEF Quiet

(* Each step keeps what is known of the running turn.                       *)
LEMMA TurnHolds ==
  ASSUME Types, Types', LockInv, DrainInv, TurnInv, [Next]_vars
  PROVE  TurnInv'
<1>0. turn \in TurnSet /\ history \in Seq(0 .. Instructions) /\ Len(history) \in Nat
      /\ DOMAIN history = 1 .. Len(history)
  BY DEF Types, TurnType, HistoryType
<1>1. ASSUME UNCHANGED <<turn, history>>
      PROVE  TurnInv'
  BY <1>1 DEF TurnInv, Steered, Running, Window
<1>2. ASSUME turn' = NoTurn
      PROVE  TurnInv'
  <2>1. turn' = [NoTurn EXCEPT !.pc = turn'.pc] /\ turn'.pc = "idle"
        /\ turn'.accepted = {} /\ turn'.steered = {} /\ ~turn'.finished
    BY <1>2 DEF NoTurn
  <2> QED BY <2>1 DEF TurnInv, Steered, Running, Window
<1>3. ASSUME Quiet
      PROVE  TurnInv'
  <2>1. UNCHANGED history
    BY <1>3 DEF Quiet, journal
  <2> QED BY <1>3, <2>1, QuietTurn DEF TurnInv, Steered, Window
<1>4. ASSUME Speaks
      PROVE  TurnInv'
  <2>1. /\ Places(history, history', turn'.steered) /\ Len(history) <= Len(history')
        /\ turn'.accepted = turn.accepted /\ turn'.window = turn.window
        /\ turn'.finished => turn.finished \/ turn'.pc = "ended"
        /\ turn.pc \in {"lock", "step", "answer", "tool"} /\ Proceeds
    BY <1>4, SpeakingDelivers
  <2>2. turn'.pc \in {"step", "answer", "tool", "ended"} /\ ~turn.finished
    BY <2>1 DEF Proceeds, TurnInv, Running
  <2>3. Running' => turn'.before <= turn'.checkpoint /\ turn'.checkpoint <= Len(history')
    <3>1. Len(history') \in Nat
      BY DEF Types, HistoryType
    <3>2. turn.pc = "lock" => ~Running
      BY DEF Running
    <3>3. Running => turn.before <= turn.checkpoint /\ turn.checkpoint <= Len(history)
      BY DEF TurnInv
    <3>4. turn.before \in Nat /\ turn.checkpoint \in Nat
      BY <1>0 DEF TurnSet
    <3> QED BY <1>0, <2>1, <3>1, <3>2, <3>3, <3>4 DEF Proceeds
  <2>4. \A s \in turn'.steered : s[2] \in DOMAIN history' /\ history'[s[2]] = s[1]
    <3>1. \A s \in turn.steered : s[2] \in DOMAIN history /\ history[s[2]] = s[1]
      BY <2>1 DEF TurnInv, Running
    <3> QED BY <2>1, <3>1 DEF Places, Extends, New
  <2>5. Steered' \subseteq turn'.accepted
    <3>1. \A s \in turn'.steered : s[1] \in turn.accepted
      BY <2>1 DEF Places, Steering, TurnInv, Steered
    <3> QED BY <2>1, <3>1 DEF Steered
  <2>6. turn'.finished => turn'.pc = "ended"
    BY <2>1, <2>2
  <2>7. ~Window' => turn'.accepted = {}
    BY <2>1 DEF TurnInv, Window
  <2> QED BY <2>2, <2>3, <2>4, <2>5, <2>6, <2>7 DEF TurnInv
<1>5. ASSUME NEW keep \in BOOLEAN, Fail(keep)
      PROVE  TurnInv'
  <2>1. turn' = [turn EXCEPT !.pc = "ended"] /\ Running
    BY <1>5 DEF Fail, Running
  <2>2. /\ turn'.pc = "ended" /\ turn'.accepted = turn.accepted /\ turn'.steered = turn.steered
        /\ turn'.window = turn.window /\ turn'.finished = turn.finished
    BY <1>0, <2>1 DEF TurnSet
  <2>3. ~turn.finished
    BY <2>1 DEF TurnInv, Running
  <2> QED BY <2>2, <2>3 DEF TurnInv, Steered, Running, Window
<1>6. ASSUME NEW outcome \in {"confirmed", "unconfirmed", "refused"}, Steer(outcome)
      PROVE  TurnInv'
  <2>1. UNCHANGED history /\ Window
    BY <1>6 DEF Steer, journal
  <2>2. CASE outcome = "refused"
    BY <1>1, <1>6, <2>1, <2>2 DEF Steer
  <2>3. CASE outcome # "refused"
    <3>1. turn' = [turn EXCEPT !.accepted = @ \cup {NextId}]
      BY <1>6, <2>3 DEF Steer
    <3>2. /\ turn'.pc = turn.pc /\ turn'.accepted = turn.accepted \cup {NextId}
          /\ turn'.steered = turn.steered /\ turn'.before = turn.before
          /\ turn'.checkpoint = turn.checkpoint
          /\ turn'.window = turn.window /\ turn'.finished = turn.finished
      BY <1>0, <3>1 DEF TurnSet
    <3>3. turn.pc \notin {"idle", "setup"}
      BY <2>1 DEF TurnInv, Window, NoTurn
    <3> QED BY <2>1, <3>2, <3>3 DEF TurnInv, Steered, Running, Window
  <2> QED BY <2>2, <2>3
<1>7. ASSUME Ingest
      PROVE  TurnInv'
  <2>1. /\ UNCHANGED turn /\ drains # <<>> /\ First.at = "ingest" /\ Head(lock) = "drain"
        /\ history' = IF IsNew(Head(First.todo)) THEN Append(history, Head(First.todo)) ELSE history
    BY <1>7 DEF Ingest
  <2>2. Extends(history, history')
    <3>1. CASE IsNew(Head(First.todo))
      <4>1. history' = Append(history, Head(First.todo))
        BY <2>1, <3>1
      <4> QED BY <1>0, <4>1 DEF Extends
    <3>2. CASE ~IsNew(Head(First.todo))
      BY <2>1, <3>2 DEF Extends
    <3> QED BY <3>1, <3>2
  <2>3. ~Running
    <3>1. drains[1].at = "ingest"
      BY <2>1, FirstKinds DEF Types
    <3>2. lock # <<>> /\ lock \in Seq({"turn", "drain", "close"})
      BY <2>1, <3>1 DEF LockInv, Types, QueueType
    <3>3. lock[1] = "drain"
      BY <2>1, <3>2
    <3> QED BY <3>3 DEF LockInv
  <2> QED BY <2>1, <2>2, <2>3 DEF TurnInv, Steered, Running, Window, Extends
<1>8. ASSUME Moves
      PROVE  TurnInv'
  <2>1. Fetches \/ Link \/ (\E removed, synced \in BOOLEAN : AckDrained(removed, synced))
        \/ (\E outcome \in {"confirmed", "unconfirmed", "refused"} : SyncLink(outcome)) => TurnInv'
    BY <1>1 DEF Fetches, Link, AckDrained, SyncLink, journal
  <2>2. (\E stuck \in SUBSET Ids, synced \in BOOLEAN : Settle(stuck, synced))
        \/ (\E keep, power \in BOOLEAN : Crash(keep, power)) => TurnInv'
    BY <1>2 DEF Settle, Crash
  <2> QED BY <1>5, <1>6, <1>7, <1>8, <2>1, <2>2 DEF Moves
<1> QED BY <1>3, <1>4, <1>8, StepKinds

-----------------------------------------------------------------------------
(* Accepted instructions are kept                                          *)

(* What is settled in the conversation stays there.                         *)
Stays ==
  \A n \in DOMAIN history : (Running => n <= turn.before) =>
    n \in DOMAIN history' /\ history'[n] = history[n] /\ (Running' => n <= turn'.before)

(* A history cut behind its settled part.                                   *)
LEMMA CutBehind ==
  ASSUME Types, NEW k \in Nat, k <= Len(history), history' = SubSeq(history, 1, k)
  PROVE  /\ DOMAIN history' = 1 .. k
         /\ \A n \in DOMAIN history : n <= k => n \in DOMAIN history' /\ history'[n] = history[n]
         /\ \A n \in DOMAIN history' : n \in DOMAIN history /\ history'[n] = history[n]
<1>1. history \in Seq(0 .. Instructions) /\ Len(history) \in Nat /\ DOMAIN history = 1 .. Len(history)
  BY DEF Types, HistoryType
<1>2. DOMAIN history' = 1 .. k /\ \A n \in 1 .. k : history'[n] = history[n]
  BY <1>1
<1> QED BY <1>1, <1>2

(* A failed turn keeps what was there before it.                            *)
LEMMA FailKeeps ==
  ASSUME Types, TurnInv, NEW keep \in BOOLEAN, Fail(keep)
  PROVE  /\ Stays /\ ~Running' /\ UNCHANGED <<mailbox, known, cut>>
         /\ turn'.accepted = turn.accepted /\ turn'.steered = turn.steered
         /\ \A n \in DOMAIN history' : n \in DOMAIN history /\ history'[n] = history[n]
<1>1. /\ Running /\ UNCHANGED <<mailbox, known, cut>> /\ turn' = [turn EXCEPT !.pc = "ended"]
      /\ history' = IF keep THEN history
                    ELSE SubSeq(history, 1, IF turn.pc = "tool" THEN turn.before ELSE turn.checkpoint)
  BY DEF Fail, Running
<1>2. turn \in TurnSet /\ turn.before \in Nat /\ turn.checkpoint \in Nat
  BY DEF Types, TurnType, TurnSet
<1>3. /\ turn'.pc = "ended" /\ turn'.accepted = turn.accepted /\ turn'.steered = turn.steered
  BY <1>1, <1>2 DEF TurnSet
<1>4. turn.before <= turn.checkpoint /\ turn.checkpoint <= Len(history) /\ Len(history) \in Nat
  BY <1>1 DEF TurnInv, Types, HistoryType
<1>5. DOMAIN history \subseteq Nat
  BY DEF Types, HistoryType
<1>6. CASE keep
  BY <1>1, <1>3, <1>6 DEF Stays, Running
<1>7. CASE ~keep
  <2> DEFINE k == IF turn.pc = "tool" THEN turn.before ELSE turn.checkpoint
  <2>1. k \in Nat /\ k <= Len(history) /\ turn.before <= k /\ history' = SubSeq(history, 1, k)
    BY <1>1, <1>2, <1>4, <1>7
  <2> HIDE DEF k
  <2>2. /\ \A n \in DOMAIN history : n <= k => n \in DOMAIN history' /\ history'[n] = history[n]
        /\ \A n \in DOMAIN history' : n \in DOMAIN history /\ history'[n] = history[n]
    BY <2>1, CutBehind
  <2>3. \A n \in DOMAIN history : n <= turn.before => n <= k
    BY <1>2, <1>5, <2>1
  <2> QED BY <1>1, <1>3, <2>2, <2>3 DEF Stays, Running
<1> QED BY <1>6, <1>7

(* What a crash does to conversation and turn.                              *)
LEMMA CrashKeeps ==
  ASSUME Types, TurnInv, NEW keep \in BOOLEAN, NEW power \in BOOLEAN, Crash(keep, power)
  PROVE  /\ Stays /\ turn' = NoTurn /\ ~Running' /\ drains' = <<>>
         /\ UNCHANGED <<receipt, known>>
         /\ visible \cap durable \subseteq visible' \cap durable'
         /\ visible' \subseteq visible \cup durable /\ durable' \subseteq visible \cup durable
         /\ \/ visible' = visible /\ publishing' = publishing
            \/ publishing' = 0 /\ durable' = visible' /\ durable \ visible \subseteq cut'
         /\ cut \subseteq cut' /\ Steered \subseteq cut'
         /\ \A n \in DOMAIN history' : n \in DOMAIN history /\ history'[n] = history[n]
<1>1. /\ turn' = NoTurn /\ drains' = <<>> /\ UNCHANGED <<receipt, known>>
      /\ cut' = cut \cup Steered \cup (IF power THEN durable \ visible ELSE {})
      /\ history' = IF Running /\ ~keep THEN SubSeq(history, 1, turn.before) ELSE history
  BY DEF Crash, Running, Steered
<1>2. turn'.pc = "idle" /\ ~Running'
  BY <1>1 DEF NoTurn, Running
<1>3. /\ visible \cap durable \subseteq visible' \cap durable'
      /\ visible' \subseteq visible \cup durable /\ durable' \subseteq visible \cup durable
      /\ \/ visible' = visible /\ publishing' = publishing
         \/ publishing' = 0 /\ durable' = visible' /\ durable \ visible \subseteq cut'
  <2>1. CASE power
    <3>1. PICK lost \in SUBSET ((visible \cup durable) \ (visible \cap durable)) :
            visible' = (visible \cup durable) \ lost
      BY <2>1 DEF Crash
    <3>2. durable' = visible' /\ publishing' = 0
      BY <2>1 DEF Crash
    <3> QED BY <1>1, <2>1, <3>1, <3>2
  <2>2. CASE ~power
    <3>1. UNCHANGED <<visible, durable, publishing>>
      BY <2>2 DEF Crash
    <3> QED BY <3>1
  <2> QED BY <2>1, <2>2
<1>4. Stays /\ \A n \in DOMAIN history' : n \in DOMAIN history /\ history'[n] = history[n]
  <2>1. CASE Running /\ ~keep
    <3>1. turn.before \in Nat /\ turn.before <= Len(history)
      BY <2>1 DEF Types, TurnType, TurnSet, HistoryType, TurnInv
    <3>2. history' = SubSeq(history, 1, turn.before)
      BY <1>1, <2>1
    <3>3. /\ \A n \in DOMAIN history : n <= turn.before => n \in DOMAIN history' /\ history'[n] = history[n]
          /\ \A n \in DOMAIN history' : n \in DOMAIN history /\ history'[n] = history[n]
      BY <3>1, <3>2, CutBehind
    <3> QED BY <1>2, <2>1, <3>3 DEF Stays
  <2>2. CASE ~ (Running /\ ~keep)
    BY <1>1, <1>2, <2>2 DEF Stays
  <2> QED BY <2>1, <2>2
<1> QED BY <1>1, <1>2, <1>3, <1>4

(* An instruction the drain ingests is put at the end, unless it is known.  *)
LEMMA IngestAppends ==
  ASSUME Types, LockInv, DrainInv, Ingest
  PROVE  LET i == drains[1].todo[1] IN
         /\ i \in Ids /\ ToIngest(i) /\ known' = known \cup {i} /\ ~Running /\ ~Running'
         /\ UNCHANGED <<mailbox, turn, cut>>
         /\ drains' # <<>> /\ drains'[1].at = "ack" /\ drains'[1].todo = drains[1].todo
         /\ \A n \in DOMAIN history : n \in DOMAIN history' /\ history'[n] = history[n]
         /\ \/ i \in known /\ history' = history
            \/ /\ i \notin known /\ Len(history) + 1 \in DOMAIN history'
               /\ history'[Len(history) + 1] = i
               /\ \A n \in DOMAIN history' : n \in DOMAIN history \/ n = Len(history) + 1
<1> DEFINE i == drains[1].todo[1]
<1>0. QueueType /\ history \in Seq(0 .. Instructions) /\ Len(history) \in Nat
      /\ DOMAIN history = 1 .. Len(history)
  BY DEF Types, HistoryType
<1>1. /\ UNCHANGED <<mailbox, turn, cut>> /\ drains # <<>> /\ First.at = "ingest"
      /\ Head(lock) = "drain" /\ drains' = [drains EXCEPT ![1].at = "ack"]
  BY DEF Ingest
<1>2. /\ First = drains[1] /\ drains[1].at = "ingest" /\ drains[1].todo \in Seq(Ids)
      /\ drains[1].todo # <<>> /\ Head(First.todo) = i /\ i \in Ids
  BY <1>0, <1>1, WorkToDo
<1>3. history' = (IF i \notin known THEN Append(history, i) ELSE history) /\ known' = known \cup {i}
  BY <1>2 DEF Ingest, IsNew
<1>4. ToIngest(i)
  <2>1. 1 \in DOMAIN drains[1].todo
    BY <1>2
  <2> QED BY <1>1, <2>1 DEF ToIngest
<1>5. ~Running /\ ~Running'
  <2>1. lock # <<>> /\ lock \in Seq({"turn", "drain", "close"})
    BY <1>0, <1>1, <1>2 DEF LockInv, QueueType
  <2>2. lock[1] = "drain"
    BY <1>1, <2>1
  <2>3. ~Running
    BY <2>2 DEF LockInv
  <2> QED BY <1>1, <2>3 DEF Running
<1>6. drains' # <<>> /\ drains'[1].at = "ack" /\ drains'[1].todo = drains[1].todo
  <2>1. drains' = [drains EXCEPT ![1].at = "ack", ![1].todo = drains[1].todo]
    BY <1>0, <1>1, FirstWaits
  <2> QED BY <1>0, <1>1, <1>2, <2>1, DrainWorks
<1> HIDE DEF i
<1>7. /\ \A n \in DOMAIN history : n \in DOMAIN history' /\ history'[n] = history[n]
      /\ \/ i \in known /\ history' = history
         \/ /\ i \notin known /\ Len(history) + 1 \in DOMAIN history'
            /\ history'[Len(history) + 1] = i
            /\ \A n \in DOMAIN history' : n \in DOMAIN history \/ n = Len(history) + 1
  <2>1. CASE i \notin known
    <3>1. history' = Append(history, i) /\ i \in 0 .. Instructions
      BY <1>2, <1>3, <2>1 DEF Ids
    <3>2. /\ DOMAIN history' = 1 .. Len(history) + 1 /\ history'[Len(history) + 1] = i
          /\ \A n \in 1 .. Len(history) : history'[n] = history[n]
      BY <1>0, <3>1
    <3>3. /\ Len(history) + 1 \in 1 .. Len(history) + 1
          /\ \A n \in 1 .. Len(history) + 1 : n \in 1 .. Len(history) \/ n = Len(history) + 1
          /\ \A n \in 1 .. Len(history) : n \in 1 .. Len(history) + 1
      BY <1>0
    <3> QED BY ONLY <1>0, <2>1, <3>2, <3>3
  <2>2. CASE i \in known
    BY <1>3, <2>2
  <2> QED BY <2>1, <2>2
<1> QED BY ONLY <1>1, <1>2, <1>3, <1>4, <1>5, <1>6, <1>7 DEF i

(* No drain has more to ingest than before.                                 *)
LEMMA NothingToIngest ==
  ASSUME DrainInv', NoNewWork, QueueType', NEW i, ToIngest(i)'
  PROVE  ToIngest(i)
<1>1. drains' # <<>> /\ drains' \in Seq(Drains) /\ \E n \in DOMAIN drains'[1].todo : drains'[1].todo[n] = i
  BY DEF ToIngest, QueueType
<1>2. 1 \in DOMAIN drains' /\ drains'[1].todo # <<>>
  BY <1>1
<1>3. drains'[1].at # "start"
  BY <1>2 DEF DrainInv
<1> QED BY <1>1, <1>3 DEF NoNewWork, ToIngest

(* What a drain removes from the mailbox is what it ingested last.          *)
LEMMA AckRemoves ==
  ASSUME Types, Types', DrainInv, DrainInv',
         NEW removed \in BOOLEAN, NEW synced \in BOOLEAN, AckDrained(removed, synced)
  PROVE  LET x == drains[1].todo[1] IN
         /\ drains # <<>> /\ drains[1].at = "ack" /\ x \in Ids
         /\ UNCHANGED <<receipt, publishing, journal, turn, cut>>
         /\ visible' \subseteq visible /\ durable' \subseteq durable \cup visible
         /\ \A i \in visible : i \in visible' \/ i = x
         /\ \A i \in visible \cap durable : i \in visible' \cap durable' \/ i = x
         /\ drains' # <<>> /\ drains'[1].at = "ack" => drains'[1] = drains[1]
         /\ \A i \in Ids : ToIngest(i)' => ToIngest(i)
<1> DEFINE x == drains[1].todo[1]
           rest == Tail(First.todo)
           gone == IF removed THEN {x} ELSE {}
<1>0. QueueType /\ QueueType' /\ drains \in Seq(Drains)
  BY DEF Types, QueueType
<1>1. /\ drains # <<>> /\ First.at = "ack" /\ UNCHANGED <<receipt, publishing, journal, turn, cut>>
      /\ Acknowledged(IF removed THEN {Head(First.todo)} ELSE {}, synced)
      /\ IF ~synced THEN DrainsFail ELSE IF rest = <<>> THEN DrainEnds
         ELSE drains' = [drains EXCEPT ![1].at = "ingest", ![1].todo = rest]
  BY DEF AckDrained
<1>2. /\ First = drains[1] /\ drains[1].at = "ack" /\ drains[1].todo \in Seq(Ids)
      /\ drains[1].todo # <<>> /\ Head(First.todo) = x /\ x \in Ids /\ rest \in Seq(Ids)
  BY <1>0, <1>1, WorkToDo
<1>3. visible' = visible \ gone /\ durable' = IF synced THEN visible \ gone ELSE durable
  BY <1>1, <1>2 DEF Acknowledged
<1>4. \A n \in DOMAIN rest : \E m \in DOMAIN drains[1].todo : drains[1].todo[m] = rest[n]
  <2> DEFINE todo == drains[1].todo
  <2>1. todo \in Seq(Ids) /\ todo # <<>> /\ rest = Tail(todo)
    BY <1>2
  <2> HIDE DEF todo, rest
  <2>2. \A n \in DOMAIN rest : n + 1 \in DOMAIN todo /\ todo[n + 1] = rest[n]
    BY <2>1
  <2> QED BY <2>2 DEF todo
<1> HIDE DEF x, rest
<1>5. /\ drains' # <<>> /\ drains'[1].at = "ack" => drains'[1] = drains[1]
      /\ \A i \in Ids : ToIngest(i)' => ToIngest(i)
  <2>1. CASE ~synced \/ rest = <<>>
    <3>1. drains' = <<>> \/ drains' = Tail(drains)
      BY <1>1, <2>1 DEF DrainsFail, DrainEnds
    <3>2. NoNewWork
      BY <1>0, <1>1, <3>1, DrainLeaves, DrainsRest
    <3>3. drains' # <<>> /\ drains'[1].at = "ack" => drains'[1] = drains[1]
      BY <3>2 DEF NoNewWork
    <3> QED BY <1>0, <3>2, <3>3, NothingToIngest
  <2>2. CASE synced /\ rest # <<>>
    <3>1. drains' # <<>> /\ drains'[1].at = "ingest" /\ drains'[1].todo = rest
      <4>1. drains' = [drains EXCEPT ![1].at = "ingest", ![1].todo = rest]
        BY <1>1, <2>2
      <4> QED BY <1>0, <1>1, <1>2, <2>2, <4>1, DrainWorks
    <3> QED BY <1>1, <1>4, <3>1 DEF ToIngest
  <2> QED BY <2>1, <2>2
<1> QED BY <1>1, <1>2, <1>3, <1>5 DEF x

(* What a turn removes from the mailbox as it ends is in the conversation.  *)
LEMMA SettleRemoves ==
  ASSUME Types, TurnInv, NEW stuck \in SUBSET Ids, NEW synced \in BOOLEAN, Settle(stuck, synced)
  PROVE  /\ UNCHANGED <<receipt, publishing, journal, drains>> /\ turn' = NoTurn
         /\ ~Running /\ ~Running' /\ cut \subseteq cut'
         /\ visible' \subseteq visible /\ durable' \subseteq durable \cup visible
         /\ \A i \in visible : i \in visible' \/ Heard(i)
         /\ \A i \in visible \cap durable : i \in visible' \cap durable' \/ Heard(i)
         /\ \A s \in turn.steered : s[2] \in DOMAIN history /\ history[s[2]] = s[1] =>
              s[1] \notin visible' \/ s[1] \in cut'
<1> DEFINE held == {s[1] : s \in {t \in turn.steered : StillHeld(t)}}
           gone == held \ stuck
<1>1. /\ UNCHANGED <<receipt, publishing, journal, drains>> /\ turn' = NoTurn /\ turn.pc = "ended"
      /\ cut' = cut \cup stuck /\ visible' = visible \ gone
      /\ durable' = visible \ gone \/ durable' = durable
  BY DEF Settle, Acknowledged, agent
<1>2. ~Running /\ ~Running'
  BY <1>1 DEF Running, NoTurn
<1>3. \A i \in held : Heard(i)
  BY DEF TurnInv, StillHeld, Heard
<1>4. \A s \in turn.steered : s[2] \in DOMAIN history /\ history[s[2]] = s[1] => s[1] \in held
  BY DEF StillHeld
<1> HIDE DEF held
<1> QED BY <1>1, <1>2, <1>3, <1>4

(* What is settled in the conversation stays there.                         *)
LEMMA SettledStays ==
  ASSUME Types, Types', LockInv, DrainInv, DrainInv', TurnInv, [Next]_vars
  PROVE  Stays
<1>1. ASSUME UNCHANGED history, Running' <=> Running, turn'.before = turn.before
      PROVE  Stays
  BY <1>1 DEF Stays
<1>2. ASSUME Quiet
      PROVE  Stays
  BY <1>1, <1>2, QuietTurn DEF Quiet, journal
<1>3. ASSUME Speaks
      PROVE  Stays
  <2>1. Extends(history, history') /\ Proceeds
    BY <1>3, SpeakingDelivers DEF Places
  <2>2. \A n \in DOMAIN history : n <= Len(history)
    BY DEF Types, HistoryType
  <2> QED BY <2>1, <2>2 DEF Extends, Proceeds, Stays
<1>4. ASSUME Moves
      PROVE  Stays
  <2>1. Fetches \/ Link \/ (\E outcome \in {"confirmed", "unconfirmed", "refused"} : SyncLink(outcome))
        => Stays
    BY <1>1 DEF Fetches, Link, SyncLink, journal, Running
  <2>2. ASSUME NEW removed \in BOOLEAN, NEW synced \in BOOLEAN, AckDrained(removed, synced)
        PROVE  Stays
    BY <1>1, <2>2 DEF AckDrained, journal, Running
  <2>3. ASSUME NEW outcome \in {"confirmed", "unconfirmed", "refused"}, Steer(outcome)
        PROVE  Stays
    <3>1. UNCHANGED history /\ turn \in TurnSet
          /\ (turn' = turn \/ turn' = [turn EXCEPT !.accepted = @ \cup {NextId}])
      BY <2>3 DEF Steer, journal, Types, TurnType
    <3>2. turn'.pc = turn.pc /\ turn'.before = turn.before
      BY <3>1 DEF TurnSet
    <3> QED BY <1>1, <3>1, <3>2 DEF Running
  <2>4. Ingest => Stays
    BY IngestAppends DEF Stays
  <2>5. ASSUME NEW stuck \in SUBSET Ids, NEW synced \in BOOLEAN, Settle(stuck, synced)
        PROVE  Stays
    BY <2>5, SettleRemoves DEF Stays, journal
  <2>6. (\E keep \in BOOLEAN : Fail(keep)) \/ (\E keep, power \in BOOLEAN : Crash(keep, power)) => Stays
    BY FailKeeps, CrashKeeps
  <2> QED BY <1>4, <2>1, <2>2, <2>3, <2>4, <2>5, <2>6 DEF Moves
<1> QED BY <1>2, <1>3, <1>4, StepKinds

(* A correction, as it is sent within a turn.                               *)
LEMMA SteerPublishes ==
  ASSUME Types, NEW outcome \in {"confirmed", "unconfirmed", "refused"}, Steer(outcome)
  PROVE  /\ NextId \in Ids /\ NextId \notin Sent /\ publishing = 0 /\ Window
         /\ visible' = IF outcome = "refused" THEN visible ELSE visible \cup {NextId}
         /\ durable' = IF outcome = "confirmed" THEN visible' ELSE durable
         /\ receipt'[NextId] = outcome /\ \A i \in Ids : i # NextId => receipt'[i] = receipt[i]
         /\ UNCHANGED <<publishing, history, known, drains, cut>>
         /\ turn'.accepted = IF outcome = "refused" THEN turn.accepted
                             ELSE turn.accepted \cup {NextId}
         /\ turn'.steered = turn.steered
<1>1. NextId \in Ids /\ NextId \notin Sent
  BY NextIsNew DEF Steer
<1>2. receipt \in [Ids -> Receipts] /\ turn \in TurnSet
  BY DEF Types, MailType, TurnType
<1>3. /\ publishing = 0 /\ Window /\ UNCHANGED <<publishing, history, known, drains, cut>>
      /\ visible' = IF outcome = "refused" THEN visible ELSE visible \cup {NextId}
      /\ durable' = IF outcome = "confirmed" THEN visible \cup {NextId} ELSE durable
      /\ receipt' = [receipt EXCEPT ![NextId] = outcome]
      /\ turn' = IF outcome = "refused" THEN turn ELSE [turn EXCEPT !.accepted = @ \cup {NextId}]
  BY DEF Steer, Published, Told, journal, agent
<1>4. /\ turn'.steered = turn.steered
      /\ turn'.accepted = IF outcome = "refused" THEN turn.accepted ELSE turn.accepted \cup {NextId}
  BY <1>2, <1>3 DEF TurnSet
<1> QED BY <1>1, <1>2, <1>3, <1>4

(* Each step keeps what was confirmed.                                      *)
LEMMA KeptHolds ==
  ASSUME Types, Types', LockInv, DrainInv, DrainInv', TurnInv, KeptInv, [Next]_vars
  PROVE  KeptInv'
<1>k. \A i : Kept(i) => Kept(i)'
  BY SettledStays DEF Stays, Kept
<1>1. ASSUME UNCHANGED <<mailbox, known>>,
             drains' # <<>> /\ drains'[1].at = "ack" => drains # <<>> /\ drains'[1] = drains[1]
      PROVE  KeptInv'
  BY <1>1, <1>k DEF KeptInv, mailbox
<1>2. UNCHANGED <<mailbox, known>> /\ NoNewWork => KeptInv'
  BY <1>1 DEF NoNewWork
<1>3. Quiet \/ (Speaks /\ NoNewWork) => KeptInv'
  BY <1>2, SpeakingDelivers DEF Quiet, journal
<1>4. ASSUME Fetches
      PROVE  KeptInv'
  <2>1. drains' # <<>> => drains'[1].at = "ingest"
    <3>1. QueueType /\ visible \in SUBSET Ids
      BY DEF Types, MailType
    <3>2. Pending \in Seq(Ids) /\ Pending # <<>>
      <4>1. Pending \in Seq(visible) /\ Pending # <<>>
        BY <1>4, <3>1, OrderHoldsEachOnce DEF Pending, Fetches
      <4> QED BY ONLY <3>1, <4>1, WiderSequence
    <3> QED BY <1>4, <3>1, <3>2, DrainWorks DEF Fetches
  <2> QED BY <1>1, <1>4, <2>1 DEF Fetches, journal
<1>5. ASSUME Ingest
      PROVE  KeptInv'
  <2> DEFINE x == drains[1].todo[1]
  <2>1. /\ known' = known \cup {x} /\ UNCHANGED mailbox /\ ~Running'
        /\ drains' # <<>> /\ drains'[1].todo[1] = x
    BY <1>5, IngestAppends
  <2>2. x \in known \/ (Len(history) + 1 \in DOMAIN history' /\ history'[Len(history) + 1] = x)
    BY <1>5, IngestAppends
  <2> HIDE DEF x
  <2>3. \A i \in known' : Kept(i)'
    BY <1>k, <2>1, <2>2 DEF KeptInv, Kept
  <2>4. drains'[1].todo[1] \in known'
    BY <2>1
  <2> QED BY <1>k, <2>1, <2>3, <2>4 DEF KeptInv, mailbox
<1>6. ASSUME Link
      PROVE  KeptInv'
  <2>1. /\ visible' = visible \cup {NextId} /\ publishing' = NextId
        /\ UNCHANGED <<durable, receipt, known, drains>>
    BY <1>6 DEF Link, journal, agent
  <2> QED BY <1>k, <2>1 DEF KeptInv
<1>7. ASSUME NEW removed \in BOOLEAN, NEW synced \in BOOLEAN, AckDrained(removed, synced)
      PROVE  KeptInv'
  <2>0. PICK x : x = drains[1].todo[1]
    OBVIOUS
  <2>1. /\ UNCHANGED <<receipt, publishing, known>>
        /\ \A i \in visible : i \in visible' \/ i = x
        /\ \A i \in visible \cap durable : i \in visible' \cap durable' \/ i = x
        /\ drains' # <<>> /\ drains'[1].at = "ack" => drains'[1] = drains[1]
        /\ drains # <<>> /\ drains[1].at = "ack"
    BY <1>7, <2>0, AckRemoves DEF journal
  <2>2. x \in known /\ Kept(x)'
    <3>1. x \in known /\ Kept(x)
      BY <2>0, <2>1 DEF KeptInv
    <3> QED BY <1>k, <3>1
  <2>3. drains' # <<>> /\ drains'[1].at = "ack" => drains'[1].todo[1] \in known'
    BY <2>0, <2>1, <2>2
  <2> QED BY <1>k, <2>1, <2>2, <2>3 DEF KeptInv
<1>8. ASSUME NEW keep \in BOOLEAN, Fail(keep), NoNewWork
      PROVE  KeptInv'
  BY <1>2, <1>8, FailKeeps
<1>9. ASSUME NEW stuck \in SUBSET Ids, NEW synced \in BOOLEAN, Settle(stuck, synced)
      PROVE  KeptInv'
  <2>1. /\ UNCHANGED <<receipt, publishing, history, known, drains>> /\ ~Running'
        /\ \A i \in visible : i \in visible' \/ Heard(i)
        /\ \A i \in visible \cap durable : i \in visible' \cap durable' \/ Heard(i)
    BY <1>9, SettleRemoves DEF journal
  <2>2. \A i : Heard(i) => Kept(i)'
    BY <2>1 DEF Heard, Kept
  <2> QED BY <1>k, <2>1, <2>2 DEF KeptInv
<1>10. ASSUME NEW outcome \in {"confirmed", "unconfirmed", "refused"}, Steer(outcome)
       PROVE  KeptInv'
  BY <1>10, <1>k, SteerPublishes DEF KeptInv
<1>11. ASSUME NEW outcome \in {"confirmed", "unconfirmed", "refused"}, SyncLink(outcome)
       PROVE  KeptInv'
  <2>1. /\ outcome \in {"confirmed", "unconfirmed"} /\ publishing # 0 /\ publishing' = 0
        /\ durable' = (IF outcome = "confirmed" THEN visible ELSE durable)
        /\ UNCHANGED <<visible, known, drains>>
        /\ receipt' = [receipt EXCEPT ![publishing] = outcome]
    BY <1>11 DEF SyncLink, Told, journal, agent
  <2>2. receipt \in [Ids -> Receipts]
    BY DEF Types, MailType
  <2>3. \A i \in Ids : receipt'[i] = "confirmed" =>
          (i = publishing /\ outcome = "confirmed") \/ receipt[i] = "confirmed"
    BY <2>1, <2>2
  <2>4. \A i \in Ids : receipt'[i] = "confirmed" => i \in visible' \cap durable' \/ Kept(i)'
    BY <1>k, <2>1, <2>3 DEF KeptInv
  <2> QED BY <1>k, <2>1, <2>4 DEF KeptInv
<1>12. ASSUME NEW keep \in BOOLEAN, NEW power \in BOOLEAN, Crash(keep, power)
       PROVE  KeptInv'
  BY <1>12, <1>k, CrashKeeps DEF KeptInv
<1>13. Moves => KeptInv'
  BY <1>4, <1>5, <1>6, <1>7, <1>8, <1>9, <1>10, <1>11, <1>12 DEF Moves
<1> QED BY <1>3, <1>13, StepKinds

-----------------------------------------------------------------------------
(* Refused instructions are not heard                                      *)

(* What is heard after a turn spoke was heard before or is a correction.    *)
LEMMA SpeakingIsHeard ==
  ASSUME Types, Speaks, NEW i \in Ids, Heard(i)'
  PROVE  Heard(i) \/ i \in Steering
<1>1. PICK n \in DOMAIN history' : history'[n] = i
  BY DEF Heard
<1>2. i # 0
  BY BoundsAreNumbers DEF Ids
<1>3. CASE n \in DOMAIN history
  <2>1. history'[n] = history[n]
    BY <1>3, SpeakingDelivers DEF Places, Extends
  <2> QED BY <1>1, <1>3, <2>1 DEF Heard
<1>4. CASE n \notin DOMAIN history
  <2>1. n \in New(history, history')
    BY <1>1, <1>4 DEF New
  <2> QED BY <1>1, <1>2, <2>1, SpeakingDelivers DEF Places
<1> QED BY <1>3, <1>4

(* A drain lists what is in the mailbox.                                    *)
LEMMA FetchesVisible ==
  ASSUME Types, DrainInv, Fetches, NEW i \in Ids, ToIngest(i)'
  PROVE  i \in visible
<1>1. QueueType /\ visible \in SUBSET Ids
  BY DEF Types, MailType
<1>2. Pending \in Seq(visible) /\ Pending # <<>>
  BY <1>1, OrderHoldsEachOnce DEF Pending, Fetches
<1>3. Pending \in Seq(Ids)
  BY ONLY <1>1, <1>2, WiderSequence
<1>4. drains'[1].todo = Pending
  BY <1>1, <1>2, <1>3, DrainWorks DEF Fetches
<1>5. PICK n \in DOMAIN Pending : Pending[n] = i
  BY <1>4 DEF ToIngest
<1> QED BY <1>2, <1>5

(* Each step keeps track of who was told what.                              *)
LEMMA AccountHolds ==
  ASSUME Types, Types', LockInv, DrainInv, DrainInv', TurnInv, KeptInv, AccountInv, [Next]_vars
  PROVE  AccountInv'
<1>0. /\ QueueType' /\ turn.accepted \subseteq Ids /\ NoTurn.accepted = {}
      /\ visible \subseteq Ids /\ durable \subseteq Ids
  BY DEF Types, MailType, TurnType, TurnSet, NoTurn
<1>d. NoNewWork => \A i \in Ids : ToIngest(i)' => ToIngest(i)
  BY <1>0, NothingToIngest
<1>1. ASSUME UNCHANGED <<mailbox, known>>, turn'.accepted = turn.accepted,
             \A i \in Ids : ToIngest(i)' => ToIngest(i),
             \A i \in Ids : Heard(i)' => Heard(i) \/ i \in turn.accepted
      PROVE  AccountInv'
  <2>1. UNCHANGED <<visible, durable, receipt, publishing>>
    BY <1>1 DEF mailbox
  <2>2. \A i : Accounted(i)' <=> Accounted(i)
    BY <1>1, <2>1 DEF Accounted
  <2>3. \A i : Good(i)' <=> Good(i)
    BY <2>1 DEF Good
  <2> QED BY <1>0, <1>1, <2>1, <2>2, <2>3 DEF AccountInv
<1>2. ASSUME Quiet
      PROVE  AccountInv'
  <2>1. UNCHANGED <<mailbox, known, history>> /\ turn'.accepted = turn.accepted
    BY <1>2, QuietTurn DEF Quiet, journal
  <2>2. \A i \in Ids : Heard(i)' => Heard(i)
    BY <2>1 DEF Heard
  <2> QED BY <1>1, <1>2, <1>d, <2>1, <2>2 DEF Quiet
<1>3. ASSUME Speaks, NoNewWork
      PROVE  AccountInv'
  <2>1. UNCHANGED <<mailbox, known>> /\ turn'.accepted = turn.accepted
    BY <1>3, SpeakingDelivers
  <2>2. \A i \in Ids : Heard(i)' => Heard(i) \/ i \in turn.accepted
    BY <1>3, SpeakingIsHeard DEF Steering
  <2> QED BY <1>1, <1>3, <1>d, <2>1, <2>2
<1>4. ASSUME Fetches
      PROVE  AccountInv'
  <2>1. UNCHANGED <<visible, durable, receipt, publishing, known, history, turn>>
    BY <1>4 DEF Fetches, mailbox, journal
  <2>2. \A i \in Ids : ToIngest(i)' => i \in visible
    BY <1>4, FetchesVisible
  <2> QED BY <2>1, <2>2 DEF AccountInv, Accounted, Good, Heard
<1>5. ASSUME Ingest
      PROVE  AccountInv'
  <2>0. PICK x : x = drains[1].todo[1]
    OBVIOUS
  <2>1. /\ x \in Ids /\ ToIngest(x) /\ known' = known \cup {x}
        /\ UNCHANGED <<mailbox, turn>> /\ drains # <<>>
        /\ drains' # <<>> /\ drains'[1].todo = drains[1].todo
    BY <1>5, <2>0, IngestAppends DEF Ingest
  <2>2. \A i \in Ids : Heard(i)' => Heard(i) \/ i = x
    BY <1>5, <2>0, IngestAppends DEF Heard
  <2>3. \A i : ToIngest(i)' <=> ToIngest(i)
    BY <2>1 DEF ToIngest
  <2>4. receipt[x] # "refused"
    BY <2>1 DEF AccountInv
  <2>5. UNCHANGED <<visible, durable, receipt, publishing>>
    BY <2>1 DEF mailbox
  <2> QED BY <2>1, <2>2, <2>3, <2>4, <2>5 DEF AccountInv, Accounted, Good
<1>6. ASSUME Link
      PROVE  AccountInv'
  <2>1. /\ visible' = visible \cup {NextId} /\ publishing' = NextId
        /\ UNCHANGED <<durable, receipt, known, history, drains, turn>>
    BY <1>6 DEF Link, journal, agent
  <2>2. receipt[NextId] = "none"
    BY <1>6, NextIsNew DEF Link, Sent
  <2> QED BY <2>1, <2>2 DEF AccountInv, Accounted, Good, Heard, ToIngest
<1>7. ASSUME NEW removed \in BOOLEAN, NEW synced \in BOOLEAN, AckDrained(removed, synced)
      PROVE  AccountInv'
  <2>0. PICK x : x = drains[1].todo[1]
    OBVIOUS
  <2>1. /\ UNCHANGED <<receipt, publishing, known, history, turn>>
        /\ visible' \subseteq visible /\ durable' \subseteq durable \cup visible
        /\ \A i \in visible : i \in visible' \/ i = x
        /\ \A i \in Ids : ToIngest(i)' => ToIngest(i)
    BY <1>7, <2>0, AckRemoves DEF journal
  <2>2. x \in known
    BY <1>7, <2>0, AckRemoves DEF KeptInv
  <2> QED BY <1>0, <2>1, <2>2 DEF AccountInv, Accounted, Good, Heard
<1>8. ASSUME NEW keep \in BOOLEAN, Fail(keep), NoNewWork
      PROVE  AccountInv'
  <2>1. \A i \in Ids : Heard(i)' => Heard(i)
    BY <1>8, FailKeeps DEF Heard
  <2> QED BY <1>1, <1>8, <1>d, <2>1, FailKeeps
<1>9. ASSUME NEW stuck \in SUBSET Ids, NEW synced \in BOOLEAN, Settle(stuck, synced)
      PROVE  AccountInv'
  <2>1. /\ UNCHANGED <<receipt, publishing, history, known, drains>> /\ turn'.accepted = {}
        /\ visible' \subseteq visible /\ durable' \subseteq durable \cup visible
        /\ \A i \in visible : i \in visible' \/ Heard(i)
    BY <1>0, <1>9, SettleRemoves DEF journal
  <2>2. \A i \in Ids : Accounted(i) => Accounted(i)'
    BY <2>1 DEF AccountInv, Accounted, Good
  <2> QED BY <1>0, <2>1, <2>2 DEF AccountInv, Good, Heard, ToIngest, Accounted
<1>10. ASSUME NEW outcome \in {"confirmed", "unconfirmed", "refused"}, Steer(outcome)
       PROVE  AccountInv'
  <2>0. PICK x : x = NextId
    OBVIOUS
  <2>1. /\ x \in Ids /\ x \notin Sent /\ publishing = 0
        /\ visible' = (IF outcome = "refused" THEN visible ELSE visible \cup {x})
        /\ durable' = (IF outcome = "confirmed" THEN visible' ELSE durable)
        /\ receipt'[x] = outcome /\ \A i \in Ids : i # x => receipt'[i] = receipt[i]
        /\ UNCHANGED <<publishing, history, known, drains, cut>>
        /\ turn'.accepted = (IF outcome = "refused" THEN turn.accepted ELSE turn.accepted \cup {x})
    BY <1>10, <2>0, SteerPublishes
  <2>2. /\ receipt[x] = "none" /\ x \notin visible /\ x \notin known /\ ~Heard(x)
    <3>1. history \in Seq(0 .. Instructions)
      BY DEF Types, HistoryType
    <3> QED BY <2>1, <3>1 DEF Sent, Contains, Heard
  <2>3. x \notin durable /\ ~ToIngest(x) /\ x \notin turn.accepted
    BY <2>1, <2>2 DEF AccountInv, Accounted, Good
  <2>4. \A i \in Ids : i # x => (Accounted(i) => Accounted(i)') /\ (Good(i) => Good(i)')
    BY <2>1 DEF Accounted, Good
  <2>5. Accounted(x)' /\ (outcome # "refused" => Good(x)')
    BY <2>1 DEF Accounted, Good
  <2>6. \A i : (Heard(i)' <=> Heard(i)) /\ (ToIngest(i)' <=> ToIngest(i))
    BY <2>1 DEF Heard, ToIngest
  <2>7. \A i \in Ids : receipt'[i] = "refused" =>
           i \notin visible' \cup durable' \cup known' /\ ~ToIngest(i)' /\ i # publishing'
    <3> TAKE i \in Ids
    <3>1. CASE i = x
      <4>1. x # 0
        BY <2>1, BoundsAreNumbers DEF Ids
      <4> QED BY <2>1, <2>2, <2>3, <2>6, <3>1, <4>1
    <3>2. CASE i # x
      BY <2>1, <2>6, <3>2 DEF AccountInv
    <3> QED BY <3>1, <3>2
  <2>8. \A i \in durable' : Accounted(i)'
    BY <1>0, <2>1, <2>4, <2>5 DEF AccountInv, Accounted
  <2>9. \A i \in turn'.accepted : Good(i)'
    BY <1>0, <2>1, <2>3, <2>4, <2>5 DEF AccountInv
  <2>10. /\ \A i \in Ids : ToIngest(i)' => Accounted(i)'
         /\ \A i \in Ids : Heard(i)' => i \in known' \/ Good(i)'
    BY <2>1, <2>2, <2>3, <2>4, <2>6 DEF AccountInv
  <2> QED BY <2>7, <2>8, <2>9, <2>10 DEF AccountInv
<1>11. ASSUME NEW outcome \in {"confirmed", "unconfirmed", "refused"}, SyncLink(outcome)
       PROVE  AccountInv'
  <2>1. /\ outcome \in {"confirmed", "unconfirmed"} /\ publishing # 0 /\ publishing' = 0
        /\ durable' = (IF outcome = "confirmed" THEN visible ELSE durable)
        /\ UNCHANGED <<visible, known, history, drains, turn>>
        /\ receipt' = [receipt EXCEPT ![publishing] = outcome]
    BY <1>11 DEF SyncLink, Told, journal, agent
  <2>2. receipt \in [Ids -> Receipts] /\ publishing \in Ids
    BY <2>1, BoundsAreNumbers DEF Types, MailType, Ids
  <2>3. \A i \in Ids : receipt'[i] = receipt[i] \/ (i = publishing /\ receipt'[i] = outcome)
    BY <2>1, <2>2
  <2>4. \A i \in Ids : (Accounted(i) => Accounted(i)') /\ (Good(i) => Good(i)')
    BY <2>1, <2>3 DEF Accounted, Good
  <2>5. \A i \in Ids : receipt'[i] = "refused" => receipt[i] = "refused" /\ i # 0
    BY <2>1, <2>3, BoundsAreNumbers DEF Ids
  <2>6. \A i : (Heard(i)' <=> Heard(i)) /\ (ToIngest(i)' <=> ToIngest(i))
    BY <2>1 DEF Heard, ToIngest
  <2>7. \A i \in durable' : Accounted(i)'
    BY <1>0, <2>1, <2>4 DEF AccountInv, Accounted
  <2>8. \A i \in Ids : receipt'[i] = "refused" =>
           i \notin visible' \cup durable' \cup known' /\ ~ToIngest(i)' /\ i # publishing'
    BY <2>1, <2>5, <2>6 DEF AccountInv
  <2>9. /\ \A i \in Ids : ToIngest(i)' => Accounted(i)'
        /\ \A i \in Ids : Heard(i)' => i \in known' \/ Good(i)'
        /\ \A i \in turn'.accepted : Good(i)'
    BY <1>0, <2>1, <2>4, <2>6 DEF AccountInv
  <2> QED BY <2>7, <2>8, <2>9 DEF AccountInv
<1>12. ASSUME NEW keep \in BOOLEAN, NEW power \in BOOLEAN, Crash(keep, power)
       PROVE  AccountInv'
  <2>1. /\ turn'.accepted = {} /\ drains' = <<>> /\ UNCHANGED <<receipt, known>>
        /\ visible' \subseteq visible \cup durable /\ durable' \subseteq visible \cup durable
        /\ \/ visible' = visible /\ publishing' = publishing
           \/ publishing' = 0 /\ durable' = visible'
    BY <1>0, <1>12, CrashKeeps
  <2>2. \A i : Heard(i)' => Heard(i)
    BY <1>12, CrashKeeps DEF Heard
  <2>3. \A i : ~ToIngest(i)'
    BY <2>1 DEF ToIngest
  <2>4. \A i \in durable' : Accounted(i)'
    BY <2>1 DEF AccountInv, Accounted
  <2>5. \A i \in Ids : receipt'[i] = "refused" =>
           i \notin visible' \cup durable' \cup known' /\ i # publishing'
    <3>1. \A i \in Ids : i # 0
      BY BoundsAreNumbers DEF Ids
    <3> QED BY <2>1, <3>1 DEF AccountInv
  <2>6. \A i \in Ids : Heard(i)' => i \in known' \/ Good(i)'
    BY <2>1, <2>2 DEF AccountInv, Good
  <2> QED BY <2>1, <2>3, <2>4, <2>5, <2>6 DEF AccountInv
<1>13. Moves => AccountInv'
  BY <1>4, <1>5, <1>6, <1>7, <1>8, <1>9, <1>10, <1>11, <1>12 DEF Moves
<1> QED BY <1>2, <1>3, <1>13, StepKinds

-----------------------------------------------------------------------------
(* Instructions are heard once                                             *)

(* Nothing new is said and nobody is given anything.                        *)
LEMMA OnceStays ==
  ASSUME OnceInv, Types, cut \subseteq cut', known' = known, turn'.steered = turn.steered,
         turn'.accepted = turn.accepted, visible' \subseteq visible,
         \A i \in Ids : ToIngest(i)' => ToIngest(i),
         \A n \in DOMAIN history' : n \in DOMAIN history /\ history'[n] = history[n]
  PROVE  OnceInv'
<1>1. turn.accepted \subseteq Ids /\ \A i : Heard(i)' => Heard(i)
  BY DEF Types, TurnType, TurnSet, Heard
<1>2. HeardOnce'
  BY DEF OnceInv, HeardOnce
<1> QED BY <1>1, <1>2 DEF OnceInv, Steered

(* A correction that was heard already was cut off by a fault.              *)
LEMMA AgainIsCut ==
  ASSUME Types, OnceInv, NEW i \in Steering, Heard(i)
  PROVE  i \in cut
<1>1. i \in Ids /\ i \in visible /\ i \in turn.accepted /\ i \notin Steered
  BY TurnKinds DEF Types, Steering, Steered
<1> QED BY <1>1 DEF OnceInv

(* What a turn says keeps each instruction in one place.                    *)
LEMMA SpeakingOnce ==
  ASSUME Types, Types', OnceInv, Speaks, \A i \in Ids : ToIngest(i)' => ToIngest(i)
  PROVE  OnceInv'
<1>1. /\ UNCHANGED <<visible, known, cut>> /\ turn'.accepted = turn.accepted
      /\ Places(history, history', turn'.steered)
  BY SpeakingDelivers DEF mailbox
<1>2. /\ turn.accepted \subseteq Ids /\ Steering \subseteq Ids /\ 0 \notin Ids
      /\ \A s \in turn.steered : s[1] \in Ids
  BY TurnKinds, BoundsAreNumbers DEF Types, Ids, Steered
<1>3. /\ \A n \in DOMAIN history : n \in DOMAIN history' /\ history'[n] = history[n]
      /\ turn.steered \subseteq turn'.steered
      /\ \A n \in New(history, history') : history'[n] = 0 \/
           (history'[n] \in Steering /\ <<history'[n], n>> \in turn'.steered)
      /\ \A m, n \in New(history, history') : history'[m] = history'[n] => m = n \/ history'[m] = 0
      /\ \A s \in turn'.steered : s \in turn.steered \/
           (s[1] \in Steering /\ s[2] \in New(history, history') /\ history'[s[2]] = s[1])
      /\ \A n \in DOMAIN history' : n \in DOMAIN history \/ n \in New(history, history')
  BY <1>1 DEF Places, Extends, New
<1>4. \A i \in Steering : Heard(i) => i \in cut
  BY AgainIsCut
<1>5. \A i \in Steering : \A s \in turn.steered : s[1] # i
  BY DEF Steering
<1>6. \A i \in Ids : Heard(i)' /\ i \notin known' \cup cut' /\ (i \in visible' \/ ToIngest(i)')
                     => i \in Steered'
  <2> SUFFICES ASSUME NEW i \in Ids, Heard(i)', i \notin known \cup cut, i \in visible \/ ToIngest(i)
               PROVE  i \in Steered'
    BY <1>1
  <2>1. PICK n \in DOMAIN history' : history'[n] = i
    BY DEF Heard
  <2>2. CASE n \in DOMAIN history
    <3>1. Heard(i)
      BY <1>3, <2>1, <2>2 DEF Heard
    <3>2. i \in Steered
      BY <3>1 DEF OnceInv
    <3> QED BY <1>3, <3>2 DEF Steered
  <2>3. CASE n \in New(history, history')
    <3>1. <<i, n>> \in turn'.steered
      BY <1>2, <1>3, <2>1, <2>3
    <3> QED BY <3>1 DEF Steered
  <2> QED BY <1>3, <2>2, <2>3
<1>7. \A s \in turn'.steered : \A n \in DOMAIN history' :
        history'[n] = s[1] => n = s[2] \/ s[1] \in cut
  <2> SUFFICES ASSUME NEW s \in turn'.steered, NEW n \in DOMAIN history', history'[n] = s[1]
               PROVE  n = s[2] \/ s[1] \in cut
    OBVIOUS
  <2>1. CASE s \in turn.steered /\ n \in DOMAIN history
    BY <1>3, <2>1 DEF OnceInv
  <2>2. CASE s \in turn.steered /\ n \in New(history, history')
    BY <1>2, <1>3, <1>5, <2>2
  <2>3. CASE s \notin turn.steered /\ n \in DOMAIN history
    <3>1. s[1] \in Steering /\ Heard(s[1])
      BY <1>3, <2>3 DEF Heard
    <3> QED BY <1>4, <3>1
  <2>4. CASE s \notin turn.steered /\ n \in New(history, history')
    BY <1>2, <1>3, <2>4
  <2> QED BY <1>3, <2>1, <2>2, <2>3, <2>4
<1>8. HeardOnce'
  <2> SUFFICES ASSUME NEW m \in DOMAIN history', NEW n \in DOMAIN history',
                      history'[m] = history'[n], history'[m] # 0
               PROVE  m = n \/ history'[m] \in cut
    BY <1>1 DEF HeardOnce
  <2>1. CASE m \in DOMAIN history /\ n \in DOMAIN history
    BY <1>3, <2>1 DEF OnceInv, HeardOnce
  <2>2. CASE m \in New(history, history') /\ n \in New(history, history')
    BY <1>3, <2>2
  <2>3. CASE m \in DOMAIN history /\ n \in New(history, history')
    <3>1. history'[n] \in Steering /\ Heard(history'[n])
      BY <1>3, <2>3 DEF Heard
    <3> QED BY <1>4, <3>1
  <2>4. CASE m \in New(history, history') /\ n \in DOMAIN history
    <3>1. history'[m] \in Steering /\ Heard(history'[m])
      BY <1>3, <2>4 DEF Heard
    <3> QED BY <1>4, <3>1
  <2> QED BY <1>3, <2>1, <2>2, <2>3, <2>4
<1>9. turn'.accepted \cap known' = {} /\ \A i \in turn'.accepted : ~ToIngest(i)'
  BY <1>1, <1>2 DEF OnceInv
<1> QED BY <1>1, <1>6, <1>7, <1>8, <1>9 DEF OnceInv

(* Each step keeps an instruction in one place of the conversation.         *)
LEMMA OnceHolds ==
  ASSUME Types, Types', LockInv, DrainInv, DrainInv', TurnInv, KeptInv, AccountInv, OnceInv,
         [Next]_vars
  PROVE  OnceInv'
<1>0. /\ QueueType' /\ turn.accepted \subseteq Ids /\ Steered \subseteq Ids /\ 0 \notin Ids
      /\ NoTurn.accepted = {} /\ NoTurn.steered = {}
  BY TurnKinds, BoundsAreNumbers DEF Types, TurnType, TurnSet, NoTurn, Ids
<1>d. NoNewWork => \A i \in Ids : ToIngest(i)' => ToIngest(i)
  BY <1>0, NothingToIngest
<1>1. ASSUME Quiet
      PROVE  OnceInv'
  <2>1. UNCHANGED <<visible, known, history, cut>>
        /\ turn'.accepted = turn.accepted /\ turn'.steered = turn.steered
    BY <1>1, QuietTurn DEF Quiet, journal, mailbox
  <2> QED BY <1>1, <1>d, <2>1, OnceStays DEF Quiet
<1>2. ASSUME Speaks, NoNewWork
      PROVE  OnceInv'
  BY <1>2, <1>d, SpeakingOnce
<1>3. ASSUME Fetches
      PROVE  OnceInv'
  <2>1. UNCHANGED <<visible, known, history, turn, cut>> /\ turn.accepted = {}
    BY <1>3 DEF Fetches, mailbox, journal, TurnInv
  <2>2. \A i \in Ids : ToIngest(i)' => i \in visible
    BY <1>3, FetchesVisible
  <2>3. HeardOnce'
    BY <2>1 DEF OnceInv, HeardOnce
  <2> QED BY <2>1, <2>2, <2>3 DEF OnceInv, Heard, Steered
<1>4. ASSUME Ingest
      PROVE  OnceInv'
  <2>0. PICK x : x = drains[1].todo[1]
    OBVIOUS
  <2>1. /\ x \in Ids /\ ToIngest(x) /\ known' = known \cup {x}
        /\ UNCHANGED <<visible, turn, cut>> /\ drains # <<>>
        /\ drains' # <<>> /\ drains'[1].todo = drains[1].todo
        /\ \A n \in DOMAIN history : n \in DOMAIN history' /\ history'[n] = history[n]
        /\ \/ x \in known /\ history' = history
           \/ /\ x \notin known /\ history'[Len(history) + 1] = x
              /\ \A n \in DOMAIN history' : n \in DOMAIN history \/ n = Len(history) + 1
    BY <1>4, <2>0, IngestAppends DEF Ingest, mailbox
  <2>2. \A i : ToIngest(i)' <=> ToIngest(i)
    BY <2>1 DEF ToIngest
  <2>3. x \notin turn.accepted /\ x \notin Steered
    BY <2>1 DEF OnceInv, TurnInv
  <2>4. \A n \in DOMAIN history' : n \in DOMAIN history \/
          (n = Len(history) + 1 /\ history'[n] = x /\ x \notin known)
    BY <2>1
  <2>5. x \notin known /\ Heard(x) => x \in cut
    BY <2>1, <2>3 DEF OnceInv
  <2>6. \A i \in Ids : Heard(i)' => Heard(i) \/ i = x
    BY <2>1, <2>4 DEF Heard
  <2>7. \A s \in turn.steered : \A n \in DOMAIN history' :
          history'[n] = s[1] => n = s[2] \/ s[1] \in cut
    BY <2>1, <2>3, <2>4 DEF OnceInv, Steered
  <2>8. HeardOnce'
    <3> SUFFICES ASSUME NEW m \in DOMAIN history', NEW n \in DOMAIN history',
                        history'[m] = history'[n], history'[m] # 0
                 PROVE  m = n \/ history'[m] \in cut
      BY <2>1 DEF HeardOnce
    <3>1. CASE m \in DOMAIN history /\ n \in DOMAIN history
      BY <2>1, <3>1 DEF OnceInv, HeardOnce
    <3>2. CASE m \notin DOMAIN history /\ n \in DOMAIN history
      <4>1. history'[m] = x /\ x \notin known /\ Heard(x)
        BY <2>1, <2>4, <3>2 DEF Heard
      <4> QED BY <2>5, <4>1
    <3>3. CASE m \in DOMAIN history /\ n \notin DOMAIN history
      <4>1. history'[n] = x /\ x \notin known /\ Heard(x)
        BY <2>1, <2>4, <3>3 DEF Heard
      <4> QED BY <2>5, <4>1
    <3>4. CASE m \notin DOMAIN history /\ n \notin DOMAIN history
      BY <2>4, <3>4
    <3> QED BY <3>1, <3>2, <3>3, <3>4
  <2>9. turn'.accepted \cap known' = {} /\ \A i \in turn'.accepted : ~ToIngest(i)'
    BY <2>1, <2>2, <2>3 DEF OnceInv
  <2>10. \A i \in Ids : Heard(i)' /\ i \notin known' \cup cut' /\ (i \in visible' \/ ToIngest(i)')
                        => i \in Steered'
    BY <2>1, <2>2, <2>6 DEF OnceInv, Steered
  <2> QED BY <2>1, <2>7, <2>8, <2>9, <2>10 DEF OnceInv
<1>5. ASSUME Link
      PROVE  OnceInv'
  <2>0. PICK x : x = NextId
    OBVIOUS
  <2>1. /\ visible' = visible \cup {x} /\ UNCHANGED <<known, history, drains, turn, cut>>
    BY <1>5, <2>0 DEF Link, journal, agent
  <2>2. ~Heard(x)
    <3>1. history \in Seq(0 .. Instructions)
      BY DEF Types, HistoryType
    <3> QED BY <1>5, <2>0, <3>1, NextIsNew DEF Link, Sent, Contains, Heard
  <2>3. HeardOnce'
    BY <2>1 DEF OnceInv, HeardOnce
  <2>4. \A i : (Heard(i)' <=> Heard(i)) /\ (ToIngest(i)' <=> ToIngest(i))
    BY <2>1 DEF Heard, ToIngest
  <2> QED BY <2>1, <2>2, <2>3, <2>4 DEF OnceInv, Steered
<1>6. ASSUME NEW removed \in BOOLEAN, NEW synced \in BOOLEAN, AckDrained(removed, synced)
      PROVE  OnceInv'
  <2>1. /\ UNCHANGED <<known, history, turn, cut>> /\ visible' \subseteq visible
        /\ \A i \in Ids : ToIngest(i)' => ToIngest(i)
    BY <1>6, AckRemoves DEF journal
  <2> QED BY <2>1, OnceStays
<1>7. ASSUME NEW keep \in BOOLEAN, Fail(keep), NoNewWork
      PROVE  OnceInv'
  <2>1. /\ UNCHANGED <<visible, known, cut>>
        /\ turn'.accepted = turn.accepted /\ turn'.steered = turn.steered
        /\ \A n \in DOMAIN history' : n \in DOMAIN history /\ history'[n] = history[n]
    BY <1>7, FailKeeps DEF mailbox
  <2> QED BY <1>7, <1>d, <2>1, OnceStays
<1>8. ASSUME NEW stuck \in SUBSET Ids, NEW synced \in BOOLEAN, Settle(stuck, synced)
      PROVE  OnceInv'
  <2>1. /\ UNCHANGED <<history, known, drains>> /\ turn'.accepted = {} /\ turn'.steered = {}
        /\ visible' \subseteq visible /\ cut \subseteq cut'
        /\ \A s \in turn.steered : s[2] \in DOMAIN history /\ history[s[2]] = s[1] =>
              s[1] \notin visible' \/ s[1] \in cut'
    BY <1>0, <1>8, SettleRemoves DEF journal
  <2>2. \A i : (Heard(i)' <=> Heard(i)) /\ (ToIngest(i)' <=> ToIngest(i))
    BY <2>1 DEF Heard, ToIngest
  <2>3. HeardOnce'
    BY <2>1 DEF OnceInv, HeardOnce
  <2>4. ASSUME NEW i \in Ids, Heard(i), i \notin known, i \notin cut', i \in visible' \/ ToIngest(i)
        PROVE  FALSE
    <3>1. i \in Steered
      BY <2>1, <2>4 DEF OnceInv
    <3>2. PICK s \in turn.steered : s[1] = i
      BY <3>1 DEF Steered
    <3>3. i \in turn.accepted /\ ~ToIngest(i)
      BY <3>1 DEF TurnInv, OnceInv
    <3>4. PICK n \in DOMAIN history : history[n] = i
      BY <2>4 DEF Heard
    <3>5. n = s[2]
      BY <2>1, <2>4, <3>2, <3>4 DEF OnceInv
    <3> QED BY <2>1, <2>4, <3>2, <3>3, <3>4, <3>5
  <2> QED BY <2>1, <2>2, <2>3, <2>4 DEF OnceInv
<1>9. ASSUME NEW outcome \in {"confirmed", "unconfirmed", "refused"}, Steer(outcome)
      PROVE  OnceInv'
  <2>0. PICK x : x = NextId
    OBVIOUS
  <2>1. /\ x \in Ids /\ x \notin Sent
        /\ visible' = (IF outcome = "refused" THEN visible ELSE visible \cup {x})
        /\ UNCHANGED <<history, known, drains, cut>>
        /\ turn'.accepted = (IF outcome = "refused" THEN turn.accepted ELSE turn.accepted \cup {x})
        /\ turn'.steered = turn.steered
    BY <1>9, <2>0, SteerPublishes
  <2>2. /\ receipt[x] = "none" /\ x \notin visible /\ x \notin known /\ ~Heard(x)
    <3>1. history \in Seq(0 .. Instructions)
      BY DEF Types, HistoryType
    <3> QED BY <2>1, <3>1 DEF Sent, Contains, Heard
  <2>3. ~ToIngest(x)
    BY <2>1, <2>2 DEF AccountInv, Accounted
  <2>4. \A i : (Heard(i)' <=> Heard(i)) /\ (ToIngest(i)' <=> ToIngest(i))
    BY <2>1 DEF Heard, ToIngest
  <2>5. HeardOnce'
    BY <2>1 DEF OnceInv, HeardOnce
  <2>6. turn'.accepted \cap known' = {} /\ \A i \in turn'.accepted : ~ToIngest(i)'
    BY <2>1, <2>2, <2>3, <2>4 DEF OnceInv
  <2>7. Steered' = Steered
    BY <2>1 DEF Steered
  <2>8. \A i \in Ids : Heard(i)' /\ i \notin known' \cup cut' /\ (i \in visible' \/ ToIngest(i)')
                       => i \in Steered'
    BY <2>1, <2>2, <2>4, <2>7 DEF OnceInv
  <2> QED BY <2>1, <2>5, <2>6, <2>8 DEF OnceInv
<1>10. ASSUME NEW outcome \in {"confirmed", "unconfirmed", "refused"}, SyncLink(outcome), NoNewWork
       PROVE  OnceInv'
  <2>1. UNCHANGED <<visible, known, history, turn, cut>>
    BY <1>10 DEF SyncLink, journal
  <2> QED BY <1>10, <1>d, <2>1, OnceStays
<1>11. ASSUME NEW keep \in BOOLEAN, NEW power \in BOOLEAN, Crash(keep, power)
       PROVE  OnceInv'
  <2>1. /\ turn'.accepted = {} /\ turn'.steered = {} /\ drains' = <<>> /\ known' = known
        /\ visible' \subseteq visible \cup durable
        /\ visible' = visible \/ durable \ visible \subseteq cut'
        /\ cut \subseteq cut' /\ Steered \subseteq cut'
        /\ \A n \in DOMAIN history' : n \in DOMAIN history /\ history'[n] = history[n]
    BY <1>0, <1>11, CrashKeeps
  <2>2. \A i : ~ToIngest(i)' /\ (Heard(i)' => Heard(i))
    BY <2>1 DEF Heard, ToIngest
  <2>3. HeardOnce'
    BY <2>1 DEF OnceInv, HeardOnce
  <2>4. \A i \in Ids : Heard(i)' /\ i \notin known' \cup cut' => i \notin visible'
    BY <2>1, <2>2 DEF OnceInv
  <2> QED BY <2>1, <2>2, <2>3, <2>4 DEF OnceInv
<1>12. Moves => OnceInv'
  BY <1>3, <1>4, <1>5, <1>6, <1>7, <1>8, <1>9, <1>10, <1>11 DEF Moves
<1> QED BY <1>1, <1>2, <1>12, StepKinds

-----------------------------------------------------------------------------
(* The theorems                                                            *)

(* An idle conversation with an empty mailbox.                              *)
LEMMA InvInit ==
  ASSUME Init
  PROVE  Inv
<1>1. /\ history = <<>> /\ drains = <<>> /\ lock = <<>> /\ turn = NoTurn /\ publishing = 0
      /\ visible = {} /\ durable = {} /\ known = {} /\ cut = {}
      /\ receipt = [i \in Ids |-> "none"] /\ ask = [c \in Callers |-> "none"]
  BY DEF Init
<1>2. /\ turn.pc = "idle" /\ turn.accepted = {} /\ turn.steered = {} /\ ~turn.finished /\ ~turn.window
      /\ turn = [NoTurn EXCEPT !.pc = turn.pc]
  BY <1>1 DEF NoTurn
<1>3. MailType /\ HistoryType /\ AskType /\ QueueType
  BY <1>1, BoundsAreNumbers DEF MailType, HistoryType, AskType, QueueType, Receipts
<1>4. TurnType
  BY <1>1 DEF TurnType, TurnSet, NoTurn, Phases
<1>5. LockInv /\ DrainInv
  BY <1>1, <1>2 DEF LockInv, DrainInv, Running
<1>6. TurnInv
  BY <1>2 DEF TurnInv, Steered, Running, Window
<1>7. KeptInv
  BY <1>1 DEF KeptInv
<1>8. AccountInv
  BY <1>1, <1>2 DEF AccountInv, ToIngest, Heard
<1>9. OnceInv
  <2>1. DOMAIN history = {}
    BY <1>1
  <2> QED BY <1>1, <1>2, <2>1 DEF OnceInv, ToIngest, Heard, HeardOnce
<1> QED BY <1>3, <1>4, <1>5, <1>6, <1>7, <1>8, <1>9 DEF Inv, Types

(* The parts together are kept by every step.                               *)
LEMMA InvNext ==
  ASSUME Inv, [Next]_vars
  PROVE  Inv'
<1>1. Types' /\ LockInv' /\ DrainInv'
  BY TypesHold, ChainHolds DEF Inv
<1>2. TurnInv' /\ KeptInv' /\ AccountInv' /\ OnceInv'
  BY <1>1, TurnHolds, KeptHolds, AccountHolds, OnceHolds DEF Inv
<1> QED BY <1>1, <1>2 DEF Inv

(* Hence they hold in every state.                                          *)
LEMMA InvAlways == Spec => []Inv
BY InvInit, InvNext, PTL DEF Spec

(* At most one drain waits for the turn lock.                               *)
LEMMA OneDrainWaits ==
  ASSUME QueueType, LockInv
  PROVE  Cardinality({n \in DOMAIN lock : lock[n] = "drain"}) <= 1
<1> DEFINE S == {n \in DOMAIN lock : lock[n] = "drain"}
<1>1. \A m, n \in S : m = n
  BY DEF LockInv
<1> HIDE DEF S
<1>2. CASE S = {}
  BY <1>2, FS_EmptySet DEF S
<1>3. CASE S # {}
  <2>1. PICK n : n \in S
    BY <1>3
  <2>2. S = {n}
    BY <1>1, <2>1
  <2>3. Cardinality({n}) = 1
    BY FS_Singleton
  <2> QED BY <2>2, <2>3 DEF S
<1> QED BY <1>2, <1>3

(* Every variable holds a value of its kind, the lock is the turn's exactly *)
(* while the turn runs, and one drain at most waits for it.                 *)
THEOREM TypeCorrect == Spec => []TypeOK
<1>1. ASSUME Inv
      PROVE  TypeOK
  <2>1. Types /\ LockInv
    BY <1>1 DEF Inv
  <2>2. turn.pc \in Phases /\ turn.accepted \subseteq Ids
    BY <2>1 DEF Types, TurnType, TurnSet
  <2>3. \A n \in DOMAIN history : history[n] \in 0 .. Instructions
    <3>1. \A S : \A s \in Seq(S) : \A n \in DOMAIN s : s[n] \in S
      OBVIOUS
    <3>2. history \in Seq(0 .. Instructions)
      BY <2>1 DEF Types, HistoryType
    <3> QED BY ONLY <3>1, <3>2
  <2>4. turn.pc \in {"step", "answer", "tool"} => lock # <<>> /\ Head(lock) = "turn"
    <3>1. lock # <<>> => Head(lock) = lock[1]
      BY <2>1 DEF Types, QueueType
    <3> QED BY <2>1, <3>1 DEF LockInv, Running
  <2>5. Cardinality({n \in DOMAIN lock : lock[n] = "drain"}) <= 1
    BY <2>1, OneDrainWaits DEF Types
  <2> QED BY <2>1, <2>2, <2>3, <2>4, <2>5 DEF TypeOK, Types, MailType, AskType
<1> QED BY <1>1, InvAlways, PTL

(* What is kept is in the settled part of the conversation.                 *)
LEMMA KeptIsSettled ==
  ASSUME Types, TurnInv, NEW i, Kept(i)
  PROVE  Contains(Settled, i)
<1>1. PICK n \in DOMAIN history : history[n] = i /\ (Running => n <= turn.before)
  BY DEF Kept
<1>2. history \in Seq(0 .. Instructions) /\ Len(history) \in Nat /\ n \in 1 .. Len(history)
  BY DEF Types, HistoryType
<1>3. CASE Running
  <2>1. turn.before \in Nat /\ turn.checkpoint \in Nat
        /\ turn.before <= turn.checkpoint /\ turn.checkpoint <= Len(history)
    BY <1>3 DEF Types, TurnType, TurnSet, TurnInv
  <2>2. Settled = SubSeq(history, 1, turn.before)
    BY <1>3 DEF Settled, Running
  <2>3. n \in 1 .. turn.before /\ turn.before <= Len(history)
    BY <1>1, <1>2, <1>3, <2>1
  <2>4. Len(SubSeq(history, 1, turn.before)) = turn.before
        /\ SubSeq(history, 1, turn.before)[n] = history[n]
    BY <1>2, <2>1, <2>3
  <2> QED BY <1>1, <2>2, <2>3, <2>4 DEF Contains
<1>4. CASE ~Running
  <2>1. Settled = history
    BY <1>4 DEF Settled, Running
  <2> QED BY <1>1, <1>2, <2>1 DEF Contains
<1> QED BY <1>3, <1>4

(* An instruction whose sender was told it is safe is in the mailbox, and   *)
(* will be after a power failure, until the conversation holds it where no  *)
(* failure of the turn can take it back.                                    *)
THEOREM AcceptedKept == Spec => []AcceptedIsKept
<1>1. ASSUME Inv
      PROVE  AcceptedIsKept
  <2>1. Types /\ TurnInv /\ \A i \in Ids : receipt[i] = "confirmed" => i \in visible \cap durable \/ Kept(i)
    BY <1>1 DEF Inv, KeptInv
  <2> QED BY <2>1, KeptIsSettled DEF AcceptedIsKept
<1> QED BY <1>1, InvAlways, PTL

(* An instruction its sender was told was refused, and will queue as a task *)
(* of its own, is not in the mailbox and the conversation never holds it.   *)
THEOREM RefusedUnheard == Spec => []RefusedIsNotHeard
<1>1. ASSUME Inv
      PROVE  RefusedIsNotHeard
  <2>1. history \in Seq(0 .. Instructions)
    BY <1>1 DEF Inv, Types, HistoryType
  <2>2. \A i : Contains(history, i) => Heard(i)
    BY <2>1 DEF Contains, Heard
  <2> QED BY <1>1, <2>2 DEF Inv, AccountInv, Good, RefusedIsNotHeard
<1> QED BY <1>1, InvAlways, PTL

(* The conversation holds an instruction once, unless a fault came between  *)
(* its delivery within a turn and its removal from the mailbox.             *)
THEOREM HeardOnlyOnce == Spec => []HeardOnce
<1>1. Inv => HeardOnce
  BY DEF Inv, OnceInv
<1> QED BY <1>1, InvAlways, PTL

(* No step takes back or changes what is settled in the conversation: not a *)
(* failure of the turn, nor a crash that rolls it back.                     *)
THEOREM SettledForGood == Spec => [][Stays]_vars
<1>1. Inv /\ [Next]_vars => [Stays]_vars
  <2> SUFFICES ASSUME Inv, [Next]_vars
               PROVE  Stays
    OBVIOUS
  <2>1. Inv'
    BY InvNext
  <2> QED BY <2>1, SettledStays DEF Inv
<1> QED BY <1>1, InvAlways, PTL DEF Spec

(* Each instruction has one place in the conversation, without exception.   *)
StrictlyOnce ==
  \A m, n \in DOMAIN history : history[m] = history[n] /\ history[m] # 0 => m = n

(* No fault has come between a delivery and a removal, as there was none.   *)
Faultless == budget \in [turns : Int, faults : {0}] /\ cut = {}

(* Without crashes, failed calls and retirements the conversation holds     *)
(* each instruction at most once, whatever drains and turns interleave.     *)
THEOREM OnceWithoutFaults ==
  ASSUME Faults = 0
  PROVE  Spec => []StrictlyOnce
<1>1. Init => Faultless
  BY DEF Init, Faultless
<1>2. ASSUME Faultless, [Next]_vars
      PROVE  Faultless'
  <2>1. ~Fault
    BY <1>2 DEF Fault, Faultless
  <2>2. CASE UNCHANGED <<budget, cut>>
    BY <1>2, <2>2 DEF Faultless
  <2>3. CASE StartTurn
    BY <1>2, <2>3 DEF StartTurn, Faultless
  <2>4. UNCHANGED vars => UNCHANGED <<budget, cut>>
    BY DEF vars
  <2>5. TurnStep => UNCHANGED <<budget, cut>>
    <3>1. ASSUME NEW stuck \in SUBSET Ids, NEW synced \in BOOLEAN, Settle(stuck, synced)
          PROVE  UNCHANGED <<budget, cut>>
      BY <2>1, <3>1 DEF Settle, NoFault
    <3> QED BY <2>1, <3>1
            DEF TurnStep, Begin, SetupFails, SetupAborted, SetupUnheeded, StopsWaiting, Admit, ToolsDone, AnswerGiven, Exhausted, Step,
                CallTools, Fail, NoFault
  <2>6. DrainStep => UNCHANGED <<budget, cut>>
    BY <2>1 DEF DrainStep, ListPending, ListFails, Ingest, Closed, LookDone, AckDrained,
                AgentBuilt, NoFault
  <2>7. Others => StartTurn \/ UNCHANGED <<budget, cut>>
    BY <2>1 DEF Others, Look, Retire, Link, Steer, Published, SyncLink, Crash, NoFault
  <2> QED BY <1>2, <2>2, <2>3, <2>4, <2>5, <2>6, <2>7 DEF Next
<1>3. Inv /\ Faultless => StrictlyOnce
  BY DEF Inv, OnceInv, HeardOnce, Faultless, StrictlyOnce
<1> QED BY <1>1, <1>2, <1>3, InvAlways, PTL DEF Spec
=============================================================================
