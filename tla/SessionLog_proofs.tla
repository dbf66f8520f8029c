-------------------------- MODULE SessionLog_proofs --------------------------
(***************************************************************************)
(* Theorems about what the wire log of SessionServer says, for every       *)
(* engine, every finite set of requests, all bounds and any number of      *)
(* processes and crashes.                                                  *)
(***************************************************************************)
EXTENDS SessionServer_proofs, SessionRestore

-----------------------------------------------------------------------------
(* What the first n events of a log say                                    *)

Turns(l, type, n) == {l[i].turn : i \in {j \in 1 .. n : l[j].type = type}}
Reqs(l, type, n) == {l[i].req : i \in {j \in 1 .. n : l[j].type = type}}
Count(l, n) == Cardinality({j \in 1 .. n : l[j].type = "turn.started"})

(* A turn some process died in; an unconfirmed stop no clean close follows. *)
Dead(l, n) == \E i \in 1 .. n : l[i].type = "turn.ended" /\ l[i].reason = "process_exit"
Standing(l, n) ==
  \E i \in 1 .. n :
    /\ l[i].type = "turn.ended" /\ l[i].how = "stop_unconfirmed"
    /\ \A c \in i + 1 .. n : l[c].type = "session.closed" => l[c].error

(* A usage event that is a lower bound; the last total; a turn without one. *)
Partial(l, n) == \E i \in 1 .. n : l[i].type = "usage" /\ ~l[i].complete
TotalIs(l, n, x) ==
  \/ x = 0 /\ \A i \in 1 .. n : l[i].type # "usage"
  \/ \E i \in 1 .. n : /\ l[i].type = "usage" /\ l[i].cumulative = x
                       /\ \A j \in i + 1 .. n : l[j].type # "usage"
Unmeasured(l, n) == ~ (Turns(l, "turn.started", n) \subseteq Turns(l, "usage", n))

AllEnded(l, n) == Turns(l, "turn.started", n) \subseteq Turns(l, "turn.ended", n)
AllResolved(l, n) == Reqs(l, "request", n) \subseteq Reqs(l, "resolved", n)

AllowedIn(l, n, r) ==
  \E i \in 1 .. n : /\ l[i].type = "resolved" /\ l[i].req = r
                    /\ l[i].source = "client" /\ Allows(l[i].decision)

(* What a response said is in the first n events.                           *)
Backed(l, n, m) ==
  \E i \in 1 .. n :
    IF "req" \in DOMAIN m
    THEN l[i].type = "resolved" /\ l[i].req = m.req /\ l[i].decision = m.decision
    ELSE l[i].type = "turn.started" /\ l[i].turn = m.turn

-----------------------------------------------------------------------------
(* An event against those before it, by its kind                           *)

StartedOK(l, k) ==
  l[k].type = "turn.started" =>
    /\ l[k].turn = Count(l, k - 1) + 1
    /\ AllEnded(l, k - 1) /\ ~Dead(l, k - 1) /\ ~Standing(l, k - 1)
RequestOK(l, k) == l[k].type = "request" => l[k].req \notin Reqs(l, "request", k - 1)
ResolvedOK(l, k) ==
  l[k].type = "resolved" => l[k].req \in Reqs(l, "request", k - 1) \ Reqs(l, "resolved", k - 1)
UsageOK(l, k) ==
  l[k].type = "usage" =>
    l[k].turn \in Turns(l, "turn.started", k - 1) \ Turns(l, "usage", k - 1)
EndedOK(l, k) ==
  l[k].type = "turn.ended" =>
    /\ l[k].turn \in Turns(l, "turn.started", k - 1) \cap Turns(l, "usage", k - 1)
    /\ AllResolved(l, k - 1)
    /\ l[k].reason = "process_exit" => l[k].how = "stop_unconfirmed"
ClosedOK(l, k) == l[k].type = "session.closed" => AllResolved(l, k - 1)
SealOK(l, k) == l[k].type # "session.closed" => l[k].turn \notin Turns(l, "turn.ended", k - 1)

EventOK(l, k) ==
  /\ StartedOK(l, k) /\ RequestOK(l, k) /\ ResolvedOK(l, k) /\ UsageOK(l, k)
  /\ EndedOK(l, k) /\ ClosedOK(l, k) /\ SealOK(l, k)
WellFormed(l) == \A k \in 1 .. Len(l) : EventOK(l, k)

(* Without a failed fsync every turn has ended when the session is closed.  *)
CloseOK(l, k) == l[k].type = "session.closed" => AllEnded(l, k - 1)

-----------------------------------------------------------------------------
(* The process against its log                                             *)

Running == phase # "down"
End == Len(log)

DownInv ==
  phase = "down" =>
    /\ active = NoTurn /\ ask = "none" /\ duty = "none" /\ outbound = <<>>
    /\ \A r \in Requests : gate[r] # "pending"

TurnInv ==
  Running =>
    /\ turns = Count(log, End)
    /\ active = NoTurn => AllEnded(log, End)
    /\ active # NoTurn =>
         /\ active \in Turns(log, "turn.started", End)
         /\ active \notin Turns(log, "usage", End) \cup Turns(log, "turn.ended", End)
         /\ Turns(log, "turn.started", End) \subseteq Turns(log, "turn.ended", End) \cup {active}
         /\ blocked = "no"

AskInv ==
  /\ active = NoTurn <=> ask \in {"none", "abandoned"}
  /\ ask = "lost" => faults > 0
  /\ phase \in {"closing", "closed"} => ask \in {"none", "abandoned", "lost"}
  /\ ask = "abandoned" => ~complete

RequestInv ==
  /\ \A r \in Requests : gate[r] = "idle" => r \notin Reqs(log, "request", End)
  /\ Running => \A r \in Requests :
       /\ records[r].state = "pending" <=> gate[r] = "pending"
       /\ records[r].state = "pending" =>
            /\ r \in Reqs(log, "request", End) \ Reqs(log, "resolved", End)
            /\ records[r].turn \in {NoTurn, active}
       /\ records[r].state = "unknown" => r \notin Reqs(log, "request", End)
       /\ records[r].state = "resolved" => Backed(log, End, Recorded(r, records[r].decision))
  /\ phase \in {"closing", "closed"} => \A r \in Requests : gate[r] # "pending"

ReplyInv ==
  /\ \A k \in DOMAIN outbound : \A m \in outbound[k].told : Backed(log, End, m)
  /\ \A m \in told : Backed(log, synced, m)

BlockInv ==
  Running => /\ Dead(log, End) => blocked = "sticky"
             /\ phase = "up" /\ blocked = "no" => ~Standing(log, End)

(* When nothing is queued the log is durable, and so is the start of a turn *)
(* the engine has.                                                          *)
DurableInv ==
  Running => /\ outbound = <<>> => synced = End
             /\ ask = "running" => active \in Turns(log, "turn.started", synced)

ActedInv ==
  faults = 0 =>
    /\ \A k \in 1 .. End : CloseOK(log, k)
    /\ \A r \in acted : AllowedIn(log, synced, r)
    /\ \A r \in Requests : gate[r] = "allow" => r \in acted \/ (Running /\ AllowedIn(log, End, r))
    /\ \A i \in 1 .. End : log[i].type = "resolved" =>
         gate[log[i].req] \in
           IF log[i].source = "client" /\ Allows(log[i].decision)
           THEN {"allow", "gone"} ELSE {"deny", "gone"}

Loose(n) == Unmeasured(log, n) \/ Partial(log, n)
UsageInv ==
  /\ \A i \in 1 .. End : log[i].type = "usage" => log[i].cumulative <= spent
  /\ \A n \in synced .. End : Loose(n) \/ TotalIs(log, n, spent)
  /\ ask \in {"running", "abandoned"} => \A n \in synced .. End : Loose(n)
  /\ Running =>
       /\ TotalIs(log, End, usage)
       /\ complete <=> ~Partial(log, End)
       /\ usage + (IF active = NoTurn THEN 0 ELSE attempts) <= spent
       /\ complete => usage + (IF active = NoTurn THEN 0 ELSE attempts) = spent

SoundLog ==
  /\ WellFormed(log) /\ DownInv /\ TurnInv /\ AskInv /\ RequestInv /\ ReplyInv
  /\ BlockInv /\ DurableInv /\ ActedInv /\ UsageInv
-----------------------------------------------------------------------------
(* Lemmas on logs                                                          *)

(* What the first n events say depends on them alone.                      *)
LEMMA SamePrefix ==
  ASSUME NEW l, NEW m, NEW n \in Nat, \A i \in 1 .. n : l[i] = m[i]
  PROVE  /\ \A type : Turns(l, type, n) = Turns(m, type, n)
         /\ \A type : Reqs(l, type, n) = Reqs(m, type, n)
         /\ Count(l, n) = Count(m, n)
         /\ Dead(l, n) = Dead(m, n)
         /\ Standing(l, n) = Standing(m, n)
         /\ Partial(l, n) = Partial(m, n)
         /\ Unmeasured(l, n) = Unmeasured(m, n)
         /\ \A x : TotalIs(l, n, x) = TotalIs(m, n, x)
         /\ \A r : AllowedIn(l, n, r) = AllowedIn(m, n, r)
         /\ \A r : Backed(l, n, r) = Backed(m, n, r)
         /\ AllEnded(l, n) = AllEnded(m, n)
         /\ AllResolved(l, n) = AllResolved(m, n)
<1>1. \A type : {j \in 1 .. n : l[j].type = type} = {j \in 1 .. n : m[j].type = type}
  OBVIOUS
<1>2. \A type : Turns(l, type, n) = Turns(m, type, n)
  BY <1>1 DEF Turns
<1>3. \A type : Reqs(l, type, n) = Reqs(m, type, n)
  BY <1>1 DEF Reqs
<1>4. Count(l, n) = Count(m, n)
  BY <1>1 DEF Count
<1>5. Dead(l, n) = Dead(m, n) /\ Standing(l, n) = Standing(m, n)
  BY DEF Dead, Standing
<1>6. Partial(l, n) = Partial(m, n) /\ \A x : TotalIs(l, n, x) = TotalIs(m, n, x)
  BY DEF Partial, TotalIs
<1>7. \A r : AllowedIn(l, n, r) = AllowedIn(m, n, r)
  BY DEF AllowedIn
<1>8. \A r : Backed(l, n, r) = Backed(m, n, r)
  BY DEF Backed
<1>9. /\ Unmeasured(l, n) = Unmeasured(m, n) /\ AllEnded(l, n) = AllEnded(m, n)
      /\ AllResolved(l, n) = AllResolved(m, n)
  BY <1>2, <1>3 DEF Unmeasured, AllEnded, AllResolved
<1> QED BY <1>2, <1>3, <1>4, <1>5, <1>6, <1>7, <1>8, <1>9

(* Whether an event fits those before it does not change when others follow. *)
LEMMA SameEvent ==
  ASSUME NEW l, NEW m, NEW k \in Nat \ {0}, \A i \in 1 .. k : l[i] = m[i]
  PROVE  EventOK(l, k) = EventOK(m, k) /\ CloseOK(l, k) = CloseOK(m, k)
<1>1. k - 1 \in Nat /\ \A i \in 1 .. k - 1 : l[i] = m[i]
  OBVIOUS
<1>2. l[k] = m[k]
  OBVIOUS
<1>3. /\ \A type : Turns(l, type, k - 1) = Turns(m, type, k - 1)
      /\ \A type : Reqs(l, type, k - 1) = Reqs(m, type, k - 1)
      /\ Count(l, k - 1) = Count(m, k - 1)
      /\ Dead(l, k - 1) = Dead(m, k - 1) /\ Standing(l, k - 1) = Standing(m, k - 1)
      /\ AllEnded(l, k - 1) = AllEnded(m, k - 1)
      /\ AllResolved(l, k - 1) = AllResolved(m, k - 1)
  BY <1>1, SamePrefix
<1> QED BY <1>2, <1>3 DEF EventOK, StartedOK, RequestOK, ResolvedOK, UsageOK, EndedOK,
                          ClosedOK, SealOK, CloseOK

(* A longer prefix says at least as much.                                   *)
LEMMA Monotone ==
  ASSUME NEW l, NEW n \in Nat, NEW m \in Nat, n <= m
  PROVE  /\ \A type : Turns(l, type, n) \subseteq Turns(l, type, m)
         /\ \A type : Reqs(l, type, n) \subseteq Reqs(l, type, m)
         /\ Dead(l, n) => Dead(l, m)
         /\ Partial(l, n) => Partial(l, m)
         /\ \A r : AllowedIn(l, n, r) => AllowedIn(l, m, r)
         /\ \A r : Backed(l, n, r) => Backed(l, m, r)
<1>1. \A i \in 1 .. n : i \in 1 .. m
  OBVIOUS
<1>2. \A type : Turns(l, type, n) \subseteq Turns(l, type, m)
  BY <1>1 DEF Turns
<1>3. \A type : Reqs(l, type, n) \subseteq Reqs(l, type, m)
  BY <1>1 DEF Reqs
<1>4. (Dead(l, n) => Dead(l, m)) /\ (Partial(l, n) => Partial(l, m))
  BY <1>1 DEF Dead, Partial
<1>5. \A r : AllowedIn(l, n, r) => AllowedIn(l, m, r)
  BY <1>1 DEF AllowedIn
<1>6. \A r : Backed(l, n, r) => Backed(l, m, r)
  BY <1>1 DEF Backed
<1> QED BY <1>2, <1>3, <1>4, <1>5, <1>6

(* The turns started are counted.                                           *)
LEMMA CountIsNat ==
  ASSUME NEW l, NEW n \in Nat
  PROVE  /\ IsFiniteSet({j \in 1 .. n : l[j].type = "turn.started"})
         /\ Count(l, n) \in Nat
<1>1. IsFiniteSet(1 .. n)
  BY FS_Interval
<1>2. {j \in 1 .. n : l[j].type = "turn.started"} \in SUBSET (1 .. n)
  OBVIOUS
<1> QED BY <1>1, <1>2, FS_Subset, FS_CardinalityType DEF Count

(* A longer prefix starts at least as many turns.                           *)
LEMMA CountGrows ==
  ASSUME NEW l, NEW n \in Nat, NEW m \in Nat, n <= m
  PROVE  Count(l, n) <= Count(l, m)
<1>1. {j \in 1 .. n : l[j].type = "turn.started"}
        \in SUBSET {j \in 1 .. m : l[j].type = "turn.started"}
  OBVIOUS
<1> QED BY <1>1, CountIsNat, FS_Subset DEF Count

(* What one more event adds.                                                *)
LEMMA OneMore ==
  ASSUME NEW l, NEW n \in Nat
  PROVE  /\ \A type : Turns(l, type, n + 1) =
              Turns(l, type, n) \cup (IF l[n + 1].type = type THEN {l[n + 1].turn} ELSE {})
         /\ \A type : Reqs(l, type, n + 1) =
              Reqs(l, type, n) \cup (IF l[n + 1].type = type THEN {l[n + 1].req} ELSE {})
         /\ Count(l, n + 1) =
              IF l[n + 1].type = "turn.started" THEN Count(l, n) + 1 ELSE Count(l, n)
         /\ Dead(l, n + 1) <=>
              Dead(l, n) \/ (l[n + 1].type = "turn.ended" /\ l[n + 1].reason = "process_exit")
         /\ Partial(l, n + 1) <=> Partial(l, n) \/ (l[n + 1].type = "usage" /\ ~l[n + 1].complete)
         /\ l[n + 1].type # "usage" => \A x : TotalIs(l, n + 1, x) <=> TotalIs(l, n, x)
         /\ l[n + 1].type = "usage" => TotalIs(l, n + 1, l[n + 1].cumulative)
<1>1. 1 .. n + 1 = (1 .. n) \cup {n + 1} /\ n + 1 \notin 1 .. n
  OBVIOUS
<1>2. \A type : {j \in 1 .. n + 1 : l[j].type = type} =
          {j \in 1 .. n : l[j].type = type} \cup (IF l[n + 1].type = type THEN {n + 1} ELSE {})
  BY <1>1
<1>3. \A type : Turns(l, type, n + 1) =
              Turns(l, type, n) \cup (IF l[n + 1].type = type THEN {l[n + 1].turn} ELSE {})
  BY <1>2 DEF Turns
<1>4. \A type : Reqs(l, type, n + 1) =
              Reqs(l, type, n) \cup (IF l[n + 1].type = type THEN {l[n + 1].req} ELSE {})
  BY <1>2 DEF Reqs
<1>5. Count(l, n + 1) = IF l[n + 1].type = "turn.started" THEN Count(l, n) + 1 ELSE Count(l, n)
  <2> DEFINE S == {j \in 1 .. n : l[j].type = "turn.started"}
  <2>1. IsFiniteSet(S) /\ n + 1 \notin S
    BY <1>1, CountIsNat
  <2>2. Cardinality(S \cup {n + 1}) = Cardinality(S) + 1
    <3> HIDE DEF S
    <3> QED BY <2>1, FS_AddElement
  <2>3. CASE l[n + 1].type = "turn.started"
    BY <1>2, <2>2, <2>3 DEF Count
  <2>4. CASE l[n + 1].type # "turn.started"
    BY <1>2, <2>4 DEF Count
  <2> QED BY <2>3, <2>4
<1>6. Dead(l, n + 1) <=>
        Dead(l, n) \/ (l[n + 1].type = "turn.ended" /\ l[n + 1].reason = "process_exit")
  BY <1>1 DEF Dead
<1>7. Partial(l, n + 1) <=> Partial(l, n) \/ (l[n + 1].type = "usage" /\ ~l[n + 1].complete)
  BY <1>1 DEF Partial
<1>8. ASSUME l[n + 1].type # "usage", NEW x
      PROVE  TotalIs(l, n + 1, x) <=> TotalIs(l, n, x)
  <2>1. \A i \in 1 .. n : (\A j \in i + 1 .. n + 1 : l[j].type # "usage")
                      <=> (\A j \in i + 1 .. n : l[j].type # "usage")
    <3> SUFFICES ASSUME NEW i \in 1 .. n, NEW j \in i + 1 .. n + 1,
                        \A h \in i + 1 .. n : l[h].type # "usage"
                 PROVE  l[j].type # "usage"
      OBVIOUS
    <3>1. CASE j = n + 1
      BY <1>8, <3>1
    <3>2. CASE j \in i + 1 .. n
      BY <3>2
    <3> QED BY <3>1, <3>2
  <2>2. (\A i \in 1 .. n + 1 : l[i].type # "usage") <=> (\A i \in 1 .. n : l[i].type # "usage")
    BY <1>1, <1>8
  <2> QED BY <1>1, <1>8, <2>1, <2>2 DEF TotalIs
<1>9. ASSUME l[n + 1].type = "usage"
      PROVE  TotalIs(l, n + 1, l[n + 1].cumulative)
  <2>1. n + 1 \in 1 .. n + 1 /\ (n + 1) + 1 .. n + 1 = {}
    OBVIOUS
  <2> QED BY <1>9, <2>1 DEF TotalIs
<1> QED BY <1>3, <1>4, <1>5, <1>6, <1>7, <1>8, <1>9

(* The log has one last total.                                              *)
LEMMA TotalIsUnique ==
  ASSUME NEW l, NEW n \in Nat, NEW x, NEW y, TotalIs(l, n, x), TotalIs(l, n, y)
  PROVE  x = y
<1>1. CASE \A i \in 1 .. n : l[i].type # "usage"
  BY <1>1 DEF TotalIs
<1>2. ASSUME NEW i \in 1 .. n, l[i].type = "usage", l[i].cumulative = x,
             \A j \in i + 1 .. n : l[j].type # "usage",
             NEW h \in 1 .. n, l[h].type = "usage", l[h].cumulative = y,
             \A j \in h + 1 .. n : l[j].type # "usage"
      PROVE  x = y
  <2>1. ~ (i < h) /\ ~ (h < i)
    BY <1>2
  <2>2. i = h
    BY <2>1
  <2> QED BY <1>2, <2>2
<1> QED BY <1>1, <1>2 DEF TotalIs

(* An unconfirmed stop stands until a clean close.                          *)
LEMMA StandingStep ==
  ASSUME NEW l, NEW n \in Nat
  PROVE  /\ l[n + 1].type \notin {"turn.ended", "session.closed"} =>
              (Standing(l, n + 1) <=> Standing(l, n))
         /\ Standing(l, n + 1) =>
              Standing(l, n) \/ (l[n + 1].type = "turn.ended" /\ l[n + 1].how = "stop_unconfirmed")
<1>1. ASSUME Standing(l, n), l[n + 1].type \notin {"turn.ended", "session.closed"}
      PROVE  Standing(l, n + 1)
  <2>1. PICK i \in 1 .. n :
             /\ l[i].type = "turn.ended" /\ l[i].how = "stop_unconfirmed"
             /\ \A c \in i + 1 .. n : l[c].type = "session.closed" => l[c].error
    BY <1>1 DEF Standing
  <2>2. \A c \in i + 1 .. n + 1 : c \in i + 1 .. n \/ c = n + 1
    OBVIOUS
  <2>3. \A c \in i + 1 .. n + 1 : l[c].type = "session.closed" => l[c].error
    BY <1>1, <2>1, <2>2
  <2>4. i \in 1 .. n + 1
    OBVIOUS
  <2> QED BY <2>1, <2>3, <2>4 DEF Standing
<1>2. ASSUME Standing(l, n + 1)
      PROVE  Standing(l, n) \/ (l[n + 1].type = "turn.ended" /\ l[n + 1].how = "stop_unconfirmed")
  <2>1. PICK i \in 1 .. n + 1 :
             /\ l[i].type = "turn.ended" /\ l[i].how = "stop_unconfirmed"
             /\ \A c \in i + 1 .. n + 1 : l[c].type = "session.closed" => l[c].error
    BY <1>2 DEF Standing
  <2>2. CASE i = n + 1
    BY <2>1, <2>2
  <2>3. CASE i \in 1 .. n
    <3>1. \A c \in i + 1 .. n : c \in i + 1 .. n + 1
      OBVIOUS
    <3> QED BY <2>1, <2>3, <3>1 DEF Standing
  <2> QED BY <2>2, <2>3
<1> QED BY <1>1, <1>2

(* Events that neither start, measure or end a turn nor close the session   *)
(* leave what the log says of turns.                                        *)
Loud == {"turn.started", "usage", "turn.ended", "session.closed"}
Quiet(l, n, m) == \A i \in n + 1 .. m : l[i].type \notin Loud

(* Such events change nothing of it, however many there are.                *)
LEMMA QuietKeeps ==
  ASSUME NEW l, NEW n \in Nat, NEW m \in Nat, n <= m, Quiet(l, n, m)
  PROVE  /\ \A type \in Loud : Turns(l, type, m) = Turns(l, type, n)
         /\ Count(l, m) = Count(l, n)
         /\ Dead(l, m) <=> Dead(l, n)
         /\ Partial(l, m) <=> Partial(l, n)
         /\ Standing(l, m) <=> Standing(l, n)
         /\ \A x : TotalIs(l, m, x) <=> TotalIs(l, n, x)
         /\ Unmeasured(l, m) <=> Unmeasured(l, n)
         /\ AllEnded(l, m) <=> AllEnded(l, n)
<1>1. \A i \in 1 .. m : i \in 1 .. n \/ l[i].type \notin Loud
  BY DEF Quiet
<1>2. \A i \in 1 .. n : i \in 1 .. m
  OBVIOUS
<1>3. \A type \in Loud : {j \in 1 .. m : l[j].type = type} = {j \in 1 .. n : l[j].type = type}
  BY <1>1, <1>2
<1>4. \A type \in Loud : Turns(l, type, m) = Turns(l, type, n)
  BY <1>3 DEF Turns
<1>5. Count(l, m) = Count(l, n)
  BY <1>3 DEF Count, Loud
<1>6. (Dead(l, m) <=> Dead(l, n)) /\ (Partial(l, m) <=> Partial(l, n))
  BY <1>1, <1>2 DEF Dead, Partial, Loud
<1>7. \A i \in 1 .. n : /\ \A j \in i + 1 .. m : j \in i + 1 .. n \/ l[j].type \notin Loud
                        /\ \A j \in i + 1 .. n : j \in i + 1 .. m
  BY <1>1
<1>8. Standing(l, m) <=> Standing(l, n)
  BY <1>1, <1>2, <1>7 DEF Standing, Loud
<1>9. \A x : TotalIs(l, m, x) <=> TotalIs(l, n, x)
  BY <1>1, <1>2, <1>7 DEF TotalIs, Loud
<1> QED BY <1>4, <1>5, <1>6, <1>8, <1>9 DEF Unmeasured, AllEnded, Loud

(* Turns and requests come only from events of the type asked for.          *)
LEMMA NoneOfThem ==
  ASSUME NEW l, NEW n \in Nat, NEW m \in Nat, n <= m, NEW type,
         \A i \in n + 1 .. m : l[i].type # type
  PROVE  Turns(l, type, m) = Turns(l, type, n) /\ Reqs(l, type, m) = Reqs(l, type, n)
<1>1. {j \in 1 .. m : l[j].type = type} = {j \in 1 .. n : l[j].type = type}
  OBVIOUS
<1> QED BY <1>1 DEF Turns, Reqs

(* The events from n + 1 to m resolve the requests of S, each one once, and *)
(* none is of a turn that has ended.                                        *)
Resolves(l, n, m, S, src) ==
  /\ \A i \in n + 1 .. m :
       /\ l[i].type = "resolved" /\ l[i].req \in S
       /\ l[i].decision = Refusal(l[i].req) /\ l[i].source = src
       /\ l[i].turn \notin Turns(l, "turn.ended", n)
  /\ \A i, j \in n + 1 .. m : l[i].req = l[j].req => i = j
  /\ \A r \in S : \E i \in n + 1 .. m : l[i].req = r

(* Such resolutions fit a log in which S is what is unanswered, and leave   *)
(* none of S open.                                                          *)
LEMMA ResolvesFits ==
  ASSUME NEW l, NEW n \in Nat, NEW m \in Nat, n <= m, NEW S, NEW src, Resolves(l, n, m, S, src),
         S \subseteq Reqs(l, "request", n) \ Reqs(l, "resolved", n)
  PROVE  /\ \A k \in n + 1 .. m : EventOK(l, k) /\ CloseOK(l, k)
         /\ Reqs(l, "resolved", m) = Reqs(l, "resolved", n) \cup S
         /\ Reqs(l, "request", m) = Reqs(l, "request", n)
         /\ Quiet(l, n, m)
         /\ \A r \in S : Backed(l, m, Recorded(r, Refusal(r)))
<1>1. Quiet(l, n, m)
  BY DEF Quiet, Resolves, Loud
<1>2. \A k \in n + 1 .. m : EventOK(l, k) /\ CloseOK(l, k)
  <2> TAKE k \in n + 1 .. m
  <2>1. /\ l[k].type = "resolved" /\ l[k].req \in S
        /\ l[k].turn \notin Turns(l, "turn.ended", n)
    BY DEF Resolves
  <2>2. k - 1 \in Nat /\ n <= k - 1 /\ Quiet(l, n, k - 1)
    BY <1>1 DEF Quiet
  <2>3. Turns(l, "turn.ended", k - 1) = Turns(l, "turn.ended", n)
    BY <2>2, QuietKeeps DEF Loud
  <2>4. l[k].req \in Reqs(l, "request", k - 1)
    BY <2>1, <2>2, Monotone
  <2>5. l[k].req \notin Reqs(l, "resolved", k - 1)
    <3> SUFFICES ASSUME NEW i \in 1 .. k - 1, l[i].type = "resolved", l[i].req = l[k].req
                 PROVE  FALSE
      BY DEF Reqs
    <3>1. CASE i \in 1 .. n
      BY <2>1, <3>1 DEF Reqs
    <3>2. CASE i \in n + 1 .. m
      BY <3>2 DEF Resolves
    <3> QED BY <3>1, <3>2
  <2> QED BY <2>1, <2>3, <2>4, <2>5
         DEF EventOK, StartedOK, RequestOK, ResolvedOK, UsageOK, EndedOK, ClosedOK, SealOK,
             CloseOK
<1>3. Reqs(l, "request", m) = Reqs(l, "request", n)
  BY NoneOfThem DEF Resolves
<1>4. Reqs(l, "resolved", m) = Reqs(l, "resolved", n) \cup S
  <2>1. ASSUME NEW r \in Reqs(l, "resolved", m)
        PROVE  r \in Reqs(l, "resolved", n) \cup S
    <3>1. PICK i \in 1 .. m : l[i].type = "resolved" /\ l[i].req = r
      BY <2>1 DEF Reqs
    <3>2. CASE i \in 1 .. n
      BY <3>1, <3>2 DEF Reqs
    <3>3. CASE i \in n + 1 .. m
      BY <3>1, <3>3 DEF Resolves
    <3> QED BY <3>2, <3>3
  <2>2. Reqs(l, "resolved", n) \subseteq Reqs(l, "resolved", m)
    BY Monotone
  <2>3. ASSUME NEW r \in S
        PROVE  r \in Reqs(l, "resolved", m)
    <3>1. PICK i \in n + 1 .. m : l[i].req = r
      BY DEF Resolves
    <3>2. l[i].type = "resolved" /\ i \in 1 .. m
      BY DEF Resolves
    <3> QED BY <3>1, <3>2 DEF Reqs
  <2> QED BY <2>1, <2>2, <2>3
<1>5. ASSUME NEW r \in S
      PROVE  Backed(l, m, Recorded(r, Refusal(r)))
  <2>1. PICK i \in n + 1 .. m : l[i].req = r
    BY DEF Resolves
  <2>2. l[i].type = "resolved" /\ i \in 1 .. m /\ l[i].decision = Refusal(r)
    BY <2>1 DEF Resolves
  <2> QED BY <2>1, <2>2 DEF Backed, Recorded
<1> QED BY <1>1, <1>2, <1>3, <1>4, <1>5

(* An order of a set of requests lists each of them once.                   *)
Lists(order, c, S) ==
  /\ order \in [1 .. c -> S]
  /\ \A i, j \in 1 .. c : order[i] = order[j] => i = j
  /\ \A r \in S : \E i \in 1 .. c : order[i] = r

(* There is an end to every order of requests, as they are finitely many.   *)
LEMMA OrderLists ==
  ASSUME NEW S \in SUBSET Requests, NEW order \in Orders(S)
  PROVE  \E c \in Nat : Lists(order, c, S)
<1> DEFINE n == Cardinality(S)
<1>1. IsFiniteSet(S)
  BY RequestAssumption, FS_Union, FS_Subset DEF Requests
<1>2. n \in Nat
  BY <1>1, FS_CardinalityType
<1>3. order \in [1 .. n -> S] /\ \A i, j \in 1 .. n : order[i] = order[j] => i = j
  BY DEF Orders
<1>4. Cardinality(1 .. n) = n
  <2> HIDE DEF n
  <2> QED BY <1>2, FS_Interval
<1>5. order \in Injection(1 .. n, S)
  BY <1>3 DEF Injection, IsInjective
<1>6. order \in Surjection(1 .. n, S)
  <2> HIDE DEF n
  <2>1. Cardinality(1 .. n) = Cardinality(S)
    BY <1>4 DEF n
  <2> QED BY <1>1, <1>5, <2>1, FS_Injection
<1> QED BY <1>2, <1>3, <1>6 DEF Surjection, Lists

(* The events of es follow the first n of l.                                *)
Placed(l, n, es) == \A i \in 1 .. Len(es) : l[n + i] = es[i]

(* Where the events of es are.                                              *)
LEMMA PlacedAt ==
  ASSUME NEW l, NEW n \in Nat, NEW es, Len(es) \in Nat, Placed(l, n, es)
  PROVE  /\ \A i \in n + 1 .. n + Len(es) : \E j \in 1 .. Len(es) : i = n + j /\ l[i] = es[j]
         /\ \A j \in 1 .. Len(es) :
              \E i \in n + 1 .. n + Len(es) : i = n + j /\ l[i] = es[j]
<1>1. ASSUME NEW i \in n + 1 .. n + Len(es)
      PROVE  \E j \in 1 .. Len(es) : i = n + j /\ l[i] = es[j]
  <2>1. i - n \in 1 .. Len(es) /\ i = n + (i - n)
    OBVIOUS
  <2>2. l[n + (i - n)] = es[i - n]
    BY <2>1 DEF Placed
  <2> QED BY <2>1, <2>2
<1>2. ASSUME NEW j \in 1 .. Len(es)
      PROVE  \E i \in n + 1 .. n + Len(es) : i = n + j /\ l[i] = es[j]
  <2>1. n + j \in n + 1 .. n + Len(es)
    OBVIOUS
  <2>2. l[n + j] = es[j]
    BY DEF Placed
  <2> QED BY <2>1, <2>2
<1> QED BY <1>1, <1>2

(* A run of resolutions that follows an order of the requests.              *)
LEMMA OrderResolves ==
  ASSUME NEW l, NEW n \in Nat, NEW S, NEW src, NEW order, NEW es, Len(es) \in Nat,
         Lists(order, Len(es), S), Placed(l, n, es),
         \A j \in 1 .. Len(es) :
           /\ es[j].type = "resolved" /\ es[j].req = order[j]
           /\ es[j].decision = Refusal(order[j]) /\ es[j].source = src
           /\ es[j].turn \notin Turns(l, "turn.ended", n)
  PROVE  Resolves(l, n, n + Len(es), S, src)
<1>1. \A i \in n + 1 .. n + Len(es) : \E j \in 1 .. Len(es) : i = n + j /\ l[i] = es[j]
  BY PlacedAt
<1>2. \A j \in 1 .. Len(es) : \E i \in n + 1 .. n + Len(es) : l[i] = es[j]
  BY PlacedAt
<1>3. \A j \in 1 .. Len(es) : order[j] \in S
  BY DEF Lists
<1>4. ASSUME NEW i \in n + 1 .. n + Len(es)
      PROVE  /\ l[i].type = "resolved" /\ l[i].req \in S
             /\ l[i].decision = Refusal(l[i].req) /\ l[i].source = src
             /\ l[i].turn \notin Turns(l, "turn.ended", n)
  <2>1. PICK j \in 1 .. Len(es) : l[i] = es[j]
    BY <1>1
  <2> QED BY <1>3, <2>1
<1>5. ASSUME NEW i \in n + 1 .. n + Len(es), NEW j \in n + 1 .. n + Len(es),
             l[i].req = l[j].req
      PROVE  i = j
  <2>1. PICK g \in 1 .. Len(es) : i = n + g /\ l[i] = es[g]
    BY <1>1
  <2>2. PICK h \in 1 .. Len(es) : j = n + h /\ l[j] = es[h]
    BY <1>1
  <2>3. g = h
    BY <1>5, <2>1, <2>2 DEF Lists
  <2> QED BY <2>1, <2>2, <2>3
<1>6. ASSUME NEW r \in S
      PROVE  \E i \in n + 1 .. n + Len(es) : l[i].req = r
  <2>1. PICK h \in 1 .. Len(es) : order[h] = r
    BY DEF Lists
  <2> QED BY <1>2, <2>1
<1> QED BY <1>4, <1>5, <1>6 DEF Resolves

-----------------------------------------------------------------------------
(* What a well-formed log keeps apart                                      *)

(* Turns are numbered from 1; what is ended was counted and started, what   *)
(* is answered was asked.                                                   *)
LEMMA WellFormedTurns ==
  ASSUME NEW l \in Seq(Event), WellFormed(l), NEW n \in 0 .. Len(l)
  PROVE  /\ NoTurn \notin Turns(l, "turn.started", n)
         /\ Turns(l, "turn.ended", n) \subseteq Turns(l, "turn.started", n)
         /\ Turns(l, "turn.ended", n) \subseteq Turns(l, "usage", n)
         /\ Turns(l, "usage", n) \subseteq Turns(l, "turn.started", n)
         /\ Reqs(l, "resolved", n) \subseteq Reqs(l, "request", n)
<1>1. Len(l) \in Nat /\ n \in Nat
  BY LenProperties
<1>2. \A k \in 1 .. n : /\ EventOK(l, k) /\ k - 1 \in Nat /\ k - 1 <= n
  BY <1>1 DEF WellFormed
<1>3. \A k \in 1 .. n : l[k].type = "turn.started" => l[k].turn # NoTurn
  <2> SUFFICES ASSUME NEW k \in 1 .. n, l[k].type = "turn.started" PROVE l[k].turn # NoTurn
    OBVIOUS
  <2>1. Count(l, k - 1) \in Nat
    BY <1>2, CountIsNat
  <2>2. l[k].turn = Count(l, k - 1) + 1
    BY <1>2 DEF EventOK, StartedOK
  <2> QED BY <2>1, <2>2 DEF NoTurn
<1>4. \A k \in 1 .. n : \A type : Turns(l, type, k - 1) \subseteq Turns(l, type, n)
  BY <1>1, <1>2, Monotone
<1>5. \A k \in 1 .. n : \A type : Reqs(l, type, k - 1) \subseteq Reqs(l, type, n)
  BY <1>1, <1>2, Monotone
<1>6. \A k \in 1 .. n : l[k].type = "turn.ended" =>
        l[k].turn \in Turns(l, "turn.started", n) \cap Turns(l, "usage", n)
  BY <1>2, <1>4 DEF EventOK, EndedOK
<1>7. \A k \in 1 .. n : l[k].type = "usage" => l[k].turn \in Turns(l, "turn.started", n)
  BY <1>2, <1>4 DEF EventOK, UsageOK
<1>8. \A k \in 1 .. n : l[k].type = "resolved" => l[k].req \in Reqs(l, "request", n)
  BY <1>2, <1>5 DEF EventOK, ResolvedOK
<1>9. NoTurn \notin Turns(l, "turn.started", n)
  BY <1>3 DEF Turns
<1>10. \A t \in Turns(l, "turn.ended", n) :
         \E k \in 1 .. n : l[k].type = "turn.ended" /\ l[k].turn = t
  BY DEF Turns
<1>11. \A t \in Turns(l, "usage", n) : \E k \in 1 .. n : l[k].type = "usage" /\ l[k].turn = t
  BY DEF Turns
<1>12. \A r \in Reqs(l, "resolved", n) : \E k \in 1 .. n : l[k].type = "resolved" /\ l[k].req = r
  BY DEF Reqs
<1> QED BY <1>6, <1>7, <1>8, <1>9, <1>10, <1>11, <1>12

(* A resolved request was asked and answered.                               *)
LEMMA BackedIsResolved ==
  ASSUME NEW l, NEW n \in Nat, NEW r, NEW d, Backed(l, n, Recorded(r, d))
  PROVE  \E i \in 1 .. n : l[i].type = "resolved" /\ l[i].req = r /\ l[i].decision = d
<1>1. "req" \in DOMAIN Recorded(r, d) /\ Recorded(r, d).req = r /\ Recorded(r, d).decision = d
  BY DEF Recorded
<1> HIDE DEF Recorded
<1> QED BY <1>1 DEF Backed

-----------------------------------------------------------------------------
(* Steps that extend the log                                               *)

Extends == /\ End \in Nat /\ End' \in Nat /\ End <= End'
           /\ \A i \in 1 .. End : log'[i] = log[i]

(* Appending events extends the log.                                        *)
LEMMA GrowFacts ==
  ASSUME log \in Seq(Event), NEW es \in Seq(Event), log' = log \o es
  PROVE  /\ Extends /\ Len(es) \in Nat /\ End' = End + Len(es)
         /\ \A i \in 1 .. Len(es) : log'[End + i] = es[i]
         /\ \A i \in End + 1 .. End' : i - End \in 1 .. Len(es) /\ log'[i] = es[i - End]
<1>1. Len(log) \in Nat /\ Len(es) \in Nat /\ Len(log \o es) = Len(log) + Len(es)
  BY LenProperties, ConcatProperties
<1>2. \A i \in 1 .. Len(log) + Len(es) :
        (log \o es)[i] = IF i <= Len(log) THEN log[i] ELSE es[i - Len(log)]
  BY ConcatProperties
<1>3. \A i \in 1 .. Len(log) : log'[i] = log[i]
  BY <1>1, <1>2
<1>4. \A i \in 1 .. Len(es) : log'[Len(log) + i] = es[i]
  BY <1>1, <1>2
<1>5. \A i \in Len(log) + 1 .. Len(log') :
        i - Len(log) \in 1 .. Len(es) /\ log'[i] = es[i - Len(log)]
  BY <1>1, <1>2
<1> QED BY <1>1, <1>3, <1>4, <1>5 DEF Extends, End

(* The events that were there say what they said.                           *)
LEMMA ExtendsKeeps ==
  ASSUME Extends, NEW n \in 0 .. End
  PROVE  /\ \A type : Turns(log', type, n) = Turns(log, type, n)
         /\ \A type : Reqs(log', type, n) = Reqs(log, type, n)
         /\ Count(log', n) = Count(log, n)
         /\ Dead(log', n) = Dead(log, n)
         /\ Standing(log', n) = Standing(log, n)
         /\ Partial(log', n) = Partial(log, n)
         /\ Unmeasured(log', n) = Unmeasured(log, n)
         /\ \A x : TotalIs(log', n, x) = TotalIs(log, n, x)
         /\ \A r : AllowedIn(log', n, r) = AllowedIn(log, n, r)
         /\ \A r : Backed(log', n, r) = Backed(log, n, r)
         /\ AllEnded(log', n) = AllEnded(log, n)
         /\ AllResolved(log', n) = AllResolved(log, n)
<1>1. n \in Nat /\ \A i \in 1 .. n : log'[i] = log[i]
  BY DEF Extends
<1> HIDE DEF End
<1> QED BY <1>1, SamePrefix

(* What was backed or allowed by the log still is.                          *)
LEMMA ExtendsBacks ==
  ASSUME Extends
  PROVE  /\ \A m : Backed(log, End, m) => Backed(log', End', m)
         /\ \A r : AllowedIn(log, End, r) => AllowedIn(log', End', r)
<1>1. End \in 0 .. End /\ End \in Nat /\ End' \in Nat /\ End <= End'
  BY DEF Extends
<1> QED BY <1>1, ExtendsKeeps, Monotone

(* A well-formed log stays so when the events that follow fit.              *)
LEMMA WellFormedExtends ==
  ASSUME Extends, WellFormed(log), \A k \in End + 1 .. End' : EventOK(log', k)
  PROVE  WellFormed(log')
<1> SUFFICES ASSUME NEW k \in 1 .. End' PROVE EventOK(log', k)
  BY DEF WellFormed, End
<1>1. CASE k \in 1 .. End
  <2>1. k \in Nat \ {0} /\ \A i \in 1 .. k : log'[i] = log[i]
    BY <1>1 DEF Extends
  <2>2. EventOK(log, k)
    BY <1>1 DEF WellFormed, End
  <2> QED BY <2>1, <2>2, SameEvent
<1>2. CASE k \in End + 1 .. End'
  BY <1>2
<1> QED BY <1>1, <1>2 DEF Extends

(* The same for the closing events.                                         *)
LEMMA CloseExtends ==
  ASSUME Extends, \A k \in 1 .. End : CloseOK(log, k), \A k \in End + 1 .. End' : CloseOK(log', k)
  PROVE  \A k \in 1 .. End' : CloseOK(log', k)
<1> SUFFICES ASSUME NEW k \in 1 .. End' PROVE CloseOK(log', k)
  OBVIOUS
<1>1. CASE k \in 1 .. End
  <2>1. k \in Nat \ {0} /\ \A i \in 1 .. k : log'[i] = log[i]
    BY <1>1 DEF Extends
  <2> QED BY <1>1, <2>1, SameEvent
<1>2. CASE k \in End + 1 .. End'
  BY <1>2
<1> QED BY <1>1, <1>2 DEF Extends

-----------------------------------------------------------------------------
(* Steps that emit events                                                  *)

(* What a handler queues: lines that tell nothing, and those of a response. *)
Adds(es, S) ==
  /\ es \in Seq(Event) /\ log' = log \o es
  /\ \A k \in DOMAIN outbound' :
       \/ outbound'[k].told \subseteq S
       \/ \E h \in DOMAIN outbound : outbound'[k].told = outbound[h].told
  /\ outbound' = <<>> => outbound = <<>> /\ es = <<>>

(* A line of a queue made of three parts is a line of one of them.          *)
LEMMA ConcatThree ==
  ASSUME NEW a \in Seq(Line), NEW b \in Seq(Line), NEW c \in Seq(Line), NEW S,
         \A k \in DOMAIN b : b[k].told = {}, \A k \in DOMAIN c : c[k].told \subseteq S
  PROVE  /\ \A k \in DOMAIN ((a \o b) \o c) :
              \/ ((a \o b) \o c)[k].told \subseteq S
              \/ \E h \in DOMAIN a : ((a \o b) \o c)[k].told = a[h].told
         /\ (a \o b) \o c = <<>> => a = <<>> /\ Len(b) = 0
<1>1. a \o b \in Seq(Line) /\ Len(a \o b) = Len(a) + Len(b)
  BY ConcatProperties
<1>2. Len((a \o b) \o c) = (Len(a) + Len(b)) + Len(c)
  BY <1>1, ConcatProperties
<1>3. Len(a) \in Nat /\ Len(b) \in Nat /\ Len(c) \in Nat
  BY LenProperties
<1>4. (a \o b) \o c = <<>> => a = <<>> /\ Len(b) = 0
  <2> SUFFICES ASSUME (a \o b) \o c = <<>> PROVE Len(a) = 0 /\ Len(b) = 0
    BY EmptySeq
  <2> QED BY <1>2, <1>3, EmptySeq
<1>5. ASSUME NEW k \in DOMAIN ((a \o b) \o c)
      PROVE  \/ ((a \o b) \o c)[k].told \subseteq S
             \/ \E h \in DOMAIN a : ((a \o b) \o c)[k].told = a[h].told
  <2>1. \/ \E i \in DOMAIN a : ((a \o b) \o c)[k] = a[i]
        \/ \E i \in DOMAIN b : ((a \o b) \o c)[k] = b[i]
        \/ \E i \in DOMAIN c : ((a \o b) \o c)[k] = c[i]
    BY ElementOfConcat
  <2> QED BY <2>1
<1> QED BY <1>4, <1>5

(* A handler queues the lines of its events, then its response.             *)
LEMMA LinesAdd ==
  ASSUME LogInv, NEW es \in Seq(Event), NEW tail \in Seq(Line), NEW S,
         log' = log \o es, outbound' = (outbound \o Lines(es)) \o tail,
         \A k \in DOMAIN tail : tail[k].told \subseteq S
  PROVE  Adds(es, S)
<1>1. /\ log \in Seq(Event) /\ outbound \in Seq(Line) /\ Lines(es) \in Seq(Line)
      /\ Len(Lines(es)) = Len(es)
  BY LinesAreLines DEF LogInv, LogTypes
<1>2. \A k \in DOMAIN Lines(es) : Lines(es)[k].told = {}
  BY LenProperties DEF Lines
<1>3. /\ \A k \in DOMAIN outbound' :
           \/ outbound'[k].told \subseteq S
           \/ \E h \in DOMAIN outbound : outbound'[k].told = outbound[h].told
      /\ outbound' = <<>> => outbound = <<>> /\ Len(Lines(es)) = 0
  BY <1>1, <1>2, ConcatThree
<1> QED BY <1>1, <1>3, EmptySeq DEF Adds

(* An event that is emitted tells the client nothing a restart must keep.   *)
LEMMA EmitAdds ==
  ASSUME LogInv, NEW es \in Seq(Event), Emit(es) \/ EmitAndFlush(es)
  PROVE  Adds(es, {})
<1>1. Lines(es) \in Seq(Line) /\ outbound \in Seq(Line)
  BY LinesAreLines DEF LogInv, LogTypes
<1>2. <<>> \in Seq(Line) /\ (outbound \o Lines(es)) \o <<>> = outbound \o Lines(es)
  BY <1>1, ConcatProperties, ConcatEmptySeq, EmptySeq
<1>3. log' = log \o es /\ outbound' = (outbound \o Lines(es)) \o <<>>
  BY <1>2 DEF Emit, EmitAndFlush
<1>4. \A k \in DOMAIN <<>> : <<>>[k].told \subseteq {}
  OBVIOUS
<1> QED BY <1>2, <1>3, <1>4, LinesAdd

(* A response tells what its line tells.                                    *)
LEMMA RespondAdds ==
  ASSUME LogInv, NEW es \in Seq(Event), NEW line \in Line, EmitAndRespond(es, line)
  PROVE  Adds(es, line.told)
<1>1. Lines(es) \in Seq(Line) /\ outbound \in Seq(Line)
  BY LinesAreLines DEF LogInv, LogTypes
<1>2. outbound \o Lines(es) \in Seq(Line)
  BY <1>1, ConcatProperties
<1>3. /\ <<line>> \in Seq(Line)
      /\ Append(outbound \o Lines(es), line) = (outbound \o Lines(es)) \o <<line>>
  BY <1>2, AppendIsConcat
<1>4. log' = log \o es /\ outbound' = (outbound \o Lines(es)) \o <<line>>
  BY <1>3 DEF EmitAndRespond
<1>5. \A k \in DOMAIN <<line>> : <<line>>[k].told \subseteq line.told
  OBVIOUS
<1> QED BY <1>3, <1>4, <1>5, LinesAdd

(* The queue tells nothing the log does not back.                           *)
LEMMA AddsReply ==
  ASSUME ReplyInv, LogInv, NEW es, NEW S, Adds(es, S), \A m \in S : Backed(log', End', m),
         UNCHANGED <<told, synced>>
  PROVE  ReplyInv'
<1>1. Extends
  BY GrowFacts DEF Adds, LogInv, LogTypes
<1>2. \A m : Backed(log, End, m) => Backed(log', End', m)
  BY <1>1, ExtendsBacks
<1>3. \A k \in DOMAIN outbound' : \A m \in outbound'[k].told : Backed(log', End', m)
  <2> TAKE k \in DOMAIN outbound'
  <2>1. CASE outbound'[k].told \subseteq S
    BY <2>1
  <2>2. CASE \E h \in DOMAIN outbound : outbound'[k].told = outbound[h].told
    BY <1>2, <2>2 DEF ReplyInv
  <2> QED BY <2>1, <2>2 DEF Adds
<1>4. synced \in 0 .. End
  BY DEF LogInv, LogTypes, End
<1>5. \A m \in told' : Backed(log', synced', m)
  BY <1>1, <1>4, ExtendsKeeps DEF ReplyInv
<1> QED BY <1>3, <1>5 DEF ReplyInv

-----------------------------------------------------------------------------
(* Steps that revoke what the engine asked                                 *)

(* Where the elements of a concatenation are.                               *)
LEMMA ConcatAt ==
  ASSUME NEW l \in Seq(Event), NEW es \in Seq(Event)
  PROVE  /\ l \o es \in Seq(Event)
         /\ Len(l) \in Nat /\ Len(es) \in Nat /\ Len(l \o es) = Len(l) + Len(es)
         /\ \A i \in 1 .. Len(l) : (l \o es)[i] = l[i]
         /\ \A i \in 1 .. Len(es) : (l \o es)[Len(l) + i] = es[i]
<1>1. Len(l) \in Nat /\ Len(es) \in Nat
  BY LenProperties
<1>2. /\ l \o es \in Seq(Event) /\ Len(l \o es) = Len(l) + Len(es)
      /\ \A i \in 1 .. Len(l) + Len(es) :
           (l \o es)[i] = IF i <= Len(l) THEN l[i] ELSE es[i - Len(l)]
  BY ConcatProperties
<1>3. \A i \in 1 .. Len(l) : (l \o es)[i] = l[i]
  BY <1>1, <1>2
<1>4. \A i \in 1 .. Len(es) : (l \o es)[Len(l) + i] = es[i]
  BY <1>1, <1>2
<1> QED BY <1>1, <1>2, <1>3, <1>4

(* The same for three sequences that follow a log.                          *)
LEMMA ThreeParts ==
  ASSUME NEW l \in Seq(Event), NEW a \in Seq(Event), NEW b \in Seq(Event), NEW c \in Seq(Event)
  PROVE  /\ Len(l) \in Nat /\ Len(a) \in Nat /\ Len(b) \in Nat /\ Len(c) \in Nat
         /\ Len(l \o ((a \o b) \o c)) = Len(l) + Len(a) + Len(b) + Len(c)
         /\ \A i \in 1 .. Len(l) : (l \o ((a \o b) \o c))[i] = l[i]
         /\ Placed(l \o ((a \o b) \o c), Len(l), a)
         /\ Placed(l \o ((a \o b) \o c), Len(l) + Len(a), b)
         /\ Placed(l \o ((a \o b) \o c), Len(l) + Len(a) + Len(b), c)
<1>1. /\ a \o b \in Seq(Event) /\ Len(a \o b) = Len(a) + Len(b)
      /\ \A i \in 1 .. Len(a) + Len(b) :
           (a \o b)[i] = IF i <= Len(a) THEN a[i] ELSE b[i - Len(a)]
  BY ConcatProperties
<1>2. /\ Len((a \o b) \o c) = Len(a \o b) + Len(c)
      /\ (a \o b) \o c \in Seq(Event)
      /\ \A i \in 1 .. Len(a \o b) + Len(c) : ((a \o b) \o c)[i] =
           IF i <= Len(a \o b) THEN (a \o b)[i] ELSE c[i - Len(a \o b)]
  BY <1>1, ConcatProperties
<1>3. Len(l) \in Nat /\ Len(a) \in Nat /\ Len(b) \in Nat /\ Len(c) \in Nat
  BY LenProperties
<1> DEFINE es == (a \o b) \o c
           k == l \o es
<1>4. /\ es \in Seq(Event) /\ Len(es) = Len(a) + Len(b) + Len(c)
      /\ \A i \in 1 .. Len(a) : es[i] = a[i]
      /\ \A i \in 1 .. Len(b) : es[Len(a) + i] = b[i]
      /\ \A i \in 1 .. Len(c) : es[Len(a) + Len(b) + i] = c[i]
  BY <1>1, <1>2, <1>3
<1>5. /\ Len(k) = Len(l) + Len(es)
      /\ \A i \in 1 .. Len(l) : k[i] = l[i]
      /\ \A i \in 1 .. Len(es) : k[Len(l) + i] = es[i]
  BY <1>4, ConcatAt
<1> HIDE DEF es, k
<1>6. Placed(k, Len(l), a)
  <2> SUFFICES ASSUME NEW i \in 1 .. Len(a) PROVE k[Len(l) + i] = a[i]
    BY DEF Placed
  <2>1. i \in 1 .. Len(es)
    BY <1>3, <1>4
  <2>2. k[Len(l) + i] = es[i]
    BY <1>5, <2>1
  <2> QED BY <1>4, <2>2
<1>7. Placed(k, Len(l) + Len(a), b)
  <2> SUFFICES ASSUME NEW i \in 1 .. Len(b) PROVE k[Len(l) + Len(a) + i] = b[i]
    BY DEF Placed
  <2>1. Len(a) + i \in 1 .. Len(es) /\ Len(l) + (Len(a) + i) = Len(l) + Len(a) + i
    BY <1>3, <1>4
  <2>2. k[Len(l) + (Len(a) + i)] = es[Len(a) + i]
    BY <1>5, <2>1
  <2> QED BY <1>4, <2>1, <2>2
<1>8. Placed(k, Len(l) + Len(a) + Len(b), c)
  <2> SUFFICES ASSUME NEW i \in 1 .. Len(c) PROVE k[Len(l) + Len(a) + Len(b) + i] = c[i]
    BY DEF Placed
  <2>1. /\ Len(a) + Len(b) + i \in 1 .. Len(es)
        /\ Len(l) + (Len(a) + Len(b) + i) = Len(l) + Len(a) + Len(b) + i
    BY <1>3, <1>4
  <2>2. k[Len(l) + (Len(a) + Len(b) + i)] = es[Len(a) + Len(b) + i]
    BY <1>5, <2>1
  <2> QED BY <1>4, <2>1, <2>2
<1>9. Len(k) = Len(l) + Len(a) + Len(b) + Len(c)
  BY <1>3, <1>4, <1>5
<1> QED BY <1>3, <1>5, <1>6, <1>7, <1>8, <1>9 DEF k, es

Sound == IInv /\ SoundLog

(* The running turn has not ended, nor has the turn of a pending request.   *)
LEMMA NothingOpenHasEnded ==
  ASSUME Sound, Running
  PROVE  /\ log \in Seq(Event) /\ End \in Nat /\ End \in 0 .. Len(log)
         /\ active \notin Turns(log, "turn.ended", End)
         /\ \A r \in Pending :
              /\ records[r].state = "pending"
              /\ records[r].turn \in {NoTurn, active}
              /\ records[r].turn \notin Turns(log, "turn.ended", End)
              /\ r \in Reqs(log, "request", End) \ Reqs(log, "resolved", End)
<1>1. log \in Seq(Event) /\ End \in Nat /\ End \in 0 .. Len(log)
  BY LenProperties DEF Sound, IInv, LogInv, LogTypes, End
<1>2. NoTurn \notin Turns(log, "turn.ended", End)
  BY <1>1, WellFormedTurns DEF Sound, SoundLog
<1>3. active \notin Turns(log, "turn.ended", End)
  BY <1>2 DEF Sound, SoundLog, TurnInv
<1>4. \A r \in Pending :
        /\ records[r].state = "pending"
        /\ records[r].turn \in {NoTurn, active}
        /\ r \in Reqs(log, "request", End) \ Reqs(log, "resolved", End)
  BY DEF Sound, SoundLog, RequestInv, Pending
<1> QED BY <1>1, <1>2, <1>3, <1>4

(* The step logs what is said of the running turn, the revocation of the    *)
(* requests of S, then what follows.                                        *)
Calm == {"status", "brain"}
Revoked(S, n, m) ==
  /\ Extends /\ n \in Nat /\ m \in Nat /\ End <= n /\ n <= m /\ m <= End'
  /\ S \subseteq Pending /\ Revoke(S)
  /\ \A i \in End + 1 .. n : log'[i].type \in Calm /\ log'[i].turn = active
  /\ Resolves(log', n, m, S, "cancelled")
  /\ \A i \in m + 1 .. End' : log'[i].type \notin {"request", "resolved"}

CalmAbout(es) == \A i \in 1 .. Len(es) : es[i].type \in Calm /\ es[i].turn = active
NoGate(es) == \A i \in 1 .. Len(es) : es[i].type \notin {"request", "resolved"}

Logs(es) == log' = log \o es

(* Revoking the requests of S in any order logs one resolution of each.     *)
LEMMA ListsRevoked ==
  ASSUME Sound, Running, NEW S, S \subseteq Pending, Revoke(S),
         NEW order \in Orders(StillOpen(S)),
         NEW head \in Seq(Event), NEW tail \in Seq(Event), CalmAbout(head), NoGate(tail),
         Logs((head \o Revocations(order)) \o tail)
  PROVE  \E n, m \in Nat : /\ Revoked(S, n, m) /\ n = End + Len(head)
                           /\ End' = m + Len(tail) /\ Placed(log', m, tail)
<1> DEFINE rev == Revocations(order)
<1>1. S \in SUBSET Requests /\ StillOpen(S) = S
  BY NothingOpenHasEnded DEF StillOpen, Pending
<1>2. PICK c \in Nat : Lists(order, c, S)
  BY <1>1, OrderLists
<1>3. order \in [1 .. c -> S]
  BY <1>2 DEF Lists
<1>4. rev \in Seq(Event)
  BY <1>1, RevocationsAreEvents DEF Sound, IInv
<1>5. /\ Len(rev) = c
      /\ \A i \in 1 .. c : rev[i] =
           Resolved(order[i], records[order[i]].turn, Refusal(order[i]), "cancelled")
  BY <1>3 DEF Revocations
<1>6. log \in Seq(Event) /\ End \in Nat /\ Len(log) = End
  BY NothingOpenHasEnded DEF End
<1>7. /\ Len(head) \in Nat /\ Len(tail) \in Nat
      /\ End' = End + Len(head) + c + Len(tail)
      /\ \A i \in 1 .. End : log'[i] = log[i]
      /\ Placed(log', End, head) /\ Placed(log', End + Len(head), rev)
      /\ Placed(log', End + Len(head) + c, tail)
  <2>1. /\ Len(log) \in Nat /\ Len(head) \in Nat /\ Len(rev) \in Nat /\ Len(tail) \in Nat
        /\ Len(log') = Len(log) + Len(head) + Len(rev) + Len(tail)
        /\ \A i \in 1 .. Len(log) : log'[i] = log[i]
        /\ Placed(log', Len(log), head) /\ Placed(log', Len(log) + Len(head), rev)
        /\ Placed(log', Len(log) + Len(head) + Len(rev), tail)
    <3>1. log' = log \o ((head \o rev) \o tail)
      BY DEF Logs
    <3> DEFINE k == log \o ((head \o rev) \o tail)
    <3>2. /\ Len(log) \in Nat /\ Len(head) \in Nat /\ Len(rev) \in Nat /\ Len(tail) \in Nat
          /\ Len(k) = Len(log) + Len(head) + Len(rev) + Len(tail)
          /\ \A i \in 1 .. Len(log) : k[i] = log[i]
          /\ Placed(k, Len(log), head) /\ Placed(k, Len(log) + Len(head), rev)
          /\ Placed(k, Len(log) + Len(head) + Len(rev), tail)
      <4>1. log \in Seq(Event)
        BY <1>6
      <4>2. Revocations(order) \in Seq(Event)
        BY <1>4
      <4> QED BY ONLY <4>1, <4>2, head \in Seq(Event), tail \in Seq(Event), ThreeParts
    <3>3. log' = k
      BY <3>1
    <3> HIDE DEF k
    <3> QED BY ONLY <3>2, <3>3
  <2> HIDE DEF rev
  <2> QED BY <1>5, <1>6, <2>1 DEF End
<1> HIDE DEF rev
<1>8. PICK n \in Nat, m \in Nat : n = End + Len(head) /\ m = n + c
  BY <1>2, <1>6, <1>7
<1>9. End <= n /\ n <= m /\ m <= End' /\ End' = m + Len(tail) /\ Extends
  <2>1. End <= n /\ n <= m /\ m <= End' /\ End' = m + Len(tail) /\ End' \in Nat
    BY ONLY <1>6, <1>7, <1>8, c \in Nat, n \in Nat, m \in Nat
  <2>2. End <= End'
    BY ONLY <1>6, <2>1, n \in Nat, m \in Nat
  <2> QED BY ONLY <1>6, <1>7, <2>1, <2>2 DEF Extends
<1>10. Placed(log', n, rev) /\ Placed(log', m, tail)
  BY <1>7, <1>8
<1>11. \A i \in End + 1 .. n : log'[i].type \in Calm /\ log'[i].turn = active
  <2>1. \A i \in End + 1 .. n : \E j \in 1 .. Len(head) : log'[i] = head[j]
    BY ONLY <1>6, <1>7, <1>8, PlacedAt
  <2> QED BY <2>1 DEF CalmAbout
<1>12. \A i \in m + 1 .. End' : log'[i].type \notin {"request", "resolved"}
  <2>1. \A i \in m + 1 .. End' : \E j \in 1 .. Len(tail) : log'[i] = tail[j]
    BY ONLY <1>7, <1>9, <1>10, m \in Nat, PlacedAt
  <2> QED BY <2>1 DEF NoGate
<1>13. Turns(log', "turn.ended", n) = Turns(log, "turn.ended", End)
  <2>1. \A i \in End + 1 .. n : log'[i].type # "turn.ended"
    BY <1>11 DEF Calm
  <2>2. Turns(log', "turn.ended", n) = Turns(log', "turn.ended", End)
    BY ONLY <1>6, <1>9, n \in Nat, <2>1, NoneOfThem
  <2>3. End \in 0 .. End
    BY <1>6
  <2> QED BY <1>9, <2>2, <2>3, ExtendsKeeps
<1>14. ASSUME NEW j \in 1 .. c
       PROVE  /\ rev[j].type = "resolved" /\ rev[j].req = order[j]
              /\ rev[j].decision = Refusal(order[j]) /\ rev[j].source = "cancelled"
              /\ rev[j].turn \notin Turns(log', "turn.ended", n)
  <2>1. rev[j] = Resolved(order[j], records[order[j]].turn, Refusal(order[j]), "cancelled")
    BY <1>5
  <2>2. records[order[j]].turn \notin Turns(log', "turn.ended", n)
    BY <1>3, <1>13, NothingOpenHasEnded
  <2> QED BY <2>1, <2>2 DEF Resolved
<1>15. Resolves(log', n, m, S, "cancelled")
  <2>1. Resolves(log', n, n + Len(rev), S, "cancelled")
    BY <1>2, <1>5, <1>10, <1>14, OrderResolves
  <2> QED BY <1>5, <1>8, <2>1
<1>16. Revoked(S, n, m)
  BY <1>9, <1>11, <1>12, <1>15 DEF Revoked
<1> QED BY <1>8, <1>9, <1>10, <1>16

(* What is said of a turn that has not ended fits anywhere.                 *)
LEMMA CalmFits ==
  ASSUME NEW l, NEW k \in Nat \ {0}, l[k].type \in Calm,
         l[k].turn \notin Turns(l, "turn.ended", k - 1)
  PROVE  EventOK(l, k) /\ CloseOK(l, k)
BY DEF Calm, EventOK, StartedOK, RequestOK, ResolvedOK, UsageOK, EndedOK, ClosedOK, SealOK,
       CloseOK

(* The revocations fit the log and close the requests.                      *)
LEMMA RevokedFits ==
  ASSUME Sound, Running, NEW S, NEW n, NEW m, Revoked(S, n, m)
  PROVE  /\ \A k \in End + 1 .. m : EventOK(log', k) /\ CloseOK(log', k)
         /\ Quiet(log', End, m)
         /\ Reqs(log', "request", m) = Reqs(log, "request", End)
         /\ Reqs(log', "request", End') = Reqs(log, "request", End)
         /\ Reqs(log', "resolved", m) = Reqs(log, "resolved", End) \cup S
         /\ Reqs(log', "resolved", End') = Reqs(log, "resolved", End) \cup S
         /\ \A r \in S : Backed(log', End', Recorded(r, Refusal(r)))
<1>1. /\ Extends /\ n \in Nat /\ m \in Nat /\ End <= n /\ n <= m /\ m <= End'
      /\ S \subseteq Pending /\ Resolves(log', n, m, S, "cancelled")
  BY DEF Revoked
<1>2. End \in Nat /\ End' \in Nat /\ End \in 0 .. End
  BY <1>1 DEF Extends
<1>3. \A i \in End + 1 .. n : log'[i].type \in Calm /\ log'[i].turn = active
  BY DEF Revoked
<1>4. Quiet(log', End, n)
  BY <1>3 DEF Quiet, Loud, Calm
<1>5. /\ Turns(log', "turn.ended", End) = Turns(log, "turn.ended", End)
      /\ Reqs(log', "request", End) = Reqs(log, "request", End)
      /\ Reqs(log', "resolved", End) = Reqs(log, "resolved", End)
  BY <1>1, <1>2, ExtendsKeeps
<1>6. active \notin Turns(log, "turn.ended", End)
  BY NothingOpenHasEnded
<1>7. \A k \in End + 1 .. n : EventOK(log', k) /\ CloseOK(log', k)
  <2> TAKE k \in End + 1 .. n
  <2>1. k - 1 \in Nat /\ End <= k - 1 /\ k \in Nat \ {0} /\ Quiet(log', End, k - 1)
    BY <1>1, <1>2, <1>4 DEF Quiet
  <2>2. Turns(log', "turn.ended", k - 1) = Turns(log', "turn.ended", End)
    BY <1>2, <2>1, QuietKeeps DEF Loud
  <2> QED BY <1>3, <1>5, <1>6, <2>1, <2>2, CalmFits
<1>8. \A i \in End + 1 .. n : log'[i].type # "request" /\ log'[i].type # "resolved"
  BY <1>3 DEF Calm
<1>9. /\ Reqs(log', "request", n) = Reqs(log, "request", End)
      /\ Reqs(log', "resolved", n) = Reqs(log, "resolved", End)
  BY ONLY <1>1, <1>2, <1>5, <1>8, NoneOfThem
<1>10. S \subseteq Reqs(log', "request", n) \ Reqs(log', "resolved", n)
  BY <1>1, <1>9, NothingOpenHasEnded
<1>11. /\ \A k \in n + 1 .. m : EventOK(log', k) /\ CloseOK(log', k)
       /\ Reqs(log', "resolved", m) = Reqs(log', "resolved", n) \cup S
       /\ Reqs(log', "request", m) = Reqs(log', "request", n)
       /\ Quiet(log', n, m)
       /\ \A r \in S : Backed(log', m, Recorded(r, Refusal(r)))
  BY ONLY <1>1, <1>10, ResolvesFits
<1>12. \A k \in End + 1 .. m : k \in End + 1 .. n \/ k \in n + 1 .. m
  BY <1>1, <1>2
<1>13. \A k \in End + 1 .. m : EventOK(log', k) /\ CloseOK(log', k)
  BY <1>7, <1>11, <1>12
<1>14. Quiet(log', End, m)
  BY <1>4, <1>11, <1>12 DEF Quiet
<1>15. \A i \in m + 1 .. End' : log'[i].type # "request" /\ log'[i].type # "resolved"
  BY DEF Revoked
<1>16. /\ Reqs(log', "request", End') = Reqs(log', "request", m)
       /\ Reqs(log', "resolved", End') = Reqs(log', "resolved", m)
  BY ONLY <1>1, <1>2, <1>15, NoneOfThem
<1>17. \A r \in S : Backed(log', End', Recorded(r, Refusal(r)))
  BY <1>1, <1>2, <1>11, Monotone
<1> QED BY <1>9, <1>11, <1>13, <1>14, <1>16, <1>17

(* The records and gates agree with the log after a revocation.             *)
LEMMA RevokedRequests ==
  ASSUME Sound, Running, NEW S, NEW n, NEW m, Revoked(S, n, m),
         active' = active \/ S = Pending,
         phase' \in {"closing", "closed"} => S = Pending \/ phase \in {"closing", "closed"}
  PROVE  RequestInv'
<1>1. /\ Reqs(log', "request", End') = Reqs(log, "request", End)
      /\ Reqs(log', "resolved", End') = Reqs(log, "resolved", End) \cup S
      /\ \A r \in S : Backed(log', End', Recorded(r, Refusal(r)))
  BY RevokedFits
<1>2. Extends /\ S \subseteq Pending /\ Revoke(S)
  BY DEF Revoked
<1>3. \A r \in S : r \in Requests /\ records[r].state = "pending"
  BY <1>2, NothingOpenHasEnded DEF Pending
<1>4. \A r \in Requests : gate'[r] = IF r \in S THEN "deny" ELSE gate[r]
  BY <1>2 DEF Revoke
<1>5. \A r \in Requests : r \in S =>
        records'[r].state = "resolved" /\ records'[r].decision = Refusal(r)
  BY <1>2, <1>3 DEF Revoke, StillOpen, Record
<1>6. \A r \in Requests : r \notin S => records'[r] = records[r]
  BY <1>2 DEF Revoke, StillOpen
<1>7. RequestInv
  BY DEF Sound, SoundLog
<1>8. \A r \in Requests : gate'[r] = "idle" => r \notin Reqs(log', "request", End')
  BY <1>1, <1>4, <1>7 DEF RequestInv
<1>9. \A r \in Requests : records'[r].state = "pending" <=> gate'[r] = "pending"
  BY <1>4, <1>5, <1>6, <1>7 DEF RequestInv
<1>10. \A r \in Requests : records'[r].state = "pending" =>
         /\ r \in Reqs(log', "request", End') \ Reqs(log', "resolved", End')
         /\ records'[r].turn \in {NoTurn, active'}
  <2> SUFFICES ASSUME NEW r \in Requests, records'[r].state = "pending"
               PROVE  /\ r \in Reqs(log', "request", End') \ Reqs(log', "resolved", End')
                      /\ records'[r].turn \in {NoTurn, active'}
    OBVIOUS
  <2>1. r \notin S
    BY <1>5
  <2>2. records'[r] = records[r] /\ records[r].state = "pending" /\ gate[r] = "pending"
    BY <1>6, <1>7, <2>1 DEF RequestInv
  <2>3. r \in Pending /\ active' = active
    BY <2>1, <2>2 DEF Pending
  <2> QED BY <1>1, <1>7, <2>1, <2>2, <2>3 DEF RequestInv
<1>11. \A r \in Requests : records'[r].state = "unknown" => r \notin Reqs(log', "request", End')
  BY <1>1, <1>5, <1>6, <1>7 DEF RequestInv
<1>12. \A r \in Requests : records'[r].state = "resolved" =>
         Backed(log', End', Recorded(r, records'[r].decision))
  <2> SUFFICES ASSUME NEW r \in Requests, records'[r].state = "resolved"
               PROVE  Backed(log', End', Recorded(r, records'[r].decision))
    OBVIOUS
  <2>1. CASE r \in S
    BY <1>1, <1>5, <2>1
  <2>2. CASE r \notin S
    <3>1. Backed(log, End, Recorded(r, records[r].decision))
      BY <1>6, <1>7, <2>2 DEF RequestInv
    <3> QED BY <1>2, <1>6, <2>2, <3>1, ExtendsBacks
  <2> QED BY <2>1, <2>2
<1>13. phase' \in {"closing", "closed"} => \A r \in Requests : gate'[r] # "pending"
  <2>1. CASE S = Pending
    BY <1>4, <2>1 DEF Pending
  <2>2. CASE phase \in {"closing", "closed"}
    BY <1>4, <1>7, <2>2 DEF RequestInv
  <2> QED BY <2>1, <2>2
<1> QED BY <1>8, <1>9, <1>10, <1>11, <1>12, <1>13 DEF RequestInv

(* What the engine was told agrees with the log after a revocation.         *)
LEMMA RevokedActs ==
  ASSUME Sound, Running, NEW S, NEW n, NEW m, Revoked(S, n, m), Running',
         UNCHANGED <<acted, synced, faults>>,
         faults = 0 => \A k \in m + 1 .. End' : CloseOK(log', k)
  PROVE  ActedInv'
<1> SUFFICES ASSUME faults = 0
             PROVE  /\ \A k \in 1 .. End' : CloseOK(log', k)
                    /\ \A r \in acted : AllowedIn(log', synced, r)
                    /\ \A r \in Requests : gate'[r] = "allow" =>
                         r \in acted \/ AllowedIn(log', End', r)
                    /\ \A i \in 1 .. End' : log'[i].type = "resolved" =>
                         gate'[log'[i].req] \in
                           IF log'[i].source = "client" /\ Allows(log'[i].decision)
                           THEN {"allow", "gone"} ELSE {"deny", "gone"}
  BY DEF ActedInv
<1>1. /\ Extends /\ n \in Nat /\ m \in Nat /\ End <= n /\ n <= m /\ m <= End'
      /\ S \subseteq Pending /\ Resolves(log', n, m, S, "cancelled") /\ Revoke(S)
      /\ End \in Nat /\ End' \in Nat
  BY DEF Revoked, Extends
<1>2. ActedInv
  BY DEF Sound, SoundLog
<1>3. \A k \in End + 1 .. End' : CloseOK(log', k)
  <2>1. \A k \in End + 1 .. m : CloseOK(log', k)
    BY RevokedFits
  <2>2. \A k \in End + 1 .. End' : k \in End + 1 .. m \/ k \in m + 1 .. End'
    BY <1>1
  <2> QED BY <2>1, <2>2
<1>4. \A k \in 1 .. End' : CloseOK(log', k)
  BY <1>1, <1>2, <1>3, CloseExtends DEF ActedInv
<1>5. synced \in 0 .. End
  BY DEF Sound, IInv, LogInv, LogTypes, End
<1>6. \A r \in acted : AllowedIn(log', synced, r)
  BY <1>1, <1>2, <1>5, ExtendsKeeps DEF ActedInv
<1>7. \A r \in Requests : gate'[r] = IF r \in S THEN "deny" ELSE gate[r]
  BY <1>1 DEF Revoke
<1>8. \A r \in Requests : gate'[r] = "allow" => r \in acted \/ AllowedIn(log', End', r)
  <2> SUFFICES ASSUME NEW r \in Requests, gate'[r] = "allow", r \notin acted
               PROVE  AllowedIn(log', End', r)
    OBVIOUS
  <2>1. gate[r] = "allow"
    BY <1>7
  <2>2. AllowedIn(log, End, r)
    BY <1>2, <2>1 DEF ActedInv
  <2> QED BY <1>1, <2>2, ExtendsBacks
<1>9. ASSUME NEW i \in 1 .. End', log'[i].type = "resolved"
      PROVE  gate'[log'[i].req] \in
               IF log'[i].source = "client" /\ Allows(log'[i].decision)
               THEN {"allow", "gone"} ELSE {"deny", "gone"}
  <2>1. CASE i \in 1 .. End
    <3>1. log'[i] = log[i]
      BY <1>1, <2>1 DEF Extends
    <3>2. log[i].req \in Reqs(log, "resolved", End)
      BY <1>9, <2>1, <3>1 DEF Reqs
    <3>3. log[i].req \notin S
      BY <1>1, <3>2, NothingOpenHasEnded
    <3>4. log[i].req \in Requests
      <4>1. log[i] \in Event
        BY <2>1, ElementOfSeq DEF Sound, IInv, LogInv, LogTypes, End
      <4> QED BY <1>9, <3>1, <4>1 DEF Event
    <3> QED BY <1>2, <1>7, <1>9, <2>1, <3>1, <3>3, <3>4 DEF ActedInv
  <2>2. CASE i \in End + 1 .. n
    BY <1>9, <2>2 DEF Revoked, Calm
  <2>3. CASE i \in n + 1 .. m
    <3>1. log'[i].req \in S /\ log'[i].source = "cancelled"
      BY <1>1, <2>3 DEF Resolves
    <3>2. gate'[log'[i].req] = "deny"
      BY <1>1, <1>7, <3>1 DEF Pending
    <3> QED BY <3>1, <3>2
  <2>4. CASE i \in m + 1 .. End'
    BY <1>9, <2>4 DEF Revoked
  <2> QED BY <1>1, <2>1, <2>2, <2>3, <2>4
<1> QED BY <1>4, <1>6, <1>8, <1>9

-----------------------------------------------------------------------------
(* Steps that say nothing new of the turns                                 *)

(* Nothing lies between a number and the next.                              *)
LEMMA NoneAfter ==
  ASSUME NEW n \in Nat
  PROVE  n + 1 .. n = {}
OBVIOUS

(* What the log said of turns it says after quiet events.                   *)
LEMMA QuietFacts ==
  ASSUME Extends, NEW m \in Nat, End <= m, Quiet(log', End, m)
  PROVE  /\ \A type \in Loud : Turns(log', type, m) = Turns(log, type, End)
         /\ Count(log', m) = Count(log, End)
         /\ Dead(log', m) <=> Dead(log, End)
         /\ Partial(log', m) <=> Partial(log, End)
         /\ Standing(log', m) <=> Standing(log, End)
         /\ \A x : TotalIs(log', m, x) <=> TotalIs(log, End, x)
         /\ Unmeasured(log', m) <=> Unmeasured(log, End)
         /\ AllEnded(log', m) <=> AllEnded(log, End)
<1>1. End \in 0 .. End /\ End \in Nat
  BY DEF Extends
<1>2. /\ \A type \in Loud : Turns(log', type, m) = Turns(log', type, End)
      /\ Count(log', m) = Count(log', End)
      /\ Dead(log', m) <=> Dead(log', End)
      /\ Partial(log', m) <=> Partial(log', End)
      /\ Standing(log', m) <=> Standing(log', End)
      /\ \A x : TotalIs(log', m, x) <=> TotalIs(log', End, x)
      /\ Unmeasured(log', m) <=> Unmeasured(log', End)
      /\ AllEnded(log', m) <=> AllEnded(log', End)
  BY <1>1, QuietKeeps
<1> QED BY <1>1, <1>2, ExtendsKeeps

(* Quiet events leave the running turn as it is.                            *)
LEMMA QuietTurn ==
  ASSUME Sound, Running, Extends, Quiet(log', End, End'), UNCHANGED <<active, turns, blocked>>
  PROVE  TurnInv'
<1>1. /\ \A type \in Loud : Turns(log', type, End') = Turns(log, type, End)
      /\ Count(log', End') = Count(log, End)
      /\ AllEnded(log', End') <=> AllEnded(log, End)
  BY QuietFacts DEF Extends
<1> QED BY <1>1 DEF Sound, SoundLog, TurnInv, Loud

(* Quiet events leave the block as it is.                                   *)
LEMMA QuietBlock ==
  ASSUME Sound, Running, Extends, Quiet(log', End, End'), UNCHANGED blocked,
         phase' = "up" => phase = "up"
  PROVE  BlockInv'
<1>1. (Dead(log', End') <=> Dead(log, End)) /\ (Standing(log', End') <=> Standing(log, End))
  BY QuietFacts DEF Extends
<1> QED BY <1>1 DEF Sound, SoundLog, BlockInv

(* The usage the log reports stays a bound.                                 *)
LEMMA QuietUsage ==
  ASSUME Sound, Running, Extends, Quiet(log', End, End'),
         UNCHANGED <<active, usage, complete, synced>>,
         ask' \in {ask, "none"},
         \/ UNCHANGED <<spent, attempts>>
         \/ /\ spent' = spent + 1 /\ attempts' = attempts + 1
            /\ ask \in {"running", "abandoned"}
  PROVE  UsageInv'
<1>1. /\ UsageInv /\ AskInv /\ spent \in Nat /\ attempts \in Nat /\ usage \in Nat
      /\ synced \in 0 .. End /\ End \in Nat /\ End' \in Nat /\ End <= End'
  BY DEF Sound, SoundLog, IInv, StateTypes, OutsideTypes, TurnTypes, UsageTypes, LogInv,
         LogTypes, Extends, End
<1>2. /\ \A x : TotalIs(log', End', x) <=> TotalIs(log, End, x)
      /\ Partial(log', End') <=> Partial(log, End)
  BY <1>1, QuietFacts
<1>3. \A i \in 1 .. End' : log'[i].type = "usage" => i \in 1 .. End /\ log'[i] = log[i]
  <2>1. \A i \in 1 .. End' : i \in 1 .. End \/ i \in End + 1 .. End'
    BY <1>1
  <2> QED BY <2>1 DEF Quiet, Loud, Extends
<1>4. \A i \in 1 .. End' : log'[i].type = "usage" => log'[i].cumulative <= spent'
  <2> SUFFICES ASSUME NEW i \in 1 .. End', log'[i].type = "usage"
               PROVE  log'[i].cumulative <= spent'
    OBVIOUS
  <2>1. log[i].type = "usage" /\ log[i].cumulative <= spent /\ log'[i] = log[i]
    BY <1>1, <1>3 DEF UsageInv
  <2>2. log[i] \in Event
    BY <1>3, ElementOfSeq DEF Sound, IInv, LogInv, LogTypes, End
  <2>3. log[i].cumulative \in Nat
    BY <2>1, <2>2, EventFields
  <2> QED BY <1>1, <2>1, <2>3
<1>5. ASSUME NEW k \in synced .. End'
      PROVE  \E h \in synced .. End :
               /\ Loose(k)' <=> Loose(h)
               /\ \A x : TotalIs(log', k, x) <=> TotalIs(log, h, x)
  <2>1. k \in Nat
    BY <1>1
  <2>2. CASE k <= End
    <3>1. k \in 0 .. End /\ k \in synced .. End
      BY <1>1, <2>1, <2>2
    <3> QED BY <3>1, ExtendsKeeps DEF Loose
  <2>3. CASE End <= k
    <3>1. Quiet(log', End, k)
      BY <1>1, <2>1 DEF Quiet
    <3>2. /\ Partial(log', k) <=> Partial(log, End)
          /\ Unmeasured(log', k) <=> Unmeasured(log, End)
          /\ \A x : TotalIs(log', k, x) <=> TotalIs(log, End, x)
      BY <2>1, <2>3, <3>1, QuietFacts
    <3>3. End \in synced .. End
      BY <1>1
    <3> QED BY <3>2, <3>3 DEF Loose
  <2> QED BY <1>1, <2>1, <2>2, <2>3
<1>6. \A k \in synced' .. End' : Loose(k)' \/ TotalIs(log', k, spent')
  <2> SUFFICES ASSUME NEW k \in synced .. End'
               PROVE  Loose(k)' \/ TotalIs(log', k, spent')
    OBVIOUS
  <2>1. PICK h \in synced .. End : /\ Loose(k)' <=> Loose(h)
                                   /\ \A x : TotalIs(log', k, x) <=> TotalIs(log, h, x)
    BY <1>5
  <2>2. CASE spent' = spent
    BY <1>1, <2>1, <2>2 DEF UsageInv
  <2>3. CASE ask \in {"running", "abandoned"}
    BY <1>1, <2>1, <2>3 DEF UsageInv
  <2> QED BY <2>2, <2>3
<1>7. ask' \in {"running", "abandoned"} => \A k \in synced' .. End' : Loose(k)'
  BY <1>1, <1>5 DEF UsageInv
<1>8. /\ TotalIs(log', End', usage')
      /\ complete' <=> ~Partial(log', End')
  BY <1>1, <1>2 DEF UsageInv
<1>9. /\ usage' + (IF active' = NoTurn THEN 0 ELSE attempts') <= spent'
      /\ complete' => usage' + (IF active' = NoTurn THEN 0 ELSE attempts') = spent'
  <2>1. /\ usage + (IF active = NoTurn THEN 0 ELSE attempts) <= spent
        /\ complete => usage + (IF active = NoTurn THEN 0 ELSE attempts) = spent
    BY <1>1 DEF UsageInv
  <2>2. CASE UNCHANGED <<spent, attempts>>
    BY <2>1, <2>2
  <2>3. CASE /\ spent' = spent + 1 /\ attempts' = attempts + 1
             /\ ask \in {"running", "abandoned"}
    <3>1. CASE active = NoTurn
      <4>1. ask = "abandoned" /\ ~complete
        BY <1>1, <2>3, <3>1 DEF AskInv
      <4> QED BY <1>1, <2>1, <2>3, <3>1, <4>1
    <3>2. CASE active # NoTurn
      BY <1>1, <2>1, <2>3, <3>2
    <3> QED BY <3>1, <3>2
  <2> QED BY <2>2, <2>3
<1> QED BY <1>4, <1>6, <1>7, <1>8, <1>9 DEF UsageInv

(* A handler that queues every event it logs leaves an empty queue only     *)
(* behind a durable log.                                                    *)
LEMMA AddsDurable ==
  ASSUME Sound, Running, NEW es, NEW S, Adds(es, S), synced' = synced,
         ask' = "running" => ask = "running" /\ active' = active
  PROVE  DurableInv'
<1>1. log \in Seq(Event) /\ es \in Seq(Event) /\ log' = log \o es
  BY DEF Adds, Sound, IInv, LogInv, LogTypes
<1>2. Extends /\ End' = End + Len(es)
  BY <1>1, GrowFacts
<1>3. DurableInv /\ synced \in 0 .. End
  BY DEF Sound, SoundLog, IInv, LogInv, LogTypes, End
<1>4. outbound' = <<>> => synced' = End'
  <2> SUFFICES ASSUME outbound' = <<>> PROVE synced = End'
    OBVIOUS
  <2>1. outbound = <<>> /\ es = <<>>
    BY DEF Adds
  <2>2. End' = End
    BY <1>2, <2>1, EmptySeq DEF Extends
  <2> QED BY <1>3, <2>1, <2>2 DEF DurableInv
<1>5. ask' = "running" => active' \in Turns(log', "turn.started", synced')
  BY <1>2, <1>3, ExtendsKeeps DEF DurableInv
<1> QED BY <1>4, <1>5 DEF DurableInv

(* A step that revokes requests and otherwise says nothing new of the turns *)
(* keeps the invariant.                                                     *)
LEMMA QuietStep ==
  ASSUME Sound, Running, NEW S, NEW n, Revoked(S, n, End'), NEW es, NEW T, Adds(es, T),
         \A m \in T : Backed(log', End', m),
         UNCHANGED <<told, synced, active, turns, blocked, usage, complete, acted, faults>>,
         \/ ask' = ask
         \/ ask = "abandoned" /\ ask' = "none",
         \/ UNCHANGED <<spent, attempts>>
         \/ /\ spent' = spent + 1 /\ attempts' = attempts + 1
            /\ ask \in {"running", "abandoned"},
         \/ phase' = phase
         \/ phase = "up" /\ phase' = "stopping"
         \/ phase' = "closing" /\ S = Pending /\ TurnSettled
  PROVE  SoundLog'
<1>1. Extends /\ End' \in Nat /\ End \in Nat /\ Running'
  BY DEF Revoked, Extends, Running
<1>2. Quiet(log', End, End') /\ \A k \in End + 1 .. End' : EventOK(log', k) /\ CloseOK(log', k)
  BY RevokedFits
<1>3. WellFormed(log')
  BY <1>1, <1>2, WellFormedExtends DEF Sound, SoundLog
<1>4. DownInv'
  BY <1>1 DEF DownInv, Running
<1>5. TurnInv' /\ BlockInv'
  BY <1>1, <1>2, QuietTurn, QuietBlock
<1>6. AskInv'
  BY DEF Sound, SoundLog, AskInv, TurnSettled
<1>7. RequestInv'
  BY RevokedRequests
<1>8. ReplyInv'
  BY AddsReply DEF Sound, SoundLog, IInv
<1>9. DurableInv'
  BY AddsDurable
<1>10. \A k \in End' + 1 .. End' : CloseOK(log', k)
  <2>1. End' + 1 .. End' = {}
    BY <1>1, NoneAfter
  <2> QED BY <2>1
<1>11. ActedInv'
  BY <1>1, <1>10, RevokedActs
<1>12. UsageInv'
  BY <1>1, <1>2, QuietUsage
<1> QED BY <1>3, <1>4, <1>5, <1>6, <1>7, <1>8, <1>9, <1>11, <1>12 DEF SoundLog

(* Revocations at the end of a step, after the status of the turn or not.   *)
LEMMA CancelRevokes ==
  ASSUME Sound, Running, NEW S, S \subseteq Pending, Revoke(S),
         NEW order \in Orders(StillOpen(S)), NEW why \in CancelReasons,
         \/ log' = log \o CancelEvents(why, order)
         \/ log' = log \o Revocations(order)
  PROVE  \E n : Revoked(S, n, End')
<1>1. S \in SUBSET Requests /\ StillOpen(S) \in SUBSET Requests
  BY DEF StillOpen, Pending
<1>2. Revocations(order) \in Seq(Event)
  BY <1>1, RevocationsAreEvents DEF Sound, IInv
<1>3. Stopping(active, why) \in Event
  BY EventKinds DEF Sound, IInv, StateTypes, TurnTypes
<1>4. <<>> \in Seq(Event) /\ Len(<<>>) = 0
  BY EmptySeq
<1>5. <<Stopping(active, why)>> \in Seq(Event)
  BY <1>3
<1>6. PICK head \in {<<>>, <<Stopping(active, why)>>} :
         log' = log \o (head \o Revocations(order))
  <2>1. <<>> \o Revocations(order) = Revocations(order)
    BY <1>2, ConcatEmptySeq
  <2> QED BY <2>1 DEF CancelEvents
<1>7. head \in Seq(Event)
  BY <1>4, <1>5
<1>8. CalmAbout(head)
  <2>1. CASE head = <<>>
    BY <2>1, <1>4 DEF CalmAbout
  <2>2. CASE head = <<Stopping(active, why)>>
    BY <2>2 DEF Stopping, Calm, CalmAbout
  <2> QED BY <2>1, <2>2
<1>9. PICK tail \in Seq(Event) : tail = <<>>
  BY <1>4
<1>10. NoGate(tail)
  BY <1>4, <1>9 DEF NoGate
<1>11. Logs((head \o Revocations(order)) \o tail)
  <2>1. head \o Revocations(order) \in Seq(Event)
    BY <1>2, <1>7, ConcatProperties
  <2>2. (head \o Revocations(order)) \o tail = head \o Revocations(order)
    BY <1>9, <2>1, ConcatEmptySeq
  <2> QED BY <1>6, <2>2 DEF Logs
<1>12. PICK n \in Nat, m \in Nat : Revoked(S, n, m) /\ End' = m + Len(tail)
  BY ONLY Sound, Running, S \subseteq Pending, Revoke(S), order \in Orders(StillOpen(S)),
          tail \in Seq(Event), <1>7, <1>8, <1>10, <1>11, ListsRevoked
<1>13. End' = m
  BY <1>4, <1>9, <1>12
<1> QED BY <1>12, <1>13

(* A step that logs only what the turn relays revokes nothing.              *)
LEMMA NoneRevoked ==
  ASSUME Sound, Running, NEW es \in Seq(Event), log' = log \o es, UNCHANGED <<gate, records>>,
         CalmAbout(es)
  PROVE  Revoked({}, End', End')
<1>1. log \in Seq(Event)
  BY NothingOpenHasEnded
<1>2. /\ Extends /\ End \in Nat /\ End' \in Nat /\ End <= End'
      /\ \A i \in End + 1 .. End' : i - End \in 1 .. Len(es) /\ log'[i] = es[i - End]
  BY <1>1, GrowFacts DEF Extends
<1>3. End' + 1 .. End' = {}
  BY <1>2, NoneAfter
<1>4. Revoke({})
  BY DEF Revoke, StillOpen, Sound, IInv, StateTypes, GateTypes
<1>5. Resolves(log', End', End', {}, "cancelled")
  BY <1>3 DEF Resolves
<1>6. \A i \in End + 1 .. End' : log'[i].type \in Calm /\ log'[i].turn = active
  BY <1>2 DEF CalmAbout
<1> QED BY ONLY <1>2, <1>3, <1>4, <1>5, <1>6 DEF Revoked

(* Nor does a step that logs nothing.                                       *)
LEMMA NothingRevoked ==
  ASSUME Sound, Running, log' = log, UNCHANGED <<gate, records>>
  PROVE  Revoked({}, End', End') /\ Extends
<1>1. log \in Seq(Event)
  BY NothingOpenHasEnded
<1>2. PICK es \in Seq(Event) : es = <<>>
  BY EmptySeq
<1>3. log' = log \o es /\ Len(es) = 0
  BY <1>1, <1>2, ConcatEmptySeq, EmptySeq
<1>4. CalmAbout(es)
  BY <1>3 DEF CalmAbout
<1>5. Revoked({}, End', End')
  BY ONLY Sound, Running, UNCHANGED <<gate, records>>, <1>3, <1>4, es \in Seq(Event), NoneRevoked
<1> QED BY <1>5 DEF Revoked

(* The commands that neither start a turn nor answer a request.             *)
LEMMA QuietCommand ==
  ASSUME Sound, \/ Initialize \/ Replay \/ Cancel
                \/ \E r \in Requests : AlreadyResolved(r)
  PROVE  SoundLog'
<1>1. LogInv /\ IInv /\ <<>> \in Seq(Event) /\ Len(<<>>) = 0 /\ log \in Seq(Event)
  BY EmptySeq DEF Sound, IInv, LogInv, LogTypes
<1>2. Running
  BY DEF Initialize, Replay, Cancel, AlreadyResolved, Serving, AtRest, Running
<1>3. ASSUME NEW line \in Line, EmitAndRespond(<<>>, line), UNCHANGED <<gate, records>>
      PROVE  Adds(<<>>, line.told) /\ Revoked({}, End', End') /\ Extends
  <2>1. Adds(<<>>, line.told)
    BY <1>1, <1>3, RespondAdds
  <2>2. log' = log
    BY <1>1, <1>3, ConcatEmptySeq DEF EmitAndRespond
  <2> QED BY <1>2, <1>3, <2>1, <2>2, NothingRevoked
<1>4. CASE Initialize
  <2>1. Reply({}) \in Line /\ Reply({}).told = {}
    BY ReplyAgrees DEF Reply
  <2>2. Adds(<<>>, {}) /\ Revoked({}, End', End')
    BY <1>3, <1>4, <2>1 DEF Initialize, gateVars
  <2> QED BY <1>2, <1>4, <2>2, QuietStep
          DEF Initialize, clientVars, turnVars, usageVars, outsideVars, boundVars
<1>5. CASE Replay
  <2>1. Cursor \in Nat
    <3>1. IsFiniteSet(DOMAIN log)
      BY <1>1, FS_Interval, LenProperties
    <3> QED BY <3>1, FS_Subset, FS_CardinalityType DEF Cursor
  <2>2. Page(Cursor) \in Line /\ Page(Cursor).told = {}
    BY <1>1, <2>1, PageAgrees DEF Page
  <2>3. Adds(<<>>, {}) /\ Revoked({}, End', End')
    BY <1>3, <1>5, <2>2 DEF Replay, gateVars
  <2> QED BY <1>2, <1>5, <2>3, QuietStep
          DEF Replay, clientVars, turnVars, usageVars, lifeVars, outsideVars, boundVars
<1>6. CASE Cancel
  <2>1. PICK order \in Orders(StillOpen(AbortedWithTurn)) :
          EmitAndRespond(CancelEvents("client", order), Reply({}))
    BY <1>6 DEF Cancel
  <2>2. CancelEvents("client", order) \in Seq(Event) /\ "client" \in CancelReasons
    BY CancelEventsAreEvents, PendingAreRequests DEF CancelReasons, Sound, IInv
  <2>3. Reply({}) \in Line /\ Reply({}).told = {}
    BY ReplyAgrees DEF Reply
  <2>4. Adds(CancelEvents("client", order), {})
    BY <1>1, <2>1, <2>2, <2>3, RespondAdds
  <2>5. AbortedWithTurn \subseteq Pending /\ Revoke(AbortedWithTurn)
    BY <1>6 DEF Cancel, AbortedWithTurn
  <2>6. PICK n : Revoked(AbortedWithTurn, n, End')
    BY <1>2, <2>1, <2>2, <2>5, CancelRevokes DEF EmitAndRespond
  <2> QED BY <1>2, <1>6, <2>4, <2>6, QuietStep
          DEF Cancel, clientVars, usageVars, lifeVars, outsideVars, boundVars
<1>7. ASSUME NEW r \in Requests, AlreadyResolved(r)
      PROVE  SoundLog'
  <2> DEFINE S == {Recorded(r, records[r].decision)}
  <2>1. Recorded(r, records[r].decision) \in [req : Requests, decision : Words]
    BY DEF Recorded, Sound, IInv, StateTypes, GateTypes, RequestRecord
  <2>2. Reply(S) \in Line /\ Reply(S).told = S
    BY <2>1, ReplyAgrees DEF Reply
  <2>3. Adds(<<>>, S) /\ Revoked({}, End', End') /\ Extends
    BY <1>3, <1>7, <2>2 DEF AlreadyResolved, gateVars
  <2>4. \A m \in S : Backed(log, End, m)
    BY <1>2, <1>7 DEF AlreadyResolved, Sound, SoundLog, RequestInv
  <2>5. \A m \in S : Backed(log', End', m)
    BY <2>3, <2>4, ExtendsBacks
  <2> HIDE DEF S
  <2> QED BY <1>2, <1>7, <2>3, <2>5, QuietStep
          DEF AlreadyResolved, clientVars, turnVars, usageVars, lifeVars, outsideVars, boundVars
<1> QED BY <1>4, <1>5, <1>6, <1>7

(* Nothing is logged and nothing queued.                                    *)
LEMMA NothingAdded ==
  ASSUME Sound, UNCHANGED <<log, outbound>>
  PROVE  Adds(<<>>, {})
<1>1. log \in Seq(Event) /\ <<>> \in Seq(Event)
  BY EmptySeq DEF Sound, IInv, LogInv, LogTypes
<1>2. log' = log \o <<>>
  BY <1>1, ConcatEmptySeq
<1> QED BY <1>1, <1>2 DEF Adds

(* The turn is cancelled, by its deadline or by shutdown.                   *)
LEMMA CancelEmitted ==
  ASSUME Sound, Running, NEW why \in CancelReasons, Revoke(AbortedWithTurn),
         \E order \in Orders(StillOpen(AbortedWithTurn)) : Emit(CancelEvents(why, order))
  PROVE  \E es, n : Adds(es, {}) /\ Revoked(AbortedWithTurn, n, End')
<1>1. PICK order \in Orders(StillOpen(AbortedWithTurn)) : Emit(CancelEvents(why, order))
  OBVIOUS
<1>2. CancelEvents(why, order) \in Seq(Event)
  BY CancelEventsAreEvents, PendingAreRequests DEF Sound, IInv
<1>3. Adds(CancelEvents(why, order), {})
  BY <1>1, <1>2, EmitAdds DEF Sound, IInv
<1>4. AbortedWithTurn \subseteq Pending
  BY DEF AbortedWithTurn
<1>5. log' = log \o CancelEvents(why, order)
  BY <1>1 DEF Emit
<1>6. PICK n : Revoked(AbortedWithTurn, n, End')
  BY <1>4, <1>5, CancelRevokes
<1> QED BY <1>3, <1>6

(* Some of the pending requests are revoked.                                *)
LEMMA RevocationEmitted ==
  ASSUME Sound, Running, NEW S, S \subseteq Pending, Revoke(S),
         \E order \in Orders(StillOpen(S)) : Emit(Revocations(order))
  PROVE  \E es, n : Adds(es, {}) /\ Revoked(S, n, End')
<1>1. PICK order \in Orders(StillOpen(S)) : Emit(Revocations(order))
  OBVIOUS
<1>2. StillOpen(S) \in SUBSET Requests
  BY DEF StillOpen, Pending
<1>3. Revocations(order) \in Seq(Event)
  BY <1>2, RevocationsAreEvents DEF Sound, IInv
<1>4. Adds(Revocations(order), {})
  BY <1>1, <1>3, EmitAdds DEF Sound, IInv
<1>5. log' = log \o Revocations(order) /\ "client" \in CancelReasons
  BY <1>1 DEF Emit, CancelReasons
<1>6. PICK n : Revoked(S, n, End')
  BY <1>5, CancelRevokes
<1> QED BY <1>4, <1>6

(* The engine's own steps that say nothing new of a turn.                   *)
LEMMA QuietEngine ==
  ASSUME Sound, \/ EngineEvent \/ LateReturn \/ Deadline
                \/ \E r \in Requests : GateAbort(r)
  PROVE  SoundLog'
<1>1. Running /\ LogInv /\ IInv
  BY DEF EngineEvent, LateReturn, Deadline, GateAbort, AtRest, Running, Sound, IInv
<1>2. CASE EngineEvent
  <2>1. Relayed \in Seq(Event) /\ CalmAbout(Relayed)
    <3>1. CASE ask = "abandoned"
      <4>1. Relayed = <<>>
        BY <3>1 DEF Relayed
      <4>2. Len(<<>>) = 0 /\ <<>> \in Seq(Event)
        BY EmptySeq
      <4> QED BY <4>1, <4>2 DEF CalmAbout
    <3>2. CASE ask # "abandoned"
      <4>1. Relayed = <<Brain(active)>>
        BY <3>2 DEF Relayed
      <4>2. Brain(active) \in Event
        BY <1>1, EventKinds DEF IInv, StateTypes, TurnTypes
      <4> QED BY <4>1, <4>2 DEF CalmAbout, Brain, Calm
    <3> QED BY <3>1, <3>2
  <2>2. PICK es \in Seq(Event) : es = Relayed
    BY <2>1
  <2>3. Emit(es) /\ UNCHANGED <<gate, records>>
    BY <1>2, <2>2 DEF EngineEvent, gateVars
  <2>4. Adds(es, {})
    BY <1>1, <2>3, EmitAdds
  <2>5. log' = log \o es /\ CalmAbout(es)
    BY <2>1, <2>2, <2>3 DEF Emit
  <2>6. Revoked({}, End', End')
    BY ONLY Sound, <1>1, <2>3, <2>5, es \in Seq(Event), NoneRevoked
  <2>7. /\ UNCHANGED <<told, synced, active, turns, blocked, usage, complete, acted, faults>>
        /\ UNCHANGED <<ask, phase>>
        /\ spent' = spent + 1 /\ attempts' = attempts + 1 /\ ask \in {"running", "abandoned"}
    BY <1>2 DEF EngineEvent, clientVars, usageVars, lifeVars, boundVars
  <2> QED BY ONLY Sound, <1>1, <2>4, <2>6, <2>7, QuietStep
<1>3. CASE LateReturn
  <2>1. Adds(<<>>, {})
    BY <1>3, NothingAdded DEF LateReturn, logVars
  <2>2. Revoked({}, End', End')
    BY <1>1, <1>3, NothingRevoked DEF LateReturn, logVars, gateVars
  <2>3. /\ UNCHANGED <<told, synced, active, turns, blocked, usage, complete, acted, faults>>
        /\ UNCHANGED <<spent, attempts, phase>> /\ ask = "abandoned" /\ ask' = "none"
    BY <1>3 DEF LateReturn, clientVars, usageVars, lifeVars, boundVars, outsideVars
  <2> QED BY ONLY Sound, <1>1, <2>1, <2>2, <2>3, QuietStep
<1>4. CASE Deadline
  <2>1. PICK es, n : Adds(es, {}) /\ Revoked(AbortedWithTurn, n, End')
    BY <1>1, <1>4, CancelEmitted DEF Deadline, CancelReasons
  <2>2. /\ UNCHANGED <<told, synced, active, turns, blocked, usage, complete, acted, faults>>
        /\ UNCHANGED <<spent, attempts, ask, phase>>
    BY <1>4 DEF Deadline, clientVars, usageVars, lifeVars, boundVars, outsideVars
  <2> QED BY ONLY Sound, <1>1, <2>1, <2>2, QuietStep
<1>5. ASSUME NEW r \in Requests, GateAbort(r)
      PROVE  SoundLog'
  <2>1. {r} \subseteq Pending
    BY <1>5 DEF GateAbort, Pending
  <2>2. PICK es, n : Adds(es, {}) /\ Revoked({r}, n, End')
    BY <1>1, <1>5, <2>1, RevocationEmitted DEF GateAbort
  <2>3. /\ UNCHANGED <<told, synced, active, turns, blocked, usage, complete, acted, faults>>
        /\ UNCHANGED <<spent, attempts, ask, phase>>
    BY <1>5 DEF GateAbort, clientVars, turnVars, usageVars, lifeVars, boundVars, outsideVars
  <2> QED BY ONLY Sound, <1>1, <2>2, <2>3, QuietStep
<1> QED BY <1>2, <1>3, <1>4, <1>5

(* Shutdown up to the engine's close: it stops the turn, waits for it and   *)
(* revokes what is still pending.                                           *)
LEMMA QuietClosing ==
  ASSUME Sound, Shutdown \/ Teardown
  PROVE  SoundLog'
<1>1. Running
  BY DEF Shutdown, Teardown, AtRest, Running
<1>2. CASE Shutdown /\ active # NoTurn /\ cancel = "none"
  <2>1. PICK es, n : Adds(es, {}) /\ Revoked(AbortedWithTurn, n, End')
    BY <1>1, <1>2, CancelEmitted DEF Shutdown, CancelReasons
  <2>2. /\ UNCHANGED <<told, synced, active, turns, blocked, usage, complete, acted, faults>>
        /\ UNCHANGED <<spent, attempts, ask>> /\ phase = "up" /\ phase' = "stopping"
    BY <1>2 DEF Shutdown, clientVars, usageVars, boundVars, outsideVars
  <2> QED BY ONLY Sound, <1>1, <2>1, <2>2, QuietStep
<1>3. CASE Shutdown /\ ~(active # NoTurn /\ cancel = "none")
  <2>1. /\ UNCHANGED <<told, synced, active, turns, blocked, usage, complete, acted, faults>>
        /\ UNCHANGED <<spent, attempts, ask>> /\ phase = "up" /\ phase' = "stopping"
        /\ UNCHANGED <<log, outbound, gate, records>>
    BY <1>3 DEF Shutdown, clientVars, usageVars, boundVars, outsideVars, logVars
  <2>2. Adds(<<>>, {})
    BY <2>1, NothingAdded
  <2>3. Revoked({}, End', End')
    BY <1>1, <2>1, NothingRevoked
  <2> QED BY ONLY Sound, <1>1, <2>1, <2>2, <2>3, QuietStep
<1>4. CASE Teardown
  <2>1. \E order \in Orders(StillOpen(Pending)) : Emit(Revocations(order))
    BY <1>4 DEF Teardown, ApprovalsFirst
  <2>2. PICK es, n : Adds(es, {}) /\ Revoked(Pending, n, End')
    BY <1>1, <1>4, <2>1, RevocationEmitted DEF Teardown
  <2>3. /\ UNCHANGED <<told, synced, active, turns, blocked, usage, complete, acted, faults>>
        /\ UNCHANGED <<spent, attempts, ask>> /\ phase' = "closing" /\ TurnSettled
    BY <1>4 DEF Teardown, clientVars, turnVars, usageVars, boundVars, outsideVars
  <2> QED BY ONLY Sound, <1>1, <2>2, <2>3, QuietStep
<1> QED BY <1>2, <1>3, <1>4

-----------------------------------------------------------------------------
(* A request and its answer                                                *)

(* What one more event does to the log.                                     *)
LEMMA OneEvent ==
  ASSUME Sound, NEW e \in Event, log' = log \o <<e>>
  PROVE  /\ Extends /\ End \in Nat /\ End' = End + 1 /\ log'[End + 1] = e
         /\ End + 1 .. End' = {End + 1}
<1>1. log \in Seq(Event)
  BY DEF Sound, IInv, LogInv, LogTypes
<1>2. PICK es \in Seq(Event) : es = <<e>>
  <2>1. <<e>> \in Seq(Event)
    BY e \in Event
  <2> QED BY <2>1
<1>3. Len(es) = 1 /\ es[1] = e /\ 1 \in 1 .. Len(es)
  BY <1>2
<1>4. log' = log \o es
  BY <1>2
<1>5. /\ Extends /\ End' = End + Len(es)
      /\ \A i \in 1 .. Len(es) : log'[End + i] = es[i]
  BY <1>1, <1>4, GrowFacts
<1>6. End \in Nat
  BY <1>5 DEF Extends
<1>7. End' = End + 1 /\ log'[End + 1] = e
  BY <1>3, <1>5
<1>8. End + 1 .. End' = {End + 1}
  BY ONLY <1>6, <1>7
<1> QED BY <1>5, <1>6, <1>7, <1>8

(* The parts that such a step leaves as they are.                           *)
LEMMA QuietRest ==
  ASSUME Sound, Running, Extends, Quiet(log', End, End'),
         \A k \in End + 1 .. End' : EventOK(log', k),
         NEW es, NEW T, Adds(es, T), \A m \in T : Backed(log', End', m),
         UNCHANGED <<told, synced, active, turns, blocked, usage, complete, ask, attempts,
                     spent, phase, faults>>,
         RequestInv', ActedInv'
  PROVE  SoundLog'
<1>1. WellFormed(log')
  BY WellFormedExtends DEF Sound, SoundLog
<1>2. DownInv' /\ Running'
  BY DEF DownInv, Running
<1>3. TurnInv' /\ BlockInv'
  <2>1. UNCHANGED <<active, turns, blocked>> /\ (phase' = "up" => phase = "up")
    OBVIOUS
  <2> QED BY ONLY Sound, Running, Extends, Quiet(log', End, End'), <2>1, QuietTurn, QuietBlock
<1>4. AskInv'
  BY DEF Sound, SoundLog, AskInv
<1>5. ReplyInv'
  BY AddsReply DEF Sound, SoundLog, IInv
<1>6. DurableInv'
  BY AddsDurable
<1>7. UsageInv'
  BY QuietUsage
<1> QED BY <1>1, <1>2, <1>3, <1>4, <1>5, <1>6, <1>7 DEF SoundLog

(* What resolutions say of the gates when the log grows by one event.       *)
LEMMA ActedGrows ==
  ASSUME Sound, Running, Running', NEW e \in Event, log' = log \o <<e>>,
         UNCHANGED <<acted, synced, faults>>, faults = 0 => CloseOK(log', End + 1),
         NEW S \in SUBSET Requests, S \cap Reqs(log, "resolved", End) = {},
         \A q \in Requests \ S : gate'[q] = gate[q],
         \A q \in S : gate'[q] = "allow" => AllowedIn(log', End', q),
         e.type = "resolved" =>
           /\ e.req \in S
           /\ gate'[e.req] \in IF e.source = "client" /\ Allows(e.decision)
                               THEN {"allow", "gone"} ELSE {"deny", "gone"}
  PROVE  ActedInv'
<1> SUFFICES ASSUME faults = 0
             PROVE  /\ \A k \in 1 .. End' : CloseOK(log', k)
                    /\ \A q \in acted : AllowedIn(log', synced, q)
                    /\ \A q \in Requests : gate'[q] = "allow" =>
                         q \in acted \/ AllowedIn(log', End', q)
                    /\ \A i \in 1 .. End' : log'[i].type = "resolved" =>
                         gate'[log'[i].req] \in
                           IF log'[i].source = "client" /\ Allows(log'[i].decision)
                           THEN {"allow", "gone"} ELSE {"deny", "gone"}
  BY DEF ActedInv
<1>1. /\ Extends /\ End \in Nat /\ End' = End + 1 /\ log'[End + 1] = e
      /\ End + 1 .. End' = {End + 1}
  BY OneEvent
<1>2. ActedInv /\ synced \in 0 .. End
  BY DEF Sound, SoundLog, IInv, LogInv, LogTypes, End
<1>3. \A k \in 1 .. End' : CloseOK(log', k)
  <2>1. \A k \in End + 1 .. End' : CloseOK(log', k)
    BY <1>1
  <2> QED BY <1>1, <1>2, <2>1, CloseExtends DEF ActedInv
<1>4. \A q \in acted : AllowedIn(log', synced, q)
  BY <1>1, <1>2, ExtendsKeeps DEF ActedInv
<1>5. \A q \in Requests : gate'[q] = "allow" => q \in acted \/ AllowedIn(log', End', q)
  <2> SUFFICES ASSUME NEW q \in Requests, gate'[q] = "allow", q \notin acted
               PROVE  AllowedIn(log', End', q)
    OBVIOUS
  <2>1. CASE q \in S
    BY <2>1
  <2>2. CASE q \notin S
    <3>1. gate[q] = "allow"
      BY <2>2
    <3>2. AllowedIn(log, End, q)
      BY <1>2, <3>1 DEF ActedInv
    <3> QED BY <1>1, <3>2, ExtendsBacks
  <2> QED BY <2>1, <2>2
<1>6. ASSUME NEW i \in 1 .. End', log'[i].type = "resolved"
      PROVE  gate'[log'[i].req] \in
               IF log'[i].source = "client" /\ Allows(log'[i].decision)
               THEN {"allow", "gone"} ELSE {"deny", "gone"}
  <2>1. CASE i \in 1 .. End
    <3>1. log'[i] = log[i]
      BY <1>1, <2>1 DEF Extends
    <3>2. log[i].req \notin S
      <4>1. log[i].req \in Reqs(log, "resolved", End)
        BY ONLY <1>6, <2>1, <3>1 DEF Reqs
      <4> QED BY <4>1
    <3>3. log[i] \in Event
      BY <2>1, ElementOfSeq DEF Sound, IInv, LogInv, LogTypes, End
    <3>4. log[i].req \in Requests
      BY <1>6, <3>1, <3>3 DEF Event
    <3> QED BY <1>2, <1>6, <2>1, <3>1, <3>2, <3>4 DEF ActedInv
  <2>2. CASE i = End + 1
    BY <1>1, <1>6, <2>2
  <2>3. i \in 1 .. End \/ i = End + 1
    BY ONLY <1>1, i \in 1 .. End'
  <2> QED BY <2>1, <2>2, <2>3
<1> QED BY <1>3, <1>4, <1>5, <1>6

(* A request is logged once, while nothing has asked it before.             *)
LEMMA GateRequestKeeps ==
  ASSUME Sound, NEW r \in Requests, GateRequest(r)
  PROVE  SoundLog'
<1> DEFINE e == Request(r, active)
<1>1. Running /\ LogInv /\ gate[r] = "idle" /\ phase \in {"up", "stopping"}
  BY DEF GateRequest, AtRest, Running, Sound, IInv
<1>2. e \in Event
  BY EventKinds DEF Sound, IInv, StateTypes, TurnTypes
<1>3. e.type = "request" /\ e.turn = active /\ e.req = r
  BY DEF Request
<1>4. log' = log \o <<e>> /\ Emit(<<e>>) /\ <<e>> \in Seq(Event)
  BY <1>2 DEF GateRequest, Emit
<1> HIDE DEF e
<1>5. /\ Extends /\ End \in Nat /\ End' = End + 1 /\ log'[End + 1] = e
      /\ End + 1 .. End' = {End + 1}
  BY <1>2, <1>4, OneEvent
<1>6. Quiet(log', End, End')
  BY <1>3, <1>5 DEF Quiet, Loud
<1>7. /\ Reqs(log', "request", End) = Reqs(log, "request", End)
      /\ Reqs(log', "resolved", End) = Reqs(log, "resolved", End)
      /\ Turns(log', "turn.ended", End) = Turns(log, "turn.ended", End)
  BY <1>5, ExtendsKeeps
<1>8. r \notin Reqs(log, "request", End) /\ r \notin Reqs(log, "resolved", End)
  <2>1. r \notin Reqs(log, "request", End)
    BY <1>1 DEF Sound, SoundLog, RequestInv
  <2>2. log \in Seq(Event) /\ End \in 0 .. Len(log)
    BY <1>1, NothingOpenHasEnded
  <2> QED BY <2>1, <2>2, WellFormedTurns DEF Sound, SoundLog
<1>9. EventOK(log', End + 1) /\ CloseOK(log', End + 1)
  <2>1. (End + 1) - 1 = End
    BY <1>5
  <2>2. active \notin Turns(log, "turn.ended", End)
    BY <1>1, NothingOpenHasEnded
  <2> QED BY <1>3, <1>5, <1>7, <1>8, <2>1, <2>2
         DEF EventOK, StartedOK, RequestOK, ResolvedOK, UsageOK, EndedOK, ClosedOK, SealOK,
             CloseOK
<1>10. /\ Reqs(log', "request", End') = Reqs(log, "request", End) \cup {r}
       /\ Reqs(log', "resolved", End') = Reqs(log, "resolved", End)
  <2>1. \A type : Reqs(log', type, End + 1) = Reqs(log', type, End)
                      \cup (IF log'[End + 1].type = type THEN {log'[End + 1].req} ELSE {})
    BY <1>5, OneMore
  <2> QED BY <1>3, <1>5, <1>7, <2>1
<1>11. /\ gate'[r] = "pending" /\ records'[r].state = "pending" /\ records'[r].turn = active
       /\ \A q \in Requests \ {r} : gate'[q] = gate[q] /\ records'[q] = records[q]
  BY DEF GateRequest, Record, Sound, IInv, StateTypes, GateTypes
<1>12. /\ UNCHANGED <<told, synced, active, turns, blocked, usage, complete, ask, attempts,
                      spent, phase, acted, faults>>
  BY DEF GateRequest, clientVars, turnVars, usageVars, lifeVars, outsideVars, boundVars
<1>13. \A q \in Requests : Backed(log, End, Recorded(q, records[q].decision)) =>
                           Backed(log', End', Recorded(q, records[q].decision))
  BY <1>5, ExtendsBacks
<1>14. RequestInv'
  <2>1. RequestInv
    BY DEF Sound, SoundLog
  <2>2. /\ gate'[r] # "idle" /\ records'[r].state = "pending" /\ gate'[r] = "pending"
        /\ r \in Reqs(log', "request", End') \ Reqs(log', "resolved", End')
        /\ records'[r].turn \in {NoTurn, active'}
    BY <1>8, <1>10, <1>11, <1>12
  <2>3. ASSUME NEW q \in Requests, q # r
        PROVE  /\ gate'[q] = "idle" => q \notin Reqs(log', "request", End')
               /\ records'[q].state = "pending" <=> gate'[q] = "pending"
               /\ records'[q].state = "pending" =>
                    /\ q \in Reqs(log', "request", End') \ Reqs(log', "resolved", End')
                    /\ records'[q].turn \in {NoTurn, active'}
               /\ records'[q].state = "unknown" => q \notin Reqs(log', "request", End')
               /\ records'[q].state = "resolved" =>
                    Backed(log', End', Recorded(q, records'[q].decision))
    <3>1. gate'[q] = gate[q] /\ records'[q] = records[q]
      BY <1>11, <2>3
    <3>2. /\ gate[q] = "idle" => q \notin Reqs(log, "request", End)
          /\ records[q].state = "pending" <=> gate[q] = "pending"
          /\ records[q].state = "pending" =>
               /\ q \in Reqs(log, "request", End) \ Reqs(log, "resolved", End)
               /\ records[q].turn \in {NoTurn, active}
          /\ records[q].state = "unknown" => q \notin Reqs(log, "request", End)
          /\ records[q].state = "resolved" =>
               Backed(log, End, Recorded(q, records[q].decision))
      BY <1>1, <2>1 DEF RequestInv
    <3> QED BY <1>10, <1>12, <1>13, <2>3, <3>1, <3>2
  <2>4. phase' \notin {"closing", "closed"}
    BY <1>1, <1>12
  <2> QED BY <2>2, <2>3, <2>4 DEF RequestInv
<1>15. ActedInv'
  <2>1. Running' /\ \A q \in {r} : gate'[q] # "allow" /\ e.type # "resolved"
    BY <1>1, <1>3, <1>11, <1>12 DEF Running
  <2>2. /\ \A q \in Requests \ {r} : gate'[q] = gate[q]
        /\ {r} \in SUBSET Requests /\ {r} \cap Reqs(log, "resolved", End) = {}
    BY <1>8, <1>11
  <2> QED BY ONLY Sound, <1>1, <1>2, <1>4, <1>9, <1>12, <2>1, <2>2, ActedGrows
<1>16. Adds(<<e>>, {})
  BY <1>1, <1>4, EmitAdds
<1>17. \A k \in End + 1 .. End' : EventOK(log', k)
  BY <1>5, <1>9
<1> QED BY ONLY Sound, <1>1, <1>5, <1>6, <1>12, <1>14, <1>15, <1>16, <1>17, QuietRest

(* The client answers an approval or a question.                            *)
LEMMA AnswerKeeps ==
  ASSUME Sound, NEW r \in Requests, NEW d \in Words, ApprovalRespond(r, d) \/ QuestionAnswer(r, d)
  PROVE  SoundLog'
<1> DEFINE e == Resolved(r, records[r].turn, d, "client")
           T == {Recorded(r, d)}
<1>1. /\ Running /\ LogInv /\ phase = "up" /\ records[r].state = "pending"
      /\ UNCHANGED <<told, synced, active, turns, blocked, usage, complete, ask, attempts,
                     spent, phase, acted, faults>>
      /\ EmitAndRespond(<<e>>, Reply(T))
      /\ records' = [records EXCEPT ![r] = Record("resolved", @.turn, d, "client")]
      /\ gate' = IF gate[r] = "pending"
                 THEN [gate EXCEPT ![r] = IF Allows(d) THEN "allow" ELSE "deny"]
                 ELSE gate
  BY DEF ApprovalRespond, QuestionAnswer, Serving, AtRest, Running, Sound, IInv,
         clientVars, turnVars, usageVars, lifeVars, outsideVars, boundVars
<1>2. e \in Event
  BY EventKinds DEF Sources, Sound, IInv, StateTypes, GateTypes, RequestRecord
<1>3. /\ e.type = "resolved" /\ e.turn = records[r].turn /\ e.req = r
      /\ e.decision = d /\ e.source = "client"
  BY DEF Resolved
<1>4. Recorded(r, d) \in [req : Requests, decision : Words]
  BY DEF Recorded
<1>5. Reply(T) \in Line /\ Reply(T).told = T
  BY <1>4, ReplyAgrees DEF Reply
<1>6. Adds(<<e>>, T)
  <2>1. <<e>> \in Seq(Event)
    BY <1>2
  <2> HIDE DEF e, T
  <2> QED BY <1>1, <1>5, <2>1, RespondAdds
<1>7. log' = log \o <<e>>
  BY <1>1 DEF EmitAndRespond
<1> HIDE DEF e
<1>8. /\ Extends /\ End \in Nat /\ End' = End + 1 /\ log'[End + 1] = e
      /\ End + 1 .. End' = {End + 1}
  BY <1>2, <1>7, OneEvent
<1>9. Quiet(log', End, End')
  BY <1>3, <1>8 DEF Quiet, Loud
<1>10. /\ Reqs(log', "request", End) = Reqs(log, "request", End)
       /\ Reqs(log', "resolved", End) = Reqs(log, "resolved", End)
       /\ Turns(log', "turn.ended", End) = Turns(log, "turn.ended", End)
  BY <1>8, ExtendsKeeps
<1>11. gate[r] = "pending" /\ r \in Pending
  BY <1>1 DEF Sound, SoundLog, RequestInv, Pending
<1>12. /\ records[r].turn \notin Turns(log, "turn.ended", End)
       /\ r \in Reqs(log, "request", End) \ Reqs(log, "resolved", End)
  BY <1>1, <1>11, NothingOpenHasEnded
<1>13. EventOK(log', End + 1) /\ CloseOK(log', End + 1)
  <2>1. (End + 1) - 1 = End
    BY <1>8
  <2> QED BY <1>3, <1>8, <1>10, <1>12, <2>1
         DEF EventOK, StartedOK, RequestOK, ResolvedOK, UsageOK, EndedOK, ClosedOK, SealOK,
             CloseOK
<1>14. /\ Reqs(log', "request", End') = Reqs(log, "request", End)
       /\ Reqs(log', "resolved", End') = Reqs(log, "resolved", End) \cup {r}
  <2>1. \A type : Reqs(log', type, End + 1) = Reqs(log', type, End)
                      \cup (IF log'[End + 1].type = type THEN {log'[End + 1].req} ELSE {})
    BY <1>8, OneMore
  <2> QED BY <1>3, <1>8, <1>10, <2>1
<1>15. /\ gate'[r] = (IF Allows(d) THEN "allow" ELSE "deny")
       /\ records'[r].state = "resolved" /\ records'[r].decision = d
       /\ \A q \in Requests \ {r} : gate'[q] = gate[q] /\ records'[q] = records[q]
  BY <1>1, <1>11 DEF Record, Sound, IInv, StateTypes, GateTypes
<1>16. Backed(log', End', Recorded(r, d))
  <2>1. End + 1 \in 1 .. End'
    BY <1>8
  <2>2. /\ "req" \in DOMAIN Recorded(r, d)
        /\ Recorded(r, d).req = r /\ Recorded(r, d).decision = d
    BY DEF Recorded
  <2> HIDE DEF T
  <2> QED BY <1>3, <1>8, <2>1, <2>2 DEF Backed
<1>17. \A q \in Requests : Backed(log, End, Recorded(q, records[q].decision)) =>
                           Backed(log', End', Recorded(q, records[q].decision))
  BY <1>8, ExtendsBacks
<1>18. RequestInv'
  <2>1. RequestInv
    BY DEF Sound, SoundLog
  <2>2. /\ gate'[r] # "idle" /\ gate'[r] # "pending" /\ records'[r].state = "resolved"
        /\ Backed(log', End', Recorded(r, records'[r].decision))
    BY <1>15, <1>16
  <2>3. ASSUME NEW q \in Requests, q # r
        PROVE  /\ gate'[q] = "idle" => q \notin Reqs(log', "request", End')
               /\ records'[q].state = "pending" <=> gate'[q] = "pending"
               /\ records'[q].state = "pending" =>
                    /\ q \in Reqs(log', "request", End') \ Reqs(log', "resolved", End')
                    /\ records'[q].turn \in {NoTurn, active'}
               /\ records'[q].state = "unknown" => q \notin Reqs(log', "request", End')
               /\ records'[q].state = "resolved" =>
                    Backed(log', End', Recorded(q, records'[q].decision))
    <3>1. gate'[q] = gate[q] /\ records'[q] = records[q]
      BY <1>15, <2>3
    <3>2. /\ gate[q] = "idle" => q \notin Reqs(log, "request", End)
          /\ records[q].state = "pending" <=> gate[q] = "pending"
          /\ records[q].state = "pending" =>
               /\ q \in Reqs(log, "request", End) \ Reqs(log, "resolved", End)
               /\ records[q].turn \in {NoTurn, active}
          /\ records[q].state = "unknown" => q \notin Reqs(log, "request", End)
          /\ records[q].state = "resolved" =>
               Backed(log, End, Recorded(q, records[q].decision))
      BY <1>1, <2>1 DEF RequestInv
    <3> QED BY <1>1, <1>14, <1>17, <2>3, <3>1, <3>2
  <2>4. phase' \notin {"closing", "closed"}
    BY <1>1
  <2> QED BY <2>2, <2>3, <2>4 DEF RequestInv
<1>19. ActedInv'
  <2>1. Allows(d) => AllowedIn(log', End', r)
    <3>1. End + 1 \in 1 .. End'
      BY <1>8
    <3> QED BY <1>3, <1>8, <3>1 DEF AllowedIn
  <2>2. /\ Running' /\ \A q \in Requests \ {r} : gate'[q] = gate[q]
        /\ {r} \in SUBSET Requests /\ {r} \cap Reqs(log, "resolved", End) = {}
    BY <1>1, <1>12, <1>15 DEF Running
  <2>3. /\ \A q \in {r} : gate'[q] = "allow" => AllowedIn(log', End', q)
        /\ e.req \in {r}
        /\ gate'[e.req] \in IF e.source = "client" /\ Allows(e.decision)
                            THEN {"allow", "gone"} ELSE {"deny", "gone"}
    BY <1>3, <1>15, <2>1
  <2> QED BY ONLY Sound, <1>1, <1>2, <1>7, <1>13, <2>2, <2>3, ActedGrows
<1>20. \A k \in End + 1 .. End' : EventOK(log', k)
  BY <1>8, <1>13
<1>21. \A m \in T : Backed(log', End', m)
  BY <1>16
<1> HIDE DEF T
<1> QED BY ONLY Sound, <1>1, <1>6, <1>8, <1>9, <1>18, <1>19, <1>20, <1>21, QuietRest

-----------------------------------------------------------------------------
(* A turn starts, a turn ends, the session closes                          *)

(* The turns started are numbered from 1.                                   *)
LEMMA StartedUpTo ==
  ASSUME NEW l \in Seq(Event), WellFormed(l), NEW n \in 0 .. Len(l)
  PROVE  Turns(l, "turn.started", n) \subseteq 1 .. Count(l, n)
<1>1. Len(l) \in Nat /\ n \in Nat
  BY LenProperties
<1> SUFFICES ASSUME NEW k \in 1 .. n, l[k].type = "turn.started"
             PROVE  l[k].turn \in 1 .. Count(l, n)
  BY DEF Turns
<1>2. k - 1 \in Nat /\ k \in Nat /\ (k - 1) + 1 = k /\ k <= n
  OBVIOUS
<1>3. Count(l, k) <= Count(l, n)
  BY <1>1, <1>2, CountGrows
<1>4. l[k].turn = Count(l, k - 1) + 1
  BY <1>1 DEF WellFormed, EventOK, StartedOK
<1>5. Count(l, k - 1) \in Nat /\ Count(l, k) \in Nat /\ Count(l, n) \in Nat
  BY <1>1, <1>2, CountIsNat
<1>6. Count(l, (k - 1) + 1) = Count(l, k - 1) + 1
  BY ONLY <1>2, l[k].type = "turn.started", OneMore
<1> QED BY <1>2, <1>3, <1>4, <1>5, <1>6

(* What the log says with one more event.                                   *)
LEMMA OneEventSays ==
  ASSUME Sound, NEW e \in Event, log' = log \o <<e>>
  PROVE  /\ \A type : Turns(log', type, End') =
              Turns(log, type, End) \cup (IF e.type = type THEN {e.turn} ELSE {})
         /\ \A type : Reqs(log', type, End') =
              Reqs(log, type, End) \cup (IF e.type = type THEN {e.req} ELSE {})
         /\ Count(log', End') =
              IF e.type = "turn.started" THEN Count(log, End) + 1 ELSE Count(log, End)
         /\ Dead(log', End') <=>
              Dead(log, End) \/ (e.type = "turn.ended" /\ e.reason = "process_exit")
         /\ Partial(log', End') <=> Partial(log, End) \/ (e.type = "usage" /\ ~e.complete)
         /\ e.type # "usage" => \A x : TotalIs(log', End', x) <=> TotalIs(log, End, x)
         /\ e.type \notin {"turn.ended", "session.closed"} =>
              (Standing(log', End') <=> Standing(log, End))
<1>1. /\ Extends /\ End \in Nat /\ End' = End + 1 /\ log'[End + 1] = e
  BY OneEvent
<1>2. End \in 0 .. End
  BY <1>1
<1>3. /\ \A type : Turns(log', type, End) = Turns(log, type, End)
      /\ \A type : Reqs(log', type, End) = Reqs(log, type, End)
      /\ Count(log', End) = Count(log, End)
      /\ Dead(log', End) = Dead(log, End) /\ Standing(log', End) = Standing(log, End)
      /\ Partial(log', End) = Partial(log, End)
      /\ \A x : TotalIs(log', End, x) = TotalIs(log, End, x)
  BY <1>1, <1>2, ExtendsKeeps
<1>4. /\ \A type : Turns(log', type, End + 1) = Turns(log', type, End)
                     \cup (IF log'[End + 1].type = type THEN {log'[End + 1].turn} ELSE {})
      /\ \A type : Reqs(log', type, End + 1) = Reqs(log', type, End)
                     \cup (IF log'[End + 1].type = type THEN {log'[End + 1].req} ELSE {})
      /\ Count(log', End + 1) =
           IF log'[End + 1].type = "turn.started" THEN Count(log', End) + 1 ELSE Count(log', End)
      /\ Dead(log', End + 1) <=>
           Dead(log', End)
           \/ (log'[End + 1].type = "turn.ended" /\ log'[End + 1].reason = "process_exit")
      /\ Partial(log', End + 1) <=>
           Partial(log', End) \/ (log'[End + 1].type = "usage" /\ ~log'[End + 1].complete)
      /\ log'[End + 1].type # "usage" =>
           \A x : TotalIs(log', End + 1, x) <=> TotalIs(log', End, x)
  BY ONLY <1>1, OneMore
<1>5. log'[End + 1].type \notin {"turn.ended", "session.closed"} =>
        (Standing(log', End + 1) <=> Standing(log', End))
  BY ONLY <1>1, StandingStep
<1> QED BY ONLY <1>1, <1>3, <1>4, <1>5

(* A request that is not pending is resolved.                               *)
LEMMA OnlyPendingOpen ==
  ASSUME Sound, Running
  PROVE  Reqs(log, "request", End) \subseteq Reqs(log, "resolved", End) \cup Pending
<1> SUFFICES ASSUME NEW r \in Reqs(log, "request", End), r \notin Pending
             PROVE  r \in Reqs(log, "resolved", End)
  OBVIOUS
<1>1. PICK i \in 1 .. End : log[i].type = "request" /\ log[i].req = r
  BY DEF Reqs
<1>2. log[i] \in Event
  BY ElementOfSeq DEF Sound, IInv, LogInv, LogTypes, End
<1>3. r \in Requests
  BY <1>1, <1>2 DEF Event
<1>4. records[r].state \in {"unknown", "pending", "resolved"}
  BY <1>3 DEF Sound, IInv, StateTypes, GateTypes, RequestRecord
<1>5. records[r].state = "resolved" /\ Backed(log, End, Recorded(r, records[r].decision))
  BY <1>3, <1>4 DEF Sound, SoundLog, RequestInv, Pending
<1>6. End \in Nat
  BY NothingOpenHasEnded
<1> QED BY <1>5, <1>6, BackedIsResolved DEF Reqs

(* The records and gates stay, and so does what the log says of requests.   *)
LEMMA SameRequests ==
  ASSUME Sound, Running, Extends, UNCHANGED <<gate, records>>,
         Reqs(log', "request", End') = Reqs(log, "request", End),
         Reqs(log', "resolved", End') = Reqs(log, "resolved", End),
         active \in {NoTurn, active'}, phase' = phase \/ phase \in {"closing", "closed"}
  PROVE  RequestInv'
<1>1. \A r : Backed(log, End, r) => Backed(log', End', r)
  BY ExtendsBacks
<1>2. RequestInv
  BY DEF Sound, SoundLog
<1>3. \A r \in Requests :
        /\ gate'[r] = "idle" => r \notin Reqs(log', "request", End')
        /\ records'[r].state = "pending" <=> gate'[r] = "pending"
        /\ records'[r].state = "pending" =>
             /\ r \in Reqs(log', "request", End') \ Reqs(log', "resolved", End')
             /\ records'[r].turn \in {NoTurn, active'}
        /\ records'[r].state = "unknown" => r \notin Reqs(log', "request", End')
        /\ records'[r].state = "resolved" =>
             Backed(log', End', Recorded(r, records'[r].decision))
  <2> TAKE r \in Requests
  <2>1. gate'[r] = gate[r] /\ records'[r] = records[r]
    OBVIOUS
  <2>2. /\ gate[r] = "idle" => r \notin Reqs(log, "request", End)
        /\ records[r].state = "pending" <=> gate[r] = "pending"
        /\ records[r].state = "pending" =>
             /\ r \in Reqs(log, "request", End) \ Reqs(log, "resolved", End)
             /\ records[r].turn \in {NoTurn, active}
        /\ records[r].state = "unknown" => r \notin Reqs(log, "request", End)
        /\ records[r].state = "resolved" =>
             Backed(log, End, Recorded(r, records[r].decision))
    BY <1>2 DEF RequestInv
  <2> QED BY <1>1, <2>1, <2>2
<1>4. phase' \in {"closing", "closed"} => \A r \in Requests : gate'[r] # "pending"
  BY <1>2 DEF RequestInv
<1> QED BY <1>3, <1>4 DEF RequestInv

(* An event that reports no usage leaves the total.                         *)
LEMMA UsageStays ==
  ASSUME Sound, Running, NEW e \in Event, log' = log \o <<e>>, e.type # "usage",
         UNCHANGED <<usage, complete, synced, spent>>,
         ask' = ask \/ ask' = "due",
         \/ UNCHANGED <<active, attempts>>
         \/ active = NoTurn /\ attempts' = 0
  PROVE  UsageInv'
<1>1. /\ UsageInv /\ spent \in Nat /\ attempts \in Nat /\ usage \in Nat
      /\ synced \in 0 .. End
  BY DEF Sound, SoundLog, IInv, StateTypes, OutsideTypes, TurnTypes, UsageTypes, LogInv,
         LogTypes, End
<1>2. /\ Extends /\ End \in Nat /\ End' = End + 1 /\ log'[End + 1] = e
  BY OneEvent
<1>3. End \in 0 .. End
  BY <1>2
<1>5. /\ Partial(log', End + 1) <=> Partial(log, End)
      /\ Unmeasured(log, End) => Unmeasured(log', End + 1)
      /\ \A x : TotalIs(log', End + 1, x) <=> TotalIs(log, End, x)
  BY <1>2, OneEventSays DEF Unmeasured
<1>6. \A i \in 1 .. End' : log'[i].type = "usage" => log'[i].cumulative <= spent'
  <2> SUFFICES ASSUME NEW i \in 1 .. End', log'[i].type = "usage"
               PROVE  log'[i].cumulative <= spent'
    OBVIOUS
  <2>1. i \in 1 .. End
    <3>1. i # End + 1
      BY <1>2
    <3> QED BY ONLY <1>2, <3>1, i \in 1 .. End'
  <2>2. log'[i] = log[i]
    BY <1>2, <2>1 DEF Extends
  <2> QED BY <1>1, <2>1, <2>2 DEF UsageInv
<1>7. \A k \in synced' .. End' : (k \in synced .. End /\ k \in 0 .. End) \/ k = End + 1
  BY <1>1, <1>2
<1>8. End \in synced .. End
  BY <1>1, <1>2
<1>9. \A k \in synced' .. End' : Loose(k)' \/ TotalIs(log', k, spent')
  <2> TAKE k \in synced' .. End'
  <2>1. CASE k \in synced .. End /\ k \in 0 .. End
    BY <1>1, <1>2, <2>1, ExtendsKeeps DEF UsageInv, Loose
  <2>2. CASE k = End + 1
    BY <1>1, <1>5, <1>8, <2>2 DEF UsageInv, Loose
  <2> QED BY <1>7, <2>1, <2>2
<1>10. ask' \in {"running", "abandoned"} => \A k \in synced' .. End' : Loose(k)'
  <2> SUFFICES ASSUME ask \in {"running", "abandoned"}, NEW k \in synced' .. End'
               PROVE  Loose(k)'
    OBVIOUS
  <2>1. CASE k \in synced .. End /\ k \in 0 .. End
    BY <1>1, <1>2, <2>1, ExtendsKeeps DEF UsageInv, Loose
  <2>2. CASE k = End + 1
    BY <1>1, <1>5, <1>8, <2>2 DEF UsageInv, Loose
  <2> QED BY <1>7, <2>1, <2>2
<1>11. TotalIs(log', End', usage') /\ (complete' <=> ~Partial(log', End'))
  BY <1>1, <1>2, <1>5 DEF UsageInv
<1>12. /\ usage' + (IF active' = NoTurn THEN 0 ELSE attempts') <= spent'
       /\ complete' => usage' + (IF active' = NoTurn THEN 0 ELSE attempts') = spent'
  BY <1>1 DEF UsageInv
<1> QED BY <1>6, <1>9, <1>10, <1>11, <1>12 DEF UsageInv

(* A turn starts only when the one before it has ended and no stop is       *)
(* unproven.                                                                *)
LEMMA PromptKeeps ==
  ASSUME Sound, Prompt
  PROVE  SoundLog'
<1> DEFINE t == turns + 1
           e == Started(t)
           T == {Admitted(t)}
<1>1. /\ Running /\ LogInv /\ phase = "up" /\ active = NoTurn /\ blocked = "no"
      /\ active' = t /\ turns' = t /\ ask' = "due" /\ attempts' = 0
      /\ EmitAndRespond(<<e>>, Reply(T))
      /\ UNCHANGED <<told, synced, blocked, usage, complete, spent, phase, acted, faults,
                     gate, records>>
  BY DEF Prompt, Serving, AtRest, Running, Sound, IInv,
         clientVars, gateVars, lifeVars, outsideVars, boundVars
<1>2. turns \in Nat /\ t \in Nat /\ t # NoTurn
  BY DEF NoTurn, Sound, IInv, StateTypes, UsageTypes
<1>3. e \in Event /\ <<e>> \in Seq(Event)
  BY <1>2, EventKinds
<1>4. e.type = "turn.started" /\ e.turn = t
  BY DEF Started
<1>5. Reply(T) \in Line /\ Reply(T).told = T
  <2>1. Admitted(t) \in [turn : Nat]
    BY <1>2 DEF Admitted
  <2> QED BY <2>1, ReplyAgrees DEF Reply
<1> HIDE DEF e
<1>6. Adds(<<e>>, T) /\ log' = log \o <<e>>
  <2> HIDE DEF T
  <2> QED BY <1>1, <1>3, <1>5, RespondAdds DEF EmitAndRespond
<1>7. Backed(log', End', Admitted(t)) <=>
        \E i \in 1 .. End' : log'[i].type = "turn.started" /\ log'[i].turn = t
  <2>1. "req" \notin DOMAIN Admitted(t) /\ Admitted(t).turn = t
    BY DEF Admitted
  <2> HIDE DEF t
  <2> QED BY <2>1 DEF Backed
<1> HIDE DEF t
<1>8. /\ Extends /\ End \in Nat /\ End' = End + 1 /\ log'[End + 1] = e
      /\ End + 1 .. End' = {End + 1}
  BY <1>3, <1>6, OneEvent
<1>9. End \in 0 .. End /\ (End + 1) - 1 = End /\ End + 1 \in 1 .. End'
  BY <1>8
<1>10. /\ \A type : Turns(log', type, End) = Turns(log, type, End)
       /\ \A type : Reqs(log', type, End) = Reqs(log, type, End)
       /\ Count(log', End) = Count(log, End)
       /\ Dead(log', End) = Dead(log, End) /\ Standing(log', End) = Standing(log, End)
       /\ AllEnded(log', End) = AllEnded(log, End)
  BY <1>8, <1>9, ExtendsKeeps
<1>13. /\ turns = Count(log, End) /\ AllEnded(log, End)
       /\ ~Dead(log, End) /\ ~Standing(log, End)
  BY <1>1 DEF Sound, SoundLog, TurnInv, BlockInv
<1>14. /\ t \notin Turns(log, "turn.started", End)
       /\ t \notin Turns(log, "turn.ended", End)
       /\ t \notin Turns(log, "usage", End)
  <2>1. log \in Seq(Event) /\ End \in 0 .. Len(log) /\ WellFormed(log)
    BY <1>1, NothingOpenHasEnded DEF Sound, SoundLog
  <2>2. Turns(log, "turn.started", End) \subseteq 1 .. turns
    BY <1>13, <2>1, StartedUpTo
  <2>3. t \notin 1 .. turns
    BY <1>2 DEF t
  <2> QED BY <2>1, <2>2, <2>3, WellFormedTurns
<1>15. EventOK(log', End + 1) /\ CloseOK(log', End + 1)
  <2>1. t = turns + 1
    BY DEF t
  <2> QED BY <1>4, <1>8, <1>9, <1>10, <1>13, <1>14, <2>1
         DEF EventOK, StartedOK, RequestOK, ResolvedOK, UsageOK, EndedOK, ClosedOK, SealOK,
             CloseOK
<1>16. WellFormed(log')
  BY <1>8, <1>15, WellFormedExtends DEF Sound, SoundLog
<1>17. /\ Turns(log', "turn.started", End') = Turns(log, "turn.started", End) \cup {t}
       /\ Turns(log', "turn.ended", End') = Turns(log, "turn.ended", End)
       /\ Turns(log', "usage", End') = Turns(log, "usage", End)
       /\ Reqs(log', "request", End') = Reqs(log, "request", End)
       /\ Reqs(log', "resolved", End') = Reqs(log, "resolved", End)
       /\ Count(log', End') = Count(log, End) + 1
       /\ Dead(log', End') <=> Dead(log, End)
       /\ Standing(log', End') <=> Standing(log, End)
  <2>1. /\ \A type : Turns(log', type, End') =
              Turns(log, type, End) \cup (IF e.type = type THEN {e.turn} ELSE {})
        /\ \A type : Reqs(log', type, End') =
              Reqs(log, type, End) \cup (IF e.type = type THEN {e.req} ELSE {})
        /\ Count(log', End') =
              IF e.type = "turn.started" THEN Count(log, End) + 1 ELSE Count(log, End)
        /\ Dead(log', End') <=>
              Dead(log, End) \/ (e.type = "turn.ended" /\ e.reason = "process_exit")
        /\ e.type \notin {"turn.ended", "session.closed"} =>
              (Standing(log', End') <=> Standing(log, End))
    BY <1>3, <1>6, OneEventSays
  <2> QED BY ONLY <1>4, <2>1
<1>18. DownInv' /\ Running'
  BY <1>1 DEF DownInv, Running
<1>19. TurnInv'
  <2>1. t = turns + 1
    BY DEF t
  <2>2. Turns(log, "turn.started", End) \subseteq Turns(log, "turn.ended", End)
    BY <1>13 DEF AllEnded
  <2> QED BY <1>1, <1>2, <1>13, <1>14, <1>17, <2>1, <2>2 DEF TurnInv
<1>20. AskInv'
  BY <1>1, <1>2 DEF AskInv
<1>21. RequestInv'
  BY ONLY Sound, <1>1, <1>8, <1>17, SameRequests
<1>22. ReplyInv'
  <2>1. \A m \in T : Backed(log', End', m)
    BY <1>4, <1>7, <1>8, <1>9
  <2> HIDE DEF T
  <2> QED BY <1>1, <1>6, <2>1, AddsReply DEF Sound, SoundLog
<1>23. BlockInv'
  BY <1>1, <1>13, <1>17 DEF BlockInv
<1>24. DurableInv'
  BY <1>1, <1>6, AddsDurable
<1>25. ActedInv'
  <2>1. /\ {} \in SUBSET Requests /\ {} \cap Reqs(log, "resolved", End) = {}
        /\ \A q \in Requests \ {} : gate'[q] = gate[q]
        /\ \A q \in {} : gate'[q] = "allow" => AllowedIn(log', End', q)
        /\ e.type # "resolved"
    BY <1>1, <1>4
  <2> QED BY ONLY Sound, <1>1, <1>3, <1>6, <1>15, <1>18, <2>1, ActedGrows
<1>26. UsageInv'
  <2>1. e.type # "usage"
    BY <1>4
  <2> QED BY ONLY Sound, <1>1, <1>3, <1>6, <2>1, UsageStays
<1> QED BY <1>16, <1>18, <1>19, <1>20, <1>21, <1>22, <1>23, <1>24, <1>25, <1>26 DEF SoundLog

(* The session closes with no turn and no request open, unless an fsync has *)
(* failed.                                                                  *)
LEMMA EngineClosedKeeps ==
  ASSUME Sound, NEW ok \in BOOLEAN, EngineClosed(ok)
  PROVE  SoundLog'
<1>1. problems \in BOOLEAN
  BY DEF Sound, IInv, StateTypes, LifeTypes
<1>2. PICK e \in Event : e = Closed(problems \/ ~ok)
  <2>1. (problems \/ ~ok) \in BOOLEAN
    BY <1>1
  <2> QED BY <2>1, ClosedIsEvent
<1>3. e.type = "session.closed"
  BY <1>2 DEF Closed
<1>4. /\ Running /\ LogInv /\ phase = "closing" /\ phase' = "closed"
      /\ EmitAndFlush(<<e>>) /\ log' = log \o <<e>>
      /\ UNCHANGED <<told, synced, active, turns, blocked, usage, complete, ask, attempts,
                     spent, acted, faults, gate, records>>
  BY <1>2 DEF EngineClosed, EmitAndFlush, AtRest, Running, Sound, IInv,
              clientVars, turnVars, gateVars, usageVars, boundVars
<1>5. Adds(<<e>>, {})
  <2>1. <<e>> \in Seq(Event)
    OBVIOUS
  <2> QED BY <1>4, <2>1, EmitAdds
<1>6. /\ Extends /\ End \in Nat /\ End' = End + 1 /\ log'[End + 1] = e
      /\ End + 1 .. End' = {End + 1}
  BY <1>4, OneEvent
<1>7. End \in 0 .. End /\ (End + 1) - 1 = End
  BY <1>6
<1>8. /\ \A type : Turns(log', type, End') =
            Turns(log, type, End) \cup (IF e.type = type THEN {e.turn} ELSE {})
      /\ \A type : Reqs(log', type, End') =
            Reqs(log, type, End) \cup (IF e.type = type THEN {e.req} ELSE {})
      /\ Count(log', End') =
            IF e.type = "turn.started" THEN Count(log, End) + 1 ELSE Count(log, End)
      /\ Dead(log', End') <=>
            Dead(log, End) \/ (e.type = "turn.ended" /\ e.reason = "process_exit")
  BY <1>4, OneEventSays
<1>9. /\ Turns(log', "turn.started", End') = Turns(log, "turn.started", End)
      /\ Turns(log', "turn.ended", End') = Turns(log, "turn.ended", End)
      /\ Turns(log', "usage", End') = Turns(log, "usage", End)
      /\ Reqs(log', "request", End') = Reqs(log, "request", End)
      /\ Reqs(log', "resolved", End') = Reqs(log, "resolved", End)
      /\ Count(log', End') = Count(log, End)
      /\ Dead(log', End') <=> Dead(log, End)
  BY ONLY <1>3, <1>8
<1>10. AllResolved(log', End) /\ (faults = 0 => AllEnded(log', End))
  <2>1. AllResolved(log, End)
    <3>1. Pending = {}
      BY <1>4 DEF Pending, Sound, SoundLog, RequestInv
    <3> QED BY <1>4, <3>1, OnlyPendingOpen DEF AllResolved
  <2>2. faults = 0 => AllEnded(log, End)
    <3>1. faults = 0 => active = NoTurn
      BY <1>4 DEF Sound, SoundLog, AskInv
    <3> QED BY <1>4, <3>1 DEF Sound, SoundLog, TurnInv
  <2> QED BY <1>6, <1>7, <2>1, <2>2, ExtendsKeeps
<1>11. EventOK(log', End + 1)
  BY <1>3, <1>6, <1>7, <1>10
     DEF EventOK, StartedOK, RequestOK, ResolvedOK, UsageOK, EndedOK, ClosedOK, SealOK
<1>12. faults = 0 => CloseOK(log', End + 1)
  BY <1>3, <1>6, <1>7, <1>10 DEF CloseOK
<1>13. WellFormed(log')
  BY <1>6, <1>11, WellFormedExtends DEF Sound, SoundLog
<1>14. DownInv' /\ Running'
  BY <1>4 DEF DownInv, Running
<1>15. TurnInv'
  BY <1>4, <1>9 DEF Sound, SoundLog, TurnInv, AllEnded
<1>16. AskInv'
  BY <1>4 DEF Sound, SoundLog, AskInv
<1>17. RequestInv'
  <2>1. active \in {NoTurn, active'}
    BY <1>4
  <2> QED BY ONLY Sound, <1>4, <1>6, <1>9, <2>1, SameRequests
<1>18. ReplyInv'
  BY <1>4, <1>5, AddsReply DEF Sound, SoundLog
<1>19. BlockInv'
  BY <1>4, <1>9 DEF Sound, SoundLog, BlockInv
<1>20. DurableInv'
  BY <1>4, <1>5, AddsDurable
<1>21. ActedInv'
  <2>1. /\ {} \in SUBSET Requests /\ {} \cap Reqs(log, "resolved", End) = {}
        /\ \A q \in Requests \ {} : gate'[q] = gate[q]
        /\ \A q \in {} : gate'[q] = "allow" => AllowedIn(log', End', q)
        /\ e.type # "resolved"
    BY <1>3, <1>4
  <2> QED BY ONLY Sound, <1>4, <1>12, <1>14, <2>1, e \in Event, ActedGrows
<1>22. UsageInv'
  <2>1. e.type # "usage"
    BY <1>3
  <2> QED BY ONLY Sound, <1>4, <2>1, e \in Event, UsageStays
<1> QED BY <1>13, <1>14, <1>15, <1>16, <1>17, <1>18, <1>19, <1>20, <1>21, <1>22 DEF SoundLog

(* The last two events of a turn, after the revocation of what it asked.    *)
Closes(m, u, e) ==
  /\ m \in Nat /\ End' = m + 2 /\ log'[m + 1] = u /\ log'[m + 2] = e
  /\ u.type = "usage" /\ u.turn = active
  /\ e.type = "turn.ended" /\ e.turn = active /\ e.reason # "process_exit"

(* They fit the log, and end the turn.                                      *)
LEMMA ClosesFits ==
  ASSUME Sound, ask = "running", active # NoTurn, Running,
         NEW n, NEW m, Revoked(Pending, n, m), NEW u, NEW e, Closes(m, u, e)
  PROVE  /\ WellFormed(log') /\ \A k \in m + 1 .. End' : CloseOK(log', k)
         /\ Turns(log', "turn.started", End') = Turns(log, "turn.started", End)
         /\ Turns(log', "turn.ended", End') = Turns(log, "turn.ended", End) \cup {active}
         /\ Count(log', End') = Count(log, End)
         /\ Dead(log', End') <=> Dead(log, End)
         /\ Standing(log', End') => Standing(log, End) \/ e.how = "stop_unconfirmed"
         /\ Partial(log', End') <=> Partial(log, End) \/ ~u.complete
         /\ TotalIs(log', End', u.cumulative)
         /\ Partial(log', m + 1) <=> Partial(log, End) \/ ~u.complete
         /\ TotalIs(log', m + 1, u.cumulative)
<1>1. /\ m \in Nat /\ End' = m + 2 /\ log'[m + 1] = u /\ log'[m + 2] = e
      /\ u.type = "usage" /\ u.turn = active
      /\ e.type = "turn.ended" /\ e.turn = active /\ e.reason # "process_exit"
  BY DEF Closes
<1>2. Extends /\ End \in Nat /\ End <= m
  BY DEF Revoked, Extends
<1>3. /\ \A k \in End + 1 .. m : EventOK(log', k)
      /\ Quiet(log', End, m)
      /\ Reqs(log', "request", m) = Reqs(log, "request", End)
      /\ Reqs(log', "resolved", m) = Reqs(log, "resolved", End) \cup Pending
  BY RevokedFits
<1>4. /\ \A type \in Loud : Turns(log', type, m) = Turns(log, type, End)
      /\ Count(log', m) = Count(log, End)
      /\ Dead(log', m) <=> Dead(log, End)
      /\ Partial(log', m) <=> Partial(log, End)
      /\ Standing(log', m) <=> Standing(log, End)
  BY <1>1, <1>2, <1>3, QuietFacts
<1>5. /\ Turns(log', "turn.started", m) = Turns(log, "turn.started", End)
      /\ Turns(log', "turn.ended", m) = Turns(log, "turn.ended", End)
      /\ Turns(log', "usage", m) = Turns(log, "usage", End)
  BY <1>4 DEF Loud
<1>6. /\ \A type : Turns(log', type, m + 1) = Turns(log', type, m)
                     \cup (IF log'[m + 1].type = type THEN {log'[m + 1].turn} ELSE {})
      /\ \A type : Reqs(log', type, m + 1) = Reqs(log', type, m)
                     \cup (IF log'[m + 1].type = type THEN {log'[m + 1].req} ELSE {})
      /\ Count(log', m + 1) =
           IF log'[m + 1].type = "turn.started" THEN Count(log', m) + 1 ELSE Count(log', m)
      /\ Dead(log', m + 1) <=>
           Dead(log', m)
           \/ (log'[m + 1].type = "turn.ended" /\ log'[m + 1].reason = "process_exit")
      /\ Partial(log', m + 1) <=>
           Partial(log', m) \/ (log'[m + 1].type = "usage" /\ ~log'[m + 1].complete)
      /\ log'[m + 1].type = "usage" => TotalIs(log', m + 1, log'[m + 1].cumulative)
  BY ONLY <1>1, OneMore
<1>7. /\ Turns(log', "turn.started", m + 1) = Turns(log, "turn.started", End)
      /\ Turns(log', "turn.ended", m + 1) = Turns(log, "turn.ended", End)
      /\ Turns(log', "usage", m + 1) = Turns(log, "usage", End) \cup {active}
      /\ Reqs(log', "request", m + 1) = Reqs(log, "request", End)
      /\ Reqs(log', "resolved", m + 1) = Reqs(log, "resolved", End) \cup Pending
      /\ Count(log', m + 1) = Count(log, End)
      /\ Dead(log', m + 1) <=> Dead(log, End)
      /\ Partial(log', m + 1) <=> Partial(log, End) \/ ~u.complete
      /\ TotalIs(log', m + 1, u.cumulative)
  <2>1. /\ Turns(log', "turn.started", m + 1) = Turns(log', "turn.started", m)
        /\ Turns(log', "turn.ended", m + 1) = Turns(log', "turn.ended", m)
        /\ Turns(log', "usage", m + 1) = Turns(log', "usage", m) \cup {active}
    BY ONLY <1>1, <1>6
  <2>2. /\ Reqs(log', "request", m + 1) = Reqs(log', "request", m)
        /\ Reqs(log', "resolved", m + 1) = Reqs(log', "resolved", m)
    BY ONLY <1>1, <1>6
  <2>3. /\ Count(log', m + 1) = Count(log, End)
        /\ Dead(log', m + 1) <=> Dead(log, End)
        /\ Partial(log', m + 1) <=> Partial(log, End) \/ ~u.complete
        /\ TotalIs(log', m + 1, u.cumulative)
    BY ONLY <1>1, <1>4, <1>6
  <2> QED BY ONLY <1>3, <1>5, <2>1, <2>2, <2>3
<1>8. m + 1 \in Nat /\ (m + 1) + 1 = m + 2 /\ (m + 1) - 1 = m /\ (m + 2) - 1 = m + 1
  BY <1>1
<1>9. /\ \A type : Turns(log', type, (m + 1) + 1) = Turns(log', type, m + 1)
            \cup (IF log'[(m + 1) + 1].type = type THEN {log'[(m + 1) + 1].turn} ELSE {})
      /\ Count(log', (m + 1) + 1) =
           IF log'[(m + 1) + 1].type = "turn.started" THEN Count(log', m + 1) + 1
           ELSE Count(log', m + 1)
      /\ Dead(log', (m + 1) + 1) <=>
           Dead(log', m + 1)
           \/ (log'[(m + 1) + 1].type = "turn.ended" /\ log'[(m + 1) + 1].reason = "process_exit")
      /\ Partial(log', (m + 1) + 1) <=>
           Partial(log', m + 1) \/ (log'[(m + 1) + 1].type = "usage" /\ ~log'[(m + 1) + 1].complete)
      /\ log'[(m + 1) + 1].type # "usage" =>
           \A x : TotalIs(log', (m + 1) + 1, x) <=> TotalIs(log', m + 1, x)
  BY ONLY <1>8, OneMore
<1>10. /\ Turns(log', "turn.started", End') = Turns(log, "turn.started", End)
       /\ Turns(log', "turn.ended", End') = Turns(log, "turn.ended", End) \cup {active}
       /\ Count(log', End') = Count(log, End)
       /\ Dead(log', End') <=> Dead(log, End)
       /\ Partial(log', End') <=> Partial(log, End) \/ ~u.complete
       /\ TotalIs(log', End', u.cumulative)
  BY ONLY <1>1, <1>7, <1>8, <1>9
<1>11. Standing(log', End') => Standing(log, End) \/ e.how = "stop_unconfirmed"
  <2>1. Standing(log', m + 1) <=> Standing(log', m)
    BY ONLY <1>1, StandingStep
  <2>2. Standing(log', (m + 1) + 1) =>
          Standing(log', m + 1) \/ log'[(m + 1) + 1].how = "stop_unconfirmed"
    BY ONLY <1>8, StandingStep
  <2> QED BY ONLY <1>1, <1>4, <1>8, <2>1, <2>2
<1>12. /\ active \in Turns(log, "turn.started", End)
       /\ active \notin Turns(log, "usage", End) \cup Turns(log, "turn.ended", End)
  BY DEF Sound, SoundLog, TurnInv
<1>13. EventOK(log', m + 1) /\ CloseOK(log', m + 1)
  BY <1>1, <1>5, <1>8, <1>12
     DEF EventOK, StartedOK, RequestOK, ResolvedOK, UsageOK, EndedOK, ClosedOK, SealOK, CloseOK
<1>14. EventOK(log', m + 2) /\ CloseOK(log', m + 2)
  <2>1. AllResolved(log', m + 1)
    BY <1>7, OnlyPendingOpen DEF AllResolved
  <2> QED BY <1>1, <1>7, <1>8, <1>12, <2>1
     DEF EventOK, StartedOK, RequestOK, ResolvedOK, UsageOK, EndedOK, ClosedOK, SealOK, CloseOK
<1>15. \A k \in m + 1 .. End' : k = m + 1 \/ k = m + 2
  BY <1>1
<1>16. \A k \in End + 1 .. End' : EventOK(log', k)
  <2>1. \A k \in End + 1 .. End' : k \in End + 1 .. m \/ k = m + 1 \/ k = m + 2
    BY <1>1, <1>2
  <2> QED BY <1>3, <1>13, <1>14, <2>1
<1>17. WellFormed(log')
  BY <1>2, <1>16, WellFormedExtends DEF Sound, SoundLog
<1> QED BY <1>7, <1>10, <1>11, <1>13, <1>14, <1>15, <1>17

(* What the usage event of the turn has to say.                             *)
Measured(u) ==
  /\ u.cumulative \in Nat /\ u.complete \in BOOLEAN
  /\ u.cumulative <= usage + attempts
  /\ u.complete => complete /\ u.cumulative = usage + attempts
  /\ usage' = u.cumulative /\ complete' = u.complete

(* The total stays a bound, and exact if the turn says so.                  *)
LEMMA ClosesUsage ==
  ASSUME Sound, ask = "running", active # NoTurn, Running,
         NEW n, NEW m, Revoked(Pending, n, m), NEW u, NEW e, Closes(m, u, e), Measured(u),
         active' = NoTurn, UNCHANGED <<spent, synced>>, ask' = "abandoned" => ~u.complete,
         ask' # "running"
  PROVE  UsageInv'
<1>1. /\ m \in Nat /\ End' = m + 2 /\ log'[m + 1] = u /\ log'[m + 2] = e
      /\ u.type = "usage" /\ e.type = "turn.ended"
  BY DEF Closes
<1>2. Extends /\ End \in Nat /\ End <= m
  BY DEF Revoked, Extends
<1>3. /\ Partial(log', End') <=> Partial(log, End) \/ ~u.complete
      /\ TotalIs(log', End', u.cumulative)
      /\ Partial(log', m + 1) <=> Partial(log, End) \/ ~u.complete
      /\ TotalIs(log', m + 1, u.cumulative)
  BY ClosesFits
<1>4. /\ UsageInv /\ spent \in Nat /\ attempts \in Nat /\ usage \in Nat /\ synced \in 0 .. End
  BY DEF Sound, SoundLog, IInv, StateTypes, OutsideTypes, TurnTypes, UsageTypes, LogInv,
         LogTypes, End
<1>5. /\ usage + attempts <= spent
      /\ complete => usage + attempts = spent
      /\ complete <=> ~Partial(log, End)
  BY <1>4 DEF UsageInv
<1>6. /\ u.cumulative \in Nat /\ u.complete \in BOOLEAN /\ u.cumulative <= spent
      /\ u.complete => u.cumulative = spent /\ ~Partial(log, End)
      /\ usage' = u.cumulative /\ complete' = u.complete
  BY <1>4, <1>5 DEF Measured
<1>7. Quiet(log', End, m)
  BY RevokedFits
<1>8. \A k \in synced .. End : Loose(k)
  BY <1>4 DEF UsageInv
<1>9. \A k \in synced .. m : Loose(k)'
  <2> TAKE k \in synced .. m
  <2>1. CASE k \in 0 .. End
    <3>1. k \in synced .. End
      BY <1>4, <2>1
    <3> QED BY <1>2, <1>8, <2>1, <3>1, ExtendsKeeps DEF Loose
  <2>2. CASE k \in End .. m
    <3>1. k \in Nat /\ End <= k /\ Quiet(log', End, k)
      <4>1. k \in Nat /\ End <= k /\ \A i \in End + 1 .. k : i \in End + 1 .. m
        BY ONLY <1>1, <1>2, <2>2
      <4> QED BY <1>7, <4>1 DEF Quiet
    <3>2. /\ Partial(log', k) <=> Partial(log, End)
          /\ Unmeasured(log', k) <=> Unmeasured(log, End)
      BY <1>2, <3>1, QuietFacts
    <3>3. Loose(End)
      BY <1>2, <1>4, <1>8
    <3> QED BY <3>2, <3>3 DEF Loose
  <2>3. k \in 0 .. End \/ k \in End .. m
    BY <1>1, <1>2, <1>4
  <2> QED BY <2>1, <2>2, <2>3
<1>10. \A k \in synced' .. End' : k \in synced .. m \/ k = m + 1 \/ k = End'
  BY <1>1, <1>2, <1>4
<1>11. \A k \in synced' .. End' : Loose(k)' \/ (u.complete /\ TotalIs(log', k, spent))
  <2> TAKE k \in synced' .. End'
  <2>1. CASE k \in synced .. m
    BY <1>9, <2>1
  <2>2. CASE k = m + 1
    BY <1>3, <1>6, <2>2 DEF Loose
  <2>3. CASE k = End'
    BY <1>3, <1>6, <2>3 DEF Loose
  <2> QED BY <1>10, <2>1, <2>2, <2>3
<1>12. \A i \in 1 .. End' : log'[i].type = "usage" => log'[i].cumulative <= spent'
  <2> SUFFICES ASSUME NEW i \in 1 .. End', log'[i].type = "usage"
               PROVE  log'[i].cumulative <= spent
    OBVIOUS
  <2>1. CASE i \in 1 .. End
    BY <1>2, <1>4, <2>1 DEF Extends, UsageInv
  <2>2. CASE i \in End + 1 .. m
    BY <1>7, <2>2 DEF Quiet, Loud
  <2>3. CASE i = m + 1
    BY <1>1, <1>6, <2>3
  <2>4. CASE i = m + 2
    BY <1>1, <2>4
  <2>5. i \in 1 .. End \/ i \in End + 1 .. m \/ i = m + 1 \/ i = m + 2
    BY ONLY <1>1, <1>2, i \in 1 .. End'
  <2> QED BY <2>1, <2>2, <2>3, <2>4, <2>5
<1>13. TotalIs(log', End', usage') /\ (complete' <=> ~Partial(log', End'))
  BY <1>3, <1>6
<1>14. /\ usage' + (IF active' = NoTurn THEN 0 ELSE attempts') <= spent'
       /\ complete' => usage' + (IF active' = NoTurn THEN 0 ELSE attempts') = spent'
  BY <1>4, <1>6
<1> QED BY <1>11, <1>12, <1>13, <1>14 DEF UsageInv

(* A turn that is closed with a measured usage keeps the invariant.         *)
LEMMA ClosesTurn ==
  ASSUME Sound, ask = "running", active # NoTurn, Running,
         NEW n, NEW m, Revoked(Pending, n, m), NEW u, NEW e, Closes(m, u, e), Measured(u),
         NEW es, Adds(es, {}),
         active' = NoTurn, ask' = "none" \/ (ask' = "abandoned" /\ ~u.complete),
         e.how = "stop_unconfirmed" => blocked' # "no" \/ phase # "up",
         blocked' # blocked => blocked' = "live",
         UNCHANGED <<told, synced, turns, phase, spent, acted, faults>>
  PROVE  SoundLog'
<1>1. /\ WellFormed(log') /\ \A k \in m + 1 .. End' : CloseOK(log', k)
      /\ Turns(log', "turn.started", End') = Turns(log, "turn.started", End)
      /\ Turns(log', "turn.ended", End') = Turns(log, "turn.ended", End) \cup {active}
      /\ Count(log', End') = Count(log, End)
      /\ Dead(log', End') <=> Dead(log, End)
      /\ Standing(log', End') => Standing(log, End) \/ e.how = "stop_unconfirmed"
  BY ClosesFits
<1>2. Running' /\ DownInv'
  BY DEF Running, DownInv
<1>3. /\ turns = Count(log, End) /\ blocked = "no"
      /\ Turns(log, "turn.started", End) \subseteq Turns(log, "turn.ended", End) \cup {active}
  BY DEF Sound, SoundLog, TurnInv
<1>4. TurnInv'
  BY <1>1, <1>3 DEF TurnInv, AllEnded
<1>5. AskInv'
  BY DEF Sound, SoundLog, AskInv, Measured
<1>6. RequestInv'
  BY RevokedRequests DEF Sound, SoundLog, AskInv
<1>7. ReplyInv'
  BY AddsReply DEF Sound, SoundLog, IInv
<1>8. BlockInv'
  <2>1. ~Dead(log, End) /\ (phase = "up" => ~Standing(log, End))
    BY <1>3 DEF Sound, SoundLog, BlockInv
  <2> QED BY <1>1, <1>3, <2>1 DEF BlockInv
<1>9. DurableInv'
  BY AddsDurable
<1>10. ActedInv'
  BY <1>1, <1>2, RevokedActs
<1>11. UsageInv'
  BY ClosesUsage
<1> QED BY <1>1, <1>2, <1>4, <1>5, <1>6, <1>7, <1>8, <1>9, <1>10, <1>11 DEF SoundLog

(* A turn ends: the revocations, its usage and its terminal event.          *)
LEMMA LastWords ==
  ASSUME Sound, Running, Revoke(Pending), NEW order \in ApprovalsFirst(StillOpen(Pending)),
         NEW u \in Event, NEW e \in Event,
         EmitAndFlush(Revocations(order) \o <<u, e>>),
         u.type = "usage", u.turn = active,
         e.type = "turn.ended", e.turn = active, e.reason # "process_exit"
  PROVE  \E es, n, m : Adds(es, {}) /\ Revoked(Pending, n, m) /\ Closes(m, u, e)
<1>1. order \in Orders(StillOpen(Pending))
  BY DEF ApprovalsFirst
<1>2. Revocations(order) \in Seq(Event)
  BY <1>1, PendingAreRequests, RevocationsAreEvents DEF Sound, IInv
<1>3. PICK tail \in Seq(Event) : tail = <<u, e>>
  BY FewEvents
<1>4. Revocations(order) \o tail \in Seq(Event) /\ EmitAndFlush(Revocations(order) \o tail)
  BY <1>2, <1>3, ConcatProperties
<1>5. Adds(Revocations(order) \o tail, {})
  BY <1>4, EmitAdds DEF Sound, IInv
<1>6. PICK head \in Seq(Event) : head = <<>>
  BY EmptySeq
<1>7. Logs((head \o Revocations(order)) \o tail)
  <2>1. head \o Revocations(order) = Revocations(order)
    BY <1>2, <1>6, ConcatEmptySeq
  <2> QED BY <1>4, <2>1 DEF Logs, EmitAndFlush
<1>8. Len(tail) = 2 /\ tail[1] = u /\ tail[2] = e /\ Len(head) = 0
  BY <1>3, <1>6, EmptySeq
<1>9. CalmAbout(head) /\ NoGate(tail)
  <2>1. \A i \in 1 .. Len(tail) : i = 1 \/ i = 2
    BY <1>8
  <2> QED BY <1>8, <2>1 DEF CalmAbout, NoGate
<1>10. PICK n \in Nat, m \in Nat :
         Revoked(Pending, n, m) /\ End' = m + Len(tail) /\ Placed(log', m, tail)
  BY ONLY Sound, Running, Revoke(Pending), <1>1, <1>7, <1>9, head \in Seq(Event),
          tail \in Seq(Event), ListsRevoked
<1>11. log'[m + 1] = u /\ log'[m + 2] = e
  <2>1. 1 \in 1 .. Len(tail) /\ 2 \in 1 .. Len(tail)
    BY <1>8
  <2> QED BY <1>8, <1>10, <2>1 DEF Placed
<1>12. Closes(m, u, e)
  BY <1>8, <1>10, <1>11 DEF Closes
<1> QED BY <1>5, <1>10, <1>12

(* The engine returns: what it reports is at most what it spent.            *)
LEMMA EngineReturnKeeps ==
  ASSUME Sound, NEW status \in Statuses, NEW confirmed \in BOOLEAN,
         EngineReturn(status, confirmed)
  PROVE  SoundLog'
<1>1. /\ Running /\ ask = "running" /\ active' = NoTurn /\ ask' = "none" /\ Revoke(Pending)
      /\ UNCHANGED <<told, synced, turns, phase, spent, acted, faults>>
      /\ blocked' = IF cancel # "none" /\ ~confirmed THEN "live" ELSE blocked
  BY DEF EngineReturn, AtRest, Running, clientVars, boundVars
<1>2. /\ active \in Nat /\ attempts \in Nat /\ usage \in Nat /\ complete \in BOOLEAN
      /\ cancel \in CancelReasons \cup {"none"} /\ StateTypes
  BY DEF Sound, IInv, StateTypes, TurnTypes, UsageTypes
<1>3. active # NoTurn
  BY <1>1 DEF Sound, SoundLog, AskInv
<1>4. PICK order \in ApprovalsFirst(StillOpen(Pending)), x \in TurnUsage(status) :
        /\ usage' = Total(x.used) /\ complete' = (complete /\ x.complete)
        /\ EmitAndFlush(Revocations(order) \o
             <<Usage(active, x.used, Total(x.used), complete /\ x.complete),
               Terminal(status, confirmed)>>)
  BY DEF EngineReturn
<1>5. x.used \in Nat \cup {Null} /\ x.complete \in BOOLEAN /\ Total(x.used) \in Nat
  BY <1>2, TurnUsageTypes
<1>6. Total(x.used) <= usage + attempts /\ (x.complete => Total(x.used) = usage + attempts)
  <2>1. CASE Kind = "harness"
    <3>1. \/ x = [used |-> attempts, complete |-> TRUE]
          \/ \E k \in 0 .. attempts : x = [used |-> k, complete |-> FALSE]
      BY <2>1 DEF TurnUsage
    <3> QED BY <1>2, <3>1 DEF Total, Null
  <2>2. CASE Kind # "harness"
    <3>1. \/ x = [used |-> Null, complete |-> FALSE]
          \/ x = [used |-> attempts, complete |-> TRUE]
          \/ \E k \in 0 .. attempts : x = [used |-> k, complete |-> FALSE]
      BY <2>2 DEF TurnUsage
    <3> QED BY <1>2, <3>1 DEF Total, Null
  <2> QED BY <2>1, <2>2
<1>7. PICK u \in Event : u = Usage(active, x.used, Total(x.used), complete /\ x.complete)
  <2>1. (complete /\ x.complete) \in BOOLEAN
    BY <1>2, <1>5
  <2> QED BY <1>2, <1>5, <2>1, EventKinds
<1>8. /\ u.type = "usage" /\ u.turn = active /\ u.cumulative = Total(x.used)
      /\ u.complete = (complete /\ x.complete)
  BY <1>7 DEF Usage
<1>9. PICK e \in Event : e = Terminal(status, confirmed)
  <2>1. /\ status \in Statuses \cup {"stopped", "stop_unconfirmed"}
        /\ {"stopped", "stop_unconfirmed"} \subseteq Statuses \cup {"stopped", "stop_unconfirmed"}
        /\ "none" \in StopReasons \cup {"none"} /\ cancel \in StopReasons \cup {"none"}
    BY <1>2 DEF StopReasons
  <2> QED BY <1>2, <2>1, EventKinds DEF Terminal
<1>10. /\ e.type = "turn.ended" /\ e.turn = active /\ e.reason # "process_exit"
       /\ e.how = "stop_unconfirmed" => cancel # "none" /\ ~confirmed
  BY <1>2, <1>9 DEF Terminal, Ended, CancelReasons, Statuses
<1>11. PICK es, n, m : Adds(es, {}) /\ Revoked(Pending, n, m) /\ Closes(m, u, e)
  BY <1>1, <1>4, <1>7, <1>8, <1>9, <1>10, LastWords
<1>12. Measured(u)
  BY <1>2, <1>4, <1>5, <1>6, <1>8 DEF Measured
<1>13. /\ e.how = "stop_unconfirmed" => blocked' # "no" \/ phase # "up"
       /\ blocked' # blocked => blocked' = "live"
  BY <1>1, <1>10
<1> QED BY ONLY Sound, <1>1, <1>3, <1>11, <1>12, <1>13, ClosesTurn

(* Shutdown closes the turn without its engine: its usage is a lower bound. *)
LEMMA ShutdownTimeoutKeeps ==
  ASSUME Sound, ShutdownTimeout
  PROVE  SoundLog'
<1>1. /\ Running /\ ask = "running" /\ active' = NoTurn /\ ask' = "abandoned" /\ Revoke(Pending)
      /\ complete' = FALSE /\ phase = "stopping"
      /\ UNCHANGED <<told, synced, turns, phase, spent, acted, faults, usage, blocked>>
  BY DEF ShutdownTimeout, Overdue, AtRest, Running, clientVars, boundVars, outsideVars
<1>2. /\ active \in Nat /\ attempts \in Nat /\ usage \in Nat
  BY DEF Sound, IInv, StateTypes, TurnTypes, UsageTypes
<1>3. active # NoTurn
  BY <1>1 DEF Sound, SoundLog, AskInv
<1>4. PICK order \in ApprovalsFirst(StillOpen(Pending)) :
        EmitAndFlush(Revocations(order) \o
          <<Usage(active, Null, usage, FALSE),
            Ended(active, "stop_unconfirmed", "shutdown_timeout")>>)
  BY DEF ShutdownTimeout
<1>5. PICK u \in Event : u = Usage(active, Null, usage, FALSE)
  BY <1>2, EventKinds
<1>6. u.type = "usage" /\ u.turn = active /\ u.cumulative = usage /\ u.complete = FALSE
  BY <1>5 DEF Usage
<1>7. PICK e \in Event : e = Ended(active, "stop_unconfirmed", "shutdown_timeout")
  BY <1>2, EventKinds DEF StopReasons
<1>8. e.type = "turn.ended" /\ e.turn = active /\ e.reason # "process_exit"
  BY <1>7 DEF Ended
<1>9. PICK es, n, m : Adds(es, {}) /\ Revoked(Pending, n, m) /\ Closes(m, u, e)
  BY <1>1, <1>4, <1>5, <1>6, <1>7, <1>8, LastWords
<1>10. Measured(u)
  <2>1. u.cumulative \in Nat /\ u.cumulative <= usage + attempts /\ usage' = u.cumulative
    BY <1>1, <1>2, <1>6
  <2>2. u.complete \in BOOLEAN /\ ~u.complete /\ complete' = u.complete
    BY <1>1, <1>6
  <2> QED BY ONLY <2>1, <2>2 DEF Measured
<1>11. /\ e.how = "stop_unconfirmed" => blocked' # "no" \/ phase # "up"
       /\ blocked' # blocked => blocked' = "live"
       /\ ask' = "abandoned" /\ ~u.complete
  BY <1>1, <1>6
<1> QED BY ONLY Sound, <1>1, <1>3, <1>9, <1>10, <1>11, ClosesTurn

-----------------------------------------------------------------------------
(* The group commit                                                        *)

(* A flush makes the whole log durable, then tells the client and the       *)
(* engine.                                                                  *)
LEMMA FlushKeepsSound ==
  ASSUME Sound, Flush
  PROVE  SoundLog'
<1>1. /\ log' = log /\ End' = End /\ outbound' = <<>>
      /\ UNCHANGED <<active, turns, blocked, usage, complete, attempts, spent, phase, faults,
                     gate, records>>
      /\ ask' = (IF ask = "due" THEN "running" ELSE ask)
      /\ told' = told \cup UNION {outbound[i].told : i \in DOMAIN outbound}
      /\ acted' = acted \cup {r \in Requests : gate[r] = "allow"}
      /\ synced' = Flushed
  BY DEF Flush, End, gateVars, usageVars, lifeVars, boundVars
<1>2. Running
  BY DEF Flush, Running, Sound, SoundLog, DownInv
<1>3. /\ synced \in 0 .. End /\ assumed = synced /\ log \in Seq(Event) /\ End \in Nat
      /\ synced \in Nat /\ synced <= End
  <2>1. synced \in 0 .. End /\ assumed = synced /\ log \in Seq(Event) /\ End \in Nat
    BY <1>2, NothingOpenHasEnded DEF Sound, IInv, LogInv, LogTypes, End
  <2>2. synced \in Nat /\ synced <= End
    BY <2>1
  <2> QED BY <2>1, <2>2
<1>4. synced' = End
  BY <1>1, <1>2, <1>3 DEF Flushed, End, Sound, SoundLog, DurableInv
<1>5. WellFormed(log')
  BY <1>1 DEF Sound, SoundLog
<1>6. DownInv' /\ Running'
  BY <1>1, <1>2 DEF DownInv, Running
<1>7. TurnInv'
  BY <1>1, <1>6 DEF Sound, SoundLog, TurnInv, Running
<1>8. AskInv'
  BY <1>1 DEF Sound, SoundLog, AskInv
<1>9. RequestInv'
  <2>1. RequestInv
    BY DEF Sound, SoundLog
  <2> QED BY <1>1, <1>2, <1>6, <2>1 DEF RequestInv
<1>10. ReplyInv'
  <2>1. \A m \in told : Backed(log, End, m)
    <3>1. \A m : Backed(log, synced, m) => Backed(log, End, m)
      BY ONLY <1>3, Monotone
    <3> QED BY <3>1 DEF Sound, SoundLog, ReplyInv
  <2>2. \A m \in told' : m \in told \/ \E k \in DOMAIN outbound : m \in outbound[k].told
    BY <1>1
  <2>3. \A m \in told' : Backed(log, End, m)
    BY <2>1, <2>2 DEF Sound, SoundLog, ReplyInv
  <2>4. DOMAIN outbound' = {}
    BY <1>1
  <2> QED BY <1>1, <1>4, <2>3, <2>4 DEF ReplyInv
<1>11. BlockInv'
  BY <1>1, <1>2 DEF Sound, SoundLog, BlockInv, Running
<1>12. DurableInv'
  <2>1. ask' = "running" => active \in Turns(log, "turn.started", End)
    BY <1>1, <1>2 DEF Sound, SoundLog, AskInv, TurnInv
  <2> QED BY <1>1, <1>4, <2>1 DEF DurableInv
<1>13. ActedInv'
  <2> SUFFICES ASSUME faults = 0
               PROVE  /\ \A k \in 1 .. End' : CloseOK(log', k)
                      /\ \A r \in acted' : AllowedIn(log', synced', r)
                      /\ \A r \in Requests : gate'[r] = "allow" => r \in acted'
                      /\ \A i \in 1 .. End' : log'[i].type = "resolved" =>
                           gate'[log'[i].req] \in
                             IF log'[i].source = "client" /\ Allows(log'[i].decision)
                             THEN {"allow", "gone"} ELSE {"deny", "gone"}
    BY <1>1 DEF ActedInv
  <2>1. ActedInv /\ acted \subseteq Requests
    BY DEF Sound, SoundLog, IInv, StateTypes, OutsideTypes
  <2>2. \A r \in acted : AllowedIn(log, End, r)
    <3>1. \A r : AllowedIn(log, synced, r) => AllowedIn(log, End, r)
      BY ONLY <1>3, Monotone
    <3> QED BY <2>1, <3>1 DEF ActedInv
  <2>3. \A r \in Requests : gate[r] = "allow" => AllowedIn(log, End, r)
    BY <2>1, <2>2 DEF ActedInv
  <2> QED BY <1>1, <1>4, <2>1, <2>2, <2>3 DEF ActedInv
<1>14. UsageInv'
  <2>1. UsageInv /\ End \in synced .. End
    BY <1>3 DEF Sound, SoundLog
  <2>2. ask = "due" => Loose(End)
    <3> SUFFICES ASSUME ask = "due" PROVE Unmeasured(log, End)
      BY DEF Loose
    <3>1. /\ active \in Turns(log, "turn.started", End)
          /\ active \notin Turns(log, "usage", End)
      BY <1>2 DEF Sound, SoundLog, AskInv, TurnInv
    <3> QED BY <3>1 DEF Unmeasured
  <2>3. \A k \in synced' .. End' : k = End
    BY <1>1, <1>3, <1>4
  <2>4. ask' \in {"running", "abandoned"} => Loose(End)
    BY <1>1, <2>1, <2>2 DEF UsageInv
  <2>5. Loose(End)' <=> Loose(End)
    BY <1>1 DEF Loose
  <2>6. Loose(End) \/ TotalIs(log, End, spent)
    BY <2>1 DEF UsageInv
  <2>7. /\ \A k \in synced' .. End' : Loose(k)' \/ TotalIs(log', k, spent')
        /\ ask' \in {"running", "abandoned"} => \A k \in synced' .. End' : Loose(k)'
    BY <1>1, <2>3, <2>4, <2>5, <2>6
  <2>8. /\ \A i \in 1 .. End' : log'[i].type = "usage" => log'[i].cumulative <= spent'
        /\ TotalIs(log', End', usage')
        /\ complete' <=> ~Partial(log', End')
        /\ usage' + (IF active' = NoTurn THEN 0 ELSE attempts') <= spent'
        /\ complete' => usage' + (IF active' = NoTurn THEN 0 ELSE attempts') = spent'
    BY <1>1, <1>2, <2>1 DEF UsageInv
  <2> QED BY <2>7, <2>8 DEF UsageInv
<1> QED BY <1>5, <1>6, <1>7, <1>8, <1>9, <1>10, <1>11, <1>12, <1>13, <1>14 DEF SoundLog

(* An fsync that fails leaves a turn that never runs, and the answer of a   *)
(* client that is acted on all the same.                                    *)
LEMMA FlushFailsKeepsSound ==
  ASSUME Sound, FlushFails
  PROVE  SoundLog'
<1>1. /\ log' = log /\ End' = End
      /\ UNCHANGED <<active, turns, blocked, usage, complete, attempts, spent, phase,
                     gate, records, outbound, told, synced>>
      /\ ask' = (IF ask = "due" THEN "lost" ELSE ask)
      /\ faults' = faults + 1
  BY DEF FlushFails, End, gateVars, usageVars, lifeVars, clientVars
<1>2. faults \in Nat /\ Running
  BY DEF FlushFails, Running, Sound, SoundLog, DownInv, IInv, StateTypes, OutsideTypes
<1>3. WellFormed(log')
  BY <1>1 DEF Sound, SoundLog
<1>4. DownInv' /\ Running'
  BY <1>1, <1>2 DEF DownInv, Running
<1>5. TurnInv' /\ BlockInv'
  BY <1>1, <1>4 DEF Sound, SoundLog, TurnInv, BlockInv, Running
<1>6. AskInv'
  BY <1>1, <1>2 DEF Sound, SoundLog, AskInv
<1>7. RequestInv' /\ ReplyInv'
  <2>1. RequestInv /\ ReplyInv
    BY DEF Sound, SoundLog
  <2> QED BY <1>1, <1>2, <1>4, <2>1 DEF RequestInv, ReplyInv
<1>8. DurableInv'
  BY <1>1, <1>2 DEF Sound, SoundLog, DurableInv
<1>9. ActedInv'
  BY <1>1, <1>2 DEF ActedInv
<1>10. UsageInv'
  <2>1. UsageInv
    BY DEF Sound, SoundLog
  <2>2. \A k : Loose(k)' <=> Loose(k)
    BY <1>1 DEF Loose
  <2> QED BY <1>1, <1>2, <2>1, <2>2 DEF UsageInv
<1> QED BY <1>3, <1>4, <1>5, <1>6, <1>7, <1>8, <1>9, <1>10 DEF SoundLog

-----------------------------------------------------------------------------
(* A process ends, and what it had not made durable may be lost            *)

(* A crash cuts the log after what was durable: a prefix of a sound log is  *)
(* sound.                                                                   *)
LEMMA EndKeepsSound ==
  ASSUME Sound, Exit \/ Crash
  PROVE  SoundLog'
<1>1. /\ log \in Seq(Event) /\ End \in Nat /\ synced \in 0 .. End
  BY LenProperties DEF Sound, IInv, LogInv, LogTypes, End
<1>2. PICK kept \in synced .. End :
        End' = kept /\ \A i \in 1 .. kept : log'[i] = log[i]
  <2>1. CASE Exit
    BY <1>1, <2>1 DEF Exit, End
  <2>2. CASE Crash
    <3>1. PICK kept \in synced .. End : log' = SubSeq(log, 1, kept)
      BY <2>2 DEF Crash, End
    <3>2. Len(SubSeq(log, 1, kept)) = kept /\ \A i \in 1 .. kept : SubSeq(log, 1, kept)[i] = log[i]
      BY <1>1, <3>1, SubSeqProperties DEF End
    <3> QED BY <3>1, <3>2 DEF End
  <2> QED BY <2>1, <2>2
<1>3. /\ kept \in Nat /\ synced <= kept /\ kept <= End /\ synced \in Nat
  BY <1>1
<1>4. \A k \in 0 .. kept :
        /\ \A type : Reqs(log', type, k) = Reqs(log, type, k)
        /\ Partial(log', k) = Partial(log, k)
        /\ Unmeasured(log', k) = Unmeasured(log, k)
        /\ \A x : TotalIs(log', k, x) = TotalIs(log, k, x)
        /\ \A r : AllowedIn(log', k, r) = AllowedIn(log, k, r)
        /\ \A m : Backed(log', k, m) = Backed(log, k, m)
  <2> TAKE k \in 0 .. kept
  <2>1. k \in Nat /\ \A i \in 1 .. k : log'[i] = log[i]
    BY <1>2, <1>3
  <2> QED BY ONLY <2>1, SamePrefix
<1>5. /\ phase' = "down" /\ active' = NoTurn /\ ask' = "none" /\ duty' = "none"
      /\ outbound' = <<>>
      /\ \A r \in Requests : gate'[r] =
           IF gate[r] = "pending" \/ (gate[r] = "allow" /\ r \notin acted)
           THEN "gone" ELSE gate[r]
      /\ UNCHANGED <<told, synced, spent, acted, faults>>
  BY DEF Exit, Crash, Forget, clientVars, boundVars
<1>6. ~Running'
  BY <1>5 DEF Running
<1>7. \A k \in 1 .. kept : EventOK(log', k) = EventOK(log, k) /\ CloseOK(log', k) = CloseOK(log, k)
  <2> TAKE k \in 1 .. kept
  <2>1. k \in Nat \ {0} /\ \A i \in 1 .. k : log'[i] = log[i]
    BY <1>2, <1>3
  <2> QED BY ONLY <2>1, SameEvent
<1>8. WellFormed(log')
  <2>1. \A k \in 1 .. kept : k \in 1 .. Len(log) /\ Len(log') = kept
    BY <1>1, <1>2, <1>3 DEF End
  <2> QED BY <1>2, <1>7, <2>1 DEF WellFormed, Sound, SoundLog, End
<1>9. DownInv' /\ TurnInv' /\ BlockInv' /\ AskInv' /\ DurableInv'
  BY <1>5, <1>6 DEF DownInv, TurnInv, BlockInv, AskInv, DurableInv
<1>10. RequestInv'
  <2>1. \A r \in Requests : gate'[r] = "idle" => r \notin Reqs(log', "request", End')
    <3>1. Reqs(log', "request", kept) = Reqs(log, "request", kept)
      BY <1>3, <1>4
    <3>2. Reqs(log, "request", kept) \subseteq Reqs(log, "request", End)
      BY <1>1, <1>3, Monotone
    <3> QED BY <1>2, <1>5, <3>1, <3>2 DEF Sound, SoundLog, RequestInv
  <2> QED BY <1>5, <1>6, <2>1 DEF RequestInv
<1>11. ReplyInv'
  <2>1. synced \in 0 .. kept /\ DOMAIN outbound' = {}
    BY <1>3, <1>5
  <2> QED BY <1>4, <1>5, <2>1 DEF Sound, SoundLog, ReplyInv
<1>12. ActedInv'
  <2> SUFFICES ASSUME faults = 0
               PROVE  /\ \A k \in 1 .. End' : CloseOK(log', k)
                      /\ \A r \in acted : AllowedIn(log', synced, r)
                      /\ \A r \in Requests : gate'[r] = "allow" => r \in acted
                      /\ \A i \in 1 .. End' : log'[i].type = "resolved" =>
                           gate'[log'[i].req] \in
                             IF log'[i].source = "client" /\ Allows(log'[i].decision)
                             THEN {"allow", "gone"} ELSE {"deny", "gone"}
    BY <1>5, <1>6 DEF ActedInv
  <2>1. ActedInv
    BY DEF Sound, SoundLog
  <2>2. \A i \in 1 .. kept : i \in 1 .. End
    BY <1>1, <1>3
  <2>3. \A k \in 1 .. End' : CloseOK(log', k)
    BY <1>2, <1>7, <2>1, <2>2 DEF ActedInv
  <2>4. synced \in 0 .. kept
    BY <1>3
  <2>5. \A r \in acted : AllowedIn(log', synced, r)
    BY <1>4, <2>1, <2>4 DEF ActedInv
  <2>6. ASSUME NEW i \in 1 .. End', log'[i].type = "resolved"
        PROVE  gate'[log'[i].req] \in
                 IF log'[i].source = "client" /\ Allows(log'[i].decision)
                 THEN {"allow", "gone"} ELSE {"deny", "gone"}
    <3>1. i \in 1 .. End /\ log'[i] = log[i]
      BY <1>2, <2>2
    <3>2. gate[log[i].req] \in
            IF log[i].source = "client" /\ Allows(log[i].decision)
            THEN {"allow", "gone"} ELSE {"deny", "gone"}
      BY <2>1, <2>6, <3>1 DEF ActedInv
    <3>3. log[i] \in Event
      BY <1>1, <3>1, ElementOfSeq DEF End
    <3>4. log[i].req \in Requests
      BY <2>6, <3>1, <3>3 DEF Event
    <3> QED BY <1>5, <3>1, <3>2, <3>4
  <2> QED BY <1>5, <2>3, <2>5, <2>6
<1>13. UsageInv'
  <2>1. UsageInv
    BY DEF Sound, SoundLog
  <2>2. \A k \in synced .. kept : k \in synced .. End /\ k \in 0 .. kept
    BY <1>1, <1>3
  <2>3. \A k \in synced .. kept : Loose(k)' \/ TotalIs(log', k, spent)
    BY <1>4, <2>1, <2>2 DEF UsageInv, Loose
  <2>4. \A i \in 1 .. kept : i \in 1 .. End
    BY <1>1, <1>3
  <2>5. \A i \in 1 .. kept : log'[i].type = "usage" => log'[i].cumulative <= spent
    BY <1>2, <2>1, <2>4 DEF UsageInv
  <2> QED BY <1>2, <1>5, <1>6, <2>3, <2>5 DEF UsageInv
<1> QED BY <1>8, <1>9, <1>10, <1>11, <1>12, <1>13 DEF SoundLog

-----------------------------------------------------------------------------
(* A new process: what restoreFromLog reads off a well-formed log          *)

(* The start of the last turn.                                              *)
LEMMA LastStarted ==
  ASSUME NEW l \in Seq(Event), At(l, "turn.started") # {}
  PROVE  /\ LastOf(At(l, "turn.started")) \in 1 .. Len(l)
         /\ l[LastOf(At(l, "turn.started"))].type = "turn.started"
         /\ \A j \in 1 .. Len(l) :
              l[j].type = "turn.started" => j <= LastOf(At(l, "turn.started"))
<1>1. At(l, "turn.started") \in SUBSET (1 .. Len(l)) /\ Len(l) \in Nat
  BY AtIsFinite, LenProperties
<1>2. /\ LastOf(At(l, "turn.started")) \in At(l, "turn.started")
      /\ \A j \in At(l, "turn.started") : j <= LastOf(At(l, "turn.started"))
  BY <1>1, LastOfIsLast
<1> QED BY <1>1, <1>2 DEF At

(* Only the last turn can be open, and OpenTurn finds it.                   *)
LEMMA OpenTurnIsOpen ==
  ASSUME NEW l \in Seq(Event), WellFormed(l)
  PROVE  /\ OpenTurn(l) = NoTurn => AllEnded(l, Len(l))
         /\ OpenTurn(l) # NoTurn =>
              /\ OpenTurn(l) \in Turns(l, "turn.started", Len(l))
              /\ OpenTurn(l) \notin Turns(l, "turn.ended", Len(l))
              /\ Turns(l, "turn.started", Len(l)) \subseteq
                   Turns(l, "turn.ended", Len(l)) \cup {OpenTurn(l)}
              /\ OpenUsageRecorded(l) <=> OpenTurn(l) \in Turns(l, "usage", Len(l))
<1>1. Len(l) \in Nat /\ DOMAIN l = 1 .. Len(l)
  BY LenProperties
<1>2. CASE At(l, "turn.started") = {}
  <2>1. OpenTurn(l) = NoTurn
    BY <1>2 DEF OpenTurn
  <2>2. Turns(l, "turn.started", Len(l)) = {}
    BY <1>1, <1>2 DEF Turns, At
  <2> QED BY <2>1, <2>2 DEF AllEnded
<1>3. CASE At(l, "turn.started") # {}
  <2> DEFINE i == LastOf(At(l, "turn.started"))
             t == l[i].turn
  <2>1. /\ i \in 1 .. Len(l) /\ l[i].type = "turn.started"
        /\ \A j \in 1 .. Len(l) : l[j].type = "turn.started" => j <= i
    BY <1>3, LastStarted
  <2>2. OpenTurn(l) = IF \E j \in At(l, "turn.ended") : j > i /\ l[j].turn = t
                      THEN NoTurn ELSE t
    BY <1>3 DEF OpenTurn
  <2>3. OpenUsageRecorded(l) <=> \E j \in At(l, "usage") : j > i /\ l[j].turn = t
    BY DEF OpenUsageRecorded
  <2> HIDE DEF i
  <2>4. i - 1 \in Nat /\ i - 1 \in 0 .. Len(l) /\ i \in Nat /\ (i - 1) + 1 = i
    BY <1>1, <2>1
  <2>5. t = Count(l, i - 1) + 1 /\ AllEnded(l, i - 1)
    BY <2>1 DEF WellFormed, EventOK, StartedOK
  <2>6. t \notin Turns(l, "turn.started", i - 1)
    <3>1. Turns(l, "turn.started", i - 1) \subseteq 1 .. Count(l, i - 1)
      BY <2>4, StartedUpTo
    <3>2. Count(l, i - 1) \in Nat
      BY <2>4, CountIsNat
    <3>3. Count(l, i - 1) + 1 \notin 1 .. Count(l, i - 1)
      BY <3>2
    <3> QED BY <2>5, <3>1, <3>3
  <2>7. t # NoTurn
    <3>1. Count(l, i - 1) \in Nat
      BY <2>4, CountIsNat
    <3> QED BY <2>5, <3>1 DEF NoTurn
  <2>8. ASSUME NEW j \in 1 .. Len(l), l[j].turn = t, l[j].type \in {"turn.ended", "usage"}
        PROVE  j > i
    <3>1. j - 1 \in Nat /\ t \in Turns(l, "turn.started", j - 1)
      BY <1>1, <2>8 DEF WellFormed, EventOK, EndedOK, UsageOK
    <3> SUFFICES ASSUME j <= i PROVE FALSE
      BY <1>1, <2>4
    <3>2. j - 1 <= i - 1
      BY <2>4
    <3>3. Turns(l, "turn.started", j - 1) \subseteq Turns(l, "turn.started", i - 1)
      BY <2>4, <3>1, <3>2, Monotone
    <3> QED BY <2>6, <3>1, <3>3
  <2>9. /\ OpenTurn(l) = NoTurn <=> t \in Turns(l, "turn.ended", Len(l))
        /\ OpenTurn(l) # NoTurn => OpenTurn(l) = t
    BY <1>1, <2>2, <2>7, <2>8 DEF At, Turns
  <2>10. OpenUsageRecorded(l) <=> t \in Turns(l, "usage", Len(l))
    BY <1>1, <2>3, <2>8 DEF At, Turns
  <2>11. t \in Turns(l, "turn.started", Len(l))
    BY <2>1 DEF Turns
  <2>12. Turns(l, "turn.started", Len(l)) \subseteq Turns(l, "turn.ended", Len(l)) \cup {t}
    <3> SUFFICES ASSUME NEW j \in 1 .. Len(l), l[j].type = "turn.started", j # i
                 PROVE  l[j].turn \in Turns(l, "turn.ended", Len(l))
      BY DEF Turns
    <3>1. j \in 1 .. i - 1
      BY <1>1, <2>1, <2>4
    <3>2. l[j].turn \in Turns(l, "turn.started", i - 1)
      BY <3>1 DEF Turns
    <3>3. Turns(l, "turn.ended", i - 1) \subseteq Turns(l, "turn.ended", Len(l))
      <4>1. i - 1 <= Len(l)
        BY <1>1, <2>1
      <4> QED BY ONLY <1>1, <2>4, <4>1, Monotone
    <3> QED BY <2>5, <3>2, <3>3 DEF AllEnded
  <2> QED BY <2>9, <2>10, <2>11, <2>12 DEF AllEnded
<1> QED BY <1>2, <1>3

(* The total and its exactness, as the last usage event and all of them say. *)
LEMMA RestoredTotal ==
  ASSUME NEW l \in Seq(Event)
  PROVE  /\ TotalIs(l, Len(l), RestoredUsage(l))
         /\ RestoredComplete(l) <=> ~Partial(l, Len(l))
<1>1. Len(l) \in Nat /\ DOMAIN l = 1 .. Len(l)
  BY LenProperties
<1>2. RestoredComplete(l) <=> ~Partial(l, Len(l))
  BY <1>1 DEF RestoredComplete, Partial, At
<1>3. CASE At(l, "usage") = {}
  <2>1. RestoredUsage(l) = 0
    BY <1>3 DEF RestoredUsage
  <2>2. \A i \in 1 .. Len(l) : l[i].type # "usage"
    BY <1>1, <1>3 DEF At
  <2> QED BY <1>2, <2>1, <2>2 DEF TotalIs
<1>4. CASE At(l, "usage") # {}
  <2> DEFINE i == LastOf(At(l, "usage"))
  <2>1. At(l, "usage") \in SUBSET (1 .. Len(l))
    BY AtIsFinite
  <2>2. i \in At(l, "usage") /\ \A j \in At(l, "usage") : j <= i
    BY <1>1, <1>4, <2>1, LastOfIsLast
  <2>3. RestoredUsage(l) = l[i].cumulative
    BY <1>4 DEF RestoredUsage
  <2> HIDE DEF i
  <2>4. i \in 1 .. Len(l) /\ l[i].type = "usage"
    BY <1>1, <2>2 DEF At
  <2>5. \A j \in i + 1 .. Len(l) : l[j].type # "usage"
    <3> SUFFICES ASSUME NEW j \in i + 1 .. Len(l), l[j].type = "usage" PROVE FALSE
      OBVIOUS
    <3>1. j \in 1 .. Len(l) /\ ~ (j <= i)
      BY <1>1, <2>4
    <3>2. j \in At(l, "usage")
      BY <1>1, <3>1 DEF At
    <3> QED BY <2>2, <3>1, <3>2
  <2> QED BY <1>2, <2>3, <2>4, <2>5 DEF TotalIs
<1> QED BY <1>3, <1>4

(* A turn some process died in blocks, and so does a stop that still stands. *)
LEMMA RestoredBlocks ==
  ASSUME NEW l \in Seq(Event), WellFormed(l)
  PROVE  /\ RestoredBlock(l) \in {"no", "live", "sticky"}
         /\ Dead(l, Len(l)) => RestoredBlock(l) = "sticky"
         /\ RestoredBlock(l) = "no" => ~Standing(l, Len(l))
<1>1. Len(l) \in Nat /\ DOMAIN l = 1 .. Len(l)
  BY LenProperties
<1>2. Dead(l, Len(l)) => RestoredBlock(l) = "sticky"
  <2> SUFFICES ASSUME NEW i \in 1 .. Len(l), l[i].type = "turn.ended",
                      l[i].reason = "process_exit"
               PROVE  RestoredBlock(l) = "sticky"
    BY DEF Dead
  <2>1. l[i].how = "stop_unconfirmed"
    BY DEF WellFormed, EventOK, EndedOK
  <2>2. i \in Unconfirmed(l)
    BY <1>1, <2>1 DEF Unconfirmed, At
  <2> QED BY <2>2 DEF RestoredBlock
<1>3. ASSUME Standing(l, Len(l))
      PROVE  RestoredBlock(l) # "no"
  <2>1. PICK i \in 1 .. Len(l) :
          /\ l[i].type = "turn.ended" /\ l[i].how = "stop_unconfirmed"
          /\ \A c \in i + 1 .. Len(l) : l[c].type = "session.closed" => l[c].error
    BY <1>3 DEF Standing
  <2>2. i \in Unconfirmed(l)
    BY <1>1, <2>1 DEF Unconfirmed, At
  <2>3. \A j \in At(l, "session.closed") : j > i => j \in i + 1 .. Len(l)
    BY <1>1, <2>1 DEF At
  <2>4. \A j \in At(l, "session.closed") : j > i => l[j].error
    BY <2>1, <2>3 DEF At
  <2> QED BY <2>2, <2>4 DEF RestoredBlock
<1>4. RestoredBlock(l) \in {"no", "live", "sticky"}
  BY DEF RestoredBlock
<1> QED BY <1>2, <1>3, <1>4

(* A request is restored as pending when nothing resolved it, and then its  *)
(* turn has not ended: a terminal event follows every resolution.           *)
LEMMA RestoredRequests ==
  ASSUME NEW l \in Seq(Event), WellFormed(l)
  PROVE  /\ LeftPending(l) = Reqs(l, "request", Len(l)) \ Reqs(l, "resolved", Len(l))
         /\ LeftPending(l) \subseteq Requests
         /\ \A r \in LeftPending(l) :
              RestoredRecord(l, r).turn \notin Turns(l, "turn.ended", Len(l))
         /\ \A r \in Requests \ LeftPending(l) :
              \/ RestoredRecord(l, r).state = "unknown" /\ r \notin Reqs(l, "request", Len(l))
              \/ /\ RestoredRecord(l, r).state = "resolved"
                 /\ Backed(l, Len(l), Recorded(r, RestoredRecord(l, r).decision))
<1>1. Len(l) \in Nat /\ DOMAIN l = 1 .. Len(l)
  BY LenProperties
<1>2. ASSUME NEW r
      PROVE  /\ r \in Reqs(l, "request", Len(l)) <=> {i \in At(l, "request") : l[i].req = r} # {}
             /\ r \in Reqs(l, "resolved", Len(l)) <=> {i \in At(l, "resolved") : l[i].req = r} # {}
  BY <1>1 DEF Reqs, At
<1>3. \A r \in Reqs(l, "request", Len(l)) : r \in Requests
  <2> SUFFICES ASSUME NEW i \in 1 .. Len(l), l[i].type = "request" PROVE l[i].req \in Requests
    BY DEF Reqs
  <2>1. l[i] \in Event
    BY ElementOfSeq
  <2> QED BY <2>1 DEF Event
<1>4. ASSUME NEW r \in Requests, r \notin Reqs(l, "request", Len(l))
      PROVE  RestoredRecord(l, r).state = "unknown"
  BY <1>2, <1>4 DEF RestoredRecord, Unknown
<1>5. ASSUME NEW r \in Requests, r \in Reqs(l, "request", Len(l)) \ Reqs(l, "resolved", Len(l))
      PROVE  /\ RestoredRecord(l, r).state = "pending"
             /\ RestoredRecord(l, r).turn \notin Turns(l, "turn.ended", Len(l))
  <2> DEFINE asked == {i \in At(l, "request") : l[i].req = r}
             q == LastOf(asked)
  <2>1. asked # {} /\ {i \in At(l, "resolved") : l[i].req = r} = {}
    BY <1>2, <1>5
  <2>2. RestoredRecord(l, r) = Record("pending", l[q].turn, Refusal(r), "client")
    BY <2>1 DEF RestoredRecord
  <2>3. q \in asked
    <3>1. asked \in SUBSET (1 .. Len(l))
      BY <1>1 DEF At
    <3> QED BY <1>1, <2>1, <3>1, LastOfIsLast
  <2> HIDE DEF q
  <2>4. q \in 1 .. Len(l) /\ l[q].type = "request" /\ l[q].req = r
    BY <1>1, <2>3 DEF At
  <2>5. l[q].turn \notin Turns(l, "turn.ended", Len(l))
    <3> SUFFICES ASSUME NEW j \in 1 .. Len(l), l[j].type = "turn.ended", l[j].turn = l[q].turn
                 PROVE  FALSE
      BY DEF Turns
    <3>1. j # q /\ j - 1 \in Nat /\ q - 1 \in Nat
      BY <2>4
    <3>2. CASE j < q
      <4>1. j \in 1 .. q - 1
        BY <1>1, <2>4, <3>2
      <4>2. l[q].turn \in Turns(l, "turn.ended", q - 1)
        BY <4>1 DEF Turns
      <4> QED BY <2>4, <4>2 DEF WellFormed, EventOK, SealOK
    <3>3. CASE q < j
      <4>1. q \in 1 .. j - 1 /\ j - 1 <= Len(l)
        BY <1>1, <2>4, <3>3
      <4>2. r \in Reqs(l, "request", j - 1)
        BY <2>4, <4>1 DEF Reqs
      <4>3. r \in Reqs(l, "resolved", j - 1)
        BY <4>2 DEF WellFormed, EventOK, EndedOK, AllResolved
      <4>4. r \in Reqs(l, "resolved", Len(l))
        BY ONLY <1>1, <3>1, <4>1, <4>3, Monotone
      <4> QED BY <1>5, <4>4
    <3> QED BY <1>1, <2>4, <3>1, <3>2, <3>3
  <2> QED BY <2>2, <2>5 DEF Record
<1>6. ASSUME NEW r \in Requests, r \in Reqs(l, "resolved", Len(l))
      PROVE  /\ RestoredRecord(l, r).state = "resolved"
             /\ Backed(l, Len(l), Recorded(r, RestoredRecord(l, r).decision))
  <2> DEFINE answers == {i \in At(l, "resolved") : l[i].req = r}
             a == LastOf(answers)
             q == LastOf({i \in At(l, "request") : l[i].req = r})
  <2>1. Len(l) \in 0 .. Len(l)
    BY <1>1
  <2>2. r \in Reqs(l, "request", Len(l))
    BY <1>6, <2>1, WellFormedTurns
  <2>3. answers # {} /\ {i \in At(l, "request") : l[i].req = r} # {}
    BY <1>2, <1>6, <2>2
  <2>4. RestoredRecord(l, r) = Record("resolved", l[q].turn, l[a].decision, l[a].source)
    BY <2>3 DEF RestoredRecord
  <2>5. a \in answers
    <3>1. answers \in SUBSET (1 .. Len(l))
      BY <1>1 DEF At
    <3> QED BY <1>1, <2>3, <3>1, LastOfIsLast
  <2> HIDE DEF a, q
  <2>6. a \in 1 .. Len(l) /\ l[a].type = "resolved" /\ l[a].req = r
    BY <1>1, <2>5 DEF At
  <2>7. Backed(l, Len(l), Recorded(r, l[a].decision))
    <3>1. /\ "req" \in DOMAIN Recorded(r, l[a].decision)
          /\ Recorded(r, l[a].decision).req = r
          /\ Recorded(r, l[a].decision).decision = l[a].decision
      BY DEF Recorded
    <3> QED BY <2>6, <3>1 DEF Backed
  <2>8. RestoredRecord(l, r).state = "resolved" /\ RestoredRecord(l, r).decision = l[a].decision
    BY <2>4 DEF Record
  <2> QED BY <2>7, <2>8
<1>7. LeftPending(l) = Reqs(l, "request", Len(l)) \ Reqs(l, "resolved", Len(l))
  <2>1. \A r \in Requests : RestoredRecord(l, r).state = "pending" <=>
          r \in Reqs(l, "request", Len(l)) \ Reqs(l, "resolved", Len(l))
    BY <1>4, <1>5, <1>6
  <2> QED BY <1>3, <2>1 DEF LeftPending
<1>8. \A r \in LeftPending(l) : RestoredRecord(l, r).turn \notin Turns(l, "turn.ended", Len(l))
  BY <1>3, <1>5, <1>7
<1>9. \A r \in Requests \ LeftPending(l) :
        \/ RestoredRecord(l, r).state = "unknown" /\ r \notin Reqs(l, "request", Len(l))
        \/ /\ RestoredRecord(l, r).state = "resolved"
           /\ Backed(l, Len(l), Recorded(r, RestoredRecord(l, r).decision))
  BY <1>4, <1>6, <1>7
<1>10. LeftPending(l) \subseteq Requests
  BY DEF LeftPending
<1> QED BY <1>7, <1>8, <1>9, <1>10

(* A usage event, and a terminal event, add nothing else.                   *)
LEMMA UsageAdds ==
  ASSUME NEW l, NEW m \in Nat, l[m + 1].type = "usage"
  PROVE  /\ Turns(l, "turn.started", m + 1) = Turns(l, "turn.started", m)
         /\ Turns(l, "turn.ended", m + 1) = Turns(l, "turn.ended", m)
         /\ Turns(l, "usage", m + 1) = Turns(l, "usage", m) \cup {l[m + 1].turn}
         /\ Reqs(l, "request", m + 1) = Reqs(l, "request", m)
         /\ Reqs(l, "resolved", m + 1) = Reqs(l, "resolved", m)
         /\ Count(l, m + 1) = Count(l, m)
         /\ Dead(l, m + 1) <=> Dead(l, m)
         /\ Standing(l, m + 1) <=> Standing(l, m)
         /\ Partial(l, m + 1) <=> Partial(l, m) \/ ~l[m + 1].complete
         /\ TotalIs(l, m + 1, l[m + 1].cumulative)
<1>1. Standing(l, m + 1) <=> Standing(l, m)
  BY StandingStep
<1>2. /\ \A type : Turns(l, type, m + 1) = Turns(l, type, m)
                     \cup (IF l[m + 1].type = type THEN {l[m + 1].turn} ELSE {})
      /\ \A type : Reqs(l, type, m + 1) = Reqs(l, type, m)
                     \cup (IF l[m + 1].type = type THEN {l[m + 1].req} ELSE {})
  BY OneMore
<1>3. /\ Count(l, m + 1) = IF l[m + 1].type = "turn.started" THEN Count(l, m) + 1 ELSE Count(l, m)
      /\ Dead(l, m + 1) <=>
           Dead(l, m) \/ (l[m + 1].type = "turn.ended" /\ l[m + 1].reason = "process_exit")
      /\ Partial(l, m + 1) <=> Partial(l, m) \/ (l[m + 1].type = "usage" /\ ~l[m + 1].complete)
      /\ TotalIs(l, m + 1, l[m + 1].cumulative)
  BY OneMore
<1>4. /\ Turns(l, "turn.started", m + 1) = Turns(l, "turn.started", m)
      /\ Turns(l, "turn.ended", m + 1) = Turns(l, "turn.ended", m)
      /\ Turns(l, "usage", m + 1) = Turns(l, "usage", m) \cup {l[m + 1].turn}
  BY <1>2
<1>5. /\ Reqs(l, "request", m + 1) = Reqs(l, "request", m)
      /\ Reqs(l, "resolved", m + 1) = Reqs(l, "resolved", m)
  BY <1>2
<1> QED BY <1>1, <1>3, <1>4, <1>5

(* A terminal event ends one turn, and adds nothing else.                   *)
LEMMA EndedAdds ==
  ASSUME NEW l, NEW m \in Nat, l[m + 1].type = "turn.ended"
  PROVE  /\ Turns(l, "turn.started", m + 1) = Turns(l, "turn.started", m)
         /\ Turns(l, "turn.ended", m + 1) = Turns(l, "turn.ended", m) \cup {l[m + 1].turn}
         /\ Turns(l, "usage", m + 1) = Turns(l, "usage", m)
         /\ Reqs(l, "request", m + 1) = Reqs(l, "request", m)
         /\ Reqs(l, "resolved", m + 1) = Reqs(l, "resolved", m)
         /\ Count(l, m + 1) = Count(l, m)
         /\ Dead(l, m + 1) <=> Dead(l, m) \/ l[m + 1].reason = "process_exit"
         /\ Partial(l, m + 1) <=> Partial(l, m)
         /\ \A x : TotalIs(l, m + 1, x) <=> TotalIs(l, m, x)
<1>1. /\ \A type : Turns(l, type, m + 1) = Turns(l, type, m)
                     \cup (IF l[m + 1].type = type THEN {l[m + 1].turn} ELSE {})
      /\ \A type : Reqs(l, type, m + 1) = Reqs(l, type, m)
                     \cup (IF l[m + 1].type = type THEN {l[m + 1].req} ELSE {})
  BY OneMore
<1>2. /\ Count(l, m + 1) = IF l[m + 1].type = "turn.started" THEN Count(l, m) + 1 ELSE Count(l, m)
      /\ Dead(l, m + 1) <=>
           Dead(l, m) \/ (l[m + 1].type = "turn.ended" /\ l[m + 1].reason = "process_exit")
      /\ Partial(l, m + 1) <=> Partial(l, m) \/ (l[m + 1].type = "usage" /\ ~l[m + 1].complete)
      /\ \A x : TotalIs(l, m + 1, x) <=> TotalIs(l, m, x)
  BY OneMore
<1>3. /\ Turns(l, "turn.started", m + 1) = Turns(l, "turn.started", m)
      /\ Turns(l, "usage", m + 1) = Turns(l, "usage", m)
      /\ Turns(l, "turn.ended", m + 1) = Turns(l, "turn.ended", m) \cup {l[m + 1].turn}
  BY <1>1
<1>4. /\ Reqs(l, "request", m + 1) = Reqs(l, "request", m)
      /\ Reqs(l, "resolved", m + 1) = Reqs(l, "resolved", m)
  BY <1>1
<1> QED BY <1>2, <1>3, <1>4

(* What a restart adds to the log: up to m it resolves what was left        *)
(* pending, up to p it accounts for the open turn, then it ends that turn.  *)
Recovers(m, p) ==
  /\ Extends /\ m \in Nat /\ p \in Nat /\ End <= m
  /\ Resolves(log', End, m, LeftPending(log), "process_exit")
  /\ IF UsageUnknown(log)
     THEN p = m + 1 /\ log'[m + 1] = Usage(OpenTurn(log), Null, RestoredUsage(log), FALSE)
     ELSE p = m
  /\ IF OpenTurn(log) = NoTurn THEN End' = p
     ELSE /\ End' = p + 1
          /\ log'[p + 1] = Ended(OpenTurn(log), "stop_unconfirmed", "process_exit")

(* A restart logs that, in some order.                                      *)
LEMMA StartRecovers ==
  ASSUME Sound, Start
  PROVE  \E order \in ApprovalsFirst(LeftPending(log)) :
           /\ log' = log \o Recovery(log, order)
           /\ \E m, p \in Nat : Recovers(m, p)
           /\ IF Recovery(log, order) = <<>> THEN outbound' = outbound
              ELSE EmitAndFlush(Recovery(log, order))
<1>1. log \in Seq(Event) /\ WellFormed(log) /\ End = Len(log) /\ End \in Nat
  BY LenProperties DEF Sound, IInv, SoundLog, LogInv, LogTypes, End
<1>2. PICK order \in ApprovalsFirst(LeftPending(log)) :
        IF Recovery(log, order) = <<>> THEN UNCHANGED logVars
        ELSE EmitAndFlush(Recovery(log, order))
  BY DEF Start
<1>3. log' = log \o Recovery(log, order)
  BY <1>1, <1>2, ConcatEmptySeq DEF EmitAndFlush, logVars
<1> DEFINE S == LeftPending(log)
           refused == RefusedAll(log, order)
           counted == CountedOpen(log)
           ended == EndedOpen(log)
<1>4. /\ refused \in Seq(Event) /\ counted \in Seq(Event) /\ ended \in Seq(Event)
      /\ log' = log \o ((refused \o counted) \o ended)
  BY <1>1, <1>3, RecoveryParts
<1>5. /\ S \in SUBSET Requests
      /\ \A r \in S : RestoredRecord(log, r).turn \notin Turns(log, "turn.ended", End)
  BY <1>1, RestoredRequests
<1>6. PICK c \in Nat : Lists(order, c, S)
  <2>1. order \in Orders(S)
    BY DEF ApprovalsFirst
  <2> HIDE DEF S
  <2> QED BY <1>5, <2>1, OrderLists
<1>7. order \in [1 .. c -> S]
  BY <1>6 DEF Lists
<1>8. /\ Len(refused) = c
      /\ \A i \in 1 .. c : refused[i] =
           Resolved(order[i], RestoredRecord(log, order[i]).turn, Refusal(order[i]), "process_exit")
  BY <1>7 DEF RefusedAll
<1> HIDE DEF refused, counted, ended, S
<1>9. /\ Len(refused) \in Nat /\ Len(counted) \in Nat /\ Len(ended) \in Nat
      /\ Len(log') = Len(log) + Len(refused) + Len(counted) + Len(ended)
      /\ \A i \in 1 .. Len(log) : log'[i] = log[i]
      /\ Placed(log', Len(log), refused)
      /\ Placed(log', Len(log) + Len(refused), counted)
      /\ Placed(log', Len(log) + Len(refused) + Len(counted), ended)
  <2> DEFINE k == log \o ((refused \o counted) \o ended)
  <2>1. /\ Len(refused) \in Nat /\ Len(counted) \in Nat /\ Len(ended) \in Nat
        /\ Len(k) = Len(log) + Len(refused) + Len(counted) + Len(ended)
        /\ \A i \in 1 .. Len(log) : k[i] = log[i]
        /\ Placed(k, Len(log), refused)
        /\ Placed(k, Len(log) + Len(refused), counted)
        /\ Placed(k, Len(log) + Len(refused) + Len(counted), ended)
    BY ONLY <1>1, <1>4, ThreeParts
  <2>2. log' = k
    BY <1>4
  <2> HIDE DEF k
  <2> QED BY ONLY <2>1, <2>2
<1>10. PICK m \in Nat, p \in Nat : m = End + c /\ p = m + Len(counted)
  BY <1>1, <1>9
<1>11. /\ Extends /\ End <= m /\ End' = p + Len(ended)
       /\ Placed(log', End, refused) /\ Placed(log', m, counted) /\ Placed(log', p, ended)
  <2>1. /\ End <= m /\ End' = p + Len(ended) /\ End' \in Nat /\ End <= End'
    BY ONLY <1>1, <1>8, <1>9, <1>10, c \in Nat, m \in Nat, p \in Nat DEF End
  <2>2. Placed(log', End, refused) /\ Placed(log', m, counted) /\ Placed(log', p, ended)
    BY ONLY <1>1, <1>8, <1>9, <1>10
  <2>3. \A i \in 1 .. End : log'[i] = log[i]
    BY ONLY <1>1, <1>9
  <2> QED BY ONLY <1>1, <2>1, <2>2, <2>3 DEF Extends
<1>12. Turns(log', "turn.ended", End) = Turns(log, "turn.ended", End)
  BY <1>1, <1>11, ExtendsKeeps
<1>13. Resolves(log', End, m, S, "process_exit")
  <2>1. ASSUME NEW j \in 1 .. Len(refused)
        PROVE  /\ refused[j].type = "resolved" /\ refused[j].req = order[j]
               /\ refused[j].decision = Refusal(order[j]) /\ refused[j].source = "process_exit"
               /\ refused[j].turn \notin Turns(log', "turn.ended", End)
    <3>1. refused[j] = Resolved(order[j], RestoredRecord(log, order[j]).turn, Refusal(order[j]),
                                "process_exit")
      BY <1>8
    <3>2. RestoredRecord(log, order[j]).turn \notin Turns(log', "turn.ended", End)
      BY <1>5, <1>7, <1>8, <1>12
    <3> QED BY <3>1, <3>2 DEF Resolved
  <2>2. Resolves(log', End, End + Len(refused), S, "process_exit")
    BY <1>1, <1>6, <1>8, <1>9, <1>11, <2>1, OrderResolves
  <2> QED BY <1>8, <1>10, <2>2
<1>14. IF UsageUnknown(log)
       THEN p = m + 1 /\ log'[m + 1] = Usage(OpenTurn(log), Null, RestoredUsage(log), FALSE)
       ELSE p = m
  <2>1. CASE UsageUnknown(log)
    <3>1. PICK u : u = Usage(OpenTurn(log), Null, RestoredUsage(log), FALSE)
      OBVIOUS
    <3>2. counted = <<u>>
      BY <2>1, <3>1 DEF counted, CountedOpen
    <3>3. Len(counted) = 1 /\ counted[1] = u /\ 1 \in 1 .. 1
      BY <3>2
    <3> QED BY <1>10, <1>11, <2>1, <3>1, <3>3 DEF Placed
  <2>2. CASE ~UsageUnknown(log)
    <3>1. Len(counted) = 0
      BY <2>2 DEF counted, CountedOpen
    <3> QED BY <1>10, <2>2, <3>1
  <2> QED BY <2>1, <2>2
<1>15. IF OpenTurn(log) = NoTurn THEN End' = p
       ELSE /\ End' = p + 1
            /\ log'[p + 1] = Ended(OpenTurn(log), "stop_unconfirmed", "process_exit")
  <2>1. CASE OpenTurn(log) # NoTurn
    <3>1. PICK e : e = Ended(OpenTurn(log), "stop_unconfirmed", "process_exit")
      OBVIOUS
    <3>2. ended = <<e>>
      BY <2>1, <3>1 DEF ended, EndedOpen
    <3>3. Len(ended) = 1 /\ ended[1] = e /\ 1 \in 1 .. 1
      BY <3>2
    <3> QED BY <1>11, <2>1, <3>1, <3>3 DEF Placed
  <2>2. CASE OpenTurn(log) = NoTurn
    <3>1. Len(ended) = 0
      BY <2>2 DEF ended, EndedOpen
    <3> QED BY <1>10, <1>11, <2>2, <3>1
  <2> QED BY <2>1, <2>2
<1>16. Recovers(m, p)
  BY <1>10, <1>11, <1>13, <1>14, <1>15 DEF Recovers, S
<1>17. IF Recovery(log, order) = <<>> THEN outbound' = outbound
       ELSE EmitAndFlush(Recovery(log, order))
  BY <1>2 DEF logVars
<1> QED BY <1>3, <1>16, <1>17

(* What the log says after the resolutions of a restart.                    *)
LEMMA RecoversUpTo ==
  ASSUME Sound, NEW m, NEW p, Recovers(m, p)
  PROVE  /\ log \in Seq(Event) /\ WellFormed(log) /\ End = Len(log)
         /\ Extends /\ m \in Nat /\ p \in Nat /\ End <= m /\ Quiet(log', End, m)
         /\ \A k \in End + 1 .. m : EventOK(log', k) /\ CloseOK(log', k)
         /\ Turns(log', "turn.started", m) = Turns(log, "turn.started", End)
         /\ Turns(log', "turn.ended", m) = Turns(log, "turn.ended", End)
         /\ Turns(log', "usage", m) = Turns(log, "usage", End)
         /\ Reqs(log', "request", m) = Reqs(log, "request", End)
         /\ Reqs(log', "resolved", m) = Reqs(log, "resolved", End) \cup LeftPending(log)
         /\ Count(log', m) = Count(log, End)
         /\ Dead(log', m) <=> Dead(log, End)
         /\ Standing(log', m) <=> Standing(log, End)
         /\ Partial(log', m) <=> Partial(log, End)
         /\ TotalIs(log', m, RestoredUsage(log))
         /\ \A r \in LeftPending(log) : Backed(log', m, Recorded(r, Refusal(r)))
<1>1. /\ log \in Seq(Event) /\ WellFormed(log) /\ End = Len(log) /\ End \in Nat
      /\ Extends /\ m \in Nat /\ p \in Nat /\ End <= m
      /\ Resolves(log', End, m, LeftPending(log), "process_exit")
  BY LenProperties DEF Sound, IInv, SoundLog, LogInv, LogTypes, End, Recovers
<1>2. LeftPending(log) = Reqs(log', "request", End) \ Reqs(log', "resolved", End)
  <2>1. LeftPending(log) = Reqs(log, "request", End) \ Reqs(log, "resolved", End)
    BY <1>1, RestoredRequests
  <2> QED BY <1>1, <2>1, ExtendsKeeps
<1>3. /\ \A k \in End + 1 .. m : EventOK(log', k) /\ CloseOK(log', k)
      /\ Reqs(log', "resolved", m) = Reqs(log', "resolved", End) \cup LeftPending(log)
      /\ Reqs(log', "request", m) = Reqs(log', "request", End)
      /\ Quiet(log', End, m)
      /\ \A r \in LeftPending(log) : Backed(log', m, Recorded(r, Refusal(r)))
  <2>1. LeftPending(log) \subseteq Reqs(log', "request", End) \ Reqs(log', "resolved", End)
    BY <1>2
  <2> QED BY ONLY <1>1, <2>1, ResolvesFits
<1>4. /\ Reqs(log', "resolved", m) = Reqs(log, "resolved", End) \cup LeftPending(log)
      /\ Reqs(log', "request", m) = Reqs(log, "request", End)
  BY <1>1, <1>3, ExtendsKeeps
<1>5. /\ \A type \in Loud : Turns(log', type, m) = Turns(log, type, End)
      /\ Count(log', m) = Count(log, End)
      /\ Dead(log', m) <=> Dead(log, End)
      /\ Partial(log', m) <=> Partial(log, End)
      /\ Standing(log', m) <=> Standing(log, End)
      /\ \A x : TotalIs(log', m, x) <=> TotalIs(log, End, x)
  BY ONLY <1>1, <1>3, QuietFacts
<1>6. /\ Turns(log', "turn.started", m) = Turns(log, "turn.started", End)
      /\ Turns(log', "turn.ended", m) = Turns(log, "turn.ended", End)
      /\ Turns(log', "usage", m) = Turns(log, "usage", End)
  BY <1>5 DEF Loud
<1>7. TotalIs(log', m, RestoredUsage(log))
  BY <1>1, <1>5, RestoredTotal
<1> QED BY <1>1, <1>3, <1>4, <1>5, <1>6, <1>7

(* What it says once the open turn is accounted for.                        *)
LEMMA RecoversCounted ==
  ASSUME Sound, NEW m, NEW p, Recovers(m, p)
  PROVE  /\ m <= p /\ \A k \in m + 1 .. p : EventOK(log', k) /\ CloseOK(log', k)
         /\ Turns(log', "turn.started", p) = Turns(log, "turn.started", End)
         /\ Turns(log', "turn.ended", p) = Turns(log, "turn.ended", End)
         /\ OpenTurn(log) # NoTurn => OpenTurn(log) \in Turns(log', "usage", p)
         /\ Reqs(log', "request", p) = Reqs(log, "request", End)
         /\ Reqs(log', "resolved", p) = Reqs(log, "resolved", End) \cup LeftPending(log)
         /\ Count(log', p) = Count(log, End)
         /\ Dead(log', p) <=> Dead(log, End)
         /\ Standing(log', p) <=> Standing(log, End)
         /\ Partial(log', p) <=> Partial(log, End) \/ UsageUnknown(log)
         /\ TotalIs(log', p, RestoredUsage(log))
<1>1. /\ log \in Seq(Event) /\ WellFormed(log) /\ End = Len(log)
      /\ Extends /\ m \in Nat /\ p \in Nat
      /\ Turns(log', "turn.started", m) = Turns(log, "turn.started", End)
      /\ Turns(log', "turn.ended", m) = Turns(log, "turn.ended", End)
      /\ Turns(log', "usage", m) = Turns(log, "usage", End)
      /\ Reqs(log', "request", m) = Reqs(log, "request", End)
      /\ Reqs(log', "resolved", m) = Reqs(log, "resolved", End) \cup LeftPending(log)
      /\ Count(log', m) = Count(log, End)
      /\ Dead(log', m) <=> Dead(log, End)
      /\ Standing(log', m) <=> Standing(log, End)
      /\ Partial(log', m) <=> Partial(log, End)
      /\ TotalIs(log', m, RestoredUsage(log))
  BY RecoversUpTo
<1>2. OpenTurn(log) # NoTurn =>
        /\ OpenTurn(log) \in Turns(log, "turn.started", End)
        /\ OpenTurn(log) \notin Turns(log, "turn.ended", End)
        /\ OpenUsageRecorded(log) <=> OpenTurn(log) \in Turns(log, "usage", End)
  BY <1>1, OpenTurnIsOpen
<1>3. CASE ~UsageUnknown(log)
  <2>1. p = m /\ m <= p /\ m + 1 .. m = {}
    BY <1>1, <1>3, NoneAfter DEF Recovers
  <2>2. OpenTurn(log) # NoTurn => OpenTurn(log) \in Turns(log', "usage", p)
    BY <1>1, <1>2, <1>3, <2>1 DEF UsageUnknown
  <2>3. \A k \in m + 1 .. p : EventOK(log', k) /\ CloseOK(log', k)
    BY <2>1
  <2> QED BY ONLY <1>1, <1>3, <2>1, <2>2, <2>3
<1>4. CASE UsageUnknown(log)
  <2>1. /\ p = m + 1
        /\ log'[m + 1] = Usage(OpenTurn(log), Null, RestoredUsage(log), FALSE)
    BY <1>4 DEF Recovers
  <2>2. /\ log'[m + 1].type = "usage" /\ log'[m + 1].turn = OpenTurn(log)
        /\ log'[m + 1].cumulative = RestoredUsage(log) /\ ~log'[m + 1].complete
    BY <2>1 DEF Usage
  <2>3. /\ Turns(log', "turn.started", p) = Turns(log', "turn.started", m)
        /\ Turns(log', "turn.ended", p) = Turns(log', "turn.ended", m)
        /\ Turns(log', "usage", p) = Turns(log', "usage", m) \cup {OpenTurn(log)}
        /\ Reqs(log', "request", p) = Reqs(log', "request", m)
        /\ Reqs(log', "resolved", p) = Reqs(log', "resolved", m)
        /\ Count(log', p) = Count(log', m)
        /\ Dead(log', p) <=> Dead(log', m)
        /\ Standing(log', p) <=> Standing(log', m)
        /\ Partial(log', p)
        /\ TotalIs(log', p, RestoredUsage(log))
    <3>1. /\ Turns(log', "turn.started", m + 1) = Turns(log', "turn.started", m)
          /\ Turns(log', "turn.ended", m + 1) = Turns(log', "turn.ended", m)
          /\ Turns(log', "usage", m + 1) = Turns(log', "usage", m) \cup {log'[m + 1].turn}
          /\ Reqs(log', "request", m + 1) = Reqs(log', "request", m)
          /\ Reqs(log', "resolved", m + 1) = Reqs(log', "resolved", m)
          /\ Count(log', m + 1) = Count(log', m)
          /\ Dead(log', m + 1) <=> Dead(log', m)
          /\ Standing(log', m + 1) <=> Standing(log', m)
          /\ Partial(log', m + 1) <=> Partial(log', m) \/ ~log'[m + 1].complete
          /\ TotalIs(log', m + 1, log'[m + 1].cumulative)
      BY ONLY <1>1, <2>2, UsageAdds
    <3>2. /\ Turns(log', "turn.started", p) = Turns(log', "turn.started", m)
          /\ Turns(log', "turn.ended", p) = Turns(log', "turn.ended", m)
          /\ Turns(log', "usage", p) = Turns(log', "usage", m) \cup {OpenTurn(log)}
      BY ONLY <2>1, <2>2, <3>1
    <3>3. /\ Reqs(log', "request", p) = Reqs(log', "request", m)
          /\ Reqs(log', "resolved", p) = Reqs(log', "resolved", m)
          /\ Count(log', p) = Count(log', m)
      BY ONLY <2>1, <2>2, <3>1
    <3>4. /\ Dead(log', p) <=> Dead(log', m)
          /\ Standing(log', p) <=> Standing(log', m)
          /\ Partial(log', p)
          /\ TotalIs(log', p, RestoredUsage(log))
      BY ONLY <2>1, <2>2, <3>1
    <3> QED BY ONLY <3>2, <3>3, <3>4
  <2>4. m <= p /\ (m + 1) - 1 = m /\ m + 1 .. p = {m + 1}
    BY <1>1, <2>1
  <2>5. EventOK(log', m + 1) /\ CloseOK(log', m + 1)
    BY <1>1, <1>2, <1>4, <2>2, <2>4
       DEF UsageUnknown, EventOK, StartedOK, RequestOK, ResolvedOK, UsageOK, EndedOK, ClosedOK,
           SealOK, CloseOK
  <2>6. \A k \in m + 1 .. p : EventOK(log', k) /\ CloseOK(log', k)
    BY <2>4, <2>5
  <2>7. OpenTurn(log) \in Turns(log', "usage", p)
    BY <2>3
  <2> QED BY ONLY <1>1, <1>4, <2>3, <2>4, <2>6, <2>7
<1> QED BY <1>3, <1>4

(* A restart leaves nothing open, and no total it did not find.             *)
LEMMA RecoversSays ==
  ASSUME Sound, NEW m, NEW p, Recovers(m, p)
  PROVE  /\ WellFormed(log') /\ \A k \in End + 1 .. End' : CloseOK(log', k)
         /\ AllEnded(log', End')
         /\ Reqs(log', "request", End') = Reqs(log, "request", End)
         /\ Reqs(log', "resolved", End') = Reqs(log, "resolved", End) \cup LeftPending(log)
         /\ Count(log', End') = Count(log, End)
         /\ Dead(log', End') <=> Dead(log, End) \/ OpenTurn(log) # NoTurn
         /\ OpenTurn(log) = NoTurn => (Standing(log', End') <=> Standing(log, End))
         /\ Partial(log', End') <=> Partial(log, End) \/ UsageUnknown(log)
         /\ TotalIs(log', End', RestoredUsage(log))
         /\ p <= End' /\ End' \in {p, p + 1}
<1>1. /\ log \in Seq(Event) /\ WellFormed(log) /\ End = Len(log) /\ End \in Nat /\ End' \in Nat
      /\ Extends /\ m \in Nat /\ p \in Nat /\ End <= m
      /\ \A k \in End + 1 .. m : EventOK(log', k) /\ CloseOK(log', k)
  BY RecoversUpTo DEF Extends
<1>2. /\ m <= p /\ \A k \in m + 1 .. p : EventOK(log', k) /\ CloseOK(log', k)
      /\ Turns(log', "turn.started", p) = Turns(log, "turn.started", End)
      /\ Turns(log', "turn.ended", p) = Turns(log, "turn.ended", End)
      /\ OpenTurn(log) # NoTurn => OpenTurn(log) \in Turns(log', "usage", p)
      /\ Reqs(log', "request", p) = Reqs(log, "request", End)
      /\ Reqs(log', "resolved", p) = Reqs(log, "resolved", End) \cup LeftPending(log)
      /\ Count(log', p) = Count(log, End)
      /\ Dead(log', p) <=> Dead(log, End)
      /\ Standing(log', p) <=> Standing(log, End)
      /\ Partial(log', p) <=> Partial(log, End) \/ UsageUnknown(log)
      /\ TotalIs(log', p, RestoredUsage(log))
  BY RecoversCounted
<1>3. /\ OpenTurn(log) = NoTurn => AllEnded(log, End)
      /\ OpenTurn(log) # NoTurn =>
           /\ OpenTurn(log) \in Turns(log, "turn.started", End)
           /\ OpenTurn(log) \notin Turns(log, "turn.ended", End)
           /\ Turns(log, "turn.started", End) \subseteq
                Turns(log, "turn.ended", End) \cup {OpenTurn(log)}
  BY <1>1, OpenTurnIsOpen
<1>4. /\ p <= End' /\ End' \in {p, p + 1}
      /\ \A k \in p + 1 .. End' : EventOK(log', k) /\ CloseOK(log', k)
      /\ AllEnded(log', End')
      /\ Reqs(log', "request", End') = Reqs(log, "request", End)
      /\ Reqs(log', "resolved", End') = Reqs(log, "resolved", End) \cup LeftPending(log)
      /\ Count(log', End') = Count(log, End)
      /\ Dead(log', End') <=> Dead(log, End) \/ OpenTurn(log) # NoTurn
      /\ OpenTurn(log) = NoTurn => (Standing(log', End') <=> Standing(log, End))
      /\ Partial(log', End') <=> Partial(log, End) \/ UsageUnknown(log)
      /\ TotalIs(log', End', RestoredUsage(log))
  <2>1. CASE OpenTurn(log) = NoTurn
    <3>1. End' = p /\ p <= End' /\ p + 1 .. p = {}
      BY <1>1, <2>1, NoneAfter DEF Recovers
    <3>2. AllEnded(log', End')
      BY <1>2, <1>3, <2>1, <3>1 DEF AllEnded
    <3>3. \A k \in p + 1 .. End' : EventOK(log', k) /\ CloseOK(log', k)
      BY <3>1
    <3> QED BY ONLY <1>2, <2>1, <3>1, <3>2, <3>3
  <2>2. CASE OpenTurn(log) # NoTurn
    <3>1. /\ End' = p + 1
          /\ log'[p + 1] = Ended(OpenTurn(log), "stop_unconfirmed", "process_exit")
      BY <2>2 DEF Recovers
    <3>2. /\ log'[p + 1].type = "turn.ended" /\ log'[p + 1].turn = OpenTurn(log)
          /\ log'[p + 1].how = "stop_unconfirmed" /\ log'[p + 1].reason = "process_exit"
      BY <3>1 DEF Ended
    <3>3. /\ Turns(log', "turn.started", End') = Turns(log', "turn.started", p)
          /\ Turns(log', "turn.ended", End') = Turns(log', "turn.ended", p) \cup {OpenTurn(log)}
          /\ Reqs(log', "request", End') = Reqs(log', "request", p)
          /\ Reqs(log', "resolved", End') = Reqs(log', "resolved", p)
          /\ Count(log', End') = Count(log', p)
          /\ Dead(log', End')
          /\ Partial(log', End') <=> Partial(log', p)
          /\ \A x : TotalIs(log', End', x) <=> TotalIs(log', p, x)
      <4>1. /\ Turns(log', "turn.started", p + 1) = Turns(log', "turn.started", p)
            /\ Turns(log', "turn.ended", p + 1) =
                 Turns(log', "turn.ended", p) \cup {log'[p + 1].turn}
            /\ Reqs(log', "request", p + 1) = Reqs(log', "request", p)
            /\ Reqs(log', "resolved", p + 1) = Reqs(log', "resolved", p)
            /\ Count(log', p + 1) = Count(log', p)
            /\ Dead(log', p + 1) <=> Dead(log', p) \/ log'[p + 1].reason = "process_exit"
            /\ Partial(log', p + 1) <=> Partial(log', p)
            /\ \A x : TotalIs(log', p + 1, x) <=> TotalIs(log', p, x)
        BY ONLY <1>1, <3>2, EndedAdds
      <4>2. /\ Turns(log', "turn.started", End') = Turns(log', "turn.started", p)
            /\ Turns(log', "turn.ended", End') = Turns(log', "turn.ended", p) \cup {OpenTurn(log)}
        BY ONLY <3>1, <3>2, <4>1
      <4>3. /\ Reqs(log', "request", End') = Reqs(log', "request", p)
            /\ Reqs(log', "resolved", End') = Reqs(log', "resolved", p)
            /\ Count(log', End') = Count(log', p)
        BY ONLY <3>1, <3>2, <4>1
      <4>4. /\ Dead(log', End')
            /\ Partial(log', End') <=> Partial(log', p)
            /\ \A x : TotalIs(log', End', x) <=> TotalIs(log', p, x)
        BY ONLY <3>1, <3>2, <4>1
      <4> QED BY ONLY <4>2, <4>3, <4>4
    <3>4. p <= End' /\ (p + 1) - 1 = p /\ p + 1 .. End' = {p + 1}
      BY <1>1, <3>1
    <3>5. AllResolved(log', p)
      <4>1. LeftPending(log) = Reqs(log, "request", End) \ Reqs(log, "resolved", End)
        BY <1>1, RestoredRequests
      <4> QED BY <1>2, <4>1 DEF AllResolved
    <3>6. EventOK(log', p + 1) /\ CloseOK(log', p + 1)
      BY <1>2, <1>3, <2>2, <3>2, <3>4, <3>5
         DEF EventOK, StartedOK, RequestOK, ResolvedOK, UsageOK, EndedOK, ClosedOK, SealOK,
             CloseOK
    <3>7. AllEnded(log', End')
      BY <1>2, <1>3, <2>2, <3>3 DEF AllEnded
    <3>8. \A k \in p + 1 .. End' : EventOK(log', k) /\ CloseOK(log', k)
      BY <3>4, <3>6
    <3> QED BY ONLY <1>2, <2>2, <3>1, <3>3, <3>4, <3>7, <3>8
  <2> QED BY <2>1, <2>2
<1>5. \A k \in End + 1 .. End' : EventOK(log', k) /\ CloseOK(log', k)
  <2>1. \A k \in End + 1 .. End' : k \in End + 1 .. m \/ k \in m + 1 .. p \/ k \in p + 1 .. End'
    BY ONLY <1>1, <1>2, <1>4
  <2> QED BY <1>1, <1>2, <1>4, <2>1
<1>6. WellFormed(log')
  BY <1>1, <1>5, WellFormedExtends
<1> QED BY <1>4, <1>5, <1>6

(* A turn whose usage nobody logged is the open one.                        *)
LEMMA UnknownIsUnmeasured ==
  ASSUME NEW l \in Seq(Event), WellFormed(l)
  PROVE  UsageUnknown(l) <=> Unmeasured(l, Len(l))
<1>1. Len(l) \in 0 .. Len(l)
  BY LenProperties
<1>2. Turns(l, "turn.ended", Len(l)) \subseteq Turns(l, "usage", Len(l))
  BY <1>1, WellFormedTurns
<1>3. CASE OpenTurn(l) = NoTurn
  BY <1>2, <1>3, OpenTurnIsOpen DEF UsageUnknown, Unmeasured, AllEnded
<1>4. CASE OpenTurn(l) # NoTurn
  <2>1. /\ OpenTurn(l) \in Turns(l, "turn.started", Len(l))
        /\ Turns(l, "turn.started", Len(l)) \subseteq
             Turns(l, "turn.ended", Len(l)) \cup {OpenTurn(l)}
        /\ OpenUsageRecorded(l) <=> OpenTurn(l) \in Turns(l, "usage", Len(l))
    BY <1>4, OpenTurnIsOpen
  <2> QED BY <1>2, <1>4, <2>1 DEF UsageUnknown, Unmeasured
<1> QED BY <1>3, <1>4

(* What a restart finds and leaves alone.                                   *)
LEMMA StartMeets ==
  ASSUME Sound, Start
  PROVE  /\ ~Running /\ Running' /\ phase' = "up"
         /\ log \in Seq(Event) /\ WellFormed(log) /\ End = Len(log) /\ End \in Nat
         /\ synced \in Nat /\ synced <= End /\ synced' = End
         /\ active = NoTurn /\ ask = "none" /\ outbound = <<>>
         /\ \A r \in Requests : gate[r] # "pending"
         /\ UNCHANGED <<active, ask, attempts, told, gate, spent, acted, faults>>
<1>1. phase = "down" /\ phase' = "up" /\ synced' = Len(log)
  BY DEF Start, Opened
<1>2. UNCHANGED <<active, ask, attempts, told, gate, spent, acted, faults>>
  BY DEF Start, turnVars, outsideVars
<1>3. log \in Seq(Event) /\ WellFormed(log) /\ End = Len(log) /\ End \in Nat
  BY LenProperties DEF Sound, IInv, SoundLog, LogInv, LogTypes, End
<1>4. synced \in Nat /\ synced <= End
  <2>1. synced \in 0 .. Len(log)
    BY DEF Sound, IInv, LogInv, LogTypes
  <2> QED BY <1>3, <2>1
<1>5. /\ active = NoTurn /\ ask = "none" /\ outbound = <<>>
      /\ \A r \in Requests : gate[r] # "pending"
  BY <1>1 DEF Sound, SoundLog, DownInv
<1> QED BY <1>1, <1>2, <1>3, <1>4, <1>5 DEF Running

(* The events after m of a restart are the usage and the terminal event.    *)
LEMMA RecoversKinds ==
  ASSUME Sound, NEW m, NEW p, Recovers(m, p), NEW i \in End + 1 .. End'
  PROVE  \/ /\ i \in End + 1 .. m /\ log'[i].type = "resolved"
            /\ log'[i].req \in LeftPending(log) /\ log'[i].source = "process_exit"
         \/ log'[i].type = "usage" /\ log'[i].cumulative = RestoredUsage(log)
         \/ log'[i].type = "turn.ended"
<1>1. m \in Nat /\ p \in Nat /\ End \in Nat /\ End' \in Nat /\ End <= m
  BY DEF Recovers, Extends
<1>2. /\ p = m \/ p = m + 1
      /\ p # m => log'[m + 1] = Usage(OpenTurn(log), Null, RestoredUsage(log), FALSE)
  BY DEF Recovers
<1>3. /\ End' = p \/ End' = p + 1
      /\ End' # p => log'[p + 1] = Ended(OpenTurn(log), "stop_unconfirmed", "process_exit")
  BY DEF Recovers
<1>4. \/ i \in End + 1 .. m
      \/ i = m + 1 /\ p = m + 1
      \/ i = p + 1 /\ End' = p + 1
  <2>1. (p = m \/ p = m + 1) /\ (End' = p \/ End' = p + 1)
    BY <1>2, <1>3
  <2> QED BY ONLY <1>1, <2>1, i \in End + 1 .. End'
<1>5. CASE i \in End + 1 .. m
  BY <1>5 DEF Recovers, Resolves
<1>6. CASE i = m + 1 /\ p = m + 1
  <2>1. log'[i] = Usage(OpenTurn(log), Null, RestoredUsage(log), FALSE)
    <3>1. p # m
      BY ONLY <1>1, <1>6
    <3> QED BY <1>2, <1>6, <3>1
  <2> QED BY <2>1 DEF Usage
<1>7. CASE i = p + 1 /\ End' = p + 1
  <2>1. log'[i] = Ended(OpenTurn(log), "stop_unconfirmed", "process_exit")
    <3>1. End' # p
      BY ONLY <1>1, <1>7
    <3> QED BY <1>3, <1>7, <3>1
  <2> QED BY <2>1 DEF Ended
<1> QED BY <1>4, <1>5, <1>6, <1>7

(* No request is left pending, and every record agrees with the log.        *)
LEMMA StartRequests ==
  ASSUME Sound, Start, NEW m, NEW p, Recovers(m, p)
  PROVE  RequestInv'
<1>1. /\ Running' /\ phase' = "up" /\ log \in Seq(Event) /\ WellFormed(log) /\ End = Len(log)
      /\ \A r \in Requests : gate[r] # "pending"
      /\ gate' = gate
  BY StartMeets
<1>2. Reqs(log', "request", End') = Reqs(log, "request", End)
  BY RecoversSays
<1>3. \A r \in Requests : records'[r] =
        IF r \in LeftPending(log)
        THEN Record("resolved", RestoredRecord(log, r).turn, Refusal(r), "process_exit")
        ELSE RestoredRecord(log, r)
  BY DEF Start
<1>4. /\ LeftPending(log) = Reqs(log, "request", End) \ Reqs(log, "resolved", End)
      /\ \A r \in Requests \ LeftPending(log) :
           \/ RestoredRecord(log, r).state = "unknown" /\ r \notin Reqs(log, "request", End)
           \/ /\ RestoredRecord(log, r).state = "resolved"
              /\ Backed(log, End, Recorded(r, RestoredRecord(log, r).decision))
  BY <1>1, RestoredRequests
<1>5. ASSUME NEW r \in Requests
      PROVE  \/ records'[r].state = "unknown" /\ r \notin Reqs(log, "request", End)
             \/ /\ records'[r].state = "resolved"
                /\ Backed(log', End', Recorded(r, records'[r].decision))
  <2>1. CASE r \in LeftPending(log)
    <3>1. records'[r].state = "resolved" /\ records'[r].decision = Refusal(r)
      <4>1. records'[r] =
              Record("resolved", RestoredRecord(log, r).turn, Refusal(r), "process_exit")
        BY <1>3, <2>1
      <4> QED BY <4>1 DEF Record
    <3>2. Backed(log', m, Recorded(r, Refusal(r)))
      BY <2>1, RecoversUpTo
    <3>3. m \in Nat /\ End' \in Nat /\ m <= End'
      <4>1. /\ m \in Nat /\ p \in Nat /\ m <= p /\ p <= End' /\ End' \in Nat
        BY RecoversUpTo, RecoversCounted, RecoversSays DEF Extends
      <4> QED BY <4>1
    <3>4. Backed(log', End', Recorded(r, Refusal(r)))
      BY ONLY <3>2, <3>3, Monotone
    <3> QED BY <3>1, <3>4
  <2>2. CASE r \notin LeftPending(log)
    <3>1. records'[r] = RestoredRecord(log, r)
      BY <1>3, <2>2
    <3>2. Extends
      BY DEF Recovers
    <3> QED BY <1>4, <2>2, <3>1, <3>2, ExtendsBacks
  <2> QED BY <2>1, <2>2
<1>6. \A r \in Requests : gate'[r] = "idle" => r \notin Reqs(log', "request", End')
  BY <1>1, <1>2 DEF Sound, SoundLog, RequestInv
<1> QED BY <1>1, <1>2, <1>5, <1>6 DEF RequestInv

(* A request that a restart refuses was never acted on.                     *)
LEMMA StartActed ==
  ASSUME Sound, Start, NEW m, NEW p, Recovers(m, p)
  PROVE  ActedInv'
<1>1. /\ Running' /\ ~Running /\ log \in Seq(Event) /\ WellFormed(log) /\ End = Len(log)
      /\ End \in Nat /\ synced \in Nat /\ synced <= End /\ synced' = End
      /\ \A r \in Requests : gate[r] # "pending"
      /\ UNCHANGED <<gate, acted, faults>>
  BY StartMeets
<1> SUFFICES ASSUME faults = 0
             PROVE  /\ \A k \in 1 .. End' : CloseOK(log', k)
                    /\ \A q \in acted : AllowedIn(log', End, q)
                    /\ \A q \in Requests : gate[q] = "allow" => q \in acted
                    /\ \A i \in 1 .. End' : log'[i].type = "resolved" =>
                         gate[log'[i].req] \in
                           IF log'[i].source = "client" /\ Allows(log'[i].decision)
                           THEN {"allow", "gone"} ELSE {"deny", "gone"}
  BY <1>1 DEF ActedInv
<1>2. Extends
  BY DEF Recovers
<1>3. ActedInv /\ acted \subseteq Requests
      /\ gate \in [Requests -> {"idle", "pending", "allow", "deny", "gone"}]
  BY DEF Sound, SoundLog, IInv, StateTypes, OutsideTypes, GateTypes
<1>4. \A k \in 1 .. End' : CloseOK(log', k)
  <2>1. \A k \in End + 1 .. End' : CloseOK(log', k)
    BY RecoversSays
  <2> QED BY <1>2, <1>3, <2>1, CloseExtends DEF ActedInv
<1>5. \A q \in acted : AllowedIn(log, End, q)
  <2>1. \A q : AllowedIn(log, synced, q) => AllowedIn(log, End, q)
    BY ONLY <1>1, Monotone
  <2> QED BY <1>3, <2>1 DEF ActedInv
<1>6. \A q \in acted : AllowedIn(log', End, q)
  <2>1. End \in 0 .. End
    BY <1>1
  <2> QED BY <1>2, <1>5, <2>1, ExtendsKeeps
<1>7. \A q \in Requests : gate[q] = "allow" => q \in acted
  BY <1>1, <1>3 DEF ActedInv
<1>8. ASSUME NEW i \in 1 .. End', log'[i].type = "resolved"
      PROVE  gate[log'[i].req] \in
               IF log'[i].source = "client" /\ Allows(log'[i].decision)
               THEN {"allow", "gone"} ELSE {"deny", "gone"}
  <2>1. CASE i \in 1 .. End
    <3>1. log'[i] = log[i]
      BY <1>2, <2>1 DEF Extends
    <3> QED BY <1>3, <1>8, <2>1, <3>1 DEF ActedInv
  <2>2. CASE i \in End + 1 .. End'
    <3>1. log'[i].req \in LeftPending(log) /\ log'[i].source = "process_exit"
      BY <1>8, <2>2, RecoversKinds
    <3>2. PICK r \in Requests : r = log'[i].req /\ r \in LeftPending(log)
      BY <3>1 DEF LeftPending
    <3>3. r \in Reqs(log, "request", End) /\ r \notin Reqs(log, "resolved", End)
      BY <1>1, <3>2, RestoredRequests
    <3>4. gate[r] # "idle"
      BY <3>3 DEF Sound, SoundLog, RequestInv
    <3>5. gate[r] # "allow"
      <4> SUFFICES ASSUME gate[r] = "allow" PROVE FALSE
        OBVIOUS
      <4>1. AllowedIn(log, End, r)
        BY <1>5, <1>7
      <4> QED BY <3>3, <4>1 DEF AllowedIn, Reqs
    <3> QED BY <1>1, <1>3, <3>1, <3>2, <3>4, <3>5
  <2>3. i \in 1 .. End \/ i \in End + 1 .. End'
    BY ONLY <1>1, i \in 1 .. End'
  <2> QED BY <2>1, <2>2, <2>3
<1> QED BY <1>4, <1>6, <1>7, <1>8

(* The total a restart reads off the log is the one that was spent, or is   *)
(* said to be partial.                                                      *)
LEMMA StartUsage ==
  ASSUME Sound, Start, NEW m, NEW p, Recovers(m, p)
  PROVE  UsageInv'
<1>1. /\ Running' /\ log \in Seq(Event) /\ WellFormed(log) /\ End = Len(log)
      /\ End \in Nat /\ synced \in Nat /\ synced <= End /\ synced' = End
      /\ active = NoTurn /\ ask = "none"
      /\ UNCHANGED <<active, ask, attempts, spent>>
  BY StartMeets
<1>2. /\ usage' = RestoredUsage(log)
      /\ complete' = (RestoredComplete(log) /\ ~UsageUnknown(log))
  BY DEF Start
<1>3. UsageInv /\ spent \in Nat /\ RestoredUsage(log) \in Nat
  BY <1>1, RestoredTypes DEF Sound, SoundLog, IInv, StateTypes, OutsideTypes
<1>4. /\ TotalIs(log, End, RestoredUsage(log))
      /\ RestoredComplete(log) <=> ~Partial(log, End)
  BY <1>1, RestoredTotal
<1>5. RestoredUsage(log) <= spent
  <2>1. CASE RestoredUsage(log) = 0
    BY <1>3, <2>1
  <2>2. CASE RestoredUsage(log) # 0
    <3>1. PICK i \in 1 .. End : log[i].type = "usage" /\ log[i].cumulative = RestoredUsage(log)
      BY <1>4, <2>2 DEF TotalIs
    <3> QED BY <1>3, <3>1 DEF UsageInv
  <2> QED BY <2>1, <2>2
<1>6. UsageUnknown(log) <=> Unmeasured(log, End)
  BY <1>1, UnknownIsUnmeasured
<1>7. \A i \in 1 .. End' : log'[i].type = "usage" => log'[i].cumulative <= spent
  <2> SUFFICES ASSUME NEW i \in 1 .. End', log'[i].type = "usage"
               PROVE  log'[i].cumulative <= spent
    OBVIOUS
  <2>1. CASE i \in 1 .. End
    <3>1. log'[i] = log[i]
      BY <2>1 DEF Recovers, Extends
    <3> QED BY <1>3, <2>1, <3>1 DEF UsageInv
  <2>2. CASE i \in End + 1 .. End'
    <3>1. log'[i].cumulative = RestoredUsage(log)
      BY <2>2, RecoversKinds
    <3> QED BY <1>5, <3>1
  <2>3. i \in 1 .. End \/ i \in End + 1 .. End'
    BY ONLY <1>1, i \in 1 .. End'
  <2> QED BY <2>1, <2>2, <2>3
<1>8. /\ m \in Nat /\ p \in Nat /\ End' \in Nat /\ End <= m /\ m <= p /\ p <= End'
      /\ End' \in {p, p + 1} /\ Extends /\ Quiet(log', End, m)
  BY RecoversUpTo, RecoversCounted, RecoversSays DEF Extends
<1>9. ASSUME NEW k \in End .. End'
      PROVE  Loose(k)' \/ TotalIs(log', k, spent)
  <2>1. k \in Nat /\ End <= k /\ k <= End'
    BY <1>1, <1>8
  <2>2. Loose(End) \/ TotalIs(log, End, spent)
    <3>1. End \in synced .. End
      BY <1>1
    <3> QED BY <1>3, <3>1 DEF UsageInv
  <2>3. CASE ~UsageUnknown(log) /\ ~Partial(log, End)
    <3>1. TotalIs(log, End, spent)
      BY <1>6, <2>2, <2>3 DEF Loose
    <3>2. \A i \in End + 1 .. k : log'[i].type # "usage"
      <4> SUFFICES ASSUME NEW i \in End + 1 .. k, log'[i].type = "usage" PROVE FALSE
        OBVIOUS
      <4>1. p = m /\ End' \in {m, m + 1}
        BY <1>8, <2>3 DEF Recovers
      <4>2. i \in End + 1 .. m \/ (i = m + 1 /\ End' = p + 1)
        BY ONLY <1>1, <1>8, <2>1, <4>1, i \in End + 1 .. k
      <4>3. CASE i \in End + 1 .. m
        BY <4>3 DEF Recovers, Resolves
      <4>4. CASE i = m + 1 /\ End' = p + 1
        <5>1. End' # p
          BY <1>8, <4>4
        <5>2. log'[p + 1] = Ended(OpenTurn(log), "stop_unconfirmed", "process_exit")
          BY <5>1 DEF Recovers
        <5> QED BY <4>1, <4>4, <5>2 DEF Ended
      <4> QED BY <4>2, <4>3, <4>4
    <3>3. TotalIs(log', End, spent)
      <4>1. End \in 0 .. End
        BY <1>1
      <4> QED BY <1>8, <3>1, <4>1, ExtendsKeeps
    <3>4. TotalIs(log', k, spent)
      <4>1. CASE \A i \in 1 .. End : log'[i].type # "usage"
        <5>1. \A i \in 1 .. k : i \in 1 .. End \/ i \in End + 1 .. k
          BY <1>1, <2>1
        <5>2. spent = 0
          BY <3>3, <4>1 DEF TotalIs
        <5> QED BY <3>2, <4>1, <5>1, <5>2 DEF TotalIs
      <4>2. ASSUME NEW i \in 1 .. End, log'[i].type = "usage", log'[i].cumulative = spent,
                   \A j \in i + 1 .. End : log'[j].type # "usage"
            PROVE  TotalIs(log', k, spent)
        <5>1. i \in 1 .. k /\ \A j \in i + 1 .. k : j \in i + 1 .. End \/ j \in End + 1 .. k
          BY <1>1, <2>1
        <5>2. \A j \in i + 1 .. k : log'[j].type # "usage"
          BY <3>2, <4>2, <5>1
        <5> QED BY <4>2, <5>1, <5>2 DEF TotalIs
      <4> QED BY <3>3, <4>1, <4>2 DEF TotalIs
    <3> QED BY <3>4
  <2>4. CASE Partial(log, End)
    <3>1. Partial(log', End)
      <4>1. End \in 0 .. End
        BY <1>1
      <4> QED BY <1>8, <2>4, <4>1, ExtendsKeeps
    <3>2. Partial(log', k)
      BY ONLY <1>1, <2>1, <3>1, Monotone
    <3> QED BY <3>2 DEF Loose
  <2>5. CASE UsageUnknown(log)
    <3>1. p = m + 1
      BY <2>5 DEF Recovers
    <3>2. CASE k <= m
      <4>1. Quiet(log', End, k)
        BY ONLY <1>1, <1>8, <2>1, <3>2 DEF Quiet
      <4>2. Unmeasured(log', k) <=> Unmeasured(log, End)
        BY ONLY <1>8, <2>1, <4>1, QuietFacts
      <4> QED BY <1>6, <2>5, <4>2 DEF Loose
    <3>3. CASE p <= k
      <4>1. Partial(log', p)
        BY <2>5, RecoversCounted
      <4>2. Partial(log', k)
        BY ONLY <1>8, <2>1, <3>3, <4>1, Monotone
      <4> QED BY <4>2 DEF Loose
    <3> QED BY <1>8, <2>1, <3>1, <3>2, <3>3
  <2> QED BY <2>3, <2>4, <2>5
<1>10. TotalIs(log', End', usage')
  BY <1>2, RecoversSays
<1>11. complete' <=> ~Partial(log', End')
  <2>1. Partial(log', End') <=> Partial(log, End) \/ UsageUnknown(log)
    BY RecoversSays
  <2> QED BY <1>2, <1>4, <2>1
<1>12. complete' => usage' = spent
  <2> SUFFICES ASSUME complete' PROVE RestoredUsage(log) = spent
    BY <1>2
  <2>1. ~Loose(End)
    BY <1>2, <1>4, <1>6 DEF Loose
  <2>2. End \in synced .. End
    BY <1>1
  <2>3. TotalIs(log, End, spent)
    BY <1>3, <2>1, <2>2 DEF UsageInv
  <2> QED BY ONLY <1>1, <1>4, <2>3, TotalIsUnique
<1>13. /\ usage' + (IF active' = NoTurn THEN 0 ELSE attempts') <= spent'
       /\ complete' => usage' + (IF active' = NoTurn THEN 0 ELSE attempts') = spent'
  BY <1>1, <1>2, <1>3, <1>5, <1>12
<1>14. ask' \notin {"running", "abandoned"}
  BY <1>1
<1>15. /\ \A i \in 1 .. End' : log'[i].type = "usage" => log'[i].cumulative <= spent'
       /\ \A k \in synced' .. End' : Loose(k)' \/ TotalIs(log', k, spent')
  BY <1>1, <1>7, <1>9
<1> QED BY <1>10, <1>11, <1>13, <1>14, <1>15 DEF UsageInv

(* A new process opens a log that was sound, and closes what is open in it. *)
LEMMA StartKeepsSound ==
  ASSUME Sound, Start
  PROVE  SoundLog'
<1>1. PICK order \in ApprovalsFirst(LeftPending(log)) :
        /\ log' = log \o Recovery(log, order)
        /\ \E m, p \in Nat : Recovers(m, p)
        /\ IF Recovery(log, order) = <<>> THEN outbound' = outbound
           ELSE EmitAndFlush(Recovery(log, order))
  BY StartRecovers
<1>2. PICK m \in Nat, p \in Nat : Recovers(m, p)
  BY <1>1
<1>3. /\ Running' /\ ~Running /\ phase' = "up" /\ log \in Seq(Event) /\ WellFormed(log)
      /\ End = Len(log) /\ End \in Nat /\ synced \in Nat /\ synced <= End /\ synced' = End
      /\ active = NoTurn /\ ask = "none" /\ outbound = <<>>
      /\ UNCHANGED <<active, ask, told, faults>>
  BY StartMeets
<1>4. /\ WellFormed(log') /\ AllEnded(log', End')
      /\ Count(log', End') = Count(log, End)
      /\ Dead(log', End') <=> Dead(log, End) \/ OpenTurn(log) # NoTurn
      /\ OpenTurn(log) = NoTurn => (Standing(log', End') <=> Standing(log, End))
  BY <1>2, RecoversSays
<1>5. DownInv'
  BY <1>3 DEF DownInv, Running
<1>6. TurnInv'
  <2>1. turns' = Cardinality(At(log, "turn.started"))
    BY DEF Start
  <2>2. turns' = Count(log, End)
    <3>1. DOMAIN log = 1 .. End
      BY <1>3, LenProperties
    <3> QED BY <2>1, <3>1 DEF At, Count
  <2> QED BY <1>3, <1>4, <2>2 DEF TurnInv
<1>7. AskInv'
  BY <1>3 DEF AskInv
<1>8. RequestInv' /\ ActedInv' /\ UsageInv'
  BY <1>2, StartRequests, StartActed, StartUsage
<1>9. Extends
  BY <1>2 DEF Recovers
<1>10. PICK es \in Seq(Event) : es = Recovery(log, order)
  BY <1>3, RecoveryIsEvents
<1>11. /\ \A k \in DOMAIN outbound' : outbound'[k].told = {}
       /\ outbound' = <<>> => es = <<>>
  <2>1. CASE es = <<>>
    BY <1>1, <1>3, <1>10, <2>1
  <2>2. CASE es # <<>>
    <3>1. EmitAndFlush(es) /\ LogInv
      BY <1>1, <1>10, <2>2 DEF Sound, IInv
    <3>2. Adds(es, {})
      BY <3>1, EmitAdds
    <3>3. DOMAIN outbound = {}
      BY <1>3
    <3> QED BY <2>2, <3>2, <3>3 DEF Adds
  <2> QED BY <2>1, <2>2
<1>12. ReplyInv'
  <2>1. \A x \in told : Backed(log', End, x)
    <3>1. \A x : Backed(log, synced, x) => Backed(log, End, x)
      BY ONLY <1>3, Monotone
    <3>2. End \in 0 .. End
      BY <1>3
    <3>3. \A x : Backed(log', End, x) = Backed(log, End, x)
      BY <1>9, <3>2, ExtendsKeeps
    <3> QED BY <3>1, <3>3 DEF Sound, SoundLog, ReplyInv
  <2> QED BY <1>3, <1>11, <2>1 DEF ReplyInv
<1>13. BlockInv'
  <2>1. blocked' = IF OpenTurn(log) # NoTurn THEN "sticky" ELSE RestoredBlock(log)
    BY DEF Start
  <2>2. /\ Dead(log, End) => RestoredBlock(log) = "sticky"
        /\ RestoredBlock(log) = "no" => ~Standing(log, End)
    BY <1>3, RestoredBlocks
  <2> QED BY <1>4, <2>1, <2>2 DEF BlockInv
<1>14. DurableInv'
  <2>1. outbound' = <<>> => synced' = End'
    <3> SUFFICES ASSUME outbound' = <<>> PROVE synced' = End'
      OBVIOUS
    <3>1. log' = log
      BY <1>1, <1>3, <1>10, <1>11, ConcatEmptySeq
    <3> QED BY <1>3, <3>1 DEF End
  <2> QED BY <1>3, <2>1 DEF DurableInv
<1> QED BY <1>4, <1>5, <1>6, <1>7, <1>8, <1>12, <1>13, <1>14 DEF SoundLog

-----------------------------------------------------------------------------
(* The inductive invariant                                                 *)

(* Every part of the invariant holds of the empty log.                      *)
LEMMA InitIsSound == Init => Sound
<1> SUFFICES ASSUME Init PROVE SoundLog
  BY InitIsInv DEF Sound
<1>1. /\ log = <<>> /\ End = 0 /\ 1 .. 0 = {} /\ phase = "down" /\ synced = 0 /\ spent = 0
      /\ active = NoTurn /\ ask = "none" /\ duty = "none" /\ outbound = <<>> /\ told = {}
      /\ acted = {} /\ \A r \in Requests : gate[r] = "idle"
  BY DEF Init, End
<1>2. ~Running
  BY <1>1 DEF Running
<1>3. WellFormed(log)
  BY <1>1 DEF WellFormed, End
<1>4. DownInv /\ TurnInv /\ AskInv /\ BlockInv /\ DurableInv
  BY <1>1, <1>2 DEF DownInv, TurnInv, AskInv, BlockInv, DurableInv
<1>5. RequestInv
  BY <1>1, <1>2 DEF RequestInv, Reqs
<1>6. ReplyInv
  BY <1>1 DEF ReplyInv
<1>7. ActedInv
  BY <1>1 DEF ActedInv
<1>8. UsageInv
  <2>1. \A k \in 0 .. 0 : TotalIs(log, k, 0)
    BY <1>1 DEF TotalIs
  <2> QED BY <1>1, <1>2, <2>1 DEF UsageInv
<1> QED BY <1>3, <1>4, <1>5, <1>6, <1>7, <1>8 DEF SoundLog

(* A step that changes nothing.                                             *)
LEMMA StutterKeepsSound ==
  ASSUME Sound, UNCHANGED vars
  PROVE  SoundLog'
<1>1. /\ log' = log /\ End' = End /\ UNCHANGED <<outbound, duty, synced, told, active, ask,
         attempts, records, gate, usage, complete, turns, phase, blocked, acted, spent, faults>>
  BY DEF vars, logVars, clientVars, turnVars, gateVars, usageVars, lifeVars, outsideVars,
         boundVars, End
<1>2. Running' = Running /\ \A k : Loose(k)' = Loose(k)
  BY <1>1 DEF Running, Loose
<1>3. WellFormed(log') /\ DownInv' /\ TurnInv' /\ AskInv' /\ ReplyInv'
  BY <1>1, <1>2 DEF Sound, SoundLog, DownInv, TurnInv, AskInv, ReplyInv
<1>4. RequestInv'
  BY <1>1, <1>2 DEF Sound, SoundLog, RequestInv
<1>5. BlockInv' /\ DurableInv' /\ ActedInv'
  BY <1>1, <1>2 DEF Sound, SoundLog, BlockInv, DurableInv, ActedInv
<1>6. UsageInv'
  BY <1>1, <1>2 DEF Sound, SoundLog, UsageInv
<1> QED BY <1>3, <1>4, <1>5, <1>6 DEF SoundLog

(* Every step keeps the invariant, handler by handler.                      *)
LEMMA StepKeepsSound == Sound /\ [Next]_vars => Sound'
<1> SUFFICES ASSUME Sound, [Next]_vars PROVE SoundLog'
  BY StepKeepsInv DEF Sound
<1>1. CASE UNCHANGED vars
  BY <1>1, StutterKeepsSound
<1>2. CASE Flush \/ FlushFails
  BY <1>2, FlushKeepsSound, FlushFailsKeepsSound
<1>3. CASE Command
  <2>1. CASE Initialize \/ Cancel \/ Replay \/ \E r \in Requests : AlreadyResolved(r)
    BY <2>1, QuietCommand
  <2>2. CASE Prompt
    BY <2>2, PromptKeeps
  <2>3. ASSUME NEW r \in Requests, NEW d \in Words, ApprovalRespond(r, d) \/ QuestionAnswer(r, d)
        PROVE  SoundLog'
    BY <2>3, AnswerKeeps
  <2> QED BY <1>3, <2>1, <2>2, <2>3 DEF Command
<1>4. CASE Engine \/ Deadline
  <2>1. CASE EngineEvent \/ LateReturn \/ Deadline \/ \E r \in Requests : GateAbort(r)
    BY <2>1, QuietEngine
  <2>2. ASSUME NEW status \in Statuses, NEW confirmed \in BOOLEAN, EngineReturn(status, confirmed)
        PROVE  SoundLog'
    BY <2>2, EngineReturnKeeps
  <2>3. ASSUME NEW r \in Requests, GateRequest(r)
        PROVE  SoundLog'
    BY <2>3, GateRequestKeeps
  <2> QED BY <1>4, <2>1, <2>2, <2>3 DEF Engine
<1>5. CASE Closing
  <2>1. CASE Shutdown \/ Teardown
    BY <2>1, QuietClosing
  <2>2. CASE ShutdownTimeout
    BY <2>2, ShutdownTimeoutKeeps
  <2>3. ASSUME NEW ok \in BOOLEAN, EngineClosed(ok)
        PROVE  SoundLog'
    BY <2>3, EngineClosedKeeps
  <2> QED BY <1>5, <2>1, <2>2, <2>3 DEF Closing
<1>6. CASE Exit \/ Crash
  BY <1>6, EndKeepsSound
<1>7. CASE Start
  BY <1>7, StartKeepsSound
<1> QED BY <1>1, <1>2, <1>3, <1>4, <1>5, <1>6, <1>7 DEF Next

(* The invariant holds of every reachable state.                            *)
LEMMA SoundHolds == Spec => []Sound
BY InitIsSound, StepKeepsSound, PTL DEF Spec

-----------------------------------------------------------------------------
(* What a sound log promises                                               *)

(* What the invariant says of a log, in the terms of the properties.        *)
LEMMA LogIsFit ==
  ASSUME Sound
  PROVE  /\ log \in Seq(Event) /\ End = Len(log) /\ End \in Nat /\ DOMAIN log = 1 .. End
         /\ synced \in Nat /\ synced <= End
         /\ \A k \in 1 .. End :
              /\ EventOK(log, k) /\ k - 1 \in Nat /\ k - 1 \in 0 .. Len(log)
              /\ \A i \in 1 .. End : i < k <=> i \in 1 .. k - 1
              /\ \A i \in 1 .. k - 1 : i \in 1 .. End /\ i < k
<1>1. log \in Seq(Event) /\ End = Len(log) /\ End \in Nat /\ DOMAIN log = 1 .. End
  BY LenProperties DEF Sound, IInv, LogInv, LogTypes, End
<1>2. synced \in Nat /\ synced <= End
  <2>1. synced \in 0 .. Len(log)
    BY DEF Sound, IInv, LogInv, LogTypes
  <2> QED BY <1>1, <2>1
<1>3. \A k \in 1 .. End : EventOK(log, k)
  BY <1>1 DEF Sound, SoundLog, WellFormed
<1>4. \A k \in 1 .. End : /\ k - 1 \in Nat /\ k - 1 \in 0 .. Len(log)
                          /\ \A i \in 1 .. End : i < k <=> i \in 1 .. k - 1
                          /\ \A i \in 1 .. k - 1 : i \in 1 .. End /\ i < k
  BY <1>1
<1> QED BY <1>1, <1>2, <1>3, <1>4

(* A turn is started once, a request is asked once and answered once.       *)
LEMMA OnlyOnce ==
  ASSUME Sound, NEW i \in 1 .. End, NEW j \in 1 .. End
  PROVE  /\ log[i].type = "turn.started" /\ log[j].type = "turn.started"
              /\ log[i].turn = log[j].turn => i = j
         /\ log[i].type = "usage" /\ log[j].type = "usage"
              /\ log[i].turn = log[j].turn => i = j
         /\ log[i].type = "request" /\ log[j].type = "request"
              /\ log[i].req = log[j].req => i = j
         /\ log[i].type = "resolved" /\ log[j].type = "resolved"
              /\ log[i].req = log[j].req => i = j
<1>1. ASSUME NEW a \in 1 .. End, NEW b \in 1 .. End, a < b, log[a].type = log[b].type
      PROVE  /\ log[b].type \in {"turn.started", "usage"} => log[a].turn # log[b].turn
             /\ log[b].type \in {"request", "resolved"} => log[a].req # log[b].req
  <2>1. /\ EventOK(log, b) /\ b - 1 \in Nat /\ b - 1 \in 0 .. Len(log) /\ a \in 1 .. b - 1
        /\ log \in Seq(Event)
    BY <1>1, LogIsFit
  <2>2. /\ log[a].turn \in Turns(log, log[b].type, b - 1)
        /\ log[a].req \in Reqs(log, log[b].type, b - 1)
    BY <1>1, <2>1 DEF Turns, Reqs
  <2>3. CASE log[b].type = "turn.started"
    <3>1. Turns(log, "turn.started", b - 1) \subseteq 1 .. Count(log, b - 1)
      BY <2>1, StartedUpTo DEF Sound, SoundLog
    <3>2. log[b].turn = Count(log, b - 1) + 1 /\ Count(log, b - 1) \in Nat
      BY <2>1, <2>3, CountIsNat DEF EventOK, StartedOK
    <3>3. log[b].turn \notin 1 .. Count(log, b - 1)
      BY <3>2
    <3> QED BY <2>2, <2>3, <3>1, <3>3
  <2>4. CASE log[b].type = "usage"
    BY <2>1, <2>2, <2>4 DEF EventOK, UsageOK
  <2>5. CASE log[b].type = "request"
    BY <2>1, <2>2, <2>5 DEF EventOK, RequestOK
  <2>6. CASE log[b].type = "resolved"
    BY <2>1, <2>2, <2>6 DEF EventOK, ResolvedOK
  <2> QED BY <2>3, <2>4, <2>5, <2>6
<1>2. i < j \/ j < i \/ i = j
  BY LogIsFit
<1>3. CASE i < j
  BY <1>1, <1>3
<1>4. CASE j < i
  BY <1>1, <1>4
<1> QED BY <1>2, <1>3, <1>4

(* A terminal event, or an answer, follows what it ends or answers.         *)
LEMMA EndsAfterStart ==
  ASSUME Sound, NEW s \in 1 .. End, log[s].type = "turn.started",
         NEW e \in 1 .. End, log[e].type = "turn.ended", log[e].turn = log[s].turn
  PROVE  s < e
<1>1. EventOK(log, e)
  BY LogIsFit
<1>2. PICK h \in 1 .. e - 1 : log[h].type = "turn.started" /\ log[h].turn = log[e].turn
  BY <1>1 DEF EventOK, EndedOK, Turns
<1>3. h \in 1 .. End /\ h < e
  BY LogIsFit
<1>4. h = s
  BY <1>2, <1>3, OnlyOnce
<1> QED BY <1>3, <1>4

(* An answer follows its request.                                           *)
LEMMA AnswersAfterRequest ==
  ASSUME Sound, NEW q \in 1 .. End, log[q].type = "request",
         NEW a \in 1 .. End, log[a].type = "resolved", log[a].req = log[q].req
  PROVE  q < a
<1>1. EventOK(log, a)
  BY LogIsFit
<1>2. PICK h \in 1 .. a - 1 : log[h].type = "request" /\ log[h].req = log[a].req
  BY <1>1 DEF EventOK, ResolvedOK, Reqs
<1>3. h \in 1 .. End /\ h < a
  BY LogIsFit
<1>4. h = q
  BY <1>2, <1>3, OnlyOnce
<1> QED BY <1>3, <1>4

(* What AllEnded and AllResolved say, event by event.                       *)
LEMMA AllEndedSays ==
  ASSUME Sound, NEW k \in 1 .. End, AllEnded(log, k - 1),
         NEW s \in 1 .. End, s < k, log[s].type = "turn.started"
  PROVE  Precedes(s, k, "turn.ended", log[s].turn)
<1>1. s \in 1 .. k - 1
  BY LogIsFit
<1>2. log[s].turn \in Turns(log, "turn.started", k - 1)
  BY <1>1 DEF Turns
<1>3. PICK e \in 1 .. k - 1 : log[e].type = "turn.ended" /\ log[e].turn = log[s].turn
  BY <1>2 DEF AllEnded, Turns
<1>4. e \in 1 .. End /\ e < k /\ DOMAIN log = 1 .. End
  BY LogIsFit
<1>5. s < e
  BY <1>3, <1>4, EndsAfterStart
<1> QED BY <1>3, <1>4, <1>5 DEF Precedes, At

(* What AllResolved says, event by event.                                   *)
LEMMA AllResolvedSays ==
  ASSUME Sound, NEW k \in 1 .. End, AllResolved(log, k - 1),
         NEW q \in 1 .. End, q < k, log[q].type = "request"
  PROVE  \E a \in At(log, "resolved") : q < a /\ a < k /\ log[a].req = log[q].req
<1>1. q \in 1 .. k - 1
  BY LogIsFit
<1>2. log[q].req \in Reqs(log, "request", k - 1)
  BY <1>1 DEF Reqs
<1>3. PICK a \in 1 .. k - 1 : log[a].type = "resolved" /\ log[a].req = log[q].req
  BY <1>2 DEF AllResolved, Reqs
<1>4. a \in 1 .. End /\ a < k /\ DOMAIN log = 1 .. End
  BY LogIsFit
<1>5. q < a
  BY <1>3, <1>4, AnswersAfterRequest
<1> QED BY <1>3, <1>4, <1>5 DEF At

-----------------------------------------------------------------------------
(* What a client, and whoever reads the log later, may rely on             *)

(* An answer the client was told was recorded, and a turn it was told was   *)
(* admitted, are in the durable log for good: no crash and no restart takes *)
(* one back or records a second answer.                                     *)
THEOREM AnswerFinality == Spec => []AnswersAreFinal
<1>1. Sound => AnswersAreFinal
  <2> SUFFICES ASSUME Sound PROVE AnswersAreFinal
    OBVIOUS
  <2>1. DOMAIN log = 1 .. End
    BY LogIsFit
  <2>2. \A i, j \in At(log, "resolved") : log[i].req = log[j].req => i = j
    BY <2>1, OnlyOnce DEF At
  <2>3. \A m \in told : Backed(log, synced, m)
    BY DEF Sound, SoundLog, ReplyInv
  <2> QED BY <2>2, <2>3 DEF AnswersAreFinal, Backed
<1> QED BY <1>1, SoundHolds, PTL

(* A turn ends once, after its only usage event and after every request it  *)
(* raised is answered; nothing of it follows, and no turn starts before the *)
(* one before it has ended, whichever process did either.                   *)
THEOREM TurnSeal == Spec => []TurnIsSealed
<1>1. ASSUME Sound, NEW i \in At(log, "turn.ended")
      PROVE  /\ Precedes(0, i, "turn.started", log[i].turn)
             /\ Cardinality({u \in At(log, "usage") : log[u].turn = log[i].turn}) = 1
             /\ \A q \in At(log, "request") : log[q].turn = log[i].turn =>
                  \E a \in At(log, "resolved") : q < a /\ a < i /\ log[a].req = log[q].req
             /\ \A j \in i + 1 .. Len(log) :
                  log[j].type # "session.closed" => log[j].turn # log[i].turn
  <2>1. DOMAIN log = 1 .. End /\ End \in Nat /\ End = Len(log)
    BY <1>1, LogIsFit
  <2>2. i \in 1 .. End /\ log[i].type = "turn.ended"
    BY <2>1 DEF At
  <2>3. /\ EventOK(log, i) /\ \A h \in 1 .. i - 1 : h \in 1 .. End /\ h < i
        /\ \A h \in 1 .. End : h < i <=> h \in 1 .. i - 1
    BY <1>1, <2>2, LogIsFit
  <2>4. /\ log[i].turn \in Turns(log, "turn.started", i - 1) \cap Turns(log, "usage", i - 1)
        /\ AllResolved(log, i - 1)
    BY <2>2, <2>3 DEF EventOK, EndedOK
  <2>5. Precedes(0, i, "turn.started", log[i].turn)
    <3>1. PICK h \in 1 .. i - 1 : log[h].type = "turn.started" /\ log[h].turn = log[i].turn
      BY <2>4 DEF Turns
    <3>2. h \in 1 .. End /\ h < i /\ 0 < h
      BY <2>1, <2>3
    <3> QED BY <2>1, <3>1, <3>2 DEF Precedes, At
  <2>6. Cardinality({u \in At(log, "usage") : log[u].turn = log[i].turn}) = 1
    <3>1. PICK h \in 1 .. i - 1 : log[h].type = "usage" /\ log[h].turn = log[i].turn
      BY <2>4 DEF Turns
    <3>2. h \in 1 .. End
      BY <2>3
    <3>3. {u \in At(log, "usage") : log[u].turn = log[i].turn} = {h}
      BY <1>1, <2>1, <3>1, <3>2, OnlyOnce DEF At
    <3> QED BY <3>3, FS_Singleton
  <2>7. ASSUME NEW j \in 1 .. End, i < j, log[j].type # "session.closed"
        PROVE  log[j].turn # log[i].turn
    <3>1. EventOK(log, j) /\ i \in 1 .. j - 1
      BY <1>1, <2>2, <2>7, LogIsFit
    <3>2. log[i].turn \in Turns(log, "turn.ended", j - 1)
      BY <2>2, <3>1 DEF Turns
    <3> QED BY <2>7, <3>1, <3>2 DEF EventOK, SealOK
  <2>8. ASSUME NEW q \in At(log, "request"), log[q].turn = log[i].turn
        PROVE  \E a \in At(log, "resolved") : q < a /\ a < i /\ log[a].req = log[q].req
    <3>1. q \in 1 .. End /\ log[q].type = "request"
      BY <2>1 DEF At
    <3>2. q # i /\ ~ (i < q)
      BY <2>2, <2>7, <2>8, <3>1
    <3>3. q < i
      BY <2>1, <2>2, <3>1, <3>2
    <3> QED BY <1>1, <2>2, <2>4, <3>1, <3>3, AllResolvedSays
  <2>9. \A j \in i + 1 .. Len(log) : j \in 1 .. End /\ i < j
    BY <2>1, <2>2
  <2> QED BY <2>5, <2>6, <2>7, <2>8, <2>9
<1>2. ASSUME Sound, NEW i \in At(log, "turn.started"), NEW j \in At(log, "turn.started"), i < j
      PROVE  Precedes(i, j, "turn.ended", log[i].turn)
  <2>1. /\ i \in 1 .. End /\ log[i].type = "turn.started"
        /\ j \in 1 .. End /\ log[j].type = "turn.started"
    BY <1>2, LogIsFit DEF At
  <2>2. AllEnded(log, j - 1)
    <3>1. EventOK(log, j)
      BY <1>2, <2>1, LogIsFit
    <3> QED BY <2>1, <3>1 DEF EventOK, StartedOK
  <2> QED BY <1>2, <2>1, <2>2, AllEndedSays
<1>3. Sound => TurnIsSealed
  BY <1>1, <1>2 DEF TurnIsSealed
<1> QED BY <1>3, SoundHolds, PTL

(* A turn some process died in blocks the session for good: no number of    *)
(* restarts and clean shutdowns lets another turn start.                    *)
THEOREM DeadTurnBlocks == Spec => []DeadTurnBlocksForGood
<1>1. ASSUME Sound, NEW i \in At(log, "turn.ended"), NEW j \in At(log, "turn.started"),
             log[i].reason = "process_exit"
      PROVE  j < i
  <2>1. /\ i \in 1 .. End /\ log[i].type = "turn.ended" /\ End \in Nat
        /\ j \in 1 .. End /\ log[j].type = "turn.started"
    BY <1>1, LogIsFit DEF At
  <2>2. ~ (i < j)
    <3> SUFFICES ASSUME i < j PROVE FALSE
      OBVIOUS
    <3>1. EventOK(log, j) /\ i \in 1 .. j - 1
      BY <1>1, <2>1, LogIsFit
    <3>2. Dead(log, j - 1)
      BY <1>1, <2>1, <3>1 DEF Dead
    <3> QED BY <2>1, <3>1, <3>2 DEF EventOK, StartedOK
  <2>3. i # j
    BY <2>1
  <2> QED BY <2>1, <2>2, <2>3
<1>2. Sound => DeadTurnBlocksForGood
  BY <1>1 DEF DeadTurnBlocksForGood
<1> QED BY <1>2, SoundHolds, PTL

(* After an unconfirmed stop no turn starts until a process has closed the  *)
(* session without an error.                                                *)
THEOREM UnconfirmedStopBlocks == Spec => []LiveStopBlocks
<1>1. ASSUME Sound, NEW i \in Unconfirmed(log), NEW j \in At(log, "turn.started"), i < j
      PROVE  \E c \in At(log, "session.closed") : i < c /\ c < j /\ ~log[c].error
  <2>1. /\ i \in 1 .. End /\ log[i].type = "turn.ended" /\ log[i].how = "stop_unconfirmed"
        /\ j \in 1 .. End /\ log[j].type = "turn.started" /\ End \in Nat
        /\ DOMAIN log = 1 .. End
    BY <1>1, LogIsFit DEF At, Unconfirmed
  <2>2. EventOK(log, j) /\ i \in 1 .. j - 1
    BY <1>1, <2>1, LogIsFit
  <2>3. ~Standing(log, j - 1)
    BY <2>1, <2>2 DEF EventOK, StartedOK
  <2>4. PICK c \in i + 1 .. j - 1 : log[c].type = "session.closed" /\ ~log[c].error
    BY <2>1, <2>2, <2>3 DEF Standing
  <2>5. c \in 1 .. End /\ i < c /\ c < j
    BY <2>1
  <2> QED BY <2>1, <2>4, <2>5 DEF At
<1>2. Sound => LiveStopBlocks
  BY <1>1 DEF LiveStopBlocks
<1> QED BY <1>2, SoundHolds, PTL

(* The total of the session never exceeds what was spent, and it is exact   *)
(* as long as it is said to be complete, across crashes and restarts.       *)
THEOREM HonestUsage == Spec => []UsageIsHonest
<1>1. Sound => UsageIsHonest
  <2> SUFFICES ASSUME Sound, AtRest
               PROVE  /\ usage <= spent
                      /\ complete => usage + (IF active = NoTurn THEN 0 ELSE attempts) = spent
    BY DEF UsageIsHonest
  <2>1. Running
    BY DEF AtRest, Running
  <2>2. /\ usage + (IF active = NoTurn THEN 0 ELSE attempts) <= spent
        /\ complete => usage + (IF active = NoTurn THEN 0 ELSE attempts) = spent
    BY <2>1 DEF Sound, SoundLog, UsageInv
  <2>3. usage \in Nat /\ spent \in Nat /\ attempts \in Nat
    BY DEF Sound, IInv, StateTypes, UsageTypes, OutsideTypes, TurnTypes
  <2> QED BY <2>2, <2>3
<1> QED BY <1>1, SoundHolds, PTL

(* As long as no fsync has failed, the engine acts only on an allow of the  *)
(* client that is durable, and it is told of every other answer that it is  *)
(* refused.                                                                 *)
THEOREM GateAgreement == Spec => [](faults = 0 => GateAgreesWithLog)
<1>1. Sound => (faults = 0 => GateAgreesWithLog)
  <2> SUFFICES ASSUME Sound, faults = 0 PROVE GateAgreesWithLog
    OBVIOUS
  <2>1. DOMAIN log = 1 .. End /\ End \in Nat /\ synced \in Nat /\ synced <= End
    BY LogIsFit
  <2>2. ActedInv
    BY DEF Sound, SoundLog
  <2>3. ASSUME NEW r \in acted
        PROVE  \E i \in At(log, "resolved") :
                 /\ i <= synced /\ log[i].req = r
                 /\ log[i].source = "client" /\ Allows(log[i].decision)
    <3>1. PICK i \in 1 .. synced :
            /\ log[i].type = "resolved" /\ log[i].req = r
            /\ log[i].source = "client" /\ Allows(log[i].decision)
      BY <2>2 DEF ActedInv, AllowedIn
    <3>2. i \in 1 .. End /\ i <= synced
      BY <2>1
    <3> QED BY <2>1, <3>1, <3>2 DEF At
  <2>4. \A i \in At(log, "resolved") :
          gate[log[i].req] \in
            IF log[i].source = "client" /\ Allows(log[i].decision)
            THEN {"allow", "gone"} ELSE {"deny", "gone"}
    BY <2>1, <2>2 DEF ActedInv, At
  <2> QED BY <2>3, <2>4 DEF GateAgreesWithLog
<1> QED BY <1>1, SoundHolds, PTL

(* As long as no fsync has failed, session.closed is logged when every turn *)
(* has its terminal event and every request its answer.                     *)
THEOREM CleanClose == Spec => [](faults = 0 => ClosedLeavesNothingOpen)
<1>1. ASSUME Sound, faults = 0, NEW c \in At(log, "session.closed")
      PROVE  /\ \A s \in At(log, "turn.started") :
                  s < c => Precedes(s, c, "turn.ended", log[s].turn)
             /\ \A q \in At(log, "request") : q < c =>
                  \E a \in At(log, "resolved") : q < a /\ a < c /\ log[a].req = log[q].req
  <2>1. DOMAIN log = 1 .. End /\ c \in 1 .. End /\ log[c].type = "session.closed"
    BY <1>1, LogIsFit DEF At
  <2>2. EventOK(log, c) /\ CloseOK(log, c)
    BY <1>1, <2>1, LogIsFit DEF Sound, SoundLog, ActedInv
  <2>3. AllEnded(log, c - 1) /\ AllResolved(log, c - 1)
    BY <2>1, <2>2 DEF EventOK, ClosedOK, CloseOK
  <2>4. \A s \in At(log, "turn.started") : s \in 1 .. End /\ log[s].type = "turn.started"
    BY <2>1 DEF At
  <2>5. \A q \in At(log, "request") : q \in 1 .. End /\ log[q].type = "request"
    BY <2>1 DEF At
  <2>6. \A s \in At(log, "turn.started") : s < c => Precedes(s, c, "turn.ended", log[s].turn)
    BY <1>1, <2>1, <2>3, <2>4, AllEndedSays
  <2>7. \A q \in At(log, "request") : q < c =>
          \E a \in At(log, "resolved") : q < a /\ a < c /\ log[a].req = log[q].req
    BY <1>1, <2>1, <2>3, <2>5, AllResolvedSays
  <2> QED BY <2>6, <2>7
<1>2. Sound => (faults = 0 => ClosedLeavesNothingOpen)
  BY <1>1 DEF ClosedLeavesNothingOpen
<1> QED BY <1>2, SoundHolds, PTL

(* Once a process has logged session.closed it logs nothing more, whatever  *)
(* an abandoned turn still does.                                            *)
THEOREM NothingAfterClose == Spec => ClosedIsLast
<1>1. Sound /\ [Next]_vars => [phase = "closed" /\ phase' = "closed" => log' = log]_vars
  <2> SUFFICES ASSUME Sound, Next, phase = "closed", phase' = "closed" PROVE log' = log
    OBVIOUS
  <2>1. ask \in {"none", "abandoned", "lost"}
    BY DEF Sound, SoundLog, AskInv
  <2>2. CASE Flush \/ FlushFails
    BY <2>2 DEF Flush, FlushFails
  <2>3. CASE Command
    BY <2>3 DEF Command, Initialize, Prompt, Cancel, Replay, AlreadyResolved, ApprovalRespond,
                QuestionAnswer, Serving
  <2>4. CASE EngineEvent
    <3>1. Emit(<<>>)
      BY <2>1, <2>4 DEF EngineEvent, Relayed
    <3>2. log \in Seq(Event)
      BY LogIsFit
    <3> QED BY <3>1, <3>2, ConcatEmptySeq DEF Emit
  <2>5. CASE LateReturn
    BY <2>5 DEF LateReturn, logVars
  <2>6. CASE \/ \E status \in Statuses, confirmed \in BOOLEAN : EngineReturn(status, confirmed)
             \/ Deadline
    BY <2>1, <2>6 DEF EngineReturn, Deadline, DeadlineDue
  <2>7. CASE \E r \in Requests : GateRequest(r) \/ GateAbort(r)
    BY <2>7 DEF GateRequest, GateAbort
  <2>8. CASE Closing
    BY <2>8 DEF Closing, Shutdown, ShutdownTimeout, Teardown, EngineClosed
  <2>9. CASE Exit \/ Crash \/ Start
    BY <2>9 DEF Exit, Crash, Start, Forget
  <2> QED BY <2>2, <2>3, <2>4, <2>5, <2>6, <2>7, <2>8, <2>9 DEF Next, Engine
<1> QED BY <1>1, SoundHolds, PTL DEF Spec, ClosedIsLast

-----------------------------------------------------------------------------
(* What a new process restores from the log                                *)

(* What the quantified definitions restore, as the accumulators of the pass. *)
Swept(l) ==
  [open |-> OpenTurn(l),
   recorded |-> At(l, "turn.started") # {} /\ OpenUsageRecorded(l),
   turns |-> Cardinality(At(l, "turn.started")),
   usage |-> RestoredUsage(l), last |-> RestoredLastTurn(l),
   complete |-> RestoredComplete(l), block |-> RestoredBlock(l),
   records |-> [r \in Requests |-> RestoredRecord(l, r)]]

(* A log with one more event.                                               *)
LEMMA Appended ==
  ASSUME NEW l \in Seq(Event), NEW e \in Event
  PROVE  /\ Append(l, e) \in Seq(Event) /\ Len(l) \in Nat
         /\ Len(Append(l, e)) = Len(l) + 1
         /\ DOMAIN l = 1 .. Len(l) /\ DOMAIN Append(l, e) = 1 .. Len(l) + 1
         /\ \A i \in 1 .. Len(l) : Append(l, e)[i] = l[i]
         /\ Append(l, e)[Len(l) + 1] = e
<1>1. Append(l, e) \in Seq(Event)
  BY AppendProperties
<1>2. /\ Len(Append(l, e)) = Len(l) + 1 /\ Len(l) \in Nat
      /\ \A i \in 1 .. Len(l) : Append(l, e)[i] = l[i]
      /\ Append(l, e)[Len(l) + 1] = e
  BY AppendProperties, LenProperties
<1> QED BY <1>1, <1>2, LenProperties

(* The positions of its events of a kind, and the last of them.             *)
LEMMA AppendedAt ==
  ASSUME NEW l \in Seq(Event), NEW e \in Event, NEW type
  PROVE  At(Append(l, e), type) =
           At(l, type) \cup (IF e.type = type THEN {Len(l) + 1} ELSE {})
<1>1. 1 .. Len(l) + 1 = (1 .. Len(l)) \cup {Len(l) + 1}
  BY Appended
<1> QED BY <1>1, Appended DEF At

(* The last of them is the new one.                                         *)
LEMMA LastIsNew ==
  ASSUME NEW n \in Nat, NEW S \in SUBSET (1 .. n)
  PROVE  LastOf(S \cup {n + 1}) = n + 1
<1>1. S \cup {n + 1} \in SUBSET (1 .. n + 1) /\ S \cup {n + 1} # {} /\ n + 1 \in Nat
  OBVIOUS
<1>2. /\ LastOf(S \cup {n + 1}) \in S \cup {n + 1}
      /\ \A j \in S \cup {n + 1} : j <= LastOf(S \cup {n + 1})
  BY <1>1, LastOfIsLast
<1>3. \A x \in S \cup {n + 1} : n + 1 <= x => x = n + 1
  OBVIOUS
<1> QED BY <1>2, <1>3

(* What one event does to a definition that reads the events of a kind.     *)
LEMMA AppendedFields ==
  ASSUME NEW l \in Seq(Event), NEW e \in Event
  PROVE  /\ Cardinality(At(Append(l, e), "turn.started")) =
              Cardinality(At(l, "turn.started")) + (IF e.type = "turn.started" THEN 1 ELSE 0)
         /\ RestoredUsage(Append(l, e)) =
              IF e.type = "usage" THEN e.cumulative ELSE RestoredUsage(l)
         /\ RestoredLastTurn(Append(l, e)) =
              IF e.type = "usage" THEN e.used ELSE RestoredLastTurn(l)
         /\ RestoredComplete(Append(l, e)) =
              IF e.type = "usage" THEN RestoredComplete(l) /\ e.complete ELSE RestoredComplete(l)
<1> DEFINE m == Append(l, e)
           n == Len(l)
<1>1. /\ n \in Nat /\ m[n + 1] = e /\ \A i \in 1 .. n : m[i] = l[i]
      /\ \A type : At(m, type) = At(l, type) \cup (IF e.type = type THEN {n + 1} ELSE {})
      /\ \A type : At(l, type) \in SUBSET (1 .. n)
  BY Appended, AppendedAt, AtIsFinite
<1>2. \A S \in SUBSET (1 .. n) : LastOf(S \cup {n + 1}) = n + 1
  BY <1>1, LastIsNew
<1>3. \A type : At(l, type) # {} => LastOf(At(l, type)) \in 1 .. n
  BY <1>1, LastOfIsLast
<1>4. Cardinality(At(m, "turn.started")) =
        Cardinality(At(l, "turn.started")) + (IF e.type = "turn.started" THEN 1 ELSE 0)
  <2>1. IsFiniteSet(At(l, "turn.started")) /\ n + 1 \notin At(l, "turn.started")
    <3>1. IsFiniteSet(1 .. n) /\ At(l, "turn.started") \in SUBSET (1 .. n)
      BY <1>1, FS_Interval
    <3>2. \A x \in 1 .. n : x # n + 1
      BY <1>1
    <3> HIDE DEF m, n
    <3> QED BY <3>1, <3>2, FS_Subset
  <2>2. Cardinality(At(l, "turn.started") \cup {n + 1}) = Cardinality(At(l, "turn.started")) + 1
    BY <2>1, FS_AddElement
  <2>3. Cardinality(At(l, "turn.started")) \in Nat
    BY AtIsFinite
  <2> DEFINE S == At(l, "turn.started")
  <2>4. At(m, "turn.started") = S \cup (IF e.type = "turn.started" THEN {n + 1} ELSE {})
    BY <1>1
  <2> HIDE DEF m, n, S
  <2>5. CASE e.type = "turn.started"
    BY <2>2, <2>4, <2>5 DEF S
  <2>6. CASE e.type # "turn.started"
    <3>1. At(m, "turn.started") = S
      BY <2>4, <2>6
    <3> QED BY <2>3, <2>6, <3>1 DEF S
  <2> QED BY <2>5, <2>6
<1> HIDE DEF m, n
<1>5. CASE e.type = "usage"
  <2>1. At(m, "usage") = At(l, "usage") \cup {n + 1} /\ LastOf(At(m, "usage")) = n + 1
    BY <1>1, <1>2, <1>5
  <2>2. At(m, "usage") # {} /\ m[LastOf(At(m, "usage"))] = e
    BY <1>1, <2>1
  <2>3. RestoredUsage(m) = e.cumulative /\ RestoredLastTurn(m) = e.used
    BY <2>2 DEF RestoredUsage, RestoredLastTurn
  <2>4. \A i \in At(l, "usage") : m[i] = l[i]
    BY <1>1
  <2>5. RestoredComplete(m) <=> RestoredComplete(l) /\ e.complete
    BY <1>1, <2>1, <2>4 DEF RestoredComplete
  <2>6. e.complete \in BOOLEAN
    BY <1>5 DEF Event
  <2>7. RestoredComplete(m) = (RestoredComplete(l) /\ e.complete)
    BY <2>5, <2>6 DEF RestoredComplete
  <2> QED BY <1>4, <1>5, <2>3, <2>7 DEF m
<1>6. CASE e.type # "usage"
  <2>1. At(m, "usage") = At(l, "usage")
    BY <1>1, <1>6
  <2>2. At(l, "usage") # {} => m[LastOf(At(l, "usage"))] = l[LastOf(At(l, "usage"))]
    BY <1>1, <1>3
  <2>3. RestoredUsage(m) = RestoredUsage(l) /\ RestoredLastTurn(m) = RestoredLastTurn(l)
    BY <2>1, <2>2 DEF RestoredUsage, RestoredLastTurn
  <2>4. \A i \in At(l, "usage") : m[i] = l[i]
    BY <1>1
  <2>5. RestoredComplete(m) <=> RestoredComplete(l)
    BY <2>1, <2>4 DEF RestoredComplete
  <2>6. RestoredComplete(m) = RestoredComplete(l)
    BY <2>5 DEF RestoredComplete
  <2> QED BY <1>4, <1>6, <2>3, <2>6 DEF m
<1> QED BY <1>5, <1>6

(* The turn it leaves open.                                                 *)
LEMMA AppendedOpen ==
  ASSUME NEW l \in Seq(Event), NEW e \in Event
  PROVE  OpenTurn(Append(l, e)) =
           CASE e.type = "turn.started" -> e.turn
             [] e.type = "turn.ended" /\ e.turn = OpenTurn(l) -> NoTurn
             [] OTHER -> OpenTurn(l)
<1> DEFINE m == Append(l, e)
           n == Len(l)
           i == LastOf(At(l, "turn.started"))
<1>1. /\ n \in Nat /\ m[n + 1] = e /\ \A j \in 1 .. n : m[j] = l[j]
      /\ \A type : At(m, type) = At(l, type) \cup (IF e.type = type THEN {n + 1} ELSE {})
      /\ \A type : At(l, type) \in SUBSET (1 .. n)
  BY Appended, AppendedAt, AtIsFinite
<1>2. LastOf(At(l, "turn.started") \cup {n + 1}) = n + 1
  BY <1>1, LastIsNew
<1>3. At(l, "turn.started") # {} => i \in 1 .. n
  BY <1>1, LastOfIsLast
<1>4. OpenTurn(l) = IF At(l, "turn.started") = {} THEN NoTurn
                    ELSE IF \E j \in At(l, "turn.ended") : j > i /\ l[j].turn = l[i].turn
                         THEN NoTurn ELSE l[i].turn
  BY DEF OpenTurn
<1>5. OpenTurn(m) =
        IF At(m, "turn.started") = {} THEN NoTurn
        ELSE IF \E j \in At(m, "turn.ended") :
                  j > LastOf(At(m, "turn.started")) /\ m[j].turn = m[LastOf(At(m, "turn.started"))].turn
             THEN NoTurn ELSE m[LastOf(At(m, "turn.started"))].turn
  BY DEF OpenTurn
<1> HIDE DEF m, n, i
<1>6. CASE e.type = "turn.started"
  <2>1. At(m, "turn.started") # {} /\ LastOf(At(m, "turn.started")) = n + 1
    BY <1>1, <1>2, <1>6
  <2>2. \A j \in At(m, "turn.ended") : ~ (j > n + 1)
    BY <1>1, <1>6
  <2>3. OpenTurn(m) = e.turn
    BY <1>1, <1>5, <2>1, <2>2
  <2> QED BY <1>6, <2>3 DEF m
<1>7. CASE e.type # "turn.started"
  <2>1. At(m, "turn.started") = At(l, "turn.started")
    BY <1>1, <1>7
  <2>2. CASE At(l, "turn.started") = {}
    BY <1>4, <1>5, <1>7, <2>1, <2>2 DEF m
  <2>3. CASE At(l, "turn.started") # {}
    <3>1. LastOf(At(m, "turn.started")) = i
      BY <2>1 DEF i
    <3>2. m[i] = l[i] /\ n + 1 > i
      BY <1>1, <1>3, <2>3
    <3>3. \A j \in At(l, "turn.ended") : m[j] = l[j]
      BY <1>1
    <3>4. OpenTurn(m) =
            IF \E j \in At(m, "turn.ended") : j > i /\ m[j].turn = l[i].turn
            THEN NoTurn ELSE l[i].turn
      BY <1>5, <2>1, <2>3, <3>1, <3>2
    <3>5. (\E j \in At(m, "turn.ended") : j > i /\ m[j].turn = l[i].turn)
            <=> \/ \E j \in At(l, "turn.ended") : j > i /\ l[j].turn = l[i].turn
                \/ e.type = "turn.ended" /\ e.turn = l[i].turn
      BY <1>1, <3>2, <3>3
    <3> QED BY <1>4, <1>7, <2>3, <3>4, <3>5 DEF m
  <2> QED BY <2>2, <2>3
<1> QED BY <1>6, <1>7

(* Whether the usage of the open turn is known.                             *)
LEMMA AppendedRecorded ==
  ASSUME NEW l \in Seq(Event), NEW e \in Event, WellFormed(Append(l, e))
  PROVE  Swept(Append(l, e)).recorded =
           CASE e.type = "turn.started" -> FALSE
             [] e.type = "usage" -> Swept(l).recorded \/ e.turn = OpenTurn(l)
             [] OTHER -> Swept(l).recorded
<1> DEFINE m == Append(l, e)
           n == Len(l)
           S == At(l, "turn.started")
           i == LastOf(S)
<1>1. /\ n \in Nat /\ m[n + 1] = e /\ \A j \in 1 .. n : m[j] = l[j]
      /\ \A type : At(m, type) = At(l, type) \cup (IF e.type = type THEN {n + 1} ELSE {})
      /\ \A type : At(l, type) \in SUBSET (1 .. n)
  BY Appended, AppendedAt, AtIsFinite
<1>2. LastOf(S \cup {n + 1}) = n + 1
  BY <1>1, LastIsNew
<1>3. S # {} => i \in 1 .. n
  BY <1>1, LastOfIsLast
<1>4. /\ Swept(l).recorded <=> S # {} /\ \E j \in At(l, "usage") : j > i /\ l[j].turn = l[i].turn
      /\ Swept(l).recorded \in BOOLEAN
  BY DEF Swept, OpenUsageRecorded
<1>5. /\ Swept(m).recorded <=>
           /\ At(m, "turn.started") # {}
           /\ \E j \in At(m, "usage") : /\ j > LastOf(At(m, "turn.started"))
                                        /\ m[j].turn = m[LastOf(At(m, "turn.started"))].turn
      /\ Swept(m).recorded \in BOOLEAN
  BY DEF Swept, OpenUsageRecorded
<1>6. OpenTurn(l) = IF S = {} THEN NoTurn
                    ELSE IF \E j \in At(l, "turn.ended") : j > i /\ l[j].turn = l[i].turn
                         THEN NoTurn ELSE l[i].turn
  BY DEF OpenTurn
<1>7. ASSUME e.type = "usage"
      PROVE  /\ S # {} /\ e.turn # NoTurn
             /\ e.turn = l[i].turn => e.turn = OpenTurn(l)
  <2>1. n + 1 \in 1 .. Len(m) /\ (n + 1) - 1 = n /\ n \in 0 .. Len(m) /\ m \in Seq(Event)
    BY <1>1, Appended
  <2>2. e.turn \in Turns(m, "turn.started", n) /\ e.turn \notin Turns(m, "turn.ended", n)
    BY <1>1, <1>7, <2>1 DEF WellFormed, EventOK, UsageOK, SealOK
  <2>3. S # {}
    <3>1. PICK j \in 1 .. n : m[j].type = "turn.started"
      BY <2>2 DEF Turns
    <3> QED BY <1>1, <3>1, Appended DEF At
  <2>4. e.turn # NoTurn
    <3>1. Turns(m, "turn.started", n) \subseteq 1 .. Count(m, n) /\ Count(m, n) \in Nat
      BY <1>1, <2>1, StartedUpTo, CountIsNat
    <3>2. e.turn \in 1 .. Count(m, n)
      BY <2>2, <3>1
    <3> HIDE DEF m, n
    <3> QED BY <3>1, <3>2 DEF NoTurn
  <2>5. ASSUME e.turn = l[i].turn PROVE e.turn = OpenTurn(l)
    <3>1. \A j \in At(l, "turn.ended") : l[j].turn # e.turn
      <4> SUFFICES ASSUME NEW j \in At(l, "turn.ended"), l[j].turn = e.turn PROVE FALSE
        OBVIOUS
      <4>1. j \in 1 .. n /\ l[j].type = "turn.ended" /\ m[j] = l[j]
        BY <1>1, Appended DEF At
      <4> QED BY <2>2, <4>1 DEF Turns
    <3> QED BY <1>6, <2>3, <2>5, <3>1
  <2> QED BY <2>3, <2>4, <2>5
<1> HIDE DEF m, n, i, S
<1>8. CASE e.type = "turn.started"
  <2>1. At(m, "turn.started") # {} /\ LastOf(At(m, "turn.started")) = n + 1
    BY <1>1, <1>2, <1>8 DEF S
  <2>2. \A j \in At(m, "usage") : ~ (j > n + 1)
    BY <1>1, <1>8
  <2>3. Swept(m).recorded = FALSE
    BY <1>5, <2>1, <2>2
  <2> QED BY <1>8, <2>3 DEF m
<1>9. CASE e.type # "turn.started"
  <2>1. At(m, "turn.started") = S
    BY <1>1, <1>9 DEF S
  <2>2. CASE S = {}
    <3>1. Swept(m).recorded = FALSE /\ Swept(l).recorded = FALSE
      BY <1>4, <1>5, <2>1, <2>2
    <3> QED BY <1>7, <1>9, <2>2, <3>1 DEF m
  <2>3. CASE S # {}
    <3>1. LastOf(At(m, "turn.started")) = i
      BY <2>1 DEF i
    <3>2. m[i] = l[i] /\ n + 1 > i
      BY <1>1, <1>3, <2>3
    <3>3. \A j \in At(l, "usage") : m[j] = l[j]
      BY <1>1
    <3>4. Swept(m).recorded <=> \E j \in At(m, "usage") : j > i /\ m[j].turn = l[i].turn
      BY <1>5, <2>1, <2>3, <3>1, <3>2
    <3>5. (\E j \in At(m, "usage") : j > i /\ m[j].turn = l[i].turn)
            <=> \/ \E j \in At(l, "usage") : j > i /\ l[j].turn = l[i].turn
                \/ e.type = "usage" /\ e.turn = l[i].turn
      BY <1>1, <3>2, <3>3
    <3>6. Swept(m).recorded <=>
            Swept(l).recorded \/ (e.type = "usage" /\ e.turn = l[i].turn)
      BY <1>4, <2>3, <3>4, <3>5
    <3>7. e.type = "usage" => (e.turn = l[i].turn <=> e.turn = OpenTurn(l))
      BY <1>6, <1>7
    <3> QED BY <1>4, <1>5, <1>9, <3>6, <3>7 DEF m
  <2> QED BY <2>2, <2>3
<1> QED BY <1>8, <1>9

(* The block it leaves: a turn some process died in for good, any other     *)
(* unconfirmed stop until a clean close.                                    *)
LEMMA AppendedBlock ==
  ASSUME NEW l \in Seq(Event), NEW e \in Event
  PROVE  RestoredBlock(Append(l, e)) =
           CASE e.type = "turn.ended" /\ e.how = "stop_unconfirmed" ->
                  IF RestoredBlock(l) = "sticky" \/ e.reason = "process_exit"
                  THEN "sticky" ELSE "live"
             [] e.type = "session.closed" /\ ~e.error ->
                  IF RestoredBlock(l) = "live" THEN "no" ELSE RestoredBlock(l)
             [] OTHER -> RestoredBlock(l)
<1> DEFINE m == Append(l, e)
           n == Len(l)
           ends == e.type = "turn.ended" /\ e.how = "stop_unconfirmed"
           lifts == e.type = "session.closed" /\ ~e.error
           Died(k) == \E i \in Unconfirmed(k) : k[i].reason = "process_exit"
           Stands(k) == \E i \in Unconfirmed(k) :
                          \A j \in At(k, "session.closed") : j > i => k[j].error
<1>1. /\ n \in Nat /\ m[n + 1] = e /\ \A j \in 1 .. n : m[j] = l[j]
      /\ \A type : At(m, type) = At(l, type) \cup (IF e.type = type THEN {n + 1} ELSE {})
      /\ \A type : At(l, type) \in SUBSET (1 .. n)
  BY Appended, AppendedAt, AtIsFinite
<1>2. \A k : RestoredBlock(k) = IF Died(k) THEN "sticky" ELSE IF Stands(k) THEN "live" ELSE "no"
  BY DEF RestoredBlock
<1>3. Unconfirmed(l) \in SUBSET (1 .. n)
  BY <1>1 DEF Unconfirmed
<1>4. Unconfirmed(m) = Unconfirmed(l) \cup (IF ends THEN {n + 1} ELSE {})
  BY <1>1 DEF Unconfirmed
<1>5. Died(m) <=> Died(l) \/ (ends /\ e.reason = "process_exit")
  <2>1. \A i \in Unconfirmed(l) : m[i] = l[i]
    BY <1>1, <1>3
  <2> HIDE DEF m, n, ends
  <2> QED BY <1>1, <1>4, <2>1
<1>6. ASSUME NEW i \in Unconfirmed(l)
      PROVE  (\A j \in At(m, "session.closed") : j > i => m[j].error)
               <=> ~lifts /\ \A j \in At(l, "session.closed") : j > i => l[j].error
  <2>1. n + 1 > i /\ \A j \in At(l, "session.closed") : m[j] = l[j]
    BY <1>1, <1>3
  <2>2. At(m, "session.closed") =
          At(l, "session.closed") \cup (IF e.type = "session.closed" THEN {n + 1} ELSE {})
    BY <1>1
  <2> HIDE DEF m, n
  <2> QED BY <1>1, <2>1, <2>2
<1>7. ASSUME ends
      PROVE  Stands(m)
  <2>1. n + 1 \in Unconfirmed(m) /\ At(m, "session.closed") = At(l, "session.closed")
    BY <1>1, <1>4, <1>7
  <2>2. \A j \in At(l, "session.closed") : ~ (j > n + 1)
    BY <1>1
  <2> HIDE DEF m, n, ends
  <2> QED BY <2>1, <2>2
<1>8. ASSUME ~ends
      PROVE  Stands(m) <=> Stands(l) /\ ~lifts
  <2>1. Unconfirmed(m) = Unconfirmed(l)
    BY <1>4, <1>8
  <2> HIDE DEF m, n, ends, lifts
  <2> QED BY <1>6, <2>1
<1> HIDE DEF Died, Stands
<1>9. ~ (ends /\ lifts)
  OBVIOUS
<1> QED BY <1>2, <1>5, <1>7, <1>8, <1>9

(* The record of a request: it is asked once, then answered once.           *)
LEMMA AppendedRecord ==
  ASSUME NEW l \in Seq(Event), NEW e \in Event, WellFormed(Append(l, e)), NEW r \in Requests
  PROVE  /\ RestoredRecord(Append(l, e), r) =
              CASE e.type = "request" /\ e.req = r ->
                     Record("pending", e.turn, Refusal(r), "client")
                [] e.type = "resolved" /\ e.req = r ->
                     Record("resolved", RestoredRecord(l, r).turn, e.decision, e.source)
                [] OTHER -> RestoredRecord(l, r)
         /\ e.type = "resolved" /\ e.req = r => RestoredRecord(l, r).state # "unknown"
<1> DEFINE m == Append(l, e)
           n == Len(l)
           Asked(k) == {i \in At(k, "request") : k[i].req = r}
           Answers(k) == {i \in At(k, "resolved") : k[i].req = r}
<1>1. /\ n \in Nat /\ m[n + 1] = e /\ \A j \in 1 .. n : m[j] = l[j]
      /\ \A type : At(m, type) = At(l, type) \cup (IF e.type = type THEN {n + 1} ELSE {})
      /\ \A type : At(l, type) \in SUBSET (1 .. n)
  BY Appended, AppendedAt, AtIsFinite
<1>2. \A S \in SUBSET (1 .. n) : LastOf(S \cup {n + 1}) = n + 1
  BY <1>1, LastIsNew
<1>3. /\ Asked(l) \in SUBSET (1 .. n) /\ Answers(l) \in SUBSET (1 .. n)
      /\ Asked(m) = Asked(l) \cup (IF e.type = "request" /\ e.req = r THEN {n + 1} ELSE {})
      /\ Answers(m) = Answers(l) \cup (IF e.type = "resolved" /\ e.req = r THEN {n + 1} ELSE {})
  <2>1. /\ \A i \in At(l, "request") : m[i] = l[i]
        /\ \A i \in At(l, "resolved") : m[i] = l[i]
    BY <1>1
  <2>2. Asked(l) \in SUBSET (1 .. n) /\ Answers(l) \in SUBSET (1 .. n)
    BY <1>1
  <2> HIDE DEF m, n
  <2> QED BY <1>1, <2>1, <2>2
<1>4. \A k : RestoredRecord(k, r) =
        IF Asked(k) = {} THEN Unknown
        ELSE IF Answers(k) = {}
        THEN Record("pending", k[LastOf(Asked(k))].turn, Refusal(r), "client")
        ELSE Record("resolved", k[LastOf(Asked(k))].turn,
                    k[LastOf(Answers(k))].decision, k[LastOf(Answers(k))].source)
  BY DEF RestoredRecord
<1>5. /\ r \in Reqs(m, "request", n) <=> Asked(l) # {}
      /\ r \in Reqs(m, "resolved", n) <=> Answers(l) # {}
  <2>1. \A i \in 1 .. n : /\ i \in Asked(l) <=> m[i].type = "request" /\ m[i].req = r
                          /\ i \in Answers(l) <=> m[i].type = "resolved" /\ m[i].req = r
    BY <1>1, Appended DEF At
  <2> HIDE DEF m, n, Asked, Answers
  <2> QED BY <1>3, <2>1 DEF Reqs
<1>6. /\ n + 1 \in 1 .. Len(m) /\ (n + 1) - 1 = n /\ n \in 0 .. Len(m) /\ m \in Seq(Event)
      /\ WellFormed(m)
  BY <1>1, Appended
<1>7. Answers(l) # {} => Asked(l) # {}
  <2>1. r \in Reqs(m, "resolved", n) => r \in Reqs(m, "request", n)
    <3> HIDE DEF m, n
    <3> QED BY <1>6, WellFormedTurns
  <2> QED BY <1>5, <2>1
<1>8. e.type = "request" /\ e.req = r => Asked(l) = {}
  <2>1. RequestOK(m, n + 1)
    BY <1>6 DEF WellFormed, EventOK
  <2> HIDE DEF m, n, Asked, Answers
  <2> QED BY <1>1, <1>5, <1>6, <2>1 DEF RequestOK
<1>9. e.type = "resolved" /\ e.req = r => Asked(l) # {} /\ Answers(l) = {}
  <2>1. ResolvedOK(m, n + 1)
    BY <1>6 DEF WellFormed, EventOK
  <2> HIDE DEF m, n, Asked, Answers
  <2> QED BY <1>1, <1>5, <1>6, <2>1 DEF ResolvedOK
<1>10. /\ Asked(l) # {} => m[LastOf(Asked(l))] = l[LastOf(Asked(l))]
       /\ Answers(l) # {} => m[LastOf(Answers(l))] = l[LastOf(Answers(l))]
  <2>1. \A S \in SUBSET (1 .. n) : S # {} => LastOf(S) \in 1 .. n
    BY <1>1, LastOfIsLast
  <2> HIDE DEF m, n, Asked, Answers
  <2> QED BY <1>1, <1>3, <2>1
<1> HIDE DEF m, n, Asked, Answers
<1>11. CASE e.type = "request" /\ e.req = r
  <2>1. Asked(m) # {} /\ LastOf(Asked(m)) = n + 1 /\ Answers(m) = {}
    BY <1>2, <1>3, <1>7, <1>8, <1>11
  <2>2. RestoredRecord(m, r) = Record("pending", e.turn, Refusal(r), "client")
    BY <1>1, <1>4, <2>1
  <2> QED BY <1>11, <2>2 DEF m
<1>12. CASE e.type = "resolved" /\ e.req = r
  <2>1. /\ Asked(m) = Asked(l) /\ Asked(l) # {} /\ Answers(l) = {}
        /\ Answers(m) # {} /\ LastOf(Answers(m)) = n + 1
    BY <1>2, <1>3, <1>9, <1>12
  <2>2. RestoredRecord(l, r) = Record("pending", l[LastOf(Asked(l))].turn, Refusal(r), "client")
    BY <1>4, <2>1
  <2>3. RestoredRecord(m, r) = Record("resolved", l[LastOf(Asked(l))].turn, e.decision, e.source)
    BY <1>1, <1>4, <1>10, <2>1
  <2> QED BY <1>12, <2>2, <2>3 DEF m, Record
<1>13. CASE ~ (e.type \in {"request", "resolved"} /\ e.req = r)
  <2>1. Asked(m) = Asked(l) /\ Answers(m) = Answers(l)
    BY <1>3, <1>13
  <2>2. RestoredRecord(m, r) = RestoredRecord(l, r)
    BY <1>4, <1>10, <2>1
  <2> QED BY <1>13, <2>2 DEF m
<1> QED BY <1>11, <1>12, <1>13

(* A prefix of a well-formed log is well formed, and the event that ends a  *)
(* turn ends the open one.                                                  *)
LEMMA AppendedFits ==
  ASSUME NEW l \in Seq(Event), NEW e \in Event, WellFormed(Append(l, e))
  PROVE  /\ WellFormed(l)
         /\ e.type = "turn.ended" => e.turn = OpenTurn(l)
<1> DEFINE m == Append(l, e)
           n == Len(l)
<1>1. /\ n \in Nat /\ m[n + 1] = e /\ Len(m) = n + 1 /\ \A j \in 1 .. n : m[j] = l[j]
  BY Appended
<1>2. WellFormed(m)
  OBVIOUS
<1> HIDE DEF m
<1>3. ASSUME NEW k \in 1 .. n PROVE EventOK(l, k)
  <2>1. k \in Nat \ {0} /\ \A i \in 1 .. k : m[i] = l[i]
    BY <1>1
  <2>2. EventOK(m, k)
    BY <1>1, <1>2 DEF WellFormed
  <2> QED BY <2>1, <2>2, SameEvent
<1>4. WellFormed(l)
  BY <1>3 DEF WellFormed
<1>5. ASSUME e.type = "turn.ended" PROVE e.turn = OpenTurn(l)
  <2>1. EndedOK(m, n + 1) /\ SealOK(m, n + 1) /\ (n + 1) - 1 = n
    BY <1>1, <1>2 DEF WellFormed, EventOK
  <2>2. e.turn \in Turns(m, "turn.started", n) /\ e.turn \notin Turns(m, "turn.ended", n)
    BY <1>1, <1>5, <2>1 DEF EndedOK, SealOK
  <2>3. \A type : Turns(m, type, n) = Turns(l, type, n)
    BY <1>1, SamePrefix
  <2>4. /\ OpenTurn(l) = NoTurn => AllEnded(l, n)
        /\ OpenTurn(l) # NoTurn =>
             Turns(l, "turn.started", n) \subseteq Turns(l, "turn.ended", n) \cup {OpenTurn(l)}
    BY ONLY <1>4, l \in Seq(Event), OpenTurnIsOpen
  <2> QED BY <2>2, <2>3, <2>4 DEF AllEnded
<1> QED BY <1>4, <1>5

(* One step of the pass leaves what the definitions restore.                *)
LEMMA SweptStep ==
  ASSUME NEW l \in Seq(Event), NEW e \in Event, WellFormed(Append(l, e))
  PROVE  Scan(Swept(l), e) = Swept(Append(l, e))
<1> DEFINE s == Swept(l)
           t == Swept(Append(l, e))
<1>1. /\ s.open = OpenTurn(l) /\ s.turns = Cardinality(At(l, "turn.started"))
      /\ s.usage = RestoredUsage(l) /\ s.last = RestoredLastTurn(l)
      /\ s.complete = RestoredComplete(l) /\ s.block = RestoredBlock(l)
      /\ s.records = [r \in Requests |-> RestoredRecord(l, r)]
      /\ s = [open |-> s.open, recorded |-> s.recorded, turns |-> s.turns,
              usage |-> s.usage, last |-> s.last, complete |-> s.complete,
              block |-> s.block, records |-> s.records]
  BY DEF Swept
<1>2. /\ t.open = OpenTurn(Append(l, e))
      /\ t.turns = Cardinality(At(Append(l, e), "turn.started"))
      /\ t.usage = RestoredUsage(Append(l, e)) /\ t.last = RestoredLastTurn(Append(l, e))
      /\ t.complete = RestoredComplete(Append(l, e)) /\ t.block = RestoredBlock(Append(l, e))
      /\ t.records = [r \in Requests |-> RestoredRecord(Append(l, e), r)]
      /\ t = [open |-> t.open, recorded |-> t.recorded, turns |-> t.turns,
              usage |-> t.usage, last |-> t.last, complete |-> t.complete,
              block |-> t.block, records |-> t.records]
  BY DEF Swept
<1>3. t.recorded = CASE e.type = "turn.started" -> FALSE
                     [] e.type = "usage" -> s.recorded \/ e.turn = s.open
                     [] OTHER -> s.recorded
  BY <1>1, AppendedRecorded
<1>4. t.open = CASE e.type = "turn.started" -> e.turn
                 [] e.type = "turn.ended" /\ e.turn = s.open -> NoTurn
                 [] OTHER -> s.open
  BY <1>1, <1>2, AppendedOpen
<1>5. t.block = CASE e.type = "turn.ended" /\ e.how = "stop_unconfirmed" ->
                       IF s.block = "sticky" \/ e.reason = "process_exit"
                       THEN "sticky" ELSE "live"
                  [] e.type = "session.closed" /\ ~e.error ->
                       IF s.block = "live" THEN "no" ELSE s.block
                  [] OTHER -> s.block
  BY <1>1, <1>2, AppendedBlock
<1>6. /\ t.turns = s.turns + (IF e.type = "turn.started" THEN 1 ELSE 0)
      /\ t.usage = IF e.type = "usage" THEN e.cumulative ELSE s.usage
      /\ t.last = IF e.type = "usage" THEN e.used ELSE s.last
      /\ t.complete = IF e.type = "usage" THEN s.complete /\ e.complete ELSE s.complete
  BY <1>1, <1>2, AppendedFields
<1>7. /\ DOMAIN s.records = Requests /\ DOMAIN t.records = Requests
      /\ s.records = [r \in Requests |-> s.records[r]]
      /\ t.records = [r \in Requests |-> t.records[r]]
  BY <1>1, <1>2
<1>8. \A r \in Requests :
        /\ t.records[r] =
             CASE e.type = "request" /\ e.req = r ->
                    Record("pending", e.turn, Refusal(r), "client")
               [] e.type = "resolved" /\ e.req = r ->
                    Record("resolved", s.records[r].turn, e.decision, e.source)
               [] OTHER -> s.records[r]
        /\ e.type = "resolved" /\ e.req = r => s.records[r].state # "unknown"
  BY <1>1, <1>2, AppendedRecord
<1>9. e.type = "turn.ended" => e.turn = s.open
  BY <1>1, AppendedFits
<1>10. /\ e.type \in {"turn.started", "brain", "status", "request", "resolved", "usage",
                      "turn.ended", "session.closed"}
       /\ e.type \in {"request", "resolved"} => e.req \in Requests
       /\ s.turns \in Nat /\ s.recorded \in BOOLEAN
  BY <1>1, AtIsFinite DEF Event, Swept
<1> HIDE DEF s, t
<1>11. ASSUME e.type \in {"brain", "status", "request", "resolved"}
       PROVE  t = [open |-> s.open, recorded |-> s.recorded, turns |-> s.turns,
                   usage |-> s.usage, last |-> s.last, complete |-> s.complete,
                   block |-> s.block, records |-> t.records]
  <2>1. t.recorded = s.recorded
    BY <1>3, <1>11
  <2>2. t.open = s.open
    BY <1>4, <1>11
  <2>3. t.block = s.block
    BY <1>5, <1>11
  <2>4. t.usage = s.usage /\ t.last = s.last /\ t.complete = s.complete
    BY <1>6, <1>11
  <2>5. t.turns = s.turns
    BY <1>6, <1>10, <1>11
  <2> QED BY <1>2, <2>1, <2>2, <2>3, <2>4, <2>5
<1>12. CASE e.type \notin {"request", "resolved"}
  <2>1. \A r \in Requests : t.records[r] = s.records[r]
    BY <1>8, <1>12
  <2>2. t.records = s.records
    BY <1>7, <2>1
  <2>3. CASE e.type = "turn.started"
    <3>1. t = [open |-> e.turn, recorded |-> FALSE, turns |-> s.turns + 1,
               usage |-> s.usage, last |-> s.last, complete |-> s.complete,
               block |-> s.block, records |-> s.records]
      BY <1>2, <1>3, <1>4, <1>5, <1>6, <2>2, <2>3
    <3>2. Scan(s, e) = [s EXCEPT !.open = e.turn, !.recorded = FALSE, !.turns = @ + 1]
      BY <2>3 DEF Scan
    <3> QED BY <1>1, <3>1, <3>2 DEF s, t
  <2>4. CASE e.type = "usage"
    <3>1. t = [open |-> s.open, recorded |-> s.recorded \/ e.turn = s.open, turns |-> s.turns,
               usage |-> e.cumulative, last |-> e.used, complete |-> s.complete /\ e.complete,
               block |-> s.block, records |-> s.records]
      BY <1>2, <1>3, <1>4, <1>5, <1>6, <1>10, <2>2, <2>4
    <3>2. Scan(s, e) = [s EXCEPT !.recorded = @ \/ e.turn = s.open, !.usage = e.cumulative,
                                 !.last = e.used, !.complete = @ /\ e.complete]
      BY <2>4 DEF Scan
    <3> QED BY <1>1, <3>1, <3>2 DEF s, t
  <2>5. CASE e.type = "turn.ended"
    <3>1. t = [open |-> NoTurn, recorded |-> s.recorded, turns |-> s.turns,
               usage |-> s.usage, last |-> s.last, complete |-> s.complete,
               block |-> IF e.how # "stop_unconfirmed" THEN s.block
                         ELSE IF s.block = "sticky" \/ e.reason = "process_exit"
                         THEN "sticky" ELSE "live",
               records |-> s.records]
      BY <1>2, <1>3, <1>4, <1>5, <1>6, <1>9, <1>10, <2>2, <2>5
    <3>2. Scan(s, e) = [s EXCEPT !.open = NoTurn,
                          !.block = IF e.how # "stop_unconfirmed" THEN @
                                    ELSE IF @ = "sticky" \/ e.reason = "process_exit"
                                    THEN "sticky" ELSE "live"]
      BY <1>9, <2>5 DEF Scan
    <3> QED BY <1>1, <3>1, <3>2 DEF s, t
  <2>6. CASE e.type = "session.closed"
    <3>1. t = [open |-> s.open, recorded |-> s.recorded, turns |-> s.turns,
               usage |-> s.usage, last |-> s.last, complete |-> s.complete,
               block |-> IF s.block = "live" /\ ~e.error THEN "no" ELSE s.block,
               records |-> s.records]
      BY <1>2, <1>3, <1>4, <1>5, <1>6, <1>10, <2>2, <2>6
    <3>2. Scan(s, e) = IF s.block = "live" /\ ~e.error THEN [s EXCEPT !.block = "no"] ELSE s
      BY <2>6 DEF Scan
    <3> QED BY <1>1, <3>1, <3>2 DEF s, t
  <2>7. CASE e.type \in {"brain", "status"}
    <3>1. t = s
      BY <1>1, <1>11, <2>2, <2>7
    <3>2. Scan(s, e) = s
      BY <2>7 DEF Scan
    <3> QED BY <3>1, <3>2 DEF s, t
  <2> QED BY <1>10, <1>12, <2>3, <2>4, <2>5, <2>6, <2>7
<1>13. CASE e.type \in {"request", "resolved"}
  <2> DEFINE q == e.req
             new == IF e.type = "request" THEN Record("pending", e.turn, Refusal(q), "client")
                    ELSE Record("resolved", s.records[q].turn, e.decision, e.source)
  <2>1. q \in Requests /\ (e.type = "resolved" => s.records[q].state # "unknown")
    BY <1>8, <1>10, <1>13
  <2>2. t.records = [s.records EXCEPT ![q] = new]
    <3>1. \A r \in Requests : t.records[r] = IF r = q THEN new ELSE s.records[r]
      BY <1>8, <1>13
    <3> HIDE DEF new, q
    <3> QED BY <1>7, <2>1, <3>1
  <2>3. t = [open |-> s.open, recorded |-> s.recorded, turns |-> s.turns,
             usage |-> s.usage, last |-> s.last, complete |-> s.complete,
             block |-> s.block, records |-> t.records]
    BY <1>13, <1>11
  <2>4. Scan(s, e) = [s EXCEPT !.records = [s.records EXCEPT ![q] = new]]
    <3>1. CASE e.type = "request"
      BY <3>1 DEF Scan
    <3>2. CASE e.type = "resolved"
      BY <2>1, <3>2 DEF Scan
    <3> QED BY <1>13, <3>1, <3>2
  <2> HIDE DEF new, q
  <2> QED BY <1>1, <2>2, <2>3, <2>4 DEF s, t
<1> QED BY <1>12, <1>13

(* Before any event the two agree.                                          *)
LEMMA SweptEmpty == Swept(<<>>) = Fresh
<1>1. \A type : At(<<>>, type) = {}
  BY DEF At
<1>2. Cardinality(At(<<>>, "turn.started")) = 0
  BY <1>1, FS_EmptySet
<1>3. OpenTurn(<<>>) = NoTurn /\ RestoredUsage(<<>>) = 0 /\ RestoredLastTurn(<<>>) = Null
  BY <1>1 DEF OpenTurn, RestoredUsage, RestoredLastTurn
<1>4. RestoredComplete(<<>>) = TRUE
  BY <1>1 DEF RestoredComplete
<1>5. RestoredBlock(<<>>) = "no"
  BY <1>1 DEF RestoredBlock, Unconfirmed
<1>6. [r \in Requests |-> RestoredRecord(<<>>, r)] = [r \in Requests |-> Unknown]
  BY <1>1 DEF RestoredRecord
<1>7. (At(<<>>, "turn.started") # {} /\ OpenUsageRecorded(<<>>)) = FALSE
  BY <1>1
<1> QED BY <1>2, <1>3, <1>4, <1>5, <1>6, <1>7 DEF Swept, Fresh

(* A prefix with its next event is the next prefix, and is well formed.     *)
LEMMA NextPrefix ==
  ASSUME Sound, NEW n \in 0 .. End, n < End
  PROVE  /\ SubSeq(log, 1, n) \in Seq(Event) /\ log[n + 1] \in Event
         /\ SubSeq(log, 1, n + 1) = Append(SubSeq(log, 1, n), log[n + 1])
         /\ WellFormed(Append(SubSeq(log, 1, n), log[n + 1]))
<1> DEFINE a == SubSeq(log, 1, n)
           b == SubSeq(log, 1, n + 1)
<1>1. log \in Seq(Event) /\ End = Len(log) /\ End \in Nat /\ n \in Nat /\ n + 1 \in 0 .. End
  BY LogIsFit
<1>2. \A i \in 1 .. n + 1 : log[i] \in Event
  BY <1>1, ElementOfSeq
<1>3. a \in Seq(Event) /\ Len(a) = n /\ \A i \in 1 .. n : a[i] = log[i]
  <2>1. \A i \in 1 .. n : log[i] \in Event
    BY <1>1, <1>2
  <2> QED BY <1>1, <2>1, SubSeqProperties
<1>4. b \in Seq(Event) /\ Len(b) = n + 1 /\ \A i \in 1 .. n + 1 : b[i] = log[i]
  BY <1>1, <1>2, SubSeqProperties
<1>5. log[n + 1] \in Event
  BY <1>1, <1>2
<1> HIDE DEF a, b
<1>6. /\ Append(a, log[n + 1]) \in Seq(Event) /\ Len(Append(a, log[n + 1])) = n + 1
      /\ \A i \in 1 .. n : Append(a, log[n + 1])[i] = log[i]
      /\ Append(a, log[n + 1])[n + 1] = log[n + 1]
  BY <1>3, <1>5, Appended
<1>7. \A i \in 1 .. n + 1 : b[i] = Append(a, log[n + 1])[i]
  BY <1>1, <1>4, <1>6
<1>8. b = Append(a, log[n + 1])
  BY <1>4, <1>6, <1>7, SeqEqual
<1>9. WellFormed(b)
  <2> SUFFICES ASSUME NEW k \in 1 .. n + 1 PROVE EventOK(b, k)
    BY <1>4 DEF WellFormed
  <2>1. k \in Nat \ {0} /\ k \in 1 .. End /\ \A i \in 1 .. k : b[i] = log[i]
    BY <1>1, <1>4
  <2>2. EventOK(log, k)
    BY <2>1, LogIsFit
  <2> QED BY <2>1, <2>2, SameEvent
<1> QED BY <1>3, <1>5, <1>8, <1>9 DEF a, b

(* The pass is a function of the prefix read so far: the recursion that     *)
(* defines it has this solution and no other.                               *)
LEMMA PassIsSwept ==
  ASSUME Sound
  PROVE  \A n \in 0 .. End : Pass[n] = Swept(SubSeq(log, 1, n))
<1> DEFINE F == [n \in 0 .. End |-> Swept(SubSeq(log, 1, n))]
           Reads(f) == f = [n \in 0 .. End |-> IF n = 0 THEN Fresh ELSE Scan(f[n - 1], log[n])]
           G == {j \in 1 .. End + 1 : \A k \in 0 .. j - 1 : Pass[k] = F[k]}
<1>1. log \in Seq(Event) /\ End = Len(log) /\ End \in Nat
  BY LogIsFit
<1>2. ASSUME NEW n \in 0 .. End
      PROVE  F[n] = IF n = 0 THEN Fresh ELSE Scan(F[n - 1], log[n])
  <2>1. CASE n = 0
    <3>1. SubSeq(log, 1, 0) = <<>>
      BY SubSeqEmpty
    <3> QED BY <2>1, <3>1, SweptEmpty
  <2>2. CASE n # 0
    <3>1. n - 1 \in 0 .. End /\ n - 1 < End /\ (n - 1) + 1 = n
      BY <1>1, <2>2
    <3>2. /\ SubSeq(log, 1, n - 1) \in Seq(Event) /\ log[n] \in Event
          /\ SubSeq(log, 1, n) = Append(SubSeq(log, 1, n - 1), log[n])
          /\ WellFormed(Append(SubSeq(log, 1, n - 1), log[n]))
      <4>1. /\ SubSeq(log, 1, n - 1) \in Seq(Event) /\ log[(n - 1) + 1] \in Event
            /\ SubSeq(log, 1, (n - 1) + 1) = Append(SubSeq(log, 1, n - 1), log[(n - 1) + 1])
            /\ WellFormed(Append(SubSeq(log, 1, n - 1), log[(n - 1) + 1]))
        BY <3>1, NextPrefix
      <4> QED BY <3>1, <4>1
    <3>3. Scan(Swept(SubSeq(log, 1, n - 1)), log[n]) = Swept(SubSeq(log, 1, n))
      BY <3>2, SweptStep
    <3> QED BY <2>2, <3>1, <3>3
  <2> QED BY <2>1, <2>2
<1>3. Reads(F)
  <2>1. DOMAIN F = 0 .. End /\ F = [n \in 0 .. End |-> F[n]]
    OBVIOUS
  <2> HIDE DEF F
  <2> QED BY <1>2, <2>1
<1>4. Reads(Pass)
  <2>1. Pass = CHOOSE f : Reads(f)
    BY <1>1 DEF Pass
  <2> HIDE DEF F, Reads
  <2> QED BY <1>3, <2>1
<1>5. 1 \in G
  <2>1. Pass[0] = F[0]
    <3>1. 0 \in 0 .. End
      BY <1>1
    <3> QED BY <1>2, <1>4, <3>1
  <2>2. 1 \in 1 .. End + 1 /\ 0 .. 1 - 1 = {0}
    BY <1>1
  <2> QED BY <2>1, <2>2
<1> HIDE DEF F
<1>6. LastOf(G) \in G /\ \A j \in G : j <= LastOf(G)
  <2>1. End + 1 \in Nat /\ G \in SUBSET (1 .. End + 1) /\ G # {}
    BY <1>1, <1>5
  <2> HIDE DEF G
  <2> QED BY <2>1, LastOfIsLast
<1>7. LastOf(G) = End + 1
  <2> DEFINE j == LastOf(G)
  <2>1. j \in 1 .. End + 1 /\ \A k \in 0 .. j - 1 : Pass[k] = F[k]
    BY <1>6
  <2>2. \A h \in G : h <= j
    BY <1>6
  <2> HIDE DEF j
  <2> SUFFICES ASSUME j # End + 1 PROVE FALSE
    BY DEF j
  <2>3. j \in 0 .. End /\ j # 0 /\ j - 1 \in 0 .. j - 1
    BY <1>1, <2>1
  <2>4. Pass[j] = Scan(Pass[j - 1], log[j])
    BY <1>4, <2>3
  <2>5. Pass[j] = F[j]
    BY <1>2, <2>1, <2>3, <2>4
  <2>6. \A k \in 0 .. (j + 1) - 1 : k = j \/ k \in 0 .. j - 1
    BY <1>1, <2>1
  <2>7. j + 1 \in 1 .. End + 1
    BY <1>1, <2>3
  <2>8. j + 1 \in G
    BY <2>1, <2>5, <2>6, <2>7
  <2> HIDE DEF G
  <2>9. j + 1 <= j
    BY <2>2, <2>8
  <2> QED BY <2>3, <2>9
<1>8. \A k \in 0 .. End : Pass[k] = F[k]
  <2>1. (End + 1) - 1 = End
    BY <1>1
  <2> QED BY <1>6, <1>7, <2>1
<1> QED BY <1>8 DEF F

(* A new process restores, from any log this system can have written and    *)
(* whatever a crash cut off it, what one pass over that log leaves: the     *)
(* open turn, whether its usage is known, the totals, the block and every   *)
(* record (restoreFromLog).                                                 *)
THEOREM RestoreAgrees == Spec => []RestoreIsTheScan
<1>1. Sound => RestoreIsTheScan
  <2> SUFFICES ASSUME Sound PROVE RestoreIsTheScan
    OBVIOUS
  <2>1. log \in Seq(Event) /\ End = Len(log) /\ End \in 0 .. End
    BY LogIsFit
  <2>2. SubSeq(log, 1, End) = log
    BY <2>1, SubSeqFull
  <2>3. Pass[Len(log)] = Swept(log)
    BY <2>1, <2>2, PassIsSwept
  <2>4. OpenTurn(log) # NoTurn => At(log, "turn.started") # {}
    BY DEF OpenTurn
  <2>5. OpenUsageRecorded(log) \in BOOLEAN
    BY DEF OpenUsageRecorded
  <2> QED BY <2>3, <2>4, <2>5 DEF RestoreIsTheScan, Swept
<1> QED BY <1>1, SoundHolds, PTL
=============================================================================
