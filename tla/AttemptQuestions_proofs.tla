------------------------ MODULE AttemptQuestions_proofs ------------------------
(***************************************************************************)
(* Theorems about AttemptQuestions, for any set of questions and any bound *)
(* on the faults.                                                          *)
(***************************************************************************)
EXTENDS AttemptQuestions, TLAPS

(* What the desk and the server say of q: a receipt is known only of an      *)
(* answer that is pending or delivered, an offer only of an answer, and      *)
(* nothing is failed or closed while the attempt runs.                       *)
DeskOf(q) ==
  /\ desk[q] = "received" => q \in writer.sent /\ request[q] \in {"answered", "delivered"}
  /\ desk[q] = "acknowledged" => q \in writer.sent /\ request[q] = "delivered"
  /\ desk[q] = "offered" => request[q] \in {"answered", "delivered", "failed"}
  /\ request[q] = "delivered" => q \in writer.sent
  /\ phase = "running" => request[q] \notin {"failed", "closed"}

(* What the journal says of q: no more than the desk, and the receipt once   *)
(* the writer was told after the write.                                      *)
JournalOf(q) ==
  /\ NotBehind(journal[q], desk[q])
  /\ q \in writer.kept => journal[q] \in {"received", "acknowledged"}
  /\ q \in noting => desk[q] \in {"received", "acknowledged"}

(* What is left for the tick or the close to do with q.                      *)
TodoOf(q) ==
  /\ phase = "running" /\ tick.at = "opening" /\ q \in tick.todo => desk[q] = "asked"
  /\ tick.at = "offering" /\ q \in tick.todo
       => request[q] \in {"answered", "delivered", "failed"}
  /\ phase = "running" /\ tick.at = "recording" /\ q \in tick.todo => desk[q] = "received"
  /\ close.at = "recording" /\ q \in close.todo => desk[q] = "received"
  /\ close.at = "failing" /\ q \in close.todo => desk[q] \notin {"received", "acknowledged"}
  /\ close.at \in {"failing", "ended"} => desk[q] # "received"
  /\ close.at = "ended" /\ request[q] \in {"open", "answered"}
       => \A p \in Questions : desk[p] = "none"

(* Where the close is in each phase.                                         *)
CloseInv ==
  /\ phase \in {"running", "stopping", "down"} => close.at = "idle"
  /\ phase \in {"closing", "recovering"} => close.at \in {"recording", "failing", "ended"}
  /\ phase = "settled" => close.at = "ended"

IInv == /\ CloseInv
        /\ \A q \in Questions : DeskOf(q) /\ JournalOf(q) /\ TodoOf(q)

(* Every step of an attempt keeps the types.                                 *)
LEMMA TypeStep == TypeOK /\ [Next]_vars => TypeOK'
<1> SUFFICES ASSUME TypeOK, [Next]_vars PROVE TypeOK'
  OBVIOUS
<1> USE DEF TypeOK, States, Stages
<1>1. CASE TickBegins
  BY <1>1 DEF TickBegins, Ticking, InState, relay, outside
<1>2. CASE Lists
  BY <1>2 DEF Lists, Pending, CallFails, Ticking, Fault, relay
<1>3. CASE Collects
  BY <1>3 DEF Collects, MayOffer, Unrecorded, Ticking, InState, relay, outside
<1>4. CASE TickEnds
  BY <1>4 DEF TickEnds, Ticking, InState, Idle, relay, outside
<1>5. CASE TickIsLeft
  BY <1>5 DEF TickIsLeft, MayOffer, Alive, Idle, relay, outside
<1>6. CASE Saved("tick")
  BY <1>6 DEF Saved, Alive, relay, outside
<1>7. CASE CloseBegins
  <2>1. InState("received") \subseteq Questions
    BY DEF InState
  <2>2. close' \in [at : Stages, todo : SUBSET Questions]
    BY <1>7, <2>1 DEF CloseBegins, Unrecorded
  <2> QED
    BY <1>7, <2>2 DEF CloseBegins, relay, outside
<1>8. CASE Recorded
  <2>1. CASE AllRecorded /\ close' = [at |-> "failing", todo |-> InState("offered")]
    <3>1. InState("offered") \subseteq Questions
      BY DEF InState
    <3>2. close' \in [at : Stages, todo : SUBSET Questions]
      BY <2>1, <3>1
    <3> QED
      BY <1>8, <2>1, <3>2 DEF Recorded, GiveUp, GoDown, relay
  <2>2. CASE ~AllRecorded /\ GiveUp
    BY <1>8, <2>2 DEF Recorded, GiveUp, GoDown, Copies, Idle
  <2> QED
    BY <1>8, <2>1, <2>2 DEF Recorded
<1>9. CASE Ends
  <2>1. SessionEnded \in [Questions -> {"none", "open", "answered", "delivered", "failed", "closed"}]
    BY DEF SessionEnded
  <2>2. faults' \in Nat
    <3>1. UNCHANGED faults \/ Fault
      BY <1>9 DEF Ends
    <3> QED
      BY <3>1 DEF Fault
  <2>3. CASE UNCHANGED <<phase, desk, journal, tick, saving, claim, faults, relay>>
    BY <1>9, <2>1, <2>2, <2>3 DEF Ends, GiveUp, relay, GoDown, Idle
  <2>4. CASE GiveUp
    BY <1>9, <2>1, <2>2, <2>4 DEF Ends, GiveUp, GoDown, Copies, Idle
  <2> QED
    BY <1>9, <2>3, <2>4 DEF Ends
<1>10. CASE CloseIsCut
  BY <1>10 DEF CloseIsCut, GiveUp, CallFails, GoDown, Copies, Fault, Idle
<1>11. CASE Settles
  BY <1>11 DEF Settles, Closing, Alive, relay, outside
<1>12. CASE Saved("close")
  BY <1>12 DEF Saved, Alive, relay, outside
<1>13. CASE Save
  BY <1>13 DEF Save, Copies, relay, outside
<1>14. CASE TickSaveFails
  BY <1>14 DEF TickSaveFails, Fault, Alive, Idle, relay
<1>15. CASE CloseSaveFails
  <2>1. faults' \in Nat
    BY <1>15 DEF CloseSaveFails, Fault
  <2>2. CASE phase' = "stopping" /\ close' = Idle
             /\ saving' = saving \ {"close"}
             /\ UNCHANGED <<desk, journal, tick, request, claim, relay>>
    BY <2>1, <2>2 DEF Idle, relay
  <2>3. CASE UNCHANGED <<journal, request>> /\ GoDown
    BY <2>1, <2>3 DEF GoDown, Idle
  <2> QED
    BY <1>15, <2>2, <2>3 DEF CloseSaveFails
<1>16. CASE Stop
  BY <1>16 DEF Stop, relay, outside
<1>17. CASE Crash
  BY <1>17 DEF Crash, GoDown, Fault, Alive, Idle
<1>34. CASE Archives
  BY <1>34 DEF Archives, relay, outside
<1>18. CASE Expires
  <2>1. claim' \in BOOLEAN
    BY <1>18 DEF Expires
  <2>2. faults' \in Nat
    BY <1>18 DEF Expires, Fault
  <2> QED
    BY <1>18, <2>1, <2>2 DEF Expires, relay
<1>19. ASSUME NEW q \in Questions, Opens(q) PROVE TypeOK'
  BY <1>19 DEF Opens, TickDoes, Fault, Ticking, relay
<1>20. ASSUME NEW q \in Questions, Rejects(q) PROVE TypeOK'
  BY <1>20 DEF Rejects, TickDoes, Ticking, relay, outside
<1>21. ASSUME NEW q \in Questions, Offers(q) PROVE TypeOK'
  BY <1>21 DEF Offers, MayOffer, Ticking, Alive, relay, outside
<1>22. ASSUME NEW q \in Questions, TickRecords(q) PROVE TypeOK'
  BY <1>22 DEF TickRecords, TickDoes, Delivers, Ticking, Fault, relay
<1>23. ASSUME NEW q \in Questions, TickCallFails(q) PROVE TypeOK'
  BY <1>23 DEF TickCallFails, TickDoes, CallFails, Ticking, Fault, relay
<1>24. ASSUME NEW q \in Questions, CloseRecords(q) PROVE TypeOK'
  BY <1>24 DEF CloseRecords, CloseDoes, Delivers, Closing, Fault, Alive, relay
<1>25. ASSUME NEW q \in Questions, CloseCallFails(q) PROVE TypeOK'
  BY <1>25 DEF CloseCallFails, CloseDoes, CallFails, Closing, Fault, Alive, relay
<1>26. ASSUME NEW q \in Questions, Fails(q) PROVE TypeOK'
  BY <1>26 DEF Fails, CloseDoes, Closing, Alive, relay
<1>27. ASSUME NEW q \in Questions, Ask(q) PROVE TypeOK'
  BY <1>27 DEF Ask, RelayOpen, relay, outside
<1>28. ASSUME NEW q \in Questions, Receipt(q) PROVE TypeOK'
  BY <1>28 DEF Receipt, RelayOpen, outside
<1>30. ASSUME NEW q \in Questions, Noted(q) PROVE TypeOK'
  BY <1>30 DEF Noted, Alive, outside
<1>31. ASSUME NEW q \in Questions, NoteFails(q) PROVE TypeOK'
  BY <1>31 DEF NoteFails, Fault, Alive
<1>32. ASSUME NEW q \in Questions, Answered(q) PROVE TypeOK'
  BY <1>32 DEF Answered, relay
<1>33. CASE UNCHANGED vars
  BY <1>33 DEF vars
<1> QED
  BY <1>1, <1>2, <1>3, <1>4, <1>5, <1>6, <1>7, <1>8, <1>9, <1>10, <1>11, <1>12, <1>13, <1>14, <1>15, <1>16, <1>17, <1>18, <1>19, <1>20, <1>21, <1>22, <1>23, <1>24, <1>25, <1>26, <1>27, <1>28, <1>30, <1>31, <1>32, <1>33, <1>34 DEF Next, TickStep, CloseStep, RelayStep, OtherStep

(* Every step of an attempt keeps the invariant.                             *)
LEMMA InvStep == TypeOK /\ IInv /\ [Next]_vars => IInv'
<1> SUFFICES ASSUME TypeOK, IInv, [Next]_vars PROVE IInv'
  OBVIOUS
<1> USE DEF TypeOK, States, IInv, CloseInv, DeskOf, JournalOf, TodoOf, NotBehind
<1>1. CASE TickBegins
  BY <1>1 DEF TickBegins, Ticking, InState, relay, outside
<1>2. CASE Lists
  BY <1>2 DEF Lists, Pending, CallFails, Ticking, Fault, relay
<1>3. CASE Collects
  BY <1>3 DEF Collects, MayOffer, Unrecorded, Ticking, InState, relay, outside
<1>4. CASE TickEnds
  BY <1>4 DEF TickEnds, Ticking, InState, Idle, relay, outside
<1>5. CASE TickIsLeft
  BY <1>5 DEF TickIsLeft, MayOffer, Alive, Idle, relay, outside
<1>6. CASE Saved("tick")
  BY <1>6 DEF Saved, Alive, relay, outside
<1>7. CASE CloseBegins
  BY <1>7 DEF CloseBegins, Unrecorded, Known, InState, relay, outside
<1>8. CASE Recorded
  BY <1>8 DEF Recorded, Closing, GiveUp, AllRecorded, InState, Alive, GoDown, Copies, Idle, relay
<1>9. CASE Ends
  <2>1. CloseInv'
    <3>1. CASE close' = [at |-> "ended", todo |-> {}] /\ UNCHANGED <<phase, desk, journal, tick, saving, claim, faults, relay>>
      BY <1>9, <3>1 DEF Ends, Closing, Alive, SessionEnded, relay
    <3>2. CASE GiveUp
      BY <1>9, <3>2 DEF Ends, Closing, Alive, SessionEnded, GiveUp, GoDown, Copies, Idle
    <3> QED
      BY <1>9, <3>1, <3>2 DEF Ends
  <2>2. ASSUME NEW q \in Questions PROVE DeskOf(q)'
    <3>1. CASE close' = [at |-> "ended", todo |-> {}] /\ UNCHANGED <<phase, desk, journal, tick, saving, claim, faults, relay>>
      BY <1>9, <3>1 DEF Ends, Closing, Alive, SessionEnded, relay
    <3>2. CASE GiveUp
      BY <1>9, <3>2 DEF Ends, Closing, Alive, SessionEnded, GiveUp, GoDown, Copies, Idle
    <3> QED
      BY <1>9, <3>1, <3>2 DEF Ends
  <2>3. ASSUME NEW q \in Questions PROVE JournalOf(q)'
    <3>1. CASE close' = [at |-> "ended", todo |-> {}] /\ UNCHANGED <<phase, desk, journal, tick, saving, claim, faults, relay>>
      BY <1>9, <3>1 DEF Ends, Closing, Alive, SessionEnded, relay
    <3>2. CASE GiveUp
      BY <1>9, <3>2 DEF Ends, Closing, Alive, SessionEnded, GiveUp, GoDown, Copies, Idle
    <3> QED
      BY <1>9, <3>1, <3>2 DEF Ends
  <2>4. ASSUME NEW q \in Questions PROVE TodoOf(q)'
    <3>1. CASE close' = [at |-> "ended", todo |-> {}] /\ UNCHANGED <<phase, desk, journal, tick, saving, claim, faults, relay>>
      BY <1>9, <3>1 DEF Ends, Closing, Alive, SessionEnded, relay
    <3>2. CASE GiveUp
      BY <1>9, <3>2 DEF Ends, Closing, Alive, SessionEnded, GiveUp, GoDown, Copies, Idle
    <3> QED
      BY <1>9, <3>1, <3>2 DEF Ends
  <2> QED
    BY <2>1, <2>2, <2>3, <2>4
<1>10. CASE CloseIsCut
  BY <1>10 DEF CloseIsCut, GiveUp, CallFails, GoDown, Copies, Fault, Idle
<1>11. CASE Settles
  BY <1>11 DEF Settles, Closing, Alive, relay, outside
<1>12. CASE Saved("close")
  BY <1>12 DEF Saved, Alive, relay, outside
<1>13. CASE Save
  BY <1>13 DEF Save, Copies, relay, outside
<1>14. CASE TickSaveFails
  BY <1>14 DEF TickSaveFails, Fault, Alive, Idle, relay
<1>15. CASE CloseSaveFails
  BY <1>15 DEF CloseSaveFails, GoDown, Fault, Alive, Idle, relay
<1>16. CASE Stop
  BY <1>16 DEF Stop, relay, outside
<1>17. CASE Crash
  BY <1>17 DEF Crash, GoDown, Fault, Alive, Idle
<1>34. CASE Archives
  BY <1>34 DEF Archives, relay, outside
<1>18. CASE Expires
  BY <1>18 DEF Expires, Fault, relay
<1>19. ASSUME NEW p \in Questions, Opens(p) PROVE IInv'
  BY <1>19 DEF Opens, TickDoes, Fault, Ticking, relay
<1>20. ASSUME NEW p \in Questions, Rejects(p) PROVE IInv'
  BY <1>20 DEF Rejects, TickDoes, Ticking, relay, outside
<1>21. ASSUME NEW p \in Questions, Offers(p) PROVE IInv'
  BY <1>21 DEF Offers, MayOffer, Ticking, Alive, relay, outside
<1>22. ASSUME NEW p \in Questions, TickRecords(p) PROVE IInv'
  BY <1>22 DEF TickRecords, TickDoes, Delivers, Ticking, Fault, relay
<1>23. ASSUME NEW p \in Questions, TickCallFails(p) PROVE IInv'
  BY <1>23 DEF TickCallFails, TickDoes, CallFails, Ticking, Fault, relay
<1>24. ASSUME NEW p \in Questions, CloseRecords(p) PROVE IInv'
  BY <1>24 DEF CloseRecords, CloseDoes, Delivers, Closing, Fault, Alive, relay
<1>25. ASSUME NEW p \in Questions, CloseCallFails(p) PROVE IInv'
  BY <1>25 DEF CloseCallFails, CloseDoes, CallFails, Closing, Fault, Alive, relay
<1>26. ASSUME NEW p \in Questions, Fails(p) PROVE IInv'
  BY <1>26 DEF Fails, CloseDoes, Closing, Alive, relay
<1>27. ASSUME NEW p \in Questions, Ask(p) PROVE IInv'
  BY <1>27 DEF Ask, RelayOpen, relay, outside
<1>28. ASSUME NEW p \in Questions, Receipt(p) PROVE IInv'
  BY <1>28 DEF Receipt, RelayOpen, outside
<1>30. ASSUME NEW p \in Questions, Noted(p) PROVE IInv'
  BY <1>30 DEF Noted, Alive, outside
<1>31. ASSUME NEW p \in Questions, NoteFails(p) PROVE IInv'
  BY <1>31 DEF NoteFails, Fault, Alive
<1>32. ASSUME NEW p \in Questions, Answered(p) PROVE IInv'
  BY <1>32 DEF Answered, relay
<1>33. CASE UNCHANGED vars
  BY <1>33 DEF vars
<1> QED
  BY <1>1, <1>2, <1>3, <1>4, <1>5, <1>6, <1>7, <1>8, <1>9, <1>10, <1>11, <1>12, <1>13, <1>14, <1>15, <1>16, <1>17, <1>18, <1>19, <1>20, <1>21, <1>22, <1>23, <1>24, <1>25, <1>26, <1>27, <1>28, <1>30, <1>31, <1>32, <1>33, <1>34 DEF Next, TickStep, CloseStep, RelayStep, OtherStep

(* Both invariants hold in every state.                                      *)
LEMMA Invariance == Spec => [](TypeOK /\ IInv)
<1>1. Init => TypeOK /\ IInv
  BY DEF Init, TypeOK, States, Stages, Idle, IInv, CloseInv, DeskOf, JournalOf, TodoOf, NotBehind
<1>2. TypeOK /\ IInv /\ [Next]_vars => (TypeOK /\ IInv)'
  BY TypeStep, InvStep
<1> QED
  BY <1>1, <1>2, PTL DEF Spec

(* Every variable keeps its type, for any set of questions and any bound.    *)
THEOREM TypeCorrect == Spec => []TypeOK
BY Invariance, PTL

(* What the server records of an answer is true: recordReceipts follows a    *)
(* state that only a receipt brings about, and what fails an answer follows  *)
(* a close that had no receipt left.                                         *)
THEOREM RecordTrue == Spec => []RecordIsTrue
<1>1. TypeOK /\ IInv => RecordIsTrue
  BY DEF IInv, DeskOf, RecordIsTrue
<1> QED
  BY <1>1, Invariance, PTL

(* A receipt answered after its write is never failed, and a settled attempt *)
(* has it recorded: the journal holds it, so every later desk does.          *)
THEOREM KeptDelivered == Spec => []KeptIsDelivered
<1>1. TypeOK /\ IInv => KeptIsDelivered
  <2> SUFFICES ASSUME TypeOK, IInv, NEW q \in writer.kept
               PROVE /\ request[q] \in {"answered", "delivered"}
                     /\ phase = "settled" => request[q] = "delivered"
    BY DEF KeptIsDelivered
  <2>1. q \in Questions
    BY DEF TypeOK
  <2>2. desk[q] \in {"received", "acknowledged"}
    BY <2>1 DEF IInv, JournalOf, NotBehind
  <2>3. phase = "settled" => desk[q] # "received"
    BY <2>1 DEF IInv, CloseInv, TodoOf
  <2> QED
    BY <2>1, <2>2, <2>3 DEF IInv, DeskOf
<1> QED
  BY <1>1, Invariance, PTL

(* A settled attempt with a journaled question has nothing open or pending   *)
(* on the server: its close reached the confirmed end of the session.        *)
THEOREM NothingOpen == Spec => []NothingLeftOpen
<1>1. TypeOK /\ IInv => NothingLeftOpen
  <2> SUFFICES ASSUME TypeOK, IInv, phase = "settled", NEW p \in Questions,
                      journal[p] # "none", NEW q \in Questions
               PROVE request[q] \notin {"open", "answered"}
    BY DEF NothingLeftOpen
  <2>1. desk[p] # "none"
    BY DEF IInv, JournalOf, NotBehind
  <2>2. close.at = "ended"
    BY DEF IInv, CloseInv
  <2> QED
    BY <2>1, <2>2 DEF IInv, TodoOf
<1> QED
  BY <1>1, Invariance, PTL

(* A step writes the desk, or what the teardown's copy had of it, or nothing.*)
LEMMA Writes == ASSUME TypeOK, Next
                PROVE  \/ journal' = journal
                       \/ journal' = desk
                       \/ phase # "running" /\ journal' \in Copies
<1>1. CASE TickStep
  BY <1>1 DEF TickStep, Saved, TickBegins, Lists, Collects, TickEnds, TickIsLeft, Opens,
              Rejects, Offers, TickRecords, TickCallFails
<1>2. CASE CloseStep
  <2>1. CASE Recorded \/ Ends \/ CloseIsCut
    BY <1>2, <2>1 DEF Recorded, Ends, CloseIsCut, GiveUp
  <2>2. CASE CloseBegins \/ Settles \/ Saved("close")
    BY <1>2, <2>2 DEF CloseBegins, Settles, Saved
  <2>3. CASE \E q \in Questions : CloseRecords(q) \/ CloseCallFails(q) \/ Fails(q)
    BY <1>2, <2>3 DEF CloseRecords, CloseCallFails, Fails
  <2> QED
    BY <1>2, <2>1, <2>2, <2>3 DEF CloseStep
<1>3. CASE RelayStep
  BY <1>3 DEF RelayStep, Ask, Receipt, Noted, NoteFails
<1>4. CASE OtherStep
  BY <1>4 DEF OtherStep, Save, TickSaveFails, CloseSaveFails, Stop, Crash, Expires, Archives, Answered
<1> QED
  BY <1>1, <1>2, <1>3, <1>4 DEF Next

(* No step takes back what the journal holds of a question, but an offer the *)
(* teardown's copy missed: the journal is never ahead of the desk.           *)
THEOREM JournalForward == Spec => JournalMovesOn
<1> DEFINE Moves(q) ==
      \/ NotBehind(journal[q], journal'[q])
      \/ phase # "running" /\ journal[q] = "offered" /\ journal'[q] = "opened"
<1>1. ASSUME TypeOK, IInv, [Next]_vars, NEW q \in Questions PROVE Moves(q)
  <2>1. NotBehind(journal[q], desk[q])
    BY <1>1 DEF IInv, JournalOf
  <2>2. CASE UNCHANGED journal
    BY <2>2 DEF NotBehind
  <2>3. CASE journal' = desk
    BY <2>1, <2>3
  <2>4. CASE phase # "running" /\ journal' \in Copies
    BY <2>1, <2>4 DEF Copies, NotBehind
  <2> QED
    BY <1>1, <2>2, <2>3, <2>4, Writes DEF vars
<1>2. TypeOK /\ IInv /\ [Next]_vars => [\A q \in Questions : Moves(q)]_vars
  BY <1>1
<1> QED
  BY <1>2, Invariance, PTL DEF Spec, JournalMovesOn
=============================================================================
