--------------------------- MODULE ToolBatch_proofs ---------------------------
(***************************************************************************)
(* Theorems about ToolBatch for every number of calls, every mix of modes  *)
(* and every value of maxParallel.                                         *)
(***************************************************************************)
EXTENDS ToolBatch, TLAPS, FiniteSetTheorems

(* Where the loop is and what that says of its index and of what runs. *)
LoopInv ==
  /\ pc \in {"drain", "alone"} => index \in Calls /\ mode[index] = "exclusive"
  /\ pc = "race" => index \in Calls /\ mode[index] = "parallel-safe"
  /\ pc \in {"end", "done"} => index = Size + 1
  /\ pc = "done" => inFlight = {}
  /\ pc = "alone" => index \in started /\ inFlight \subseteq {index}
  /\ \A i \in inFlight : mode[i] = "exclusive" => pc = "alone"

(* Calls before the index were started or declined, those after it were not. *)
CallsInv ==
  /\ inFlight \subseteq started
  /\ \A i \in Calls : i < index => i \in started \/ results[i] = "cancelled"
  /\ \A i \in started : i < index \/ (i = index /\ pc = "alone")
  /\ \A i \in Calls \ started : i >= index => results[i] = "none"
  /\ \A i \in started : results[i] \in Outcomes \cup {"none"}
  /\ \A i \in started \ inFlight : results[i] \in Outcomes
  /\ \A i \in Calls \ started : results[i] \in {"none", "cancelled"}
  /\ \A i \in Calls : results[i] = "cancelled" => aborted
  /\ cancelled => aborted

Inv == TypeOK /\ LoopInv /\ CallsInv

(* normalizeParallelCap never lets a cap below one through. *)
LEMMA CapIsPositive ==
  ASSUME NEW m \in [finite : BOOLEAN, floor : Int]
  PROVE  NormalizeParallelCap(m) \in Nat \ {0}
BY DEF NormalizeParallelCap

LEMMA InitInv == Init => Inv
<1> SUFFICES ASSUME Init PROVE Inv
  OBVIOUS
<1>1. cap \in Nat \ {0}
  BY ParallelAssumption, CapIsPositive DEF Init
<1>2. 1 \in 1 .. Size + 1
  BY SizeAssumption
<1>3. TypeOK
  BY <1>1, <1>2 DEF Init, TypeOK
<1>4. LoopInv /\ CallsInv
  BY DEF Init, LoopInv, CallsInv, Calls
<1> QED BY <1>3, <1>4 DEF Inv

(* The call at the index is declined once the abort was seen. *)
LEMMA DeclineKeepsInv ==
  ASSUME Inv, Decline, IsCancelled, UNCHANGED fixed, index \in Calls,
         pc \in {"loop", "drain", "race"},
         pc = "drain" => inFlight = {}
  PROVE  Inv'
<1> USE SizeAssumption DEF Calls
<1>1. TypeOK'
  BY DEF Inv, TypeOK, Decline, fixed
<1>2. LoopInv'
  BY DEF Inv, TypeOK, LoopInv, Decline, fixed
<1>3. CallsInv'
  BY DEF Inv, TypeOK, LoopInv, CallsInv, Decline, fixed, IsCancelled
<1> QED BY <1>1, <1>2, <1>3 DEF Inv

(* The call at the index starts beside those in flight. *)
LEMMA StartParallelKeepsInv ==
  ASSUME Inv, StartParallel, UNCHANGED fixed, index \in Calls,
         pc \in {"loop", "race"}, mode[index] = "parallel-safe"
  PROVE  Inv'
<1> USE SizeAssumption DEF Calls
<1>1. TypeOK'
  BY DEF Inv, TypeOK, StartParallel, Start, fixed
<1>2. LoopInv'
  BY DEF Inv, TypeOK, LoopInv, CallsInv, StartParallel, Start, fixed
<1>3. CallsInv'
  BY DEF Inv, TypeOK, LoopInv, CallsInv, StartParallel, Start, fixed, Outcomes
<1> QED BY <1>1, <1>2, <1>3 DEF Inv

(* Every step keeps the invariant: one case per action. *)
LEMMA StepKeepsInv == Inv /\ [Next]_vars => Inv'
<1> SUFFICES ASSUME Inv, [Next]_vars PROVE Inv'
  OBVIOUS
<1> USE SizeAssumption DEF Calls
<1>1. CASE HeadCancelled
  BY <1>1, DeclineKeepsInv DEF HeadCancelled, AtHead, Inv, TypeOK
<1>2. CASE HeadExclusive
  <2>1. TypeOK' /\ LoopInv'
    BY <1>2 DEF HeadExclusive, AtHead, Suspend, calls, fixed, Inv, TypeOK, LoopInv
  <2>2. CallsInv'
    BY <1>2 DEF HeadExclusive, AtHead, Suspend, calls, fixed, Inv, TypeOK, CallsInv
  <2> QED BY <2>1, <2>2 DEF Inv
<1>3. CASE HeadParallel
  <2>1. CASE Full
    <3>1. /\ pc = "loop" /\ index \in Calls /\ mode[index] = "parallel-safe"
          /\ pc' = "race" /\ UNCHANGED <<fixed, calls>>
      BY <1>3, <2>1 DEF HeadParallel, AtHead, Suspend, Inv, TypeOK
    <3>2. TypeOK'
      BY <3>1 DEF calls, fixed, Inv, TypeOK
    <3>3. LoopInv'
      BY <3>1 DEF calls, fixed, Inv, LoopInv
    <3>4. CallsInv'
      BY <3>1 DEF calls, fixed, Inv, CallsInv
    <3> QED BY <3>2, <3>3, <3>4 DEF Inv
  <2>2. CASE ~Full
    BY <1>3, <2>2, StartParallelKeepsInv DEF HeadParallel, AtHead, Inv, TypeOK
  <2> QED BY <2>1, <2>2
<1>4. CASE AfterDrain
  <2>1. pc = "drain" /\ inFlight = {} /\ index \in Calls /\ mode[index] = "exclusive"
    BY <1>4 DEF AfterDrain, Drained, Inv, LoopInv
  <2>2. CASE CancelledMeanwhile
    BY <1>4, <2>1, <2>2, DeclineKeepsInv DEF AfterDrain, CancelledMeanwhile
  <2>3. CASE ~CancelledMeanwhile
    <3>1. StartExclusive /\ UNCHANGED fixed
      BY <1>4, <2>3 DEF AfterDrain
    <3>2. TypeOK'
      BY <2>1, <3>1 DEF Inv, TypeOK, StartExclusive, Start, fixed
    <3>3. LoopInv'
      BY <2>1, <3>1 DEF Inv, TypeOK, LoopInv, StartExclusive, Start, fixed
    <3>4. CallsInv'
      BY <2>1, <3>1 DEF Inv, TypeOK, CallsInv, StartExclusive, Start, fixed, Outcomes
    <3> QED BY <3>2, <3>3, <3>4 DEF Inv
  <2> QED BY <2>2, <2>3
<1>5. CASE AfterAlone
  <2>1. TypeOK' /\ LoopInv'
    BY <1>5 DEF AfterAlone, Drained, fixed, Inv, TypeOK, LoopInv
  <2>2. CallsInv'
    BY <1>5 DEF AfterAlone, Drained, fixed, Inv, TypeOK, LoopInv, CallsInv
  <2> QED BY <2>1, <2>2 DEF Inv
<1>6. CASE AfterRace
  <2>1. pc = "race" /\ index \in Calls /\ mode[index] = "parallel-safe"
    BY <1>6 DEF AfterRace, Inv, LoopInv
  <2>2. CASE CancelledMeanwhile
    BY <1>6, <2>1, <2>2, DeclineKeepsInv DEF AfterRace, CancelledMeanwhile
  <2>3. CASE ~CancelledMeanwhile
    BY <1>6, <2>1, <2>3, StartParallelKeepsInv DEF AfterRace
  <2> QED BY <2>2, <2>3
<1>7. CASE LastDrain \/ Return
  <2>1. /\ pc \in {"loop", "end"} /\ pc' \in {"end", "done"}
        /\ index = Size + 1 /\ (pc' = "done" => inFlight = {})
        /\ UNCHANGED <<fixed, calls>>
    BY <1>7 DEF LastDrain, Return, Drained, Suspend, Inv, TypeOK, LoopInv
  <2>2. TypeOK'
    BY <2>1 DEF calls, fixed, Inv, TypeOK
  <2>3. LoopInv'
    BY <2>1 DEF calls, fixed, Inv, LoopInv
  <2>4. CallsInv'
    BY <2>1 DEF calls, fixed, Inv, CallsInv
  <2> QED BY <2>2, <2>3, <2>4 DEF Inv
<1>8. CASE \E i \in Calls : Settles(i)
  <2> PICK i \in Calls, outcome \in Outcomes : Settle(i, outcome)
    BY <1>8 DEF Settles
  <2>1. TypeOK' /\ LoopInv'
    BY DEF Settle, Elsewhere, Outcomes, fixed, Inv, TypeOK, LoopInv
  <2>2. CallsInv'
    BY DEF Settle, Elsewhere, Outcomes, fixed, Inv, TypeOK, CallsInv
  <2> QED BY <2>1, <2>2 DEF Inv
<1>9. CASE \E i \in Calls : Leave(i)
  <2> PICK i \in Calls : Leave(i)
    BY <1>9
  <2>1. TypeOK' /\ LoopInv'
    BY DEF Leave, Elsewhere, fixed, Inv, TypeOK, LoopInv
  <2>2. CallsInv'
    BY DEF Leave, Elsewhere, Outcomes, fixed, Inv, TypeOK, CallsInv
  <2> QED BY <2>1, <2>2 DEF Inv
<1>10. CASE Abort
  <2>1. TypeOK' /\ LoopInv'
    BY <1>10 DEF Abort, calls, Inv, TypeOK, LoopInv
  <2>2. CallsInv'
    BY <1>10 DEF Abort, calls, Inv, TypeOK, CallsInv
  <2> QED BY <2>1, <2>2 DEF Inv
<1>11. CASE UNCHANGED vars
  BY <1>11 DEF vars, fixed, calls, Inv, TypeOK, LoopInv, CallsInv
<1> QED
  BY <1>1, <1>2, <1>3, <1>4, <1>5, <1>6, <1>7, <1>8, <1>9, <1>10, <1>11
     DEF Next, Loop, Returned

LEMMA InvHolds == Spec => []Inv
BY InitInv, StepKeepsInv, PTL DEF Spec

(* Every variable keeps its type, and the cap is at least one whatever the  *)
(* caller asked for (normalizeParallelCap, runToolBatch).                   *)
THEOREM TypeCorrect == Spec => []TypeOK
<1>1. Inv => TypeOK
  BY DEF Inv
<1> QED BY <1>1, InvHolds, PTL

(* The batch returns the truth about every call (the result of runToolBatch). *)
THEOREM Report == Spec => []ReportIsTrue
<1>1. Inv => ReportIsTrue
  <2> SUFFICES ASSUME Inv, pc = "done" PROVE ReportIsTrue
    BY DEF ReportIsTrue
  <2>1. inFlight = {} /\ \A i \in Calls : i < index
    BY SizeAssumption DEF Inv, LoopInv, Calls
  <2>2. ASSUME NEW i \in Calls
        PROVE  IF i \in started THEN results[i] \in Outcomes
                                ELSE results[i] = "cancelled"
    BY <2>1 DEF Inv, CallsInv
  <2> QED BY <2>1, <2>2 DEF ReportIsTrue
<1> QED BY <1>1, InvHolds, PTL

-----------------------------------------------------------------------------
(* The batch implements CallOrder *)

(* A call is running for CallOrder exactly while it is in flight. *)
LEMMA RunningIsInFlight ==
  ASSUME Inv PROVE Order!Running = inFlight
BY DEF Inv, TypeOK, CallsInv, Order!Running, Order!Calls, Calls, Stage, Outcomes

(* The calls in flight can be counted. *)
LEMMA InFlightCounts ==
  ASSUME Inv PROVE Cardinality(inFlight) \in Nat
<1>1. IsFiniteSet(1 .. Size)
  BY SizeAssumption, FS_Interval
<1>2. inFlight \subseteq 1 .. Size
  BY DEF Inv, TypeOK, Calls
<1>3. IsFiniteSet(inFlight)
  BY <1>1, <1>2, FS_Subset
<1> QED BY <1>3, FS_CardinalityType

(* A call that starts, starts as CallOrder lets it. *)
LEMMA StartBegins ==
  ASSUME Inv, Start, ~aborted, UNCHANGED fixed, index \in Calls,
         pc # "alone", Cardinality(inFlight) < cap,
         mode[index] = "exclusive" => inFlight = {}
  PROVE  Order!Begin(index)
<1> USE DEF Calls
<1>1. Stage[index] = "waiting"
  BY DEF Inv, CallsInv, TypeOK, Stage
<1>2. ASSUME NEW j \in 1 .. index - 1
      PROVE  /\ Stage[j] \in {"running", "ended"}
             /\ Order!Conflict(index, j) => Stage[j] = "ended"
  <2>1. j \in Calls /\ j < index /\ j \in started /\ results[j] # "cancelled"
    BY SizeAssumption DEF Inv, CallsInv, TypeOK
  <2>2. j \in inFlight => mode[j] # "exclusive"
    BY DEF Inv, LoopInv
  <2> QED BY <2>1, <2>2 DEF Stage, Order!Conflict
<1>3. Stage' = [Stage EXCEPT ![index] = "running"]
  BY DEF Start, Stage, Inv, CallsInv, TypeOK, Outcomes
<1>4. Order!Cardinality(Order!Running) < cap
  BY RunningIsInFlight DEF Order!Cardinality, Cardinality
<1> QED BY <1>1, <1>2, <1>3, <1>4 DEF Order!Begin, fixed

(* A call that is declined is skipped. *)
LEMMA DeclineSkips ==
  ASSUME Inv, Decline, IsCancelled, UNCHANGED fixed, index \in Calls, pc # "alone"
  PROVE  Order!Skip(index)
<1> USE DEF Calls
<1>1. aborted /\ index \notin started
  BY DEF Inv, CallsInv, IsCancelled, TypeOK
<1>2. Stage[index] = "waiting"
  BY <1>1 DEF Inv, CallsInv, TypeOK, Stage
<1>3. ASSUME NEW j \in 1 .. index - 1
      PROVE  Stage[j] # "waiting"
  <2>1. j \in Calls /\ j < index
    BY SizeAssumption DEF Inv, TypeOK
  <2> QED BY <2>1 DEF Stage, Inv, CallsInv
<1>4. Stage' = [Stage EXCEPT ![index] = "skipped"]
  BY DEF Decline, Stage, Inv, CallsInv, TypeOK
<1> QED BY <1>1, <1>2, <1>3, <1>4 DEF Order!Skip, fixed

(* Every step of the loop, of a call or of the signal is one of CallOrder. *)
LEMMA StepIsOrdered ==
  Inv /\ [Next]_vars => [Order!Next]_<<mode, cap, Stage, aborted>>
<1> SUFFICES ASSUME Inv, [Next]_vars
             PROVE  Order!Next \/ UNCHANGED <<mode, cap, Stage, aborted>>
  OBVIOUS
<1> USE DEF Order!Next, Order!Calls, Calls
<1>1. CASE HeadCancelled
  BY <1>1, DeclineSkips DEF HeadCancelled, AtHead, Inv, TypeOK
<1>2. CASE HeadExclusive \/ LastDrain \/ Return
  BY <1>2 DEF HeadExclusive, LastDrain, Return, Suspend, calls, fixed, Stage
<1>3. CASE HeadParallel
  <2>1. CASE Full
    BY <1>3, <2>1 DEF HeadParallel, Suspend, calls, fixed, Stage
  <2>2. CASE ~Full
    <3>1. Cardinality(inFlight) < cap
      BY <2>2, InFlightCounts DEF Full, Inv, TypeOK
    <3> QED
      BY <1>3, <2>2, <3>1, StartBegins
         DEF HeadParallel, StartParallel, AtHead, IsCancelled, Inv, TypeOK
  <2> QED BY <2>1, <2>2
<1>4. CASE AfterDrain
  <2>1. pc = "drain" /\ inFlight = {} /\ index \in Calls
    BY <1>4 DEF AfterDrain, Drained, Inv, LoopInv
  <2>2. Cardinality(inFlight) < cap
    BY <2>1, FS_EmptySet DEF Inv, TypeOK
  <2> QED
    BY <1>4, <2>1, <2>2, DeclineSkips, StartBegins
       DEF AfterDrain, StartExclusive, CancelledMeanwhile, IsCancelled
<1>5. CASE AfterAlone
  BY <1>5 DEF AfterAlone, fixed, Stage
<1>6. CASE AfterRace
  <2>1. pc = "race" /\ index \in Calls /\ mode[index] = "parallel-safe"
    BY <1>6 DEF AfterRace, Inv, LoopInv
  <2>2. Cardinality(inFlight) < cap
    BY <1>6, InFlightCounts DEF AfterRace, Full, Inv, TypeOK
  <2> QED
    BY <1>6, <2>1, <2>2, DeclineSkips, StartBegins
       DEF AfterRace, StartParallel, CancelledMeanwhile, IsCancelled
<1>7. CASE \E i \in Calls : Settles(i)
  <2> PICK i \in Calls, outcome \in Outcomes : Settle(i, outcome)
    BY <1>7 DEF Settles
  <2>1. Stage' = Stage
    BY DEF Settle, Stage, Outcomes, Inv, TypeOK
  <2> QED BY <2>1 DEF Settle, fixed
<1>8. CASE \E i \in Calls : Leave(i)
  <2> PICK i \in Calls : Leave(i)
    BY <1>8
  <2>1. Stage[i] = "running" /\ Stage' = [Stage EXCEPT ![i] = "ended"]
    BY DEF Leave, Stage, Inv, CallsInv, TypeOK, Outcomes
  <2> QED BY <2>1 DEF Leave, fixed, Order!End
<1>9. CASE Abort
  BY <1>9 DEF Abort, calls, Stage, Order!Abort
<1>10. CASE UNCHANGED vars
  BY <1>10 DEF vars, fixed, calls, Stage
<1> QED
  BY <1>1, <1>2, <1>3, <1>4, <1>5, <1>6, <1>7, <1>8, <1>9, <1>10
     DEF Next, Loop, Returned

(* runToolBatch keeps the promise of CallOrder: calls start in order, an    *)
(* exclusive one alone, at most cap of them together, none after an abort.  *)
THEOREM Refinement == Spec => ImplementsCallOrder
<1>1. Init => Order!Init
  <2> SUFFICES ASSUME Init PROVE Order!Init
    OBVIOUS
  <2>1. cap \in Nat \ {0}
    BY InitInv DEF Inv, TypeOK
  <2>2. Stage = [i \in Calls |-> "waiting"]
    BY DEF Init, Stage
  <2> QED BY <2>1, <2>2 DEF Init, Order!Init, Order!Calls, Calls, Modes
<1> QED BY <1>1, StepIsOrdered, InvHolds, PTL DEF Spec, ImplementsCallOrder, Order!Spec
=============================================================================
