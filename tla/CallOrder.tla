------------------------------ MODULE CallOrder ------------------------------
(***************************************************************************)
(* What a batch of tool calls promises, whatever loop runs it: calls begin *)
(* in order, an exclusive call shares the engine with no other, at most    *)
(* cap calls run at a time, and once the turn is aborted nothing begins.   *)
(***************************************************************************)
EXTENDS Integers, FiniteSets

CONSTANT Size

VARIABLES mode, cap, stage, aborted

Calls == 1 .. Size
Running == {i \in Calls : stage[i] = "running"}
Conflict(i, j) == "exclusive" \in {mode[i], mode[j]}

Init ==
  /\ mode \in [Calls -> {"exclusive", "parallel-safe"}]
  /\ cap \in Nat \ {0}
  /\ stage = [i \in Calls |-> "waiting"]
  /\ aborted = FALSE

Begin(i) ==
  /\ ~aborted
  /\ stage[i] = "waiting"
  /\ Cardinality(Running) < cap
  /\ \A j \in 1 .. i - 1 : /\ stage[j] \in {"running", "ended"}
                           /\ Conflict(i, j) => stage[j] = "ended"
  /\ stage' = [stage EXCEPT ![i] = "running"]
  /\ UNCHANGED <<mode, cap, aborted>>

End(i) ==
  /\ stage[i] = "running"
  /\ stage' = [stage EXCEPT ![i] = "ended"]
  /\ UNCHANGED <<mode, cap, aborted>>

(* A call that an abort kept from beginning, after those before it. *)
Skip(i) ==
  /\ aborted
  /\ stage[i] = "waiting"
  /\ \A j \in 1 .. i - 1 : stage[j] # "waiting"
  /\ stage' = [stage EXCEPT ![i] = "skipped"]
  /\ UNCHANGED <<mode, cap, aborted>>

Abort == aborted' = TRUE /\ UNCHANGED <<mode, cap, stage>>

Next == Abort \/ \E i \in Calls : Begin(i) \/ End(i) \/ Skip(i)

Spec == Init /\ [][Next]_<<mode, cap, stage, aborted>>
=============================================================================
