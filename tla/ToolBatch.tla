------------------------------ MODULE ToolBatch ------------------------------
(***************************************************************************)
(* runToolBatch of the harness (framework/tool-scheduler.ts): one loop     *)
(* over the calls of a model response, suspended at its awaits, the calls  *)
(* in flight, and the abort signal of the turn.                            *)
(*                                                                         *)
(* The loop runs from one await to the next without interruption: `pc' is  *)
(* "loop" meanwhile, and nothing else steps.  A call in flight takes two   *)
(* microtasks to go: one records its outcome, the next takes it out of     *)
(* inFlight, and only then do the promises the loop awaits settle.  Only   *)
(* the loop starts calls, so that awaiting what is in flight again and     *)
(* again until a condition holds is to wait for that condition.            *)
(***************************************************************************)
EXTENDS Integers, FiniteSets

CONSTANTS
  Size,      \* calls in the batch
  Parallel   \* what maxParallel may be: [finite |-> BOOLEAN, floor |-> Int]

ASSUME SizeAssumption == Size \in Nat
ASSUME ParallelAssumption == Parallel \subseteq [finite : BOOLEAN, floor : Int]

Calls == 1 .. Size
Modes == {"exclusive", "parallel-safe"}

VARIABLES
  mode,       \* the mode of each call
  cap,        \* concurrent calls allowed
  index,      \* the loop's index
  pc,         \* "loop", the await it is suspended at, or "done"
  inFlight,
  results,
  cancelled,  \* the loop has seen the abort
  aborted,    \* the turn's signal
  started     \* calls handed to execute; the code keeps no record of it

fixed == <<mode, cap, aborted>>
calls == <<index, inFlight, results, cancelled, started>>
vars == <<fixed, pc, calls>>

-----------------------------------------------------------------------------
(* Variant: the cap is taken as it comes. *)
CapAsGiven(m) == m.floor

NormalizeParallelCap(m) == IF ~m.finite \/ m.floor < 1 THEN 1 ELSE m.floor

IsCancelled == cancelled \/ aborted

(* Variant: the signal is not looked at again after an await. *)
SeenBefore == cancelled

CancelledMeanwhile == IsCancelled

(* Variant: the loop goes on without waiting for the calls in flight. *)
NotAwaited == TRUE

Drained == inFlight = {}

Full == Cardinality(inFlight) >= cap

(* The call at the index is reported as cancelled. *)
Decline ==
  /\ cancelled' = TRUE
  /\ results' = [results EXCEPT ![index] = "cancelled"]
  /\ index' = index + 1
  /\ pc' = "loop"
  /\ UNCHANGED <<inFlight, started>>

Start ==
  /\ started' = started \cup {index}
  /\ inFlight' = inFlight \cup {index}
  /\ UNCHANGED <<cancelled, results>>

StartParallel == Start /\ index' = index + 1 /\ pc' = "loop"
StartExclusive == Start /\ pc' = "alone" /\ UNCHANGED index

Suspend(at) == pc' = at /\ UNCHANGED calls

-----------------------------------------------------------------------------
(* The loop *)

AtHead == pc = "loop" /\ index <= Size

HeadCancelled == AtHead /\ IsCancelled /\ Decline /\ UNCHANGED fixed

HeadExclusive ==
  /\ AtHead /\ ~IsCancelled
  /\ mode[index] = "exclusive"
  /\ Suspend("drain")
  /\ UNCHANGED fixed

HeadParallel ==
  /\ AtHead /\ ~IsCancelled
  /\ mode[index] = "parallel-safe"
  /\ IF Full THEN Suspend("race") ELSE StartParallel
  /\ UNCHANGED fixed

(* Everything before an exclusive call has drained. *)
AfterDrain ==
  /\ pc = "drain" /\ Drained
  /\ IF CancelledMeanwhile THEN Decline ELSE StartExclusive
  /\ UNCHANGED fixed

AfterAlone ==
  /\ pc = "alone" /\ Drained
  /\ index' = index + 1 /\ pc' = "loop"
  /\ UNCHANGED <<fixed, inFlight, results, cancelled, started>>

(* A parallel call has waited for a slot. *)
AfterRace ==
  /\ pc = "race" /\ ~Full
  /\ IF CancelledMeanwhile THEN Decline ELSE StartParallel
  /\ UNCHANGED fixed

LastDrain ==
  /\ pc = "loop" /\ index > Size
  /\ Suspend("end")
  /\ UNCHANGED fixed

Return ==
  /\ pc = "end" /\ Drained
  /\ Suspend("done")
  /\ UNCHANGED fixed

Loop == HeadCancelled \/ HeadExclusive \/ HeadParallel
        \/ AfterDrain \/ AfterAlone \/ AfterRace \/ LastDrain \/ Return

-----------------------------------------------------------------------------
(* The calls and the signal *)

Elsewhere == pc \notin {"loop", "done"}

Outcomes == {"executed", "rejected"}

(* The promise of execute settles and its outcome is recorded. *)
Settle(i, outcome) ==
  /\ Elsewhere
  /\ i \in inFlight /\ results[i] = "none"
  /\ results' = [results EXCEPT ![i] = outcome]
  /\ UNCHANGED <<fixed, pc, index, inFlight, cancelled, started>>

Settles(i) == \E outcome \in Outcomes : Settle(i, outcome)

(* The call is taken out of inFlight. *)
Leave(i) ==
  /\ Elsewhere
  /\ i \in inFlight /\ results[i] # "none"
  /\ inFlight' = inFlight \ {i}
  /\ UNCHANGED <<fixed, pc, index, results, cancelled, started>>

(* The signal fires. *)
Abort ==
  /\ Elsewhere /\ ~aborted
  /\ aborted' = TRUE
  /\ UNCHANGED <<mode, cap, pc, calls>>

(* The end of the batch is no deadlock. *)
Returned == pc = "done" /\ UNCHANGED vars

Init ==
  /\ mode \in [Calls -> Modes]
  /\ cap \in {NormalizeParallelCap(m) : m \in Parallel}
  /\ index = 1 /\ pc = "loop"
  /\ inFlight = {} /\ started = {}
  /\ results = [i \in Calls |-> "none"]
  /\ cancelled = FALSE /\ aborted = FALSE

Next == Loop \/ Abort \/ Returned \/ \E i \in Calls : Settles(i) \/ Leave(i)

Spec == Init /\ [][Next]_vars

-----------------------------------------------------------------------------
(* Every variable holds a value of its kind; the cap is a positive integer *)
(* whatever the configuration says (normalizeParallelCap).                 *)
TypeOK ==
  /\ mode \in [Calls -> Modes]
  /\ cap \in Nat \ {0}
  /\ index \in 1 .. Size + 1
  /\ pc \in {"loop", "drain", "alone", "race", "end", "done"}
  /\ inFlight \subseteq Calls /\ started \subseteq Calls
  /\ results \in [Calls -> {"none", "executed", "rejected", "cancelled"}]
  /\ cancelled \in BOOLEAN /\ aborted \in BOOLEAN

(* The batch returns with the truth about every call: nothing is left       *)
(* running, a call is reported as cancelled exactly when it never started,  *)
(* and the outcome of every other one is its own (runToolBatch's result).   *)
ReportIsTrue ==
  pc = "done" =>
    /\ inFlight = {}
    /\ \A i \in Calls : IF i \in started THEN results[i] \in Outcomes
                                         ELSE results[i] = "cancelled"

(* The batch keeps the promise of CallOrder: order, exclusion, cap, and     *)
(* no start after an abort, at any interleaving of awaits and signals.      *)
Stage == [i \in Calls |->
  IF results[i] = "cancelled" THEN "skipped"
  ELSE IF i \in inFlight THEN "running"
  ELSE IF i \in started THEN "ended" ELSE "waiting"]
Order == INSTANCE CallOrder WITH stage <- Stage
ImplementsCallOrder == Order!Spec

(* The loop goes on when what it awaits has settled. *)
LiveSpec == /\ Spec
            /\ WF_vars(Loop)
            /\ \A i \in Calls : WF_vars(Leave(i))

(* If the calls that start settle, the batch returns, whatever the cap and  *)
(* the modes are and whenever the turn is aborted (no await waits for ever). *)
BatchReturns == (\A i \in Calls : WF_vars(Settles(i))) => <>(pc = "done")
=============================================================================
