---------------------------- MODULE SessionRestore ----------------------------
(***************************************************************************)
(* restoreFromLog reads the wire log in one pass with a few accumulators.  *)
(* SessionServer says what that pass leaves by quantifying over the log;   *)
(* here is the pass itself, to compare the two on every log a run reaches. *)
(***************************************************************************)
EXTENDS SessionProperties

(* The accumulators before the first event. *)
Fresh == [open |-> NoTurn, recorded |-> FALSE, turns |-> 0, usage |-> 0,
          last |-> Null, complete |-> TRUE, block |-> "no",
          records |-> [r \in Requests |-> Unknown]]

(* The accumulators s after the event e. *)
Scan(s, e) ==
  CASE e.type = "turn.started" ->
         [s EXCEPT !.open = e.turn, !.recorded = FALSE, !.turns = @ + 1]
    [] e.type = "request" ->
         [s EXCEPT !.records[e.req] = Record("pending", e.turn, Refusal(e.req), "client")]
    [] e.type = "resolved" ->
         IF s.records[e.req].state = "unknown" THEN s
         ELSE [s EXCEPT !.records[e.req] = Record("resolved", @.turn, e.decision, e.source)]
    [] e.type = "usage" ->
         [s EXCEPT !.recorded = @ \/ e.turn = s.open, !.usage = e.cumulative,
                   !.last = e.used, !.complete = @ /\ e.complete]
    [] e.type = "session.closed" ->
         IF s.block = "live" /\ ~e.error THEN [s EXCEPT !.block = "no"] ELSE s
    [] e.type = "turn.ended" /\ e.turn = s.open ->
         [s EXCEPT !.open = NoTurn,
            !.block = IF e.how # "stop_unconfirmed" THEN @
                      ELSE IF @ = "sticky" \/ e.reason = "process_exit"
                      THEN "sticky" ELSE "live"]
    [] OTHER -> s

(* What the pass leaves after the first n events of the log. *)
Pass[n \in 0 .. Len(log)] == IF n = 0 THEN Fresh ELSE Scan(Pass[n - 1], log[n])

(* What SessionServer restores is what the pass leaves, for every log the   *)
(* system can write, torn at any point (restoreFromLog).                    *)
RestoreIsTheScan ==
  LET s == Pass[Len(log)]
  IN /\ s.open = OpenTurn(log)
     /\ s.open # NoTurn => s.recorded = OpenUsageRecorded(log)
     /\ s.turns = Cardinality(At(log, "turn.started"))
     /\ s.usage = RestoredUsage(log)
     /\ s.last = RestoredLastTurn(log)
     /\ s.complete = RestoredComplete(log)
     /\ s.block = RestoredBlock(log)
     /\ s.records = [r \in Requests |-> RestoredRecord(log, r)]
=============================================================================
