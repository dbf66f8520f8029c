# Siftable CLI: TLA+ models and proofs

This directory holds TLA+ models of the parts of the Siftable CLI whose
correctness depends on the order in which several actors act: the terminal
agent's session server with its gates and its event log, the tool scheduler,
the session mailbox with the turn that reads it, child sessions and the merge
master, and of the machine supervisor the attempt, the questions it asks and the
outbox of its cleanup receipts.
Every definition is translated from the code named beside it in `PROJECT.json`
("map").

## 1. The system

The repository holds three programs in one package:

* `sift <command>` (`src/commands`): thin commands around a web API;
* the terminal agent (`interactive-tui/`): a user interface, an agent loop
  ("harness") or the Codex app-server as the engine, a headless session mode
  that other programs drive over standard input and output, child sessions,
  process jobs and worktrees;
* the machine supervisor (`src/lib/supervisor/`): polls a server for work, runs
  one attempt at a time in containers, and reports what it did.

### 1.1 Components

State, operations, and what makes each component correct. Those marked * are
modelled in this directory, those marked (*) in part.

| Component | State | Operations | What makes it correct |
|---|---|---|---|
| Session server* (`sessionServer.ts`) | the wire log and its synced prefix, the outbound queue, the running turn with cancel reason and deadline, approval and question records, usage totals, the stop block, the phase of a shutdown | `initialize`, `prompt`, `approval.respond`, `question.answer`, `cancel`, `replay`, `shutdown`; engine events and return; deadline; resume from the log | a client never holds an event a restart takes back; an answer is recorded once and acted on only as recorded; a turn has one terminal event, after everything else of it; an unconfirmed stop blocks later turns; shutdown ends |
| Confirm and question gates* (`confirmGate.ts`, `questionGate.ts`) | pending requests, session bypass, listeners | request, resolve, abort, rejectAll, clear listeners | each request is settled once; a revoked one is never granted |
| Session mode entry* (`headless.ts`) | signals, exit code | signals, end of input, exit | every way out runs the one shutdown |
| Tool batch scheduler* (`tool-scheduler.ts`) | calls in flight, results | admit, drain, cancel | an exclusive call runs alone and in order; the cap holds; nothing starts after a cancellation; every call has one outcome |
| Agent loop (*) (`chat-agent.ts`, `run-lifecycle.ts`, `turn-abort.ts`) | messages, the turn lock, checkpoints, receipts of a turn | rounds of model request and tool batch | a failed turn leaves no half of itself in the history, and no correction it lost counts as heard |
| Session journal and store (*) (`session.ts`, `store.ts`) | JSONL journal, lease file, the turn in flight | append, recover, lease | a turn cut off by a crash is closed on resume; one process per session |
| Codex engine adapter (`codexEngine.ts`) | app-server generation, pending approvals | start, reconnect, turn, interrupt | no answer reaches the wrong generation |
| Session mailbox* (`sessionMailbox.ts`), steering and drain (*) (`brainSteering.ts`, `brain.ts`) | files of published instructions, the window of the running turn, the chain of drains | publish, steer, drain, acknowledge, retire | an instruction reported as sent is in the mailbox or in the conversation, once; one reported as refused is never heard; no turn waits for itself |
| Supervised attempt (*) (`superviseLoop.ts`, `attemptSettle.ts`, `attemptReport.ts`, `attemptRecovery.ts`) | attempt journal, dispatch ledger, pending creates, containers | dispatch, attach, run, stop, settle, recover | every container has a journal; nothing runs once the server has the attempt closed; a dispatch is started once; a review is earned; recovery ends |
| Cleanup receipt outbox* (`cleanupReceiptOutbox.ts`) | entries with frozen facts and keys | derive, queue, flush | a key stands for one stop; nothing owed is lost; "cleaned" is true; every receipt is answered |
| Attempt questions* (`attemptQuestions.ts`) | the desk of questions in memory and in the journal, requests on the server, the relay | ask, poll, receipt; tick: open, offer, record; close: record, fail, end the session | delivery is recorded on a receipt and only then; a kept receipt is never failed; a stop leaves nothing open |
| Child sessions (*), work runs (`childSessionController.ts`, `workRunController.ts`) | records, receipts of readiness, runs | spawn, review, merge, rebase, send back, reject, abandon, remove, adopt | what lands is what was judged, on a child that is ready |
| Worktrees, merge gate and merge master (*) (`worktreeService.ts`, `mergeGate.ts`, `mergeMaster.ts`, `workProof.ts`) | statuses, branches, worktrees, the base | gate, prove, squash, roll back, remove | no commit and no edit is thrown away |
| Process jobs | operating system processes | start, stop | what was started is stopped or reported |
| Environment leases | lease, renewal timer, child | renew, expire, kill | no child outlives its lease |
| Runners, sandbox, enrolment, materializer, user interface, planning, commands, review | see `PROJECT.json` | | not modelled: reasons in `PROJECT.json` |

### 1.2 How they interact

A client (an editor, a test, a parent session) writes command lines to the
session server and reads event lines. The server owns the two gates and drives
one engine through `ask(prompt, signal, onEvent)`. The engine calls the gates'
`request` from its tool loop and waits for the promise; the gate tells the
server through its listener; the server writes an event to the wire log, and
the client's answer comes back as a command that resolves the promise. Aborting
the turn's signal runs the gates' abort listeners synchronously, and those tell
the server through the cancellation listeners. A tool loop runs batches of tool
calls through the scheduler, which polls the same signal. Every line to the
client goes through one queue that is written only after an fsync of the wire
log. A later process opens the log, repairs its tail, scans it and appends what
closes a turn or request the dead process left open.

Corrections for a running turn and instructions from other processes meet in
the mailbox directory of a conversation. A turn with a steering window reads its
own corrections before each step and removes what its history holds when it
settles; everything else is ingested by a drain, which runs when an agent is
asked for and takes the same turn lock. Closing a retired agent takes that lock
too.

A parent session's controller drives its children's worktrees and branches
through Git commands and keeps their statuses in memory. It lets go of its
thread only while it loads a proof from the server, but the child's agent and
whoever commits on the base act between any two Git commands.

The supervisor shares no memory with anything: it journals what it is about to
do, asks Docker, posts to the server, and reads both again after a crash. A
create that was interrupted is still made by Docker later; a call whose reply
was lost took effect or did not. What a stop owes the server goes through the
outbox, whose cycle runs between two attempts. What the workload wants to ask a
person goes through the relay into the supervisor's memory and its journal, from
there to the server as a request, and the answer comes back the same way.

### 1.3 What is hard

* *Crashes* at any point between an append, its fsync and the write to the
  client, and again in the middle of the recovery from the crash before.
* *Races for one turn* between the client's cancel, the deadline, the shutdown,
  the engine's return and the bound on the wait for it.
* *Races for one request* between the client's answer and a revocation.
* *State kept only in the log* across several processes: the stop block, usage
  totals, request records.
* *Failed calls in the middle of a handler*: an fsync that throws.
* *Awaits between a check and its use* in the tool scheduler, and Git commands
  between a verdict and the squash it allows.
* *Work that exists in two places* (mailbox and history, journal and Docker,
  outbox and server) and must be removed from one only when the other has it.
* *Waiting in a circle*: a tool of a turn that waits for what waits for the turn.
* *Retries under a key*: a receipt sent again after a crash or a release that
  held must be the same one to the server.

`PROJECT.json` lists these hazards at their lines, with the properties that
cover them or the reason why none does.

The type invariant of each component is a theorem for every instance. Runs check
it only where it says more than the kinds of the values: that the totals of a
session stay numbers a client can read, and the cap of a batch is at least one.

## 2. Plan

In order of importance; each step is a module, its configuration, then its
theorems.

1. **Session server** (done): `EventStream` (the abstract promise),
   `SessionServer`, `SessionProperties`, `SessionRestore`, `MCSession`,
   `SessionServer_proofs`, `SessionLog_proofs`.
2. **Tool batch scheduler** (done): `CallOrder` (the abstract promise),
   `ToolBatch`, `MCToolBatch`, `ToolBatch_proofs`.
3. **Cleanup receipts** (done): `CleanupReceipts`, `MCCleanupReceipts`,
   `CleanupReceipts_proofs`.
4. **Supervised attempt** (done): `SupervisedAttempt`, `MCSupervisedAttempt`,
   `SupervisedAttempt_proofs`; its **questions** (done): `AttemptQuestions`,
   `AttemptQuestions_proofs`.
   Left: the composition of both with `CleanupReceipts` over one journal, the
   checkout and the verification.
5. **Session mailbox and the turn** (done): `SessionMailbox`,
   `MCSessionMailbox`, `SessionMailbox_proofs`. Left: the session store's
   lease, compaction, tool receipts.
6. **Child sessions and merge master** (done): `ChildSession`,
   `MCChildSession`, `ChildSession_proofs`. Left: spawning and the work run.
7. **Environment lease**: renewal against expiry and the kill of the child.
8. **Codex adapter**: generations of the app-server, reconnects, approvals that
   outlive a generation.

Theorems to prove next: what the steps of a process may never do, as action
properties of the invariants already proved (the facts and the answer of an
entry never change while the outbox holds it, an outcome in the ledger is never
replaced), and the composition of `CleanupReceipts` with the settlement once it is modelled.

## 3. Session server

### 3.1 Modules

* `EventStream`: the promise to a client, with no process, crash or fsync in
  it. One stream that only grows; whatever the client holds is an event of the
  stream under its number.
* `SessionServer`: the code. Its sections follow `sessionServer.ts`: events,
  group commit, gates, commands, the turn, shutdown, processes, resume.
* `SessionProperties`: the type invariant and the properties, and the fairness
  they need.
* `SessionRestore`: the loop of `restoreFromLog` as a recursive function over
  the log, compared with the declarative definitions `SessionServer` uses.
* `MCSession`: the sets of requests for TLC.
* `SessionServer_proofs`: types, durability, refinement. `SessionLog_proofs`:
  what the log says of turns, answers, the stop block, usage and the close.

### 3.2 State and actions against the code

| Model | Code |
|---|---|
| `log`, `synced`, `assumed` | `WireEventLog`: lines of the file; the prefix the last fsync covered; the prefix the process believes covered, which lets it skip an fsync |
| `outbound`, `duty` | the queue of lines and `scheduleFlush`; whether a handler or the event loop will flush |
| `active`, `cancel`, `ask`, `attempts` | `this.active` (id, `cancelReason`, `closed`) and the promise of `engine.ask` |
| `records` | `this.approvals`, `this.questions` |
| `gate`, `bypassing` | the pending maps of the gates and what they resolved to; the session bypass |
| `usage`, `complete`, `lastTurn`, `turns` | the usage totals and turn counter |
| `blocked` | `unconfirmedStop`: "live" may be lifted by a clean close, "sticky" may not |
| `phase`, `problems` | `run()`, `shutdown()` and its list of problems |
| `copy`, `told`, `mine`, `unproven`, `spent`, `acted` | outside the server: what the client was sent, what the engine did. The code never reads them; properties do |

JavaScript runs a handler to its end, so one handler is one action, with one
exception. The fsync in the middle of a handler is a point where the process
may die, so a handler that flushes is two actions: its own, which sets `duty`,
and `Flush`, which nothing but `FlushFails` and `Crash` can precede (`AtRest`
is the guard of every other action). What the handler does after its flush is
done by `Flush`: `prompt` calls the engine, a resolved gate's continuation lets
the tool run. Appends between a flush that was only *scheduled* and the next
tick of the event loop are ordinary interleavings. `TurnSettled` keeps other
handlers out between the end of a turn and the rest of a shutdown that was
waiting for it: these are microtasks of one tick.

A crash keeps the synced prefix and any further prefix of the log
(`WireEventLog` cuts a torn last line when it opens the file).

External, modelled from how the code uses it: the engine (it starts provider
requests, raises requests, returns once, with usage as its kind reports it, and
may or may not confirm its stop), the client, the operating system's fsync.

Simplifications, none of which a property depends on:

* A command that is refused changes no state and is not a step. A repeated
  answer is one, because it reports what was recorded (`AlreadyResolved`).
* "Always allow" answers and grant scopes are the answer `allow`.
* A turn id is its number; deltas of a turn are one kind of event (`brain`).
* Appends do not fail; only fsync does. An fsync that fails inside a client
  command is `FlushFails`: the flush that the command's events scheduled is
  still to come, and tries again. One that fails in a scheduled flush ends the
  process, which is a `Crash`. Two cases are left out: a shutdown that is already
  waiting for the turn absorbs a rejection of the turn's own flush; and an fsync
  that fails in one of shutdown's own flushes (`sessionServer.ts:832`, `849`)
  rejects the shutdown. After the end of the input or a signal nothing catches
  that, which is a `Crash`; but a rejection of the client's own `shutdown`
  command is swallowed at line 871, `closed` never resolves, and the process
  hangs, with its listeners still in place, until its input ends or it is killed.
* After a failed fsync, a later one that succeeds is taken as durable for
  everything before it. Whether the operating system keeps that promise is
  outside the code.
* One process serves a session at a time: the lease of the session store is
  taken for granted here and is in the plan with the journal.

### 3.3 Runs

These runs say `CHECK_DEADLOCK FALSE`: the number of processes is bounded, and
the system rightly stops when the last one has exited.

| Run | Question | Instance |
|---|---|---|
| `session_requests` | Are requests, answers, turns and closes consistent between the client, the engine and the log? | harness, one bypassable approval, one question, one turn, two processes |
| `session_turns` | Does an unconfirmed stop block exactly as the code says, and is resume the scan of the log? | no requests, two turns, three processes |
| `session_codex` | Is the server an event stream with an engine that asks after its turn was closed and may report no usage, with an fsync that fails? | Codex, one approval, one turn, two processes, one fault |
| `session_live` | Does shutdown end, does a turn end, is usage honest? | harness, one approval that cannot be bypassed, one turn, two processes |
| `session_unproven` | Can a turn run beside one nobody has proved stopped? It can: see 3.5 | two turns, three processes |

Why the bounds are enough. One approval and one question give each gate a
pending request and the two gates an order; requests of a kind do not interact
except through the bypass, which one approval sets and which then stops it from
being raised again in a later turn. A second process is needed to resume,
a third to see what the second one's recovery or close left: the stop block
needs a stop, a close, and a turn that must not start. Two turns are the least
where one could run beside another. A page of three events makes a replay take
several pages. One provider request distinguishes a turn that used something
from one that did not. One fault is enough, as every fault ends in a crash, a
shutdown, or a server that refuses prompts.

### 3.4 Properties and fairness

The properties and what they are about are in the comments of
`SessionProperties.tla`. Two are liveness: `ShutdownCompletes` and `TurnEnds`.

Fairness assumed (`Fairness`, `LiveSpec`): weak fairness of `Flush` (the event
loop runs a scheduled tick, and a handler that reached its flush runs it), of
`ShutdownTimeout` and `EngineClosed` (timers of 30 s each, both bounded in the
code whatever the engine does), of `Teardown` (the continuation of a settled
promise) and of `Exit`. `ShutdownCompletes` speaks of runs in which no fsync
fails: the run has no faults, and the code hangs in the case 3.2 names. Strong
fairness of `Deadline`, because the fired timer
stays in the event loop's queue while other handlers run, though a handler in
progress disables the action for a moment. No fairness of the client, of the
engine, of `Start` or of a crash. `TurnEnds` alone has a premise about the
engine, `EngineStops`: an engine whose signal was aborted returns. The code
does not bound that wait outside a shutdown, so without the premise a turn may
last for ever; the premise is in the property, not in the specification.

### 3.5 What the runs found

* `session_unproven`: the block left by a live unconfirmed stop is lifted by
  the clean close of *any* later process. The comment at
  `sessionServer.ts:508-511` and `docs/sift-harness-session-protocol.md:263-265`
  justify lifting it by the fact that the closing process drained the jobs; a
  process that never had the turn shows nothing of the kind.
* An fsync that fails in the response to a prompt leaves a turn that is active
  and never runs; shutdown then logs a `session.closed` without an error while
  the turn has no terminal event, so that `ClosedLeavesNothingOpen` is false
  with faults: `session_requests` with one turn, one process, no requests and
  `MaxFaults = 1` shows it in a few seconds. The property is checked without,
  and its theorem has the premise.

### 3.6 What is proved

For every engine kind, every finite set of requests and all values of the
bounds, from the named assumptions of `SessionServer` alone:

* `TypeCorrect`: `Spec => []TypeOK`;
* `Durability`: `Spec => []HeldIsDurable`;
* `Refinement`: `Spec => ImplementsEventStream`, the durable prefix and the
  client's copy are an event stream.

The argument. `HeldIsDurable` is not inductive: a flush copies the outbound
queue to the client, so the queue must be known to agree with the log. `LogInv`
adds `QueueAgrees`: every numbered event of a queued line is the event of the
log under that number. A flush syncs the log up to its end whenever the queue
is not empty, so what it copies lies in the synced prefix. A crash cuts the log
at or after `synced`, and empties the queue, so both survive. An action that
appends keeps the old positions (`EmitKeeps`). `StateTypes` is the rest of the
type invariant; the two together are `IInv`. The types need that the recovery
events are well formed for any log (`LastOfIsLast`: every nonempty set of
positions of a log has a last one, by well-founded induction; `FewEvents`,
`OrderIsSequence`: the set of orders of a finite set of requests is a set of
sequences). The refinement needs one more fact of each step: the synced prefix
of the log only grows, as no action changes a synced position (`PrefixOfLog`,
`StepPublishes`). `LogInv` also says that `assumed` is
`synced`: the fsync a process skips was never owed.

From the same assumptions, in `SessionLog_proofs`:

* `AnswerFinality`: `Spec => []AnswersAreFinal`;
* `TurnSeal`: `Spec => []TurnIsSealed`;
* `DeadTurnBlocks`, `UnconfirmedStopBlocks`: `Spec => []DeadTurnBlocksForGood`
  and `Spec => []LiveStopBlocks`;
* `HonestUsage`: `Spec => []UsageIsHonest`;
* `NothingAfterClose`: `Spec => ClosedIsLast`;
* `RestoreAgrees`: `Spec => []RestoreIsTheScan`;
* `GateAgreement`, `CleanClose`: `Spec => [](faults = 0 => ...)` of
  `GateAgreesWithLog` and `ClosedLeavesNothingOpen`.

The last two have the premise that no fsync has failed, because that is when
they hold: the second fails after one as 3.5 says, and the first in the same
way, as the handler that was cut off has logged what it never did. The runs that check them set the bound on failures to zero.

The argument. All of these speak of the log alone, or of the log and what the
client or the engine was told. None is inductive, for two reasons: the next
event depends on the process, and the next process on the log. The invariant
`Sound` is `IInv` with:

* `WellFormed`: for each kind of event, what the events before it must be
  (`EventOK`): a turn starts when all turns have ended, none was left by a dead
  process and no unconfirmed stop stands; a request is new, an answer is the
  first to a request raised; a terminal event follows the turn's usage and all
  answers; nothing of a turn follows its end. It speaks of every prefix, so a
  crash, which keeps a prefix, keeps it;
* `TurnInv`, `AskInv`, `RequestInv`, `BlockInv`: the running process agrees with
  its log about the turn in progress and its number, the requests pending and
  resolved, and the stop block. `DownInv` says what is left when none runs;
* `ReplyInv`, `DurableInv`: what was or will be told is in the log, what was
  told is in the synced prefix, and so is the start of the turn the engine has;
* `UsageInv`: at *every* prefix a crash may leave, the last total is what was
  spent, or the prefix shows a turn without usage or an incomplete one. A crash
  chooses the prefix, so nothing less would survive it;
* `ActedInv`, under `faults = 0`: an answer in the log and the state of its gate
  say the same.

A restart re-reads all of it: `OpenTurnIsOpen` (the scan finds the turn without
a terminal event, and there is at most one), `RestoredTotal`, `RestoredBlocks`
and `RestoredRequests` give `Sound` from `WellFormed` of the log it found, and
`RecoveryParts` says what the recovery appends to it. There is one lemma per
action and part of the invariant. Lemmas on appending (`Adds`, `Extends`) say
once how each kind of event changes what the log says.

That the pass of `restoreFromLog` ends with what `SessionServer` restores
(`RestoreAgrees`) needs one more step, as the pass is a recursive function.
`Swept` says, event by event, what the accumulators are after a prefix of a
well-formed log; `SweptStep` shows that one more event changes both in the same
way. So the function whose value at n is `Swept` of the first n events satisfies
the recursion, and `PassIsSwept` shows that nothing else does: of two solutions
take the longest prefix on which they agree (a set of numbers below a bound has a
last one), and the next event agrees too. No induction theorem is needed.

Only model-checked: the liveness properties. `NoTurnBesideUnproven` is false
(3.5).

## 4. Tool batch scheduler

### 4.1 Modules

* `CallOrder`: what a batch promises, whatever loop runs it. Calls begin in
  order, an exclusive one shares the engine with no other, at most `cap` run at
  a time, and nothing begins once the turn is aborted.
* `ToolBatch`: `runToolBatch` of `tool-scheduler.ts`.
* `MCToolBatch`: the caps for TLC.
* `ToolBatch_proofs`: the theorems.

### 4.2 State and actions against the code

| Model | Code |
|---|---|
| `mode`, `cap` | the mode of each call after `classifyToolCall`; `normalizeParallelCap(maxParallel)` |
| `index`, `inFlight`, `results`, `cancelled` | the variables of the same names |
| `pc` | where the function is: between awaits (`loop`), in one of its four awaits (`drain` and `alone` around an exclusive call, `race` for a slot, `end`), or returned (`done`) |
| `aborted` | the turn's abort signal, which `isCancelled` reads |
| `started` | the calls handed to `execute`; the code keeps no such set, properties need it |

While `pc = "loop"` nothing else steps, because JavaScript does not interrupt
the stretch between two awaits. At an await, calls settle, leave `inFlight`, and
the signal may fire. Recording an outcome and leaving `inFlight` are two actions,
as they are two reactions in the code (`then`, `finally`). An await whose
condition holds at once is still an await: `drainAll` is an async function even
when nothing is in flight. The only exception in the code is the `while` before
a parallel call, which awaits only if the cap is reached; so does `HeadParallel`.
The code awaits a snapshot of `inFlight` in a `while`. Only the suspended loop
itself adds to the set, so this is the same as waiting for the loop's condition.

External: `execute`, which settles when it likes, either way, or never; and the
signal. `execute` is taken to return a promise and not to throw synchronously,
as every caller in the repository passes an async function; the same holds of
`mode`.

### 4.3 The run

`tool_batch` takes four calls in all combinations of modes, and caps that are
not finite, below one, and two. Four calls are the least with parallel calls on
both sides of an exclusive one and more of them than the cap admits. Deadlock is
checked: the only state without another step is the end of the batch, which
`Returned` marks.

Fairness: weak fairness of `Loop` (the continuation of a settled promise runs)
and of `Leave` (so does the `finally` reaction). That calls settle is the
premise of `BatchReturns`, not an assumption: the scheduler bounds no call.

### 4.4 What is proved

For every batch size, all modes and every configured cap, from
`SizeAssumption` and `ParallelAssumption`:

* `TypeCorrect`: `Spec => []TypeOK`, with it that the cap is at least one;
* `Report`: `Spec => []ReportIsTrue`;
* `Refinement`: `Spec => ImplementsCallOrder`.

The argument. `ReportIsTrue` is not inductive. `LoopInv` says what the loop
knows at each await: the mode of the call it waits for, that an exclusive call
is in flight only when the loop waits for it and then nothing else is, that a
finished loop is past the last call. `CallsInv` relates the index to the calls:
those before it have started or been cancelled, those after it have done
neither, what is in flight has started, what started and left has an outcome. With both, each start is a `Begin` of `CallOrder` (the await before it
drained the engine or freed a slot), and `Decline` is a `Skip`. `BatchReturns`
is only model-checked, being liveness.

## 5. Cleanup receipts

### 5.1 State and actions against the code

`CleanupReceipts` is what the supervisor owes the server about the cleanup of
an attempt: the receipts in the attempt's journal, the durable outbox, the
cycle of `superviseOnce` that moves one into the other, and the server.

| Model | Code |
|---|---|
| `journal`: `facts`, `receipts`, `queued`, `derived`, `carried`, `fs` | the fields of the attempt journal of those names: what the last stop found, the receipts it froze, whether they are in the outbox, whether they could be worked out, how many an earlier stop had left, the attempt's filesystem |
| `Stopped`, `ReceiptsForStop`, `NextNumber`, `KeyOf` | `attemptSettle.ts`: `settle`, `receiptsForStop`, `operationKey` |
| `RederiveReceipts`, `NowHeld` | the re-derivation after a release that holds |
| `ReleaseAtStop`, `HeldAtStop` | the release of the filesystem at the end of the run itself, and what it may find held (`superviseLoop.ts:735-757`) |
| `Release`, `ReleaseHeld` | the release at a later settlement (`superviseLoop.ts:374-391`) |
| `outbox`, `tried`, `Queued`, `Trim`, `TriedBefore` | `cleanupReceiptOutbox.ts`: the file, `lastAttempt`, `queueReceipts` with its limit, the order of sending |
| `pc`, `then` | which step of the cycle comes next, and what follows once the receipts are queued or sent |
| `recorded`, `Answer` | the server (external): one receipt under a key, 409 for another one |
| `ended`, `left` | history for the properties |

A file is written atomically, so one write is one action and the process may
die between any two. A receipt whose reply is lost was recorded or not.

Not covered: the window in which an attempt's workspace is being prepared and it
has no filesystem yet (`superviseLoop.ts:613`). A stop in it queues its receipts
at once, as `cleaned`; if the preparation never ended, the workspace is held
after that (`751-757`), and the receipts, already queued, are not worked out
again. `CleanedIsTrue` does not speak of such a stop.

Simplifications: the teardown is its outcome (clean, something held, or a
cgroup that was not seen empty); the signature is left out; the time budget of
a flush may end after any receipt. One supervisor works on a state directory
(its lock is not modelled).

### 5.2 The run

`cleanup_receipts`: one attempt, two faults, an outbox limit of one, one receipt
sent per cycle, and one receipt (`cleanup_failed` of the first stop) that the
server never answers. Two faults allow two stops that hold before one that is
clean, or one and a crash anywhere, so keys of the same state are numbered, a
receipt is re-derived, and more receipts wait than the limit admits and than a
cycle sends: with one unanswered for ever, the order of sending matters. A key
begins with its attempt, and an attempt starts when the journal of the one
before is gone, so attempts meet only in the outbox, where one attempt's
receipts already compete. The run says `CHECK_DEADLOCK FALSE`: the number of
attempts is bounded, and a machine without work rests.

Fairness: weak fairness of `Supervise`, the loop of the process itself. No
fairness of a crash, of a new attempt, nor of the claim's end.
`EveryReceiptIsAnswered` excepts what the server never answers.

A constraint worth knowing: an accepted entry may be dropped from the outbox
past its limit before the journal says `queued`, and is then sent again with
the retention of that moment; the server answers 409 and nothing is lost.

### 5.3 What is proved

For any number of attempts and faults, any limit of the outbox and any size of a
cycle, from `BoundsAreNumbers`, and whatever the server leaves unanswered:

* `TypeCorrect`: `Spec => []TypeOK`;
* `OneStopPerKey`: `Spec => []KeyNamesOneStop`;
* `OwedIsKept`: `Spec => []NothingOwedIsLost`;
* `CleanedTrue`: `Spec => []CleanedIsTrue`.

The argument. None of the four is inductive: a key is made from a count in the
journal, while the outbox forgets entries and the server never tells. `IInv`
adds what ties them together.

* `InShape`: in a journal the number of a receipt is its place among those of its
  state, what was carried over belongs to earlier stops, what follows to the
  last one. So two receipts of one journal have different keys, and a receipt
  that is appended gets a new one.
* `Counted`: an attempt has one journal, live or archived, so two journals never
  share a key.
* `Anchored`: each receipt in the outbox or at the server stands for a receipt
  of the same stop in some journal; what was sent is compared with the journal,
  not with what happens to be left in the outbox. `KeyNamesOneStop` follows from
  these three.
* `Deferred`: deriving the receipts again after a release that holds takes the
  receipts of the last stop out of the journal. `Anchored` survives because
  nothing of that stop has left the journal as long as the release is due: the
  settlement does not queue before it (`attemptSettle.ts`, `superviseLoop.ts`).
* `Answered`: an entry that is not pending was ended by an answer, and once a
  journal is marked queued each of its receipts is ended or pending. `Trim` keeps
  what is pending, so this outlives the limit, and an archived journal is marked.
* `Truthful`: no stop that left something has a cleaned receipt; a release that
  holds adds its stop to `left` in the step that takes its receipts back.
* `Placed`: where the process is, what it does next, and the claim, against the
  journal. It rules out, say, a settlement that archives while a claim lives.

Before the proof TLC checked `IInv` as an invariant on two larger instances (one
attempt with three faults and no room in the outbox; two attempts, two faults).
It was strengthened on the way where it was not inductive (`Deferred`, and the
bound of `left` by the stops there were). The steps of the code change either
the journal, the outbox, or only the place of the process; each such change has
a lemma for what it keeps, and one lemma per action puts them together.

`At` picks elements of a sequence by their places, and `Due` gives each pending
entry the place that says how many are due no later, instead of a library fold
or a sort: the provers can count, and cannot look into a fold.
`EveryReceiptIsAnswered`, being liveness, stays with TLC.

## 6. Supervised attempt

### 6.1 State and actions against the code

`SupervisedAttempt` is `superviseOnce` from the top of a cycle to the archive of
the journal, again and again, next to Docker and the server.

| Model | Code |
|---|---|
| `journal`, `ledger`, `archived` | the attempt journal, the dispatch ledger and `retired/` on disk |
| `pc`, `launched`, `awaiting`, `found` | where the process is; `started`; the create it waits for; what the sweep listed |
| `Recover`, `Kill`, `Remove`, `Recovered` | `attemptRecovery.ts` and `stopAttempt.ts`, for an attempt a crash left and (`Kill`, `Remove`) for one that ends |
| `Consume` to `SaveWorkspace`, `Attach` | `superviseOnce` and `attemptReport.ts`: dispatch, ledger, attach |
| `AskCreate`, `Ask`, `Created`, `CreateFails` | a create: journaled as pending, sent, answered, or failed: refused by the daemon, or without its answer |
| `StartContainers` to `Exit`, `Stop` | the launcher, the acknowledgements, the run and each of its ends |
| `Freeze`, `Upload`, `KeepUnsettled`, `Close` | the evidence, and `conclude` |
| `StartPost`, `Report`, `Work`, `Posted` | `postSettlement` |
| `Reconcile` | `reconcileUnclaimed` |
| `daemon`, `alive`, `Make`, `Drop`, `MakeUnanswered` | Docker (external): a request that was sent may be carried out at any later time |
| `server`, `Expire`, `Requeue`, `CleanedReceipt` | the server (external): claims, attempts, work items, the effect of a cleaned receipt |
| `told` | history: workloads that were told to go |

A step is what happens between two awaits, and a crash may come between any two
steps. A call whose reply is lost (`pending`) took effect or did not.

A create is pending in the journal until its command ends. The code takes any
end with an error, but that by the deadline, for the daemon's refusal
(`superviseLoop.ts:535`). A `docker` command that died without the daemon's
answer is among them, and what the daemon makes then has no journal
(`unanswered`, `stray` in `DockerHas`): `EveryResourceIsOwned` excepts it. A
sweep of the same attempt still finds it by its label, if it comes later.

Simplifications: what an attempt makes is a network, a relay sidecar and the
agent; checkout, volume and verification make more of the same and are left
out, and so are the model calls of the workload; its questions are section 9. The
renewal of the lease is its possible end at any await. `Consume` merges the
hand-out with the first save of the journal: a crash between the two leaves a
claim the server hands out again, which is the state after a lost reply.

### 6.2 The runs

* `supervised_attempt`: two dispatches, two faults. A fault is a crash, a lost
  or refused call, a kill, a listing or a removal that fails, an interrupted
  create, an expired claim. Two are the least that make a failure in the
  recovery from a failure; a third adds no state to any of the hazards listed.
  Two dispatches make the server offer another one while a journal is left.
* `attempt_failed_start`: one dispatch, two faults; see 6.3.

Both say `CHECK_DEADLOCK FALSE`: an expired claim or an unanswered create waits
for the operator.

Fairness: weak fairness of `~Running /\ Supervise` (the loop, but for a run
under a live claim), of `Make` (Docker carries out what it was asked, which the
code waits for by keeping the create pending), and of `CleanedReceipt` (section 5
shows that the receipt arrives). That a run ends is not assumed, because nothing
in the code bounds it: the loop goes on as long as its renewals succeed
(`superviseLoop.ts:961-993`), and without a compute grant the cap on them is
infinite (`superviseAuthority.ts:49`, `55-56`). It is the premise of
`AttemptSettles`, `RunsEnd`: no workload runs for ever under a claim that is
renewed for ever. A run whose claim is gone is stopped by the loop, premise or
not. `AttemptSettles` also excepts what needs a person, named in
`NeedsOperator`; one case of it is worth knowing: an attempt whose attach reply
was lost has no ID to be read by, so once its claim is gone its journal is kept
for good.

### 6.3 What the runs found

`attempt_failed_start`: a dispatch the ledger already holds gets a bare journal,
which is saved before its settlement is (`superviseLoop.ts:458`). A crash in
between leaves a journal that recovery takes for an attempt that started
nothing, and a failed start is reported for a workload that was told to go,
against `superviseLoop.ts:96` and `attemptReport.ts:111`.

### 6.4 What is proved

For any set of dispatches and any bound on the faults; the module assumes
nothing of its constants:

* `TypeCorrect`: `Spec => []TypeOK`;
* `Owned`: `Spec => []EveryResourceIsOwned`;
* `StoppedFirst`: `Spec => []NothingRunsOnceClosed`;
* `StartedOnce`: `Spec => []NeverStartedAgain`;
* `ReviewEarned`: `Spec => []ReviewIsEarned`;
* `QuietArchive`: `Spec => []QuietArchiveIsTrue`.

The argument. None of these is inductive: each compares two of the four places
where an attempt is recorded (the position of the process, the journal, Docker,
the server), and a crash takes the process anywhere. `IInv` says what these
places say of one another:

* `ControlInv`, `SettlementInv`, `ForgetInv`: where the process may be with
  which journal, and which settlement that journal holds;
* `PendingInv`, `SweptInv`: what Docker may still make is pending in the
  journal, and after a sweep that held nothing Docker has nothing;
* `AliveInv`: a workload that may run belongs to an unsettled, attached journal
  whose attempt the server has open;
* `LedgerInv`: what was told to go is in the ledger, and a dispatch on its way
  to a start was not told;
* `WorkInv`, `OneLive`, `ClaimInv`: the claims and the work under them;
* `EvidenceInv`: an exit is that of a workload that was told to go and has
  evidence, and the server has the evidence the journal calls acknowledged;
* `AnswerInv`, `WorkspaceInv`, `LiveInv`, `OverInv`: what the settlement says of
  the server is so, a live attempt has its journal or a surfaced conflict, and
  what was put away is over on the server or surfaced.

There is one lemma per action. `Supervise` and `Environment` are their
disjunctions, and the invariance follows. Of the properties of the run only
`AttemptSettles`, which is liveness, stays with TLC.

## 7. Session mailbox

### 7.1 State and actions against the code

`SessionMailbox` puts together the files of `sessionMailbox.ts`, the steering
window of `brainSteering.ts`, `getAgent` with its cache and retirement
(`brain.ts`), and the turn of `chat-agent.ts` as far as it reads or changes
what the conversation holds.

| Model | Code |
|---|---|
| `visible`, `durable`, `receipt`, `publishing` | the pending directory; what a power failure leaves of it; what each sender was told; another process between link and directory fsync |
| `Steer`, `Link`, `SyncLink`, `Acknowledged` | `steerTurn`, `publishSessionInstruction`, `acknowledgeSessionInstruction` |
| `turn`, `history`, `known` | the turn with its window, checkpoints and corrections; the conversation; the instruction IDs in its journal |
| `SetupAborted`, `SetupUnheeded`, `StopsWaiting` | the abort of a turn during its setup, which goes on by itself, or while it waits for the lock |
| `Step`, `CallTools`, `ToolsDone`, `AnswerGiven`, `Exhausted`, `Fail`, `Settle` | the rounds of a turn and its ends |
| `ask`, `drains`, `lock`, `retiring` | callers of `getAgent`, the chain of drains, the turn lock, the close of a retired agent |
| `Crash` | death of the process, with or without the machine, and the recovery of the open turn by the next one |

An action is what happens between two awaits.

Simplifications: requests to the provider, compaction and tool receipts are
left out; a history is the numbers of its instructions, with 0 for any other
message; an agent is not retired while a drain is under way; the turn after one
that was aborted in its setup begins when that setup has ended (`Look` is a drain
that goes on beside a turn).

### 7.2 The run

`session_mailbox`: two instructions, two turns, two rounds, one fault. Two
instructions have an order and can be delivered in different steps, by
different ways (window and drain); the second turn meets what the first left;
two rounds let a correction come before the tools, after them or with the
answer. One fault is a crash, a failed call, an abort, or a retirement; every property is
about what one of them leaves. `CHECK_DEADLOCK FALSE`: instructions and turns
are bounded, and a conversation may rest.

Fairness: weak fairness of `TurnStep`, `DrainStep` and `AgentBuilt`: the model
answers, tools return, promises resolve. No fairness of senders, of new turns
or of faults.

### 7.3 What the run shows, and where the code stops short

The properties hold, each up to an exception it names:

* `TurnEnds` excepts `ReadsItself`: a tool that reads its own session waits for
  the turn it belongs to while its agent is being retired, in a turn without a
  window, or behind a drain on its way from before (`brain.ts:1586`). The
  comment at `brainSteering.ts:150-152` covers only turns with a window.
* `HeardOnce` excepts `cut`: a correction delivered within a turn is journaled
  without its ID (`chat-agent.ts:1237`), so a crash, or a failed removal, before
  its file is gone delivers it again.

### 7.4 What is proved

For any number of instructions, turns, rounds and faults, from
`BoundsAreNumbers`:

* `TypeCorrect`: `Spec => []TypeOK`;
* `AcceptedKept`: `Spec => []AcceptedIsKept`;
* `RefusedUnheard`: `Spec => []RefusedIsNotHeard`;
* `HeardOnlyOnce`: `Spec => []HeardOnce`;
* `SettledForGood`: `Spec => [][Stays]_vars`, no step takes back or changes what
  is settled in the conversation, a failing turn and a crash among them;
* `OnceWithoutFaults`: with `Faults = 0` the exception of `HeardOnce` goes away.

The argument. `Inv` relates the places where an instruction may be: its
sender's receipt, the mailbox, the drain under way, the running turn, the
conversation and the IDs its journal knows.

* `LockInv`, `DrainInv`: a drain waits for the turn lock exactly when it is to
  ingest, only the first of the chain is under way, and it then has something
  to do. So a drain never ingests while a turn runs.
* `TurnInv`: the corrections of a running or finished turn are in the history at
  the places the turn noted, and its checkpoint is behind what it began with. A
  failed turn may have lost them, which is why it looks again before it removes
  a file.
* `KeptInv`: what was confirmed is on disk or settled, and what the journal
  knows by its ID is settled. With `Stays` this is `AcceptedIsKept`: every
  removal from the mailbox is of something settled.
* `AccountInv`: whatever is heard, or listed by a drain, or left on disk was
  sent; what was refused is in none of these places.
* `OnceInv`: an instruction that was heard and may come again is known by its
  ID, noted by the running turn, or `cut`. The two ways in then exclude one
  another: what a turn accepted is neither known nor listed by a drain, because
  a drain does not list the mailbox while a window is open.

`StepKinds` divides the actions into those that say something (`Speaks`), those
that move an instruction (`Moves`) and those that touch neither mailbox nor
conversation (`Quiet`); each part has one lemma with a step per kind. Of the
properties of the run only `TurnEnds`, which is liveness, stays with TLC.

The files of the mailbox are listed by `InOrder`, which gives each the place
that says how many are not younger: the provers can reason about that, as
they cannot about a sort chosen from all permutations
(`OrderHoldsEachOnce`).

## 8. Child sessions and the merge master

### 8.1 State and actions against the code

`ChildSession` is one child branch with a conversation, and everything its
parent's controller does to it.

| Model | Code |
|---|---|
| `status`, `Transitions`, `Accepts` | the registry of `mergeMaster.ts` |
| `tracked`, `receipts` | `records` and the receipts of readiness in `childSessionController.ts` |
| `ops` | calls of `reviewChild` and `mergeChild` that have not returned |
| `Verdict`, `Clean`, `Conflicts` | `evaluateMerge` of `mergeGate.ts`: tree, conflicts, scope |
| `Allowed` | `workProof.ts` and `evaluateReadyProof` |
| `head`, `base`, `tree`, `branch`, `dirty`, `parentDirty` | Git: a commit is known by its history |
| `NothingToRebase` to `RebaseFails`, `ReviewAgain` | `rebaseChild` with `rebaseChildOntoBase`: the check, the rebase, its abort |
| `RemoveChild`, `DiscardChild` | `removeChild`, unforced, and forced as a teardown does it |
| `ResolveRefs` to `KeepLanded` | `squashMergeChild` and the removal after it (`worktreeService.ts`) |
| `Edit`, `AgentCommits`, `BaseMoves`, `HeadIsProven`, `ParentIsCleaned` | the child's agent, people on the base, the server (external) |
| `landings`, `late`, `spilled` | history for the properties |

The controller is one thread that runs until it loads a proof; several reviews
and merges may wait there at once (`ops`). The Git commands of a landing are
separate actions, as other processes act between them, and so are the beginning
and the end of a rebase, which runs in the tree the child's agent edits. `policy`
is `SIFT_READY_PROOF_POLICY`.

Simplifications: the Git reads of one `evaluateMerge` are atomic; a squash that
is empty because its work is already on the base is one that brings no new
number; a send-back whose post failed restores the status and is not a step;
uncommitted edits of the parent's tree, which a `reset --hard` would drop, are
not modelled, as the tree was found clean; a rebase that was running when the
process died is taken as not begun, and one that succeeded kept every commit
made beside it.

Not modelled: spawning a child and the steps of its teardown (its forced removal
is `DiscardChild`), path scopes as such,
`listMergeReadiness`, the files of the durable record, `workRunController`.

### 8.2 The run

`child_sessions`: each policy; two calls at once, two commits of the child, one
of the others, one restart; two scenes, one in which nothing clashes and one in
which the others' commit conflicts with the child's work and its second commit
writes outside its scope. Two calls are the least where one merge lands while
the other waits for its proof; two commits let a proven head be overtaken; one
foreign commit moves the base at every point of a landing. The two calls are
interchangeable (`SYMMETRY`), which is sound as only safety is checked.
`CHECK_DEADLOCK FALSE`: everything but the calls is bounded.

No fairness is assumed and nothing is said of liveness: no call of the
controller waits for another but through the thread.

### 8.3 What the run shows, and where the code stops short

`WorkSurvives` excepts `late`: commits made after a landing resolved its refs.
The roll-back resets the base to the tip that was resolved
(`worktreeService.ts:893`, `:964`), and the clean-up deletes the branch with
`-D` (`worktreeService.ts:596`, `childSessionController.ts:792-793`); both drop
what was committed meanwhile. It also excepts what a forced removal drops: the
edits, and every commit of the branch (`childSessionController.ts:1154-1182`,
`1235-1260`).

It does not speak of a rebase that fails. The tree is seen clean, then rebased,
and the agent goes on in it: whatever makes `git rebase` fail, an edit made since
the check included, is reported as a `merge_conflict`, and the `--abort` may drop
edits and commits made meanwhile (`worktreeService.ts:1043-1068`). `RebaseFails`
takes them out of the tree and the tip, and `WorkSurvives` is about the commits
the tip holds.

### 8.4 What is proved

For any number of calls, commits and restarts and any scenes, from
`BoundsAreNumbers` and `ScenesAreNumbers`:

* `TypeCorrect`: `Spec => []TypeOK`;
* `JudgedLands`: `Spec => []ProvenIsWhatLands`;
* `WorkKept`: `Spec => []WorkSurvives`;
* `ReadyLands`: `Spec => OnlyTheReadyLand`.

The argument. `IInv` adds to the two safety properties: `GitInv`, the tip and
the base are what Git can hold, and `Landed` of the base is its greatest squash;
`ThreadInv`, at most one call is inside Git, the child then has its tree, and
its status fits its stage; `ProofInv`, the refs a call was gated on are proven
under enforce, and the refs it resolved are those it was gated on when there is
a policy; `LandingInv`, a resolved base holds as much of the child's work as the
base does now, and what it lacks of the others' commits is `late`. The last one
is what makes a reset to the resolved tip harmless for everything else. Most
calls of the controller change only statuses, receipts and `ops`; they are shown
to be a `CallEnds` or a start on a free thread, which keep the invariant once and
for all. `ReadyLands` follows from `ThreadInv`: only `Land` puts a new number of
the child on the base, and its call was gated while the child was ready, on a
thread nothing else has had since.

## 9. Attempt questions

### 9.1 State and actions against the code

`AttemptQuestions` is `attemptQuestions.ts`, with the writes of the journal, the
stop, and the close of an earlier attempt's questions in `superviseLoop.ts`.

| Model | Code |
|---|---|
| `desk`, `journal` | `state.questions` in memory and as it was last written; "none" before it is asked |
| `tick`, `close`, `saving` | where the loop's tick and the close are, what a loop over questions has left, and which of them waits for the write of an update |
| `noting`, `writer` | receipts whose write is awaited; history: receipts sent, and those answered after their write |
| `Ask`, `Receipt` | `handle`: the routes of the relay, open while the attempt runs |
| `Noted`, `NoteFails`, `Saved`, `TickSaveFails`, `CloseSaveFails`, `Save` | what follows the write an update waits for, or its failure; any other write |
| `TickBegins`, `Opens`, `Rejects`, `Lists`, `Offers`, `Collects`, `TickRecords`, `TickCallFails`, `TickEnds`, `TickIsLeft` | `tick`, and what is left of it when the run ends meanwhile |
| `Stop`, `CloseBegins`, `CloseRecords`, `Recorded`, `Fails`, `Ends`, `CloseCallFails`, `CloseIsCut`, `Settles` | the end of the run and `close`, in the same process or in recovery |
| `Archives` | the archive of an attempt whose claim is gone, by a later cycle (`superviseLoop.ts:405-411`) |
| `GoDown`, `GiveUp`, `Crash` | the process dies, or leaves the attempt unsettled to the next cycle |
| `request`, `Answered`, `SessionEnded` | the server and the person (external): the first record of an answer stands |
| `claim`, `Expires` | the claim under which the server takes any call |

A step is what happens between two awaits. The write of the journal is one step
at the moment it takes what it writes; a crash before it is a crash without it,
and nothing outside the process sees the file in between. A write of a stop's close
that fails is caught, and the stop runs once more in the same process, with the
desk as it is (`superviseLoop.ts:994-998`); a second failure, or one in
recovery, leaves the attempt to the next cycle. Each write holds all
questions, so writes that wait for one another may be done in any order. The
teardown of a stop works on a copy of the journal: an offer made meanwhile may
be missing from what it writes (`Copies`).

Simplifications: the contents of questions and answers; the limit
`MAX_QUESTIONS` (`Questions` is the set within it); the hold of a poll, which
only decides when a writer reads what it was offered (a receipt may follow an
offer at once or never); the two hours after which an open question seals the
run (`TickEnds` may stop whenever one is open). A call the supervisor gave up on
is not carried out later.

### 9.2 The run

`attempt_questions`: two questions, two faults among crashes, failed writes, lost
calls and an expired claim. Two questions let one be at a later stage than the
other in each loop, and make the journal know of one and not of the other; two
faults make the recovery from a fault fail. It says `CHECK_DEADLOCK FALSE`: a
settled attempt rests, and so does one whose claim is gone.

Fairness: weak fairness of `TickStep`, as the loop ticks until the run stops, and
of `CloseStep`, as a stopped attempt is closed by this process or by the next
cycle. Nothing makes a writer ask, a person answer or a receipt be sent.

### 9.3 What the run shows, and where the code stops short

Delivery is recorded on the writer's receipt and only then, a receipt answered
after its write is never failed, a settled attempt with a journaled question
leaves nothing open, a stop ends, and answers and receipts arrive. To settle is to
close under the claim. An attempt whose claim is gone is archived without a close:
its questions are left to the server, a receipt answered after its write may stay
unrecorded, and `KeptIsDelivered`, `NothingLeftOpen` and their theorems say
nothing of it.

Two properties have a premise the module's opening comment
(`attemptQuestions.ts:9-13`) does not. Both come from one order: memory is changed
before the journal is written, and others act on memory meanwhile.

* `NothingLeftOpen` asks for a question in the journal. The tick opens a question
  whose ask is not written yet (`attemptQuestions.ts:123`, `:170`). After a crash
  the recovery sees no question, skips the close (`superviseLoop.ts:394`) and
  settles the attempt: the request stays open on the server. Without the premise
  TLC shows this with one question and one crash.
* `KeptIsDelivered` asks for a receipt that was answered after its write. One that
  is sent again while the first is being written, or after that write failed, is
  answered from memory (`:132`); after a crash the recovery fails an answer the
  writer was told is received.

### 9.4 What is proved

For any set of questions and any bound on the faults; the module assumes nothing
of its constants:

* `TypeCorrect`: `Spec => []TypeOK`;
* `RecordTrue`: `Spec => []RecordIsTrue`;
* `KeptDelivered`: `Spec => []KeptIsDelivered`;
* `NothingOpen`: `Spec => []NothingLeftOpen`;
* `JournalForward`: `Spec => JournalMovesOn`, a promise about the journal alone:
  no write takes back what it holds of a question, but for an offer that the copy
  of a teardown missed, so nothing is opened, offered or recorded as if for the
  first time.

The argument. `request` changes at the server, by calls made from what memory
said some steps ago, and a crash puts the journal in memory's place. `IInv` says,
of each question:

* `DeskOf`: what the desk holds has happened at the writer and on the server;
* `JournalOf`: the journal says no more than the desk, and has the receipt once
  the writer was told so after the write. The first half is what makes a crash
  harmless: with it the desk that is read back satisfies `DeskOf` again;
* `TodoOf`: what the tick and the close still mean to do is in order. The failing
  stage of the close begins with no receipt unrecorded, and none comes later, as
  the relay is closed; an end of the session that was confirmed left nothing open;

and, of the whole, `CloseInv`: which phases have a close, and that a settled
attempt has ended one. `IInv` was checked by TLC on this instance with two and
with three faults before it was proved. `JournalForward` splits the steps by
what they write: nothing, the desk, or the copy of a teardown.

The liveness properties `StopSettles` and `AnswersArrive` stay with TLC.

## 10. Not modelled

`PROJECT.json` names each component with the reason. In short: the terminal
interface, planning, review and the command line hold no protocol between
actors; Docker, Git, HTTP and the operating system are modelled as the code uses
them and not in themselves; environment leases and the Codex adapter
are protocols of the kind modelled here and are next in the plan.
