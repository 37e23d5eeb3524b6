# TLA+ verification of prun

This directory holds TLA+ models of three components of prun. Each model is checked with TLC on small instances. For the cron manager, the worker sandbox and the worker's thread pool, TLAPS proofs cover every value of the constants, and every safety property of a passing run outside the codec is proved; the sandbox is also proved to implement an abstract session contract.

Sources, relative to the repository root:

| component | source |
|---|---|
| cron manager | `src/src/master/cron_manager.cpp` |
| worker sandbox and worker process | `src/src/worker/pyexec.cpp` |
| framed request codec | `src/PyExec.cpp`, the `Request` template and its `Session` |

## 1. The system and its parts

prun is a master/worker job runner.

**Master.**
- It parses job descriptions into `Job`s (`job.h`) and queues them.
- It dispatches tasks to workers: `JobSender`, which opens one TCP connection per task.
- It reconciles completions through `JobManager`.
- It re-submits recurring (cron) jobs through the `CronManager`.

**Worker.**
- It accepts a connection per task.
- It decodes the length-prefixed request.
- It forks an interpreter for the task's language.
- It passes the script to the interpreter through a per-thread named pipe, and reads back an integer error code through another.
- It kills the interpreter when the task's timeout expires.
- It answers the master with the error code.

How the parts interact:
- **Cron to job manager.** The cron manager's handlers call `IJobManager::BuildAndPushJob`. The job manager pushes a recurring job back into the cron manager, with `afterExecution` set, so that it is re-armed.
- **Master to worker.** The master's sender writes one frame, `<decimal length>\n<JSON>`, per connection. The worker's `Session` decodes it with `Request`, hands it to the sandbox, and writes the response.
- **Worker to child.** The worker thread and its forked child talk only through the two FIFOs of the thread. The child's script comes from shared memory.

### Inventory

| part | state | operations | hard behaviours | correct when |
|---|---|---|---|---|
| Cron manager (C5) | `jobs_` (deadline multimap of handlers), `names_` (name → handler), each handler's `removed_` flag, `stopped_` | `PushJob`, `PushMetaJob` (list; group re-arm), `StopJob`, `StopAllJobs`/`Shutdown`, `Stop`, `Run`/`CheckTimeouts`, `HandleTimeout` | the sweep thread collects under `jobsMut_`, then fires outside the lock, while user threads push and stop; re-arming; a clock advancing between steps | `names_` points only at live armed handlers; a tombstoned or stopped job never fires; a due entry eventually fires; a recurring job stays armed; one armed entry per name; stopping a group releases its children |
| Worker sandbox (C3) | the thread's step, the current `Job` (`errCode_`), its FIFOs (open or not, contents), the child process | `Session::FirstRead`/`HandleRequest`/`WriteResponse`, `ExecCreator`, `Execute`/`DoFork`, `DoFifoIO` (write, read), `KillExec`; the child's exit, script read and result write | fork failure; poll timeouts; partial writes; FIFO errors; a child that dies, hangs or answers late; FIFOs shared by successive requests | every accepted request is answered; a response carries its own child's result; no stale bytes stay in the FIFOs |
| Worker process (C3) | main's setup step, the threads created and those registered in `threadInfo`, threads ended by an exception, the acceptor (listening, accept pending), each connection's state | `main` (setup, `SetupPyExecIPC`, thread creation loop, `sigwait`), `ConnectionAcceptor` (constructor, `StartAccept`, `HandleAccept`), `OnThreadCreate`, `ThreadFun`, `Session::HandleRequest`/`ParseRequest`, `SigHandler`, `AtExit` | pool threads serve requests while main is still creating and registering threads; an exception escapes a handler and ends its thread; bind fails; SIGTERM at any point | every request sent to a live worker is answered; a request's fork uses its thread's own FIFOs |
| Request codec (C1) | `request_`, `requestLength_`, `bytesRead_`, `headerOffset_`, the session's read state | `OnFirstRead` (`ParseRequestHeader`, `CheckHeader`), `OnRead`, `IsReadCompleted`, `Reset`; `Session::FirstRead`/`HandleRead`/`HandleRequest` | TCP cuts the frame anywhere; header split across reads; reads shorter than the header | `decode(encode(s)) = s` (spec invariant 7), whether the frame comes in one read or several |

The parts that are not modelled are listed in section 6 and under `components` in `PROJECT.json`.

## 2. Modules and how they correspond to the code

### `CronManager.tla` (+ `MCCronManager.tla`, `CronManagerProofs.tla`)

**Constants.**
- Job names: `JobNames`, `MetaNames`, `ChildNames`, and `ChildrenOf`, the children of each meta job.
- `MaxClock`: the last minute of the clock.
- `MaxHandlers`: bounds the pushes.
- `NoHandler`: a sentinel.

**State.**
- `hs`: every handler ever created, a sequence. An id is an index into it.
- `jobs`: the ids in `jobs_`.
- `removed`: the ids with `removed_` set.
- `names`: `names_`.
- `registered`: the names the job manager holds for meta jobs and their children.
- `now`: the clock.
- `pc` and `ready`: the sweep thread's position and its local `ready` vector.
- `stopped`: `stopped_`.
- `stopRequested`: a history variable of the names a user stopped.

**Actions.** Each one is a whole public method:
- `PushJob`, `PushMetaJobList`, `StopJob` and `StopAllJobs` take `jobsMut_` and are atomic.
- `Stop` and `Tick` (the clock) stand alone.
- The sweep thread is split where the code releases the lock:
  - `Collect` is the locked block of `CheckTimeouts`. It moves the due, non-removed entries to `ready`, erases their names from `names_`, and erases every due entry from `jobs_`.
  - `Fire(h)` is one iteration of the loop over `ready`. That loop calls `HandleTimeout`, which re-arms through `JobTimeoutHandler` (a `PushJob` with `afterExecution`) or `MetaJobTimeoutHandler` (a `PushMetaJob(group)`).
  - `Exit` is the `Run` loop seeing `stopped_`.

**Deadlines.**
- `CronNext(t)` is the next cron time: `t` or `t + 1`.
- `AfterExecutionDeadline` is the one-minute bump of `PushJob`.

### `WorkerSandbox.tla` (+ `MCWorkerSandbox.tla`, `WorkerSandboxProofs.tla`)

This module models one worker thread serving requests in sequence, and the children it forks.

**Constants.**
- `MaxTasks`: requests.
- `FifoCap`: FIFO capacity, in scripts.
- `Timeouts`: the sign of `timeout*1000`.
- `ForkMayFail`.

**State.**
- `pc`: the step of the thread.
- `cur`: the request.
- `tmo`: the request's timeout.
- `errCode`: `Job::errCode_`. It is not initialised, so `Init` lets it take any code.
- `fifoFD`: whether `CreateFifo` opened the write FIFO and the read FIFO.
- `toChild` and `toParent`: the FIFO contents.
- `child[t]`: child `t`'s state.
- `script[t]`: the task whose script child `t` read.
- `res`: the result the thread read.
- `responses`: a history of answers.

**Actions.**
- `HandleRequest`: `ExecCreator` and `Execute`. It covers an unsupported language, a failed `CreateFifo` (`Fatal`), and the fork.
- `Fork` and `ForkFails`: the two outcomes of `DoFork`. On a failed fork, `Execute` falls through into the child's path in the worker itself.
- `WriteScript` and `ReadResult`: the two `DoFifoIO` calls, with their poll-timeout branch.
- `FifoIOFails`: a poll or I/O error.
- `KillExec`.
- `Respond`: `WriteResponse`.
- The child (the node driver, outside `src/`): `ChildExits`, `ChildReadsScript` (a whole or a truncated script) and `ChildFinishes`.

**Refinement.** `SessionContract.tla` is what a `Session` promises the master, with the sandbox's inner steps hidden:
- `Receive`: a request is taken.
- `Reject`: a bad header is answered with a failure and the session closes.
- `Answer`: the request taken last is answered once. Without a result the code must be a failure.
- `Abort`: the worker thread is gone.

`WorkerSandbox` instantiates it as `Contract`:
- `received` is `cur`.
- `responses` is `responses`.
- `phase` is `SessionPhase`: `pc` itself for idle, closed and dead, and `busy` for every step from `HandleRequest` to `Respond`.

`ImplementsSessionContract == Contract!Spec` is checked by TLC and proved by TLAPS (section 5).

TLAPS also proves `AnsweredInOrder` of the contract itself: the i-th response is for the i-th request. With the refinement, this holds of the sandbox too.

### `WorkerPool.tla` (+ `MCWorkerPool.tla`, `WorkerPoolProofs.tla`)

This module models the worker process around the sandbox: its threads, the acceptor and the connections. What a request does after its thread forks is `WorkerSandbox`'s subject; here only whose FIFOs the fork uses is recorded.

**Constants.**
- `NumThread`: `--num_thread`, which is 0 when the option is absent.
- `MaxConns`: connections.
- `Kinds`: the kinds of requests. `good` parses; `bad` makes `read_json` or a `ptree.get` throw.
- `BindMayFail`.

**State.**
- `mainPc`: `setup`, `spawn`, `register`, `wait` or `exited`.
- `spawned` and `registered`: threads created, and threads with a `threadInfo` entry.
- `dead`: threads whose `io_service.run()` ended with an exception.
- `listening` and `accepting`: the acceptor.
- `kind` and `conn`: each connection's request and state.
- `fifoOf`: the thread whose FIFOs a served request used, or `NoFifo` for the value-initialised entry.

**Actions.**
- `Setup` and `SetupFails`: `main` up to the acceptor, and `SetupPyExecIPC`'s `exit(1)`.
- `CreateThread`: `create_thread`, after which the thread is already running.
- `RegisterThread`: `OnThreadCreate`.
- `Accept` and `AcceptError`: the two branches of `HandleAccept`.
- `Serve` and `HandlerThrows`: `HandleRequest` on some running thread. When `ParseRequest` throws, `ThreadFun`'s catch ends the thread.
- `FifoOf` and `LookupOutcomes`: `threadInfo[this_thread]` in `DoFork`. `OnThreadCreate` writes the `std::map` without a lock while pool threads look up their entries. A lookup that overlaps main's insert is a data race with undefined behaviour. So, while main is in `register`, any thread's lookup may miss its entry and get the value-initialised one. A crash is already a behaviour, through `SigTerm`'s exit. The model does not say that a lost insert could stay lost afterwards: no property it checks tells that apart from the race run's violation.
- `SigTerm`: `SigHandler`'s `exit(0)` and `AtExit`. Every connection not yet answered is closed.

### `RequestCodec.tla` (+ `MCRequestCodec.tla`)

This module models one connection.

**Input.** `frame` is the master's `Encode(payload)`: the decimal digits of the length, a line feed, then the payload. It is delivered in reads of `1..BufSize` bytes.

**Bytes.** Bytes are integers: 10 is the line feed, 48..57 are digits, and payload bytes start at 97. So `ParseRequestHeader` and `lexical_cast` are modelled by what they compute:
- `FindNL` is `std::find`.
- `HeaderFound` is the code's comparison with `buf.end()`.
- `CastOK`/`CastValue` are `lexical_cast<unsigned int>`.
- `Parsed` is `read_json` skipping leading whitespace.

**Actions.**
- `FirstReadBadHeader`: `CheckHeader` fails.
- `FirstRead`: `OnFirstRead` followed by `HandleRead` on the same buffer.
- `HandleRead`: later reads.

`ReadBody` models `OnRead` and the completion test. On completion it also models `HandleRequest`'s `Reset` and the next `Start`.

## 3. Runs, bounds and what they show

All runs: `tlc -workers 2 -config <cfg> <MC module>`.

| run | cfg | checks | expect | shows |
|---|---|---|---|---|
| cron_safety | CronManager.cfg | TypeOK, NameBindingIsLive, RecurringJobsStayArmed, NoFireAfterTombstone, DueEntriesFire | pass | `names_`, tombstones and re-arming stay consistent under every interleaving of user calls with the two-phase sweep; under the fair sweep every due live entry is fired |
| cron_stop_race | CronManager_stoprace.cfg | StoppedJobNeverFires | violation | a stop between collect and fire is lost |
| cron_meta_names | CronManager_metanames.cfg | ChildNamesReleasedWithGroup | violation | re-arming a meta job leaks child names |
| sandbox_safety | WorkerSandbox.cfg | TypeOK, FifosDrainedWhileHealthy, RequestAnsweredUnlessThreadDied, ImplementsSessionContract | pass | while nothing failed, FIFOs are drained between requests and no child remains; every request is answered unless the thread died; the sandbox implements `SessionContract`: one response per request, in order, none after close or thread death, and a failure code whenever no result was read |
| sandbox_fork_failure | WorkerSandbox_forkfail.cfg | RequestAnswered | violation | a fork failure kills the worker thread's request |
| sandbox_stale_fifo | WorkerSandbox_stale.cfg | ResultBelongsToTask | violation | a request reads another request's leftovers |
| sandbox_errcode | WorkerSandbox_errcode.cfg | ResponseErrIsResult | violation | success does not record the child's code |
| pool_safety | WorkerPool.cfg | TypeOK, ServedUnlessPoolLost | pass | a good request is stranded only when every thread has died, the acceptor never listened, or the process exited |
| pool_exhaustion | WorkerPool_exhaustion.cfg | RequestsServed | violation | two malformed requests end both threads; a good request then waits forever in a live process |
| pool_fifo_race | WorkerPool_fiforace.cfg | FifosRegisteredBeforeUse | violation | a thread serves a request before `OnThreadCreate` registered its FIFOs |
| codec_safety | RequestCodec.cfg | TypeOK, SingleReadRoundTrip | pass | a frame read in one piece decodes to its payload |
| codec_roundtrip | RequestCodec_roundtrip.cfg | RoundTrip | violation | a frame cut into reads decodes wrongly |

### Bounds

**Cron:** one job name, one meta job with one child, clock 0..2, three pushes. This is enough for the following to happen:
- a re-arm on the same minute (`AfterExecutionDeadline`);
- a stop or push between collect and fire;
- a due entry next to an entry planned later;
- two generations of a handler for one name.

**Sandbox:** three requests and FIFOs of two scripts. Three requests are the fewest for which something can be left over from request 1, cross request 2, and be read by request 3. A FIFO of two scripts lets a request's write succeed above an older unread script.

**Pool:** two threads, three connections of either kind, and bind allowed to fail. This is enough for the following to happen:
- a thread serving before it is registered;
- both threads dying while a good request waits;
- a failed bind;
- SIGTERM at every stage.

The FIFO-race run uses two connections, which is enough for its counterexample.

**Codec:** payloads of up to 10 bytes, so that two-digit headers occur. Reads are of up to 5 bytes in the passing run and 3 in the round-trip run, so headers are split from their line feed and payloads are split across reads.
- The passing run sets `MaxScriptSize = 1` so that `CheckHeader` rejects two-digit headers at least once.
- The violation runs use a bound no header offset reaches, as `MAX_SCRIPT_SIZE` (512 KiB − 1) is in the code. With that value `CheckHeader` can never fail, because an offset is at most the 1024-byte buffer.

**Deadlock.** The sandbox and codec cfgs set `CHECK_DEADLOCK FALSE`, because the systems really stop:
- the worker thread stops after its last request;
- a forked worker dies after a failed fork;
- the session waits on a socket the master no longer writes.

### Fairness

- **Cron.** Weak fairness of the sweep thread's steps (`Collect`, `Fire`). `Run` loops while `!stopped_`, and `Wait(1000)` returns every second.
- **Sandbox.** Weak fairness of the worker thread's steps only.
  - The thread runs until it blocks.
  - A FIFO error (`FifoIOFails`) is a failure, not something the scheduler guarantees.
  - The child's steps are not fair: a script may hang forever. This is why the timeout is needed.
- **Pool.** Weak fairness of main's setup and creation steps, and of each pool thread's steps (`\A t : WF_vars(ThreadStep(t))`).
  - `io_service.run()` hands every ready handler to a thread inside `run()`.
  - SIGTERM and a setup failure are not forced.
- **Codec.** No fairness: the codec's only run checks safety.

### Observed without a run of its own

`poll(timeout*1000)` is only safe for a positive product. With `Timeouts = {"positive", "negative"}` and `MaxTasks = 2`, `RequestAnswered` is violated. A child that dies without writing leaves `DoFifoIO` in `poll` forever. This is listed among the hazards (`pyexec.cpp:233`). The sandbox run keeps positive timeouts, as the master sends them.

With `Kinds = {"good"}` and `BindMayFail = TRUE`, `RequestsServed` is violated by a failed bind: the constructor logs the error and still calls `StartAccept`, and `main` signals readiness. With `NumThread = 0`, the default when `--num_thread` is absent, it is violated too.

After `StopAllJobs` and a new `PushJob` of the same name, a handler still in the sweep's `ready` list and the new entry are both armed (`cron_manager.cpp:206`). A uniqueness invariant over `jobs_` and `ready` fails. It is kept as a hazard without a run.

### Mutants

Every property of a passing run has a mutant in `PROJECT.json`: an operator that changes a mapped definition the way a plausible bug would. TLC finds that property violated under the mutant. Examples:
- the sweep keeps `names_` entries (`CollectKeepNames`);
- the sweep collects tombstoned handlers (`CollectTombstones`);
- the result is read without consuming it (`ReadResultPeek`);
- the header is not skipped (`HeaderOffsetZero`);
- the whole buffer size is used instead of `bytes_transferred` (`ReadSizesWholeBuffer`);
- `HandleAccept` does not re-arm the accept (`AcceptNoRearm`);
- the session keeps reading after a bad header (`FirstReadBadHeaderKeepsReading`), which breaks the refinement.

## 4. Findings

See `findings` in `PROJECT.json`. In short:

**Cron manager**
- A `StopJob` racing the sweep is lost: `names_` is erased at collection.
- Meta-job re-arming leaks child names.

**Sandbox**
- A failed fork runs the child's exit path in the worker.
- FIFOs reused per thread deliver stale scripts and results to later requests.
- A successful read drops the child's error code.

**Worker process**
- A malformed request ends its pool thread: the exception leaves `io_service.run()` and `ThreadFun` returns. Enough of them leave a live worker that answers nothing.
- A thread serves requests before `OnThreadCreate` stores its FIFOs. Its fork then uses fd 0 and empty paths from the value-initialised `threadInfo` entry.

**Codec**
- `headerOffset_` is the line feed's index, so a request completes one byte early.
- `headerOffset_` is never reset between reads, so later reads lose bytes.
- `find` is compared with `buf.end()`.
- The early completion leaves the frame's last byte, which the session then reads as a second request.

## 5. What is proved

### `SessionContract.tla`

**`AnsweredInOrderHolds`**: `Spec => []AnsweredInOrder`, with no assumption on the constants. The contract's `TypeOK` and `AnsweredInOrder` together are inductive: `Receive` and `Abort` move the count of pending requests from 0 to 1 and keep the history, and `Reject` and `Answer` append the response for request `received` exactly when the count drops back to 0.

With `Refinement` (below), every behaviour of a worker session is a behaviour of the contract, so this holds of the sandbox as well. No run checks it separately, since `ImplementsSessionContract` already covers it.

### `CronManagerProofs.tla`

Proved with TLAPS for all values of the constants. The only assumption is `CronAssumption`:
- the name sets are disjoint;
- `ChildrenOf` maps meta names to sets of child names;
- the bounds are naturals;
- `NoHandler` is not a natural.

**`TypeCorrect`: `Spec => []TypeOK`.**
- `InitTypeOK` and `NextTypeOK` have one step per action.
- The lemma `AddHandlerTypeOK` states once what appending a handler does:
  - `hs'` stays a sequence of handlers;
  - the old ids stay valid;
  - `jobs'` stays within the ids, via the lemma `IndicesGrow`;
  - `names'` stays typed.
- `AddHandlerTypeOK` is cited by `PushJob`, `PushMetaJobList` and the re-arming `Fire`.

**`NameBindingInvariant`: `Spec => []NameBindingIsLive`.**
- `NameBindingIsLive` is inductive together with `TypeOK`.
- `Collect` erases exactly the names of the handlers it removes from `jobs_`.
- `StopJob` tombstones the bound handler and unbinds its name.
- `AddHandler` binds the new name to a fresh id. That id is in `jobs'` and not in `removed`.
- Other names keep their handlers. The name field tells the fresh handler apart from the others (lemma `AddHandlerNameBinding`).

**`NoFireAfterTombstoneHolds`: `Spec => NoFireAfterTombstone`.**
- The action property is not a state invariant. It follows from the inductive invariant `ReadyInv`:
  - `TypeOK`;
  - `NameBindingIsLive`;
  - `ready ∩ removed = {}`;
  - `ready ∩ jobs = {}`.
- `ReadyInv` is needed because `StopJob` and `StopAllJobs` can tombstone only handlers reachable from `names_` or `jobs_`. The collected handlers in `ready` are in neither: `Collect` erased their names and their entries. So no step between collection and firing can tombstone a handler in `ready`.
- Every `Fire` step therefore fires a non-removed handler. The same invariant explains the `cron_stop_race` finding: the stop cannot reach the collected handler, so it fires anyway.

**`RecurringJobsStayArmedHolds`: `Spec => []RecurringJobsStayArmed`.**
- The inductive invariant is `ArmedInv`: `ReadyInv`, `SweepInv` and the property itself.
- `SweepInv` says the sweep is at the top of `Run`'s loop only with `ready` used up. Without it the invariant is not inductive: `Collect` overwrites `ready`, and a handler still waiting there would be lost as a witness.
- `Collect` moves each due live witness from `jobs_` to `ready`. A witness that is not due stays in `jobs_`.
- `Fire` re-arms the fired handler's own name with a fresh id. It drops no other name's witness.
- `StopJob(k)` tombstones only `names_[k]`. By `NameBindingIsLive` that handler carries `k`, so it is no other job's witness. `StopAllJobs` puts every name in `stopRequested`.
- The lemma `AddHandlerAppends` states once what `AddHandler` does: the old handlers are kept, the new id is fresh, and it carries the pushed name.

### `WorkerSandboxProofs.tla`

Proved for all values of the constants under `SandboxAssumption`:
- `MaxTasks` is a natural;
- `FifoCap` is positive;
- `Timeouts` is a nonempty set of signs.

**The inductive invariant.** `IInv` is `TypeOK`, `NoSuccessWithoutResult`, and `ControlInv`.
- `NoSuccessWithoutResult` is the contract's guard on `Answer`, stated of the history: a response without a result carries a failure code. The refinement step for `Respond` needs it.
- It is not inductive alone: `Respond` writes `errCode` and `res`, and nothing in it says they were set.

`ControlInv` records what the thread's position implies:
- past `HandleRequest`, `cur` is a task;
- before the read, `res` is still `NoResult`;
- in `kill`, `OnError` has stored `Timeout`;
- in `respond` without a result, `errCode` is a failure code, since every path there went through `OnError`;
- a running child has read a script, so the result it writes names a task.

`InitIInv` and `NextIInv` prove it, with one step per action. The lemma `AppendResponse` states once what writing a response does.

**Theorems.**
- **`TypeCorrect`**: `Spec => []TypeOK`.
- **`Refinement`**: `Spec => ImplementsSessionContract`.
  - `InitRefines` and `NextRefines` establish it.
  - `FirstReadBadHeader` maps to `Reject`, `HandleRequest` to `Receive`, `ForkFails` to `Abort`, and `Respond` to `Answer`.
  - Every other step leaves `SessionPhase`, `cur` and `responses` unchanged.
  - `Answer`'s guard comes from `ControlInv`.
- **`FifosDrainedWhileHealthyHolds`**: `Spec => []FifosDrainedWhileHealthy`.
  - The property says nothing about the states in the middle of a request, so it is not inductive.
  - The invariant `DrainInv` strengthens it. It is `IInv`, plus `errCode = Timeout` in `kill`, plus `Healthy => InFlight`.
  - `InFlight` follows one request while every response so far is healthy:
    - in `idle` and `fork`, both FIFOs are empty and no child is alive;
    - in `write`, only the current request's child exists, and it has read nothing;
    - in `read`, exactly one of three stages holds: the script is in the write FIFO; or the child is running or stuck with it; or the child is done and its result is the one token of the read FIFO;
    - in `respond`, with a result or `LangNotSupported`, everything is drained.
  - `Healthy` only becomes false, since responses are only appended. The lemma `HealthyAppend` shows that `Respond` keeps it only for a response with a result or `LangNotSupported`.
  - The lemma `ChildStepInFlight` handles the children's steps. The only live child is the current request's, so it is the child that exits, takes the script or writes the result.
  - The `kill` conjunct is needed because a `Respond` after `KillExec` must not look like a `LangNotSupported` answer.

### `WorkerPoolProofs.tla`

Proved for all values of the constants under `PoolAssumption`: `NumThread` and `MaxConns` are naturals.

**The inductive invariant.** `PoolInv` is `TypeOK` and `MainLoopInv`. `TypeOK` alone is not inductive:
- `CreateThread` keeps `spawned <= NumThread` only because `main` leaves `spawn` after the last thread;
- `RegisterThread` stays within `Threads` only because `main` reaches `register` after creating a thread.

`MainLoopInv` records these two facts.

The invariant is checked by TLC for `NumThread` from 0 to 3. `InitPoolInv` and `NextPoolInv` prove it, with one step per action. The facts about the Boolean flags are proved once, by Zenon.

**Theorems.**
- **`TypeCorrect`**: `Spec => []TypeOK`.

No theorem bounds the `OnThreadCreate` race. The unlocked `threadInfo` insert (`pyexec.cpp:839`) races with the pool threads' lookups (`:191`). That is undefined behaviour, so no thread's lookup is safe while main is in `register`, and `pool_fifo_race` shows the race.

### Only model-checked

These are out of the prover's reach here:
- **Liveness** (`DueEntriesFire`, `RequestAnsweredUnlessThreadDied`, `ServedUnlessPoolLost`), which needs fairness and `ENABLED`.
- **The codec's arithmetic over data** (`CastValue`, `DigitsOf`, round trips). These would need induction over sequences, and `RequestCodec` reaches the `RECURSIVE` operators of the community modules (folds), which takes away tlapm's SMT backend.
- **The codec's `TypeOK`** is model-checked only for the same reason. `requestLength_ ∈ Nat` needs `CastValue`'s value to be a natural for every digit string, which is induction over data.

Every other invariant and action property of a passing run is proved, as listed above.

## 6. Not modelled

- **Job model and queue, job sender, job manager/reconciler, DB access.** Only declarations are under `src/`.
- **Timeout manager.** No source under `src/`.
- **Worker registry (`ReadHosts`).** A sequential file parser.
- **Logging.** Pure I/O.
- **The legacy in-process Python worker in `src/PyExec.cpp`.** Superseded by `pyexec.cpp`. Only its request codec is modelled.
- **Parts of `pyexec.cpp` outside `WorkerPool`.** These are language-runtime setup, daemonisation, impersonation, SIGCHLD reaping and the signal mask in `DoFork`. They change no state a property reads. The ones that can go wrong are listed as hazards with the reason no property covers them.
- **The shared-memory offset arithmetic.** The script buffer is abstracted to one FIFO token per task.
- **The shared-memory slot protocol (C2).** It has no code under `src/` beyond constants.
