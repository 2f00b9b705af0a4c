# Verification of Wizard

TLA+ modules, TLC configurations and TLAPS proofs about Wizard, a local
data-analysis agent: its backend, the page that talks to it and the CLI that
keeps both running. Paths below are relative to the repository; `core/` and
`api/` stand for `backend/src/core/` and `backend/src/api/`.

## The system

A FastAPI process serves browsers over one WebSocket per tab and a set of REST
routes. Each browser has a *session*: a workspace directory, loaded tables, a
permission profile, a data mode and a *runtime*, a child process or container
that executes the Python programs a model writes. A question starts a *turn*: an
asyncio task that plans, writes and runs programs, may fan out into subagents,
may park on a consent question, and learns from what worked. A Go program,
`wizard`, installs all this and supervises it.

| Component | State | Operations | Hard because |
|---|---|---|---|
| Consent broker (`core/agent/consent.py`) | futures by key and request | ask, resolve, abandon | answers, timers, cancellations and abandons meet around one await |
| Chat socket (`api/routes/chat.py`) | per socket: session, current run | receive loop, run_turn, cancel, close | frames and turns interleave; sessions are evicted under turns; several tabs |
| Permission profile (`core/permissions.py`, `api/routes/meta.py`, `_permit*`) | profile, rulings, grants, roots | set_permissions, the agent's gate, authorize | settings change between a question and the act it was about |
| Host runtime pool (`core/tools/host_runtime.py`, `runtime.py`) | children by session | get, release, shutdown, rebind_roots | double-checked locking around a slow spawn; children die |
| Docker sandbox pool (`core/tools/sandbox.py`) | containers by session, capability reports | get, release, shutdown, prune_orphans | a container is created before it can be registered; the backend restarts |
| OS sandbox (`core/security/sandbox/*`) | plan, job object, labels, the child's own restrictions | plan, spawn, adopt, restrict, seal, stop, self-test | one containment is put together in two processes, and any part may be refused |
| Execution daemon (`core/tools/daemon.py`) | namespace, current connection | execute, reload_dataset, reset, interrupt | a request outlives its caller's timeout; signals |
| Session manager (`core/session.py`) | sessions in LRU order | create, get, drop, reap, evict, dispose | several threads; turns outlive their session |
| Session datasets (`core/session.py`, `api/routes/datasets.py`) | tables, files, schemas, policies | add, import, set_active, rename, remove | routes on threads of their own; the daemon reloads from files the session has changed |
| Turn loop (`core/agent/orchestrator.py`) | RunState, investigation | orient, investigate, code actions, finalize | flags set by one action and read many actions later |
| Reasoning stream (`core/llm/reasoning.py`) | what is held back | feed, flush | a tag is cut anywhere; the stream breaks off |
| Routing and redaction (`core/llm/provider.py`, `core/data_mode.py`, `api/routes/meta.py`) | mode, policy, models of a session | select_models, resolve, prompts | an await in the middle of a request; threads that have passed a check |
| Residency (`core/llm/provider.py`, `resources.py`) | clients, plans, releases | create, clear_cache, warm, release | a cache filled under one lock and emptied from elsewhere |
| Model downloader (`core/llm/downloader.py`) | downloads | start, cancel, finish, sweep, remove | a thread, a poll and a sweep share two fields without a lock |
| Records (`core/llm/usage.py`, `core/database.py`, `core/memory.py`) | accounts, rows, memories | append, totals, delete | a turn reads what its branches and its session's end change |
| Semantic cache, embeddings | rows, hot layer; encoders | lookup, add; warm, embed, rank | the columns change under a turn; one lock around a slow load |
| Skills (`core/skills/*`) | files in three layers, index, staged copy, candidates | preview, approve, update, uninstall, promote | several files written one after the other; a scan beside them; a repository that moves between two requests |
| Connectors (`core/connectors/*`) | connections, credentials | save, test, import, write | a driver's thread works with what was saved when it began |
| Job queue (`core/infra/queue.py`) | jobs, tasks, semaphore | submit, cancel, prune, shutdown | cancelled while waiting |
| Rate limiter, connection gate (`api/deps.py`) | windows, slots | check, acquire, release | a full table forgets clients |
| Supervisor and CLI (`cli/internal`) | children, pid files, logs | launch, health, restart, start, stop, attach, init, update | processes die between any two steps; backoff blocks the loop |
| Frontend stream (`frontend/lib/use-chat-stream.ts`) | socket, messages, run | send, cancel, reconnect, frames | late frames and closes of a socket that has been replaced |
| Guards, prompts, ingest, reporting | none | pure functions and I/O | not concurrent |

Who calls whom. The socket starts turns and hands answers to the broker. A turn
asks the broker through the permission gate, gets its runtime from the pool and
sends cells to the daemon from worker threads; dataset routes send reloads to
the same daemon. Its prompts pass the router, which picks a client and decides
what is redacted; what it spends goes to the ledger, what it says to the chat's
rows, what worked to the semantic cache, the trajectories and the candidates for
skills. The session manager disposes of sessions, which releases runtimes and
deletes rows, while turns still hold the session object. The page sends frames
over a socket it may lose and replace. The CLI sees of all this two processes
with a port each.

`PROJECT.json` lists each component's status, and under `hazards` what is hard
to test at which line.

## Modules

| Module | Models | State and actions |
|---|---|---|
| `ConsentBroker` | `consent.py` whole | `pending` is `_pending`; `stage`, `future`, `expired`, `decision` say where each `ask` is. `Ask`, `Emitted`, then `Return`, `GiveUp`, `TimeOut` or `Raise`; `Resolve`; `Abandon`. `said` records what the user said |
| `ChatSocket` | `websocket_chat`, `run_turn`, and the parts of sessions and turns they touch | one variable per local of the handler (`bound`, `run`), one action per frame kind; turns run, park, fan out, end or are cancelled. Its broker is an instance of `ConsentBroker` |
| `PermissionGate` | `PermissionState`, `set_permissions`, `_permit`, `_permit_paths`, the guard's re-scan, `authorize` | profile, custom rulings, grants and roots, and a task per agent or REST client between question and act |
| `RuntimeDirectory` | what a pool promises | processes begin, end and crash in single steps |
| `RuntimePool` | `HostRuntimePool` and `runtime.py`, lock by lock | `table` is `_sessions`; one action per stretch between two lock operations or slow calls |
| `HostSandbox` | the start of a host runtime under the operating system's policy: `capability.py`, `policy.py`, `spawn.py`, `bootstrap.py`, `child.py`, `windows.py`, `selftest.py` and `HostSession` around them | `machine` and `wants` are the platform and the settings; a record per runtime with the place of its start, its plan, its job, its child and what is in force, refused and reported |
| `Sandboxes` | `SandboxPool`, `lifespan`'s prune, the capability cache of `runtime.py` | `boxes` are the containers the Docker daemon has, `pool` what the process knows of them; `reports` is `_capability_cache` |
| `ExecutionDaemon` | `run_server`, `DaemonClient`, `HostSession.interrupt` | the socket's backlog, the daemon's place in its loop, the client's lock, the event loop |
| `SessionManager` | `SessionManager`, `Session.dispose`, and what turns do to what dispose takes | `live` and the relation `before` are `_sessions` with its `last_seen`; threads insert, rank, pop, dispose; turns resolve, run cells, fan out, finalize |
| `SessionData` | datasets of a session, their files, schemas, policies and the frames a runtime holds | `datasets` is a function of the loaded names and `older` the dict's order; one action per stretch a route runs without giving up the event loop or its thread |
| `Connectors` | the store, the gate, a driver's thread over a source, imports and writes | the source is a number of rows, ours and others'; `Connects`, `SamplesTable`, `SizesObject`, `ReadsObject`, `WritesRows`; others write to the source meanwhile |
| `TurnLoop` | `run`, `_orient`, `_investigate`, `_decide`, `_act_*`, `_generate`, `_finalize` | the fields of `RunState` that decide what is learned, the loop's place, the cache entry and trajectory of one question |
| `ThoughtStream` | `split`, `ReasoningStream`, the loop of `_answer` | the response piece by piece, `pending`, `inside`, what was sent as reasoning and as content |
| `ModelRouting` | `resolve`, `select_models`, `set_data_mode`, `should_redact`, the council, the cleaning thread, searches | `sent` is what the last step sent, to whom, and under which mode and policy |
| `ModelResidency` | `create`, `_get_client`, `clear_cache`, `resident_plan`, `warm`, `release` | the client cache and its lock, plans, callers between their two looks, releases on their way |
| `ModelDownloads` | `start`, `cancel`, the two pulling threads, `finish`, `_sweep_locked`, `remove_model`, the registry's list | a record per download with `said`, what the provider told the thread last |
| `SessionRecords` | the usage ledger, branch accounts, chat rows, working memory, `_finalize`'s totals, `dispose` | `ledger` by session and account, an account being the set of the calls booked to it; the rows by id, and how many calls each turn has booked |
| `SemanticCache` | `lookup` and `add` over the table and the hot layer, and the turns that use them | code is named by the question and the columns it was written for |
| `Embeddings` | `warm`, `_get_remote`, `_get_model`, `encode`, `rank` | one lock, the threads of questions and of the warm-up |
| `Skills` | `preview`, `approve`, `apply_update`, `write`, `uninstall`, the registry's scan | the files of a skill in three layers, the index, the staged copy, each request between its writes |
| `SkillFetch` | `source.py`, `fetch.py`, `discover`, and `preview` and `check_update` request by request | `commits` is the repository (or gist) with a tree each; `fetch` is the request under way: which commit it has resolved, what is left to list, what it has found |
| `Promotion` | `record`, `create_skill`, `dismiss` | candidates by id and the turns between match and count |
| `Admission` | `RateLimiter`, `ConnectionGate`, the socket's use of it | windows of times, slots, the stages of a socket. `granted` is what a client has been granted since it was last evicted, of which `hits` keeps the end |
| `JobQueue` | `submit`, the runner, `cancel`, `prune`, `shutdown` | the records, `_jobs`, the cache's copies, the tasks |
| `ChatStream` | `useChatStream` and the server it talks to | `ready` of each socket, the timers, the messages and what they have heard, the frames under way |
| `Supervisor`, `WizardCLI` | the supervisor's loop and its children; `start`, `stop` and what they read | processes with their pid files, the sentinel, launches in steps |
| `DaemonLogs` | `RotatingWriter`, `followFile` | lines in files, a rotation in steps each of which may fail |
| `Setup` | `init` and `update` with `deps.go` | what is on the machine, and the command typed, step by step; it may be interrupted at each |

| `Services` | no code of its own | `ModelDownloads`, `ModelRouting`, `ModelResidency`; `Skills`, `SkillFetch`, `Promotion`, `SemanticCache`, `Embeddings`; `SessionRecords`; `Admission`, `JobQueue`, `Sandboxes`, `ChatStream` side by side, and what each group promises (`ModelsAreInOrder`, `MemoriesAreInOrder`, `TrafficIsInOrder` with `LimitsHold` and `PageIsInOrder`, `NothingGoesBack`) |

`MC*` modules hold what the configurations need (symmetry sets, functional
constants). Six of them put several components into one run: `MCSessions`
(`PermissionGate`, `SessionManager`), `MCRuntimePool` (`RuntimePool`,
`HostSandbox`, the start that the pool takes for one step), `MCTurnLoop` (`TurnLoop`,
`ExecutionDaemon`), `MCDaemon` (`WizardCLI`, `DaemonLogs`, `Setup`), `MCData`
(`SessionData`, `Connectors`) and `MCServices` (the thirteen of `Services` and `ThoughtStream`). A variable `part`
names the one a behaviour is of, so their state spaces add up: what these
components share in the code is not in these modules, and a product would only
multiply states. `Services` and `MCServices` state one property per group of services,
the conjunction of the named properties of its modules.

`*Proofs` modules hold theorems. `PROJECT.json` maps every definition to the lines
it models. Definitions named as mutants are plausible bugs of the definition
after them; they are used only to see that a property can fail.

Abstractions worth knowing:

- `ConsentBroker` models `asyncio.wait_for` as Python 3.11 has it (the Dockerfile's
  version): a cancellation that arrives when the future is done is swallowed. A
  key whose questions are gone and a key absent from the dict are the same.
- In `ChatSocket` the await of the "session" frame is folded into the
  resolution; the frames sent to the client are not kept. A turn's own work is
  one step that may end at any time; `TurnLoop` has the inside.
- `RuntimePool` treats `HostSession.start` and `stop` as steps that may take any
  time and `start` as one that may fail; `HostSandbox` has their inside.
- `HostSandbox`: a feature is in force, refused or neither; what Landlock, seccomp,
  `sandbox-exec`, `icacls` or a job object do is not spelled out. "Refused" is what the
  system would not apply, whether or not anything was reported of it. A probe's
  attempts tell only whether they were blocked, and may be blocked by other things
  than the policy. Runtimes are started once; the two of the run share a workspace.
- `ExecutionDaemon`: the versions `frames` and `disk` stand for the tables in the
  daemon and in the workspace. The listen backlog of 4 is never exceeded by one
  lock holder and the requests that timed out in the runs; inspect, ping and
  reset wait in the same line as a reload and are not told apart.
- `SessionManager` bounds a turn to one cell of its own and one of a subagent.
- `TurnLoop` keeps one question over one schema, and of the investigation the
  last step and `last_successful_code`. `_verify`, `_review` and `_answer` change
  only warnings and text and are one step. `_permit_paths` and the second
  execution it leads to are part of the execution. A program's text is a model
  value; rebinding workspace paths in cached code leaves it the same program.
- `ModelRouting` tells a model by the provider that has it; what a prompt says is
  whether it holds rows. `ModelResidency` counts models instead of bytes.
- `ThoughtStream` spells tags with three and four letters in place of seven and
  eight: every place a tag can be cut at is still there.
- `Skills` follows one skill of one name, one request at a time in the run. Any
  step may fail and the backend may restart between any two; edits of the files by
  another program are left out.
- `SkillFetch`: a directory is one of seven kinds (no skill, a skill, one with programs
  beside it, ...), a text is the commit it was read at, a skill is named by its directory
  and the one installed last is followed. A ref that is a SHA is left out. Listings of
  children come in any order. Every request may fail.
- `SessionData` and `Connectors` let reads and the writes the code guards fail;
  a write the code lets raise ends its action where the code would stop.
- `ChatStream`: a frame is what kind it is and which message it is of; the server
  is `chat.py` as far as a page can tell.
- `Setup`: a tool either succeeds, fails, or is interrupted and leaves half of what
  it makes; sources, dependencies and builds are version numbers.

## What the runs show

| Run | Bounds | Shows |
|---|---|---|
| `ConsentBroker` | 2 keys, 2 questions | `ApprovalIsTheUsers`, `NothingLeftRegistered`, `OpenQuestionIsReachable`; `EveryAskSettles` |
| `ChatSocketSafety` | 2 tabs, 2 sessions with a cap of 1, 2 turns, 1 question | `QuestionsMatchTurns`, `OwnAnswerIsHeard`; the handler uses the broker only as `ConsentBroker` allows (`ImplementsBroker`) |
| `ChatSocketLiveness` | 1 tab, 1 turn, 2 questions | `EveryTurnSettles` |
| `Sessions` | 2 agents (one has no reply channel), 1 client, 2 categories, 2 subjects in one directory; 3 sessions with a cap of 1, 2 threads, 1 turn | `AlwaysAskIsAsked`, `NothingUnasked`, `GrantsAreTheUsers`; `CapHolds`, `DisposedOnce`, `NothingLeft` |
| `RuntimePool` | 2 sessions, 3 processes, 2 workers, 1 reaper, 1 directory; children exit at any time; 2 starts in one workspace on 4 platforms, with and without what is optional there, every mode, and a self-test | `OnePlace`, `LostOnlyAfterACrash`, `ConsentReachesTheRuntime`, `ImplementsDirectory`; `StartsAreContained` |
| `TurnLoop` | 2 programs, 2 iterations (3 when deep), 1 correction; 2 cells (one never ends), 2 reloads | `FailureTeachesNothing`, `TrajectoriesAreRecoveries`, `EveryTurnEnds`; `OnlyTimedOutLinger`, `ReloadIsFresh`, `EveryCallReturns` |
| `Daemon` | one terminal, 2 supervisors at most, 1 restart; 7 lines of a log with a rotation; 2 versions of the source | `EveryProcessIsAccountedFor`, `StopStops`, `StopIsHeeded`; `LogsAreInOrder`; `DoneIsComplete` |
| `Data` | 2 connections, 2 imports, 2 loads, 1 upload, 1 worker, row limits of 2 and 3 over a source of 4; 1 write-back | `KernelHoldsWhatIsLoaded`, `ProvenanceIsTrue`, `PolicyIsNotInherited`; `ImportsAreHonest`, `SourcesAreSanctioned` |
| `Services` | in `Services.cfg`; 4 pieces of a response in the INSTANCE of `ThoughtStream` | `ModelsAreInOrder` (downloads, routing, residency), `MemoriesAreInOrder` (skills and their fetches, promotion, semantic cache, embeddings, records), `TrafficIsInOrder` (admission, queue, sandboxes, page), `ThoughtsAreShown` (reasoning stream), and the action properties in `NothingGoesBack` (downloads, skills, queue) |
| `SessionManagerStranded` | 2 sessions, 1 thread, 1 turn | violated: `RuntimesAreOfLiveSessions` |
| `SetupPulls` | 2 versions, 2 ports, a machine with little memory | violated: `PullModelsPulls` |
| `ChatStreamUnseen` | 1 socket, 2 messages, 1 frame in flight each way | violated: `EveryQuestionIsPut` |

Why the bounds suffice. Every race of these components is between two parties
over one key, session, process or request, with at most one more party that
changes what they fight about: two questions may share a key or not, two tabs
may share a session or not, a cap of one makes every second session an eviction,
three processes allow one to crash, one to replace it and one to race. In
`TurnLoop` one correction gives both a retry that succeeds and one that exhausts,
two programs tell a failed one from its correction, and three iterations let a
failure, a success and a look or fan-out come in any order. In `Services` a
download is followed by another of the same or the other name with one slot;
two roles let a request be half applied; three turns reach a threshold of two
and go past it; two turns look one question up while the columns change; two
clients fill a table of one; three jobs wait for one worker; two sockets allow
one to be replaced while it is still heard; two turns of two sessions share a
ledger while one session goes; two containers let one be lost and one kept; two
commits on two branches let a push fall between any two requests of a fetch; four
pieces hold a tag that opens, one that closes, a broken tag and text, cut
everywhere. `Sessions` and `Services` are the largest; what a third party could add
is left to the proofs, which have no bounds.

Fairness is weak and only on steps the event loop, the threads and the clock
take by themselves: timers fire (`Expire`), resumed tasks run, a daemon serves
its line, a read on a socket times out, model calls have time limits, the
supervisor's loop and `wizard stop` go on once begun. No client frame, answer,
cancel, interrupt, upload or command is ever assumed. Liveness runs use no
symmetry. `EveryCallReturns` holds for endless cells that print nothing: the
client's timeout is on each read, so a cell that prints for ever is never timed
out (`Chatty` is empty in the run; with the endless cell in it everything behind
that cell waits for ever). Deadlock is checked except where the system may
rightly be out of work because the ids of the instance are used up.

Type invariants are checked where they are proved, and each module states one;
the composed runs spend their properties on other things. Every module's was
checked by TLC with `INVARIANT` set to it when the module was written.

## What is proved

TLAPS checks every theorem, for all values of the constants that satisfy the
named assumptions of the modules (sentinels outside their sets, positive bounds).

- `ConsentBrokerProofs`. The safety invariants are not inductive: that an approval
  is the user's needs to know that a future set to yes was set by the user
  (`YesIsTheUsers`), and that a verdict is final needs what a call not yet begun or
  still in flight cannot have (`StageAgrees`). From them: `ApprovalSafe`,
  `NoStaleRegistration`, `Reachable`, and the action property `Finality`.
- `SessionProofs`, of `PermissionGate`. `GrantsAreTheUsers` is inductive with the type invariant,
  because it also speaks of answers heard and not yet acted upon. From it:
  `GrantsConsented` and, step by step, `AlwaysAsked` and `NothingIsUnasked`.
- `RuntimePoolProofs`. `PlaceAgrees` says what a thread holds given where it is in
  its call, `TableIsBorn` what a process in the table is; `Vouched` relates a
  rebind's promise to the roots of every process registered or starting; `Sound`
  says what is registered for a session while a child of it is starting or has
  crashed. From them: `OnePlaceAlways`,
  `ConsentReaches`, `LostAfterACrash`, `NoneLostSteadily` (children that do not
  exit by themselves are never lost), and `PoolImplementsDirectory`, the full
  refinement: initial states map to initial states and every step to a step of
  `RuntimeDirectory` or a stutter. The refinement needs the invariant because two
  threads may both be about to spawn and only the second look under the lock
  keeps the second from doing so.
  The same module proves `StartsContained` of `HostSandbox`, for any number of
  runtimes, every platform and any settings. That a serving child is contained is not
  inductive: half of a containment is the parent's (the wrapped command line, the
  label, the job) and half the child's, on each platform another half. `PlanAgrees`
  says what the plan has settled at each place of a start, `ChildAgrees` how far the
  child has come, and that whatever is not in force by then was refused. A step
  takes one child further (`Onward`), ends it (`Ending`) or begins a start
  (`Beginning`), and leaves the other records alone.
- `TurnProofs`, of `TurnLoop`. `_finalize` reads `state.error`, `retry_count`, `failed_code` and
  `code`; the invariant says what they mean at each place of the loop: during a
  code action the error is set exactly when a program failed in it (`Acting`);
  `retry_count` is positive exactly when one did, and `failed_code` is one of them
  (`Counted`); after the action they tell how it ended (`Acted`). `TypeOK` alone is
  not inductive either: the retry bound needs the conjunct that an attempt starts
  only below it. From it: `TypeCorrect`, `LearnsFromSuccess`, `RecoveriesOnly`.

- `TurnProofs`, of `ExecutionDaemon`. `LoopAgrees` says what the daemon serves given where it
  is in its loop, and that the backlog dies with the process; `LineWasSent` that
  nothing else is in the line; `VersionsAgree` that no version of the tables is
  loaded or wanted before the workspace has it. From them: `NobodyElseLingers` (a
  request still in the line when its caller has gone timed out) and
  `ReloadsAreFresh`. The first and second places of a sequence are what the proof
  spends most of its steps on.
- `ChatSocketProofs`. `Belongings` says which turn a question, and which session and
  socket a turn, is of; `BoundWhileLive` that a session still live is the one its
  socket is bound to, because ids are minted once. With the broker's own
  inductive invariant they give `QuestionsMatch`, `OwnAnswersAreHeard` and
  `SocketImplementsBroker`, the full refinement: every step of the handler and of the
  turns is a step of `ConsentBroker` or a stutter. `TurnsAreConsented` is the
  composition: what `ConsentBrokerProofs` shows of the broker alone holds of the
  questions turns ask over sockets.
- `SessionProofs`, of `SessionManager`. `LockAgrees` says which thread may have chosen or popped
  what; `DisposalAgrees` how far each disposal has come; `GoneAreIdle` that nobody
  uses a session that is gone unless somebody did when it was popped; `TurnsAgree`
  where runtimes and rows come from. From them: `TheCapHolds`,
  `NobodyDisposesTwice`, `DisposalIsComplete`.
- `DataProofs`. Of a source, `WorkAgrees` says what a driver's thread may assume of the
  copy of the connection it works with, and `WriteBackAgrees` that a writable
  connection is one the user opted in to last: `ImportsTellTheTruth`,
  `NothingUnsanctioned`. Of a session's tables, the properties speak of moments when
  no import is under way and say too little of the steps in between; `TablesInv`
  follows every import from the row it reads to the schema it registers and says
  of each what it has done so far or that it was overtaken:
  `TheKernelHoldsTheTables`, `OriginsAreTrue`, `NoInheritedPolicy`.
- `CliProofs`, of `Setup`. That a command which reports success is complete speaks
  only of its end; `SetupInv` says what is there by each place on the way, whatever
  interrupted or failed commands left behind: `SuccessIsComplete`.
- `CliProofs`, of `DaemonLogs`. A rotation with failed renames may leave holes and old
  files between new ones. `LogInv` says that the files nevertheless follow each
  other, by a strict order on what they hold, that while no rename has failed every
  file but the active one is full, and where in the output the follower has come:
  `LogsKeepTheOrder`. The first attempt failed for a good reason: `Rotated` was
  a CASE whose guards overlap, whose value TLA+ leaves open, and is an IF now.
- `CliProofs`, of `Supervisor` and `WizardCLI`. `ChildrenKnown` says that a living child is
  the latest of a supervisor that has not left its loop, or of one that was killed;
  `FilesName` what the pid files may hold; `CommandsKnow` what a `wizard start` or
  `wizard stop` under way may assume of the supervisor it spawned or found.
  From them: `ProcessesAreAccountedFor` and `StoppingStops`. Both assume `OneTerminal`,
  and both fail without it, as in the code: nothing keeps two `wizard start` apart,
  and `RunStart` records the pid after the daemon runs (`start.go:68`).

- `ServicesProofs`, of the thirteen modules of `Services`, which share no state; each
  has its own specification, and four properties of the run follow from their
  conjunctions (`TrafficStaysInOrder`, `ModelsStayInOrder`, `MemoriesStayInOrder`,
  `NothingIsTakenBack`).
  - `Admission`. That a client is granted no more than its quota in any window is
    about all it was granted since it was last evicted, of which the limiter keeps
    only a part. `LimiterInv` says that what is kept is the end of it, and
    includes all that lies in the window. `GateInv` counts the living sockets of
    each host among its slots.
  - `JobQueue`. `QueueInv` relates a job's record, its copy in the cache and its entry in
    the table of tasks, and bounds the running ones by the semaphore. It also
    gives `PollsGoForward`: no poll learns less than the one before it.
  - `Sandboxes`. That a session has one container fails between `run` and
    `register`, and between a crash and `prune_orphans`. `BoxInv` says who holds each
    container at each place of each thread, and tells the eras of the process
    apart: a container of an earlier era is nobody's until it is pruned.
  - `ModelDownloads`. `DownloadsInv`: a download not ended keeps its row through every
    sweep, and its status is the last thing its thread writes. The order of the
    two writes is what `EndsStayShown` rests on.
  - `ModelRouting`. `RoutingInv` carries what a selection has checked over its awaits:
    it is as good as when it was made unless the mode was changed between, and the
    same of a cleaning prompt and the table's policy.
  - `ModelResidency`. `ResidencyInv`: one caller at a time is in the part that adds to
    the cache, and a caller with a client of the latest generation has the cached one.
  - `Skills`. A scan may have begun before the last change of the files, and the
    registry may then keep what it read. `SkillsInv` says that it is right all the same
    while no reload is pending, because a reload waits for the scan's lock and
    forgets what it found. `ReviewAgrees` says what an approval holds and has done at
    each of its steps. `ReviewsStand` assumes `OneClient`, as the run does: nothing
    keeps two requests for one staged skill apart (`install.py:416-455`), and without
    it the property fails.
  - `SkillFetch`. `FetchInv`: a fetch stays at the commit it resolved, which is one of the
    ref it was given, and what it has found together with what it has still to list
    are the skills of that commit. Only that a preview ends right is a property of
    the run; it is the last step of this. The proof needs the repository to be a
    tree: below a `skills` directory that is not there, nothing is.
  - `Promotion`. That a candidate is offered once rests on its count, raised and read
    in one transaction. `PromotionInv` says that no two turns have read one
    count, and that the count of a candidate once offered is past the threshold.
  - `SemanticCache`. `CacheInv` carries a row's schema from where it is ranked
    into the hot layer and back.
  - `Embeddings`. `EncodersInv`: until the warm-up has an encoder every question is
    answered by hashing, so none is where the lock is.
  - `SessionRecords`. That a final frame's cost covers the turn is a fact of the moment it
    is sent. `RecordsInv` says that until then every call of the turn is on an account its
    totals read: an account is only added to, a branch runs only while its account is
    among the turn's, and what `dispose` forgets belongs to turns it has marked. The row a
    turn names is its own or deleted, because an id is never given twice. An account is
    modelled as the set of its calls and not as their sum, so covering is inclusion, which
    says more than a comparison of sums and needs none of their laws. The working memory is read by
    no turn's record and is left out of the invariant.
  - `ChatStream`. That a frame reaches the message of its turn is about everything on the
    way, since frames do not name it. `PageInv` says that, while the user has left no
    turn unfinished, an open socket is idle or its only turn is that of the active
    message: sent, with nothing yet under way to the page; served, with none of its last
    frames under way; or ending, with one of them, the last. Its own question is on its
    way, on the page or answered. The half of it that needs no such trust is
    `PageBase`: one live socket, empty wires elsewhere, and a run that has said its
    last asks nothing.

Assumed of the constants: `None`, `Nobody` and their like are outside the sets they
stand apart from; sets of ids are finite where something is counted; caps and
limits are natural numbers, positive where the code starts from at least one. TLC
evaluates each assumption on the run of its module.

Only model-checked: `ThoughtsAreShown`, and all liveness (`EveryAskSettles`,
`EveryTurnSettles`, `EveryTurnEnds`, `EveryCallReturns`, `StopIsHeeded`). Liveness under fairness
and ENABLED are out of the prover's reach. `ThoughtStream` splits text with a RECURSIVE
operator, for which the prover has no backend, and what it makes of every text is an
induction over the text, which the provers cannot instantiate.

## Disagreements between the code and its text

Three are violation runs (see `findings`): a turn that outlives its session
strands a runtime; `wizard init --pull-models` skips the model it has itself pinned
and reports success; a subagent's question is never put to the user.

Others are stated as properties of their modules and fail there; no run holds
them. To see one fail, set it as the `INVARIANT` (or `PROPERTY`) of an instance of its
module with the bounds given above, or with the ones in brackets.

| Property | What happens |
|---|---|
| `ChatSocket!AnswerIsHeard` | an answer frame is resolved under `session.id`, a subagent's question is filed under a composite id (`chat.py:194`, `orchestrator.py:418`) |
| `ExecutionDaemon!RuntimeSurvives` | SIGINT outside the `try` around `exec` ends the daemon (`host_runtime.py:239`); every cancel sends one |
| `TurnLoop!CachedHasRun` | a program whose install was declined has no error and has not run, and is cached as "verified" (`orchestrator.py:2046`) |
| `SessionData!DfIsOfALoadedTable` | removing the last table leaves `dataset.feather`, and a reload binds it to `df` again (`session.py:236`) |
| `ModelRouting!ModelCallsKeepTheMode` | the council and the embedding service go by the global setting, not by the session's mode |
| `ModelDownloads!CompletedIsListed` | a lookup that began before `invalidate` stores its list after it (`downloader.py:325`) |
| `ModelResidency!ClientsUseTheKey` [2 events] | a call resolved before `clear_cache` builds its client after it, with the old key |
| `ModelResidency!PlansFit`, `PlansCoverTheCalls`, `ReleasesSpareTheWorker` [2 events, 3 local models] | a plan made while the list could not be read is kept for ever; plans are made for the default models, not the session's; a delayed release may unload the model the worker was given meanwhile |
| `Skills!BuiltinIsUntouched`, `PinNamesTheText` | an update writes over the layer it found the skill in (`install.py:541`); a failure between text and index leaves the index naming another commit, and the staged copy may be torn |
| `Promotion!OneCandidate` | two turns that end at once insert two candidates |
| `SemanticCache!StoredForItsSchema`, `ReusedForItsQuestion` | `_finalize` reads the columns again when it stores (`orchestrator.py:2044`); a chain of alike questions drifts |
| `Embeddings!ComparesLikeWithLike`, `ProbesOncePerWindow` | `rank` re-encodes by width and two encoders share one; every thread queued on the lock probes again |
| `Admission!OnlyLivingAreCounted` | a failure between `acquire` and the `try` keeps the slot (`chat.py:125`) |
| `JobQueue!CancelledJobsEnd` | a job cancelled while it waits for the semaphore stays pending (`queue.py:103`) |
| `ChatStream!SpinsForATurn`, `UnmountedHoldsNone` | the close of a replaced socket does not end its run; a reconnection timer that was overwritten outlives the hook |
| `SessionRecords!BranchCostIsItsOwn`, `RecallReachesTheLatest` | branch ids repeat across turns (`orchestrator.py:1314`); the memories recalled are the oldest (`database.py:591`) |
| `HostSandbox!GreenIsEnforced` | a self-test judges only files and network, and an attempt that failed for another reason (offline, an unwritable home) counts as blocked (`selftest.py`) |
| `HostSandbox!ReportsAreEvidence` | on macOS the child reports files and network as enforced though its parent could not write the profile (`child.py`) |
| `HostSandbox!RequiredIsInForce` | "refuse to start a runtime that cannot be contained" (`config.py:337`): what the child is refused, and a job Windows will not give, is only reported |
| `HostSandbox!NoJobIsForgotten` | `get` pops a dead entry without stopping it (`host_runtime.py:334`), and a self-test whose bootstrap cannot be written leaves its job |
| `HostSandbox!ScriptsAreThere` | `release` stops outside the lock and removes the scripts the next runtime has just written (`host_runtime.py:268`) |
| `SkillFetch!FailuresAreStated` | "Everything here degrades into a stated failure" (`fetch.py:36`): a directory with a name `_check_path` refuses raises a `SourceError` that neither `preview` nor its route catches (`install.py:223`) |
| `SkillFetch!InstalledFollowsItsRef` | `apply_update` reads the record a second time (`install.py:534`); approved meanwhile from another branch, it is recorded with a commit of the first |
| `SkillFetch!InstalledIsASkill` | an update writes a text that `_parse_fetched` would have refused, and the skill is gone at the next scan |
| `Sandboxes!TheReportWins` | an empty report is cached, and one outlives its runtime (`runtime.py:309`) |
| `ThoughtStream!ThinkingIsNoAnswer`, `ShownIsRecorded` | a reply whose opening tag was prefilled streams its thinking as content; a stream that breaks off has shown what is not recorded |
| `Setup!UpdateRestoresThePort` | when `ports.json` cannot be written, update restarts on another port |

Met while modelling, without a property of their own:

- A cancel of a turn parked on a question is swallowed: the frame abandons the
  question first, the future is done, and `wait_for` returns it (`chat.py:184-186`).
  The turn goes on with a denial and ends normally.
- Two tabs on one session can run two turns at once: the busy check looks at a
  local of the handler (`chat.py:198`). The end of either turn denies the other's
  open question (`chat.py:284`).
- An abandoned question returns a denial with the empty reason that
  `consent.py:55` reserves for a user's answer.
- `authorize` looks at grants before the ruling, so a later `deny` does not stop a
  click on something granted (`permissions.py:254`).
- "Tightening the profile clears grants" (`meta.py:340`), but only leaving
  auto-approve does.
- Two threads that saw the same dead child: the slower one pops what the faster
  one has just registered (`host_runtime.py:334`), and nobody stops that child.
  `LostOnlyAfterACrash` is the exact statement of what remains true.
- `rebind_roots` finds nothing registered while another thread's child is starting
  with the roots of before the consent; it returns False and the child is
  registered without the directory. `ConsentReachesTheRuntime` therefore speaks
  of the runtimes it did release.
- Dataset and reset routes wait on the event loop for a cell to end
  (`datasets.py:110, 201, 208`, `daemon.py:586`), and no socket is read meanwhile.
- A session touched between the choice of the expired and their removal is
  reaped (`session.py:569-570`); `create` may return a session that an eviction
  has disposed of (`session.py:538`).
- A fan-out that succeeds after a failed code action leaves `state.error` set, so
  `_verify` is skipped although `orchestrator.py:1276` counts on it. Cached code that
  fails in every retry stays in the cache.
- `forceKill` kills the children before the supervisor, which may launch them once
  more; a stop whose supervisor is dead but whose children live removes the pid
  files and kills nobody; two starts at once make two supervisors.
- An interrupted `python -m venv` leaves an interpreter that makes `init` skip the
  step; a failed `update` leaves new source with an old build, the daemon stopped.
- A corrupt `connections.json` reads as empty and the next save loses the rest;
  `delete_connection` changes only the caller's session.
- On a Mac without a working `sandbox-exec`, best effort still wraps the command, and
  the child cannot start; `spawn.py:83` speaks of a plain spawn.
- A `tree` URL cuts a branch with a slash in its name at the slash
  (`source.py:238`), although `REF_PATTERN` allows for one; the shorthand keeps it.
- Two requests may handle one staged skill at once: an approval ends by removing whatever
  is staged then, also what another tab's preview has put there since it was read
  (`install.py:455`).
- The id of a staged skill names its source without the ref, and a preview that fails
  half-way has replaced some of the staged copies: the page keeps the old cards
  (`install-from-github.tsx:51`), and approving one installs the text of another commit.
- `create_skill`, `approve` and `apply_update` raise before the registry reloads when
  the index cannot be written; `apply_update` fetches a newer commit than the one
  that was shown.
- A pull cancelled after its last line is shown as cancelled though installed; an
  Ollama pull that says nothing cannot be cancelled.
- Calls of cancelled streams and of branches that ran out of time are never
  booked; rows outlive the session that a late turn writes them for.
- Containers that `run` created and could not start are unknown to the pool;
  `prune_orphans` also removes another backend's.

## Not modelled

See `components` in `PROJECT.json`: text processing and data-frame code without
state (prompts, reporting, the parsing of documents, retrieval scores,
statistics), the code guard's walk over a syntax tree, the arguments of the system
calls of the OS sandboxes, the drivers' and providers' wire protocols, rendering. Of
modelled components: the plan gate's resume, `SessionManager.shutdown`, the
in-process interpreter (its swap of `sys.stdout` is not safe against a second
thread, `execution.py:227`), `status` and the checks of the CLI's tools, process
groups of Windows.

## Plan

Done: every component with state and concurrency has a module. Those that carry
the promises to the user (consent, permissions, turns, runtimes and how they
start, the daemon, sockets, sessions, data), the CLI, the services that limit and
route, what is remembered between sessions (skills, fetches, promotion, caches), what
is recorded of a turn and the page have proofs. Next:

1. Composition of what shares state: `SessionRecords` with `SessionManager`'s
   dispose, `ChatStream` with `ChatSocket`'s receive loop.
2. An abstract job that ends once, implemented by `JobQueue` and `ModelDownloads`
   except where the table above says they do not.
