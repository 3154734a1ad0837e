# A formal model of vllm-verifier

vllm-verifier answers typed questions ("decisions") about a state over HTTP. Three runtimes stand
behind one API: an HTTP gateway to a vLLM server, a local MLX engine, and Kai, a direct scorer with
its own online queue. A separate engine runs batches offline. This directory holds TLA+ modules of
the parts whose correctness depends on the order of events, TLC instances that check them, and
TLAPS proofs of every safety property for any number of requests and any limits. Paths below are relative to the repository's
`src/vllm_verifier/` unless they start with `docs/`, `tests/` or `examples/`; the customer service example is in
`examples/customer_service/`.

## Inventory

| Component | State | Operations | Hard behaviour | Correct when |
| --- | --- | --- | --- | --- |
| Decision scheduler (`decision/service.py`) | bounded `asyncio.Queue` with its unfinished count, one future per job, the worker's job list, a one-thread executor, `runtime`, `closed` | `start`, `ready`, `evaluate`, `_work`, `close` | callers leave while their job is queued, collected, running or just answered; worker cancelled at any suspension, even before its first instruction; a batch cannot be stopped | no caller lost or answered twice, jobs in order, one `task_done` per job, nothing runs after `close` |
| Kai runtime (`decision/runtime.py`) | rows grouped by type, answers, usage | `evaluate_batch`, `_run` | a failure in the middle of a call; bounds that hold only for sorted rows | batches within bounds, one fate for all, exact usage |
| Boundary middleware (`middleware.py`) | `active`, the local `admitted` | `__call__` | eight exits, disconnects, slow bodies, cancelled tasks | the counter equals the calls in progress |
| HTTP application (`app.py`) | the service | routes with a deadline, lifespan | composition of the two limits above | work for at most `max_requests` callers |
| Generation service (`service.py`) | one semaphore, one task per question | `evaluate`, `evaluate_vision`, `decide` | retries, first failure cancels siblings, deadlines, a slot handed to a task that is being cancelled | slots conserved, nothing outlives its request, all or nothing |
| Native batch engine (`engine/core.py`) | deque of work items, batch, answers, counters | `evaluate`, `_job` | repairs grow, budgets, fairness among requests | every question answered or the call raises; budgets kept; it ends |
| MLX backend (`engine/mlx_backend.py`, `engine/mlx.py`) | a one-thread executor with its queue, `runtime`, `closed` | `start`, `complete`, `close` | an abandoned generation keeps running while its slot is free; `close` takes the queue apart and drops what callers wait for; a load given up | no work without a caller but the one that runs; every caller hears of it; `close` ends |
| vLLM backend (`backend.py`) | connection pool of httpx | `complete`, `ready` | the pool is shared with readiness probes | the reserve of two connections keeps probes out of the generations' way |
| Artifact cache (`decision/artifact.py`, the constructor in `decision/runtime.py`) | files, the namespace in `sys.modules` | download, cache check, verify, execute, export | crashes in a download, several processes on one directory, files damaged later, code that fails half-way | only reviewed code runs; cached starts are offline; starts recover |
| Customer service dialogue (`dialogue.py`, `actions.py`, `slots.py`, `catalog.py`) | active, suspended and completed frames, clarification, demo store | `turn`, `activate`, `advance`, `finish`, `execute` | corrections, interruptions and resumptions around a pending confirmation; an order changed by another task meanwhile | no change without a yes to its summary; no task or slot lost |
| Customer service sessions (`app.py`) | session table, one `asyncio.Lock` and conversation per session | `session`, `chat`, reset, read, expiry | a turn waits for the classifier under the lock; requests without a deadline wait behind it; sessions expire meanwhile | conversations are transactional, sessions in use stay, everybody leaves |
| Customer service classifier (`classifier.py`) | none | `classify` | two-stage routing on floating-point probabilities | candidates of one category, an intent only from a clear ranking |
| Verification, models, prompts, vision, config | none | pure functions | floating point, parsing | not modelled |

How they interact: the ASGI server calls the middleware, which calls the application on the same
event loop; the route handler calls `evaluate` under `asyncio.timeout`. The decision service hands
jobs from its queue to one scheduler task, which hands batches to one thread, where `KaiRuntime`
runs; results return to the loop as futures. The generation service starts a task per question;
the tasks share a semaphore and call a backend. The customer service example is a client of the API:
`chat` takes a session's lock, runs a dialogue turn on a copy of the conversation, which may wait for
the classifier (and so for the server), and commits the copy.

## Modules

| Module | Models | State and actions |
| --- | --- | --- |
| `DecisionScheduler` | `DirectDecisionService` and the deadline of the route handler | One action per stretch of code between two suspensions. `worker` is the suspension point of `_work` (`get`, `window`, `running`; `loop` and `collect` mark code that goes on without suspending, and `LoopFree` holds the other coroutines back there). `thread` is the executor's one work item. `WorkerCancelled` is the `finally` clause, `WorkerStillborn` a task cancelled before it began, `CloseDrain` the second drain. |
| `BoundedDecisions` | what the service promises | A bounded first-come first-served backlog; the oldest part is settled at a time, scored or failed as a whole, except that a malformed request is told so; callers may leave; after a stop everybody is dismissed. |
| `SchedulerRefinement` | the mapping between the two | backlog = jobs in hand followed by the queue; verdict = future; mode from `closed` and `runtime`. |
| `Boundary` | `BoundaryMiddleware` with any application | One action per exit or suspension of `__call__`. |
| `DecisionServer` | middleware, handler and scheduler on one loop | `EXTENDS DecisionScheduler`, `INSTANCE Boundary`; a call enters `evaluate` in stage `app` and the middleware's finally clause runs when it is over. |
| `GenerationService` | `DecisionService`, its tasks and `asyncio.Semaphore` | The service's own steps, without a next-state relation: what a backend call ends with, and when, is up to the module that extends it. `act[a]` is where a task is; `asked` are cancellations a task has not met yet. The semaphore is external and modelled from asyncio's semantics: FIFO of futures, a slot is given before its owner runs, a cancelled waiter hands it on. |
| `GenerationServer` | the service with each of its two engines, from the lifespan's start to its end | `EXTENDS GenerationService`. A step of an actor that begins or ends its call takes the backend along (`Follow`). `jobs` is the executor's queue or the users of the pool, `running` the owner thread, `result` an executor future. `CancelQueued` and `Closed` are the two parts of the executor's shutdown, which runs on a thread of its own; `Ready` and `ProbeEnds` are readiness probes. |
| `ArtifactCache` | the constructor of `KaiRuntime` up to the loaded export, in several processes | An action per file that is fetched or verified, since other processes act in between; crashes, outages, damage, repeated starts are actions of the environment with the bound `MaxFaults`. |
| `KaiBatch` | `KaiRuntime.evaluate_batch`, `_run` | Admission, order and physical batches over rows with a type and a length; the model is external. The order is any sequence of the admitted rows in which each `RunsBefore` the next: that is what grouping by type and a stable sort leave. The tokens of a row are pairs of the row and a place in it, so that what is charged is the size of a set. |
| `DecisionEngine` | `DecisionEngine.evaluate`, `_job` | Compilation, the round-robin loop turn by turn (`TakeTurn` over `queues`), greedy batches, verification completion by completion, and repairs; prompts are their reserved tokens. `tried` records which attempts were looked at, a history variable that the accounts are compared with. |
| `Dialogue` | one conversation: `turn` and what it calls, and the demo store | An action per branch of `turn`, in the code's order (each guard excludes the branches before it). A message is a record of what the code reads from its text. `shown` is the last summary, a history variable; `heard` the last command. `Classifications` is the classifier: a ranking within one category, clear or not. |
| `Sessions` | the session store, its locks and the handlers of chat, reset and read | An action per stretch between suspensions. `session()` and the first try of the lock are one (`Use`); `Proceed` is a woken waiter; `Commit`, `Fail` and `Cancelled` end a turn. `asked` are deadlines a chat has not met yet, `story` the history the conversations are compared with. The lock is external. |
| `SequenceLemmas` | what the library's operators on sequences do to elements, order and duplicates | lemmas only |
| `DecisionServerProofs` | theorems about `DecisionScheduler`, `SchedulerRefinement` and `DecisionServer` | see below |
| `BoundaryProofs`, `GenerationProofs`, `SessionsProofs`, `DialogueProofs`, `DecisionEngineProofs` | theorems about `Boundary`, `GenerationServer` with its service, `Sessions`, `Dialogue`, `DecisionEngine` | see below |
| `KaiRuntimeProofs` | theorems about `KaiBatch` and `ArtifactCache` | see below |
| `MC...` | instances for TLC | finite sets and symmetry |

Abstractions that matter: requests are made once each; payloads, prompts and probabilities are
reduced to "usable or not" and lengths; request ids, headers, logging and metric values are left out;
whether a request is malformed for Kai is a constant set. `500` stands for any error of the
application behind the middleware. A deadline may fire whenever its `asyncio.timeout` block is
suspended: real time is not modelled.

## Runs

| Run | Shows | Instance |
| --- | --- | --- |
| `scheduler` | the service implements `BoundedDecisions` (order, verdicts, capacity); every future keeps its job, `task_done` balance, flags and executor coherent through start and close, nobody waits after a drain, verdicts final; accepted calls are answered without help from a deadline; `close` ends | 4 calls, one malformed and one foreign, queue of 1, batches of 2, batching window on |
| `boundary_safety` | the counter is exact and a 529 means a full house | 4 inference calls and one for another route, 2 places |
| `server_checks` | the model owes at most `max_requests` answers; the queue refuses admitted calls only behind abandoned jobs; places come back although a batch may never end | 3 calls, 1 place, batches of 1 |
| `generation_safety` | slots conserved, nothing outlives its request, all or nothing, no prompt after a failure was noticed; queued work has callers; the pool's reserve | both engines; a text request with 2 questions and a text or vision request with 1; 2 slots, 1 repair, 3 probes |
| `generation_liveness` | if deadlines fire every request ends, even with a silent engine; if the engine answers no waiter or caller is forgotten, even without deadlines, and `close` ends | the same, 1 slot, 1 repair, no probe |
| `artifact_cache` | only reviewed code runs and no half package is found again; a complete cache needs no hub and no start fails on it; starts get through after any interruption that leaves no damaged file | 2 processes that download and 1 that is given the directory, 2 payloads and the manifest, 2 faults |
| `kai_batch` | physical batches within bounds, one fate, exact usage | calls of up to 4 rows of 2 types and 4 lengths, one of them too long, in up to 3 requests, and some with too many rows or requests (shapes in `MCKaiBatch`) |
| `engine_safety` | fair order, no question forgotten, budgets, complete results and accounting, termination | up to 4 questions in up to 4 requests, 2 repairs each |
| `dialogue` | a change needs a yes to a summary of exactly what is done, and is not done on an order cancelled meanwhile; no task or slot is lost; what waits for a confirmation is complete; the list of suspended tasks is bounded | 6 messages of 14, 5 of the 100 intents in 3 of the categories, unclear rankings empty or of one category (`Doubtful`), a cancellable order, one that has left and an unknown one, 2 suspended tasks for the code's 8 |
| `sessions` | conversations are their committed chats since the last reset; sessions in use stay and the table keeps its limit; everybody who entered leaves | 3 chats, a reset and a read, room for 2 sessions |
| `engine_oversized` (violation) | a call raises for an oversized prompt after generating | as `engine_safety`, 1 repair, a model that takes less than a batch |

Why the bounds suffice: the scheduler's cases are a queue that is empty and full, a batch that takes the
queue behind the first job, a call that is refused, and a caller that leaves in each place; three calls
that can be accepted against a queue of one and batches of two produce all of them. They cannot exceed the
capacity that `BoundedDecisions` states, a queue and a batch: that clause is decided by the theorem
`Refinement`. One place and three calls are the least with which an abandoned job can block a later call
behind a running batch. In the generation server two slots for four users produce contention, retries
behind others and slots handed over during cancellation; three probes are one more than the reserve, so
that a generation does wait for a connection; with the single slot of the liveness run there are three
connections, and a probe would hold up nobody. In `artifact_cache` a crash and an outage, or an outage and
a damage, are what one start can meet between two attempts; two processes download into one directory while a third reads it.
In `kai_batch` the batch bounds are small enough that either may
end a batch. In `engine_safety` two prompts of two tokens fill a batch, two and three do not go
together, five is too long, always for the batch; in `engine_oversized` the model's length is the limit. In `dialogue` the
five intents stand for one without confirmation, one that an order's state refuses, one with a single
slot, a search and a product; six messages are enough to interrupt two tasks by a third, change the order
of one and resume it, and two places for suspended tasks overflow with the third. A session of `sessions` can hold
a running turn, a waiting reset and a waiting chat, which is what a handed-over lock needs. Requests are
made once each, turns, faults and concurrent probes are counted up to `MaxTurns`, `MaxFaults` and `MaxProbes`,
which bounds every run; there are no state constraints. All safety properties and the refinement are
proved without these bounds (below): what the runs alone show is liveness, the violation, and that
no property holds for want of an interesting state.

### Fairness

`Fairness` in `DecisionScheduler` asks that the loop runs the scheduler task, resumed callers and
`close`, and that the owner thread finishes what it runs: asyncio's ready queue and an executor thread
give that. Calls, deadlines, `start` and `close` are not fair: they may never come. `DecisionServer`
drops the thread's fairness and asks that timers fire and that clients take what they are sent.
`GenerationServer` is checked with a fair loop and a fair shutdown thread only; its two liveness properties
name what else each needs as a premise: `DeadlinesFire` (the engine may be silent) or `EngineAnswers`
(deadlines may not fire). Each of the four is weak fairness of one disjunction over all requests; since
requests are finitely many and made once, whatever stays enabled is served at last. `ArtifactCache` asks
that a start goes on and that somebody repeats it (`Step`, `Start` of each process); the hub, crashes and
damage are not fair. `StartsRecover` has the premise that the hub can be reached for good and no damaged
or stray file is left: without the second part it is false, since the cache check looks at the existence of
payloads only and every later start fails its verification. `Damage` never happens while a start reads:
that files change between verification and execution is outside what the code claims. The bytecode an
import leaves beside the package is taken as harmless, since verification skips `__pycache__`.
`DecisionEngine` is sequential: some step
is taken whenever one is possible. `Sessions` asks that the loop runs woken and cancelled waiters and that
a chat's deadline fires; the classifier may never answer. Its `Age` lets a session expire at any time except
while somebody waits for its lock, since the time to live (3600 s) is longer than any wait can be: the
wait ends with chats that came before, whose deadlines of 100 s began earlier. So what `UsedSessionsStay`
tests is a sweep under a running turn and the limit of the table; that a waiter's session stays is this
assumption. `Dialogue` states no liveness: a
customer may go away.

### What the violation shows

`engine_oversized`: `docs/native-engine.md:65` says "Oversized jobs are rejected before generation". That
holds for first prompts. A repair appends the validation message; if the result does not fit, `evaluate`
raises after batches were generated and drops all answers.

The decision queue and the middleware are bounded by the same setting (`docs/decision-models.md:56`). The
queue keeps the jobs of callers that have timed out until the scheduler takes them, so that it may refuse a
call the middleware admitted; `QueueRefusesOnlyBehindStale` shows that abandoned jobs are the only reason.

Also in the model, without a property: the 413 response is sent inside the body deadline
(`middleware.py:80`), so a client slow to take it can be started a second response with 408.

## Proofs

Every invariant and action property that a passing run checks, and the refinement of the scheduler, is
also a theorem, for every value of the constants that the named assumptions admit. Each proof has the same
form: an inductive invariant that holds at first (`...Init`), is kept by every step (one lemma for each
action or kind of action, named `...Keeps`, or for each conjunct, named `...Step`), and implies what is
claimed; the last step of a theorem puts these together. What is assumed is only what the code enforces or
what the environment is:

| Module | Assumptions | Why |
| --- | --- | --- |
| `DecisionScheduler` | `RequestsAssumption`, `BoundsAssumption`, `WindowAssumption` | names of subsets; settings are positive (`config.py`) |
| `DecisionServer`, `GenerationService`, `Sessions`, `Boundary` | `FinitelyManyAssumption`, `CallsAssumption` | at any time finitely many requests have come; a request asks finitely many questions |
| `Boundary`, `GenerationService`, `Sessions` | `LimitAssumption`, `LimitsAssumption`, `RoomAssumption` | limits are positive; retries are a natural number |
| `GenerationService`, `GenerationServer` | `VisionAssumption`, `NamesAssumption`, `ProbesAssumption` | names are apart; the number of probes is bounded |
| `Dialogue` | `CatalogAssumption`, `BoundsAssumption` | the kinds of intents are nested as in the catalog |
| `DecisionEngine` | `ConfigAssumption`, `WorkAssumption` | the checks of `EngineConfig`; a request has a question, a prompt a token |
| `KaiBatch` | `BatchAssumption`, `TokensAssumption`, `CallsAssumption` | the constructor refuses fewer tokens than one input may take |
| `ArtifactCache` | none is used | |

### Scheduler, refinement and server (`DecisionServerProofs`)

`TypeCorrect`, `WaitersKept`, `CallersAgree`, `OrderKept`, `AccountsKept`, `ShutdownKept` and `DrainedForAll` are the
invariants, `VerdictsFinal`, `AbandonedSkipped` and `QuietAfterClose` the action properties. None of them is
inductive alone. `NobodyWaitsAfterDrain` needs that open futures are in the backlog (`NoLostWaiter`) and that
the scheduler's hands are empty when it is gone (`LifecycleCoherent`); that a future never loses its job
needs that a batch covers every open job in hand (`BatchBelongsToJobs`) and that a call not made yet has no
job (`CallersMatchFutures`). `IInv` is the conjunction. The backlog, `jobs \o queue`, carries the argument: taking
and collecting leave it as it is, a delivery or a skip drops a prefix, `Enqueue` appends, the two drains
empty it (`BacklogStep`).

`Refinement` proves `KeepsPromise`: initial states map to initial states (`PromiseInit`) and a step to an
abstract step or a stutter (`PromiseStep`). `Enqueue` is an acceptance, `Deliver` settles the oldest part, the
drains dismiss everybody, and a skipped batch settles nobody who still waits; which is which follows from the
three cases of the backlog.

`ServerImplementsParts` proves that the composition behaves as the scheduler and as the middleware, so that
their theorems hold of it. Its own invariant `ServerInv` adds to theirs the link (`Linked`: who waits for a
verdict is in the application, and only with a place) and that no job is in the backlog twice or with a
verdict (`BacklogOpen`). `PlacesForOpenJobs` (`OpenJobsHoldPlaces`) then counts: open jobs are among the calls
in progress, and those are at most `MaxRequests`. `OverloadBehindStale` (`QueueRefusesOnlyBehindStale`) is the
converse: a queue full of open jobs would be as many calls as there are places, and the one refused makes
one more.

### Middleware (`BoundaryProofs`)

`BoundaryTypeCorrect`, `PlacesAlwaysBalanced` and `OverloadAlwaysReal`. The invariant adds that only calls past
admission hold a place. `Ending`, `Passing` and `Admitting` say what the three kinds of step do to the cardinality of
the calls in progress; each action is one of them.

### Generation service and its engines (`GenerationProofs`)

`SlotsExact`, `WorkEndsWithRequest`, `AnswersAreWhole` and `GivenUpMeansSilent` rest on `ServiceInv`. That slots are
conserved needs that the queue holds waiters only, each once (`QueueOfWaiters`): a release hands the slot to
the first one that was not cancelled, which may take several passes (`PassesKeep`). That nothing outlives
its request needs which actors may be under way at each place of the handler (`InOrder`) and that a handler
which has given up has told everything it waits for (`AllTold`), even if its deadline fires meanwhile.
The proof is by request (`InvByRequest`): a step of one leaves the others as they are.

`QueueHasCallers` (`WorkHasCallers`) and `PoolLeavesRoom` (`PoolReserve`) rest on `EngineInv`: queued work has one
caller that is calling (`JobsAreCalls`), results wait for theirs (`ResultsAreCalls`), and a caller that gave
up what runs does not call again. Since callers hold slots (`FewHold`), the semaphore bounds the queue and the
connections. `ServiceSteps` shows that whatever the engine does, the service only takes its own steps.

### Batch engine (`DecisionEngineProofs`)

What still waits is one line, the rest of the batch followed by the deque (`Waiting`). `Line` says that it is
sorted, that it holds two attempts at most, the later one of earlier questions (`Waves`), and each question
once: without `Waves` the order is not inductive, since a repair joined at the end might precede somebody.
`ServedLine`, `LongerLine` and `RequeuedLine` are the three things that happen to a line. Where the line comes from
is the round-robin loop: `InRounds` says that after k rounds every request has had k turns unless it had
fewer questions. From that come `TurnsKept` (`InTurn`), `QuestionsKept` (`NothingForgotten`) and, with the
running totals of the batch, `BudgetsKept` (`BatchWithinBudgets`). `ReturnsComplete` (`ReturnsEverything`) needs that
what waits was tried as often as its attempt says (`TriesKept`), so that a charge is always for a new try.

### Kai runtime and its cache (`KaiRuntimeProofs`)

`BatchInv` says that what was scored and what is left are the two parts of the admitted rows (`Parted`), that
what is left is in order, and that the charges are the tokens of what was scored. `BatchesWithinBounds`
(`WithinBounds`) follows from `FitIsEnough`: the code compares the last row only, and the order makes it the
longest; for a single row it is `TokensAssumption`. `OneFateForAll` (`OneFate`) follows from `Fates`,
`UsageAlwaysExact` (`UsageExact`) from a bijection between the tokens of a request's entries and those of its
rows.

`CacheInvariance`, `AlwaysReviewed` (`OnlyReviewed`) and `CachedIsEnough` (`CachedStartsOffline`) are about
`ArtifactCache`. That the directory is right when the package is executed needs that every file a start has
verified is still good while others download (`VerifiedStays`). It holds because a fetch only repairs and
damage spares what is being read. `StartKeeps` covers the steps that change no file, `FilesKeep` those that do.

### Customer service (`SessionsProofs`, `DialogueProofs`)

`ConversationsTransactional` (`Transactional`) needs that a turn's copy is still its conversation (`CopiesFresh`),
which needs that the lock has one owner and that nobody who is woken finds it taken (`LockExclusive`), which
needs that only the head of a queue is ever woken (`QueuesBelong`). `SessionsStay` (`UsedSessionsStay`) adds that
nobody waits for a session that may expire (`TableServes`).

`DialogueTypeCorrect`, `CancelledStaysCancelled` (`NothingAfterCancellation`), `ConsentComesFirst`
(`ConsentBeforeChange`) and `NoTaskLost` (`TasksKept`) rest on `DialogueInv`. A task can be confirmed only if it is
complete and what was shown last is its summary (`TasksFit`); between two turns it waits for a slot or a yes
(`Awaits`), so that resuming it changes and executes nothing; a ticket that cancels an order means that the
order is cancelled for good (`StoreFits`). Every branch of `turn` is one of a few moves of tasks (suspend,
activate, advance, resume, execute), each with a lemma of its own.

### Only model-checked

The liveness properties, since the prover has no ENABLED and so no fairness: `EveryCallerAnswered`,
`CloseTerminates`, `PlacesReturned`, `RequestsEnd`, `NobodyForgotten`, `Terminates`, `StartsRecover` and
`EveryoneLeaves`. The violation is a counterexample and has nothing to prove. `TypeOK`,
`FirstComeFirstServed`, `AbandonedNeverScored` and `NoBatchAfterClose` of the scheduler are proved and not
repeated by a run; the refinement implies the order.

## Not modelled, and the plan

Not modelled for good: command lines, the offline batch command and its adapter, benchmark and container
scripts, the demo stub, prompt wording, JSON and floating-point verification, image validation, model
arithmetic (`engine/mlx.py`, `engine/gemma.py`), the classifier's thresholds. In `Dialogue` the option check
(`actions.py:161`), one more way to refuse a change, and the second product of a comparison
(`slots.py:79`) are left out; in `DecisionServer` the routes without state.

What is left to do: the steps that liveness rests on, as far as they can be said without fairness (that the
work left in a call of the batch engine, or behind a slot, only decreases); an abstract specification of the
generation service like `BoundedDecisions`; in `Dialogue` the second product of a comparison.
