# PoolSwitch in TLA+

PoolSwitch is a gateway that spreads HTTP requests over a pool of API keys: it picks a key by a
routing strategy, forwards the request, and on a network failure, a rate limit or an exhausted
quota records what happened to the key and tries again with another. It runs as a proxy process
or embedded in a Python or Node program, and keeps one row of bookkeeping per key in memory, in
SQLite or in Redis.

This directory specifies that core: TLA+ modules translated from the code, TLC configurations that
check them on small instances, and TLAPS proofs for every value of the constants. Paths below are
relative to `src/`.

    tlc -workers 2 -config MCRequestEngine_memory.cfg MCRequestEngine
    tlapm RequestProofs.tla

`PROJECT.json` lists the runs, the source lines behind every definition, and for every property a
mutated definition (the operators commented "Mutated form") that breaks it.

## Inventory

| component | state | operations | what makes it hard | what makes it correct |
|---|---|---|---|---|
| Key rows (`models.py`) | `APIKeyState`: counters, quota, last use, cooldown | five changes, each on a whole row | computed from a row read earlier | a row stays one coherent account of its key |
| Key pool (`core/key_pool.py`) | `definitions`, the lock, the strategy | `acquire_key`, `record_success`, `record_transient_error`, `mark_key_quota_exhausted`, `record_failover`, `add_key`, `remove_key`, `initialize` | the lock is held across store calls; the `record_*` methods read, suspend and write without it; edits change the definitions first and the store next | the choice is right when it is made; the lock is always given back; a cooldown is not undone by bookkeeping |
| Request loop (`proxy/app.py`, `AsyncPoolSwitchClient.request` in `client.py`) | attempts, excluded keys, the key in hand | acquire, wait in the limiter, forward, classify, record, retry or answer | many at once on one event loop; exceptions and cancellations at every suspension | no key twice, no attempt too many, every request ends |
| Retry policy (`retry/policy.py`) | none | `for_attempt`, `sleep` | the boundary of the budget | at most `retry_attempts` sends, one if the method is not retryable |
| Stores (`storage/`) | a row per key | `initialize`, `get_states`, `get_state`, `upsert_state`, `delete_state` | memory never suspends, SQLite and Redis do at every call, Redis lists row by row; a write that fails may have happened | rows are lost whole, never torn |
| Strategies (`strategies/impl.py`) | the round-robin index | `choose` | the candidates change under the index | a candidate, and for round robin an even spread |
| Classification (`core/quota.py`, `_extract_remaining_quota`) | none | `classify_response`, quota headers and body | shapes of bodies and headers nobody thought of | no response raises |
| Rate limiter (`proxy/app.py:52-72`) | a deque of times, a lock | `acquire` | it sleeps inside its lock and does not test again after it | a sliding window, bounded memory, nobody starves |
| Metrics (`metrics.py`) | counters, a gauge | written by the pool and the loop | derived from rows they are not read from | they follow the rows; the help texts say more than that |
| Async client (`client.py:120-335`) | `_closed`, the HTTP client, the pool, a set-up lock | `_ensure_ready`, `request`, `status`, `aclose` | `aclose` among set-ups, set-ups that fail or are cancelled | one set-up, nothing half-ready is used, what is left open can be named |
| Sync client (`client.py:342-410`) | a thread, a loop with its queue, `_closed` | `request`, `status`, `close` | `close` races submissions and other closes; the loop stops with callbacks in its queue | no request starts after `close`; cut-off calls are told; no caller hangs |
| Node client (`sdk-node/src/index.js`) | excluded keys, attempts, a list of times, key states | `request`, `acquireRateLimit`, `performFetch` | no lock in the limiter, abort signals, time-outs | the gateway's contract, the window |
| Configuration and CLI (`config.py`, `cli/main.py`) | a YAML file, rows that outlive the process | `start`, `status`, `metrics`, `add-key`, `remove-key` | several processes on one file and one store; read, change, truncate, write through a buffer; ids by position | used rows stay used, servers find their rows, rows stay with their keys, added keys are there |
| HTTP surface, thin SDKs | none | routes, `/status`, `/metrics`; one call to a proxy | pure I/O | not modelled |

The loop calls the pool, the pool its strategy and its store, and both write the metrics. Requests
share the pool's lock, the store's rows, the round-robin index and the limiter. `PROJECT.json`
lists the hazards of this code at the line where each bites, and the properties that would catch
it going wrong.

## Modules

| module | models |
|---|---|
| `KeyState` | the row and its changes; `RowConsistent`, what makes a row coherent |
| `Classify` | a response as the features the code tells apart, and what is made of it, exceptions included |
| `Strategies` | each strategy as the set of keys it may return; `random` may return any candidate |
| `RequestEngine` | requests, pool, stores, metrics, failures, crashes and edits of the pool |
| `RequestProperties` | what holds of the engine, and on which backend |
| `RequestContract` | which upstream calls a caller may count on, without stores, locks, strategies or metrics |
| `SlidingWindow`, `RateLimiter` | what the limiter promises, and the limiter |
| `RequestProofs`, `MemoryProofs` | theorems about the engine on every store, and on the in-memory one |
| `RateLimiterProofs`, `AsyncClientProofs`, `SyncClientProofs`, `DeploymentProofs`, `NodeClientProofs` | theorems about the module each is named after |
| `SharedLemmas` | lemmas on natural numbers, filters and ages, for several of the proofs |
| `AsyncClient` | set-up and closing of the asynchronous client |
| `SyncClient` | threads, the event loop and its queue, `close` |
| `Deployment` | configuration file and store, shared by servers and editing commands |
| `NodeClient` | the request loop and the limiter in JavaScript |
| `MC...` | small instances for TLC |

`RequestEngine` EXTENDS `Strategies`, which EXTENDS `KeyState`, and takes `Classify` as the instance
`Quota`. `RateLimiter` instantiates `SlidingWindow` under a refinement mapping. The engine sees the
limiter only as a pause of arbitrary length (`limit`), which `RateLimiter` justifies: every call of
`acquire` returns or is cancelled. Both `RequestEngine` (in `RequestProperties`) and `NodeClient`
instantiate `RequestContract` under a refinement mapping, and `NodeClient` instantiates
`SlidingWindow` too. `AsyncClient` stops where `RequestEngine` begins: its `serve` is the engine's
request. In `SyncClient` such a request is a task that suspends once. `Deployment` sees of the
engine's rows only whose use they account for.

### The engine and the code

A request's `pc` names the place where it is suspended. One action is the code from one suspension
to the next together with the effect of the store call that ends it.

| `pc` | code | leaves by |
|---|---|---|
| `acquire` | waiting for `KeyPool._lock` (`key_pool.py:49`) | `AcquireLock` |
| `list`, `relist` | `get_states` under the lock; the second listing of `key_pool.py:52-54` | `ReadStates` (once, or once per row with Redis), then `AcquireKey`, `ListAgain` or `NoHealthyKeys` |
| `limit` | `rate_limiter.acquire` | `Forward` |
| `send` | the upstream call | `Respond`, `NetworkError`, `ForwardRaises` |
| `read`, `write` | the two store calls of a `record_*` method | `RecordSuccess`, `RecordTransientError`, `MarkKeyQuotaExhausted`; `UpsertSuccess`, `UpsertFailure` |
| `read_failover`, `write_failover` | those of `record_failover` | `RecordFailover`; `UpsertFailover`, with the retry policy's decision |
| `sleep` | the back-off | `Wake` |

`KeyMissing` is the `KeyError` of `get_state` for a removed key. `StoreError` and `Cancel` end a
request anywhere they may, with the write in progress done or not. `Restart` kills the process and
starts its successor over the rows that survive. `add_key` and `remove_key` change the definitions,
`FinishEdit` is their store call, `EditFails` the one that raises or is cancelled and has done nothing.

Decisions a reader should know:

* **One event loop.** The in-memory store never suspends, so with it a request, or an edit, keeps
  the loop from one pause to the next. That is `Turn`. With SQLite and Redis it is true.
* **Effect and resumption are one step.** The server's effect of a store call and the code the task
  runs when the call returns are merged. Nothing but the task reads what that code writes, except
  the metrics, which it increments a moment after the row is stored. Therefore `MetricsFollowRows` is
  claimed for the in-memory store only, where there is no such moment. `NeverOvercounts` uses the
  metrics as the count of what happened: a request counts as happened when its row is stored.
* **Locks.** `asyncio.Lock` is fair; the model lets any waiter take it, which allows more.
* **Time** is a counter that starts at 1, so that 0 orders like the timestamp of an unused key
  (`datetime.min`). A tick can fall between any two steps, inside one request's too.
* **Back-off.** Its length is arbitrary. Only the decision to retry is modelled.
* **Edits** of the pool: one is in progress at a time.
* **Cancelled writes** take effect at once or never. The write of a cancelled aiosqlite call can
  land later than that; this delay is not modelled.
* **Responses** are records of features (status, content type, kind of body, families of hints,
  headers). Words and formats are not modelled, their effect on the classification is.

### The clients, the deployment and the code

*`AsyncClient`.* A request is `idle`, waits for `_setup_lock` (`wait`), awaits `build_key_pool` under
it (`build`), or serves. `_ensure_ready` is the code up to the first await, `SetUp` what is done with
the lock held, `aclose` the code up to the first close, `HttpClosed` and `RedisClosed` what follows
each close. `UseStore` is any store call of a request that serves: after `aclose` it connects to Redis
again. `redis` names the callers whose `build_key_pool` opened a connection, since a set-up that
fails drops its pool with the connection open. `overtaken` and `interrupted` are history: the requests that
`aclose` found setting up, and serving.

*`SyncClient`.* `ready` is the loop's queue and `todo` how much of it belongs to the batch that is
running: callbacks put in the queue by a callback wait for the next batch, and `stop` takes effect at
the end of its own. On this the whole question of `close` depends. A `spawn` callback makes the task of
a submitted coroutine, `step` runs it to its next suspension, `resolve` sets the thread's future.
A thread submits in two steps: `_submit` tests `_closed`, `run_coroutine_threadsafe` puts the callback in the
queue. Between them (`append`) other threads may close the client, so the callback can land in front of
`stop`, behind it, in the drain, or find the loop closed, which raises.
`RunForeverEnds` is the `finally` of `_run_loop`: it cancels the tasks that exist, and the callbacks of
coroutines that are none yet stay in the queue. asyncio is external; its part is modelled from the way
`client.py` uses it.

*`Deployment`.* `Load` is `load_config` with what it makes of the file and the environment (`Accepted`):
`POOLSWITCH_UPSTREAM_BASE_URL` may supply the URL (`EnvBaseUrl`), `POOLSWITCH_KEYS` other keys (`EnvKeys`).
`InsertRows` is the one transaction of SQLite, `Exists` and `SetRow` the two calls per key of Redis, `GetState` and
`UpsertState` what a serving process does to a row. `Exit` may fall anywhere.
An editor reads and changes (`add_key`, `remove_key`), truncates (`Open`), writes what its buffer holds (`Flush`)
and at last the rest (`Write`), and may be killed between (`Killed`). What the file reads as in the meantime is
`HalfWritten`: the first entries of what is written, maybe one that is cut off (`Cuts`), with the URL or without
it, or nothing that can be read. An editor whose file another has truncated or written since (`touched`) writes on
where it was, and the texts run into each other: a beginning of one and an end of the other (`Torn`).
Reading the file is one step; a reader that reads across an edit sees a mixture of the same kind. Mixtures are of
two texts, and no file has more entries than `KeyNames`.
`edited` keeps the files that complete edits have led to, each from one of them; `strayed` says that a server has
started on other keys than those; `unseen` the ids a server found without a row when it loaded
the file, until it is up.

*`NodeClient`.* What lies between two awaits is one action. Times are ages in ticks, `Window` ticks to
the second. The limiter's delay is slept as it is written: so many milliseconds, taken for seconds, which
is `Window` times the window here. `FetchRejects` is everything `performFetch` throws. No liveness is claimed: the
limiter has no queue, newcomers overtake its sleepers, and under a load that does not end one may starve.

## Runs

Bounds are constants named in the guards: `MaxClock`, `MaxEdits`, `MaxRestarts`, `MaxStarts`, and the
sets of requests, threads, tasks and processes, each of which acts once where nothing else is said.
`CHECK_DEADLOCK FALSE`: these systems stop when every call has ended and the bounds are used up. The
limiter never stops, and there deadlock is checked.

| run | instance | question |
|---|---|---|
| `memory` | 3 requests, 2 keys, round robin, `RetryAttempts = 2`, exceptions of both kinds, an answer that is a JSON array, cancellations | Are exclusions and attempts one count (`AttemptsAccounted`), the budget kept (`RetryBudget`), errors and failovers recorded in pairs (`ErrorsMatchFailovers`), what the metrics record what the rows record (`MetricsFollowRows`), the rotation even (`EvenRotation`), cooldowns ended by nothing but a success, an edit or a restart (`OnlySuccessEndsCooldown`), choices right when made (`ChoiceIsCurrent`), upstream calls those of the contract (`ImplementsContract`)? |
| `sqlite` | 2 requests, `least_used`, four kinds of answer, one crash, one edit, which may fail | Updates are lost on this backend. Are rows still coherent (`RowsConsistent`), and do they never count more than happened (`NeverOvercounts`)? |
| `redis` | 2 requests, rows read one by one, store errors, cancellations, `FairSpec` | Types (`TypeOK`), `RowsConsistent`, the lock (`LockAccounted`), and does every request end (`EveryRequestEnds`)? |
| `edits` | 2 requests, 3 edits, one crash, in-memory | Do the rows match the configured keys (`RowsMatchDefinitions`)? |
| `limiter` | 3 tasks, 1.5 calls per second of 4 ticks | Is the deque bounded (`DequeBounded`), the window kept (`ImplementsWindow`), every call served (`EveryCallReturns`)? |
| `async_client` | 3 requests, 2 closes, every failure and cancellation | Is there one set-up (`OneSetUp`), is nothing half-ready served (`ServedWhenReady`), what stays open once all is quiet (`OnlyOvertakenLeak`), does every call end (`EveryCallEnds`)? |
| `sync_client` | 2 callers, 2 closers, `aclose` may raise | Does nothing start after a close (`NothingStartsAfterClose`), are cut-off calls told (`UnfinishedCallsAnswered`), does closing end (`CloseEnds`), and what kills the thread (`DiesOnlyOfTwoCloses`)? |
| `deployment` | both backends, 2 servers with 2 starts, 2 edits that add or remove, half-written files, the URL from the environment, and keys too | Does a used row stay (`UsedRowsStay`), does a server find its rows (`ServersHaveRows`), does adding rename nothing (`AddingRenamesNothing`)? |
| `node` | 2 requests, 3 keys, 1 call per second of 2 ticks, aborts | The contract and the window again |

Two keys are enough for a choice, an exclusion and the failure of both, and three requests for a
second request to fail and a third to succeed on one key. With `Cooldown = 1` and a clock of 2 a cooldown
begins, runs and ends within the bound; with `Cooldown = 2` one is still running when it is taken away.
Three tasks let one sleep in the limiter while two wait in either order. Three requests let one set the
client up, one wait for the lock and one find it ready. Two closers are what it takes to stop a loop that
is draining; a second caller is caught in the queue while the first runs. Two servers with two starts let one
process serve while another initializes, or start over; two editors are what it takes to lose an edit or to mix two
texts. In that run the file has no URL,
which the environment gives (`InitialBase`, `EnvBaseUrl`): a server accepts whatever entries it finds. Entries that are
cut off (`Cuts`) it has none; the theorems have. In Node a window of one call makes two
sleepers wake together.

### Where the code and what is said of it disagree

Three runs end in a counterexample. Each checks one sentence.

* `lost_cooldown`: on SQLite and Redis a `record_*` call that has read its row before a cooldown is
  stored writes it back without the cooldown (`key_pool.py:72-77`). In memory this cannot happen: it is
  `OnlySuccessEndsCooldown` of the run `memory`.
* `sync_close`: a call submitted to the synchronous client while another thread is closing it may find
  its callback, or the one that would set its future, in the queue of a loop that has stopped. It waits
  for ever (`client.py:367-371, 398-404`). `UnfinishedCallsAnswered` says which calls are not lost.
* `lost_key`: `add-key` is to "Persist a new key into the YAML config." (`main.py:114`); of two at once one may lose
  its key, though both report it added.

Seen while modelling, without a run of their own:

* `record_success` clears a cooldown whoever set it (`key_pool.py:64`): the success of a request sent
  before its key ran out of quota re-enables the key, where `docs/configuration.md:62` says
  `cooldown_seconds` is how long it is disabled.
* The metrics follow the rows, not their help texts: `poolswitch_key_cooldown_active` stays at 1 when a cooldown has run
  out, until a success (`key_pool.py:69,90`; "Whether a key is currently in cooldown.", `metrics.py:41`);
  `poolswitch_key_usage_total` counts successes (`key_pool.py:68`; "Number of requests sent with each key.",
  `metrics.py:23`); `poolswitch_failovers_total` counts failures after which nothing is retried, too (`app.py:107, 123,
  138`; "Number of times a request was retried with a different key.", `metrics.py:17`).
* An accepted response whose body is a JSON array makes `_extract_remaining_quota` raise (`app.py:212`), and the caller
  gets a 500.
* `add-key` refuses an id that is there (`main.py:117-118`), but not one that an entry without an id has by
  its position, such as `key-1` (`config.py:32`). The added key takes the place and the row of the one that has none.
* The limiter for Node hands a delay in milliseconds (`index.js:331-332`) to a `sleep` that takes seconds
  (`index.js:662`, `test/index.test.js:414`), and sleeps on while there is room.
* An error and its failover are two writes (`app.py:104-106`): a store error, a cancellation or a crash between them leaves
  the first without the second. A write under way when its key is removed brings the row back on SQLite and Redis.
* `httpx.WriteError` and `httpx.CloseError` are network errors the `except` clause does not name
  (`app.py:103`): neither recorded nor retried.
* On Redis two processes that start for the first time at once, a `status` command among them, may
  reset a row the other already uses (`redis_store.py:32`); `UsedRowsStay` allows exactly this.
* Two threads in `close` can kill the loop's thread in its drain, with the loop left open. A constructor
  of the synchronous client that fails leaves its thread and loop running. An `aclose` that raises leaves
  `_closed` set, and a second one does nothing. A request in flight at `aclose` opens the connection to Redis again.
* An edit cut short leaves an empty file, or one with some of its keys. With `POOLSWITCH_UPSTREAM_BASE_URL` set
  (`config.py:83`), or where the URL is in the text already, a server starts on the keys that are there.
  `remove-key` of the last key leaves a file `start` refuses.
* After `remove-key` the keys named by position behind the removed one take over each other's rows.
* In Node an abort is charged to the key and goes on through the remaining attempts (`index.js:204`).
* The key is chosen before the wait in the limiter and may be in a cooldown after it;
  `requests_total` misses the requests that end in a 502 or 503; the documents give `round_robin` as the
  default strategy, `config.py` gives `quota_failover`.
* With `Late = 0`, a clock so coarse that a sleep ends on the tick of its deadline, the limiter lets a
  call too many through and its deque grows, since it drops only what is strictly older than a second and
  does not test again.

## Fairness

`FairSpec` gives each request weak fairness on what it does once it has arrived: the event loop runs
every task that can run, timeouts end every upstream call
(`request_timeout_seconds`, `connect_timeout_seconds`), and a store call returns or raises.
`FinishEdit` is fair for the same reason. Nothing forces a request to arrive, a caller to cancel, a
crash or an edit, and the clock may stand still. Weak fairness of the lock's waiters is enough where
requests are finite in number; `asyncio.Lock` is FIFO, which is more. In the limiter time passes
(`WF` of `Tick`) and the head of the queue runs when it can (`WF` of `Step`).

The clients: in `AsyncClient` a task goes on when what it awaits has come, the lock or a call that returns or raises.
In `SyncClient` the loop's thread runs (`Loop`), a suspended task is woken by an answer or a
timeout (`Wakeup`), and a thread that has submitted, or is in `close`, goes on (`Proceed`); nothing makes
a thread call. The loop's fairness covers the loop as a whole, since it runs its callbacks in order. Nothing
makes a caller cancel. `NodeClient` and `Deployment` claim safety only.

## Proofs

Every theorem is about `Spec`, for any finite or infinite sets of requests, keys, threads and
processes, and any values of the other constants that their assumptions allow. The hypotheses beyond
these stand in the third column. Every invariant, action property and refinement that a passing run
checks is stated by one of them; what stays with TLC is liveness.

| module | theorem and property | holds for | argument |
|---|---|---|---|
| `RequestProofs` | `TypeCorrect`: `TypeOK` | every backend | one step per action, five parts |
| | `RowsNeverTorn`: `RowsConsistent` | every backend | inductive with `TypeOK` |
| | `LockReleased`: `LockAccounted` | every backend | inductive with `TypeOK` |
| | `RetriesBounded`: `RetryBudget` | every backend | from `RetryInvariant` |
| | `KeysNeverReused`: `AttemptsAccounted` | every backend | from `RetryInvariant` |
| | `ContractKept`: `ImplementsContract` | every backend | each step is one of the contract or a stutter, from `RetryInvariant` |
| `MemoryProofs` | `ChoicesAreCurrent`: `ChoiceIsCurrent` | memory | from `MemoryInvariant` |
| | `CooldownsLast`: `OnlySuccessEndsCooldown` | memory | from `MemoryInvariant`, `RowsConsistent` |
| | `FailoversFollowErrors`: `ErrorsMatchFailovers` | memory | from `Paired` |
| | `MetricsTellTheRows`: `MetricsFollowRows` | memory, while `edits = 0` | from `Unedited` |
| | `RowsFollowDefinitions`: `RowsMatchDefinitions` | memory | from `DefinitionsMatch` |
| | `RotationStaysEven`: `EvenRotation` | memory, round robin, while `edits = 0` | from `Rotated` |
| | `UpdatesLostNeverInvented`: `NeverOvercounts` | `WritesReturn` | from `NothingInvented` |
| `RateLimiterProofs` | `TypeCorrect`: `TypeOK` | | inductive |
| | `DequeNeverOutgrows`: `DequeBounded` | `Late = 1` | from `LimiterInvariant` |
| | `WindowKept`: `ImplementsWindow` | `Late = 1` | from `LimiterInvariant` |
| `AsyncClientProofs` | `TypeCorrect`: `TypeOK` | | from `ClientInvariant` |
| | `ReadyBeforeServing`: `ServedWhenReady` | | from `ClientInvariant` |
| | `LeaksAccounted`: `OnlyOvertakenLeak` | | from `ClientInvariant` |
| | `SetUpOnce`: `OneSetUp` | | from `ClientInvariant` |
| `SyncClientProofs` | `TypeCorrect`: `TypeOK` | | inductive with `HandlesSound` |
| | `NothingStartsLate`: `NothingStartsAfterClose` | | with `AcloseFirst` |
| | `OneCloseIsSafe`: `DiesOnlyOfTwoCloses` | | with `StopsCounted` |
| `DeploymentProofs` | `TypeCorrect`: `TypeOK` | | from `WellTyped` |
| | `RowsThere`: `ServersHaveRows` | | from `RowsInvariant` |
| | `UsesSurvive`: `UsedRowsStay` | | from `RowsInvariant` |
| | `NamesStay`: `AddingRenamesNothing` | | from `NamesInvariant` |
| `NodeClientProofs` | `TypeCorrect`: `TypeOK` | | inductive, with the order of the times |
| | `WindowKept`: `ImplementsWindow` | | each step is one of the window or a stutter |
| | `ContractKept`: `ImplementsContract` | | from `NodeInvariant` |

The hypotheses are where the code differs, not conveniences of the proof. On SQLite and Redis rows are
written that were read before: `OnlySuccessEndsCooldown` is false there (run `lost_cooldown`), and the other
properties of the in-memory store are not claimed. An edit of the pool gives a key a fresh row and leaves
its metrics and the rotation as they are, so `MetricsFollowRows` and `EvenRotation` end with the first edit; the
run `memory` has none. `WritesReturn` is the in-memory store, or a store that neither fails nor is
cancelled: a write that raises and has happened is in the row and not in the metrics. `Late = 1` says that
a sleep ends after its deadline.

*Rows.* `RowsTyped` and `RowsStayConsistent` say that each change of a row makes a typed and
consistent row of one; they rest on lemmas that give the changed row field by field. In the induction
the row about to be written counts as a row (`Rows`), since it was computed from a row that was in
the store at the time. Every step moves rows, drops them or adds a fresh or changed one
(`SoundRowsKept`), and the clock does not go back (`ClockForward`).

*Retries and the contract.* Neither `RetryBudget` nor `AttemptsAccounted` is inductive. The first needs
that a request sleeps only after the policy has decided to retry; the second needs the size of the
excluded set at every step of the loop, before the key is chosen too, and that the set is finite and
empty at the start. `LoopInvariant` says this of one request, and the proof has two halves: a step of
another request changes nothing of it (`OthersUndisturbed`), and the request's own steps keep it. The
guard of the contract's `Send`, that fewer keys have failed than attempts are allowed, is then a matter of
cardinalities. `NodeClientProofs` repeats the argument for the loop in JavaScript.

*The in-memory store.* `Alone` says that at most one request is between two of its store calls, and no edit
while one is; `Current` says what that request has in hand: its listing is what the store holds, and
the row it is about to write is made of the row that is there. `MemoryInvariant` is both. Then a write is an
update of the row as it is (`WriteCounts`), and what it adds is known. `Paired` says that the errors of a
key are ahead of its failovers by the one request that owes it one; `DefinitionsMatch` what an edit in
progress has still to do to the store; `Rotated` that the keys in front of the index have been given to one
request more than those behind it, that is, how often each key was given as a function of
`rr_index % Len(InitialKeys)`. Before the first failure nothing is excluded (`Unfailed`) and nothing cools down, so
that all keys are candidates (`AllCandidates`) and the choice is the one at the index (`ChoiceAtIndex`).

*Lost updates.* `NothingInvented` bounds by the metrics every row that exists anywhere: those in the store,
those in a listing do not matter, and those computed and not yet written, which may count one more than
happened as long as their request has not written them.

*The limiters.* `SleepsLongEnough` says that a sleeper's deadline is when the oldest call in the deque leaves
the window, or later; as long as it sleeps it holds the lock, so the deque only ages. With `Late = 1` it wakes to find
that call expired, which is why the test it does not make again would succeed. A step of the limiter is a
step of the window because what is older than a second is a prefix: `SharedLemmas` has the lemmas on ordered ages,
on how many of them are expired, and on what is left (`ExpiredExists`, `RestIs`, `AgeingForgets`). Node's
limiter has no lock and prunes by a filter, which is the same prefix (`Filtering`).

*The asynchronous client.* `ClientInvariant` says who may have opened what is open. Once `aclose` has begun, only those
go on that it found setting up or serving (`OvertakenCounted`); a connection belongs to a set-up under way, a failed one
or the pool (`RedisCounted`); and what is open has still to be closed, could not be, or is of such a caller (`OpenCounted`).

*The synchronous client.* The queue of the loop holds at most one callback of a thread, it fits the state
of the thread's task, and a thread that has not submitted has neither (`HandlesSound`), however late it submits.
`AcloseFirst` ties a `close` that has got its answer to an `aclose`
that ran. `StopsCounted` counts the stops in the queue: each is one `close`'s, so a drain that is interrupted
takes a second one.

*The deployment.* `Torn` files are files of named entries (`TornAre`), so nothing a server reads breaks its types.
`Sound` says of a server that initializes that each of its keys has a row or is still on its list,
and that it sets only rows that were not there when it looked. `NamesInvariant` says that every file that complete edits
have led to is the first one with additions behind it (`Grown`), of which each name has one of its `Owners`; and that
rows and servers go by these, as long as nothing has `strayed`.

*Induction over data.* No theorem needs the induction theorems of the library, which take an operator. Where
a fact is about every prefix of a sequence, the proof takes the least index at which it fails, or the greatest
up to which it holds (`Least`, `Climb`, `Greatest`, from the well-ordering of the naturals). For
the proofs' sake recursion is written as recursive functions (`Recent` in `NodeClient`,
`Others` in `Deployment`) and `SlidingWindow`'s `Tick` says which calls stay rather than how they are found.

Assumptions: the constants' types (`EngineAssumption`, `StrategyAssumption`, `CooldownAssumption` and those of
the other modules), and that `None` is none of the values it stands beside (`NoneAssumption`,
`NoneIsNothing`). `EngineAssumption` has `InitialKeys` without repetitions, since `KeyPool` keeps its definitions in
a dict. The runs evaluate them all.

Only model-checked: `EveryRequestEnds`, `EveryCallReturns`, `EveryCallEnds`, `UnfinishedCallsAnswered` and `CloseEnds`, which are liveness and beyond the prover. On `random`, `least_used` and
`quota_failover` the theorems say what they say of any strategy that returns a candidate.

## Not modelled

* Headers, URLs, bodies and wording; `requests_total` and the latency histogram; the length of the
  back-off.
* The HTTP routes and the thin SDKs, which keep no state.
* The environment's overrides other than `POOLSWITCH_UPSTREAM_BASE_URL` and `POOLSWITCH_KEYS`: one of the storage
  settings moves a process to another store. Settings that only pass through `config.py`.
* The synchronous client's constructor where it fails, and threads that call it again after a call has
  returned.
* In Node: the counts of a key's state, the strategies and the classifier's conditions. A strategy may
  return any candidate, a response be anything.
* Of a row, in `Deployment`, all but whose use it accounts for.

## Plan

In this order, the behaviour that matters most first. 1 to 12 are done.

1. `KeyState`, `Classify`, `Strategies`, `RequestEngine` with their properties: the core.
2. `RateLimiter` as a refinement of `SlidingWindow`.
3. Types, rows, lock and retry loop proved.
4. `RequestContract`, and the engine shown by TLC to implement it.
5. `AsyncClient` and `SyncClient`: set-up, threads, close.
6. `NodeClient`: the JavaScript loop with its aborts and its limiter.
7. `Deployment`: several processes over one store and one configuration file.
8. One run per component, the questions about the engine gathered by backend.
9. The engine and the client for Node implement `RequestContract`, step by step.
10. The limiters implement `SlidingWindow`, and the bound of the deque.
11. The clients and the deployment: types and safety.
12. The in-memory store: choices, cooldowns, failovers, metrics, rows, rotation; lost updates on any store.
13. Lemmas on the strategies: `least_used` and `quota_failover` return a candidate whenever there is one, so
    that a request is never refused while a key is healthy.
14. What `NeverOvercounts` can say where a write may fail and have happened.
