# Verification of thewriterco-auth-go

TLA+ models of the server in `cmd/server`, checked with TLC on small instances and, where it matters most, proved
with TLAPS for every instance. `PROJECT.json` maps every definition to the lines of code it stands for.

## The system

The server answers three questions with the help of Google Gemini (`/v1/ask`, `/v1/find`, `/v1/genealogy`). Every
request is a goroutine. It passes a rate limiter that keeps its tables per client address, then a chain of
middleware, then a handler that leases one of a few Gemini API keys from a pool, talks to the model, and returns
the key.

| Component | State | Operations | Hard part | Correct when |
|---|---|---|---|---|
| API key pool (`pkg/pool`) | buffered channel of keys, `sync.Once` | hydrate, `Queue`, `QueuedEVS`, cleanup | concurrent leases, panics between lease and return, `os.Exit` in a request, a send that may block | a key is with one owner, none is lost, returning never waits |
| Gemini session (`pkg/transformer/gemi`) | per request: tries, accumulated errors | `ExponentiallyValidateSend`, `SendInput`, `SendString` | retry in retry, panic on an answer without candidates | retries are bounded, each failure is reported to the model once |
| Gemini handlers (`internal/gemini/api.go`) | none of their own | `handleAsk`, `handleDataRequest` | no deadline on model calls | every request ends or waits in one model call |
| Conversation codec, response validation (`internal/gemini/utils.go`) | none | decode, history, validate, stray HTML | boundary: empty conversation; JSON or HTML | what is validated is what is sent |
| Parameters and instructions (`pkg/transformer`) | one global `genai.Content` shared by all models | `Parameters`, `GetProgramming` | written while other models use it | no session sends older instructions than it was queued under |
| Rate limiter (`internal/middleware`) | table of blocked addresses, table of visitors with their token bucket | middleware, `GetLimiter`, sweeper | three critical sections per request, two unlocked accesses, time read before it is used, eviction | blocks last as long as they should, one bucket per address, what is refused is not handled |
| Start and shutdown (`cmd/server`) | process phase | `main`, `buildHandler`, graceful shutdown, keep-alive | exit in the middle of requests, failed start, `main` racing the goroutine that drains | the pool is full before the first request; a stop is in order and comes to an end |
| Handler chain (`buildHandler`, ozzo-routing) | position in the chain, response | `c.Next()`, `c.Abort()` | nested loops share one index; errors and panics unwind some of them | what was refused or has failed goes no further, every call gets one answer |
| Error handler (`internal/errors`) | none | recovery, status mapping | the place where a panic ends decides what is cleaned up; it hides the error from the loop around it | every panic behind it is answered, once |
| Access log (`pkg/accesslog`) | status of the wrapped response | handler | errors, panics and aborts behind it | one line per call, with the status that was sent |
| Authentication (`internal/auth`) | none (tokens carry their expiry) | login, verification | a failed verification must stop the chain; verification is not wired | nobody writes without a token |
| Albums, database context (`internal/album`, `pkg/dbcontext`) | rows, transactions | CRUD, `Transactional` | read, modify, write in separate statements, with or without a transaction; answer before commit; not wired in `main` | the table is an album table, answers are facts, errors leave nothing |
| Pagination (`pkg/pagination`) | none | `New`, `Offset`, `BuildLinks` | boundaries, overflow | pages partition the items, links lead to the neighbours |
| Configuration (`internal/config`) | none | `Load` | order of defaults, file and environment | the last layer that sets a value wins |
| Logger, health check, test support | none | output | - | - |

Interactions: the limiter calls the rest of the chain with `c.Next()`; the error handler is behind the limiter, and
recovers what the Gemini handlers panic with; `buildHandler` fills the pool before it registers the routes; all
requests share the pool, the limiter's tables and the instruction content; any request can end the process, because
`GetProgramming` calls `os.Exit`. The album endpoints share the database, list through pagination, and find their
transaction in the request context, where a middleware further out has put it.

## Modules

| Module | What it is |
|---|---|
| `KeyLease` | what the pool promises: a key is free, leased to one request, or lost |
| `KeyPool` | the pool, the sessions and the handlers, with start, exit and restart of the process |
| `MCKeyPool` | instances of it for TLC |
| `KeyPoolProofs` | theorems about it |
| `TokenBucket` | what the limiter promises: one bucket per address as long as the process lives, and no admission without payment |
| `RateLimiter` | the middleware, `GetLimiter`, the sweeper and time |
| `MCRateLimiter` | instances of it for TLC |
| `RateLimiterProofs` | theorems about it |
| `RateWindow` | `RateLimiter` and an observer, who counts what an address gets in a window of time |
| `MCRateWindow` | an instance of it for TLC |
| `RateWindowProofs` | a theorem about it |
| `Pipeline` | one call on its way through the chain of handlers and back |
| `PipelineProofs` | theorems about it |
| `Lifecycle` | configuration, start, graceful shutdown and end of the process |
| `LifecycleProofs` | theorems about it |
| `AlbumTable` | what the album endpoints promise: an album appears once, changes while it is there, and stays away once deleted |
| `Albums` | concurrent requests to the endpoints, statement by statement, with and without transactions |
| `AlbumsProofs` | theorems about it |
| `Pagination` | `pages.go` as operators; `Albums` uses them for its lists |
| `PaginationProofs` | lemmas about what they compute |
| `Browsing` | a client that asks for pages and follows links while the table changes |
| `BrowsingProofs` | theorems about it |
| `MCPipeline`, `MCLifecycle`, `MCAlbums`, `MCBrowsing` | instances for TLC |

Operators named after another one with a suffix and introduced as "Mutant of" are the same piece of code with a
plausible bug. No next-state relation uses them; each property is known to notice one of them.

### KeyPool and the code

`boot`, `once` and `channel` are the process phase, `Instance.once` and `Instance.Channel`; the other variables are
the program counter and the local variables of each request goroutine, which is identified by the slot it occupies.
`file` is the version of `instructions.txt`, `content` the version in the `genai.Content` all models share, and `text` what
a request has read and not yet stored there. `lost`, `sends` and `since` are history. An `/ask` is in this order:

| `pc` | Where | Actions |
|---|---|---|
| `queue` | loop of `QueuedEVS`, receive of `Queue` | `QueueKey`, `QueueEmpty`, `GiveUp` |
| `program` | `GetProgramming` reads the file | `Program`, `ProgramFails` |
| `store` | the write of the shared content, without a lock | `Store` |
| `client` | `gemi.Model` | `ClientReady`, `ClientFails` (returns the key itself) |
| `send` | the model call | `AnswerValid`, `AnswerRejected`, `AskPanics`, `FindPanics`, `Exhausted` |
| `backoff` | `time.Sleep(time.Second << i)` | `Backoff` |
| `retry` | `cleanup()` after a failed session | `ReleaseAndRetry` |
| `done` | `cleanup()` after the last session | `Release` |

A `/find` or `/genealogy` skips the retries. `cleanup` is deferred there, so its panic passes through `done`;
`QueuedEVS` calls it in sequence, so the panic of an `/ask` skips it. A send or receive on the channel is one step, as
it is in Go. The process may end at every step (`Killed`, `ProgramFails`); the next one starts from the environment, and from the
content's placeholder, but with the file as it is (`EditFile` may have changed it).
The keys of the pool are numbered by their place in the environment variable. A request that is refused before it
asks for a key (unreadable body, empty conversation) is left out, because it changes no shared state.

Between its `program` and its `store` a request may be overtaken, so a goroutine that read an older file can replace the
text of a session that read a newer one, even between two tries of that session. The write races with the reads of
`send`, which have no step of their own: what matters about them is the value of `content` while the request is there. All
slices written have one element, so a reader gets the old or the new one; the further delays that the Go memory model
allows a racing read are not modelled.

### RateLimiter and the code

`blocked`, `visitor` and `lastSeen` are the two maps; `limiters` has one entry per `rate.Limiter` ever made, since a
request may keep one that the table has dropped. An entry is the time at which the bucket is full again, which is how
a bucket that refills linearly can be written in integers (a token is `Period` units, one unit per tick). Every
critical section is one action, and so is every access outside one:

| `pc` | Code | Actions |
|---|---|---|
| `idle` | the read lock; `now` is read once here | `Arrive` |
| `reinstate` | block in force: write it again, answer 429 | `Reinstate` |
| `overflow` | `len(rl.blockedVisitors)` without the lock | `CheckOverflow` |
| `mark` | the write of the map without the lock | `Mark`, `MapFault` |
| `limiter` | the critical section of `GetLimiter` | `StillBlocked`, `KnownVisitor`, `NewVisitor` |
| `allow` | `limiter.Allow()`, without the lock | `Allow`, `Exceeded` |
| `refuse` | write the block with the early `now`, answer 429, abort | `Refuse` |
| `next` | the handlers behind the middleware | `Handled` |

`MapFault` is what the Go runtime does about a write without the lock that meets another access: it ends the
process, and the next one starts with empty tables. The same situation may also go well (`Mark`). `Sweep` happens
exactly when its sleep is over, and `Tick` does not pass that moment, nor does it let a request spend more than
`MaxLatency` ticks inside the middleware, which makes no call that could take longer. Requests may stay for any time
in `next`.

`RateWindow` adds an observer to these steps. It opens a window at any moment and from then on counts `Allow` per address
(`admissions`); the window closes with the process, whose successor has new buckets. What a reinstated block lets run
on (finding 2) is not counted: the limiter never allowed it.

### Pipeline and the code

The handlers of a route are one sequence, `Chain`: the five of `router.Use` and those of the route. ozzo-routing calls
them in a loop over `c.index`; a middleware that calls `c.Next()` is inside a loop of its own over the same index.
`index` is that index, `inside` the set of middlewares that wait for their loop, `result` what unwinds them.

| Code | Actions |
|---|---|
| `RateLimitMiddleware` | `Allow`, `Refuse` (aborts), `Reinstate` (does not), `LimiterReturns` |
| `accesslog.Handler` | `WrapResponse`, `Log` |
| `errors.Handler` | `EnterErrors`, `HandleError`, `NoError`; `buildErrorResponse` is `Status` |
| content negotiation, CORS, `auth.Handler` | `Pass`, `Preflight`, `NotAuthenticated` |
| routes | `HandleAsk`, `Answer`, `Fails`, `Panics`, `MethodNotAllowed` |
| the loop of the router | `LoopNext`, `Finish` |

Every write may break off (`complete`), and after a broken write no later one is complete. `HandleAsk` has the
outcomes of `DecodeConversation`, the empty conversation that panics, and the texts that `ValidateResponseSchema`
lets through, with `StrayHTMLToResponseSchema` behind it; `reply` is the text it was answered with, or `NoText`. `healthcheck`, `login` and the album routes differ by the
errors they return (`Errors`). The album routes are registered as `album.RegisterHandlers` would if `main.go` did not
have the call commented out; the router knows nothing about which call it serves, so one call is enough.

### Lifecycle and the code

`main` follows `main()`, `notifier` the goroutine of `routing.GracefulShutdown`, `calls` the goroutines of
`http.Server`. `Load` reads the two layers over the defaults, `Over` being what the YAML decoder and the environment
loader do: a setting that is not mentioned keeps its value. `Shutdown` lets `ListenAndServe` return
(`ServeReturns`), whether or not calls are active, and `ShutdownReturns` is when it has drained them or its 10 seconds
are over; nothing in `main` waits for it. A signal that comes before `signal.Notify` kills the process. A port that is
`Empty` is a number that cannot be parsed. `ListenAndServe` returns another error if the address cannot be listened at
(`ListenFails`, stage `bind`) or if `Accept` fails for good while calls are served (`ServeFails`); `main` then is at
`failed` until `MainFails` exits with -1 and cuts the calls that are active. `broken` remembers it.

### Albums and the code

A statement is an action: `Get`, `Insert`, `Reread`, `Write`, `Confirm`, `Delete`, `Count`, `Query`. What is between
two statements is local to the request, and other requests run in between. `With` is `DB.With`: a write goes into
the transaction of the request if the route is behind `TransactionHandler` (`InTx`), and into the table otherwise. The
database is PostgreSQL at its default level: statements read what is committed and what their own transaction
wrote (`View`), a write waits for the transaction that holds the row (`Locked`) and then looks again. `Commit` comes
after the answer, as in `TransactionHandler`; `CommitFails` is the database refusing. `StatementFails` ends a request
at any statement with an error. Instead of a name a row carries the request that wrote it.

### Pagination, Browsing and the code

The operators have the names of the functions. Arithmetic that Go does on `int` goes through `Wrap`; a link is the
query it carries, with the page size left out when the code leaves it out. `LinkDefault` is the `defaultPerPage` of
`BuildLinks`: the size that `NewFromRequest` assumes of a link that names none, so it has to be `DefaultPageSize`. (The
unit tests pass 10 to `BuildLinks` alone; with such a value the links of a listing of 10 per page would lead to pages
of 100. Nothing but the tests calls `BuildLinks`.) `Browsing` keeps the answer a client holds, and lets it ask
anything, follow a link, or see the table change.

## Runs

| Run | Shows |
|---|---|
| `keypool` | `KeyConservation`, `ReturnNeverBlocks`, `RetryBudget`, `InstructionsFresh`, that `KeyPool` implements `KeyLease` (`LeaseSpec`), and `EndsOrHangs`: a request ends, or waits for ever in one call to Gemini |
| `keypool_key_lost` | finding: a panic of an `/ask` loses its key, against "Always return key" in `Queue` |
| `limiter_safety` | `BlockEndsInTime`, `Lockout`, `OneBucketPerVisitor`, and that `RateLimiter` implements `TokenBucket` (`BucketSpec`) |
| `limiter_window` | `RateBounded`: in any window of time an address gets `Burst` requests through the limiter, and one more per `Period` |
| `limiter_refused_handled` | finding: a reinstated block is answered 429 without `c.Abort()`, and the request is handled all the same |
| `limiter_retry_after` | finding: a client that waits longer than the `retry-after` it was told is refused and blocked again |
| `pipeline` | `WritesAuthenticated`, `NothingEscapes`, `LoggedOnce`, `LoggedIsSent`, `OneBody`, `AnswersFitSchema` |
| `lifecycle` | `ServesConfigured`, `ExitStatus`, and `StopsWhenAsked`: no call can keep a process from stopping |
| `lifecycle_not_graceful` | finding: calls that are active at a signal are cut off, against "graceful shutdown" in `main.go` |
| `albums` | `FailedLeavesNothing`, `AnsweredIsStored`, `ReadsCommitted`, `SteadyPage`, `AllEnd`, and that `Albums` implements `AlbumTable` (`TableSpec`) |
| `albums_gone` | finding: an update whose album has gone in between succeeds |
| `browsing` | `ReadsItsPage`, `PagesPartition`, `LinksTile` |

`InstructionsFresh` says what the code does guarantee of the content all sessions share: an overtaking store may bring back
an older text, but none older than the file was when the request took its key, or another one that was in `Queue`
together with it took its own. That every session sends the text it read itself is false, as the model shows.

`ExitStatus` says what a supervisor can conclude from the status. -1 is what a failed start, a failed listener and a call
that could not read `instructions.txt` have in common, so it does not tell them apart; `broken` and the cut calls are
what the model knows beyond the status. With status 0 it was asked to stop and the listener worked, though calls may
have been cut (finding 5).

Bounds of the pool: two `/ask` and one `/find` on two keys, three attempts and two sends per key, the values of
`handleAsk`. Two keys let the channel run empty, refill and change the order of its keys; three requests let one
fail while another holds and a third returns, and once a key is lost or its call hangs, two compete for the other.
The file is edited once (`MaxVersions` is 2), so that an old and a new text can meet. The
run has fairness for `EndsOrHangs`, and therefore uses no symmetry.

Bounds of the limiter: two addresses and two requests, so that two requests of one address meet, and so do a request
and a foreign eviction. With one token per tick, two tokens, blocks of two ticks, a sweep every two and eviction after
three (`Burst * Period + MaxLatency`, the least the assumptions allow), all thresholds lie within a few ticks of each
other. `MaxBlocked` is 1, so that two blocked addresses reach the overflow path. `MaxClock` cuts the behaviours off
at 14 ticks, but only ages matter to the guards and the properties, so the view `Ages` identifies states that differ
in their dates alone, or in ages beyond every constant; under it nothing new appears after tick 10. `TypeOK` is the one property that looks
at dates, and it is proved for every `MaxClock`. The runs with a finding use ticks of 5
seconds and the real constants: a token per 2 ticks, blocks of 3, a sweep every 3, eviction after 36.
The window is looked at with one address, since other addresses share nothing with it but the overflow path, and with a
`MaxBlocked` of 0, so that its own block takes it there. A token takes two ticks, so that windows end between two tokens, and
14 ticks hold several rounds of being blocked, swept, forgotten (after 5 ticks) and seen again.
`CHECK_DEADLOCK` is on everywhere: in the pool the process can always be killed, in the limiter a request can always
arrive, and the other modules say in an action of their own when they are at their end.

Bounds of the others: `Pipeline` has none, and its 892 states are all there are. `Lifecycle` has two calls, so that one is
cut off while another is answered, and two values per setting, so that file and environment may disagree. `Albums` has two
albums, two requests without and one with a transaction; each request takes any of the five operations, so all
pairs meet on one row, also while a third holds it. Lists ask for page 1 or 2 with one album each (`ListQueries`), so two albums are two pages, and page 2 may be there at the
count and gone at the query. The number of ids is at most `MaxTotal`, what an int of `Pagination` can count. `Browsing` has ints of five bits, up to 9
rows and pages up to 4: every int of that width is asked for as page and as size, so that products wrap, and the number of
rows is a multiple of the size, one more and one less.

Fairness: `FairSpec` has weak fairness of the steps a request takes by itself, per request, because the Go scheduler
runs every goroutine that can run, and none of `Answer`, because the calls to Gemini have the context
`context.Background()` and no deadline. Fairness is neither assumed of the start of the process nor of clients, nor of `EditFile`. In `Albums`
it is weak fairness of each request's next statement, which the scheduler and a database that answers give; a
statement that waits for a row is not enabled, so the row must really be released. That statements fail is not
counted on. In `Lifecycle` it is weak fairness of `main` and of the goroutine of `GracefulShutdown`, and none of calls and of
`ServeFails`: a call to Gemini may never end, and the process stops all the same.

## Findings

1. `pkg/pool/pool.go:82`: `cleanup()` is not deferred. `SendInput` indexes `resp.Candidates[0]` of an answer that may
   have none; the panic is recovered by the error handler, and the key is gone until the process restarts. With as
   many such answers as keys, every request fails with "no API keys available".
2. `internal/middleware/middleware.go:30`: the reinstating branch returns nil without `c.Abort()`; the router goes on
   with the next handler.
3. `internal/middleware/limiter.go:46`: a block counts until it is swept, which is up to 15 seconds after the
   `retry-after` of 15 seconds, and each refusal in between starts it again. (The text of the same answers says 30
   seconds, and `BlockEndsInTime` shows that a client that stays away for longer than that is free.)
4. `internal/album/repository.go:53` and `:62`: neither looks at the number of rows it has changed. A request whose album
   is deleted between its read and its write answers 200 with an album that was not saved, or not deleted by it. The table
   itself stays right (`TableSpec`).
5. `cmd/server/main.go:100`: `ListenAndServe` returns as soon as `Shutdown` begins; `main` returns and ends the process, and
   with it all calls, without waiting for `GracefulShutdown`. The 10 seconds never begin to count.

Met on the way, and no run's subject: `config.go:18` says the port defaults to 8080, as does line 57 of the
repository's `README.md`, and the constant is 3001. A call that a
reinstated block has answered (finding 2) is logged with the status of the handler behind it, which was not sent; that
is why `LoggedIsSent` leaves such calls out. Calls that the limiter refuses are not logged, because the access log is
behind it. An answer to a request in a transaction is sent before the commit, so `AnsweredIsStored` can only be stated
for requests outside.

## Proofs

All theorems hold for every number of keys, addresses, requests and tries and for all durations, from the named
assumptions of the modules alone. TLC evaluates these assumptions in the runs.

`KeyPoolProofs`. The type invariant is strengthened by `PcOK`: where a request is decides whether it holds a key, and
bounds its loop counters (`attempt` could leave its type if `Queue` were called after the loop). `KeysConserved` needs
`PoolInv`, which adds to it the phase of the process (`BootOK`: before hydration there are no keys and no requests,
after it every key is somewhere). Only three operations move keys (taking the head of the channel, putting one back,
losing one), each with a lemma, and every other action is shown to move none. `ReturnsNeverBlock` is a counting
argument on top: if a request holds a key, that key is not in the channel, the channel has no duplicates, so it has
fewer elements than there are keys. `RetriesBounded` uses an invariant that relates sends to `MaxTries * attempt + try`
and shows that it grows in step. `InstructionsStayFresh` uses
`PromptOK`: no version is newer than the file, a text that waits to be stored is at least as new as the file was at its
reader's `QueueKey`, and the content is at least as new as the `since` of every session, which is no newer than that of any request
still in `Queue`. For a session that goes to `client` this holds because `since` becomes the oldest of all then in `Queue`. `PoolImplementsLease` maps the channel and the goroutines to `KeyLease` and shows
that every step is a `Take`, `GiveBack`, `Lose`, `Restart` or a stutter; only an `/ask` can `Lose`.

`RateLimiterProofs`. `BlocksEnd` and `RefusedStaysOut` follow from `BlockInv`: the sweeper is on time, the time a
request goes on with is at most `MaxLatency` old, no block survives the sweep that follows its duration, and a recent
429 has an entry that is at most `MaxLatency` older. The last part is what makes stale writes harmless: a slow
request can move the time of a block back, but never by more than its latency, which is why `Lockout` is stated less
`MaxLatency`; it would be false without. `BucketsShared` adds that a visitor with a request in flight was seen within
the latency and is therefore not evicted, which needs `IdleAssumption`. `LimiterImplementsBucket` further needs that
the buckets of an address that has not been seen for `IdleTimeout` are full (`FillOK`); then dropping a visitor changes
nothing an address could notice. It assumes what the constants of the code satisfy with a wide margin: two tokens of
10 seconds and the latency are less than three minutes.

`RateWindowProofs`. `RateLimited` is the promise of the limiter in the terms of its configuration. The invariant (`Paid`) is an
account: what was taken since the window was opened, `admissions * Period`, and what is in the bucket now are together no
more than a full bucket and one unit per tick since. It needs every step's effect on the level of a bucket, which are
lemmas of `RateLimiterProofs` (`LevelOpen`, `LevelTake`, `LevelForget`, `LevelTick`), shared with the refinement; `LevelForget`
is where the assumption on eviction is needed, without which an address could earn a full bucket by coming and going.
`PaidBounds` divides by `Period`.

`AlbumsProofs`. The invariant says of every request what its place in the code has established (`RequestOK`: `Placed`, that
only a request that has written has a change pending; `Founded`, that the row it writes is there, or free if it creates
one; `Effected`, what an answer means), and of the table that a row has one holder (`OneHolder`), that names in it are
stored (`Rows`) and that no two creations share an id (`Creators`). The step of one request is shown to leave the others'
parts alone (`Undisturbed`, `OthersStored`), and `OneStep` puts this together, so that each action has to show its own
request's part only. `AlbumsImplementTable` maps a statement outside a transaction, or a commit, to one change of
the table, and everything else to a stutter; a row that was deleted under an update is why `Write` must find nothing. `PagesSteady` needs another invariant, that the page of every
list is one `New` makes of a count (`PagesOK`), and a counting argument instead of an induction: the place of an album in
`ORDER BY id` is one more than the number of smaller ids, so places are an injection from the albums into `1 .. n`, hence
a bijection (`RankOK`), and the albums up to place `k` are `k` (`UpTo`). With the offset known to be less than the count, the
page is a run of places, and what is before it fills the earlier pages (`PageShown`).

`PipelineProofs`. The properties speak of the end of a call (`phase = "done"`) or of a set of handlers that ran, so the
invariant has to say what holds on the way. `Loops` ties the set of open `c.Next()` loops to the shared `index` and to who
ran: the error handler is left only with the chain at its end and with no error, which gives `NothingEscapes`. `Answers` says
what was written at which point: nothing (or a reinstated block's 429) as long as an error may still have to be answered,
one body after that. `Logs` keeps the status of the wrapped response equal to what was sent, and one line exactly after the
access log was left. `Guarded` is what makes the hidden error of `auth.Handler` harmless: behind it, with no error
unwinding, the client is authenticated. No part is inductive without the others, because whether a handler still runs depends
on the index, and that depends on who aborted after writing what. `Pipeline` has no constants, so here the theorems say no
more than the run does; they say why.

`PaginationProofs` and `BrowsingProofs`. Ints have any width that leaves room for a table and a page more (`SizesAssumption`). The arithmetic is
nonlinear, so the facts about products and quotients are lemmas of their own; from them follow that the offset of a counted
page is at most the total, hence `Wrap` changes nothing, that page `(i - 1) \div n + 1` is the one that holds row `i`, and
where the links of a page lead.

`LifecycleProofs`. `ServesConfigured` needs that the configuration is loaded exactly when `main` has left `load`, and
`ExitStatus` that the notifier is off until the handlers are built, that a call that is active or cut arrived while the server
served, that `main` closes only after a signal and with a listener that worked, and that `broken` holds from `failed` on.

Only checked by TLC: `EndsOrHangs`, `AllEnd` and `StopsWhenAsked`, since liveness under fairness is out of the prover's
reach, and the findings, which are counterexamples. Every other property of a passing run is also a theorem.

## Not modelled

The client address (`X-Forwarded-For` or the remote address) is an input of the limiter, and the time a model call or a
back-off takes has no part in `KeyPool`. Codecs, prompts, log lines, texts of responses and the numeric parameters of the
models are data that no property tells apart. So are tokens: their signature and expiry are the jwt library's, and the
program keeps none. The keep-alive goroutine is a client of its own server; it has no state that anything else reads. The SQL
scripts and the test support are no part of the running server.

What could be added: `Server`, which composes `Pipeline` with `KeyPool` and `RateLimiter` to show
what a refused request that runs on costs the pool.
