# Bodhi Cast: models and proofs

TLA+ models of Bodhi Cast, a surf-forecast service: a Rust server that plans,
downloads and stores NOAA wave forecasts for the spots people follow, serves
them over HTTP, and a React client that shows them. The models are translated
from the source, TLC checks them on small instances, and TLAPS proves the most
important properties for every value of the constants.

Source paths below are relative to the repository. Most of the state that
matters lives in PostgreSQL; the hard behaviour comes from several processes
and many requests that share it.

## 1. Inventory

| Component | Source | State | Operations |
|---|---|---|---|
| Job queue | `server/src/db.rs` 214-314, `server/schema.sql` 35-48 | `bodhi.jobs` | enqueue, claim (two statements), finish, retry_failed, prune |
| Job runner | `server/src/worker.rs` 30-81 | the claimed `Job` in memory | claim, execute under a time limit, finish |
| Ingester leadership, life cycle | `server/src/worker.rs`, `server/src/main.rs` 109-187 | advisory lock 76249102, shutdown flag, watch channel, worker task, timers | start, stop, standby, lead, plan, ping, stand down |
| Planner | `server/src/noaa.rs` 215-309 | none of its own | plan: tiles, leads, keys |
| Forecast download and store | `server/src/noaa.rs` 37-97, 347-460, `server/src/db.rs` 180-196 | `bodhi.forecasts`, `last_nomads` | bytes, execute, decode, save_forecasts, forecasts |
| Station observations | `server/src/noaa.rs` 99-178, `server/src/db.rs` 198-212 | `bodhi.stations` | update_stations, stations |
| Spots and follows | `server/src/db.rs` 66-178, `server/src/accounts.rs` | `bodhi.spots`, `bodhi.user_follows` | set_watch, add_spot, import_spots, sign_in_account, set_personal_watch, add_personal_spot |
| Sign-in and sessions | `server/src/auth.rs`, `server/accounts-schema.sql` | `login_attempts`, `sessions`, two cookies, four permits | login, callback, session, authorize, logout, create_session |
| HTTP API | `server/src/api.rs` | none | one database call per handler |
| Pool, migration | `server/src/db.rs` 34-64 | five connections | get with a five-second wait, migrate |
| Web client | `web/src/App.tsx`, `api.ts`, `format.ts` | spots, filter and page, selection and address, rights and token, forecast, chosen day and time, stations, errors | load every 30 s, select, search, page, mutate, add, unlock, sign out, request with a time limit |
| Drawing | `web/src/Map.tsx`, `Wave.tsx`, `ocean.ts`, `swell.ts`, `style.css` | canvases, frames, observers, GPU objects; map | play, expand, redraw, createOcean, dispose |
| Deployment | `compose.yaml`, `deploy/`, `infra/`, `.github/` | none | restart policy, backups |

How they interact. `main` starts the web server and, unless `--no-worker`, one
worker task. The worker asks for the advisory lock; the one that gets it is the
leader and runs `leader_loop`: once a minute it plans (reads the followed spots,
enqueues jobs), once an hour it prunes, and in between it claims a job, executes
it (a download and one or more statements) and finishes it. Web handlers write
spots, follows and sessions; the planner reads them on its next round. Nothing
is passed in memory between handlers and worker. The client polls.

What is hard, and what makes each component correct:

* **Queue and runner.** A process may die between claim and finish, or stall and
  finish late; the claim is two statements; the limit of eight attempts is tested
  in two places; the operator and the prune change rows under everyone. Correct
  means: one executor per job while processes keep their time limits; a verdict
  is accepted only from the last claim; attempts are spent exactly; every job
  ends; a key is downloaded once.
* **Leadership.** The lock belongs to a database session, not to a process. Correct
  means: never two connected leaders; a leader without its lock stops soon; a
  worker that ends ends the service; a requested stop ends cleanly; some process
  leads again in the end.
* **Planner and stores.** The follow set changes between plan, claim and execute,
  and results of several runs are saved in any order. Correct means: every
  followed spot is planned for, and a reader sees the newest run for each time.
* **Follows.** Caps (20 follows, 100 custom spots) are counts followed by writes
  in transactions at READ COMMITTED. Correct means: the caps hold whatever the
  interleaving, and no duplicate spot is created by two requests.
* **Sign-in.** A login attempt is used once; sessions are capped; cookies are
  shared by the tabs of a browser.
* **Pool.** The leader keeps one of five connections. Correct means: no circular wait.
* **Client.** Answers arrive in any order, effects run after their rendering, and
  everything may fail or be aborted. Correct means: what is shown belongs to the
  selected spot and to the address; a change that an older answer undoes on the screen
  comes back; buttons are enabled again; an old outlook says that it is old.
* **Drawing.** A canvas gets a new ocean every thirty seconds, while frames, observers,
  the tab and the dialog come and go. Correct means: one frame at a time, an animation
  that goes on, and GPU objects that are given back.

`PROJECT.json` lists each of these hazards at its line.

## 2. Plan

| Order | Module | Subject | Status |
|---|---|---|---|
| 1 | `JobQueue` | the table and its statements | done |
| 2 | `TaskLedger` | what the queue promises, abstractly | done |
| 3 | `JobRunner`, `JobRunner_proofs`, `MCJobRunner` | processes over the queue | done |
| 4 | `Ingester`, `Ingester_proofs`, `MCIngester` | who leads, how a process starts and stops | done |
| 5 | `Follows`, `Follows_proofs`, `MCFollows` | follow transactions, one action per statement | done |
| 6 | `Explore`, `Explore_proofs`, `MCExplore` | list, selection and address of the web client | done |
| 7 | `Refresh`, `Refresh_proofs`, `MCRefresh` | loads, writes, rights and dialogs of the web client over a server | done |
| 8 | `Outlook`, `Ocean`, composed in `SpotPanel`, `MCSpotPanel` | the forecast of a spot from its rows to the screen, and the beach view in it | done |
| 9 | `SignIn`, `SignIn_proofs`, `MCSignIn` | login attempts, sessions, cookies of several tabs | done |
| 10 | `JobRunnerLedger_proofs` | the refinement `ImplementsLedger` as a theorem | done |
| 11 | `SpotPanel_proofs` | the properties of `Outlook`, `Ocean` and `SpotPanel` as theorems | done |
| 12 | `Stations`, `Pool` | partial station updates; connections and permits | later |

`JobRunner` extends `JobQueue` and instantiates `TaskLedger`; `SpotPanel` extends `Outlook`
and `Ocean`; the other modules stand on their own, because their components meet only in
the database or in an answer. No module declares a RECURSIVE operator. Runs: two
processes, spots, browsers or accounts, which is what each hazard needs; one run per
question.

## 3. The queue and its processes

**`JobQueue`.** One record per row of `bodhi.jobs`, named by its `dedupe_key`. Each
statement is in autocommit under READ COMMITTED and locks what it changes, so it is
one atomic update: `Insert`, `ReclaimExpired` and `ClaimRow` (the two statements of
`claim`), `FinishRow`, `RetryRows`, `PruneRows`. Timestamps are kept as distances
from `now()` (`wait`, `lease`, `age`), and `Elapse` moves them. `last_error` and the
payload are left out; `ORDER BY ... id` among equal rows is left open.

**`JobRunner`.** Any number of processes in the cycle `idle -> swept -> working ->
settling -> idle`, which are the awaits of `leader_loop` between which others run.
`Complete` and `Timeout` are the outcomes of `tokio::time::timeout`; `Crash` stands
for a kill and for every `?` that ends the worker. Any process may run the cycle:
leadership may fail (section 4), and the queue must be safe by itself. A key has a
planning window (`window`): a station bucket lasts ten minutes, a run's wave keys
some days at most, after which the planner does not produce the key again; the
assumption `PlanWindow <= Retention` is that this is within the four days of
retention. The history variable `creditor` is the process whose claim or verdict
stands last on a row.

**`TaskLedger`.** A task is posted once, handed to one holder at a time at most
`MaxTries` times, and ends done, dead or gone. `ImplementsLedger` maps the row's
status, its attempts and `creditor` to it.

| Run | Question and instance | Result |
|---|---|---|
| `runner_timely` | Two processes within their time limits, a station key and a wave key, two attempts, retries on: `OneExecutor`, `LeaseOutlivesWork`, `AttemptBudget`, `TypeOK` | holds |
| `runner_stalled` | The same processes may stall forever; no retries; fairness: `VerdictIsFenced`, `ImplementsLedger`, `JobsSettle` | holds |
| `runner_stalled_retry` | Stalls and retries together: `VerdictIsFenced` | **violated** |

The violation: `retry_failed` sets `attempts` to 0, so that the attempt number,
which `finish` uses to recognise the claim it belongs to, repeats. A process that
stalled through the failure of its job and the operator's retry can then settle
another process's claim.

Bounds. Times are small but keep the order that matters: a job's limit plus the slack
around it below the lease (`240 s + ... < 600 s`), a backoff that can exceed one
tick, a retention beyond the planning window. `wait` stops at `-MaxOverdue` and
`lease` at -1, where no statement distinguishes earlier times except in the order
among overdue rows; `age` stops past `Retention`. Two attempts show the first, the
last and the reset; two processes are an owner and a rival; two keys give priority
and order.

Fairness (`JobRunner!LiveSpec`). The clock runs, compose's `restart: unless-stopped`
starts a process again, a running process is scheduled and its statements return.
`Sweep` and `Take` are strongly fair: a process that is killed again and again now
and then gets as far as a claim. Nothing is assumed about `Complete` succeeding, and
nothing prevents a crash in every single execution: `JobsSettle` holds because the
sweep counts the attempts too.

## 4. Leadership and life cycle

**`Ingester`.** For each process: `main` (`serving` is the `select!` of `main.rs`,
`await_worker` and `await_server` what follows its branches), `signal` (how far the
shutdown future has come: received, flag stored, stop sent), `server`, `worker` (the
awaits of `run` and `leader_loop`), `session` (whether the connection `leader` lives)
and its timers. `lock` is the session that holds the advisory lock: a process, `Free`,
or `Stale` for a session whose process died and which PostgreSQL has not yet ended.
`LoseSession` drops a live leader's session and the lock with it. `LoopFails` is any
`?` of the loop, the prune's included. `run` unlocks over the dead connection and
returns an error then. Both branches of a `select!` may be ready: `StandbyRetries`,
and `WorkerFirst` next to `ServerFirst`. `Tick` happens only when nothing is due
(`MayWait`), except for processes whose calls hang (`Stall`), for which no time bound
is claimed. `TypeOK` says of the lock that it names only a process between
`pg_try_advisory_lock` and `pg_advisory_unlock`: no return in between may skip the latter.
`StopsCleanly` counts every `?` of the worker as a failure of the database's making, also
that of a `finish` whose lease is lost.

| Run | Question and instance | Result |
|---|---|---|
| `ingester` | Two processes; sessions die, calls hang, signals and crashes at any time: `OneConnectedLeader`, `LostLeaderStandsDown`, `StopsCleanly`, `TypeOK` | holds |
| `ingester_live` | As above without hanging calls, with fairness: `WorkerEndStopsService`, `IngestionResumes` | holds |
| `ingester_lost_session` | `SingleIngester`, the README's "keeps a single ingester active": two processes never execute jobs at once | **violated** |
| `ingester_spacing` | `DownloadsSpaced`, the README's ten seconds | **violated** |

The first violation: a leader executes a job and its session is lost; a second process
is granted the lock, passes its own `SELECT 1`, plans, claims and executes a job too.
The first works on, over other connections of the pool, until its next `SELECT 1`, up to
a planning interval and a job later; `LostLeaderStandsDown` says that it is never longer
than that. A process that leads without a job is not counted (`Ingesting`), because its
next act may be the `SELECT 1` that stops it. The queue is safe meanwhile (section 3).
The second: `last_nomads` lives in one process's memory.

Bounds. One unit of time is one tick; a planning interval and a job of one unit and a
stop limit of two keep `JobLimit < StopLimit` (240 s and 300 s). Two processes are a
leader and a standby. `Spacing` is 0 where no property is about it, because the
spacing only adds waiting; in `ingester_spacing` it is 2.

Fairness (`Ingester!LiveSpec`). Tasks are scheduled and timers fire; clients close
their connections when the server drains; the supervisor restarts a process; the
database notices that a client is gone. Nothing is assumed of signals, crashes and
failures: a process may crash forever, but `IngestionResumes` speaks of executions in
which one process stays up.

## 5. Spots and follows

**`Follows`.** `set_watch` and `add_spot` act on the installation: public spots, the
`watched` column, the advisory lock 76249101. `set_personal_watch` and
`add_personal_spot` act on an account: its own spots next to the public ones,
`user_follows`, the lock on the user's row. The pairs have one shape, so the model has
one owner per lock, with `Public` for the installation. A request is at most one
transaction, `tx[r]`:

| `at` | In the code | Leaves by |
|---|---|---|
| `idle` | no transaction | `Watch`, `Unwatch`, `Add`, `SignIn`: take the owner's lock |
| `locked` | lock held | `Lookup` (a spot by id), `SearchHits`, `SearchMisses` (a spot by name and place), `Seed`, `Return` |
| `found` | the row, or its absence, is known | `Count`, `Unfollow` |
| `roomy` | fewer than 20 others are followed | `CountOwn` for a new custom spot, else `Follow` |
| `granted` | fewer than 100 custom spots | `Follow` |
| `refused` | `FollowLimit` or `CustomSpotLimit` | `Abort` |
| `seeded` | a new user's row and follows inserted, not committed | `Join` |

Every read sees what is committed at that moment; other requests and imports run
between any two. Writes come last in each transaction and nobody sees them before the
commit, so `Follow`, `Unfollow` and `Join` are the write and the commit. `Abort`, in
any stage, is a failed statement, a lost connection or a crash. The lock of a sign-in
is the row that it inserts or updates. A spot's row is its owner and its form (name and
coordinates), the key of the two unique indexes; `PlaceOf` says which forms are one
place to `lower()` and `ST_DWithin(..., 1)`. For the model that relation is an
equivalence, though a distance need not be transitive. Spots are never deleted.
`import_spots` takes no lock and does not search; the forms it may bring are `Importable`.

The run `follows` checks `TypeOK`, `FollowLimit`, `CustomLimit`, `NoTwins`, `Isolation` and
`SeedIsWhole` with two requests of two accounts and three forms at two places (two
spellings of a pier, and a jetty that an import may bring): all hold.

Bounds. Two connections are the pair that races; a third waits for the same lock or
works for another owner. Both caps are 1, so each is met and refused: there are two places
for an account to add or follow, and two public spots to feature, which `SeedIsWhole`
needs. Two accounts are an owner and another. There are no other counters. Accounts and
requests are symmetric. `NoTwins` leaves out pairs with an importable form, because the
import searches for nothing and may put twins into the public catalogue.

## 6. The web client

React keeps apart the state that setters have made, the state of the last rendering, which
is what handlers and effects see, and the effects of a rendering, which run later but
before the next rendering or click. The models keep what a property can tell apart.

**`Explore`** is the list and the selected spot. `state` is what the setters made, `view`
the last rendering, `done` the dependencies of the effect at `App.tsx` 220 when it last
ran, `address` and `entries` the browser's location and history. `SelectCard`,
`SelectMarker`, `SelectAdded`, `PopState`, `ChooseMode`, `SearchSpots`, `PreviousPage` and
`NextPage` are the events, `CatalogArrives` is what `load` does with any list,
`Render` and `CorrectAddress` what React does then. `sync` says that the last update was an
event's, whose rendering and effects come before the next event.

**`Refresh`** is `load` in all its uses: the timer, Try again, behind a write of `mutate`
and of the dialog that adds a spot, and the capabilities of the unlock dialog. What the
server lists is a version number; a right is the write token or the session whose CSRF
token the page has. `Serve` is the server's read or write, `Deliver` the answer, `Fail` no
connection, an error or the time limit. A failed list request rejects the `Promise.all`
(`Forsake`): the rest of the load is not awaited, but its answers still arrive. `Rearm` is
the effect that a new token causes. `Leave` is the page that is opened anew after signing
in or out. A write that the client gave up and the server executes is a `ChangeElsewhere`.
What clicks ask for overlaps as the code lets it: Try again is never disabled, `busy`
disables only the buttons of `mutate`, and a dialog that is closed while it saves or unlocks
leaves its call on its way. Calls have names (`by`), by which a dialog knows its own
(`Reopened`) and `made` keeps what the write of each has made.

**`Outlook`** is the forecast of the selected spot from the rows of `bodhi.forecasts`, which
jobs save in any order (`Save`), through the query that picks a run for each time
(`Answer`) and `request()` with its abort and its time limit, to the point that is shown
(`Point`): the chosen day and time, the next time, or the first. `due` is the effect that
has still to run; `clock`, and `age` of what is kept, count seconds.

**`Ocean`** is `Wave.tsx`: two canvases (in the page, and in the dialog), each with an ocean,
the frames on their way, what the observer last said, and the effect that is due. `Renew`
is the cleanup and the effect, which `createOcean` may leave at three places; `gpu` counts
programs. **`SpotPanel`** composes the two: every step of `Outlook` that renders another
point object gives each shown canvas a new ocean, and a rendering without a point removes
them (`Nested`).

| Run | Question and instance | Result |
|---|---|---|
| `explore` | Two spots, one of them the default, one of them found by a search, one card to a page; any list, any clicks: `AddressNamesTheSpot`, `LinkedSpotStays`, `TypeOK` | holds |
| `refresh` | Five instances, chosen at the start: a follow and the save of a closed dialog that both change the list, beside each other; a follow beside signing out, and signing in; Try again beside a follow; Try again beside an unlocking; a deployment with a token and its three writes. In all of them a refresh beside it and a server that comes and goes; fairness: `ReloadSeesChange`, `BusyEnds`, `Converges`, `TypeOK` | holds |
| `spot_panel` | Three instances, chosen at the start: slow and failing requests of two spots over two runs of a time; days and times chosen among three times of two days that arrive in any order and pass; all that a browser does to the two canvases. `PanelIsForSelected`, `NoSilentStaleness`, `ChosenTimeShown`, `OutlookNeverOlder`, `OneFrame`, `AnimationGoesOn`, `GpuIsReturned`, `TypeOK` | holds |

Bounds. Two spots are the selected one and another. In `Refresh` an
instance bounds the buttons that are used, the calls under way beside the refresh
(`together`) and the changes: two calls of the page are the pair that races, two changes
tell their writes apart, and one session suffices for a right that appears and vanishes
(the page starts anew with every sign-in). `together` is a bound, not the code's: the
theorems below hold for every value of it. In
`SpotPanel` the period is 2 and the time limit 1, which keeps the limit (12 s) below the
period (30 s); an instance limits the requests under way when a click adds one (`open`),
and `MaxStrays` the failures that leave a program behind. The instances vary what one
property needs and fix the rest, because the product of clocks, choices and canvases has
no property of its own.

Fairness (`Refresh!LiveSpec`). The timer fires, effects run, and every request of the
refresh, of `mutate` and of the add dialog is answered or fails, because it has a time
limit. That requests end is therefore assumed; `BusyEnds` says that the page then gives the
buttons back, whatever the answers were. Nothing is assumed of the reader, of others, of
other calls or of the server. `Converges` speaks of executions in which the server stays up
in the end.

What the models show of the code, beyond the properties:

* `AddressNamesTheSpot` needs an exception (`missed`). When a reader steps back to a spot
  that is not listed, between the correction of its address and the rendering of that
  correction, the dependencies of the effect are as before and it does not run again: the
  address then names the missing spot until the next change.
* `NoSilentStaleness` allows one time limit after Retry and after a selection: both clear
  the error at once and keep the old outlook until the answer. Without a selected spot the
  effect returns early and an old error stays, as `PanelIsForSelected` says.
* `ChosenTimeShown` needs the chosen day. A time that was chosen without choosing its day
  gives way when points of an earlier day arrive, because the active day is then that day.
  It also needs an exception: when the times of the chosen day that the forecast had are
  past, the page shows another day (`App.tsx` 323 to 325) and the reader may choose a time
  of it; a row of the chosen day that is saved late brings that day back, and with it
  another time, though the chosen one is still in the forecast. The proof attempt found
  this, and `MCDay` gives two times to the first day so that the run meets it.
* `GpuIsReturned` counts apart what stays behind when no buffer can be allocated
  (`ocean.ts` 343): program and shaders are deleted only when compiling or linking fails.
* After a lost context any redraw starts the frames again under the notice that the view
  was paused; so `OneFrame` has no clause about it.
* A dialog that was closed while it saved, and opened again, is closed by the old save
  (`App.tsx` 991 to 993).

## 7. Signing in

**`SignIn`** has one record per request that is handled, with the await it has come to:

| `step` | In the code | Leaves by |
|---|---|---|
| `discover` | `begin_login` has a permit and asks the provider | `Count` |
| `insert` | advisory lock held, attempts counted | `Insert` |
| `claim` | `finish_login` has a permit, and state and cookie agree | `Claim` (`DELETE ... RETURNING`) |
| `exchange` | the code is at Google | `Exchange` |
| `lock` | the account is known; `create_session` waits for its row | `Lock` |
| `commit` | surplus sessions deleted, not committed | `Commit` |
| `drop` | the session exists; the browser's previous one does too | `Drop` |
| `end` | `logout` is authorised | `End` |
| `answer` | the response, with its cookies, is on its way | `Answer` |

`Fail` is any error in a flow, `Abandon` a client that goes away, which drops the handler at
an await and rolls its transaction back. `jar` has the cookies of a browser, which its tabs
share; a request has the session cookie of the moment at which it was sent. `Callback` may
come as often as a tab loads it, in any browser. Attempts and sessions that have expired
count as gone, as every statement that reads them has it. A cookie's `Max-Age` is the life
of its row (900 seconds, thirty days) but starts at the answer, after the row was inserted;
so the browser drops it at some time after the row has gone (`ExpireLoginCookie`,
`ExpireSessionCookie`). Tokens are random: an attempt is
a number, and the session it leads to has the same one. Which sessions of an account are
the newest is left open (`Surplus`): the code orders by `expires_at`, the start of the
transaction that made them, and no property depends on which ones stay.

The run `sign_in` checks `TypeOK` (with the permits), `QueueBounded`, `UsedOnce`,
`SessionsBounded`, `SignedInByOwnAttempt` and `OwnCookieStays` with three handlers, two
browsers, one account, two attempts, two permits, room for one attempt in the queue and
for one session of an account: all hold. Three handlers are two that race and one that
takes what they need; a queue of one and a surplus of everything but the new session make
both limits be met. Browsers and handlers are symmetric.

`OwnCookieStays` speaks of attempts whose row is still there. Two tabs of a browser share one
login cookie, so the later login invalidates the earlier, and any callback clears it; the
history variable `crossed` has the attempts beside which their browser made another one or
sent a callback. It is set by requests as they arrive and attempts as they are inserted
(`Callback`, `Insert`), not by the answers that set cookies, so that what `Cookies` does is
what the property tests.

Seen on the way: a callback that finds no
permit clears the cookie but leaves the attempt to expire; a handler that is dropped
between `create_session` and the deletion leaves a session that no cookie names; the answer
to a sign-out clears whatever session cookie the browser has when it arrives.

## 8. What is proved

The proofs hold for all constants that satisfy the named assumptions; three of those
ask for finite sets, the forms of spots in `Follows`, the handlers in `SignIn` and the ids
of spots in `Explore`, which are 64-bit numbers.

* `JobRunner_proofs!TypeCorrect`: `TypeOK`.
* `AttemptsAreBounded`: `AttemptBudget`, inductive together with `TypeOK`: a claim
  starts from a pending row, which has an attempt left, and both places that end a
  claim use the same test.
* `FencedVerdicts`, assuming `AllowRetry = FALSE`: `VerdictIsFenced`. By itself it is
  not inductive: a claim could reach the number of a stalled process's claim. The
  strengthening `FenceInv` adds that no process holds an attempt number above the
  row's (`AttemptsOnlyGrow`), so a new claim is numbered past all of them, and that
  a key without a row is before or past its planning window (`RowsNeverReturn`), so
  that the numbers never begin again. The assumption is the one the violation run drops.
* `TimelyProcessesAreSafe`, assuming that no process stalls or that retries are off:
  `LeaseOutlivesWork` and `OneExecutor` (`JobsHaveOneExecutor`). `TimelyInv` adds
  `LeaseClock`: the lease left on the row of a timely busy process is `Lease` less the
  time it has worked. As it works at most `JobTimeout + Slack < Lease`, the sweep never
  meets its row; two holders of the same row would hold the same claim.
* `JobRunnerLedger_proofs!QueueImplementsLedger`, assuming `AllowRetry = FALSE`:
  `ImplementsLedger`. One lemma per action maps it to a step of `TaskLedger` or to none
  (`EnqueuePosts`, `SweepRevokes`, `TakeHandsOut`, `FinishSettles`, `PruneDiscards`,
  `TickStutters`), from the invariants above: a verdict leaves the holder alone because
  it is fenced, a hand-out has an attempt left because of the budget, a key is posted once
  and stays gone because rows never return. `EmptyRows` adds that a key without a row has
  no attempts.
* `Ingester_proofs!TypeCorrect`: `TypeOK`, with the holder of the lock. `Typed` adds that a
  process that is down has no worker.
* `ConnectedLeaderIsUnique`: `OneConnectedLeader`, through `LockInv`: a live session
  of a leader is the one that holds the lock.
* `IngesterIsUnique`, assuming `SessionsMayDie = FALSE`: `SingleIngester`, and more: at
  most one process is in `leader_loop` at all, by the invariant that leaders then have their
  sessions. The README's claim thus depends on
  exactly what the violation run allows.
* `StopsAreClean`: `StopsCleanly`. `StopInv` relates the worker's end to the flag
  (a worker that ended well has seen the stop, sent after the flag), an error to a
  fault of the database, and the wait of `main` to the job's timer, so that the
  worker ends before `StopLimit`.
* `LostLeadersStandDown`: `LostLeaderStandsDown`. `Adrift` bounds the time without a
  session by where the worker is: at most the time since the last plan, which had a
  session, while the next plan is not due, and then at most the job taken meanwhile.
* `Follows_proofs!BookIsKept`: `BookInv`, from which `TypeCorrect` (`TypeOK`),
  `FollowsAreLimited` (`FollowLimit`), `CustomSpotsAreLimited` (`CustomLimit`),
  `TwinsAreImported` (`NoTwins`), `SpotsAreIsolated` (`Isolation`) and `SeedsAreWhole`
  (`SeedIsWhole`) follow. None of them is inductive alone: what a transaction counted
  must still hold when it writes. `Staged` says that an open transaction holds its
  owner's lock, so that two of them never have one owner; `Prepared` says what each has
  read and that it still is so (`Room`, `RoomToCreate`, no twin of the row it is about
  to insert); `Bounded` adds that the counted sets are finite. `OthersStayPrepared` is
  the heart: what one owner's commit writes is not what another owner's transaction has
  read. `RequestShape` sorts the actions by what they change, which keeps one lemma
  per shape.

* `SignIn_proofs`, for every finite set of handlers, any browsers and accounts, and all limits.
  One lemma per action says which fields of a request it changes (`CountMoves`, ...), so that
  the proofs of the invariants seldom expand an action; `Elsewhere` says what only one
  action changes.
  * `TypeCorrect`: `TypeOK` with its permits. `TypeInv` adds `Stages`, which requests come
    to which awaits, because a request that goes on must already hold a permit.
  * `SignInsAreOwn` (`SignedInByOwnAttempt`) and `CookiesAreLeftAlone` (`OwnCookieStays`)
    follow from `OwnInv`. The properties speak of cookies and rows; the invariant adds what
    leads to them: a new attempt is not known to Google before its answer and no two answers
    bring the same one (`Unmade`, `Distinct`); a callback that has passed the comparison is
    handled for the browser that made the attempt, and at the users row its account is
    chosen and its code exchanged (`Owner`); a login cookie is of an attempt of its own
    browser (`Jars`), without which the comparison would say nothing; beside an attempt that
    is not crossed its browser awaits no other answer that sets the login cookie (`Calm`).
  * `AttemptsAreUsedOnce` (`UsedOnce`): `UsedInv` adds that a row that is still there was not
    exchanged and that the request that deleted a row is the only one about to exchange it.
  * `QueueIsBounded` (`QueueBounded`): `QueueInv` adds that one request at most has counted
    and not inserted, and that it still finds room.
  * `SessionsAreBounded` (`SessionsBounded`): `SessionInv` adds the same for the users row:
    one request per account has deleted and not inserted, and what it deletes still leaves
    room, though sessions vanish meanwhile. An account that is chosen does not change, which
    is where `OwnInv` comes in.

* `Explore_proofs`, for any finite set of ids, any matches of the search and any page size:
  * `ExploreTypeCorrect` (`TypeOK`): the spot that is shown by default and the current page
    exist, which needs that a set of numbers has a least one (`LeastIsThere`, from the
    well-foundedness of `<`) and that a finite list has at least one page.
  * `AddressFollowsSelection` (`AddressNamesTheSpot`): `AddressInv` adds that the setters'
    state asks for what the address asks (`AddressIsRequested`), that an address without a
    parameter comes with a rendering that asks for nothing (`BareAddress`), and that a wrong
    address whose correction has run waits for a rendering that is another one
    (`CorrectionGoesOn`), the effect of which corrects it again. The last is where `missed`
    comes in.
  * `LinkedSpotIsKept` (`LinkedSpotStays`): a rendering shows what the state asks for while
    it is listed, and the state asks for what the address names.
* `Refresh_proofs`, for both kinds of deployment and any instances, with any number of calls
  beside each other:
  * `RefreshTypeCorrect` (`TypeOK`) and `ReloadIsBehindWrite` (`ReloadSeesChange`) from
    `RefreshInv`. `Calls` is the heart: while the write of a call is on its way it is the
    call's only request (`WriteAlone`), so that the call's load is made after the write was
    answered, and no answer is from the future. It says nothing of other calls, whose
    requests may be in any state. `PagePlaced` keeps the rights known while the dialog is
    open, without which a save could carry an unknown one. `MovesKeepCalls` says it once for
    every step that makes no write.
  * `ButtonsWaitForMutate`: the buttons are disabled exactly while a request of `mutate` is
    under way. This is the safety half of `BusyEnds`; the other half is that requests end.
* `SpotPanel_proofs`, for any spots, times, model runs, days, periods longer than the time
  limit, and instances. `PanelInv` is `OutlookInv` and `OceanInv`, one lemma per action each.
  * `SpotPanelTypeCorrect` (`TypeOK`). That the server's answer is one of `Points` rests on the
    saved rows being finitely many (`AnswerIsNewest`, `MaxIsThere`).
  * `OneRequestIsWanted`: at most one request is still waited for. `Asked` says more: it is as
    old as the running refresh and of the selected spot, so that at the next refresh it would
    have outlived the time limit.
  * `PanelIsOfTheSelectedSpot` (`PanelIsForSelected`): `Own`, from `Asked`.
  * `OldForecastHasNotice` (`NoSilentStaleness`): `Aged` follows the age of what is kept
    through each refresh, answered or not, with `since` and `clock`.
  * `ForecastNeverOlder` (`OutlookNeverOlder`): what is kept and what was answered has been
    saved (`Stored`), rows stay, and the answer to the one request that is wanted was read
    after what is kept (`Newer`).
  * `ChosenTimeStays` (`ChosenTimeShown`): `Drawn` is what a rendering does for a time of the
    chosen day; `Seen` says that the chosen day is on the screen or partly past, which `Newer`
    preserves when an answer arrives; `Fell` is the exception.
  * `OneFrameAtATime` (`OneFrame`), `AnimationNeverStalls` (`AnimationGoesOn`) and `NothingLeaks`
    (`GpuIsReturned`) from `OceanInv`, which adds that a canvas that is not rendered has no
    ocean or its cleanup due (`Off`), and counts the programs canvas by canvas.

Only model-checked: the liveness properties (`JobsSettle`, `WorkerEndStopsService`,
`IngestionResumes`, `BusyEnds`, `Converges`), which are out of the prover's reach. Every
other property of a passing run is a theorem.

## 9. What is not modelled

* Planner: tiles, leads and the choice of the model run, which are date and grid
  arithmetic; `plan` appears as the producer of keys.
* Station observations: `update_stations` is one job. Its statements are upserts and
  merges, which a retry repeats; no model says what a cut between them leaves.
* The connection pool: five connections, one of which the leader keeps. No model counts
  them; in every model a statement may fail instead. `migrate` runs under a lock before
  anything else starts.
* An endless stream of station jobs in front of the wave jobs (`db.rs` 229): `JobRunner` has
  finitely many keys, and `JobsSettle` speaks of those.
* Coordinates: validation, distances and the choice of a grid point; the places of `Follows`
  are an equivalence.
* Web client: status numbers, station cards, notices that only explain, units, formats, map
  tiles, style; the shaders and the swell arithmetic.
* GRIB2 decoding, hashing, PKCE and the verification of tokens, which are libraries or
  floating-point arithmetic; a verification fails or gives the account that was chosen.
* Argument parsing, printing, logging; Terraform, backups, containers except for the restart
  policy.
