# Models of the fibre OTDR fault localization service

The service in `backend/` imports sample curves of optical fibres, finds events
on them, compares them with a baseline and carries the outcome through a
reviewed case; `frontend/` is its web client. This directory holds TLA+ modules
of its core, TLC configurations that check them on small instances, and proofs
that TLAPS checks for instances of any size. `PROJECT.json` lists every run,
theorem, hazard and the source lines behind every definition.

Paths below are relative to `src/backend/internal/` unless they say otherwise.

## 1. Inventory

The server is one Go process over one PostgreSQL database (SQLite serves tests
only). Every HTTP request is a goroutine. Apart from the rate limiters and the
browser, all state is in the database: components interact through its tables
and, in a few places, through a row lock held until a transaction ends.

| component | state it keeps | operations | interacts with |
| --- | --- | --- | --- |
| case lifecycle (`service/case_service.go`, `repository/case_repository.go`) | `localization_cases`: status, version, updated_at, result, reviewer | Create, Get, List, Analyze, Confirm, Close | reads the events of two traces, writes audit entries |
| traces and events (`service/event_service.go`, `service/trace_service.go` and their repositories) | `trace_captures`, `event_markers` | Import, Detect, Review, reads | runs the signal pipeline, reads the length of the route, writes audit entries |
| route registry (`service/route_service.go`, `repository/fiber_route_repository.go`) | `fiber_routes`: code, columns, baseline | Create, Update, SetBaseline, reads | asks whether a trace belongs to a route, writes audit entries |
| signal pipeline (`algorithm/denoise.go`, `detect.go`, `distance.go`) | none | denoise, find, merge, classify and locate peaks | called by Import and Detect |
| baseline comparison (`algorithm/compare.go`) | none | CompareBaseline, PrimaryDifference | called by Analyze |
| rate limiter (`middleware/middleware.go`) | a map of visitors and the last sweep, under a mutex | Allow | in front of login, import, detection and analysis |
| accounts and tokens (`service/auth_service.go`, `repository/user_repository.go`) | `users`; no sessions: tokens carry an account id and an expiry | Login, Parse, seed; an operator changes rows in the database | gives every request its role |
| audit log (`repository/audit_repository.go`, `service/audit_service.go`) | `audit_logs`, append only | Create, List | written inside the transactions of the others |
| request plumbing (`handler/`, `dto/`, the rest of `middleware/`, `router/`) | none | validation, role checks, request ids, errors, access log | every request |
| server life cycle (`src/backend/cmd/server/main.go`, `config/`) | none; what it has done so far | start, seed, serve, drain, close the pool, end | may cut requests off, fills the table of accounts |
| web client (`src/frontend/src/`) | per page: rows as last read, open dialog, busy flag; the token in the browser's storage | search, buttons, dialogs, giving up after 30 s, logout on a 401 | sends back the version it read |

**Case lifecycle.** A case moves along `draft -> analyzing -> pending_review ->
confirmed -> closed`, with `analyzing -> draft` for what fails or expires.
Every write is one conditional `UPDATE` in a transaction with its audit entry.
Start, Confirm and Close ask for version and status; saving an analysis asks
for the status `analyzing` only; recovery asks for `analyzing` and an
`updated_at` older than the lease. Hard: an analysis holds nothing but the
status of the row; its process may die; it may outlive its lease and wake up
beside its successor; what Confirm and Close write to the audit log was read
before their transaction. Correct means: columns agree with the status, the
audit log replays the row, a reviewer confirms what was on screen, conclusions
are never replaced, no case stays in `analyzing`.

**Traces and events.** Hard: Detect and Review read first and write later;
Detect writes three tables' worth of statements in one transaction under
PostgreSQL's read committed isolation; two detections of a trace may overlap,
a review may fall between the statements of a detection, and the route may be
shortened between the check of a distance and the write. Correct means: curve
and events of a trace come from one run, reviews survive detections, to
readers every request is a single step, nobody waits for a lock for ever.

**Route registry.** Hard: check-then-insert of a code, read-then-write of a
row by primary key alone. Correct means: codes are unique, a baseline is a
trace of its own route, and Update never undoes a change of baseline.

**Signal pipeline and comparison.** Sequential and pure. Hard: the ends of the
trace, even buckets, thresholds that are met exactly, the anchor that moves
while peaks are merged, several events at one distance, a greedy matching, an
unstable sort and a fold over two criteria. Correct means: a step is found
where it is, noise is not, strong peaks survive merging, every event is
accounted for once, and no match is missed.

**Rate limiter.** Hard: the clock is read before the mutex is taken, so calls
arrive with times that go backwards; windows are fixed; the map is only swept
by calls. Correct means: no refusal without cause, a bound on bursts, entries
that go away, refusals that end.

**Accounts, tokens and the process.** Hard: a token outlives changes of its
account and restarts of the server; a request is on its way while its account
is changed; `Parse` turns every error of the database into a 401, on which the
client drops its token; the accounts are seeded in a loop without a
transaction, at every start that is not told to leave it out
(`DB_AUTO_MIGRATE`), over rows an operator may have changed; shutdown waits for requests only so long and then closes the pool under them. Correct
means: a request acts only with a role its account held since it was sent,
seeding never undoes a change, all accounts are there for good once it has been
gone through, and the server comes back after whatever happens to it.

**Web client.** Hard: calls are answered in any order and applied in that
order; the client gives up while the server goes on; a dialog holds the row as
it was opened; one flag disables three kinds of buttons; the page offers an
operation by the status it shows, not by the one the server has, and shows only
the newest hundred rows of a list. Correct means: what a user was told of a
confirmation stays true, and the page leads every case on until it is closed.
One thing stops it: a case whose analysis died stays in `analyzing`, for which
the page has no button.

**Audit log.** Only ever appended to, inside the transaction whose change it
records.

## 2. Modules

| module | what it is |
| --- | --- |
| `CaseConstants` | the status table and role sets |
| `CaseWorkflow` | abstract: what the life of a case promises |
| `CaseLifecycle` | the case service, statement by statement; refines `CaseWorkflow` |
| `EventCatalog` | abstract: detections and reviews as single steps on two tables |
| `TraceEvents` | Import, Detect, Review with transactions and row locks; refines `EventCatalog` |
| `RouteRegistry` | Create, Update, SetBaseline, Import |
| `SignalPipeline` | samples to events, one loop iteration per step |
| `Comparison` | CompareBaseline, one iteration per step, and PrimaryDifference |
| `RateLimiter` | Allow and the clock reading in front of it |
| `Accounts` | the process from start to end, seeding, tokens, the role check of a request |
| `CaseDesk` | the page of the cases in the browsers, over `CaseWorkflow` as the server |
| `MC_*` | values for the constants of the module named after the prefix |
| `CaseLifecycleProofs`, `TraceEventsProofs`, `RouteRegistryProofs`, `SignalPipelineProofs`, `ComparisonProofs`, `RateLimiterProofs`, `AccountsProofs`, `CaseDeskProofs` | theorems about the module named before `Proofs` |

Definitions named `X_Something`, directly above a definition `X`, are the
plausible mistakes each property has been shown to detect; nothing uses them.

**CaseLifecycle and the code.** `row` is the table (a column per field; the age
of `updated_at` instead of a date), `log` the audit entries per case, `req` the
request that each slot serves, with its local variable `item`, and `view` the
case as a client last read it, whose version it sends back. One action is one
statement or transaction: `AnalyzeGet`, `AnalyzeRecover`, `AnalyzeReload`,
`AnalyzeStart`, `AnalyzeCompare`, `AnalyzeFail`, `AnalyzeSave` are
`CaseService.Analyze` from top to bottom, `ConfirmGet`/`ConfirmTx` and
`CloseGet`/`CloseTx` the other two. The `WHERE` clauses are
`TransitionMatches`, `SaveAnalysisMatches` and `RecoverMatches`. `Abandon` ends
a request between two steps: a database error, a panic, the end of the process.
`differences_json` is represented by the version under which the run that
computed it took its lease; the column `basis` is not in the table, it
remembers what the reviewer had read.

**TraceEvents and the code.** `curve` is the processed half of a trace's row,
`event` the table of events with its primary keys, `length` the column of the
route. A detection is `DetectGet` (all reads and the algorithm), then the three
statements of its transaction: `UpdateProcessing` takes the row lock,
`ReplaceForTrace` deletes what nobody reviewed, `DetectCommit` inserts and
commits. Tables change at the commit; until then the request carries `doomed`,
the rows it has deleted and locked. A review is `ReviewGet`, `ReviewCheck`,
`ReviewTx`. The last is one step: its transaction updates one row and inserts
an audit entry, and PostgreSQL evaluates the condition of a waiting deletion
again once the review has committed. `found` is any set of distances within
the route, which is all `SignalPipeline` promises of it here.

**RouteRegistry and the code.** A route row is its code, its baseline and one
field for all columns that Update writes. `IndexAllows` is the unique index.

**SignalPipeline, Comparison and the code.** Loops run one iteration per step
over `todo` or `base`; samples, distances, losses and confidences are whole
numbers of the unit the code rounds to. Ties in the sorts, which are not
stable, are resolved in every possible way. The noise floor, the reflectance
and the confidence of an event decide nothing and are left out.

**RateLimiter and the code.** A caller holds the time it read (`Arrive`) until
it enters `Allow`. Times are kept relative to now, so the state space is finite
although the clock never stops. `admitted` is history: per key, how many calls
were let through in the last so many ticks. The delay between the two is at
most a window (`DelayAssumption`): a window is a minute in the code, and under
the mutex a map is read and written.

**Accounts and the code.** `account` is the table of users, `proc` and `next`
are the place main and `MigrateAndSeed` have reached, `token` is what a browser
has stored, `req` the request it has in flight. `Arrive` is the check of
signature and lifetime, `Authorize` the read of the account and the comparison
of its role, `Finish` the end of the handler; between any two of them accounts
change, the process drains, the pool closes or everything ends. A wrong
password changes nothing. `Start` takes `cfg.DBAutoMigrate` as it finds it, anew at every
start: with it main goes through `MigrateAndSeed`, without it straight to
serving, with the accounts there happen to be, which may be none. Three
variables are history: `wanted` is what the seed list or the operator last made
of an account, `seeded` whether some start has gone through the whole seed
list, `held` the roles an account has held, while active, since the request of
a client was sent.

**CaseDesk and the code.** `items`, `dialog` and `busy` are the store and the
page; `calls` are the requests on their way, `sent`, `running` (an analysis),
`moved` (the change is committed, the row is still to be read again for the
answer) and `answered`. The server is `INSTANCE CaseWorkflow`, which
`CaseLifecycle` is proved to implement: each of its handlers is the conditional
move it ends in, or a refusal. Every move is one entry of `trail`, so its
length is the version of the row. Users press what the page offers: `Press`
is the buttons that carry a case on, `Search` the reading of the list,
`Cancel` the leaving of a dialog. `GiveUp` is the timeout of the client or a
lost answer, `Die` the failure of a handler, `Expire` the passing of a lease,
`Elsewhere` any move of the workflow by a colleague, whose page is not
modelled. Cases are numbered in the order of their creation. `HandleList`
answers as `CaseRepository.List` does: of the rows that pass the filter the
newest, newest first, and no more than the `PageSize` that the page asks for
(`src/frontend/src/pages/CasesPage.vue:16`, a hundred, which is also the most
that `normalizePage` grants); the page never asks for a second page. Left out:
leaving the page and coming back (which reads the list again), the filter by
route, which this page does not offer, the form of a new case.

## 3. Runs

| run | question | bounds |
| --- | --- | --- |
| `case_lifecycle` | do rows, audit log and refinement survive overlapping runs? does a case always leave `analyzing`? | 1 case, 2 analysts, 1 reviewer, 1 lost request, lease of 1 tick, no start from version 4 on |
| `case_stale_result` | finding, see below | 2 actors, no lost request |
| `trace_events` | are detections and reviews atomic, are reviews kept, does every request end? | 1 trace, 2 analysts, 1 reviewer, 3 detections, 1 completed review, 1 lost request, 2 distances |
| `trace_review_length`, `trace_review_audit` | findings | 1 detection, 1 or 2 reviews |
| `route_registry` | are codes unique and baselines right? | 2 routes, codes, traces, values and users; no start with 2 audit entries on a route |
| `comparison` | is every event accounted for once? | all pairs of lists of up to 3 events, 3 distances, 2 losses, 2 confidences |
| `comparison_nearest` | finding | 2 events per list, 4 distances |
| `rate_limiter` | are refusals, bursts, sweeping and recovery right? | 2 keys, 2 callers, limit 2, window 1, a wait of up to 1 tick |
| `signal_pipeline` | are steps found and strays ignored? | 16 samples (the fewest the code accepts), 4 levels, windows 1 to 4, every trace that varies in 5 adjacent samples at the start, the middle or the end |
| `accounts` | does a request act only with a role its account held? does seeding keep what an operator changed, and are all accounts there once it was done? does the server always come back? | 3 accounts, 1 client with 1 request in flight, 2 changes of accounts, 3 stops or crashes, a shutdown that waits 1 tick |
| `case_desk` | does a page, however old and however few rows it shows, lead every case on to its end? does a confirmation that was acknowledged stay? | 2 cases, 1 row per list, the page of an administrator with the filters `draft`, `pending_review` and `confirmed`, a colleague, 1 list and 1 change waited for, 1 fault (lost or failed call, overdue run, change of mind, move of the colleague) |

Why the bounds are enough. A version bound of 4 lets an analysis start
(version 2), expire (3), be started again by someone else (4) and end (5) while
the first one is still running, followed by confirmation (6) and closing (7);
either run may die. Cases do not share any state, so one is enough.
Three detections are two that overlap and one that replaces what they left;
the second analyst can detect while the first is between any two of its
statements. Two distances give the empty, the partial and the full detection.
In the registry two routes with two codes suffice for every race between a
check and an insert, and two audit entries for two overlapping writes. Lists
of three events hold a chain in which each event can reach the next, and ties.
In the pipeline, a window of 2 is widened to 3 and a window of 4 to 5, so that
buckets of every parity are cut off at both ends; five samples hold a chain of
peaks longer than the merge window. With a limit of 2 and two callers a call
with an old time can overtake the restart of a window. `BurstBound` speaks of a
stretch of time that is shorter than a window by the longest wait for the
mutex, because a window counts from the time the call that opened it had read;
section 4 says why the stretch is not longer.

The server keeps no state per client, so one client is enough for `accounts`:
it can log out and in again, with another account, while its old request is
still on its way. Two changes take a role away and give it back, or demote one
account and deactivate another; three stops interrupt a seeding twice, or drain,
crash and drain again. Starts with and without the seeding alternate in every
way. In `case_desk` one row per list and two cases are the smallest list that is
cut off: with the filter `any` alone TLC finds the older case never closed. A
list, a change and a call that was given up are on their way side by side, and
in any order; one fault is any of those listed, at any time.
`MaxChanges` keeps a page from closing one case while it waits for the
confirmation of another; the proofs have no such bound.

The pipeline and comparison runs end, and so does the work on the page when
all cases are closed, so their configurations switch the deadlock check off. All
others keep it. The type invariants of `Comparison` and `SignalPipeline`, which
are single passes over their input, document the variables and belong to no
run.

**Fairness.** `case_lifecycle` assumes that a goroutine that can go on does,
that time passes, and that an analyst asks again for a case. The last is about
users: nothing on the server looks for overdue leases. `trace_events` assumes
that the database goes on with a statement that waits for no lock; it shows
that the lock of the trace holds nobody up for ever. Those of events cannot, as
a review takes only one of them and then ends. `rate_limiter` assumes that the
clock goes on and that the mutex is released.

`accounts` assumes that the process is started whenever it ended
(`restart: unless-stopped` in `src/docker-compose.yml:47`), that it runs on, and
that time passes. It does not assume that a request ever ends, which is what
the timeout of the shutdown is for.

`case_desk` assumes that the server and the network go on with every call, and
that users press what the page offers, look through the filters they use from
time to time although dialogs cover them now and then (strong fairness), and
leave a dialog whose submission was refused. It does not assume that a lease is
noticed or that anybody asks for a case that is stuck: the page has no button
for a case in `analyzing` (`src/frontend/src/pages/CasesPage.vue:38`), so
`CasesGetClosed` leaves out the cases whose run died, be it one of a colleague
(`Abandoned`). Without
that exception TLC finds such a case at once. `AskAgain`, the request through
the API that would help, may happen or not. Faults are bounded, and a case
whose traces have no events is such a fault: it fails every analysis
(`service/case_service.go:183`) until somebody detects events.

No fairness is asked of new requests anywhere else.

### Where code and documents disagree

- `case_stale_result`: a run whose lease expired saves its result under the
  lease of its successor, because `SaveAnalysis`
  (`repository/case_repository.go:69`) asks for the status only, while
  `README.md:118` says that moves are guarded by the version. The result is
  still shown, reviewed and confirmed consistently (`ConfirmedWhatWasSeen`).
  For the same reason an overdue run that fails late sets the fresh run of its
  successor back to draft.
- `trace_review_length`: a review compares with a length it read earlier
  (`service/event_service.go:122`); `gb-522.md:27` excludes events beyond the
  route.
- `trace_review_audit`: of two overlapping reviews both record the original as
  the value before (`service/event_service.go:134`; `README.md:35`). Two
  overlapping changes of baseline do the same (`service/route_service.go:121`).
- `comparison_nearest`: matching is greedy in the order of the baseline, not
  nearest first (`algorithm/compare.go:40`; `README.md:116`).

Smaller ones, without a run: a difference equal to the threshold is a peak
(`algorithm/detect.go:50`), where `README.md:114` says it must exceed it, so
`StepsFound` speaks of steps above the threshold only, on which the two agree;
`Confirm` replaces the estimate and the uncertainty that the algorithm found by
those of the reviewer (`service/case_service.go:212`), where `gb-522.md:28`
wants both kept, and `ConclusionsKept` is about `differences_json`, which stays;
`gb-522.md:29` lets only reviewers confirm, the router and `README.md:118` also
administrators; Retry-After is written as a count of nanoseconds with a unit
(`middleware/middleware.go:125`); `PrimaryDifference` depends on the order of
the differences where its two criteria disagree. The comment of
`RecoverStaleAnalysis` (`repository/case_repository.go:79`) speaks of a lease
left behind by a crashed process, but the page never asks for the analysis
that would release it. `Parse` answers an error of the database with 401
(`service/auth_service.go:110`), so a hiccup of the database logs users out.

## 4. Proofs

Every invariant, every action property and both refinements that the passing
runs check are theorems, for every value of the constants that the named
assumptions allow. TLC evaluates each assumption in the runs of its module.

| module | theorem | property of the run | holds for |
| --- | --- | --- | --- |
| `CaseLifecycleProofs` | `TypeCorrect`, `RowsConsistent`, `AuditReplays`, `ConfirmationsInformed`, `ReadsStayOld` | the invariants of `case_lifecycle` | any cases, request slots, roles, lease timeouts and bounds |
| | `ConclusionsStay` | `ConclusionsKept` (action) | |
| | `ImplementsWorkflow` | `Implements`, the refinement of `CaseWorkflow` | |
| `TraceEventsProofs` | `TracesTyped`, `CurvesAndEventsAgree` | the invariants of `trace_events` | any traces, users, finite sets of distances and bounds |
| | `ReviewsAreKept` | `ReviewsKept` (action) | |
| | `ImplementsCatalog` | `Atomic`, the refinement of `EventCatalog` | |
| `RouteRegistryProofs` | `RegistryTyped`, `CodesAreUnique`, `BaselinesBelong`, `BaselinesAreAudited` | the invariants of `route_registry` | any routes, codes, traces, values and users |
| `ComparisonProofs` | `MatchingIsOneToOne`, `NoMatchIsMissed`, `SameShowsNothing`, `PrimaryIsTheBest` | the invariants of `comparison` | lists of any length, any distances, losses, confidences, tolerance and threshold |
| `RateLimiterProofs` | `LimiterTyped`, `BurstsAreBounded` | the invariants of `rate_limiter` | any clients, callers, limit and window, and delays up to a window |
| | `RefusalsAreJustified`, `SweepsAreInTime` | `RefusalJustified`, `SweptInTime` (actions) | |
| `SignalPipelineProofs` | `PeaksAreMergedWell`, `StepsAreFound`, `SpikesAreIgnored` | the invariants of `signal_pipeline` | traces of any length from 16 on, any samples, threshold, merge window, spacing and route |
| `AccountsProofs` | `AccountsTyped`, `RolesAreHeld`, `SeedingIsSound` | the invariants of `accounts` | any clients, length of the shutdown and bounds |
| `CaseDeskProofs` | `DeskTyped`, `AcknowledgedIsKept` | the invariants of `case_desk` | any users, colleagues, finite sets of cases and any number of faults |

**Assumptions.** Bounds are natural numbers; a value that stands for "nobody",
"no case", "no row" or "no key" is none of what it stands beside
(`ActorsAssumption`, `RegistryAssumption`, `RowsAssumption`, `EventsAssumption`
of `TraceEvents`, `SlotsAssumption`, `LimiterAssumption`, `UsersAssumption`);
roles exist; sets of distances and of cases are finite; numbers in events are
natural, the tolerance and the threshold positive, samples even (so that the
mean of two is whole), windows 1 to 31 as the request allows. `DelayAssumption`
is the only one about time: no call waits for the mutex longer than a window.

### The arguments

**Case lifecycle.** `IndInv` is the conjunction of the five invariants. None of
the interesting ones is inductive alone: that an audit entry records the truth,
and that a reviewer confirmed what was on screen, rest on `ReadsAreOld`, which
says that a read which still has the version of the row also has its contents.
That in turn needs `AuditReplay`, because versions count the entries, and
`RowConsistent`, because a result is there exactly from a status on. The proof
has three layers.

1. A lemma per written row (`StartedRow`, `CompletedRow`, ...) says which
   columns it changes.
2. A lemma per transaction (`StartWrites`, `SaveWrites`, ...) shows that it is a
   `GoodWrite`: a legal move, one audit entry, a consistent row. `StepKinds`
   concludes that each step is such a write or leaves the rows as they are up
   to age.
3. `CasesStep` derives the invariants on rows and log from `StepKinds`,
   `ActorsStep` those on requests and views from `Growth` (versions only grow).

`ImplementsWorkflow` maps a `GoodWrite` to a move of the workflow and
everything else to a stutter.

**Traces and events.** The heart of `Sound` is `DoomedIsUnreviewed`: from the
statement that deletes to the commit, the rows a detection holds as deleted are
exactly the rows of its trace that nobody has reviewed. The row lock of the
trace keeps other detections out (`LocksExclude`), the locks of the deleted
rows keep reviews out. This makes the commit the single step that
`ImplementsCatalog` maps a detection to. `RunsDistinct` (no two detections share
a number) gives that the events of the stored run are those of the stored curve
(`AllAgree`), and `KeysSuffice` counts the primary keys that detections on their
way may still take.

**Route registry.** `CodesUnique` is inductive with the types. The other two
need what a request carries from its reads into its transaction
(`RequestsSound`): the route is still there, the new baseline is still a trace of
it, and an inserted row has no baseline. `NoLogBefore` says that a route which is
not there has no audit entries, so that the first is about a route without a
baseline.

**Comparison.** The invariants speak of the report when it is done; they follow
from what holds after every iteration: what each difference found so far means
(`AllExplained`), that no two are about one event (`Apart`, `ReportedOnce`), and
that the baseline events passed so far are the matched ones and the gone ones
(`Counted`). That no match is missed rests on `Explained` of a gone event
staying true: current events are only ever used up. `PrimaryDifference` is a
recursive function. `TurnsExist` shows that it is defined, `TurnKeeps` that one
turn keeps `BestSoFar`, and a least counterexample does the rest
(`WellFoundedInduction!WFMin` takes a set and no operator, so the provers can
use it where the induction theorems are out of reach).

**Rate limiter.** `Sound` relates, per key, the count of an entry to what was
let through: all of it since the window began (`CountedSince`), and nothing else
after that (`NothingElse`). `LimitBefore` bounds what the window before let
through, `KeptBySweep` says that an entry which is over was not yet over at the
last sweep. The attempt to prove `BurstBound` for a whole window showed that it
holds only for delays of up to one tick. With a window and a delay of two ticks,
two keys and three callers, or of three ticks with a single key, TLC finds three
windows that meet in the length of one, because calls open windows with times
they read earlier. The bound now takes the delay off the stretch, where the
proof goes through; for a delay of one tick, which the run has, both say the
same.

**Signal pipeline.** First medians: a sorted bucket has a value at every position
(`SortedIs`), and a value that more than half of the bucket has is its median
(`MajorityIsMedian`), so the filter removes a stray sample (`SpikeRemoved`) and
keeps a step where it is (`StepKept`). Then the loops: `Merging` says that the
peaks kept are apart and every one passed over is covered by a stronger
neighbour although the anchor moves; `Locating` that a single peak becomes one
event or is rejected.

**Accounts.** `Sound` adds three facts to the invariants. `HeldIsCurrent`: the
role an account has now is among those it held since the request was sent, which
makes the moment of `Authorize` one of them. `QuietUntilServing`: nothing is in
flight while accounts are created, so that seeding gives no role to a request on
its way. `SeedingProgress`: an account that is not there yet is wanted as it will
be seeded, and the loop leaves none out, so that all are there once it has been
gone through (`seeded`), and no later step takes one away. `GrantStep` goes through the steps for one client, `SeedingStep` through
those of the table.

**Case desk.** Almost everything a page holds may be behind the server. Two
facts are not: the flag of a page stands for the one call it waits for
(`OneWaits`), and a confirmation on its way back vouches for a verdict
(`Vouched`) which no move of the server takes away (`CasesKept`, from the
transition table). The lemmas `ReplySound` and `DoneSound` cover all handlers,
`SoundSend` and `SoundShow` all buttons.

### Only model-checked

Liveness: `LeaseReleased`, `RequestsEnd`, `RefusalEnds`, `ServesAgain` and
`CasesGetClosed`. The prover handles neither fairness nor `ENABLED`. The four
runs that expect a violation have nothing to prove. The types of `Comparison`
and `SignalPipeline` are parts of their inductive invariants.

## 5. Not modelled

- Search, paging and scrubbing of the audit log; the lists of routes, traces
  and events, and the reads of single rows: they only read, and no modelled state
  depends on them. The list of cases is in `CaseDesk`.
- The pages of routes, traces, events and the audit log. Their stores have the
  form of that of the cases, without versions to send back.
- Passwords and signatures: a login is right or changes nothing, a token is
  genuine.
- Request ids, CORS, access log, panic recovery, validation of bodies,
  migrations, charts and layout: no state a property would be about.
- Floating point: values are whole numbers of the unit the code rounds to.
  `MovingAverage` and `DistanceUncertainty` are not called by any service
  and are left out.
- SQLite, which only tests use. Its writers are serialized; the models take
  PostgreSQL's row locks and read committed isolation.

## 6. The plan

Order: the case lifecycle first, as it carries the service's promises; then
the tables it reads and the algorithms on the way; then what surrounds them.
All of section 2 is modelled, checked and, for safety, proved. Left, in this
order:

1. The type invariants of `Comparison` and `SignalPipeline` as theorems of
   their own, and the action properties of `EventCatalog` and `CaseWorkflow`
   that follow from the refinements.
2. A composition of `CaseLifecycle` and `TraceEvents`: an analysis reads the
   events of two traces in two statements while detections and reviews go on.
   `Atomic` already shows that each of the two reads sees whole detections.

No module declares a RECURSIVE operator, and invariants are conjunctions of
named parts, so that proofs can be added in modules beside them.
