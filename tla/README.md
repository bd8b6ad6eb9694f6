# Verification of hpc101-platform

TLA+ models, TLC runs and machine-checked proofs for the controller of the
platform. The lease side decides who holds a service container, when it is taken
away, and what is left of it when Docker, the bastion, the disk or the controller
itself fails, and the bastion's session table tells it who is connected. The
submission side decides what goes to the judge, who waits for whom, and which
result a student is shown; problem synchronisation decides what may be submitted
at all.

All paths are relative to `src/`.

## 1. The system

A student runs `hpc101 up` and gets a service container with SSH behind a
bastion. The controller holds one *lease* per student (the *principal*). A lease
ends by request, at its maximum lifetime (8 h), or after 30 min without an SSH
channel. Work is judged by CSOJ, a separate service the controller talks to.

| component | where | state | operations |
|---|---|---|---|
| lease record | `pkg/lease/lease.go` | `Lease`: container, start, deadline, last activity, channels, state | `NewLease`, `IsExpired`, `IsIdle`, `Transition`, `Release`, `ExecuteRelease` |
| lease store | `pkg/controller/filestore.go`, `store.go` | map of leases, keys, submissions, problem map; one mutex; a JSON snapshot (FileStore only) | `CreateLeaseForPrincipal`, `ReleaseLeaseIf`, `UpsertLease`, `LookupByPrincipal`, `AllLeases`, `Load`, and the writers of the other maps |
| release triggers | `pkg/controller/triggers.go` | the copies each loop works through | max-life loop, idle loop |
| service and release API | `pkg/controller/leases.go:264-471` | none of its own | create a service, release, look a lease up |
| bastion roster and drainer | `pkg/controller/bastion.go` | the copies a roster works through | reconcile a roster; ask the bastion to drain |
| runtime client | `pkg/runtime/runtime.go`, `cmd/controller/runtime.go` | in Docker: containers, volumes | create, stop and remove, list, remove volumes |
| restart | `pkg/controller/reattach.go`, `cmd/controller/main.go:24-41` | none that outlives it | load the snapshot, rebuild leases, reclaim orphan volumes |
| submission API | `pkg/controller/leases.go:541-946` | submissions by id, idempotency entries, one mutex; copies in the store | submit, query, scores, stream logs |
| judge adapter | `pkg/adapter/adapter.go` | none | submit, query and sync with retries |
| problem sync | `pkg/controller/leases.go:473-539` | the problem map | project a problem on CSOJ, map it |
| bastion session table | `cmd/bastion-mgmt/main.go` | channel counts per principal | open, close, drain, periodic roster |
| SSH CA | `pkg/sshca` | the CA key file | load or generate, sign |
| command line client | `cmd/hpc101` | key files of the user | up, release, submit, poll |
| CSOJ | `vendor/csoj` | third-party | used through its HTTP API |

**Interactions.** Every HTTP request is a goroutine; so are the two trigger
loops. They meet in the store. `CreateLeaseForPrincipal` and `ReleaseLeaseIf`
hold the store's mutex *through* their calls to Docker and the bastion; every
other method holds it for one read or write. The roster handler and the trigger
loops read copies, drop the mutex and come back later. The snapshot is written
under the mutex by every method that changes anything. Submissions have a mutex
of their own (`h.mu`), which guards two maps for single steps; the judge is called
without it, the store is called with it at the end of a submission. Submission
records are shared objects: whoever has looked one up reads and writes it without
a lock.

**Hard behaviour.** A release is four transitions with two remote calls between
them, any of which may fail after the ones before it have happened; a failing
save turns a create back after its container was made; copies go stale between
a read and the decision or the write that rests on it; a crash separates memory
from disk and from the containers. Requests for the same submission race for one
entry and wait on each other; answers of the judge arrive late, twice, or not at
all. The bastion counts channels by notifications that come late, forgets them by
drains whose answers may be lost, and reports copies. A sync is five calls to the
judge, each of which may act without answering, or only after its caller has given
up, with other syncs in between; the judge's own handlers look, write and reload
without one lock around them.
`hazards` in `PROJECT.json` lists each of
these at its line.

**What makes the components correct.**
The store: creates and releases are atomic and a service is never given out
twice; whatever fails, a lease ends up settled; the snapshot never holds half a
release and never misses a lease a student holds. The triggers: nothing is
released that is not due, and what is due is released in the end. The roster: it
never undoes a release. The drainer: no container stops undrained. The restart:
no container is left without a lease, no home in use is taken for an orphan, no lease is
served without its container. Submissions: equal work is judged once at a time,
the others get the same identifier, nobody waits for what has already ended, and
no failure blocks a student. Results: a finished submission is shown as finished,
for good. The session table: it makes no channel up, loses none without a reason,
and nobody it counts is taken for idle. Problem sync: what is mapped is judged in
its contest, nothing of another contest is touched, a sync that failed can be
repeated. Sections 4 and 5 say which of these hold.

## 2. Modules

| module | models | state |
|---|---|---|
| `Lease` | the record, its transitions and tests | none (operators) |
| `Runtime` | outcomes of Docker's create and of its stop and removal | none (operators) |
| `LeaseStore` | the store with its callers: up, manual release, both loops | see below |
| `AtomicLeases` | what the store promises: `Acquire`, `Release`, `Discard` as single steps | `held`, `issued` |
| `Roster` | `LeaseStore` with rosters reconciled step by step | `roster` |
| `Sessions` | `Roster` with the bastion's session table, its channels and its rosters | `open`, `closing`, `table`, `posted`, `since` |
| `Restart` | `LeaseStore` with crashes, snapshot loading and reattachment | `mode`, `found`, `todo` |
| `Submissions` | `handleSubmissions` and the adapter's `Submit` with retries | `req`, `idempotency`, `entry`, `submissions`, `stored`, `judged` |
| `Results` | `handleSubmissionByID` and `handleSubmissionLogs` on one record | `judge`, `memory`, `result`, `store`, `disk`, `query` |
| `ProblemSync` | `handleProblemSync`, the adapter's upserts, the judge's handlers behind them, the problem map | `sync`, `jobs`, `disk`, `loaded`, `field`, `map`, `saved`, `crossed` |
| `MCLeaseStore`, `MCRoster`, `MCSessions`, `MCRestart` | students as model values, and their symmetry | |
| `MCSubmissions`, `MCResults`, `MCProblemSync` | requests and clients as model values; the ids that clash | |
| `LeaseStoreProofs` | the inductive invariant of `LeaseStore` and what follows from it | |
| `LeaseStoreRefinement` | `LeaseStore` implements `AtomicLeases` | |
| `LeaseStoreAgreement` | memory, snapshot and containers of `LeaseStore` agree | |
| `RestartProofs` | the invariant survives crashes; orphans | |
| `SessionsProofs` | the store under rosters, then the session table that makes them | |
| `SubmissionsProofs` | the inductive invariant of `Submissions` and what follows from it | |
| `ResultsProofs` | who has which record in `Results`, and what follows from it | |
| `ProblemSyncProofs` | the inductive invariant of `ProblemSync` and what follows from it | |

`LeaseStore` in terms of the code:

* `leases` is the map in memory (a missing entry is `NoLease`), `disk` the
  leases in the last snapshot that was renamed into place. `Save(ok)` is
  `unsafeSaveLocked`; a failing save leaves the old file.
* The mutex is not a variable: it is held exactly while `phase[p] # "idle"` for
  some `p` (`Locked`). `phase` is the program counter inside
  `CreateLeaseForPrincipal` ("create", "save", "cleanup") or `ReleaseLeaseIf`
  ("drain", "stop", "commit", "rollback"). One step per remote call or save, so
  time passes, containers die and other goroutines wait in between.
* A create is `CreateBegin` (conflict check, prior lease kept, placeholder),
  then `CreateSucceeds` or `CreateFails` (the runtime's answer), then
  `CreateSaved`, or `CreateNotSaved` and `CreateCleanup`.
* A release is `ReleaseBegin` (the state check and the trigger's condition
  under the mutex), `ReleaseDrain`, `ReleaseStop`, and `ReleaseCommit` or
  `ReleaseRollback`. `ExecuteRelease` calls back *before* each transition, so a
  failing drain leaves Closing and a failing stop leaves Draining, and the
  rollback puts either back to Active.
* `sweep[t]` holds the copies of `AllLeases` that loop `t` has still to look at,
  each reduced to the fields that this loop reads (`CopyFor`): the deadline, or
  the last activity and the channels. The map's order is random, so the loop reaches any of them. A copy is skipped
  (`SweepSkip`), released (`SweepRelease`), or refused because the lease has
  changed (`SweepStale`).
* `homes[p]` is the problem in the labels of the home volume (0: no volume). A
  volume is named after the student alone and keeps the labels it got first
  (`runtime.go:70-75`); containers carry the labels of their own create.
* `SaveOther`: keys, submissions and the problem map share the snapshot, so
  their writers save the leases as well.
* `serializedStore` is the same with `Persistent = FALSE`: nothing reaches
  `disk` and no save fails.

`Roster` splits `handleBastionRoster` where it drops the mutex: a look-up with
the change of the copy (`RosterLookup`), the upsert (`RosterUpsert`), the list
of the Active leases without a session (`RosterList`), and their upserts.
`roster.at` is the time read on arrival, before any wait for the mutex. On its own
it takes any sessions a bastion could send.

`Sessions` puts the bastion in their place. `open` and `closing` are the truth: the
channels a student has, and those that are closed while the notification is still
on its way (late, in any order with other events, never lost). `table` is what
`sessionTracker` makes of it with `openChannel`, `closeChannel` and `drain`;
`Report` posts a copy of it and `Roster` reconciles that. A drain is the deletion
of an entry and nothing else, so the channels live until their container stops
(`Broken`). `Drained` lets a drain that the controller counts as failed have
arrived or not. `BastionRestart` empties the table and leaves the channels. A tick
stands for the idle timeout (30 min) and a roster is posted every 15 s, so time
moves on only when one has been posted and reconciled since the last tick. `since`
is history for `ConnectedStays`.

`Restart` adds `Crash` at every step (memory, the loops' copies and the phase
are gone), `Start` (load, list), `Reattach` per container, and
`RemoveOrphanVolumes`. `StartBlind` is the start whose listing fails: the error
is logged and the controller serves (`main.go:36-38`, mode "blind").

`Submissions` has one record per HTTP request, `req[r]`, with its place in the
handler and the locals it still needs. `idempotency[s]` is the map entry of a
scope, named by the request that reserved it, and `entry[r]` what that entry says
(in flight, has an identifier, failed); both a waiter and the map may hold it. The
actions are the stretches of `handleSubmissions` between two looks at shared
state: the first look (`Arrive`), the decision on the entry found (`Existing...`),
the end of a wait (`WaitEnds...`), the second look under the lock
(`Reserve`, `ReserveRefused`), one step per POST and per retry of the adapter
(`SubmitAttempt`, `Retry`), and the end (`SubmitFails`, `SubmitCompletes`). A
request that fails the handler's validation changes nothing and is left out.
`judged` collects the requests whose files CSOJ accepted, whether or not the
answer came back. `Restart` drops memory; the snapshot's records are read by
`Results`, never by `handleSubmissions`.

`Results` follows one submission. `memory` is the record that `h.submissions`
points to: the one of the submission itself, or, after a restart, a copy that a
query got from the store (`Load`). `result` holds what each of these records says.
`rec.Result = *result` is not atomic and no lock is held, so `Write` copies the
status and the rest in either order with anything in between; then come `Publish`
(the map, under `h.mu`) and `Save` (the store copies the record *as it is then*).
A failing save keeps the store's copy and is not reported.

`ProblemSync` has one record per request, whose `pc` is the next call to the judge
(`getContest`, `putContest` or `postContest`, `listProblems`, `putProblem` or
`getProblem`, `postProblem`), then the map. A call that reads is one step of the
request. A call that writes (`Call`) starts a handler of CSOJ, a member of `jobs`,
with steps of its own, as in `vendor/csoj/internal/api/admin`: look at what is loaded
and refuse or go on (`Check`, `Refuse`), write the contest's file (`Write`), read all
files anew (`Load`), swap them in and answer (`Swap`). Nothing is locked from one
step to the next. `disk` has the lists of problems in the `contest.yaml` files,
`loaded` those that the judge goes by. A handler writes back the list it found at
its look (`dirs`); as that list is a shared slice which other handlers append to, the
file may also get any of the problems written since (`Found`). A call that gets no
answer is retried up to `MaxRetries` times (`Unanswered`): it did not arrive, or the
handler goes on with nobody to hear of it (`Unheard`), also after the request is
over. `Refused` is every other failing answer. A CSOJ id is the set of the pairs that
encode to it. `field` is where the judge lists the problems of a contest: the adapter
reads `problems` (`adapter.go:544`), the vendored judge sends `problem_ids`; both are
explored. `MapNotSaved` is `MapProblem` with a save that fails and its rollback.
`crossed` is history: two writing calls have been at the judge at once. Left out at
the judge: files read while they are half written, and a handler whose own write or
reload fails.

External, and modelled from its use: Docker (what an operation reports and what
it did need not agree: `Runtime` names the faults), the clock, SSH
channels and the notifications of them, process crashes, CSOJ (what it reports, and whether it made a submission
of a POST whose answer was lost). The runtime refuses to remove a volume that a
container uses.

## 3. Runs

The lease runs use one or two students, `MaxLife` and `IdleTimeout` of 1 or 2
ticks, a clock that stops at `MaxTime`, at most `MaxContainers` containers ever
made and `MaxProblems` problems.

| run | faults | question |
|---|---|---|
| `store_faults` | all but "list" | what a create or release leaves behind; atomicity (`AtomicSpec`) |
| `store_live` | create, drain, stop; no snapshot | due leases are released; containers and leases agree; drain before stop |
| `store_wedged` | stopGone | **violation**: a due lease is never released |
| `sessions_counted` | create, drain, stop, a bastion that restarts | the table counts right, the connected are not idle, rosters keep deadlines, releases in progress and the snapshot |
| `roster_resurrects` | none | **violation**: a reclaimed lease becomes Active again |
| `restart_recovers` | create, stopGone, drain, save, exit, lost, list | after a crash: leases settled, which homes in use are asked for, no container without its lease |
| `restart_stale` | none | **violation**: an Active lease without a container is served |
| `submissions_shared` | all of the judge's, cancel, save, restart | four requests for one scope: who is judged, who waits, what a failure leaves |
| `submissions_waiter` | lost | **violation**: two requests hold one scope |
| `results_settle` | failing saves, late answers, a restart | a poller and a log reader: store and memory agree; a finished submission that is asked for comes to be shown as finished for good |
| `sync_maps` | down, lost, refused, save, restart; both lists | two syncs of four problems, two with one id, and the judge's handlers behind them: what is mapped, what is written, and what a failed sync leaves |
| `sync_again` | none; the vendored judge's list | **violation**: the second sync of a problem fails |

**Why the faults differ.** A fault leaves a run only when the property is false
with it for a reason the code itself names: `restart_recovers` excludes
"leftover" and the stops that leave the container ("stop", "remove"): after a
failing save they lose it ("may need orphan recovery", `filestore.go:343-345`,
until the next restart); a start whose listing fails is explored, and
`NoOrphanServing` asks nothing of it, as it reattaches nothing; `ActiveIsRunning` excludes a
container that dies by itself, which the controller does not watch;
`DueIsReleased` excludes the faults that `store_wedged` is about;
`SnapshotCurrent` (rosters) needs saves that succeed.

**Why the bounds are enough.** Two students show every interference there is:
the store treats them alike and serialises them. In the runs of `store_faults` and
`store_live`, three containers let one
student be leased, released, and leased again while the other is leased. Time 4
with lifetimes of 1 and 2 lets a lease expire, become idle, be released, and be
replaced by one that expires again while a loop still holds the first copy. One
roster is reconciled at a time (the bastion waits for the answer before it posts
the next), and its hazards show with one student, which is what
`sessions_counted` has: two channels, two containers one after the other, and
lifetimes of one tick, so that a student stays connected past the idle timeout,
leaves and comes back, is drained while connected, and is released and replaced
while closes of the old container are still under way. Symmetry of the students is
used in the safety runs, never with liveness. `Roster` leaves out the roster of a
restarted bastion, or one posted after a failed POST, that meets the handler of the
one before; its loops' copies are stale in the same way.

`restart_recovers` has two containers and two problems, which is what it takes for a
student to be leased, released, and leased again for another problem, so that the
home keeps the labels of the first; or for two students to be leased at the crash.
The theorems about restarts hold for every number of either.

Four requests for one scope are the fewest with which a waiter can do harm: one
that fails, one that waited for it, one that reserves the scope after it, and one
that reserves it again. Different scopes share nothing. One retry (`MaxRetries` 1,
3 in the code) shows a lost answer before a good one; the proofs cover any number.
Two syncs show one between any two steps of the other, and one after the other. More
than two calls at the judge (`MaxJobs`) are not needed for what they can do to each
other: a call that was given up, its retry and the other request's call take turns.
Two contests with two problems each, of which one of each share an id, give equal
problems, different ones in one contest, and a clash. A call is retried once. The
proofs cover any number of each.
For results, a poller and a log reader are both handlers at once, each as often as
it likes, and one restart makes each of them load a copy of its own.

**Deadlock** is checked in every run. The lease runs end by bounding time and
containers, and a trigger loop can always take another turn. In `Submissions` the
only state without a step of a request is the one in which every request is
answered or cut off (`Quiet`), and so in `ProblemSync`.

**Fairness** (`Fairness` in `LeaseStore`, used by `DueIsReleased`). Weak on the
steps of a create or release in progress: Docker and the disk answer, and the
drain has a 10 s timeout. Strong on a drain and a stop that succeed: a failure
may repeat, not for ever. Strong on the loops' steps, which compete for the
mutex: `sync.Mutex` hands over to a waiter that has starved for 1 ms, and
tickers do not stop. Docker calls use `context.Background()` and have no
timeout, so "Docker answers" is an assumption about Docker, not about the code.

`Results` assumes of its own fairness (`Progress`) only that goroutines go on and that
CSOJ does not refuse every answer for ever (strong on `Ask`: each query retries three
times). Nothing makes a student ask: the client polls 60 times at most and stops at
the first error (`cmd/hpc101/main.go:279-305`). `AskedIsShown` therefore has
`KeepsAsking` as a hypothesis in its statement: somebody looks at the status again
and again, by running a client that has given up anew.

`Submissions` and `ProblemSync` need no fairness: a request takes finitely
many steps, and `WaitersServed` with the deadlock check says that none of the
submissions is stuck behind one that is over.

## 4. What the runs show

Holds:

* `LeasesSettled`, `SnapshotLags`: after any failure a lease is Active without a
  trigger on record, Reclaimed, or absent; the snapshot is never half-way and
  differs from memory only by a finished release whose save failed.
* `AtomicSpec`: seen from outside, a create takes effect when its snapshot is
  written and a release at its last step; nothing is held twice or given back.
* `ReleaseJustified`: what a loop read in a stale copy is checked again; the
  lease that is released is due, and goes on being due until it is gone.
* `DueIsReleased`, `ActiveIsRunning`, `StopsAfterDrain`.
* With rosters: `SnapshotCurrent`, `LifetimeKept`, `ReleaseJustified`.
* `NoPhantomChannel`, `ForgetsOnlyWhenCleared`: late closes, drains, restarts and
  broken channels never leave a channel in the table that is not there, and only a
  drain or a restart takes one away that is.
* `ConnectedStays`: whoever has a channel that the table has counted for longer
  than one roster is not released as idle, whatever rosters, releases and copies
  cross.
* With crashes: `LeasesSettled`, `NoOrphanServing`, and `OnlyMislabelledReclaimed`: a
  home in use is taken for an orphan only if its labels are those of another problem
  than its container's.
* `DuplicatesMatch`, `WaitersServed`, `ReservationsOwned`: a duplicate gets the
  identifier of the same files, nobody waits for an entry that is not closed, and
  no failure blocks a scope.
* `SecondAfterWaiter`: the scope is exclusive until a waiter has been told of a
  failure; the clearing by that waiter is the only hole.
* `StoreFollows`: with all queries over, the store has what memory has.
* `AskedIsShown`: as long as somebody asks, a finished submission comes to be shown as
  finished, and stays so.
* `MappingDurable`: the map in memory is always the one on disk.
* `MappedIsJudged`, `ForeignProblemsKept`, until two writing calls meet at the judge: a
  problem that may be submitted is at the judge in its own contest, and no sync writes
  a problem of another contest, whatever syncs run between its look and its write,
  whatever is lost, retried or carried out late, clashing ids included.
* `RetryHeals`: a sync that meets no failure and no other sync fails only if its
  identifier is at the judge already, whatever earlier ones left half done; with a
  judge that lists problems where the adapter looks, only if another contest has it.

Does not hold (the findings in `PROJECT.json`, with the line each contradicts):

1. `store_wedged`: a stop that is reported as failed while the forced removal
   worked makes every later release fail: the lease stays Active past its
   deadline and blocks the student until a restart, and, as reattachment drops
   no lease, after it.
2. `roster_resurrects`: a roster's upsert overwrites a release that ended
   between its look-up and its write.
3. `restart_stale`: a lease whose container was stopped right before a crash
   comes back Active and stays, for the restart adds leases and drops none.
4. `submissions_waiter`: the waiter's `delete` (`leases.go:714`) hits whatever the
   scope holds by then. A second deletion of what the failed request has deleted
   already, it is only ever harmful.
5. `sync_again`: the vendored judge sends `problem_ids` (`loader.go:27-28`), the
   adapter reads `problems`; no problem can be synchronised twice. The test that
   expects the update (`adapter_test.go:221`) answers with `problems` itself.

Reached in the models' states, and excepted from a property in its own statement:

* Two writing calls that meet at the judge (`crossed`). Two syncs without any fault are
  enough: a PUT of the contest that looked before the POST of a problem wrote
  takes the problem out again (`contest.go:84-95`); a reload that read before another
  write swaps the old state in after it (`management.go:18-60`); a contest that two
  syncs create is emptied by the second; two POSTs of clashing ids both pass the look
  (`contest.go:209-216`), and one problem replaces the other. A problem is then
  mapped and not judged, or judged as another contest's, against "SyncProblem ensures
  the platform problem has a corresponding CSOJ contest/problem record"
  (`adapter.go:411-412`) and "Never PUT a problem that exists under a different
  contest" (`adapter.go:563`). The fault is shared: the judge's handlers hold no lock,
  and `handleProblemSync` lets two syncs run at once. Without `~crossed`, TLC refutes
  `MappedIsJudged` and `ForeignProblemsKept`.
* A home volume keeps the labels of its student's first container, so once the student
  works on a second problem a restart takes the home of a running container for an
  orphan and asks for its removal (`reattach.go:115`). It survives only because the
  runtime refuses to remove a volume in use. `leases_test.go:955` expects volumes of
  another course or problem to be orphans, so that the code does what its test says;
  it is the labels that go stale.
* A final result is replaced by an older answer (`leases.go:848`) against
  "Return cached terminal result without re-querying." (`leases.go:833`), which looks
  at the record before it asks, not after; the score is missing from `hpc101 score`
  until someone asks for that submission again. After a restart each query that finds
  nothing in memory loads a copy of its own (`leases.go:817-826`), and one that asked
  early may publish its unfinished copy over a finished one. `AskedIsShown` says that
  this ends, for somebody who asks on: each query that asked too early can take a
  result back once.
* A release that fails after its drain, or a bastion that restarts, leaves a
  student connected and not counted, and the idle loop then releases the lease
  although `docs/TUTORIAL.md:128` says 30 minutes without an SSH connection.
  `ConnectedStays` asks for a count in the table.

Seen while modelling and not run: a release never removes a volume, although
`lease.go:30` and `docs/TUTORIAL.md:267` say so; every restart gives each
container a fresh start time and a fresh 8 h (`reattach.go:90` against
`lease.go:79`); `docs/TUTORIAL.md:378` says that `up` with a live container
returns it and signs again, where the store answers with a conflict; the filters
of `ListContainers` (`runtime.go:246`) are label names, which Docker does not
know as filters, so the listing may fail on every start (`StartBlind`; `Start`, the other case, takes it to work as meant); nothing
in the repository reports channels to the bastion's session table, so rosters
are empty and every lease idles out after 30 minutes; a drain ends no channel,
although `bastion-mgmt/main.go:4` and the log line at 124 say that it terminates
them. Of two identical requests
that arrive together the second is refused as incompatible (`leases.go:755`), not
answered as a duplicate. A POST whose answer is lost is retried and judged twice.
The idempotency key is stored with each record, but a restart does not read it
back, so the same files are judged again. A duplicate is told that its submission
is accepted although the save of it failed. A record may keep the status of one
answer with the score of another, and a final status is cached for ever, torn or
not. The log handler reads `Containers[0]` after its check (`leases.go:918-928`),
and an answer without containers may be written in between. The parts of a CSOJ
id are joined by `_`, which their encodings contain, so that ("ab", "cd?ef") and
("ab?cd", "ef") have one id although `adapter.go:83` calls the encoding
collision-free, and two courses with equal contests share one problem. A sync
without a judge configuration replaces the judge's definition on a PUT, which
`adapter.go:515-516` says it does not. `RegisterKey` keeps in memory a key whose
save failed (`filestore.go:150`). The command line sends no principal with a
submission (`cmd/hpc101/main.go:351`), so that all students share one idempotency
scope for equal problems and file names.

## 5. Proofs

Checked by TLAPS for every set of students, every combination of faults and
every value of the bounds, except where a theorem names a hypothesis. The
assumptions are those the modules declare: `LeaseAssumption` (the two durations are
naturals) and `StoreAssumption` (the fault names exist, the bounds are naturals and
the clock gets past 0); for submissions, `SubmissionsAssumption`, for every set of
requests, scopes and payloads and any number of retries; for results,
`ResultsAssumption` (polls and reads are told apart), for any number of each and of
restarts; for problem synchronisation, `ProblemSyncAssumption` (there are courses,
contests and problems), for every number of syncs and of calls at the judge, every
clash of ids and both ways to list problems.

| theorem | states |
|---|---|
| `TypeCorrect` | `Spec => []TypeOK` |
| `Settles` | `Spec => []LeasesSettled` |
| `Justified` | `Spec => []ReleaseJustified` |
| `Refines` | `Spec => AtomicSpec` |
| `SnapshotOnlyLags` | `Spec => []SnapshotLags` |
| `LifetimesKept` | `Spec => LifetimeKept` |
| `StopsOnlyAfterDrain` | `Spec => StopsAfterDrain`, if no container exits or vanishes by itself |
| `ActiveRuns` | `Spec => []ActiveIsRunning`, without the faults in `Surprises` |
| `RestartTypeCorrect` | `RestartSpec => []RestartTypeOK` |
| `RestartSettles` | `RestartSpec => []LeasesSettled` |
| `NoOrphans` | `RestartSpec => []NoOrphanServing`, without the faults in `Leaving` |
| `MislabelledOnly` | `RestartSpec => []OnlyMislabelledReclaimed` |
| `RosterTypeCorrect` | `RosterSpec => []RosterTypeOK` |
| `RosterReleasesJustified` | `RosterSpec => []ReleaseJustified` |
| `RosterLifetimesKept` | `RosterSpec => LifetimeKept` |
| `SnapshotKeptCurrent` | `RosterSpec => []SnapshotCurrent`, with a snapshot whose saves succeed |
| `SessionsPostRosters` | `SessionsSpec => RosterSpec` |
| `SessionsTypeCorrect` | `SessionsSpec => []SessionsTypeOK` |
| `NoPhantoms` | `SessionsSpec => []NoPhantomChannel` |
| `ForgetsWhenCleared` | `SessionsSpec => ForgetsOnlyWhenCleared` |
| `ConnectedStay` | `SessionsSpec => ConnectedStays` |
| `SubmissionsTypeCorrect` | `SubmissionsSpec => []SubmissionsTypeOK` |
| `Matches` | `SubmissionsSpec => []DuplicatesMatch` |
| `Owned` | `SubmissionsSpec => []ReservationsOwned` |
| `Served` | `SubmissionsSpec => []WaitersServed` |
| `SecondOnlyAfterWaiter` | `SubmissionsSpec => []SecondAfterWaiter` |
| `ResultsTypeCorrect` | `ResultsSpec => []ResultsTypeOK` |
| `StoreSettles` | `ResultsSpec => []StoreFollows` |
| `ProblemSyncTypeCorrect` | `ProblemSyncSpec => []ProblemSyncTypeOK` |
| `Judged` | `ProblemSyncSpec => []MappedIsJudged` |
| `Durable` | `ProblemSyncSpec => []MappingDurable` |
| `ForeignKept` | `ProblemSyncSpec => []ForeignProblemsKept` |
| `Heals` | `ProblemSyncSpec => RetryHeals` |

**The hypotheses** name what the code does not survive, and no more: TLC refutes
each property with any one of the excluded faults. `Surprises` are a container that
exits or vanishes by itself ("exit", "lost"), which the controller does not watch,
and a stop that fails after it has changed something ("stopGone", "remove"), after
which the release is rolled back. `Leaving` are the removals that fail and leave
the container ("leftover", "stop", "remove"). `SnapshotKeptCurrent` fails with failing
saves, by the behaviours in sections 3 and 4.
Every other fault is allowed in all of these theorems.

**The store.**

None of the safety properties is inductive. A save writes *every* lease, so that
the snapshot is settled needs every *other* student's lease to be settled at that
moment, which needs that no one else is in the middle of anything. `IInv` is
therefore `TypeOK`, `MutualExclusion`, and for each student `PhaseOK`: what its
lease looks like at each phase (Closing before the drain, Draining before the
stop, Closing or Draining before a rollback, and so on), and that the prior lease
and the snapshot are settled. `OnlyOne` lifts a step on one student to all of
them; there is one lemma per action; `NextInv` puts them together.
`ReleaseJustified` is inductive relative to `IInv` because nothing writes the
lease while the mutex is held and a condition that holds goes on to hold as the
clock moves (`DueStays`). The refinement adds `Named` (a lease that stands for a
service has its identifier, and a service just made has the newest one), shows
it invariant, and maps each action to a step of `AtomicLeases` or a stutter.

`LeaseStoreAgreement` adds three invariants to `IInv`. `SnapshotInv` compares the
snapshot with what memory would be if the work in progress were undone (`Undone`:
the prior lease of a create, the Active lease of a release): they are equal, or
the snapshot has missed a release (`Lags`). It is preserved because the steps of a
release change nothing that undoing it does not restore (`UnreleaseUndoes`).
`RunningInv` follows the container from the create's answer to the stop (`Serves`),
so that a rollback finds it running. `Dated` gives the records of one container one
deadline, the prior lease of a create included.

**Restarts.** `RestartInv` says that nothing is in progress while the controller is
down or starting: `IInv` survives a crash at any step as memory is emptied and the
snapshot is settled. For `NoOrphans`, `OwnedInv` has an owner for every container
while the controller serves and, during a restart, a place for it in the listing
that `Reattach` works through (`Listed`). `MislabelledOnly` rests on the listing being
that of the containers there are for as long as the restart takes, as nobody makes or
removes one meanwhile (`Labelled`).

**Rosters and the session table.** `RosterInv` adds that a copy a roster works on is
settled: it was taken of an Active lease when nobody held the mutex. It need not be
the lease of now, and where it is not, `RosterDated` says that the two are of one
container only if they have one deadline. `TableInv` bounds the table by the channels
that are open or closing. `ConnectedStay` needs four more: channels go to a running
container whose lease is reachable (`ChannelInv`); a roster is reconciled within its
tick and looks at each student once (`TurnInv`); and whoever the table has counted
since an earlier tick has a count in the lease, or in the copy that is about to be
written (`CountedInv`). The idle condition is read under the mutex
(`IdleFindsNone`), so that the release of a counted student begins for another
reason. `SessionsPostRosters` carries the theorems about `Roster` over to `Sessions`.

**Submissions.** In `SubmissionsProofs`, `IInv` says of each request what it may be looking at (the
entry of another request of its scope), that its entry is in flight exactly while
it is at work, and that an accepted entry has a submission at CSOJ (`RequestOK`);
and of each scope that whoever holds it without being in the map lost it to a
waiter that was told of a failure (`Kept`). That last part is what makes
`SecondAfterWaiter` inductive: `SubmitFails` may also delete a foreign
reservation, but only of a scope in which the failing request had already lost
its own to a waiter.

**Results.** `OneRecord` says that until a restart all queries hold the record of the
submission, `OwnRecords` that after it none does, and that a query about to load a
copy is the only one that will have it. `StoreFollows` comes from `Following`: as
long as the store lacks something, a query is between its answer and its save, and
the save copies the record as it is by then.

**Problem synchronisation.** In `ProblemSyncProofs`, `CInv` is what holds however calls
cross: types, the map and its snapshot are one (`Durable`), a handler whose caller waits
is about the call that the caller is at, and nobody waits for two. `SInv` adds what holds
until two writing calls meet: there is one handler at most, and what it looked at is
still so when it writes (`Ready`); what is loaded only lags behind the files, and not at
all between handlers; no problem is in two contests; a request that is about to update
or to map its problem has it in its contest (`Knows`), and so has the map (`Mapped`).
The look of a sync and its write are still separate steps, with other syncs' whole
calls in between: `Knows` survives these as lists only grow (`Grows`), and the clashes are
decided by the judge's refusal to create a problem twice. Nothing is assumed of the
judge's atomicity: the handlers take their four steps in the proofs as in the runs.

`Heals` needs what each call before has told a request that was answered every time
(`OnCourse`: the contest is there, or is not; the problem is not in it, or is not
at all), and that nobody has written since: `Apart` says that a request which has
met no other is the only one, and `Lonely` that whatever runs at the judge is its own.

Only model-checked: liveness (`DueIsReleased`, `AskedIsShown`), which, with
fairness and ENABLED, is outside what the prover does. That the waits of
`Submissions` end is `WaitersServed`, which is proved, with the deadlock check of
the run, which is not.

## 6. Not modelled, and the plan

Left out for good: encodings (JSON, base64, SSH certificates), endpoints and
names, the CA and its key file, the command line's output, manifests and images,
and judging itself, which is third-party code behind an HTTP interface. Networks:
the program never creates one.

Not modelled yet, because nothing that changes state depends on it: the log
stream (frames passed through), the read-only handlers (`handleProblems`,
`handleScores`, `handleLeases`, ssh-info), and key registration, which appears only
as a writer of the snapshot. Of CSOJ, only the handlers that the platform's syncs call
are here.

What is left is proofs, in order:

1. A refinement of `Submissions`: an abstract table in which a scope is held by at
   most one request until a waiter has been told of a failure.
2. The steps of `Restart` as an abstract store that loses what was in progress: a
   crash drops a create or release in progress, or lets it take effect when the
   container is listed.
3. `Refines` under rosters, for the behaviours in which no upsert crosses a release.
