# kleffd in TLA+

`kleffd` is the daemon of a game-server node. A platform puts jobs on a queue
(provision, start, stop, restart, delete a workload; install or uninstall a mod);
the daemon takes them off, carries them out on Docker or Kubernetes, keeps a
record of each workload, reports status and metrics, and ships the workloads'
logs. This directory holds a TLA+ model of it, the TLC configurations that check
the model on small instances, and TLAPS proofs.

    tlc -workers 2 -config MCMemoryDispatch.cfg MCMemoryDispatch.tla
    tlapm MemoryDispatchProofs.tla

`PROJECT.json` lists the components, the runs with their properties, the mutants, the source
lines behind every definition, the hazards, the findings and the theorems.

## 1. Inventory

Paths are relative to `src/`. "Hard" names what a unit test hardly reaches;
"right when" is what makes the part correct.

**Jobs** (`internal/workers/jobs`). State: a job's status, `Attempts`,
`MaxAttempts`. Operation: `CanRetry`. Right when a job gets no more tries than
`MaxAttempts`, or one if that is zero.

**Dispatcher** (`internal/workers/dispatcher.go`). State: the position of the
polling loop, the job in its hand, a semaphore, the goroutines that hold a token.
Operations: look at the context, dequeue, find the handler, take a token, run the
handler, report to the queue, give the token back. Calls: the queue, the handlers.
Hard: goroutines that report while the loop dequeues; a loop blocked on the
semaphore with a job in its hand; cancellation that only the top of the loop sees;
errors of the queue's calls that nobody looks at. Right when every job that is
taken is settled or put back by one goroutine, for the reason its handler gave,
and `Run` comes back with nothing half done.

**Memory queue** (`internal/adapters/out/queue/memory.go`). State: a slice, a map,
and fields of job objects it shares with the dispatcher. Hard: a job in two places
or in none; starvation by retries. Nothing in `kleffd` enqueues on it; it serves
development and the tests, and it is the reference for the other backend.

**Redis queue** (`internal/adapters/out/queue/redis.go`). State: two lists, a
sorted set and a dead list in Redis, shared by every daemon on that Redis. A
method is several commands. Hard: a command that fails between two others, a lost
reply, a daemon that dies, several daemons at once, a count of attempts kept in
two places. Right when a job has at most one live copy, and a job that goes astray
is explained by a failure.

**Server workers** (`internal/workers/*_worker.go`). State: none of their own; they
drive the runtime adapter, write the repository and tell the platform. Hard: jobs of
one workload that overlap (nothing serialises them), a chain of calls that fails in
the middle, container ids that have gone stale, calls that fail because the daemon
is stopping. Right when Docker, the repository and the platform agree in the end.

**Mod worker** (`mod_worker.go`, and `InjectFile`, `RemoveFile` of the Docker adapter).
Downloads a file into a workload's storage or removes one. The only source of permanent
errors. Hard: a file is emptied before its new content arrives, and the file API works in
the same directory. Right when a job that ends well has stored what it fetched, and one
that fails leaves nothing half written.

**Server repository** (`adapters/out/repository/memory`). State: a map of records
under a mutex, lost with the process. `Save`, `UpdateStatus`, `ListAll`.

**Docker adapter** (`adapters/out/runtime/docker`). State: in Docker: containers, their
labels, networks. `Deploy`, `Start`, `Stop`, `Remove`, `Discover`, `Status`, `Logs`,
`Endpoint`, and the networks of the projects. Hard: look-ups that are stale when used,
`Deploy` that is not atomic, the pruning of networks that are about to be used, an address
pool that is exhausted. Right when containers are touched for their own tenant only, and
tenants share no network.

**Labels** (`pkg/labels`). What is left of a workload's identity after a restart. Hard: each
worker fills in a missing project in its own way, the adapter's operations look at different
labels, and old containers have fewer. Right when a tenant reaches its own workload, nobody
else does, and its data stay in one directory.

**Kubernetes adapter** (`adapters/out/runtime/kubernetes`). The same interface over
Deployments, StatefulSets and Agones GameServers. Hard: resources created and
deleted one by one; readiness that times out; a strategy found anew for each call.

**Log tailer** (`internal/logs/tailer.go`). State: a map from workload to the cancel
function of its tailing goroutine. A reconciling loop reads the repository every
three seconds, starts and cancels goroutines; they delete their entry when they end.
Hard: a goroutine that ends after its successor has started; entries without a
goroutine and goroutines without an entry. Inside a tail: a pipeline of four
goroutines, a bounded channel, batches that are shipped or lost. Right when every running
workload is tailed, and its lines arrive in order and to the last.

**Metrics scraper** (`internal/metrics/scraper.go`). State: the last cumulative
totals of each workload. Hard: deltas over restarts and over failed stats; a report
that overtakes a worker's. Right when the platform, which adds the deltas up, charges nobody
for what it did not use.

**Platform client** (`adapters/out/platform`). Registers the node, reports status,
ships logs: HTTP requests that may be lost.

**File API** (`adapters/in/fileapi`). HTTP handlers over the workloads' directories, several
at a time. Hard: archives that fail half-way, files replaced while others write them, the
many spellings of a path. Right when an upload that is confirmed is stored.

**kleffctl** (`cmd/kleffctl`). Migrates old containers: stop, rename, create, start, remove.
Hard: a failure between any two, and the run that is then repeated. Right when every
workload keeps a container under its name, and a migration called complete is.

**kleffd main** (`cmd/kleffd`): queue, `Discover`, registration, dispatcher, scraper,
tailer, in this order; SIGTERM cancels one context for all. **Configuration**
(`internal/app/config`), **logging**: conversions and output. **SQLite** (`adapters/out/db`,
`repository/sqlite`): opened and not used. **Readiness waiter** (`workers/readiness.go`): not
called. **testprovision**: a manual test program.

How they interact:

    platform --enqueue--> queue <--dequeue / report-- dispatcher --runs--> workers
    workers  --calls--> runtime adapter --> Docker / Kubernetes
    workers  --Save, UpdateStatus--> repository <--ListAll-- tailer, scraper
    workers, scraper --ReportStatus--> platform <--ShipLogs-- tailer
    scraper  --Status--> runtime adapter <--Logs-- tailer
    mod worker --InjectFile, RemoveFile--> workload's directory <-- file API
    kleffctl --> Docker

`PROJECT.json` lists, under `hazards`, each hard place at its line with the
properties that watch it.

## 2. Modules

| module | models | composed of |
|---|---|---|
| `Job` | status values, `CanRetry` | |
| `JobLifecycle` | what a queue and its dispatcher promise of a job: tried by one goroutine at a time, put back only while attempts are left, never touched once settled | |
| `Dispatcher` | the dispatcher's half of each step; the queue is left open | `Job` |
| `MemoryQueue` | the in-process backend, a method a step (each holds the mutex throughout) | `Job` |
| `MemoryDispatch` | dispatcher and in-process queue; implements `JobLifecycle` | `Dispatcher`, `MemoryQueue` |
| `RedisQueue` | the Redis backend, a command a step, with failures | `Job` |
| `RedisDispatch` | several daemons on one Redis, crashes, restarts; implements `JobLifecycle` | `Dispatcher`, `RedisQueue` |
| `ServerLifecycle` | the handlers of one workload's jobs, its container, record and status; the queue is an instance of `JobLifecycle` | `JobLifecycle` |
| `TailMap` | the map of the tails, and what its entries lead to | |
| `Tailer` | reconciling loop, tailing goroutines, shutdown | `TailMap` |
| `TailPipeline` | the goroutines of one tail, from the open log to the platform | |
| `Scraper` | the scraper's deltas, with a ledger of every unit of traffic | |
| `ScrapedLifecycle` | the scraper's reports among those of the workers | `ServerLifecycle` |
| `DockerScope` | networks of namespaces and projects: ensured, pruned, run out of | |
| `KubernetesRuntime` | one workload on Kubernetes, three strategies, overlapping handlers | |
| `WorkloadFiles` | a workload's directory under file API requests and mod jobs | |
| `MemoryDispatchProofs`, `RedisDispatchProofs`, `ScraperProofs`, `DockerScopeProofs`, `KubernetesRuntimeProofs`, `WorkloadFilesProofs` | theorems about the module of that name | |
| `ServerLifecycleProofs` | theorems about `ServerLifecycle` and about `ScrapedLifecycle` | |
| `TailProofs` | theorems about `TailPipeline` and about `Tailer`, of which it has an instance | |
| `MCMemoryDispatch`, `MCRedisDispatch`, `MCServerLifecycle`, `MCScrapedLifecycle`, `MCDockerScope`, `MCWorkloadFiles` | values for TLC | |

`JobLifecycle` is the seam: the two dispatch modules are shown to implement it, and
`ServerLifecycle`, which needs a queue only for handing out jobs, uses it in their
place.

### Correspondence

*Dispatcher.* `loop[d]` is the place of `Run` ("select" is the `select` at the top,
"acquire" the send on the semaphore, "waiting" `wg.Wait`), `hand[d]` the variable
`job`, and a goroutine is named by the token of the semaphore it holds. `<-sem` and
`wg.Done()` follow one another without touching anything shared, so they are one step.
A handler is its outcome: success, an error, or an error that wraps `ErrPermanent`.
`slot[s].pc` then says which call on the queue the goroutine makes.

*MemoryQueue.* `pending` is the slice, `processing` the keys of the map, `status` and
`attempts` fields of the job objects.

*RedisQueue.* The head of a sequence is the end of the list the next command takes
from. The sorted set is split into the members whose score lies in the future
(`delayed`) and those it has passed (`due`); `Ripen` is the clock, and since scores
come from several daemons' clocks it may pass them in any order. `removed[c]` is the
copy that `Retry` and `MarkFailed` have taken out of `processing` and still have to
write elsewhere. A command that fails (`Fault`) does so without an effect, except
BLMOVE, whose reply may be lost after the effect. That the client library resends a
command when its reply is lost is not modelled. `LRANGE` and `LREM` are one step: `LREM`
removes by value the copy `LRANGE` showed, which no other caller removes.

*RedisDispatch.* `attempts[c]` is the `Attempts` field of the object a thread works on;
`promoted` holds the loops that are between the two commands of `Dequeue`. `Crash`
forgets all that is in a process and keeps what is in Redis; `Restart` starts a daemon
again, and as in `main` nothing looks at the processing list.

*ServerLifecycle.* `at[j]` is the call the handler of job `j` makes next, `found[j]` the
container id it carries along, `container` what Docker has under the workload's name,
`record` its repository entry, `reported` the last status a worker got through.
`Restart` is `Stop` and `Start` of the adapter, so it looks the container up twice.
A Docker call may fail before or after its effect; while the daemon is stopping every
call may, because the handlers run under the cancelled context. A handler's last report
and the dispatcher's call on the queue are one step. Assumed: all specs of the workload
lead to one container name (`containerName` falls back to the server id when the
owner's name is missing), as the platform sends them. `Endpoint` changes nothing.
In the real daemon at most one job is still begun after SIGTERM; the model allows any.

*Tailer.* The record and the container of a workload change at any time
(`WorldChanges`); `running` is the map, with goroutines in place of cancel functions;
`done` holds the goroutines whose context is cancelled. Looking into the map and inserting
are two critical sections in the code; only the reconciler inserts, so they are one step.
A tail is "opening", "streaming" and, while it ships the last batch and before its
deferred function runs, "leaving". In the workloads of `Overlong` a line may be too long for the
scanner; the tail is then "silenced" and ends only when it is cancelled. `LogFails` is a Docker
that does not answer and a log connection that breaks, whose error is dropped (`tailer.go:136`). `main` does not wait for the tailer: that the process
may end earlier is a hazard listed without a property.

*TailPipeline.* A line is its number. `copier` is the goroutine in `stdcopy.StdCopy`,
`scanner[s]` the two `scanStream`, `lines` and `closed` the channel; an `io.Pipe` holds
nothing, so a line goes from copier to scanner in one step. The stream of each line and the
line that is too long for `bufio.Scanner` are chosen at first. Once the log is `broken` no more
is read of it, and the copier ends as if the log had. `gone` is history: the lines in
the batches shipped, taken by the platform or not (a failed batch is dropped with a warning).

*Scraper.* One counter stands for the four that `scrape` treats alike. `pc`, `todo` and
`activeIDs` are where the loop over `ListAll` stands, `update` the report at hand. `up` and
`total` are Docker's: a counter that starts at 0 whenever the container does. `ledger` is
history: every unit of traffic is billed, lost (in a report that failed), missed (never
measured before the container stopped) or masked (below the snapshot of an earlier life),
and what was measured and then forgotten may be measured twice. `MeasureZeros` is the failing
`collectStats`, on which `Status` answers with zeros and no error.

*ScrapedLifecycle.* Adds the scraper's three steps for one record (look, ask, report) to
`ServerLifecycle`. A report that is stale when it is made counts as a disturbance. The scraper
asks by the project in the record (`asked`), which need not be that of the container any more:
after a delete that failed once Docker had removed the container, another project's start job
makes one that the record does not belong to, and the scraper passes the workload over.

*DockerScope.* `pc[w]` is the Docker call that the worker deploying `w` makes next. A network
stands in `nets` under the tenant whose id is its label, by which it is looked up; it is made and
used by `NetName`, in which `ShortID` is what `shortID` leaves of the id. A name that is taken
counts as a network that was made, whosever it is. `scope` and `net` hold names, too. Only running
containers are listed by `NetworkInspect` and keep a network from being removed.
`TeardownProjectScope`, which nothing calls, and a fixed `node_network`, with which there is
nothing to make or prune, are left out.

*KubernetesRuntime.* `main` is the object named after the workload, of the kind its strategy
makes, `service` the Service. `strategyFor` is one step for its three Gets, none of which
changes anything; five minutes of polling are one step that finds the GameServer ready or not,
so that any number of other steps fit before it. A restart goes on as a start once its stop is done.
A GameServer that was deleted is "terminating" until its finalizers have run: it is found, deleted
again and even waited for, and stands in the way of the next. Reports may be lost. The scraper
reads the record, asks for the status and reports in three steps. `unheard` is history: since the
last report that arrived from a handler, one was lost or a stale one came.

*WorkloadFiles.* Directories and links to inodes, with the open descriptor of each client:
`os.Create` empties what is there, a write goes to the open inode, wherever it is linked by
then. A content is the number of the request that wrote it, or `Torn`. Paths are sequences
of components; `Clean` is `filepath.Clean`. `Requests` is what may be asked for, the paths
already made safe: an upload, an archive or an install stores its `entries` in turn, of which `nth`
is the one it has come to; the other operations change the tree in one step. The calls to the system do what Go's
do: `os.Create` needs the parent directory and, for a new file, a free inode; `os.Rename` replaces a
file but no directory, and moves no directory below itself; `os.Remove` takes an empty directory
and not a full one, and after a failed install it may fail where the disk has failed the copy
("spoilt"), which the code does not look at; `os.RemoveAll` of what is not there succeeds, but fails below a file. `touched` is
history: whether someone else's request met this one's files; `before` too: what the files were when
the request began.

Definitions marked as mutants are changed copies of the definition that follows them;
they belong to no specification, and show that a property can fail.

## 3. Runs

| run | instance | states | shows |
|---|---|---|---|
| `memory_dispatch` | 1 loop, 2 tokens; a job with 2 tries, one with `max_attempts` 0, one of unknown type | 11,372 | safety, refinement, liveness of dispatcher and in-process queue |
| `redis_dispatch` | 2 daemons with 1 token, 2 jobs with 3 and 1 tries, 2 failing commands, 1 crash | 471,110 | safety and refinement under faults |
| `redis_recovery` | 1 daemon, 1 token, a job, one of unknown type, one that does not parse; 1 fault, 1 crash, 1 shutdown | 108,464 | every job is settled or accounted for |
| `server_lifecycle` | 2 jobs of any type with 2 tries, a start or delete of a foreign project; 1 fault, exit, crash or SIGTERM | 1,959,032 | agreement, authorisation |
| `scraped_lifecycle` | a delete, a start, and a stop or restart, with 1 try each, the scraper; 2 troubles | 1,242,538 | the scraper among the workers |
| `scraper` | 2 workloads, 3 units of traffic, 2 troubles | 721,368 | billing |
| `tailer` | 2 workloads, one with over-long lines, 4 goroutine names, 3 changes | 92,082 | map and goroutines match in the end |
| `tail_pipeline` | 4 lines, a channel of 1, batches of 2, at most one line too long, a log that may break | 320,434 | what is read of a log arrives in order and whole |
| `docker_scope` | a workload each of 2 projects and a namespace with one short id, and of another project; addresses for 1 network; 2 failed calls | 1,444,401 | networks under pruning |
| `kubernetes_runtime` | each strategy, 2 handlers, 4 jobs, the scraper, 1 trouble | 721,012 | agreement, Services, every handler ends |
| `workload_files` | 2 clients, 3 requests or mod jobs, 1 trouble, 3 inodes, paths of 2 names | 1,876,868 | what is confirmed is stored |
| `tailer_one_per_workload` | 1 workload, 4 names, 3 changes | | a finding, see section 6 |

What the properties say.

- `OneHolder`, `OnePlace` (memory), `OneLiveCopy`, `SettledOnce` (Redis): no job is worked
  on twice, queued twice, lost, or settled twice, also with two daemons and through a crash.
- `EndsForCause`, `AttemptsAreCounted`, `RemovesItsOwnCopy`: the verdict
  on a job is its handler's, and the limit on tries is kept although Redis counts them apart
  from the daemon.
- `NewcomersAreNotOvertaken`: while a job waits for its first try, only jobs that stood in the
  slice when it came are dequeued; a job that is put back meanwhile has its turn after it.
- `ShutdownLeavesNothingHalfDone`, `ShutdownReturns`: `Run` returns, and only when no job is
  being processed.
- `StrandedAreAccountedFor`, `EveryJobSettles`: a job that nothing will ever look at again is
  the work of a fault, and the faults bound their number. (The code has no recovery of
  the processing list; this states how much that can cost.)
- `ImplementsLifecycle`: both dispatchers implement `JobLifecycle`.
- `SameGoalAgrees`: handlers that overlap and want the same of a workload leave Docker, the
  repository and the platform in agreement. Handlers that want different things do not, and
  no property claims it.
- `RepositoryMirrorsDocker`: from start-up on, as long as overlapping jobs want the same and
  nothing else interferes, the record shows what Docker has whenever no handler is at work.
  A container without a record is possible: a start job that creates the container of a
  workload whose provision failed updates no record.
- `TouchesOnlyItsOwn`: the project check of `findContainer` protects the calls that
  follow it, because they name the id it returned.
- `RunningIsTailed`, `EntriesAreTails`, `StoppedIsLetGo`, `ShutdownEndsTails`: see `Tailer.tla`.
- `LinesInOrder`, `ReturnsWithAllLines`, `TailEnds`: four goroutines and a bounded channel
  neither reorder, drop nor double a stream's lines; a tail that nobody cancelled returns only
  when the log is shipped to its end, or to where its connection broke; and it does return,
  unless a line was too long for the scanner, which leaves the copier blocked on a pipe that
  nobody reads.
- `TrafficIsAccountedFor`, `NeverOverbilled`, `CatchesUp`: nothing is reported twice but what was
  reported before a snapshot was dropped (a daemon restart, a record that was not listed, a
  failing `collectStats`), and every unit that is not reported is lost, missed or masked.
- `ScrapedGoalAgrees`: an up-to-date report of the scraper disturbs nothing, but for one word:
  of a container that was created, never started and then stopped, the stop worker says
  "stopped" and the scraper, if it looked at the record before, "pending". (It takes a delete that
  fails after its effect and a start that fails after creating the container.)
- `TruthIsTold`: a wrong or missing report is made good as long as the record says "Running" and
  names the container's project. Without the latter it is not: see `ScrapedLifecycle` above.
- `SharedForCause`, `NetworksInUseStay`: tenants meet for two causes only: on Docker's default
  network, where `EnsureProjectScope` puts projects (never namespaces) when no address is left, and
  on the network of a tenant of the same kind whose id is cut to the same name; the pruning takes no
  network with a running container, and no namespace's. A stopped container of a project may
  lose its network, and does.
- `SameGoalAgrees`, `SetsHaveTheirService`, `HandlersEnd` (Kubernetes): as for Docker, except
  that the platform may be left with another word than the handlers' where a report was lost or
  the scraper's, made for a record that has changed since, overtook the last one; and as
  long as no call fails, deploys and removals that overlap leave no set without its Service.
- `StoredWhenOk`, `FailedStoresAPrefix`, `FailedInstallLeavesNothingTorn`: what an upload, an
  import or an install leaves behind, while other requests rename and delete around it. They
  are claimed of requests whose own files nobody else meddled with (`touched`); a part of a mod
  may stay where a disk that failed the copy fails the removal, too.
- `FilesElsewhereStay`: a file that no request names, by its path or one above it, and nobody has
  open, does not change; a failed download clears up its own name and no more.

Each module has a type invariant. Where it is proved (section 4) the runs do not check it
again; `redis_dispatch` does.

### Bounds, and why they are enough

Two tokens (or daemons) are needed for two handlers to meet, and a third adds no kind of
step. Two tries let a job be put back and then used up; three, on Redis, let a second
delayed copy appear. A crash, two failed commands and a delayed job together make the
orphaned copies in `processing` that `RemovesItsOwnCopy` is about. The Redis script
promotes 100 jobs at a time; the bound of one in the runs makes the limit matter with two
jobs. Three jobs in `server_lifecycle` are what it takes for one handler to look up a
container, a second to remove it and a third to create another; two tries let a handler
meet what its own failed attempt left. One trouble is enough to break any chain of calls
at any place. The four names of `tailer` are never all in use within its three changes
(an invariant saying so holds in that instance), so no start of a tail is held back. In
`server_lifecycle` the two jobs of the owner are interchangeable, and the run, which has
no liveness property, uses that symmetry.

In `scraper` three units let a restarted counter stay below, meet and pass the old snapshot,
and two troubles put a restart before or after a lost report. A channel of one makes the
scanners wait at once; four lines fill a batch, leave one over, and put two lines of one stream
around lines of the other. Addresses for one network, with two
projects of one name and a third, are the least with which a network is pruned while the worker of
another tenant, whose name it bears, relies on it, and with which the retry after the pruning fails; the
namespace, whose id is cut to the same, shows that the prefix keeps the kinds apart. That no larger
pool behaves otherwise is proved. Four jobs on Kubernetes allow a
deploy to be removed and made again around another handler. Three requests let a third change the
tree between two steps of an upload and of an install; three inodes let two clients fill the disk,
and with paths of two names an entry lies in the root or in a directory that others move or remove. A rename
whose outcome would need longer paths is held back by the bound (`Fits`). `scraped_lifecycle` gives a job one try:
the second doubles the handlers' states without a step that the scraper could tell apart. Its
three jobs and two troubles are what it takes for a running record to be left with a container that
never ran. All are of one project; `ScrapedGoalAgrees` is proved for any.

Deadlock is checked in the Redis runs, whose daemons are restarted for ever, in `scraper`
and in `docker_scope`. The other systems really stop: a dispatcher that has returned, a tailer
after shutdown, a pipeline whose reader was cancelled, a workload without jobs.

### Fairness

Each loop and each goroutine is weakly fair: the Go scheduler runs what can run. A handler
is taken to return; every Docker and HTTP call it makes answers or fails in the end.
Time passes (`ClockTick`), and a daemon that ended is started again by its supervisor
(`Restart`); that is used only by `redis_recovery`. In `Tailer` returning after a
cancellation is strongly fair: it becomes enabled again and again, whenever the reconciler
waits, and `select` does not pass over a ready case for ever; so is `Return` in
`TailPipeline`, whose other goroutines are weakly fair each on its own. `Scraper` and
`ScrapedLifecycle` assume weak fairness of the scraper's next step: its ticker ticks, calls to
Docker are taken to answer, and those to the platform do or time out. `KubernetesRuntime` has each
handler weakly fair; the five minutes that `waitForAgonesReady` polls are its timeout, so
fairness of Agones is not needed. Nothing is assumed of the
platform, of Docker's containers, of SIGTERM, crashes and faults.

## 4. Proofs

Eight modules hold theorems. All are proved for every value of the constants that the named
assumptions allow: any sets of jobs, loops, tokens, workloads, handlers, tenants, any log,
channel and bound.

| module | theorem | property |
|---|---|---|
| `MemoryDispatchProofs` | `TypeCorrect`, `JobsHaveOneHolder`, `JobsAreInOnePlace`, `JobsEndForCause`, `NewcomersKeepTheirTurn`, `ShutdownIsClean`, `MemoryImplementsLifecycle` | `TypeOK`, `OneHolder`, `OnePlace`, `EndsForCause`, `NewcomersAreNotOvertaken`, `ShutdownLeavesNothingHalfDone`, `ImplementsLifecycle` |
| | `AttemptsStayBounded`, `SettledStaysSettled` | `AttemptsBounded`, `SettledIsFinal` (not in a run) |
| `RedisDispatchProofs` | `RedisTypeCorrect`, `JobsHaveOneLiveCopy`, `JobsSettleOnce`, `AttemptsAreCountedRight`, `ThreadsRemoveTheirOwnCopy`, `LossesAreAccountedFor`, `RedisImplementsLifecycle` | `TypeOK`, `OneLiveCopy`, `SettledOnce`, `AttemptsAreCounted`, `RemovesItsOwnCopy`, `StrandedAreAccountedFor`, `ImplementsLifecycle` |
| `ServerLifecycleProofs` | `TypeCorrect`, `HandlersTouchTheirOwn`, `SameGoalIsAgreedOn`, `RepositoryIsAMirror` | `TypeOK`, `TouchesOnlyItsOwn`, `SameGoalAgrees`, `RepositoryMirrorsDocker` |
| | `ScrapedTypeCorrect`, `ScrapedGoalIsAgreedOn`, `ScrapedRepositoryIsAMirror` | of `ScrapedSpec`: `ScrapedTypeOK`, `ScrapedGoalAgrees`, `RepositoryMirrorsDocker` |
| `TailProofs` | `TailerTypeCorrect`, `EntriesStayTails`, `ShutdownReaches` | of `Tailer`: `TypeOK`, `EntriesAreTails`, `ShutdownReachesAll` (the safety behind `ShutdownEndsTails`) |
| | `TypeCorrect`, `LinesStayInOrder`, `ReadLinesAreShipped`, `NoSendAfterClose` | of `TailPipeline`: `TypeOK`, `LinesInOrder`, `ReturnsWithAllLines`; no scanner can meet a closed channel |
| `ScraperProofs` | `TypeCorrect`, `TrafficStaysAccountedFor`, `NobodyIsOverbilled`, `BooksAreExact` | `TypeOK`, `TrafficIsAccountedFor`, `NeverOverbilled`, `ExactWithoutTroubles` (not in a run) |
| `DockerScopeProofs` | `TypeCorrect`, `TenantsMeetForCause`, `PruningSparesNetworksInUse` | `TypeOK`, `SharedForCause`, `NetworksInUseStay` |
| `KubernetesRuntimeProofs` | `TypeCorrect`, `SetsKeepTheirService`, `SameGoalIsAgreedOn` | `TypeOK`, `SetsHaveTheirService`, `SameGoalAgrees` |
| `WorkloadFilesProofs` | `TypeCorrect`, `SuccessMeansStored`, `FailureStoresAPrefix`, `FailedInstallIsClean` | `TypeOK`, `StoredWhenOk`, `FailedStoresAPrefix`, `FailedInstallLeavesNothingTorn` |
| | `NobodyReachesElsewhere` | `FilesElsewhereStay` |

The inductive invariants, each called `IInv` (`TailerInv` where two share a module):

*MemoryDispatch.* `TypeOK /\ HandsMatch /\ ReturnedAreDrained /\ OneHolder /\ OnePlace /\
Ledger`. `OneHolder` is not inductive alone: a step of the loop could overwrite a job in its
hand, or drop one, unless the hand is full exactly at "lookup" and "acquire" (`HandsMatch`).
Shutdown is clean because a job in `processing` has a holder (`OneHolder`), a returned loop has
an empty hand (`HandsMatch`) and no goroutine (`ReturnedAreDrained`), and a loop that has
returned never spawns again. `AttemptsBounded` and `EndsForCause` need to know that what a
goroutine is about to report agrees with what its handler said and with the attempts at that
moment (`ReportsMatch`), and that a new job is untried (`NewAreUntried`); these are the `Ledger`.
`NewcomersAreNotOvertaken` is about steps: `Dequeue` takes the head of the slice, so what it must show is
that whoever stands before an untried job was there when that job came (`BehindTheAhead`), and that an
untried job stands nowhere else (`UntriedWait`); the two are `Arrivals`. The refinement uses `IInv` to show that each step moves at most one job along
`JobLifecycle` (`StepMovesOneJob`).

*RedisDispatch.* `TypeOK /\ ThreadsMatch /\ Books /\ LossesCovered`. `ThreadsMatch` ties program
counters to hands and to the copies a thread took out of `processing`. `Books` says of every job that
at most one thread works on it (`OneThread`), that it waits in at most one of the three places
and once there (`OneWaiting`), is dead-lettered at most once and never acknowledged too (`DeadOnce`), and is
not two of waiting, held and settled at a time (`OneStanding`). That a thread removes its own
copy and not an orphan of the same job rests on arithmetic: a waiting copy carries the number of
times the job was dequeued, the object in memory that number itself (`Counted`), so every copy left in
`processing` has a lower count than the current one and lies behind it (`CopiesKept`). The limit on
tries follows from `Counted`. `LossesCovered` bounds the jobs nobody holds by the
faults and, for each crash, the tokens and the loop. Its proof and the refinement share one
observation: each step moves at most one job from one standing to another (`JobStep`) or is a
crash (`CrashStep`), which loses what the threads of one daemon held. `JobLifecycle`
sees a lost job as one that runs for ever.

*ServerLifecycle.* A handler compares the project once and acts on an identifier afterwards.
That protects it because identifiers are never given twice (`IdsAreSpent`), so that whatever bears
the identifier it found is the container it compared (`FoundIsOwn`).
`SameGoalAgrees` and `RepositoryMirrorsDocker` speak of the moments when no handler is at work. `SameGoal`
says what holds in between: in an episode that nothing disturbs, what its handlers want is true of
Docker once one of them is past its last Docker call or has succeeded, but for a restart that is about to start
the container again, and true of the record once one of them reports (`BroughtAbout`); and
where the record differs from Docker, a handler that will write it is on its way (`Mirroring`). It needs
to know which jobs make which calls (`KindsFit`). What the platform was told is apart from it
(`AllTold`), because with the scraper it is weaker: then a report may also be of the container as
it is, or be about to be corrected (`AllHeard`). `ScrapedInv` puts the two together for `ScrapedSpec`;
`SameGoal` carries over since the scraper changes nothing it speaks of.

*Tailer.* That an entry is a goroutine that tails that workload is what makes the single entry a
late goroutine deletes the only one it could be found under. With the context cancelled, every
goroutine is in `done`, also one started afterwards.

*Scraper.* The books balance only if a snapshot is never ahead of the counter of the life it
was taken in (`SnapshotsAreBehind`) and an update is at hand only while it is reported
(`NothingAtHand`). `NeverOverbilled` follows from the balance and from no account being
negative; `BooksAreExact` has an invariant of its own, about runs without troubles.

*TailPipeline.* `SentInv` says where a line that was read can be: sent, in its scanner, or in the
copier; that a scanner holds the next line of its stream and the copier the last that was read;
that lines sent are in order without gaps. `EndInv` says why a goroutine ends: a scanner before
the copier only over a line that is too long and still in the copier's hands. Two streams exist, so if
both scanners have ended uncancelled the copier has too, at the end of the log or where it broke
(`CopierEndsWithLog`); then nothing that was read is left to send. The order of a concatenation of three sequences is carried by `SentBySend`, `SentByTake` and
`SentByShip`.

*DockerScope.* A worker holds the name of its own tenant's network or the default one, a namespace's
never the latter (`OwnOrBridge`, `NamespaceHasItsOwn`); two names are equal only if the kind of
tenant and the short id are; and what a pruning has picked out belongs to no namespace (`Safe`). A running container
keeps its network although it was inspected earlier, because Docker refuses the removal.

*KubernetesRuntime.* A set without its Service has, as long as no call failed, a handler about to make
it (`ServiceIsOnItsWay`), and only sets have Services (`CallsFitStrategy`). `SameGoal` is the
counterpart of Docker's: in a clean episode the cluster is as its handlers want it, or one of them is
before the call that makes it so; the same of the record; and of the report when all are done, unless it
is `unheard`. An Agones restart deletes and then creates, so it finds what it wants only if the old
GameServer is gone by then (`RestartMakesAnew`).

*WorkloadFiles.* `DiskOK /\ ClientsOK /\ Apart /\ OnItsWay`. The first two are the types, with two
facts that the rest leans on: the disk is a tree in which no inode has two links (`Tree`), and each
operation makes its own calls (`StepsFit`). None of the properties is inductive, since what a request answers
for at its end it has done many steps ago, while others worked beside it. `OnItsWay` says how an untouched
request stands: what it has open is the file linked under the entry it has come to, still empty
before the write and torn after one that failed, and nobody else has one of its files open (`HasItsOwn`); the entries before are stored,
those behind are as they were when it began (`Progress`). The others keep away because the paths
of an untouched request are apart from those of every other that is under way (`Apart`). For each
action there is a lemma on its footprint: which links and contents it changes, and that they lie at or
below its own paths or belong to the inode it has open. The delicate one is a rename, which moves whole trees and with
them files that somebody has open: an open inode may travel anywhere, but
never to a path of an untouched request, since the rename would have touched it. That is why `Begin` counts as touched
also who meets a request that is touched already; without it the invariant fails, and
`StoredWhenOk` with it. `FilesElsewhereStay` follows from the same footprints.

The assumptions are those the modules name, and no other. Of `ShortID` nothing is assumed: the ids of
any tenants may be cut to the same. Bounds (`MaxFaults`, `MaxCrashes`,
`MaxTroubles`, `MaxAttempts` of each job, lines, requests) are natural numbers, and the capacities of the
log channel and of a batch and the limit of the promotion positive ones. What stands for
nothing (`NoJob`, `NoTail`, `None`, `NoCopy`) is none of the things it is told apart from. `Known` and
`Poison` are sets of jobs: those with a registered worker, those that do not parse. Each token belongs to one
daemon (`OwnerAssumption`). `Callers`, the threads that call Redis, are the loops and the tokens,
which differ, and there are finitely many tokens, the semaphore being a buffered channel
(`CallersAssumption`): only the bound on lost jobs needs that. There is a workload to tail and to
scrape, and the workloads with over-long lines are among those that are tailed
(`OverlongAssumption`). Docker's default network has no tenant's name, and namespaces are tenants (`ScopeAssumption`). 0
is no inode; there is something to ask for, and an install is of one file (`FilesAssumption`,
`RequestsAssumption`): names, inodes, clients, entries and the depth of paths are arbitrary. Sets
of jobs, workloads, handlers, tenants, clients and inodes may be infinite. `TailProofs` has `Tailer` as an
instance and states its bound once more (`TailerAssumption`), because the prover does not take
over what an instance assumes.

Only model-checked: all liveness: `EveryJobSettles`, `ShutdownReturns`, `RunningIsTailed`,
`StoppedIsLetGo`, `ShutdownEndsTails`, `CatchesUp`, `TruthIsTold`, `TailEnds`, `HandlersEnd`.
Liveness under fairness and `ENABLED` are beyond the
prover, and so is induction over data: what `Clean`, a fold, makes of every spelling of a path is
not proved; the run has it make the paths of its requests. Of `TruthIsTold` TLC alone says how much it needs
of the record; the safety beside it, `ScrapedGoalAgrees`, is proved.

## 5. Plan

Done: `Job`, `JobLifecycle`, `Dispatcher`, `MemoryQueue`, `MemoryDispatch`, `RedisQueue`,
`RedisDispatch`, `ServerLifecycle`, `TailMap`, `Tailer`, `TailPipeline`, `Scraper`, `ScrapedLifecycle`,
`DockerScope`, `KubernetesRuntime`, `WorkloadFiles`; proofs about all that has states.

Next, in this order:

1. Tenancy: which of a payload's, a label's and a record's names for the tenant each worker and
   `findContainer` go by, and what of it survives a restart (`pkg/labels`, `Discover`).
2. Migration: the calls of `kleffctl migrate-to-projects`, what each failure leaves, and the run
   that is then repeated.

## 6. Finding

`tailer.go:19` says the tailer "manages one log-tailing goroutine per running workload". The
run `tailer_one_per_workload` shows two: a workload's record stops saying "running" for one
reconciliation (a restart, say), its tail is cancelled and pruned; before that tail has shipped its
last batch and run its deferred function the next reconciliation starts a successor; the late
deferred function (`tailer.go:115`) deletes the entry by workload id, which by then is the
successor's; the reconciliation after that finds no entry and starts another tail. Both live
ones follow the same log until it ends, and each line is shipped twice.

Seen while modelling, in the models as the code has it, and stated by no run:

- `docker.go:801`: a network's name has twelve characters of the tenant's id, and a name that
  exists is taken for the tenant's own (`docker.go:171`): two projects whose ids begin alike share a
  network that "is the isolation boundary between projects" (`docker.go:135`).
- `docker.go:236`: the pruning removes the network of a project whose containers are all
  stopped; `Start`, which "restarts a stopped container" (`docker.go:334`), finds the container and
  fails on its network.
- `docker.go:189`: projects end up together on Docker's default network when no address is left,
  although the network "is the isolation boundary between projects" (`docker.go:135`).
- `docker.go:228`: a namespace's network is never removed, not even without workloads.
- `kubernetes.go:152`: `Remove` deletes the set "and all associated resources" (`kubernetes.go:140`) but
  its Service, on which the next `Deploy` fails; `kubernetes.go:130`: `Stop` "suspends a workload without
  removing it" (`kubernetes.go:122`) but deletes a GameServer; `kubernetes.go:211`: `Discover` finds nothing.
- `restart_worker.go:65`: the restart of a GameServer deletes it and at once creates another of the same
  name; while the first one's finalizers run, the creation fails.
- `server.go:330`: the guard against deleting the workload's root compares the path as it was sent;
  "." or "/.." pass it and name the root.
- `docker.go:795`: the error of the `os.Remove` that clears up after a broken download is dropped; a
  part of a mod may stay, as it does when the daemon dies in the download.
- `tailer.go:187`: a line longer than the scanner's buffer silences the tail until it is cancelled;
  the tail runs "until ctx is cancelled or the container exits" (`tailer.go:111`). The container's exit
  does not end it; if its map entry is gone as well, only the daemon's end does.
- `tailer.go:136`: the error of `StdCopy` is dropped, so a tail whose connection broke returns as at the
  end of the log. The next reconciliation starts another, which asks for the log from the container's
  start (`docker.go:507`) and ships again what was shipped.
- `scraper.go:145`: the scraper calls a created container "pending", also one that was stopped before it
  ever ran, which the stop worker reports as "stopped".
- `scraper.go:78`: the scraper asks under the project in the record; while that names another project than
  the container's label, `Status` finds nothing and the workload is passed over.

## 7. Not modelled

*Labels and tenancy.* `ServerLifecycle` gives a container one project label and compares it; how
the workers fill in a missing project or namespace, and what `Discover` reads back, is left for the
plan. *kleffctl* likewise. It is a program of its own that an operator runs once.

*Docker adapter.* `TeardownProjectScope` has no caller. With `node_network` set there is nothing
to make or prune. A network that is made again while a pruning has the old one in hand has another id;
the model, in which it is the same, allows a removal that Docker would refuse. Ports, limits, environment and data directories of a container are handed through.

*Kubernetes adapter.* The content of the manifests; `Endpoint`, which only reads; `Logs`,
`InjectFile` and `RemoveFile`, which are stubs; the project check of `ensureProjectMatch`
(`kubernetes.go:401`), which for one workload of one project passes; the conflict (409) of an
`UpdateScale` that another one has overtaken, which fails the handler as a fault does.

*File API.* Listing, download and export, which only read; the authentication; the HTTP server. An
entry of an archive that is refused or cannot be opened (`server.go:427`, `server.go:437`) and the
errors of `Close` (`server.go:271`, `server.go:448`), which nobody looks at: a disk that reports a failed
write only then leaves a file that was confirmed and is not whole. Names of mods are taken to
be plain file names (`docker.go:759`). Paths that climb out of the root and come back to it by its own
name are accepted by `safePath` (`server.go:109`) and refused by the model.

*Server repository.* `ListAll` hands out the records themselves, whose fields the scraper and the
tailer read without the mutex. The models read a record at the moment it is needed, which is every
value a race-free read could give, and no torn one.

*Redis.* That the client library sends a command again when its reply is lost.

*main.* A `Discover` that fails only leaves the repository empty (`main.go:75`). `main` waits for the dispatcher and for neither the scraper nor the tailer: what a tail has
read and not shipped when the process ends is lost as in a crash.

A payload that does not parse makes a server handler fail without telling the platform;
`ServerLifecycle` has only payloads that parse. Configuration, logging, the platform's registration
request, the SQLite repository and the readiness waiter, which nothing uses, and `testprovision`
have no behaviour worth a model.
