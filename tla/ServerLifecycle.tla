--------------------------- MODULE ServerLifecycle ---------------------------
(***************************************************************************)
(* One workload on a Docker node: what the handlers of the five server     *)
(* jobs do to its container, to its record in the daemon's repository and  *)
(* to its status on the platform, when several of them run at once.  A     *)
(* handler is a chain of Docker calls, each a step; the queue that hands   *)
(* out the jobs is JobLifecycle, which both backends implement.            *)
(*                                                                         *)
(* The container's name is the workload's, so Docker keeps at most one.    *)
(* A call to Docker may fail before it has an effect or after; when the    *)
(* daemon is stopping, the handlers' context is cancelled and every call   *)
(* may fail.  Endpoint, which changes nothing and whose failure is only    *)
(* logged, is left out.                                                    *)
(***************************************************************************)
EXTENDS Integers

CONSTANTS Jobs,
          Kinds,         \* Kinds[j]: the job types job j may be of
          Project,       \* Project[j] is the project the job's payload names
          MaxAttempts,
          None,          \* no container, no record, no identifier
          MaxTroubles    \* bound: calls that fail for no reason seen here, exits of
                         \* the container, crashes and stops of the daemon, together

JobTypes == {"provision", "start", "stop", "restart", "delete"}

ASSUME NoneAssumption == None \notin Nat
ASSUME LifecycleAssumption ==
    /\ Kinds \in [Jobs -> SUBSET JobTypes]
    /\ MaxAttempts \in [Jobs -> Nat]
    /\ MaxTroubles \in Nat

VARIABLES phase, tries,  \* the queue's view of each job, see JobLifecycle
          kind,          \* kind[j]: its job type, None before it is enqueued and
                         \* again when it is settled, and no longer of interest
          at,            \* at[j]: the call the handler of j makes next
          found,         \* found[j]: the container id the handler goes on with
          container,     \* the workload's container in Docker
          created,       \* how many containers Docker has created: the last id
          record,        \* the workload's entry in the repository
          reported,      \* the last status a worker got through to the platform
          daemon,        \* "up", "stopping" or "down"
          troubles,      \* how many of MaxTroubles there have been
          episode        \* history: what happened since the workload was last quiet

queueVars  == <<phase, tries>>
workerVars == <<at, found>>
dockerVars == <<container, created>>
vars == <<queueVars, kind, workerVars, dockerVars, record, reported, daemon,
          troubles, episode>>

Queue == INSTANCE JobLifecycle

Goals == {"running", "stopped", "deleted"}

Goal(j) == CASE kind[j] = "stop" -> "stopped"
             [] kind[j] = "delete" -> "deleted"
             [] OTHER -> "running"

Calls == {"find", "refind", "create", "start", "stop", "remove",
          "save", "update", "report", "reportFailed"}

Projects   == {Project[j] : j \in Jobs}
Container  == [id : Nat, project : Projects, state : {"created", "running", "exited"}]
Record     == [status : {"Running", "Stopped", "stopped", "deleted"}, ref : Nat,
               project : Projects]
Quiet      == \A j \in Jobs : at[j] = "idle"

ASSUME NoContainerAssumption == None \notin Container

\* History.  An episode begins when a handler does while none is at work: what the
\* handlers in it want, whether one has succeeded or failed, whether anything else
\* interfered; `clean` says that nothing did in the earlier ones since start-up.
NewEpisode(clean) ==
    [goals |-> {}, succeeded |-> FALSE, failed |-> FALSE, disturbed |-> FALSE, clean |-> clean]
Disturbed  == [episode EXCEPT !.disturbed = TRUE]
Orderly    == episode.clean /\ ~episode.disturbed /\ \A g, h \in episode.goals : g = h

TypeOK ==
    /\ phase \in [Jobs -> {"new", "queued", "running", "done", "failed"}]
    /\ tries \in [Jobs -> Nat]
    /\ kind \in [Jobs -> JobTypes \cup {None}]
    /\ at \in [Jobs -> Calls \cup {"idle"}]
    /\ found \in [Jobs -> Nat \cup {None}]
    /\ container \in Container \cup {None} /\ created \in Nat
    /\ record \in Record \cup {None}
    /\ reported \in Goals \cup {"failed", "pending", "unknown"}
    /\ daemon \in {"up", "stopping", "down"}
    /\ troubles \in 0 .. MaxTroubles
    /\ episode \in [goals : SUBSET Goals, succeeded : BOOLEAN, failed : BOOLEAN,
                    disturbed : BOOLEAN, clean : BOOLEAN]

-----------------------------------------------------------------------------
\* A mutant of Discover: what was running is not told from what was not.
DiscoverAllRunning(c) ==
    IF c = None THEN None ELSE [status |-> "Running", ref |-> c.id, project |-> c.project]

\* The record main saves at start-up for what Docker has.
Discover(c) ==
    IF c = None THEN None
    ELSE [status |-> IF c.state = "running" THEN "Running" ELSE "Stopped",
          ref |-> c.id, project |-> c.project]

\* The daemon starts on a node that may already have the container.
Init ==
    /\ Queue!Init
    /\ kind = [j \in Jobs |-> None]
    /\ at = [j \in Jobs |-> "idle"]
    /\ found = [j \in Jobs |-> None]
    /\ container \in [id : {1}, project : Projects, state : {"created", "running", "exited"}]
                     \cup {None}
    /\ created = IF container = None THEN 0 ELSE 1
    /\ record = Discover(container)
    /\ reported = "unknown"
    /\ daemon = "up"
    /\ troubles = 0
    /\ episode = NewEpisode(TRUE)

-----------------------------------------------------------------------------
(* The queue's half.                                                       *)

Submit(j) ==
    /\ Queue!Submit(j)
    /\ \E k \in Kinds[j] : kind' = [kind EXCEPT ![j] = k]
    /\ UNCHANGED <<workerVars, dockerVars, record, reported, daemon, troubles, episode>>

\* The first call of each handler.
First(j) == IF kind[j] = "provision" THEN "create" ELSE "find"

\* The dispatcher calls the handler.  A loop that had passed its look at the
\* context when the daemon was told to stop still does.
Begin(j) ==
    /\ daemon # "down"
    /\ Queue!Begin(j)
    /\ at' = [at EXCEPT ![j] = First(j)]
    /\ episode' = [(IF Quiet THEN NewEpisode(Orderly) ELSE episode)
                      EXCEPT !.goals = @ \cup {Goal(j)}]
    /\ UNCHANGED <<kind, found, dockerVars, record, reported, daemon, troubles>>

-----------------------------------------------------------------------------
(* The handler of job j makes its next call.                               *)

GoOn(j, next) ==
    /\ at' = [at EXCEPT ![j] = next]
    /\ UNCHANGED <<queueVars, kind, reported, daemon>>

Trouble == troubles < MaxTroubles /\ troubles' = troubles + 1

\* A call gives an error that Docker's state does not explain.
Fault ==
    /\ Trouble \/ (daemon = "stopping" /\ UNCHANGED troubles)
    /\ episode' = Disturbed

NoFault == UNCHANGED <<troubles, episode>>

\* A mutant of Mine: the calls act on whatever bears the workload's name.
AnyContainer(j) == container # None

\* The container ContainerStart and the others are given an id of is still there.
Mine(j) == container # None /\ container.id = found[j]

\* findContainer: by workload id, then the project label is compared.
Find(j) ==
    /\ at[j] \in {"find", "refind"}
    /\ UNCHANGED <<dockerVars, record>>
    /\ \/ /\ container # None /\ container.project = Project[j]
          /\ found' = [found EXCEPT ![j] = container.id]
          /\ GoOn(j, IF kind[j] = "start" \/ at[j] = "refind" THEN "start" ELSE "stop")
          /\ NoFault
       \/ /\ container = None
          /\ GoOn(j, IF kind[j] = "start" \/ at[j] = "refind" THEN "create" ELSE "reportFailed")
          /\ NoFault /\ UNCHANGED found
       \/ /\ container # None /\ container.project # Project[j]
          /\ GoOn(j, "reportFailed")
          /\ NoFault /\ UNCHANGED found
       \/ GoOn(j, "reportFailed") /\ Fault /\ UNCHANGED found

\* Deploy up to ContainerCreate, which refuses a name that is taken.
Create(j) ==
    /\ at[j] = "create"
    /\ UNCHANGED record
    /\ \/ /\ container = None
          /\ container' = [id |-> created + 1, project |-> Project[j], state |-> "created"]
          /\ created' = created + 1
          /\ \/ /\ GoOn(j, "start") /\ NoFault
                /\ found' = [found EXCEPT ![j] = created + 1]
             \/ GoOn(j, "reportFailed") /\ Fault /\ UNCHANGED found
       \/ /\ (container # None /\ NoFault) \/ Fault
          /\ GoOn(j, "reportFailed")
          /\ UNCHANGED <<dockerVars, found>>

\* What becomes of a call on the container: it takes effect and the handler goes
\* on with `next`, or there is an error, with or without the effect.
Call(j, effect, next, onError) ==
    /\ UNCHANGED <<created, found, record>>
    /\ \/ Mine(j) /\ container' = effect /\ GoOn(j, next) /\ NoFault
       \/ Mine(j) /\ container' = effect /\ GoOn(j, onError) /\ Fault
       \/ ((~Mine(j) /\ NoFault) \/ Fault) /\ GoOn(j, onError) /\ UNCHANGED container

\* ContainerStart; a container that runs is started without an error.
Start(j) ==
    /\ at[j] = "start"
    /\ Call(j, [container EXCEPT !.state = "running"],
            IF kind[j] = "provision" THEN "save" ELSE "update", "reportFailed")

Halted == IF container.state = "running" THEN [container EXCEPT !.state = "exited"]
          ELSE container

\* ContainerStop; a container that does not run is stopped without an error, and
\* Remove does not look at the error.
Stop(j) ==
    /\ at[j] = "stop"
    /\ CASE kind[j] = "delete" -> Call(j, Halted, "remove", "remove")
         [] kind[j] = "restart" -> Call(j, Halted, "refind", "reportFailed")
         [] OTHER -> Call(j, Halted, "update", "reportFailed")

Remove(j) ==
    /\ at[j] = "remove"
    /\ Call(j, None, "update", "reportFailed")

\* ProvisionWorker: repository.Save.
Save(j) ==
    /\ at[j] = "save"
    /\ record' = [status |-> "Running", ref |-> found[j], project |-> Project[j]]
    /\ GoOn(j, "report")
    /\ NoFault /\ UNCHANGED <<found, dockerVars>>

\* RunningServer.State, or the word of the stop and delete workers.
Written(j) == CASE Goal(j) = "running" -> "Running" [] OTHER -> Goal(j)

\* A mutant of Update: the restart worker forgets it.
UpdateNotOnRestart(j) ==
    /\ at[j] = "update"
    /\ record' = IF record = None \/ kind[j] = "restart" THEN record
                 ELSE [record EXCEPT !.status = Written(j)]
    /\ GoOn(j, "report")
    /\ NoFault /\ UNCHANGED <<found, dockerVars>>

\* The other workers: repository.UpdateStatus; that there is no record is logged.
Update(j) ==
    /\ at[j] = "update"
    /\ record' = IF record = None THEN None ELSE [record EXCEPT !.status = Written(j)]
    /\ GoOn(j, "report")
    /\ NoFault /\ UNCHANGED <<found, dockerVars>>

\* ReportStatus reaches the platform, or its error is logged.
Tell(status) ==
    \/ reported' = status /\ daemon # "stopping" /\ UNCHANGED troubles
    \/ /\ UNCHANGED reported
       /\ Trouble \/ (daemon = "stopping" /\ UNCHANGED troubles)

HandlerEnds(j) ==
    /\ at' = [at EXCEPT ![j] = "idle"]
    /\ found' = [found EXCEPT ![j] = None]
    /\ kind' = [kind EXCEPT ![j] = IF phase'[j] = "queued" THEN @ ELSE None]
    /\ UNCHANGED <<dockerVars, record, daemon>>

\* The handler tells the platform and returns nil; the dispatcher acknowledges.
Report(j) ==
    /\ at[j] = "report"
    /\ Tell(Goal(j))
    /\ Queue!Succeed(j)
    /\ episode' = [episode EXCEPT !.succeeded = TRUE,
                                  !.disturbed = @ \/ reported' # Goal(j)]
    /\ HandlerEnds(j)

\* It tells of the failure and returns an error; the dispatcher retries.
ReportFailed(j) ==
    /\ at[j] = "reportFailed"
    /\ Tell("failed")
    /\ IF tries[j] < MaxAttempts[j] THEN Queue!Requeue(j) ELSE Queue!Fail(j)
    /\ episode' = [episode EXCEPT !.failed = TRUE]
    /\ HandlerEnds(j)

Handler(j) ==
    \/ Find(j) \/ Create(j) \/ Start(j) \/ Stop(j) \/ Remove(j)
    \/ Save(j) \/ Update(j) \/ Report(j) \/ ReportFailed(j)

-----------------------------------------------------------------------------
(* Around the handlers.                                                    *)

\* The process in the container ends.
Exit ==
    /\ Trouble
    /\ container # None /\ container.state = "running"
    /\ container' = [container EXCEPT !.state = "exited"]
    /\ episode' = Disturbed
    /\ UNCHANGED <<queueVars, kind, workerVars, created, record, reported, daemon>>

Sigterm ==
    /\ Trouble
    /\ daemon = "up"
    /\ daemon' = "stopping"
    /\ UNCHANGED <<queueVars, kind, workerVars, dockerVars, record, reported, episode>>

\* Run has waited for its goroutines; the process ends, and its repository with it.
Terminate ==
    /\ daemon = "stopping" /\ Quiet
    /\ daemon' = "down" /\ record' = None
    /\ episode' = Disturbed
    /\ UNCHANGED <<queueVars, kind, workerVars, dockerVars, reported, troubles>>

\* The process dies: handlers and repository are gone, the queue keeps their jobs
\* among those being processed.
Crash ==
    /\ Trouble
    /\ daemon # "down"
    /\ daemon' = "down" /\ record' = None
    /\ at' = [j \in Jobs |-> "idle"] /\ found' = [j \in Jobs |-> None]
    /\ kind' = [j \in Jobs |-> IF at[j] = "idle" THEN kind[j] ELSE None]
    /\ episode' = Disturbed
    /\ UNCHANGED <<queueVars, dockerVars, reported>>

\* main: the containers of an earlier run are adopted before any job is taken.
Boot ==
    /\ daemon = "down"
    /\ daemon' = "up"
    /\ record' = Discover(container)
    /\ episode' = NewEpisode(TRUE)
    /\ UNCHANGED <<queueVars, kind, workerVars, dockerVars, reported, troubles>>

Next ==
    \/ \E j \in Jobs : Submit(j) \/ Begin(j) \/ Handler(j)
    \/ Exit \/ Sigterm \/ Terminate \/ Crash \/ Boot

Spec == Init /\ [][Next]_vars

-----------------------------------------------------------------------------
(* Properties.                                                             *)

AgreesOnNode(goal) ==
    CASE goal = "running" ->
           /\ container # None /\ container.state = "running"
           /\ record = None \/ record.status = "Running"
      [] goal = "stopped" ->
           /\ container # None /\ container.state # "running"
           /\ record = None \/ record.status = "stopped"
      [] OTHER ->
           container = None /\ (record = None \/ record.status = "deleted")

\* All handlers that the episode had have ended, and one has brought its goal about.
Accomplished(goal) ==
    Quiet /\ episode.goals = {goal} /\ episode.succeeded /\ ~episode.disturbed

\* Whatever the interleaving of handlers that want the same of the workload: when
\* all of them have ended, one has succeeded and nothing else has interfered,
\* Docker, the repository and the platform agree that it is so.
SameGoalAgrees ==
    \A goal \in Goals :
        Accomplished(goal) => AgreesOnNode(goal) /\ (episode.failed \/ reported = goal)

\* As long as the jobs that overlap want the same, and nothing else interferes, the
\* repository shows what Docker has whenever no handler is at work: from start-up,
\* whatever crash came before it, through jobs that succeed, fail and are retried.
\* (A container that a start job created may have no record.)
RepositoryMirrorsDocker ==
    daemon = "up" /\ Quiet /\ Orderly =>
        \/ record = None
        \/ record.status = "Running" /\ container # None /\ container.state = "running"
        \/ /\ record.status \in {"Stopped", "stopped"}
           /\ container # None /\ container.state # "running"
        \/ record.status = "deleted" /\ container = None

\* A handler never starts, stops or removes a container of a project its payload
\* does not name, also when another handler has replaced the container since
\* findContainer compared the labels.
TouchesOnlyItsOwn ==
    [][\A j \in Jobs :
          Handler(j) /\ container' # container /\ container # None
              => container.project = Project[j]]_vars
=============================================================================
