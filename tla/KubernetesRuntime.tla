------------------------- MODULE KubernetesRuntime -------------------------
(***************************************************************************)
(* One workload on Kubernetes: the object its strategy makes (an Agones    *)
(* GameServer, a StatefulSet or a Deployment), the Service beside it, and  *)
(* what the handlers of the server jobs do to them through the adapter.    *)
(* Objects are named after the workload, so there is at most one of each.  *)
(* A call to the API server may fail with or without its effect, and a     *)
(* GameServer that is deleted is there until its finalizers have run.      *)
(***************************************************************************)
EXTENDS Integers

CONSTANTS Handlers,      \* names for the handlers at work at one time
          MaxJobs,       \* bound: jobs, retries included
          MaxTroubles    \* bound: failed calls, lost reports and GameServers, daemon restarts

ASSUME RuntimeAssumption == MaxJobs \in Nat /\ MaxTroubles \in Nat

Ops == {"deploy", "start", "stop", "restart", "remove"}

VARIABLES strategy,      \* the strategy of the workload's spec
          main,          \* its object: "none", a GameServer "starting", "ready" or
                         \* "terminating", or a set scaled to one, "up", or none, "down"
          service,       \* whether the Service is there
          op, at,        \* what a handler does, and the call it makes next
          record,        \* the status in the daemon's repository, or "none"
          reported,      \* the last status the platform was told
          scraping,      \* the scraper: "no", "asking" for the status, or "telling" it
          jobs, troubles,
          episode        \* history: what was wanted since the workload was last quiet

vars == <<strategy, main, service, op, at, record, reported, scraping, jobs, troubles, episode>>
clusterVars == <<main, service>>

Goals == {"running", "stopped", "deleted"}
Goal(o) == CASE o = "stop" -> "stopped" [] o = "remove" -> "deleted" [] OTHER -> "running"

Calls == {"create", "service", "wait", "strategy", "getScale", "updateScale", "delete",
          "record", "report", "reportFailed"}

Agones == strategy = "agones"
Quiet  == \A h \in Handlers : at[h] = "idle"

\* unheard: the last word of a handler was lost, or a stale one has overtaken it.
NewEpisode == [goals |-> {}, failed |-> FALSE, disturbed |-> FALSE, unheard |-> FALSE]
Episodes ==
    [goals : SUBSET Goals, failed : BOOLEAN, disturbed : BOOLEAN, unheard : BOOLEAN]

Mains == IF Agones THEN {"none", "starting", "ready", "terminating"} ELSE {"none", "up", "down"}

TypeOK ==
    /\ strategy \in {"agones", "statefulset", "deployment"}
    /\ main \in Mains
    /\ service \in BOOLEAN /\ (Agones => ~service)
    /\ op \in [Handlers -> Ops] /\ at \in [Handlers -> Calls \cup {"idle"}]
    /\ record \in {"none", "Running", "Ready", "stopped", "deleted"}
    /\ reported \in Goals \cup {"ready", "unknown", "failed"}
    /\ scraping \in {"no", "asking", "telling"}
    /\ jobs \in 0 .. MaxJobs /\ troubles \in 0 .. MaxTroubles
    /\ episode \in Episodes

Init ==
    /\ strategy \in {"agones", "statefulset", "deployment"}
    /\ main = "none" /\ service = FALSE
    /\ op = [h \in Handlers |-> "deploy"] /\ at = [h \in Handlers |-> "idle"]
    /\ record = "none" /\ reported = "unknown" /\ scraping = "no"
    /\ jobs = 0 /\ troubles = 0 /\ episode = NewEpisode

-----------------------------------------------------------------------------
(* A handler makes its calls.                                              *)

StartsWith(o) == CASE o = "deploy" \/ (o = "start" /\ Agones) -> "create"
                   [] o = "start" /\ ~Agones -> "getScale"
                   [] OTHER -> "strategy"

Begin(h) ==
    /\ at[h] = "idle" /\ jobs < MaxJobs
    /\ jobs' = jobs + 1
    /\ \E o \in Ops :
          /\ op' = [op EXCEPT ![h] = o]
          /\ at' = [at EXCEPT ![h] = StartsWith(o)]
          /\ episode' = [(IF Quiet THEN NewEpisode ELSE episode)
                            EXCEPT !.goals = @ \cup {Goal(o)}]
    /\ UNCHANGED <<strategy, clusterVars, record, reported, scraping, troubles>>

Go(h, next) ==
    /\ at' = [at EXCEPT ![h] = next]
    /\ UNCHANGED <<strategy, op, record, reported, scraping, jobs>>

Trouble == troubles < MaxTroubles /\ troubles' = troubles + 1
Fault   == Trouble /\ episode' = [episode EXCEPT !.disturbed = TRUE]
NoFault == UNCHANGED <<troubles, episode>>

\* A call that wants `possible`, has `effect`, and after which the handler does `next`.
Call(h, call, possible, effect, next) ==
    /\ at[h] = call
    /\ \/ possible /\ effect /\ next /\ NoFault
       \/ possible /\ effect /\ Go(h, "reportFailed") /\ Fault
       \/ ((~possible /\ NoFault) \/ Fault) /\ Go(h, "reportFailed") /\ UNCHANGED clusterVars

Becomes(state) == main' = state /\ UNCHANGED service

\* A mutant of Create: the Service is forgotten.
CreateAlone(h) ==
    Call(h, "create", main = "none", Becomes(IF Agones THEN "starting" ELSE "up"),
         Go(h, IF Agones THEN "wait" ELSE "record"))

Create(h) ==
    Call(h, "create", main = "none", Becomes(IF Agones THEN "starting" ELSE "up"),
         Go(h, IF Agones THEN "wait" ELSE "service"))

CreateService(h) ==
    Call(h, "service", ~service, service' = TRUE /\ UNCHANGED main, Go(h, "record"))

\* A mutant of WaitReady: without the timeout.
WaitForever(h) ==
    /\ at[h] = "wait" /\ main = "ready"
    /\ Go(h, "record")
    /\ NoFault /\ UNCHANGED clusterVars

\* Polled until the GameServer says it is ready, which one that is being deleted may
\* still say, or five minutes are over.
WaitReady(h) ==
    /\ at[h] = "wait"
    /\ \/ main \in {"ready", "terminating"} /\ Go(h, "record")
       \/ main # "ready" /\ Go(h, "reportFailed")
    /\ NoFault /\ UNCHANGED clusterVars

\* strategyFor: three Gets, any error of which is taken for "not here".
StrategyFor(h) ==
    Call(h, "strategy", main # "none", UNCHANGED clusterVars,
         Go(h, IF op[h] = "remove" \/ Agones THEN "delete" ELSE "getScale"))

GetScale(h) ==
    Call(h, "getScale", main # "none", UNCHANGED clusterVars, Go(h, "updateScale"))

\* A mutant of Stopped: the restart is taken for done.
StoppedForGood(h) == Go(h, "record")

\* What the call took down is down: a restart goes on as a start.
Stopped(h) ==
    IF op[h] # "restart" THEN Go(h, "record") ELSE
        /\ op' = [op EXCEPT ![h] = "start"]
        /\ at' = [at EXCEPT ![h] = StartsWith("start")]
        /\ UNCHANGED <<strategy, record, reported, scraping, jobs>>

UpdateScale(h) ==
    Call(h, "updateScale", main # "none", Becomes(IF op[h] = "start" THEN "up" ELSE "down"),
         Stopped(h))

\* A set is gone at once; a GameServer that is deleted may be deleted again.
Delete(h) ==
    Call(h, "delete", main # "none", Becomes(IF Agones THEN "terminating" ELSE "none"),
         Stopped(h))

\* RunningServer.State, or the words of the stop and delete workers.
Written(o) == IF Goal(o) # "running" THEN Goal(o) ELSE IF Agones THEN "Ready" ELSE "Running"

\* The State in lower case, or those words again.
Told(o) == IF Goal(o) = "running" /\ Agones THEN "ready" ELSE Goal(o)

\* The provision worker saves a record, the others update the one there is.
WriteRecord(h) ==
    /\ at[h] = "record"
    /\ at' = [at EXCEPT ![h] = "report"]
    /\ record' = IF op[h] = "deploy" \/ record # "none" THEN Written(op[h]) ELSE "none"
    /\ UNCHANGED <<strategy, clusterVars, op, reported, scraping, jobs, troubles, episode>>

\* That a report does not arrive is only logged.
Report(h) ==
    /\ at[h] \in {"report", "reportFailed"}
    /\ at' = [at EXCEPT ![h] = "idle"]
    /\ op' = [op EXCEPT ![h] = "deploy"]
    /\ \E lost \in BOOLEAN :
          /\ reported' = IF lost THEN reported
                         ELSE IF at[h] = "reportFailed" THEN "failed" ELSE Told(op[h])
          /\ IF lost THEN Trouble ELSE UNCHANGED troubles
          /\ episode' = [episode EXCEPT !.failed = @ \/ at[h] = "reportFailed",
                                        !.unheard = lost]
    /\ UNCHANGED <<strategy, clusterVars, record, scraping, jobs>>

Handler(h) ==
    \/ Create(h) \/ CreateService(h) \/ WaitReady(h)
    \/ StrategyFor(h) \/ GetScale(h) \/ UpdateScale(h) \/ Delete(h)
    \/ WriteRecord(h) \/ Report(h)

-----------------------------------------------------------------------------
(* Around the handlers.                                                    *)

Unattended == UNCHANGED <<strategy, service, op, at, record, jobs>>

BecomesReady ==
    /\ main = "starting" /\ main' = "ready"
    /\ NoFault /\ Unattended /\ UNCHANGED <<reported, scraping>>

\* A GameServer shuts down of itself.
GameServerEnds ==
    /\ main \in {"starting", "ready"} /\ main' = "terminating"
    /\ Fault /\ Unattended /\ UNCHANGED <<reported, scraping>>

\* The finalizers of a deleted GameServer have run.
Finalized ==
    /\ main = "terminating" /\ main' = "none"
    /\ NoFault /\ Unattended /\ UNCHANGED <<reported, scraping>>

\* The scraper comes to the record; one of a GameServer, "Ready", it passes over.
ScrapeRecord ==
    /\ scraping = "no" /\ record = "Running" /\ scraping' = "asking"
    /\ NoFault /\ Unattended /\ UNCHANGED <<main, reported>>

\* Status, when nothing fails: "unknown" of any set that is there.
ScrapeStatus ==
    /\ scraping = "asking"
    /\ \/ main # "none" /\ scraping' = "telling"
       \/ scraping' = "no"
    /\ NoFault /\ Unattended /\ UNCHANGED <<main, reported>>

\* mapDockerState makes "failed" of it.  It may be told long after the record was read.
ScrapeReport ==
    /\ scraping = "telling" /\ scraping' = "no"
    /\ \/ /\ reported' = "failed"
          /\ episode' = [episode EXCEPT !.unheard = @ \/ record # "Running"]
       \/ UNCHANGED <<reported, episode>>
    /\ Unattended /\ UNCHANGED <<main, troubles>>

Scraper == ScrapeRecord \/ ScrapeStatus \/ ScrapeReport

\* The daemon restarts; Discover finds nothing.
DaemonRestart ==
    /\ Fault
    /\ at' = [h \in Handlers |-> "idle"] /\ op' = [h \in Handlers |-> "deploy"]
    /\ record' = "none" /\ scraping' = "no"
    /\ UNCHANGED <<strategy, clusterVars, reported, jobs>>

Next ==
    \/ \E h \in Handlers : Begin(h) \/ Handler(h)
    \/ BecomesReady \/ GameServerEnds \/ Finalized \/ Scraper \/ DaemonRestart

Spec == Init /\ [][Next]_vars

\* The API server answers, and the wait for a GameServer has its timeout.
FairSpec == Spec /\ \A h \in Handlers : WF_vars(Handler(h))

-----------------------------------------------------------------------------
(* Properties.                                                             *)

Serves == main \in {"up", "ready"}

InCluster(goal) ==
    CASE goal = "running" -> Serves
      [] goal = "stopped" -> main \in {"none", "down", "terminating"}
      [] OTHER -> main \in {"none", "terminating"}

InRecord(goal) ==
    record \in (CASE goal = "running" -> {"Running", "Ready", "none"}
                  [] goal = "stopped" -> {"stopped", "none"}
                  [] OTHER -> {"deleted", "none"})

InReport(goal) ==
    CASE goal = "running" -> reported \in {"running", "ready"} \/ record = "Running"
      [] goal = "stopped" -> reported = "stopped"
      [] OTHER -> reported = "deleted"

\* Whatever the interleaving of handlers that want the same of the workload: when
\* all have ended, none has failed and nothing has interfered, the cluster and the
\* repository agree that it is so, a GameServer being ready and not only created, or on
\* its way out; and so does the platform, but for a report that was lost, or a scrape
\* that looked at the record before a handler changed it and reports after.  (The
\* scraper calls a set that runs "failed", for want of a status.)
SameGoalAgrees ==
    \A goal \in Goals :
        Quiet /\ episode.goals = {goal} /\ ~episode.failed /\ ~episode.disturbed
            => InCluster(goal) /\ InRecord(goal) /\ (episode.unheard \/ InReport(goal))

\* Deploy makes the set and then the Service, and no other operation looks at the
\* Service.  As long as no call fails, whatever handlers deploy, remove and deploy
\* again at once, a set is not left without the Service that leads to it.
SetsHaveTheirService ==
    troubles = 0 /\ Quiet /\ main \in {"up", "down"} => service

\* Every handler ends, also when a GameServer never becomes ready.
HandlersEnd == \A h \in Handlers : at[h] # "idle" ~> at[h] = "idle"
=============================================================================
