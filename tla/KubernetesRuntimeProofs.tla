---------------------- MODULE KubernetesRuntimeProofs ----------------------
(***************************************************************************)
(* Proofs about KubernetesRuntime, for any number of handlers, of jobs and *)
(* of failures.                                                            *)
(***************************************************************************)
EXTENDS KubernetesRuntime, TLAPS

\* The calls for a set are made for a set only.
CallsFitStrategy ==
    \A h \in Handlers : at[h] \in {"service", "getScale", "updateScale"} => ~Agones

\* Until its Service is made, a set has a handler that is about to make it.
ServiceIsOnItsWay ==
    troubles = 0 /\ main \in {"up", "down"} =>
        service \/ \E h \in Handlers : at[h] = "service"

IInv == TypeOK /\ CallsFitStrategy /\ ServiceIsOnItsWay

-----------------------------------------------------------------------------
LEMMA InitInv == Init => IInv
<1> SUFFICES ASSUME Init PROVE IInv
  OBVIOUS
<1>1. 0 \in 0 .. MaxJobs /\ 0 \in 0 .. MaxTroubles
  BY RuntimeAssumption
<1>2. TypeOK
  BY <1>1 DEF Init, TypeOK, Agones, Mains, NewEpisode, Episodes, Ops
<1>3. CallsFitStrategy /\ ServiceIsOnItsWay
  BY DEF Init, CallsFitStrategy, ServiceIsOnItsWay
<1> QED
  BY <1>2, <1>3 DEF IInv

\* The outcomes of a call, what it does to the cluster aside.
LEMMA Outcomes ==
    ASSUME NEW h \in Handlers, NEW call, NEW possible, NEW effect, NEW next,
           Call(h, call, possible, effect, next)
    PROVE  /\ at[h] = call
           /\ \/ possible /\ effect /\ next /\ NoFault
              \/ possible /\ effect /\ Go(h, "reportFailed") /\ Fault
              \/ UNCHANGED clusterVars /\ Go(h, "reportFailed") /\ (NoFault \/ Fault)
BY DEF Call

LEMMA EpisodeType ==
    ASSUME TypeOK, Fault \/ NoFault
    PROVE  /\ troubles' \in 0 .. MaxTroubles
           /\ episode' \in Episodes
           /\ troubles' = 0 => troubles = 0 /\ NoFault
<1>1. CASE NoFault
  BY <1>1 DEF TypeOK, NoFault
<1>2. CASE Fault
  <2>1. troubles' \in 1 .. MaxTroubles
    BY <1>2, RuntimeAssumption DEF TypeOK, Fault, Trouble
  <2>2. episode' \in Episodes
    BY <1>2 DEF TypeOK, Fault, Episodes
  <2> QED
    BY <2>1, <2>2
<1> QED
  BY <1>1, <1>2

\* A handler whose call has failed leaves the rest as it was, or `effect` has made it.
LEMMA FailedCallInv ==
    ASSUME IInv, NEW h \in Handlers, Go(h, "reportFailed"), Fault \/ NoFault,
           \/ UNCHANGED clusterVars /\ (at[h] = "service" => service \/ Fault)
           \/ /\ Fault
              /\ main' \in Mains
              /\ service' \in BOOLEAN /\ (Agones => ~service')
    PROVE  IInv'
<1>1. TypeOK'
  BY EpisodeType DEF IInv, TypeOK, Go, Agones, Mains, clusterVars, Calls
<1>2. CallsFitStrategy'
  BY DEF IInv, TypeOK, CallsFitStrategy, Go, Agones
<1>3. ServiceIsOnItsWay'
  <2> SUFFICES ASSUME troubles' = 0, main' \in {"up", "down"}
               PROVE  service' \/ \E g \in Handlers : at'[g] = "service"
    BY DEF ServiceIsOnItsWay
  <2>1. troubles = 0 /\ NoFault
    BY EpisodeType DEF IInv
  <2>2. ~Fault
    BY <2>1, RuntimeAssumption DEF Fault, Trouble, NoFault, IInv, TypeOK
  <2>3. UNCHANGED <<main, service>> /\ (at[h] = "service" => service)
    BY <2>2 DEF clusterVars
  <2> QED
    BY <2>1, <2>3 DEF IInv, TypeOK, ServiceIsOnItsWay, Go
<1> QED
  BY <1>1, <1>2, <1>3 DEF IInv

\* Going on with a call that fits, after something that did not concern the Service.
LEMMA GoInv ==
    ASSUME IInv, NEW h \in Handlers, NEW next \in Calls, Go(h, next), NoFault,
           at[h] # "service", next \in {"service", "getScale", "updateScale"} => ~Agones,
           UNCHANGED service,
           \/ main' \in Mains \ {"up", "down"}
           \/ UNCHANGED main
           \/ main' \in {"up", "down"} /\ ~Agones /\ (main # "none" \/ next = "service")
    PROVE  IInv'
<1> DEFINE sets == {"up", "down"}
<1>1. TypeOK'
  BY EpisodeType DEF IInv, TypeOK, Go, Agones, Mains, Calls
<1>2. CallsFitStrategy'
  BY DEF IInv, TypeOK, CallsFitStrategy, Go, Agones
<1>3. ServiceIsOnItsWay'
  <2> SUFFICES ASSUME troubles' = 0, main' \in sets
               PROVE  service' \/ \E g \in Handlers : at'[g] = "service"
    BY DEF ServiceIsOnItsWay
  <2>1. troubles = 0 /\ (main \in sets \/ next = "service")
    BY DEF IInv, TypeOK, Agones, Mains, NoFault
  <2> QED
    BY <2>1 DEF IInv, TypeOK, ServiceIsOnItsWay, Go
<1> QED
  BY <1>1, <1>2, <1>3 DEF IInv

-----------------------------------------------------------------------------
LEMMA StartsWithFits ==
    ASSUME NEW o \in Ops
    PROVE  /\ StartsWith(o) \in Calls \ {"service", "updateScale"}
           /\ StartsWith(o) = "getScale" => ~Agones
<1>1. CASE o = "deploy" \/ (o = "start" /\ Agones)
  BY <1>1 DEF StartsWith, Calls
<1>2. CASE o = "start" /\ ~Agones
  BY <1>2 DEF StartsWith, Calls
<1>3. CASE o \in Ops \ {"deploy", "start"}
  BY <1>3 DEF StartsWith, Calls, Ops
<1> QED
  BY <1>1, <1>2, <1>3

LEMMA BeginInv == ASSUME IInv, NEW h \in Handlers, Begin(h) PROVE IInv'
<1> PICK o \in Ops :
        /\ op' = [op EXCEPT ![h] = o]
        /\ at' = [at EXCEPT ![h] = StartsWith(o)]
        /\ episode' = [(IF Quiet THEN NewEpisode ELSE episode) EXCEPT !.goals = @ \cup {Goal(o)}]
  BY DEF Begin
<1>1. /\ StartsWith(o) \in Calls \ {"service", "updateScale"}
      /\ StartsWith(o) = "getScale" => ~Agones
  BY StartsWithFits
<1>2. episode' \in Episodes
  <2>1. Goal(o) \in Goals
    BY DEF Goal, Goals
  <2>2. (IF Quiet THEN NewEpisode ELSE episode)
           \in Episodes
    BY DEF IInv, TypeOK, NewEpisode, Episodes
  <2> QED
    BY <2>1, <2>2 DEF Episodes
<1>3. jobs' \in 0 .. MaxJobs
  BY RuntimeAssumption DEF IInv, TypeOK, Begin
<1>4. at[h] = "idle" /\ UNCHANGED <<strategy, main, service, record, reported, scraping, troubles>>
  BY DEF Begin, clusterVars
<1>5. TypeOK'
  BY <1>1, <1>2, <1>3, <1>4 DEF IInv, TypeOK, Agones, Mains
<1>6. CallsFitStrategy'
  BY <1>1, <1>4 DEF IInv, TypeOK, CallsFitStrategy, Agones
<1>7. ServiceIsOnItsWay'
  BY <1>4 DEF IInv, TypeOK, ServiceIsOnItsWay
<1> QED
  BY <1>5, <1>6, <1>7 DEF IInv

LEMMA CreateInv == ASSUME IInv, NEW h \in Handlers, Create(h) PROVE IInv'
<1> DEFINE made == IF Agones THEN "starting" ELSE "up"
           then == IF Agones THEN "wait" ELSE "service"
<1>1. at[h] = "create"
  BY DEF Create, Call
<1>2. CASE Becomes(made) /\ Go(h, then) /\ NoFault
  <2>1. then \in Calls /\ (then \in {"service", "getScale", "updateScale"} => ~Agones)
    BY DEF Calls
  <2> QED
    BY <1>1, <1>2, <2>1, GoInv DEF Becomes, Mains
<1>3. CASE Becomes(made) /\ Go(h, "reportFailed") /\ Fault
  BY <1>3, FailedCallInv DEF Becomes, IInv, TypeOK, Mains, Agones
<1>4. CASE UNCHANGED clusterVars /\ Go(h, "reportFailed") /\ (NoFault \/ Fault)
  BY <1>1, <1>4, FailedCallInv
<1> QED
  BY <1>2, <1>3, <1>4 DEF Create, Call

LEMMA CreateServiceInv == ASSUME IInv, NEW h \in Handlers, CreateService(h) PROVE IInv'
<1>1. at[h] = "service" /\ ~Agones
  BY DEF CreateService, Call, IInv, CallsFitStrategy
<1>2. CASE service' = TRUE /\ UNCHANGED main /\ Go(h, "record") /\ NoFault
  <2>1. TypeOK'
    BY <1>1, <1>2, EpisodeType DEF IInv, TypeOK, Go, Agones, Mains, Calls
  <2>2. CallsFitStrategy' /\ ServiceIsOnItsWay'
    BY <1>2 DEF IInv, TypeOK, CallsFitStrategy, ServiceIsOnItsWay, Go, Agones
  <2> QED
    BY <2>1, <2>2 DEF IInv
<1>3. CASE service' = TRUE /\ UNCHANGED main /\ Go(h, "reportFailed") /\ Fault
  BY <1>1, <1>3, FailedCallInv DEF IInv, TypeOK
<1>4. CASE UNCHANGED clusterVars /\ Go(h, "reportFailed") /\ ((service /\ NoFault) \/ Fault)
  BY <1>4, FailedCallInv
<1> QED
  BY <1>2, <1>3, <1>4 DEF CreateService, Call

LEMMA WaitReadyInv == ASSUME IInv, NEW h \in Handlers, WaitReady(h) PROVE IInv'
BY GoInv DEF WaitReady, clusterVars, Calls

-----------------------------------------------------------------------------
(* Stopping and removing, starting again, and what is told of it.          *)

LEMMA StrategyForInv == ASSUME IInv, NEW h \in Handlers, StrategyFor(h) PROVE IInv'
<1> DEFINE then == IF op[h] = "remove" \/ Agones THEN "delete" ELSE "getScale"
<1>1. at[h] = "strategy"
  BY DEF StrategyFor, Call
<1>2. CASE UNCHANGED clusterVars /\ Go(h, then) /\ NoFault
  <2>1. then \in Calls /\ (then \in {"service", "getScale", "updateScale"} => ~Agones)
    BY DEF Calls
  <2> QED
    BY <1>1, <1>2, <2>1, GoInv DEF clusterVars
<1>3. CASE UNCHANGED clusterVars /\ Go(h, "reportFailed") /\ (NoFault \/ Fault)
  BY <1>1, <1>3, FailedCallInv
<1> QED
  BY <1>2, <1>3 DEF StrategyFor, Call

LEMMA GetScaleInv == ASSUME IInv, NEW h \in Handlers, GetScale(h) PROVE IInv'
<1>1. at[h] = "getScale" /\ ~Agones
  BY DEF GetScale, Call, IInv, CallsFitStrategy
<1>2. CASE UNCHANGED clusterVars /\ Go(h, "updateScale") /\ NoFault
  BY <1>1, <1>2, GoInv DEF clusterVars, Calls
<1>3. CASE UNCHANGED clusterVars /\ Go(h, "reportFailed") /\ (NoFault \/ Fault)
  BY <1>1, <1>3, FailedCallInv
<1> QED
  BY <1>2, <1>3 DEF GetScale, Call

\* A call that took the object down, or another set of the same scale up.
LEMMA StoppedInv ==
    ASSUME IInv, NEW h \in Handlers, Stopped(h), NoFault, at[h] # "service",
           UNCHANGED service, main # "none",
           main' \in Mains
    PROVE  IInv'
<1>1. CASE op[h] # "restart"
  <2>1. Go(h, "record")
    BY <1>1 DEF Stopped
  <2>2. main' \in Mains \ {"up", "down"} \/ (main' \in {"up", "down"} /\ ~Agones)
    BY DEF Mains
  <2> QED
    BY <2>1, <2>2, GoInv DEF Calls
<1>2. CASE op[h] = "restart"
  <2> DEFINE next == StartsWith("start")
  <2>1. /\ op' = [op EXCEPT ![h] = "start"] /\ at' = [at EXCEPT ![h] = next]
        /\ UNCHANGED <<strategy, record, reported, scraping, jobs>>
    BY <1>2 DEF Stopped
  <2>2. "start" \in Ops
    BY DEF Ops
  <2>3. /\ next \in Calls \ {"service", "updateScale"}
        /\ next = "getScale" => ~Agones
    BY <2>2, StartsWithFits
  <2> HIDE DEF next
  <2>4. TypeOK'
    BY <2>1, <2>2, <2>3, EpisodeType DEF IInv, TypeOK, Agones, Mains
  <2>5. CallsFitStrategy'
    BY <2>1, <2>3 DEF IInv, TypeOK, CallsFitStrategy, Agones
  <2>6. ServiceIsOnItsWay'
    BY <2>1 DEF IInv, TypeOK, ServiceIsOnItsWay, Agones, Mains, NoFault
  <2> QED
    BY <2>4, <2>5, <2>6 DEF IInv
<1> QED
  BY <1>1, <1>2

LEMMA UpdateScaleInv == ASSUME IInv, NEW h \in Handlers, UpdateScale(h) PROVE IInv'
<1> DEFINE scaled == IF op[h] = "start" THEN "up" ELSE "down"
<1>1. at[h] = "updateScale" /\ ~Agones
  BY DEF UpdateScale, Call, IInv, CallsFitStrategy
<1>2. CASE main # "none" /\ Becomes(scaled) /\ Stopped(h) /\ NoFault
  BY <1>1, <1>2, StoppedInv DEF Becomes, Mains
<1>3. CASE Becomes(scaled) /\ Go(h, "reportFailed") /\ Fault
  BY <1>1, <1>3, FailedCallInv DEF Becomes, IInv, TypeOK, Mains, Agones
<1>4. CASE UNCHANGED clusterVars /\ Go(h, "reportFailed") /\ (NoFault \/ Fault)
  BY <1>1, <1>4, FailedCallInv
<1> QED
  BY <1>2, <1>3, <1>4 DEF UpdateScale, Call

LEMMA DeleteInv == ASSUME IInv, NEW h \in Handlers, Delete(h) PROVE IInv'
<1> DEFINE left == IF Agones THEN "terminating" ELSE "none"
<1>1. at[h] = "delete" /\ left \in Mains
  BY DEF Delete, Call, Mains
<1>2. CASE main # "none" /\ Becomes(left) /\ Stopped(h) /\ NoFault
  BY <1>1, <1>2, StoppedInv DEF Becomes
<1>3. CASE Becomes(left) /\ Go(h, "reportFailed") /\ Fault
  BY <1>1, <1>3, FailedCallInv DEF Becomes, IInv, TypeOK
<1>4. CASE UNCHANGED clusterVars /\ Go(h, "reportFailed") /\ (NoFault \/ Fault)
  BY <1>1, <1>4, FailedCallInv
<1> QED
  BY <1>2, <1>3, <1>4 DEF Delete, Call

LEMMA WriteRecordInv == ASSUME IInv, NEW h \in Handlers, WriteRecord(h) PROVE IInv'
<1>1. Written(op[h]) \in {"Running", "Ready", "stopped", "deleted"}
  BY DEF Written, Goal
<1>2. TypeOK'
  BY <1>1 DEF IInv, TypeOK, WriteRecord, Agones, Mains, clusterVars, Calls
<1>3. CallsFitStrategy' /\ ServiceIsOnItsWay'
  BY DEF IInv, TypeOK, CallsFitStrategy, ServiceIsOnItsWay, WriteRecord, Agones, clusterVars
<1> QED
  BY <1>2, <1>3 DEF IInv

LEMMA ReportInv == ASSUME IInv, NEW h \in Handlers, Report(h) PROVE IInv'
<1>1. Told(op[h]) \in Goals \cup {"ready"}
  BY DEF Told, Goal, Goals
<1>2. episode' \in Episodes
  BY DEF IInv, TypeOK, Report, Episodes
<1>3. reported' \in Goals \cup {"ready", "unknown", "failed"}
  BY <1>1 DEF IInv, TypeOK, Report
<1>4. troubles' \in 0 .. MaxTroubles /\ (troubles' = 0 => troubles = 0)
  BY RuntimeAssumption DEF IInv, TypeOK, Report, Trouble
<1>5. TypeOK'
  BY <1>2, <1>3, <1>4 DEF IInv, TypeOK, Report, Agones, Mains, clusterVars, Ops
<1>6. CallsFitStrategy' /\ ServiceIsOnItsWay'
  BY <1>4 DEF IInv, TypeOK, CallsFitStrategy, ServiceIsOnItsWay, Report, Agones, clusterVars
<1> QED
  BY <1>5, <1>6 DEF IInv

-----------------------------------------------------------------------------
(* Around the handlers.                                                    *)

\* What the cluster does to a GameServer, and the scraper.
LEMMA AroundInv ==
    ASSUME IInv, BecomesReady \/ GameServerEnds \/ Finalized \/ Scraper
    PROVE  IInv'
<1>1. /\ UNCHANGED <<strategy, service, op, at, record, jobs>>
      /\ main' = main \/ (main' \in {"none", "ready", "terminating"} /\ Agones)
      /\ reported' \in {reported, "failed"}
      /\ scraping' \in {"no", "asking", "telling"}
  BY DEF IInv, TypeOK, Mains, BecomesReady, GameServerEnds, Finalized,
         Scraper, ScrapeRecord, ScrapeStatus, ScrapeReport, Unattended
<1>2. episode' \in Episodes /\ troubles' \in 0 .. MaxTroubles /\ (troubles' = 0 => troubles = 0)
  <2>1. CASE ScrapeReport
    BY <2>1 DEF IInv, TypeOK, ScrapeReport, Episodes
  <2>2. CASE Fault \/ NoFault
    BY <2>2, EpisodeType DEF IInv
  <2> QED
    BY <2>1, <2>2
       DEF BecomesReady, GameServerEnds, Finalized, Scraper, ScrapeRecord, ScrapeStatus
<1>3. TypeOK'
  BY <1>1, <1>2 DEF IInv, TypeOK, Agones, Mains
<1>4. CallsFitStrategy' /\ ServiceIsOnItsWay'
  BY <1>1, <1>2 DEF IInv, CallsFitStrategy, ServiceIsOnItsWay, Agones
<1> QED
  BY <1>3, <1>4 DEF IInv

LEMMA DaemonRestartInv == ASSUME IInv, DaemonRestart PROVE IInv'
<1>1. TypeOK'
  BY EpisodeType DEF IInv, TypeOK, DaemonRestart, Agones, Mains, clusterVars, Ops
<1>2. troubles' # 0
  BY RuntimeAssumption DEF IInv, TypeOK, DaemonRestart, Fault, Trouble
<1>3. CallsFitStrategy' /\ ServiceIsOnItsWay'
  BY <1>2 DEF CallsFitStrategy, ServiceIsOnItsWay, DaemonRestart
<1> QED
  BY <1>1, <1>3 DEF IInv

-----------------------------------------------------------------------------
LEMMA NextInv == IInv /\ [Next]_vars => IInv'
<1> SUFFICES ASSUME IInv, [Next]_vars PROVE IInv'
  OBVIOUS
<1>1. ASSUME NEW h \in Handlers, Begin(h) PROVE IInv'
  BY <1>1, BeginInv
<1>2. ASSUME NEW h \in Handlers, Handler(h) PROVE IInv'
  BY <1>2, CreateInv, CreateServiceInv, WaitReadyInv, StrategyForInv, GetScaleInv,
     UpdateScaleInv, DeleteInv, WriteRecordInv, ReportInv DEF Handler
<1>3. CASE BecomesReady \/ GameServerEnds \/ Finalized \/ Scraper \/ DaemonRestart
  BY <1>3, AroundInv, DaemonRestartInv
<1>4. CASE UNCHANGED vars
  BY <1>4 DEF IInv, TypeOK, CallsFitStrategy, ServiceIsOnItsWay, Agones, Mains, vars, clusterVars
<1> QED
  BY <1>1, <1>2, <1>3, <1>4 DEF Next

\* The strengthened invariant holds for any number of handlers.
THEOREM InvariantHolds == Spec => []IInv
<1> QED
  BY InitInv, NextInv, PTL DEF Spec

\* The variables keep their types; an Agones workload never has a Service, nor a set
\* the states of a GameServer.
THEOREM TypeCorrect == Spec => []TypeOK
<1>1. IInv => TypeOK
  BY DEF IInv
<1> QED
  BY <1>1, InvariantHolds, PTL

\* Deploy's second step is never lost without a failure: whatever handlers overlap,
\* when all have ended a StatefulSet or Deployment has its Service.
THEOREM SetsKeepTheirService == Spec => []SetsHaveTheirService
<1>1. IInv => SetsHaveTheirService
  BY DEF IInv, ServiceIsOnItsWay, SetsHaveTheirService, Quiet
<1> QED
  BY <1>1, InvariantHolds, PTL

-----------------------------------------------------------------------------
(* Handlers that want the same.  SameGoalAgrees speaks of the moment when  *)
(* all have ended; while some are at work, what they want is either still  *)
(* to be brought about by one of them or there already, first in the       *)
(* cluster, then in the repository, then at the platform.                  *)

\* The calls before the one that brings about what the handler wants, and that one.
Working == {"create", "wait", "strategy", "getScale", "updateScale", "delete"}

Busy(calls) == \E h \in Handlers : at[h] \in calls

Clean(goal) ==
    /\ episode.goals = {goal} /\ ~episode.failed /\ ~episode.disturbed
    /\ ~Busy({"reportFailed"})

\* A GameServer that a handler waits for is deleted by a restart only, which is going
\* to make it anew.
RestartMakesAnew ==
    Clean("running") /\ main = "terminating" /\ Busy({"wait"}) => Busy({"create"})

BroughtAbout ==
    \A goal \in Goals : Clean(goal) =>
        /\ Busy(Working) \/ InCluster(goal)
        /\ Busy(Working \cup {"service", "record"}) \/ InRecord(goal)
        /\ ~Quiet \/ episode.unheard \/ InReport(goal)

\* Which operation makes which call.
OpsFit ==
    \A h \in Handlers :
        /\ at[h] \in {"create", "wait", "service"} => op[h] \in {"deploy", "start"}
        /\ at[h] \in {"strategy", "delete"} => op[h] \in {"stop", "restart", "remove"}
        /\ at[h] \in {"getScale", "updateScale"} => op[h] \in {"start", "stop", "restart"}

GoalsKept == \A h \in Handlers : at[h] # "idle" => Goal(op[h]) \in episode.goals

SameGoal == OpsFit /\ GoalsKept /\ BroughtAbout /\ RestartMakesAnew

\* A busy handler keeps the others' business as it is; its own is where it goes.
LEMMA BusyNext ==
    ASSUME TypeOK, NEW h \in Handlers, NEW next, at' = [at EXCEPT ![h] = next], NEW calls
    PROVE  /\ next \in calls => Busy(calls)'
           /\ at[h] \notin calls /\ Busy(calls) => Busy(calls)'
           /\ Busy(calls)' => Busy(calls) \/ next \in calls
           /\ next # "idle" => ~Quiet'
BY DEF TypeOK, Busy, Quiet

\* A step that fails, or a trouble, ends what could be said of the episode.
LEMMA SpoiledIsNotClean ==
    ASSUME TypeOK, Fault \/ (\E h \in Handlers : Go(h, "reportFailed"))
    PROVE  \A goal : ~Clean(goal)'
<1>1. CASE Fault
  BY <1>1 DEF TypeOK, Episodes, Fault, Clean
<1>2. ASSUME NEW h \in Handlers, Go(h, "reportFailed") PROVE \A goal : ~Clean(goal)'
  <2>1. at'[h] = "reportFailed"
    BY <1>2 DEF TypeOK, Go
  <2> QED BY <2>1 DEF Clean, Busy
<1> QED BY <1>1, <1>2

LEMMA GoalsStay == ASSUME TypeOK, Fault \/ NoFault PROVE episode'.goals = episode.goals
BY DEF TypeOK, Episodes, Fault, NoFault

LEMMA FailedStepKeeps ==
    ASSUME TypeOK, SameGoal, NEW h \in Handlers, at[h] # "idle", Go(h, "reportFailed"), Fault \/ NoFault
    PROVE  SameGoal'
<1>1. OpsFit'
  BY DEF TypeOK, SameGoal, OpsFit, Go
<1>2. GoalsKept'
  BY GoalsStay DEF TypeOK, SameGoal, GoalsKept, Go
<1>3. BroughtAbout' /\ RestartMakesAnew'
  BY SpoiledIsNotClean DEF BroughtAbout, RestartMakesAnew
<1> QED BY <1>1, <1>2, <1>3 DEF SameGoal

\* Who is clean after a step without trouble was clean before it.
LEMMA WasClean ==
    ASSUME TypeOK, NEW h \in Handlers, NEW next, at' = [at EXCEPT ![h] = next], NoFault,
           at[h] # "reportFailed", NEW goal, Clean(goal)'
    PROVE  Clean(goal)
<1>1. episode' = episode
  BY DEF NoFault
<1>2. Busy({"reportFailed"}) => Busy({"reportFailed"})'
  BY BusyNext
<1> QED BY <1>1, <1>2 DEF Clean

\* A call that succeeds: the handler has more to do before what it wants is there,
\* or has just brought it about, or did so before.
LEMMA GoodStepKeeps ==
    ASSUME TypeOK, SameGoal, NEW h \in Handlers, NEW next \in Calls \ {"reportFailed"},
           at' = [at EXCEPT ![h] = next], NoFault, UNCHANGED <<strategy, record, reported>>,
           at[h] \notin {"idle", "record", "report", "reportFailed"},
           Goal(op'[h]) = Goal(op[h]),
           \A k \in Handlers : k # h => op'[k] = op[k],
           next \in {"create", "wait", "service"} => op'[h] \in {"deploy", "start"},
           next \in {"strategy", "delete"} => op'[h] \in {"stop", "restart", "remove"},
           next \in {"getScale", "updateScale"} => op'[h] \in {"start", "stop", "restart"},
           \/ next \in Working
           \/ next \in {"service", "record"} /\ InCluster(Goal(op[h]))'
           \/ next \in {"service", "record"} /\ at[h] \notin Working /\ UNCHANGED main
           \/ next = "record" /\ at[h] = "wait" /\ main = "terminating" /\ UNCHANGED main,
           main' # "terminating" \/ next = "create" \/ Goal(op[h]) # "running"
              \/ (UNCHANGED main /\ next # "wait" /\ at[h] # "create")
    PROVE  SameGoal'
<1>1. OpsFit'
  BY DEF TypeOK, SameGoal, OpsFit
<1>2. GoalsKept'
  BY GoalsStay DEF TypeOK, SameGoal, GoalsKept
<1>3. BroughtAbout'
  <2> SUFFICES ASSUME NEW goal \in Goals, Clean(goal)'
               PROVE  /\ Busy(Working)' \/ InCluster(goal)'
                      /\ Busy(Working \cup {"service", "record"})' \/ InRecord(goal)'
                      /\ ~Quiet' \/ episode'.unheard \/ InReport(goal)'
    BY DEF BroughtAbout
  <2>1. Clean(goal)
    BY WasClean
  <2>2. Goal(op[h]) = goal
    BY <2>1 DEF SameGoal, GoalsKept, Clean
  <2>3. ~Quiet'
    BY BusyNext DEF Calls
  <2>4. next \in Working \cup {"service", "record"}
    OBVIOUS
  <2>5. Busy(Working \cup {"service", "record"})'
    BY <2>4, BusyNext
  <2>6. Busy(Working)' \/ InCluster(goal)'
    <3>1. CASE next \in Working
      BY <3>1, BusyNext
    <3>2. CASE InCluster(Goal(op[h]))'
      BY <2>2, <3>2
    <3>3. CASE at[h] \notin Working /\ UNCHANGED main
      <4>1. Busy(Working) => Busy(Working)'
        BY <3>3, BusyNext
      <4>2. InCluster(goal) => InCluster(goal)'
        BY <3>3 DEF InCluster, Serves
      <4> QED BY <2>1, <4>1, <4>2 DEF SameGoal, BroughtAbout
    <3>4. CASE at[h] = "wait" /\ main = "terminating"
      <4>1. Clean("running") /\ Busy({"wait"})
        BY <2>1, <2>2, <3>4 DEF SameGoal, OpsFit, Goal, Busy
      <4>2. Busy({"create"})'
        BY <3>4, <4>1, BusyNext DEF SameGoal, RestartMakesAnew
      <4> QED BY <4>2 DEF Busy, Working
    <3> QED BY <3>1, <3>2, <3>3, <3>4
  <2> QED BY <2>3, <2>5, <2>6
<1>4. RestartMakesAnew'
  <2> SUFFICES ASSUME Clean("running")', main' = "terminating", Busy({"wait"})'
               PROVE  Busy({"create"})'
    BY DEF RestartMakesAnew
  <2>1. Clean("running") /\ Goal(op[h]) = "running"
    BY WasClean DEF SameGoal, GoalsKept, Clean
  <2>2. CASE next = "create"
    BY <2>2, BusyNext
  <2>3. CASE UNCHANGED main /\ next # "wait" /\ at[h] # "create"
    <3>1. Busy({"wait"})
      BY <2>3, BusyNext
    <3> QED BY <2>1, <2>3, <3>1, BusyNext DEF SameGoal, RestartMakesAnew
  <2> QED BY <2>1, <2>2, <2>3
<1> QED BY <1>1, <1>2, <1>3, <1>4 DEF SameGoal

LEMMA StoppedGoesOn ==
    ASSUME TypeOK, SameGoal, NEW h \in Handlers, Stopped(h), NoFault,
           at[h] \in {"updateScale", "delete"},
           op[h] = "restart" \/ InCluster(Goal(op[h]))',
           main' = "terminating" => Agones /\ at[h] = "delete"
    PROVE  SameGoal'
<1>1. CASE op[h] # "restart"
  <2>1. main' # "terminating" \/ Goal(op[h]) # "running"
    BY <1>1 DEF SameGoal, OpsFit, Goal
  <2> QED BY <1>1, <2>1, GoodStepKeeps DEF Stopped, Go, Calls, Working
<1>2. CASE op[h] = "restart"
  <2> DEFINE next == StartsWith("start")
  <2>1. /\ op' = [op EXCEPT ![h] = "start"] /\ at' = [at EXCEPT ![h] = next]
        /\ UNCHANGED <<strategy, record, reported, scraping, jobs>>
    BY <1>2 DEF Stopped
  <2>2. next \in {"create", "getScale"} /\ (main' = "terminating" => next = "create")
    BY DEF StartsWith
  <2>3. op'[h] = "start" /\ \A k \in Handlers : k # h => op'[k] = op[k]
    BY <2>1 DEF TypeOK
  <2>4. Goal(op'[h]) = Goal(op[h])
    BY <1>2, <2>3 DEF Goal
  <2> HIDE DEF next
  <2> QED BY <2>1, <2>2, <2>3, <2>4, GoodStepKeeps DEF Calls, Working
<1> QED BY <1>1, <1>2

LEMMA BeginKeepsGoals == ASSUME IInv, SameGoal, NEW h \in Handlers, Begin(h) PROVE SameGoal'
<1> PICK o \in Ops :
        /\ op' = [op EXCEPT ![h] = o]
        /\ at' = [at EXCEPT ![h] = StartsWith(o)]
        /\ episode' = [(IF Quiet THEN NewEpisode ELSE episode) EXCEPT !.goals = @ \cup {Goal(o)}]
  BY DEF Begin
<1> DEFINE next == StartsWith(o)
<1>1. /\ next \in {"create", "getScale", "strategy"}
      /\ next = "create" => o \in {"deploy", "start"}
      /\ next = "getScale" => o = "start"
      /\ next = "strategy" => o \in {"stop", "restart", "remove"}
  BY DEF StartsWith, Ops
<1> HIDE DEF next
<1>2. TypeOK /\ at' = [at EXCEPT ![h] = next] /\ next \in Working
  BY <1>1 DEF IInv, next, Working
<1>3. OpsFit'
  BY <1>1, <1>2 DEF TypeOK, SameGoal, OpsFit
<1>4. GoalsKept'
  <2> SUFFICES ASSUME NEW k \in Handlers, at'[k] # "idle" PROVE Goal(op'[k]) \in episode'.goals
    BY DEF GoalsKept
  <2>1. CASE k = h
    BY <1>2, <2>1 DEF TypeOK, Episodes, NewEpisode
  <2>2. CASE k # h
    <3>1. at[k] # "idle" /\ op'[k] = op[k] /\ ~Quiet
      BY <1>2, <2>2 DEF TypeOK, Quiet
    <3> QED BY <1>2, <3>1 DEF TypeOK, Episodes, SameGoal, GoalsKept
  <2> QED BY <2>1, <2>2
<1>5. Busy(Working)' /\ Busy(Working \cup {"service", "record"})' /\ ~Quiet'
  BY <1>1, <1>2, BusyNext DEF Working
<1>6. RestartMakesAnew'
  <2> SUFFICES ASSUME Clean("running")', main' = "terminating", Busy({"wait"})'
               PROVE  Busy({"create"})'
    BY DEF RestartMakesAnew
  <2>1. at[h] = "idle" /\ main' = main
    BY DEF Begin, clusterVars
  <2>2. Busy({"wait"})
    BY <1>1, <1>2, BusyNext
  <2>3. ~Busy({"reportFailed"})
    BY <1>2, <2>1, BusyNext DEF Clean
  <2>4. /\ ~Quiet
        /\ episode' = [episode EXCEPT !.goals = @ \cup {Goal(o)}]
    BY <2>2 DEF Busy, Quiet
  <2>5. episode.goals = {"running"} /\ ~episode.failed /\ ~episode.disturbed
    <3>1. /\ episode'.goals = episode.goals \cup {Goal(o)}
          /\ episode'.failed = episode.failed /\ episode'.disturbed = episode.disturbed
      BY <1>2, <2>4 DEF TypeOK, Episodes
    <3>2. PICK k \in Handlers : Goal(op[k]) \in episode.goals
      BY <2>4 DEF SameGoal, GoalsKept, Quiet
    <3> QED BY <3>1, <3>2 DEF Clean
  <2>6. Busy({"create"})
    BY <2>1, <2>2, <2>3, <2>5 DEF SameGoal, RestartMakesAnew, Clean
  <2> QED BY <1>2, <2>1, <2>6, BusyNext
<1> QED BY <1>3, <1>4, <1>5, <1>6 DEF SameGoal, BroughtAbout

LEMMA CallKeepsGoals ==
    ASSUME IInv, SameGoal, NEW h \in Handlers,
           Create(h) \/ CreateService(h) \/ WaitReady(h) \/ StrategyFor(h) \/ GetScale(h)
              \/ UpdateScale(h) \/ Delete(h)
    PROVE  SameGoal'
<1> USE DEF IInv
<1>1. ASSUME NEW call, call # "idle", NEW possible, NEW effect, NEW next,
             Call(h, call, possible, effect, next),
             at[h] = call /\ possible /\ effect /\ next /\ NoFault => SameGoal'
      PROVE  SameGoal'
  BY <1>1, FailedStepKeeps DEF Call
<1>2. CASE Create(h)
  <2> DEFINE then == IF Agones THEN "wait" ELSE "service"
  <2>1. ASSUME at[h] = "create", Becomes(IF Agones THEN "starting" ELSE "up"), Go(h, then), NoFault
        PROVE  SameGoal'
    <3>1. op[h] \in {"deploy", "start"}
      BY <2>1 DEF SameGoal, OpsFit
    <3>2. Goal(op[h]) = "running"
      BY <3>1 DEF Goal
    <3>3. then = "wait" \/ InCluster("running")'
      BY <2>1 DEF InCluster, Serves, Becomes
    <3>4. main' # "terminating"
      BY <2>1 DEF Becomes
    <3> QED BY <2>1, <3>1, <3>2, <3>3, <3>4, GoodStepKeeps DEF Go, Calls, Working
  <2> QED BY <1>1, <1>2, <2>1 DEF Create
<1>3. CASE CreateService(h)
  <2>1. ASSUME at[h] = "service", service' = TRUE, UNCHANGED main, Go(h, "record"), NoFault
        PROVE  SameGoal'
    BY <2>1, GoodStepKeeps DEF Go, Calls, Working
  <2> QED BY <1>1, <1>3, <2>1 DEF CreateService
<1>4. CASE WaitReady(h)
  <2>1. at[h] = "wait" /\ NoFault /\ UNCHANGED main
    BY <1>4 DEF WaitReady, clusterVars
  <2>2. CASE Go(h, "reportFailed")
    BY <2>1, <2>2, FailedStepKeeps
  <2>3. CASE Go(h, "record") /\ main \in {"ready", "terminating"}
    <3>1. op[h] \in {"deploy", "start"}
      BY <2>1 DEF SameGoal, OpsFit
    <3>2. Goal(op[h]) = "running" /\ (main = "terminating" \/ InCluster("running")')
      BY <2>1, <2>3, <3>1 DEF Goal, InCluster, Serves
    <3> QED BY <2>1, <2>3, <3>1, <3>2, GoodStepKeeps DEF Go, Calls, Working
  <2> QED BY <1>4, <2>2, <2>3 DEF WaitReady
<1>5. CASE StrategyFor(h)
  <2> DEFINE then == IF op[h] = "remove" \/ Agones THEN "delete" ELSE "getScale"
  <2>1. ASSUME at[h] = "strategy", UNCHANGED clusterVars, Go(h, then), NoFault PROVE SameGoal'
    <3>1. op[h] \in {"stop", "restart", "remove"}
      BY <2>1 DEF SameGoal, OpsFit
    <3> QED BY <2>1, <3>1, GoodStepKeeps DEF Go, Calls, Working, clusterVars
  <2> QED BY <1>1, <1>5, <2>1 DEF StrategyFor
<1>6. CASE GetScale(h)
  <2>1. ASSUME at[h] = "getScale", UNCHANGED clusterVars, Go(h, "updateScale"), NoFault
        PROVE  SameGoal'
    <3>1. op[h] \in {"start", "stop", "restart"}
      BY <2>1 DEF SameGoal, OpsFit
    <3> QED BY <2>1, <3>1, GoodStepKeeps DEF Go, Calls, Working, clusterVars
  <2> QED BY <1>1, <1>6, <2>1 DEF GetScale
<1>7. CASE UpdateScale(h)
  <2>1. ASSUME at[h] = "updateScale", Becomes(IF op[h] = "start" THEN "up" ELSE "down"),
               Stopped(h), NoFault
        PROVE  SameGoal'
    <3>1. op[h] \in {"start", "stop", "restart"}
      BY <2>1 DEF SameGoal, OpsFit
    <3>2. op[h] = "restart" \/ InCluster(Goal(op[h]))'
      BY <2>1, <3>1 DEF Goal, InCluster, Serves, Becomes, Stopped, Go
    <3>3. main' # "terminating"
      BY <2>1 DEF Becomes
    <3> QED BY <2>1, <3>2, <3>3, StoppedGoesOn
  <2> QED BY <1>1, <1>7, <2>1 DEF UpdateScale
<1>8. CASE Delete(h)
  <2> DEFINE left == IF Agones THEN "terminating" ELSE "none"
  <2>1. ASSUME at[h] = "delete", Becomes(left), Stopped(h), NoFault PROVE SameGoal'
    <3>1. op[h] \in {"stop", "restart", "remove"}
      BY <2>1 DEF SameGoal, OpsFit
    <3>2. op[h] = "restart" \/ InCluster(Goal(op[h]))'
      BY <2>1, <3>1 DEF Goal, InCluster, Serves, Becomes, Stopped, Go
    <3>3. main' = "terminating" => Agones
      BY <2>1 DEF Becomes
    <3> QED BY <2>1, <3>2, <3>3, StoppedGoesOn
  <2> QED BY <1>1, <1>8, <2>1 DEF Delete
<1> QED BY <1>2, <1>3, <1>4, <1>5, <1>6, <1>7, <1>8

LEMMA WriteRecordKeepsGoals ==
    ASSUME IInv, SameGoal, NEW h \in Handlers, WriteRecord(h)
    PROVE  SameGoal'
<1>1. /\ TypeOK /\ at[h] = "record" /\ at' = [at EXCEPT ![h] = "report"] /\ NoFault
      /\ record' \in {Written(op[h]), "none"}
      /\ UNCHANGED <<op, main, reported, episode>>
  BY DEF IInv, WriteRecord, NoFault, clusterVars
<1>2. OpsFit' /\ GoalsKept'
  BY <1>1 DEF TypeOK, SameGoal, OpsFit, GoalsKept
<1>3. BroughtAbout'
  <2> SUFFICES ASSUME NEW goal \in Goals, Clean(goal)'
               PROVE  /\ Busy(Working)' \/ InCluster(goal)'
                      /\ Busy(Working \cup {"service", "record"})' \/ InRecord(goal)'
                      /\ ~Quiet' \/ episode'.unheard \/ InReport(goal)'
    BY DEF BroughtAbout
  <2>1. Clean(goal)
    BY <1>1, WasClean
  <2>2. Goal(op[h]) = goal
    BY <1>1, <2>1 DEF SameGoal, GoalsKept, Clean
  <2>3. Busy(Working) => Busy(Working)'
    BY <1>1, BusyNext DEF Working
  <2>4. InCluster(goal) => InCluster(goal)'
    BY <1>1 DEF InCluster, Serves
  <2>5. InRecord(goal)'
    BY <1>1, <2>2 DEF InRecord, Written, Goal, Goals
  <2>6. ~Quiet'
    BY <1>1 DEF TypeOK, Quiet
  <2> QED BY <2>1, <2>3, <2>4, <2>5, <2>6 DEF SameGoal, BroughtAbout
<1>4. RestartMakesAnew'
  <2>1. Clean("running")' => Clean("running")
    BY <1>1, WasClean
  <2>2. Busy({"wait"})' => Busy({"wait"})
    BY <1>1 DEF TypeOK, Busy
  <2>3. Busy({"create"}) => Busy({"create"})'
    BY <1>1, BusyNext
  <2> QED BY <1>1, <2>1, <2>2, <2>3 DEF SameGoal, RestartMakesAnew
<1> QED BY <1>2, <1>3, <1>4 DEF SameGoal

LEMMA ReportKeepsGoals ==
    ASSUME IInv, SameGoal, NEW h \in Handlers, Report(h)
    PROVE  SameGoal'
<1>1. /\ TypeOK /\ at[h] \in {"report", "reportFailed"} /\ at' = [at EXCEPT ![h] = "idle"]
      /\ op' = [op EXCEPT ![h] = "deploy"]
      /\ UNCHANGED <<main, record>> /\ episode'.goals = episode.goals
      /\ episode'.failed = (episode.failed \/ at[h] = "reportFailed")
      /\ episode'.disturbed = episode.disturbed
      /\ at[h] = "report" => episode'.unheard \/ reported' = Told(op[h])
  BY DEF IInv, TypeOK, Episodes, Report, clusterVars
<1>2. OpsFit' /\ GoalsKept'
  BY <1>1 DEF TypeOK, SameGoal, OpsFit, GoalsKept
<1>3. ASSUME NEW goal, Clean(goal)'
      PROVE  at[h] = "report" /\ Clean(goal)
  <2>1. at[h] = "report"
    BY <1>1, <1>3 DEF Clean
  <2>2. Busy({"reportFailed"}) => Busy({"reportFailed"})'
    BY <1>1, <2>1, BusyNext
  <2> QED BY <1>1, <1>3, <2>1, <2>2 DEF Clean, TypeOK
<1>4. BroughtAbout'
  <2> SUFFICES ASSUME NEW goal \in Goals, Clean(goal)'
               PROVE  /\ Busy(Working)' \/ InCluster(goal)'
                      /\ Busy(Working \cup {"service", "record"})' \/ InRecord(goal)'
                      /\ ~Quiet' \/ episode'.unheard \/ InReport(goal)'
    BY DEF BroughtAbout
  <2>1. at[h] = "report" /\ Clean(goal)
    BY <1>3
  <2>2. Goal(op[h]) = goal
    BY <2>1 DEF SameGoal, GoalsKept, Clean
  <2>3. Busy(Working) => Busy(Working)'
    BY <1>1, BusyNext DEF Working
  <2>4. Busy(Working \cup {"service", "record"}) => Busy(Working \cup {"service", "record"})'
    BY <1>1, BusyNext DEF Working
  <2>5. (InCluster(goal) => InCluster(goal)') /\ (InRecord(goal) => InRecord(goal)')
    BY <1>1 DEF InCluster, InRecord, Serves
  <2>6. episode'.unheard \/ InReport(goal)'
    BY <1>1, <2>1, <2>2 DEF InReport, Told, Goal, Goals
  <2> QED BY <2>1, <2>3, <2>4, <2>5, <2>6 DEF SameGoal, BroughtAbout
<1>5. RestartMakesAnew'
  <2>1. Clean("running")' => Clean("running")
    BY <1>3
  <2>2. Busy({"wait"})' => Busy({"wait"})
    BY <1>1 DEF TypeOK, Busy
  <2>3. Busy({"create"}) => Busy({"create"})'
    BY <1>1, BusyNext
  <2> QED BY <1>1, <2>1, <2>2, <2>3 DEF SameGoal, RestartMakesAnew
<1> QED BY <1>2, <1>4, <1>5 DEF SameGoal

\* The cluster goes on by itself, and the scraper tells what it has found.
LEMMA AroundKeepsGoals ==
    ASSUME IInv, SameGoal, BecomesReady \/ Finalized \/ Scraper
    PROVE  SameGoal'
<1>1. /\ UNCHANGED <<op, at, record>>
      /\ \/ UNCHANGED main
         \/ main = "starting" /\ main' = "ready"
         \/ main = "terminating" /\ main' = "none"
      /\ episode'.goals = episode.goals /\ episode'.failed = episode.failed
      /\ episode'.disturbed = episode.disturbed /\ (episode.unheard => episode'.unheard)
      /\ UNCHANGED reported \/ record = "Running" \/ episode'.unheard
  BY DEF IInv, TypeOK, Episodes, BecomesReady, Finalized, Scraper, ScrapeRecord,
         ScrapeStatus, ScrapeReport, Unattended, NoFault
<1>2. OpsFit' /\ GoalsKept'
  BY <1>1 DEF SameGoal, OpsFit, GoalsKept
<1>3. /\ \A goal : Clean(goal)' => Clean(goal)
      /\ \A calls : Busy(calls)' <=> Busy(calls)
      /\ Quiet' <=> Quiet
  BY <1>1 DEF Clean, Busy, Quiet
<1>4. BroughtAbout'
  <2> SUFFICES ASSUME NEW goal \in Goals, Clean(goal)
               PROVE  /\ Busy(Working) \/ InCluster(goal)'
                      /\ Busy(Working \cup {"service", "record"}) \/ InRecord(goal)'
                      /\ ~Quiet \/ episode'.unheard \/ InReport(goal)'
    BY <1>3 DEF BroughtAbout
  <2>1. InCluster(goal) => InCluster(goal)'
    BY <1>1 DEF InCluster, Serves
  <2>2. InRecord(goal) => InRecord(goal)'
    BY <1>1 DEF InRecord
  <2>3. ASSUME Quiet, ~episode'.unheard PROVE InReport(goal)'
    <3>1. InRecord(goal) /\ InReport(goal)
      BY <1>1, <2>3 DEF SameGoal, BroughtAbout, Busy, Quiet, Working
    <3>2. CASE UNCHANGED reported
      BY <1>1, <3>1, <3>2 DEF InReport
    <3>3. CASE record = "Running"
      <4>1. goal = "running"
        BY <3>1, <3>3 DEF InRecord, Goals
      <4> QED BY <1>1, <3>3, <4>1 DEF InReport
    <3> QED BY <1>1, <2>3, <3>2, <3>3
  <2> QED BY <2>1, <2>2, <2>3 DEF SameGoal, BroughtAbout
<1>5. RestartMakesAnew'
  BY <1>1, <1>3 DEF SameGoal, RestartMakesAnew
<1> QED BY <1>2, <1>4, <1>5 DEF SameGoal

\* A GameServer ends, the daemon restarts: the episode is disturbed.
LEMMA TroubleKeepsGoals ==
    ASSUME IInv, SameGoal, GameServerEnds \/ DaemonRestart
    PROVE  SameGoal'
<1>1. TypeOK /\ Fault
  BY DEF IInv, GameServerEnds, DaemonRestart
<1>2. UNCHANGED <<op, at>> \/ \A h \in Handlers : at'[h] = "idle"
  BY DEF GameServerEnds, DaemonRestart, Unattended
<1>3. OpsFit' /\ GoalsKept'
  BY <1>1, <1>2, GoalsStay DEF SameGoal, OpsFit, GoalsKept
<1> QED BY <1>1, <1>3, SpoiledIsNotClean DEF SameGoal, BroughtAbout, RestartMakesAnew

LEMMA NextKeepsGoals == IInv /\ SameGoal /\ [Next]_vars => SameGoal'
<1> SUFFICES ASSUME IInv, SameGoal, [Next]_vars PROVE SameGoal'
  OBVIOUS
<1>1. ASSUME NEW h \in Handlers, Begin(h) PROVE SameGoal'
  BY <1>1, BeginKeepsGoals
<1>2. ASSUME NEW h \in Handlers, Handler(h) PROVE SameGoal'
  BY <1>2, CallKeepsGoals, WriteRecordKeepsGoals, ReportKeepsGoals DEF Handler
<1>3. CASE BecomesReady \/ GameServerEnds \/ Finalized \/ Scraper \/ DaemonRestart
  BY <1>3, AroundKeepsGoals, TroubleKeepsGoals
<1>4. CASE UNCHANGED vars
  BY <1>4 DEF vars, clusterVars, SameGoal, OpsFit, GoalsKept, BroughtAbout, RestartMakesAnew, Clean, Busy, Quiet,
     InCluster, Serves, InRecord, InReport
<1> QED BY <1>1, <1>2, <1>3, <1>4 DEF Next

\* Handlers that want the same of a workload and end without a failure or a trouble
\* leave the cluster, the repository and the platform in agreement about it.
THEOREM SameGoalIsAgreedOn == Spec => []SameGoalAgrees
<1>1. Init => SameGoal
  BY DEF Init, NewEpisode, SameGoal, OpsFit, GoalsKept, BroughtAbout, RestartMakesAnew, Clean
<1>2. IInv /\ SameGoal /\ [Next]_vars => SameGoal'
  BY NextKeepsGoals
<1>3. IInv /\ SameGoal => SameGoalAgrees
  <2> SUFFICES ASSUME SameGoal, NEW goal \in Goals, Quiet, episode.goals = {goal},
                      ~episode.failed, ~episode.disturbed
               PROVE  InCluster(goal) /\ InRecord(goal) /\ (episode.unheard \/ InReport(goal))
    BY DEF SameGoalAgrees
  <2>1. /\ ~Busy({"reportFailed"}) /\ ~Busy(Working)
        /\ ~Busy(Working \cup {"service", "record"})
    BY DEF Quiet, Busy, Working
  <2> QED BY <2>1 DEF SameGoal, BroughtAbout, Clean
<1> QED BY <1>1, <1>2, <1>3, InvariantHolds, PTL DEF Spec
=============================================================================
