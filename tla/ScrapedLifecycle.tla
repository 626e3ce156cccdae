-------------------------- MODULE ScrapedLifecycle --------------------------
(***************************************************************************)
(* ServerLifecycle together with the metrics scraper, which tells the      *)
(* platform the state of the container as well: it reads the record, asks  *)
(* Docker, and reports, and the handlers of the workload's jobs may do     *)
(* anything in between.                                                    *)
(***************************************************************************)
EXTENDS ServerLifecycle

VARIABLES scraping,     \* "no", "asking", or the status about to be reported
          asked         \* the project in the record it looked at, None at "no"

scraperVars == <<scraping, asked>>
scrapedVars == <<vars, scraperVars>>

ScrapedTypeOK ==
    /\ TypeOK
    /\ scraping \in {"no", "asking", "running", "stopped", "pending"}
    /\ asked \in Projects \cup {None}

\* A mutant of mapDockerState: a container that has exited is to start again.
ExitedIsPending(state) == IF state = "running" THEN "running" ELSE "pending"

\* The states of Docker a container is in here.
mapDockerState(state) == CASE state = "running" -> "running"
                           [] state = "exited" -> "stopped"
                           [] OTHER -> "pending"

\* A mutant of Listed: only the word of the platform is known.
ListedLowerCase == record # None /\ record.status = "running"

Listed == record # None /\ record.status = "Running"

Unscraped == UNCHANGED <<queueVars, kind, workerVars, dockerVars, record, daemon>>

\* scrape reaches the workload's record.
ScrapeRecord ==
    /\ daemon # "down" /\ scraping = "no" /\ Listed
    /\ scraping' = "asking" /\ asked' = record.project
    /\ Unscraped /\ UNCHANGED <<reported, troubles, episode>>

\* The container that findContainer gives it, by workload id and project.
Findable == container # None /\ container.project = asked

\* Status: the container's state, or an error, with which the workload is passed over.
ScrapeStatus ==
    /\ scraping = "asking"
    /\ \/ /\ Findable /\ UNCHANGED troubles
          /\ scraping' = mapDockerState(container.state) /\ asked' = asked
       \/ ~Findable /\ scraping' = "no" /\ asked' = None /\ UNCHANGED troubles
       \/ /\ scraping' = "no" /\ asked' = None
          /\ Trouble \/ (daemon = "stopping" /\ UNCHANGED troubles)
    /\ Unscraped /\ UNCHANGED <<reported, episode>>

\* Whether what is about to be reported is no longer so.
Stale == container = None \/ scraping # mapDockerState(container.state)

ScrapeReport ==
    /\ scraping \notin {"no", "asking"}
    /\ Tell(scraping)
    /\ scraping' = "no" /\ asked' = None
    /\ episode' = IF Stale /\ reported' # reported THEN Disturbed ELSE episode
    /\ Unscraped

Scraper == ScrapeRecord \/ ScrapeStatus \/ ScrapeReport

ScrapedNext ==
    \/ /\ Next
       /\ IF daemon' = "down" THEN scraping' = "no" /\ asked' = None
                              ELSE UNCHANGED scraperVars
    \/ Scraper

ScrapedInit == Init /\ scraping = "no" /\ asked = None

ScrapedSpec == ScrapedInit /\ [][ScrapedNext]_scrapedVars

\* Ticks come, Docker answers, and calls to the platform are answered or time out.
ScrapedFairSpec == ScrapedSpec /\ WF_scrapedVars(Scraper)

-----------------------------------------------------------------------------
(* Properties.                                                             *)

\* What SameGoalAgrees says of the handlers is not disturbed by an up-to-date report
\* of the scraper, between any two of their steps; only that of a container that was
\* stopped before it ever ran the platform may hear "pending" instead of "stopped".
ScrapedGoalAgrees ==
    \A goal \in Goals :
        Accomplished(goal) =>
            /\ AgreesOnNode(goal)
            /\ \/ episode.failed \/ reported = goal
               \/ goal = "stopped" /\ container.state = "created" /\ reported = "pending"

\* Whatever was told before, by handlers that failed or scrapes that were late: of
\* a workload that its record calls running, in the project its container is of, and
\* that is left alone from then on the platform is in the end told, and not untold,
\* what state its container is in.
TruthIsTold ==
    \A state \in {"running", "exited"} :
        <>[](/\ daemon = "up" /\ Quiet /\ record # None /\ record.status = "Running"
             /\ container # None /\ container.state = state
             /\ record.project = container.project)
            => <>[](reported = mapDockerState(state))
=============================================================================
