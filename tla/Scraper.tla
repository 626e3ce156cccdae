------------------------------ MODULE Scraper ------------------------------
(***************************************************************************)
(* metrics.Scraper: on every tick it asks Docker for the cumulative        *)
(* traffic of each workload the repository calls running, and reports what *)
(* was added since its last look.  One counter stands for the four the     *)
(* code treats alike (network and disk, in and out).  The platform adds up *)
(* what is reported, so what the scraper forgets, and when, decides what a *)
(* tenant is charged: a ledger follows every unit of traffic.              *)
(***************************************************************************)
EXTENDS Integers

CONSTANTS Workloads,    \* workload identifiers
          MaxTraffic,   \* bound: what one workload transfers, in all
          MaxTroubles   \* bound: restarts, failed calls and changes of records

ASSUME WorkloadsAssumption == Workloads # {}
ASSUME MaxTrafficAssumption == MaxTraffic \in Nat
ASSUME MaxTroublesAssumption == MaxTroubles \in Nat

VARIABLES listed,       \* the workloads whose record says "Running" or "running"
          up,           \* the workloads whose container runs
          total,        \* the container's own counter, 0 again when it restarts
          prevIO,       \* Scraper.prevIO; an absent entry reads as 0
          pc,           \* where scrape stands
          todo,         \* the servers of ListAll still to be visited
          activeIDs,    \* the running ones among those visited
          update,       \* the status update at hand
          troubles,
          used,         \* history: all a workload has transferred
          seen,         \* history: whether this life of the container was measured
          ledger        \* history: what became of it

vars == <<listed, up, total, prevIO, pc, todo, activeIDs, update, troubles, used, seen, ledger>>
worldVars == <<listed, up, total, used>>

\* billed:    reached the platform;       lost:   in a report that did not
\* missed:    the container stopped before it was measured
\* masked:    below the snapshot of the container's previous life
\* forgotten: the snapshot was dropped, and the same traffic is measured again
Accounts == {"billed", "lost", "missed", "masked", "forgotten"}

TypeOK ==
    /\ listed \subseteq Workloads /\ up \subseteq Workloads
    /\ total \in [Workloads -> Nat] /\ prevIO \in [Workloads -> Nat]
    /\ pc \in {"waiting", "visiting", "reporting"}
    /\ todo \subseteq Workloads /\ activeIDs \subseteq Workloads
    /\ update \in [id : Workloads, delta : Nat]
    /\ troubles \in 0 .. MaxTroubles
    /\ used \in [Workloads -> Nat]
    /\ seen \in [Workloads -> BOOLEAN]
    /\ ledger \in [Workloads -> [Accounts -> Nat]]

NoUpdate == [id |-> CHOOSE w \in Workloads : TRUE, delta |-> 0]

Init ==
    /\ listed \in SUBSET Workloads /\ up = listed
    /\ total = [w \in Workloads |-> 0] /\ prevIO = [w \in Workloads |-> 0]
    /\ pc = "waiting" /\ todo = {} /\ activeIDs = {} /\ update = NoUpdate
    /\ troubles = 0
    /\ used = [w \in Workloads |-> 0]
    /\ seen = [w \in Workloads |-> FALSE]
    /\ ledger = [w \in Workloads |-> [a \in Accounts |-> 0]]

Trouble == troubles < MaxTroubles /\ troubles' = troubles + 1

Credit(w, account, amount) ==
    ledger' = [ledger EXCEPT ![w][account] = @ + amount]

\* What was measured of the traffic of the container's present life.
Covered(w) == IF seen[w] THEN prevIO[w] ELSE 0

-----------------------------------------------------------------------------
(* The world.                                                              *)

Transfer(w) ==
    /\ w \in up /\ used[w] < MaxTraffic
    /\ used' = [used EXCEPT ![w] = @ + 1]
    /\ total' = [total EXCEPT ![w] = @ + 1]
    /\ UNCHANGED <<listed, up, prevIO, pc, todo, activeIDs, update, troubles, seen, ledger>>

ContainerStops(w) ==
    /\ w \in up /\ Trouble
    /\ up' = up \ {w}
    /\ Credit(w, "missed", total[w] - Covered(w))
    /\ total' = [total EXCEPT ![w] = 0]
    /\ seen' = [seen EXCEPT ![w] = FALSE]
    /\ UNCHANGED <<listed, prevIO, pc, todo, activeIDs, update, used>>

ContainerStarts(w) ==
    /\ w \notin up
    /\ up' = up \cup {w}
    /\ UNCHANGED <<listed, total, prevIO, pc, todo, activeIDs, update, troubles, used, seen, ledger>>

RecordChanges(w) ==
    /\ Trouble
    /\ listed' = IF w \in listed THEN listed \ {w} ELSE listed \cup {w}
    /\ UNCHANGED <<up, total, prevIO, pc, todo, activeIDs, update, used, seen, ledger>>

-----------------------------------------------------------------------------
(* scrape.                                                                 *)

Tick ==
    /\ pc = "waiting"
    /\ pc' = "visiting"
    /\ todo' = Workloads /\ activeIDs' = {}
    /\ UNCHANGED <<worldVars, prevIO, update, troubles, seen, ledger>>

Skip(w) ==
    /\ w \notin listed
    /\ UNCHANGED <<pc, activeIDs, prevIO, update, troubles, seen, ledger>>

\* Status fails: the snapshot is kept.
NoStatus(w) ==
    /\ w \in listed /\ Trouble
    /\ activeIDs' = activeIDs \cup {w}
    /\ UNCHANGED <<pc, prevIO, update, seen, ledger>>

\* A mutant of Delta: a counter that ran backwards is thought not to have moved.
DeltaClamped(now, prev) == IF now - prev < 0 THEN 0 ELSE now - prev

Delta(now, prev) == IF now - prev < 0 THEN now ELSE now - prev

\* A mutant of Measure: the snapshot is not advanced.
MeasureOnly(w, now) ==
    /\ w \in listed
    /\ activeIDs' = activeIDs \cup {w}
    /\ update' = [id |-> w, delta |-> Delta(now, prevIO[w])]
    /\ pc' = "reporting"
    /\ seen' = [seen EXCEPT ![w] = TRUE]
    /\ ledger' = [ledger EXCEPT ![w].masked =
                     @ + IF ~seen[w] /\ now >= prevIO[w] THEN prevIO[w] ELSE 0]
    /\ UNCHANGED <<prevIO, troubles>>

\* The snapshot advances before the report is sent.
Measure(w, now) ==
    /\ w \in listed
    /\ activeIDs' = activeIDs \cup {w}
    /\ update' = [id |-> w, delta |-> Delta(now, prevIO[w])]
    /\ prevIO' = [prevIO EXCEPT ![w] = now]
    /\ pc' = "reporting"
    /\ seen' = [seen EXCEPT ![w] = TRUE]
    /\ ledger' = [ledger EXCEPT ![w].masked =
                     @ + IF ~seen[w] /\ now >= prevIO[w] THEN prevIO[w] ELSE 0]

\* collectStats fails and Status answers with zeros all the same, which reads as
\* a restart: the next delta is the whole counter again.
MeasureZeros(w) ==
    /\ w \in listed \cap up /\ Trouble
    /\ activeIDs' = activeIDs \cup {w}
    /\ update' = [id |-> w, delta |-> Delta(0, prevIO[w])]
    /\ prevIO' = [prevIO EXCEPT ![w] = 0]
    /\ pc' = "reporting"
    /\ Credit(w, "forgotten", Covered(w))
    /\ UNCHANGED seen

\* A container that does not run has no stats: zeros, which is what `total` holds.
Visit(w) ==
    /\ pc = "visiting" /\ w \in todo
    /\ todo' = todo \ {w}
    /\ \/ Skip(w)
       \/ NoStatus(w)
       \/ Measure(w, total[w]) /\ UNCHANGED troubles
       \/ MeasureZeros(w)
    /\ UNCHANGED worldVars

\* A mutant of Report: scrape returns with the first report.
ReportReturns ==
    /\ pc = "reporting"
    /\ pc' = "waiting"
    /\ \/ Credit(update.id, "billed", update.delta) /\ UNCHANGED troubles
       \/ Credit(update.id, "lost", update.delta) /\ Trouble
    /\ update' = NoUpdate
    /\ UNCHANGED <<worldVars, prevIO, todo, activeIDs, seen>>

\* A failed report is logged; what it said is not said again.
Report ==
    /\ pc = "reporting"
    /\ pc' = "visiting"
    /\ \/ Credit(update.id, "billed", update.delta) /\ UNCHANGED troubles
       \/ Credit(update.id, "lost", update.delta) /\ Trouble
    /\ update' = NoUpdate
    /\ UNCHANGED <<worldVars, prevIO, todo, activeIDs, seen>>

\* Every snapshot outside K is dropped.
Keep(K) ==
    /\ prevIO' = [w \in Workloads |-> IF w \in K THEN prevIO[w] ELSE 0]
    /\ ledger' = [w \in Workloads |-> IF w \in K THEN ledger[w] ELSE
                     [ledger[w] EXCEPT !.forgotten = @ + Covered(w)]]

Cleanup ==
    /\ pc = "visiting" /\ todo = {}
    /\ pc' = "waiting"
    /\ activeIDs' = {}
    /\ Keep(activeIDs)
    /\ UNCHANGED <<worldVars, todo, update, troubles, seen>>

\* The daemon is restarted: prevIO lives in memory only, and an update at hand is
\* not sent.
DaemonRestart ==
    /\ Trouble
    /\ pc' = "waiting" /\ todo' = {} /\ activeIDs' = {} /\ update' = NoUpdate
    /\ prevIO' = [w \in Workloads |-> 0]
    /\ ledger' = [w \in Workloads |->
          [ledger[w] EXCEPT !.forgotten = @ + Covered(w),
                            !.lost = @ + IF w = update.id THEN update.delta ELSE 0]]
    /\ UNCHANGED <<worldVars, seen>>

Scrape == Tick \/ (\E w \in Workloads : Visit(w)) \/ Report \/ Cleanup

Next ==
    \/ \E w \in Workloads : \/ Transfer(w) \/ ContainerStops(w) \/ ContainerStarts(w)
                            \/ RecordChanges(w)
    \/ Scrape
    \/ DaemonRestart

Spec == Init /\ [][Next]_vars

\* Ticks come, Docker answers, and calls to the platform are answered or time out.
FairSpec == Spec /\ WF_vars(Scrape)

-----------------------------------------------------------------------------
(* Properties.                                                             *)

Pending(w) == IF update.id = w THEN update.delta ELSE 0

\* Every unit of traffic is found exactly once: reported, on its way to being
\* reported, or lost in one of the three ways the ledger names; and the platform
\* is told of a unit twice only where a snapshot was dropped that the running
\* container's counter still included.
TrafficIsAccountedFor ==
    \A w \in Workloads :
        LET l == ledger[w] IN
        l.billed + Pending(w) + l.lost + l.missed + l.masked + (total[w] - Covered(w))
            = used[w] + l.forgotten

\* A tenant is charged at most for what it used and what the scraper forgot having
\* charged: restarts of the container, at whatever moment between two looks, never
\* add to it (scraper.go takes a counter that ran backwards for "container
\* restarted" and otherwise subtracts).
NeverOverbilled ==
    \A w \in Workloads : ledger[w].billed <= used[w] + ledger[w].forgotten

\* As long as nothing stops, fails or changes its record, the platform has been
\* told exactly what the snapshots say, whatever the moments of the looks.
ExactWithoutTroubles ==
    troubles = 0 => \A w \in Workloads : ledger[w].billed + Pending(w) = prevIO[w]

\* When all is quiet in the end, every listed container's counter is measured to
\* its last unit, and stays so.
CatchesUp ==
    \A w \in Workloads :
        <>[](w \in listed /\ w \in up) => <>[](prevIO[w] = total[w] /\ Pending(w) = 0)
=============================================================================
