------------------------------- MODULE Tailer -------------------------------
(***************************************************************************)
(* logs.Tailer: one goroutine reconciles, every few seconds, the set of    *)
(* tailing goroutines with the workloads the repository calls running; a   *)
(* tailing goroutine follows one container's log until its context is      *)
(* cancelled, the stream ends or the connection breaks.  They share the    *)
(* map (TailMap).  What a tail does with the lines it reads is left out,   *)
(* but for a line longer than the scanner takes: it silences the tail.     *)
(***************************************************************************)
EXTENDS Integers, TailMap

CONSTANTS Overlong,     \* the workloads whose programs write over-long lines
          MaxChanges    \* bound: how often containers, records and connections change

ASSUME OverlongAssumption == Overlong \subseteq Workloads
ASSUME MaxChangesAssumption == MaxChanges \in Nat

VARIABLES status,       \* the workloads whose record says "running"
          stream,       \* the workloads whose container runs: their log stays open
          pc,           \* where Run stands
          todo,         \* reconcile: the servers still to be visited
          active,       \* reconcile: the running ones among those visited
          cancelled,    \* whether the daemon's context is cancelled
          changes

vars == <<status, stream, running, tails, done, pc, todo, active, cancelled, changes>>
worldVars == <<status, stream, changes>>
loopVars  == <<pc, todo, active>>

TypeOK ==
    /\ status \subseteq Workloads /\ stream \subseteq Workloads
    /\ running \in [Workloads -> Tails \cup {NoTail}]
    /\ tails \in [Tails -> [pc : TailPCs, workload : Workloads]]
    /\ done \subseteq Tails
    /\ pc \in {"waiting", "visiting", "returned"}
    /\ todo \subseteq Workloads /\ active \subseteq Workloads
    /\ cancelled \in BOOLEAN
    /\ changes \in 0 .. MaxChanges

Init ==
    /\ status \in SUBSET Workloads /\ stream = status
    /\ running = [w \in Workloads |-> NoTail]
    /\ tails \in [Tails -> [pc : {"none"}, workload : {CHOOSE w \in Workloads : TRUE}]]
    /\ done = {}
    /\ pc = "waiting" /\ todo = {} /\ active = {}
    /\ cancelled = FALSE
    /\ changes = 0

-----------------------------------------------------------------------------
(* The world: workers and Docker change the record and the container of a  *)
(* workload, one after the other, in any order.                            *)

Toggle(set, w) == IF w \in set THEN set \ {w} ELSE set \cup {w}

WorldChanges(w) ==
    /\ changes < MaxChanges
    /\ changes' = changes + 1
    /\ \/ status' = Toggle(status, w) /\ UNCHANGED stream
       \/ stream' = Toggle(stream, w) /\ UNCHANGED status
    /\ UNCHANGED <<running, tails, done, loopVars, cancelled>>

\* SIGTERM: the contexts of the tails are children of the daemon's.
Shutdown ==
    /\ ~cancelled
    /\ cancelled' = TRUE
    /\ done' = {t \in Tails : Exists(t)}
    /\ UNCHANGED <<worldVars, running, tails, loopVars>>

-----------------------------------------------------------------------------
(* The reconciling goroutine.                                              *)

\* A tick, or the call before the loop.  A select with both cases ready picks
\* either, so a tick may still be taken after the cancellation.
Tick ==
    /\ pc = "waiting"
    /\ pc' = "visiting"
    /\ todo' = Workloads /\ active' = {}
    /\ UNCHANGED <<worldVars, running, tails, done, cancelled>>

SkipNotRunning(w) ==
    /\ w \notin status
    /\ UNCHANGED <<active, running, tails, done>>

KeepTail(w) ==
    /\ w \in status /\ running[w] # NoTail
    /\ active' = active \cup {w}
    /\ UNCHANGED <<running, tails, done>>

\* A mutant of StartTail: the tail's context is not a child of the daemon's.
StartTailDetached(w) ==
    /\ w \in status /\ running[w] = NoTail
    /\ active' = active \cup {w}
    /\ LET t == FreeName IN
       /\ ~Exists(t)
       /\ running' = [running EXCEPT ![w] = t]
       /\ tails' = [tails EXCEPT ![t] = [pc |-> "opening", workload |-> w]]
       /\ UNCHANGED done

\* The look into the map and the insertion are two critical sections; only this
\* goroutine inserts, so nothing can come between them.
StartTail(w) ==
    /\ w \in status /\ running[w] = NoTail
    /\ active' = active \cup {w}
    /\ LET t == FreeName IN
       /\ ~Exists(t)
       /\ running' = [running EXCEPT ![w] = t]
       /\ tails' = [tails EXCEPT ![t] = [pc |-> "opening", workload |-> w]]
       /\ done' = IF cancelled THEN done \cup {t} ELSE done

\* The status is read when the server's turn comes, after ListAll.
Visit(w) ==
    /\ pc = "visiting" /\ w \in todo
    /\ todo' = todo \ {w}
    /\ SkipNotRunning(w) \/ KeepTail(w) \/ StartTail(w)
    /\ UNCHANGED <<worldVars, pc, cancelled>>

\* The end of reconcile, one critical section.
Prune ==
    /\ pc = "visiting" /\ todo = {}
    /\ pc' = "waiting"
    /\ done' = done \cup Registered(Workloads \ active)
    /\ running' = [w \in Workloads |-> IF w \in active THEN running[w] ELSE NoTail]
    /\ active' = {}
    /\ UNCHANGED <<worldVars, tails, todo, cancelled>>

StopAll ==
    /\ pc = "waiting" /\ cancelled
    /\ pc' = "returned"
    /\ done' = done \cup Registered(Workloads)
    /\ running' = [w \in Workloads |-> NoTail]
    /\ UNCHANGED <<worldVars, tails, todo, active, cancelled>>

Reconciler == Tick \/ (\E w \in Workloads : Visit(w)) \/ Prune

-----------------------------------------------------------------------------
(* A tailing goroutine.                                                    *)

Move(t, from, to) ==
    /\ tails[t].pc = from
    /\ tails' = [tails EXCEPT ![t].pc = to]
    /\ UNCHANGED <<worldVars, running, done, loopVars, cancelled>>

\* runtime.Logs gives a stream, or an error (no such container, or the context
\* is cancelled).
Open(t) ==
    \/ t \notin done /\ Move(t, "opening", "streaming")
    \/ (t \in done \/ tails[t].workload \notin stream) /\ Move(t, "opening", "leaving")

\* Docker does not answer, or the connection that carries the log breaks or
\* brings a bad frame: the error is logged or dropped, and the tail ends although
\* its container runs.
LogFails(t) ==
    /\ changes < MaxChanges
    /\ changes' = changes + 1
    /\ tails[t].pc \in {"opening", "streaming"}
    /\ tails' = [tails EXCEPT ![t].pc = "leaving"]
    /\ UNCHANGED <<status, stream, running, done, loopVars, cancelled>>

\* A line over the limit ends its scanner, without an error anybody looks at; the
\* demultiplexer blocks on the pipe, the other scanner waits for it, and nothing
\* closes the channel of lines: only the context still ends the tail.
Silence(t) == tails[t].workload \in Overlong /\ Move(t, "streaming", "silenced")

\* A mutant of EndOfStream: a closed stream is taken for a silent one.
EndOfStreamUnseen(t) == t \in done /\ Move(t, "streaming", "leaving")

\* The context is cancelled or the stream has ended; what is left of the batch is
\* shipped, under context.Background(), while the goroutine is "leaving".
EndOfStream(t) ==
    \/ (t \in done \/ tails[t].workload \notin stream) /\ Move(t, "streaming", "leaving")
    \/ t \in done /\ Move(t, "silenced", "leaving")

\* A mutant of Leave: the deferred delete is missing.
LeaveEntry(t) ==
    /\ tails[t].pc = "leaving"
    /\ tails' = [tails EXCEPT ![t].pc = "none"]
    /\ done' = done \ {t}
    /\ UNCHANGED <<worldVars, running, loopVars, cancelled>>

\* The deferred function deletes the entry of the workload, whosever it is.
Leave(t) ==
    /\ tails[t].pc = "leaving"
    /\ tails' = [tails EXCEPT ![t].pc = "none"]
    /\ running' = [running EXCEPT ![tails[t].workload] = NoTail]
    /\ done' = done \ {t}
    /\ UNCHANGED <<worldVars, loopVars, cancelled>>

Tailing(t) == Open(t) \/ EndOfStream(t) \/ Leave(t)

Next ==
    \/ \E w \in Workloads : WorldChanges(w)
    \/ Shutdown
    \/ Reconciler \/ StopAll
    \/ \E t \in Tails : Tailing(t) \/ LogFails(t) \/ Silence(t)

Spec == Init /\ [][Next]_vars

\* Goroutines run, ticks come, Docker and the platform answer or time out, and
\* a select does not pass over a ready case for ever.
Fairness ==
    /\ WF_vars(Reconciler)
    /\ SF_vars(StopAll)
    /\ \A t \in Tails : WF_vars(Tailing(t))

FairSpec == Spec /\ Fairness

-----------------------------------------------------------------------------
(* Properties.                                                             *)

\* tailer.go says that it "manages one log-tailing goroutine per running
\* workload": no two that are not cancelled follow the same log.
OneTailPerWorkload ==
    \A w \in Workloads : \A t, u \in Of(w) \ done : t = u

\* A workload that runs, and whose record says so, is tailed in the end, however
\* its container, its record and the connections of its tails went up and down
\* before.  One that writes over-long lines may be left with a silenced tail,
\* whose entry keeps it from getting another.
RunningIsTailed ==
    \A w \in Workloads :
        <>[](w \in status /\ w \in stream /\ ~cancelled)
            => <>[](\E t \in Of(w) \ done :
                       \/ tails[t].pc = "streaming"
                       \/ tails[t].pc = "silenced" /\ w \in Overlong)

\* A tail does not outlive its container, if that writes no over-long line: once
\* the log has ended for good each tail ends, though the reconciler starts another
\* as long as the record says "running"; when it no longer does, none is left.
\* (A silenced tail stays until it is cancelled, and one that a late deferred
\* delete has robbed of its entry until the daemon stops: see ShutdownEndsTails.)
StoppedIsLetGo ==
    \A w \in Workloads :
        /\ <>[](w \notin stream /\ w \notin Overlong) => \A t \in Tails : []<>(t \notin Of(w))
        /\ <>[](w \notin stream /\ w \notin status /\ w \notin Overlong) => <>[](Of(w) = {})

\* After the cancellation every tail ends: also one that no map entry leads to,
\* and one that an over-long line has silenced.
ShutdownEndsTails == cancelled ~> \A t \in Tails : ~Exists(t)
=============================================================================
