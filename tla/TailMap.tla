------------------------------ MODULE TailMap ------------------------------
(***************************************************************************)
(* What the goroutines of logs.Tailer share under its mutex: the map       *)
(* `running`, which holds the cancel function of the tail of each          *)
(* workload; here it holds the tail itself.                                *)
(***************************************************************************)
CONSTANTS Workloads,    \* workload identifiers
          Tails,        \* names for goroutines, used again when one has ended
          NoTail        \* an absent map entry

ASSUME WorkloadsAssumption == Workloads # {}
ASSUME TailsAssumption == Tails # {}
ASSUME NoTailAssumption == NoTail \notin Tails

VARIABLES running,      \* Tailer.running
          tails,        \* tails[t]: where the goroutine t stands, and its workload
          done          \* the goroutines whose context is cancelled

TailPCs == {"none", "opening", "streaming", "silenced", "leaving"}

Exists(t)  == tails[t].pc # "none"
Of(w)      == {t \in Tails : Exists(t) /\ tails[t].workload = w}

\* The cancel functions that reconcile and stopAll call.
Registered(W) == {running[w] : w \in W} \ {NoTail}

\* A goroutine has no name of its own: any free one will do.
FreeName == CHOOSE t \in Tails : (\E u \in Tails : ~Exists(u)) => ~Exists(t)

\* An entry of the map is the tail of that workload, and one that exists: an
\* entry left behind by a goroutine that has ended would keep the workload from
\* ever being tailed again.
EntriesAreTails ==
    \A w \in Workloads : running[w] # NoTail => running[w] \in Of(w)
=============================================================================
