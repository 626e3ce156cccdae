---------------------------- MODULE DockerScope ----------------------------
(***************************************************************************)
(* The networks of the Docker adapter.  A workload is deployed into the    *)
(* network of its tenant, a namespace or, without one, a project; the      *)
(* network is made when it is missed, and Docker has addresses for so many *)
(* only.  When they are used up the networks of projects that nothing runs *)
(* in are removed, while the other workers go on.                          *)
(*                                                                         *)
(* A network bears its tenant's id as a label, by which it is looked up,   *)
(* and a name with the first twelve characters of that id, by which it is  *)
(* made and used: two tenants may have one name between them.              *)
(* node_network, with which all workloads share one network, is not set.   *)
(***************************************************************************)
EXTENDS Integers, FiniteSets

CONSTANTS Workloads,
          Tenant,        \* Tenant[w]: the namespace or project of a workload
          Namespaces,    \* the tenants that are namespaces
          ShortID,       \* ShortID[t]: what a network's name has of the id of t
          Bridge,        \* Docker's default network
          PoolSize,      \* how many networks Docker has addresses for
          MaxTroubles    \* bound: calls that fail for no reason seen here

Tenants == {Tenant[w] : w \in Workloads}

\* projectNetworkName and namespaceNetworkName.
Prefix(t)  == IF t \in Namespaces THEN "kleff_ns_" ELSE "kleff_proj_"
NetName(t) == <<Prefix(t), ShortID[t]>>
Names(ts)  == {NetName(t) : t \in ts}

ASSUME ScopeAssumption ==
    /\ Bridge \notin Tenants \cup Names(Tenants) /\ Namespaces \subseteq Tenants
    /\ PoolSize \in Nat /\ MaxTroubles \in Nat

VARIABLES nets,          \* the networks there are, each as the tenant of its label
          pc,            \* pc[w]: where the worker that deploys or starts w stands
          todo,          \* todo[w]: the networks its pruning has still to look at
          victim,        \* victim[w]: the one it found without containers
          scope,         \* scope[w]: the network's name it has for the container
          state,         \* state[w]: the container's
          net,           \* net[w]: the name of the network it is made for
          troubles

vars == <<nets, pc, todo, victim, scope, state, net, troubles>>
workerVars == <<todo, victim, scope>>
dockerVars == <<state, net>>

PCs == {"idle", "list", "create", "prune", "pruning", "remove", "retry", "container", "start"}

TypeOK ==
    /\ nets \subseteq Tenants /\ Cardinality(nets) <= PoolSize
    /\ pc \in [Workloads -> PCs]
    /\ todo \in [Workloads -> SUBSET (Tenants \ Namespaces)]
    /\ victim \in [Workloads -> Tenants \cup {Bridge}]
    /\ scope \in [Workloads -> Names(Tenants) \cup {Bridge}]
    /\ state \in [Workloads -> {"none", "created", "running", "exited"}]
    /\ net \in [Workloads -> Names(Tenants) \cup {Bridge}]
    /\ troubles \in 0 .. MaxTroubles

Init ==
    /\ nets = {}
    /\ pc = [w \in Workloads |-> "idle"]
    /\ todo = [w \in Workloads |-> {}]
    /\ victim = [w \in Workloads |-> Bridge] /\ scope = victim
    /\ state = [w \in Workloads |-> "none"] /\ net = scope
    /\ troubles = 0

Go(w, next) == pc' = [pc EXCEPT ![w] = next]
Trouble     == troubles < MaxTroubles /\ troubles' = troubles + 1
NoTrouble   == UNCHANGED troubles
Running(t)  == {w \in Workloads : state[w] = "running" /\ net[w] = NetName(t)}
Reachable   == Names(nets) \cup {Bridge}

\* A call fails and Deploy returns the error.
Fails(w) == Go(w, "idle") /\ Trouble /\ UNCHANGED <<nets, workerVars, dockerVars>>

-----------------------------------------------------------------------------
(* EnsureNamespaceScope and EnsureProjectScope.                            *)

Deploy(w) ==
    /\ pc[w] = "idle" /\ state[w] = "none"
    /\ Go(w, "list")
    /\ NoTrouble /\ UNCHANGED <<nets, workerVars, dockerVars>>

Scoped(w, n) == scope' = [scope EXCEPT ![w] = n] /\ Go(w, "container")

ListNetworks(w) ==
    /\ pc[w] = "list"
    /\ \/ /\ IF Tenant[w] \in nets THEN Scoped(w, NetName(Tenant[w]))
                                   ELSE Go(w, "create") /\ UNCHANGED scope
          /\ NoTrouble /\ UNCHANGED <<nets, todo, victim, dockerVars>>
       \/ Fails(w)

\* NetworkCreate: "already exists" is as good as done, whosever network has the name.
NameTaken(w) == NetName(Tenant[w]) \in Names(nets)

Obtain(w) ==
    /\ \/ NameTaken(w) /\ UNCHANGED nets
       \/ ~NameTaken(w) /\ Cardinality(nets) < PoolSize /\ nets' = nets \cup {Tenant[w]}
    /\ Scoped(w, NetName(Tenant[w]))
    /\ NoTrouble /\ UNCHANGED <<todo, victim, dockerVars>>

Exhausted(w) == ~NameTaken(w) /\ Cardinality(nets) >= PoolSize

CreateNetwork(w) ==
    /\ pc[w] = "create"
    /\ \/ Obtain(w)
       \/ Fails(w)
       \/ /\ Exhausted(w) /\ Go(w, "prune")
          /\ NoTrouble /\ UNCHANGED <<nets, workerVars, dockerVars>>

\* A mutant of Prunable: the prefix is not looked at.
AllPrunable == nets

\* The managed networks named kleff_proj_.
Prunable == {t \in nets : Prefix(t) = "kleff_proj_"}

\* pruneUnusedProjectNetworks takes its list; that it fails is not looked at.
Prune(w) ==
    /\ pc[w] = "prune"
    /\ \/ Go(w, "pruning") /\ todo' = [todo EXCEPT ![w] = Prunable] /\ NoTrouble
       \/ Go(w, "retry") /\ Trouble /\ UNCHANGED todo
    /\ UNCHANGED <<nets, victim, scope, dockerVars>>

\* NetworkInspect: only containers that run count as the network's.
Inspect(w, t) ==
    /\ pc[w] = "pruning" /\ t \in todo[w]
    /\ todo' = [todo EXCEPT ![w] = @ \ {t}]
    /\ \/ /\ t \in nets /\ Running(t) = {}
          /\ victim' = [victim EXCEPT ![w] = t] /\ Go(w, "remove") /\ NoTrouble
       \/ /\ \/ (t \notin nets \/ Running(t) # {}) /\ NoTrouble
             \/ Trouble
          /\ UNCHANGED <<victim, pc>>
    /\ UNCHANGED <<nets, scope, dockerVars>>

\* Docker does not remove a network that a running container is attached to.  One that
\* was removed and made again since it was listed counts as the same here; it has another
\* id, by which the removal that is allowed here would fail.
NetworkRemove(t) == nets' = IF Running(t) = {} THEN nets \ {t} ELSE nets

RemoveNetwork(w) ==
    /\ pc[w] = "remove"
    /\ NetworkRemove(victim[w])
    /\ victim' = [victim EXCEPT ![w] = Bridge]
    /\ Go(w, "pruning")
    /\ NoTrouble /\ UNCHANGED <<todo, scope, dockerVars>>

PruneEnds(w) ==
    /\ pc[w] = "pruning" /\ todo[w] = {}
    /\ Go(w, "retry")
    /\ NoTrouble /\ UNCHANGED <<nets, workerVars, dockerVars>>

\* A mutant of RetryCreate: a namespace falls back as a project does.
RetryOrBridge(w) ==
    /\ pc[w] = "retry"
    /\ \/ Obtain(w)
       \/ Scoped(w, Bridge) /\ Exhausted(w) /\ NoTrouble
          /\ UNCHANGED <<nets, todo, victim, dockerVars>>

\* After the pruning NetworkCreate is tried once more.  When it fails, for whatever
\* reason, a project's workload is put on the default network, if Docker has that.
RetryCreate(w) ==
    /\ pc[w] = "retry"
    /\ \/ Obtain(w)
       \/ /\ (Exhausted(w) /\ NoTrouble) \/ Trouble
          /\ IF Tenant[w] \in Namespaces THEN Go(w, "idle") /\ UNCHANGED scope
                                         ELSE Scoped(w, Bridge)
          /\ UNCHANGED <<nets, todo, victim, dockerVars>>
       \/ Fails(w)

-----------------------------------------------------------------------------
(* The rest of Deploy; Start, Stop and Remove.                             *)

\* The image is pulled and the container made for the network by its name.
CreateContainer(w) ==
    /\ pc[w] = "container"
    /\ \/ /\ state' = [state EXCEPT ![w] = "created"]
          /\ net' = [net EXCEPT ![w] = scope[w]]
          /\ scope' = [scope EXCEPT ![w] = Bridge]
          /\ Go(w, "start")
          /\ NoTrouble /\ UNCHANGED <<nets, todo, victim>>
       \/ Fails(w)

\* ContainerStart fails when the network is not there.
ContainerStart(w) ==
    /\ pc[w] = "start"
    /\ Go(w, "idle")
    /\ \/ net[w] \in Reachable /\ state' = [state EXCEPT ![w] = "running"] /\ NoTrouble
       \/ net[w] \notin Reachable /\ UNCHANGED state /\ NoTrouble
       \/ Trouble /\ UNCHANGED state
    /\ UNCHANGED <<nets, workerVars, net>>

Start(w) ==
    /\ pc[w] = "idle" /\ state[w] \in {"created", "exited"}
    /\ Go(w, "start")
    /\ NoTrouble /\ UNCHANGED <<nets, workerVars, dockerVars>>

Stop(w) ==
    /\ pc[w] = "idle" /\ state[w] = "running"
    /\ state' = [state EXCEPT ![w] = "exited"]
    /\ UNCHANGED <<nets, pc, workerVars, net, troubles>>

Remove(w) ==
    /\ pc[w] = "idle" /\ state[w] # "none"
    /\ state' = [state EXCEPT ![w] = "none"]
    /\ net' = [net EXCEPT ![w] = Bridge]
    /\ UNCHANGED <<nets, pc, workerVars, troubles>>

Deploying(w) ==
    \/ ListNetworks(w) \/ CreateNetwork(w)
    \/ Prune(w) \/ (\E t \in Tenants : Inspect(w, t)) \/ RemoveNetwork(w) \/ PruneEnds(w)
    \/ RetryCreate(w)
    \/ CreateContainer(w) \/ ContainerStart(w)

Next == \E w \in Workloads : Deploy(w) \/ Deploying(w) \/ Start(w) \/ Stop(w) \/ Remove(w)

Spec == Init /\ [][Next]_vars

-----------------------------------------------------------------------------
(* Properties.                                                             *)

\* "Nothing else can reach" the containers of a tenant but, first, the other projects
\* that were put on the default network too where the pool was exhausted, never a
\* namespace; and second, a tenant of the same kind whose id is cut to the same name.
\* No other network is ever taken for a tenant's, whoever made or removed it meanwhile.
SharedForCause ==
    \A v, w \in Workloads :
        state[v] # "none" /\ state[w] # "none" /\ net[v] = net[w] /\ Tenant[v] # Tenant[w]
            => \/ net[w] = Bridge /\ {Tenant[v], Tenant[w]} \cap Namespaces = {}
               \/ /\ net[w] # Bridge /\ ShortID[Tenant[v]] = ShortID[Tenant[w]]
                  /\ Tenant[v] \in Namespaces <=> Tenant[w] \in Namespaces

\* No pruning, however it overlaps with the deploys and starts of other workers,
\* takes a network that is in use: not the one of a container that runs, also when it
\* was started after the network had been inspected and whoever's label it bears; and
\* not a namespace's, from the moment a deploy has it, neither before the container is
\* made nor while it is stopped.
NetworksInUseStay ==
    \A w \in Workloads :
        /\ state[w] = "running" => net[w] \in Reachable
        /\ Tenant[w] \in Namespaces /\ (pc[w] \in {"container", "start"} \/ state[w] # "none")
             => NameTaken(w)
=============================================================================
