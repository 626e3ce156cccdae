------------------------- MODULE DockerScopeProofs -------------------------
(***************************************************************************)
(* Proofs about DockerScope, for any workloads, tenants and pool.          *)
(***************************************************************************)
EXTENDS DockerScope, FiniteSetTheorems, TLAPS

-----------------------------------------------------------------------------
(* The inductive invariant.  A worker has either its own tenant's name in  *)
(* hand or the default network's, a namespace's never the latter; and what *)
(* a pruning has picked out belongs to no namespace, nor does a namespace  *)
(* share a name with what it has picked out.                               *)

Own(w) == NetName(Tenant[w])

OwnOrBridge(w) == scope[w] \in {Own(w), Bridge} /\ net[w] \in {Own(w), Bridge}

NamespaceHasItsOwn(w) ==
    Tenant[w] \in Namespaces =>
        /\ pc[w] = "container" => scope[w] = Own(w) /\ NameTaken(w)
        /\ state[w] # "none" => net[w] = Own(w) /\ NameTaken(w)

DeploysOrStarts(w) ==
    /\ pc[w] \notin {"idle", "start"} => state[w] = "none"
    /\ pc[w] = "start" => state[w] # "none"

Safe(w) ==
    /\ OwnOrBridge(w) /\ NamespaceHasItsOwn(w) /\ DeploysOrStarts(w)
    /\ victim[w] \notin Namespaces
    /\ state[w] = "running" => net[w] \in Reachable

Pool == IsFiniteSet(nets) /\ nets \subseteq Tenants /\ Cardinality(nets) <= PoolSize

IInv == TypeOK /\ Pool /\ \A w \in Workloads : Safe(w)

-----------------------------------------------------------------------------
LEMMA TenantOf ==
    ASSUME NEW w \in Workloads
    PROVE  Tenant[w] \in Tenants /\ Own(w) \in Names(Tenants) /\ Own(w) # Bridge
BY ScopeAssumption DEF Tenants, Own, Names

\* A name tells the kind of a tenant and what its id begins with.
LEMMA NamedAlike ==
    ASSUME NEW s, NEW t, NetName(s) = NetName(t)
    PROVE  ShortID[s] = ShortID[t] /\ (s \in Namespaces <=> t \in Namespaces)
BY DEF NetName, Prefix

LEMMA InitInv == Init => IInv
<1> SUFFICES ASSUME Init PROVE IInv
  OBVIOUS
<1>1. Pool
  BY FS_EmptySet, ScopeAssumption DEF Init, Pool
<1>2. TypeOK
  BY <1>1, ScopeAssumption DEF Init, TypeOK, Pool, PCs
<1>3. \A w \in Workloads : Safe(w)
  BY ScopeAssumption
     DEF Init, Safe, OwnOrBridge, NamespaceHasItsOwn, DeploysOrStarts,
         Own, NameTaken, Reachable
<1> QED
  BY <1>1, <1>2, <1>3 DEF IInv

\* A step of w that takes no network away leaves every other worker safe.
LEMMA OthersStaySafe ==
    ASSUME IInv, NEW w \in Workloads, nets \subseteq nets',
           \A x \in Workloads \ {w} :
              /\ pc'[x] = pc[x] /\ victim'[x] = victim[x] /\ scope'[x] = scope[x]
              /\ state'[x] = state[x] /\ net'[x] = net[x]
    PROVE  \A x \in Workloads \ {w} : Safe(x)'
<1>1. Names(nets) \subseteq Names(nets')
  BY DEF Names
<1> QED
  BY <1>1 DEF IInv, Safe, OwnOrBridge, NamespaceHasItsOwn, DeploysOrStarts,
         Own, NameTaken, Reachable

\* A call that fails ends the deploy and changes nothing else.
LEMMA FailsInv ==
    ASSUME IInv, NEW w \in Workloads, Fails(w), pc[w] \notin {"idle", "start"}
    PROVE  IInv'
<1>1. TypeOK' /\ Pool'
  BY ScopeAssumption DEF IInv, TypeOK, Pool, Fails, Go, Trouble, workerVars, dockerVars, PCs
<1>2. \A x \in Workloads \ {w} : Safe(x)'
  BY OthersStaySafe DEF IInv, TypeOK, Fails, Go, workerVars, dockerVars
<1>3. Safe(w)'
  BY DEF IInv, TypeOK, Fails, Go, workerVars, dockerVars,
         Safe, OwnOrBridge, NamespaceHasItsOwn, DeploysOrStarts,
         Own, NameTaken, Reachable
<1> QED
  BY <1>1, <1>2, <1>3 DEF IInv

LEMMA DeployInv == ASSUME IInv, NEW w \in Workloads, Deploy(w) PROVE IInv'
<1>1. TypeOK' /\ Pool'
  BY DEF IInv, TypeOK, Pool, Deploy, Go, NoTrouble, workerVars, dockerVars, PCs
<1>2. \A x \in Workloads \ {w} : Safe(x)'
  BY OthersStaySafe DEF IInv, TypeOK, Deploy, Go, workerVars, dockerVars
<1>3. Safe(w)'
  BY DEF IInv, TypeOK, Deploy, Go, workerVars, dockerVars,
         Safe, OwnOrBridge, NamespaceHasItsOwn, DeploysOrStarts,
         Own, NameTaken, Reachable
<1> QED
  BY <1>1, <1>2, <1>3 DEF IInv

LEMMA ListNetworksInv == ASSUME IInv, NEW w \in Workloads, ListNetworks(w) PROVE IInv'
<1>1. CASE Fails(w)
  BY <1>1, FailsInv DEF ListNetworks
<1>2. CASE ~Fails(w)
  <2>1. TypeOK' /\ Pool'
    BY <1>2, TenantOf
       DEF IInv, TypeOK, Pool, ListNetworks, Scoped, Go, NoTrouble, dockerVars, PCs, Own
  <2>2. \A x \in Workloads \ {w} : Safe(x)'
    BY <1>2, OthersStaySafe DEF IInv, TypeOK, ListNetworks, Scoped, Go, dockerVars
  <2>3. Safe(w)'
    <3>1. Tenant[w] \in nets => NameTaken(w)
      BY DEF NameTaken, Names
    <3> QED
      BY <1>2, <3>1 DEF IInv, TypeOK, ListNetworks, Scoped, Go, dockerVars,
           Safe, OwnOrBridge, NamespaceHasItsOwn, DeploysOrStarts,
           Own, NameTaken, Reachable
  <2> QED
    BY <2>1, <2>2, <2>3 DEF IInv
<1> QED
  BY <1>1, <1>2

LEMMA ObtainInv ==
    ASSUME IInv, NEW w \in Workloads, Obtain(w), pc[w] \notin {"idle", "start"}
    PROVE  IInv'
<1>1. Pool'
  <2>1. /\ IsFiniteSet(nets \cup {Tenant[w]})
        /\ Cardinality(nets \cup {Tenant[w]}) =
              IF Tenant[w] \in nets THEN Cardinality(nets) ELSE Cardinality(nets) + 1
        /\ Cardinality(nets) \in Nat
    BY FS_AddElement, FS_CardinalityType DEF IInv, Pool
  <2>2. nets' = nets \/ (nets' = nets \cup {Tenant[w]} /\ Cardinality(nets) < PoolSize)
    BY DEF Obtain
  <2>3. CASE nets' = nets
    BY <2>3 DEF IInv, Pool
  <2>4. CASE nets' = nets \cup {Tenant[w]} /\ Cardinality(nets) < PoolSize
    BY <2>1, <2>4, TenantOf, ScopeAssumption DEF IInv, Pool
  <2> QED
    BY <2>2, <2>3, <2>4
<1>2. TypeOK'
  BY <1>1, TenantOf
     DEF IInv, TypeOK, Pool, Obtain, Scoped, Go, NoTrouble, dockerVars, PCs, Own
<1>3. \A x \in Workloads \ {w} : Safe(x)'
  BY OthersStaySafe DEF IInv, TypeOK, Obtain, Scoped, Go, dockerVars
<1>4. NameTaken(w)'
  BY DEF Obtain, NameTaken, Names
<1>5. Names(nets) \subseteq Names(nets')
  BY DEF Obtain, Names
<1>6. Safe(w)'
  BY <1>4, <1>5 DEF IInv, TypeOK, Obtain, Scoped, Go, dockerVars,
         Safe, OwnOrBridge, NamespaceHasItsOwn, DeploysOrStarts,
         Own, NameTaken, Reachable
<1> QED
  BY <1>1, <1>2, <1>3, <1>6 DEF IInv

LEMMA CreateNetworkInv == ASSUME IInv, NEW w \in Workloads, CreateNetwork(w) PROVE IInv'
<1>1. CASE Fails(w)
  BY <1>1, FailsInv DEF CreateNetwork
<1>2. CASE Obtain(w)
  BY <1>2, ObtainInv DEF CreateNetwork
<1>3. CASE Go(w, "prune") /\ NoTrouble /\ UNCHANGED <<nets, workerVars, dockerVars>>
  <2>1. TypeOK' /\ Pool'
    BY <1>3 DEF IInv, TypeOK, Pool, Go, NoTrouble, workerVars, dockerVars, PCs
  <2>2. \A x \in Workloads \ {w} : Safe(x)'
    BY <1>3, OthersStaySafe DEF IInv, TypeOK, Go, workerVars, dockerVars
  <2>3. Safe(w)'
    BY <1>3 DEF IInv, TypeOK, Go, workerVars, dockerVars, CreateNetwork,
         Safe, OwnOrBridge, NamespaceHasItsOwn, DeploysOrStarts,
         Own, NameTaken, Reachable
  <2> QED
    BY <2>1, <2>2, <2>3 DEF IInv
<1> QED
  BY <1>1, <1>2, <1>3 DEF CreateNetwork

-----------------------------------------------------------------------------
(* The pruning.                                                            *)

LEMMA PruneInv == ASSUME IInv, NEW w \in Workloads, Prune(w) PROVE IInv'
<1>1. TypeOK' /\ Pool'
  BY ScopeAssumption
     DEF IInv, TypeOK, Pool, Prune, Prunable, Prefix, Go, Trouble, NoTrouble, dockerVars, PCs
<1>2. \A x \in Workloads \ {w} : Safe(x)'
  BY OthersStaySafe DEF IInv, TypeOK, Prune, Go, dockerVars
<1>3. Safe(w)'
  BY DEF IInv, TypeOK, Prune, Go, dockerVars,
         Safe, OwnOrBridge, NamespaceHasItsOwn, DeploysOrStarts,
         Own, NameTaken, Reachable
<1> QED
  BY <1>1, <1>2, <1>3 DEF IInv

LEMMA InspectInv ==
    ASSUME IInv, NEW w \in Workloads, NEW t \in Tenants, Inspect(w, t)
    PROVE  IInv'
<1>1. t \notin Namespaces
  BY DEF IInv, TypeOK, Inspect
<1>2. TypeOK' /\ Pool'
  BY ScopeAssumption
     DEF IInv, TypeOK, Pool, Inspect, Go, Trouble, NoTrouble, dockerVars, PCs
<1>3. \A x \in Workloads \ {w} : Safe(x)'
  BY OthersStaySafe DEF IInv, TypeOK, Inspect, Go, dockerVars
<1>4. Safe(w)'
  BY <1>1 DEF IInv, TypeOK, Inspect, Go, dockerVars,
         Safe, OwnOrBridge, NamespaceHasItsOwn, DeploysOrStarts,
         Own, NameTaken, Reachable
<1> QED
  BY <1>2, <1>3, <1>4 DEF IInv

\* What is removed is no namespace's network and, at this very moment, no running
\* container's, whatever has happened since it was inspected.
LEMMA RemoveNetworkInv == ASSUME IInv, NEW w \in Workloads, RemoveNetwork(w) PROVE IInv'
<1> DEFINE t == victim[w]
<1>1. t \notin Namespaces /\ nets' \subseteq nets /\ nets \ {t} \subseteq nets'
  BY DEF IInv, Safe, RemoveNetwork, NetworkRemove
<1>2. \A x \in Workloads : state[x] = "running" /\ net[x] = NetName(t) => nets' = nets
  BY DEF RemoveNetwork, NetworkRemove, Running
<1>3. Pool'
  <2>1. CASE nets' = nets
    BY <2>1 DEF IInv, Pool
  <2>2. CASE nets' # nets
    <3>1. nets' = nets \ {t}
      BY <2>2 DEF RemoveNetwork, NetworkRemove
    <3>2. /\ IsFiniteSet(nets \ {t})
          /\ Cardinality(nets \ {t}) =
                IF t \in nets THEN Cardinality(nets) - 1 ELSE Cardinality(nets)
          /\ Cardinality(nets) \in Nat
      BY FS_RemoveElement, FS_CardinalityType DEF IInv, Pool
    <3> QED
      BY <3>1, <3>2, ScopeAssumption DEF IInv, Pool
  <2> QED
    BY <2>1, <2>2
<1>4. TypeOK'
  BY <1>3 DEF IInv, TypeOK, Pool, RemoveNetwork, Go, NoTrouble, dockerVars, PCs
<1>5. ASSUME NEW x \in Workloads PROVE Safe(x)'
  <2>1. state'[x] = state[x] /\ net'[x] = net[x] /\ scope'[x] = scope[x]
    BY DEF RemoveNetwork, dockerVars
  <2>2. pc'[x] = pc[x] \/ (pc'[x] = "pruning" /\ pc[x] = "remove")
    BY DEF IInv, TypeOK, RemoveNetwork, Go
  <2>3. victim'[x] \notin Namespaces
    BY ScopeAssumption DEF IInv, TypeOK, Safe, RemoveNetwork
  <2>4. ASSUME Tenant[x] \in Namespaces, NameTaken(x) PROVE NameTaken(x)'
    <3>1. PICK s \in nets : NetName(s) = NetName(Tenant[x])
      BY <2>4 DEF NameTaken, Names
    <3>2. s # t
      BY <1>1, <2>4, <3>1, NamedAlike
    <3>3. s \in nets'
      BY <1>1, <3>2
    <3> QED
      BY <3>1, <3>3 DEF NameTaken, Names
  <2>5. NamespaceHasItsOwn(x)'
    BY <2>1, <2>2, <2>4 DEF IInv, Safe, NamespaceHasItsOwn, Own
  <2>6. ASSUME state[x] = "running" PROVE net[x] \in Reachable'
    <3>1. CASE net[x] = Bridge
      BY <3>1 DEF Reachable
    <3>2. CASE net[x] # Bridge
      <4>1. PICK s \in nets : NetName(s) = net[x]
        BY <2>6, <3>2 DEF IInv, Safe, Reachable, Names
      <4>2. s \in nets'
        BY <1>1, <1>2, <2>6, <4>1
      <4> QED
        BY <4>1, <4>2 DEF Reachable, Names
    <3> QED
      BY <3>1, <3>2
  <2>7. OwnOrBridge(x)' /\ DeploysOrStarts(x)'
    BY <2>1, <2>2 DEF IInv, Safe, OwnOrBridge, DeploysOrStarts, Own
  <2> QED
    BY <2>1, <2>3, <2>5, <2>6, <2>7 DEF Safe
<1> QED
  BY <1>3, <1>4, <1>5 DEF IInv

LEMMA PruneEndsInv == ASSUME IInv, NEW w \in Workloads, PruneEnds(w) PROVE IInv'
<1>1. TypeOK' /\ Pool'
  BY DEF IInv, TypeOK, Pool, PruneEnds, Go, NoTrouble, workerVars, dockerVars, PCs
<1>2. \A x \in Workloads \ {w} : Safe(x)'
  BY OthersStaySafe DEF IInv, TypeOK, PruneEnds, Go, workerVars, dockerVars
<1>3. Safe(w)'
  BY DEF IInv, TypeOK, PruneEnds, Go, workerVars, dockerVars,
         Safe, OwnOrBridge, NamespaceHasItsOwn, DeploysOrStarts,
         Own, NameTaken, Reachable
<1> QED
  BY <1>1, <1>2, <1>3 DEF IInv

\* Only a project falls back to the default network.
LEMMA RetryCreateInv == ASSUME IInv, NEW w \in Workloads, RetryCreate(w) PROVE IInv'
<1>1. CASE Fails(w)
  BY <1>1, FailsInv DEF RetryCreate
<1>2. CASE Obtain(w)
  BY <1>2, ObtainInv DEF RetryCreate
<1>3. CASE /\ NoTrouble \/ Trouble
           /\ IF Tenant[w] \in Namespaces THEN Go(w, "idle") /\ UNCHANGED scope
                                          ELSE Scoped(w, Bridge)
           /\ UNCHANGED <<nets, todo, victim, dockerVars>>
  <2>1. TypeOK' /\ Pool'
    BY <1>3, ScopeAssumption
       DEF IInv, TypeOK, Pool, Scoped, Go, Trouble, NoTrouble, dockerVars, PCs
  <2>2. \A x \in Workloads \ {w} : Safe(x)'
    BY <1>3, OthersStaySafe DEF IInv, TypeOK, Scoped, Go, dockerVars
  <2>3. Safe(w)'
    BY <1>3 DEF IInv, TypeOK, Scoped, Go, dockerVars, RetryCreate,
         Safe, OwnOrBridge, NamespaceHasItsOwn, DeploysOrStarts,
         Own, NameTaken, Reachable
  <2> QED
    BY <2>1, <2>2, <2>3 DEF IInv
<1> QED
  BY <1>1, <1>2, <1>3 DEF RetryCreate

-----------------------------------------------------------------------------
(* Containers.                                                             *)

LEMMA CreateContainerInv == ASSUME IInv, NEW w \in Workloads, CreateContainer(w) PROVE IInv'
<1>1. CASE Fails(w)
  BY <1>1, FailsInv DEF CreateContainer
<1>2. CASE ~Fails(w)
  <2>1. TypeOK' /\ Pool'
    BY <1>2 DEF IInv, TypeOK, Pool, CreateContainer, Go, NoTrouble, PCs
  <2>2. \A x \in Workloads \ {w} : Safe(x)'
    BY <1>2, OthersStaySafe DEF IInv, TypeOK, CreateContainer, Go
  <2>3. Safe(w)'
    BY <1>2 DEF IInv, TypeOK, CreateContainer, Go,
         Safe, OwnOrBridge, NamespaceHasItsOwn, DeploysOrStarts,
         Own, NameTaken, Reachable
  <2> QED
    BY <2>1, <2>2, <2>3 DEF IInv
<1> QED
  BY <1>1, <1>2

LEMMA ContainerStartInv == ASSUME IInv, NEW w \in Workloads, ContainerStart(w) PROVE IInv'
<1>1. TypeOK' /\ Pool'
  BY ScopeAssumption
     DEF IInv, TypeOK, Pool, ContainerStart, Go, Trouble, NoTrouble, workerVars, PCs
<1>2. \A x \in Workloads \ {w} : Safe(x)'
  BY OthersStaySafe DEF IInv, TypeOK, ContainerStart, Go, workerVars
<1>3. Safe(w)'
  BY DEF IInv, TypeOK, ContainerStart, Go, workerVars,
         Safe, OwnOrBridge, NamespaceHasItsOwn, DeploysOrStarts,
         Own, NameTaken, Reachable
<1> QED
  BY <1>1, <1>2, <1>3 DEF IInv

LEMMA StartInv == ASSUME IInv, NEW w \in Workloads, Start(w) PROVE IInv'
<1>1. TypeOK' /\ Pool'
  BY DEF IInv, TypeOK, Pool, Start, Go, NoTrouble, workerVars, dockerVars, PCs
<1>2. \A x \in Workloads \ {w} : Safe(x)'
  BY OthersStaySafe DEF IInv, TypeOK, Start, Go, workerVars, dockerVars
<1>3. Safe(w)'
  BY DEF IInv, TypeOK, Start, Go, workerVars, dockerVars,
         Safe, OwnOrBridge, NamespaceHasItsOwn, DeploysOrStarts,
         Own, NameTaken, Reachable
<1> QED
  BY <1>1, <1>2, <1>3 DEF IInv

LEMMA StopInv == ASSUME IInv, NEW w \in Workloads, Stop(w) PROVE IInv'
<1>1. TypeOK' /\ Pool'
  BY DEF IInv, TypeOK, Pool, Stop, workerVars
<1>2. \A x \in Workloads \ {w} : Safe(x)'
  BY OthersStaySafe DEF IInv, TypeOK, Stop, workerVars
<1>3. Safe(w)'
  BY DEF IInv, TypeOK, Stop, workerVars,
         Safe, OwnOrBridge, NamespaceHasItsOwn, DeploysOrStarts,
         Own, NameTaken, Reachable
<1> QED
  BY <1>1, <1>2, <1>3 DEF IInv

LEMMA RemoveInv == ASSUME IInv, NEW w \in Workloads, Remove(w) PROVE IInv'
<1>1. TypeOK' /\ Pool'
  BY DEF IInv, TypeOK, Pool, Remove, workerVars
<1>2. \A x \in Workloads \ {w} : Safe(x)'
  BY OthersStaySafe DEF IInv, TypeOK, Remove, workerVars
<1>3. Safe(w)'
  BY DEF IInv, TypeOK, Remove, workerVars,
         Safe, OwnOrBridge, NamespaceHasItsOwn, DeploysOrStarts,
         Own, NameTaken, Reachable
<1> QED
  BY <1>1, <1>2, <1>3 DEF IInv

-----------------------------------------------------------------------------
LEMMA NextInv == IInv /\ [Next]_vars => IInv'
<1> SUFFICES ASSUME IInv, [Next]_vars PROVE IInv'
  OBVIOUS
<1>1. ASSUME NEW w \in Workloads, Deploy(w) PROVE IInv'
  BY <1>1, DeployInv
<1>2. ASSUME NEW w \in Workloads, Deploying(w) PROVE IInv'
  BY <1>2, ListNetworksInv, CreateNetworkInv, PruneInv, InspectInv, RemoveNetworkInv,
     PruneEndsInv, RetryCreateInv, CreateContainerInv, ContainerStartInv DEF Deploying
<1>3. ASSUME NEW w \in Workloads, Start(w) PROVE IInv'
  BY <1>3, StartInv
<1>4. ASSUME NEW w \in Workloads, Stop(w) PROVE IInv'
  BY <1>4, StopInv
<1>5. ASSUME NEW w \in Workloads, Remove(w) PROVE IInv'
  BY <1>5, RemoveInv
<1>6. CASE UNCHANGED vars
  BY <1>6 DEF IInv, TypeOK, Pool, Safe, OwnOrBridge, NamespaceHasItsOwn, DeploysOrStarts,
              Own, NameTaken, Reachable, vars, workerVars, dockerVars
<1> QED
  BY <1>1, <1>2, <1>3, <1>4, <1>5, <1>6 DEF Next

\* The strengthened invariant holds for any number of workers that prune at once.
THEOREM InvariantHolds == Spec => []IInv
<1> QED
  BY InitInv, NextInv, PTL DEF Spec

\* The variables keep their types, and there are never more networks than Docker has
\* addresses for.
THEOREM TypeCorrect == Spec => []TypeOK
<1>1. IInv => TypeOK
  BY DEF IInv
<1> QED
  BY <1>1, InvariantHolds, PTL

\* The isolation of EnsureProjectScope and EnsureNamespaceScope: containers of two
\* tenants meet on the default network only, where no namespace's container is, or on a
\* network whose name both have because their ids begin alike.
THEOREM TenantsMeetForCause == Spec => []SharedForCause
<1>1. IInv => SharedForCause
  <2> SUFFICES ASSUME IInv, NEW v \in Workloads, NEW w \in Workloads,
                      state[v] # "none", state[w] # "none", net[v] = net[w],
                      Tenant[v] # Tenant[w]
               PROVE  \/ net[w] = Bridge /\ {Tenant[v], Tenant[w]} \cap Namespaces = {}
                      \/ /\ net[w] # Bridge /\ ShortID[Tenant[v]] = ShortID[Tenant[w]]
                         /\ Tenant[v] \in Namespaces <=> Tenant[w] \in Namespaces
    BY DEF SharedForCause
  <2>1. CASE net[w] = Bridge
    <3>1. Tenant[v] \notin Namespaces /\ Tenant[w] \notin Namespaces
      BY <2>1, TenantOf DEF IInv, Safe, NamespaceHasItsOwn
    <3> QED
      BY <2>1, <3>1
  <2>2. CASE net[w] # Bridge
    <3>1. NetName(Tenant[v]) = NetName(Tenant[w])
      BY <2>2 DEF IInv, Safe, OwnOrBridge, Own
    <3> QED
      BY <2>2, <3>1, NamedAlike
  <2> QED
    BY <2>1, <2>2
<1> QED
  BY <1>1, InvariantHolds, PTL

\* pruneUnusedProjectNetworks takes no network that a running container, or any
\* container or deploy of a namespace, depends on.
THEOREM PruningSparesNetworksInUse == Spec => []NetworksInUseStay
<1>1. IInv => NetworksInUseStay
  BY DEF IInv, Safe, NamespaceHasItsOwn, DeploysOrStarts, NetworksInUseStay
<1> QED
  BY <1>1, InvariantHolds, PTL
=============================================================================
