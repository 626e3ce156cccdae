------------------------ MODULE ServerLifecycleProofs ------------------------
(***************************************************************************)
(* Proofs about ServerLifecycle, alone and with the scraper, for every set *)
(* of jobs, of projects and of job types a job may be of, any number of    *)
(* attempts and of troubles.                                               *)
(***************************************************************************)
EXTENDS ScrapedLifecycle, TLAPS

-----------------------------------------------------------------------------
(* The inductive invariant.  A handler compares the project label once, in *)
(* findContainer, and acts on the identifier it got there.  That is enough *)
(* because Docker never gives an identifier twice: whatever container      *)
(* bears it later is the one whose label was compared.                     *)

FoundIsKnown ==
    \A j \in Jobs : at[j] \in {"start", "stop", "refind", "remove", "save"} => found[j] # None

IdsAreSpent ==
    /\ container # None => container.id <= created
    /\ \A j \in Jobs : found[j] # None => found[j] <= created

FoundIsOwn == \A j \in Jobs : Mine(j) => container.project = Project[j]

IInv == TypeOK /\ FoundIsKnown /\ IdsAreSpent /\ FoundIsOwn

-----------------------------------------------------------------------------
LEMMA GoalsOfJobs == \A j \in Jobs : Goal(j) \in Goals
BY DEF Goal, Goals

LEMMA Adopted ==
    ASSUME container \in Container \cup {None}
    PROVE  Discover(container) \in Record \cup {None}
BY DEF Discover, Record, Container

LEMMA Episodes ==
    ASSUME episode \in [goals : SUBSET Goals, succeeded : BOOLEAN, failed : BOOLEAN,
                        disturbed : BOOLEAN, clean : BOOLEAN]
    PROVE  /\ Disturbed \in [goals : SUBSET Goals, succeeded : BOOLEAN, failed : BOOLEAN,
                             disturbed : BOOLEAN, clean : BOOLEAN]
           /\ \A clean \in BOOLEAN : NewEpisode(clean) \in
                 [goals : SUBSET Goals, succeeded : BOOLEAN, failed : BOOLEAN,
                  disturbed : BOOLEAN, clean : BOOLEAN]
BY DEF Disturbed, NewEpisode

\* A trouble, whichever, keeps the count within its bound.
LEMMA Troubled == ASSUME TypeOK, Trouble \/ UNCHANGED troubles PROVE troubles' \in 0 .. MaxTroubles
<1>1. troubles \in 0 .. MaxTroubles /\ MaxTroubles \in Nat
  BY LifecycleAssumption DEF TypeOK
<1>2. CASE Trouble
  BY <1>1, <1>2 DEF Trouble
<1>3. CASE UNCHANGED troubles
  BY <1>1, <1>3
<1> QED
  BY <1>2, <1>3

LEMMA InitInv == Init => IInv
<1> SUFFICES ASSUME Init PROVE IInv
  OBVIOUS
<1>1. container \in Container \cup {None} /\ created \in Nat
  BY DEF Init, Container
<1>2. record \in Record \cup {None}
  BY <1>1, Adopted DEF Init
<1>3. phase \in [Jobs -> {"new", "queued", "running", "done", "failed"}] /\ tries \in [Jobs -> Nat]
  BY DEF Init, Queue!Init
<1>4. troubles \in 0 .. MaxTroubles
  BY LifecycleAssumption DEF Init
<1>5. /\ kind \in [Jobs -> JobTypes \cup {None}]
      /\ at \in [Jobs -> Calls \cup {"idle"}]
      /\ found \in [Jobs -> Nat \cup {None}]
  BY DEF Init
<1>6. TypeOK
  BY <1>1, <1>2, <1>3, <1>4, <1>5 DEF Init, TypeOK, NewEpisode
<1>7. \A j \in Jobs : found[j] = None /\ at[j] = "idle"
  BY DEF Init
<1>8. container # None => container.id \in Nat /\ container.id <= created
  BY <1>1 DEF Init, Container
<1> QED
  BY <1>6, <1>7, <1>8, NoneAssumption DEF IInv, FoundIsKnown, IdsAreSpent, FoundIsOwn, Mine

\* A step that touches no handler and no container.
LEMMA SameHandlers ==
    ASSUME IInv, UNCHANGED <<at, found, container, created>>
    PROVE  FoundIsKnown' /\ IdsAreSpent' /\ FoundIsOwn'
BY DEF IInv, FoundIsKnown, IdsAreSpent, FoundIsOwn, Mine

-----------------------------------------------------------------------------
(* The queue's half.                                                       *)

LEMMA SubmitInv == ASSUME IInv, NEW j \in Jobs, Submit(j) PROVE IInv'
<1>1. /\ UNCHANGED <<tries, at, found, container, created, record, reported, daemon,
                     troubles, episode>>
      /\ phase' = [phase EXCEPT ![j] = "queued"]
  BY DEF Submit, Queue!Submit, Queue!Move, workerVars, dockerVars
<1>2. kind' \in [Jobs -> JobTypes \cup {None}]
  <2>1. PICK k \in Kinds[j] : kind' = [kind EXCEPT ![j] = k]
    BY DEF Submit
  <2>2. k \in JobTypes
    BY LifecycleAssumption
  <2> QED
    BY <2>1, <2>2 DEF IInv, TypeOK
<1>3. TypeOK'
  BY <1>1, <1>2 DEF IInv, TypeOK
<1> QED
  BY <1>1, <1>3, SameHandlers DEF IInv

LEMMA BeginInv == ASSUME IInv, NEW j \in Jobs, Begin(j) PROVE IInv'
<1>1. /\ UNCHANGED <<kind, found, container, created, record, reported, daemon, troubles>>
      /\ phase' = [phase EXCEPT ![j] = "running"]
      /\ tries' = [tries EXCEPT ![j] = tries[j] + 1]
      /\ at' = [at EXCEPT ![j] = First(j)]
  BY DEF Begin, Queue!Begin, Queue!Move, dockerVars
<1>2. First(j) \in Calls /\ First(j) \in {"create", "find"}
  BY DEF First, Calls
<1>3. episode' \in [goals : SUBSET Goals, succeeded : BOOLEAN, failed : BOOLEAN,
                    disturbed : BOOLEAN, clean : BOOLEAN]
  <2> DEFINE old == IF Quiet THEN NewEpisode(Orderly) ELSE episode
  <2>1. old \in [goals : SUBSET Goals, succeeded : BOOLEAN, failed : BOOLEAN,
                 disturbed : BOOLEAN, clean : BOOLEAN]
    <3>1. Orderly \in BOOLEAN
      BY DEF Orderly, IInv, TypeOK
    <3> QED
      BY <3>1, Episodes DEF IInv, TypeOK
  <2>2. episode' = [old EXCEPT !.goals = old.goals \cup {Goal(j)}]
    BY DEF Begin
  <2> HIDE DEF old
  <2> QED
    BY <2>1, <2>2, GoalsOfJobs
<1>4. TypeOK'
  BY <1>1, <1>2, <1>3 DEF IInv, TypeOK
<1>5. FoundIsKnown' /\ IdsAreSpent' /\ FoundIsOwn'
  BY <1>1, <1>2 DEF IInv, TypeOK, FoundIsKnown, IdsAreSpent, FoundIsOwn, Mine
<1> QED
  BY <1>4, <1>5 DEF IInv

-----------------------------------------------------------------------------
(* The handlers.                                                           *)

\* What GoOn, and a fault or none, leave of the types.
LEMMA Onwards ==
    ASSUME TypeOK, NEW j \in Jobs, NEW next \in Calls, GoOn(j, next), Fault \/ NoFault
    PROVE  /\ UNCHANGED <<phase, tries, kind, reported, daemon>>
           /\ at' = [at EXCEPT ![j] = next]
           /\ at' \in [Jobs -> Calls \cup {"idle"}]
           /\ troubles' \in 0 .. MaxTroubles
           /\ episode' \in [goals : SUBSET Goals, succeeded : BOOLEAN, failed : BOOLEAN,
                            disturbed : BOOLEAN, clean : BOOLEAN]
<1>1. Trouble \/ UNCHANGED troubles
  BY DEF Fault, NoFault
<1>2. episode' = episode \/ episode' = Disturbed
  BY DEF Fault, NoFault
<1>3. episode' \in [goals : SUBSET Goals, succeeded : BOOLEAN, failed : BOOLEAN,
                    disturbed : BOOLEAN, clean : BOOLEAN]
  BY <1>2, Episodes DEF TypeOK
<1>4. UNCHANGED <<phase, tries, kind, reported, daemon>> /\ at' = [at EXCEPT ![j] = next]
  BY DEF GoOn, queueVars
<1> QED
  BY <1>1, <1>3, <1>4, Troubled DEF TypeOK

\* A handler that goes on to a call that needs no identifier, or with one it has.
LEMMA OnwardsInv ==
    ASSUME IInv, NEW j \in Jobs, NEW next \in Calls, GoOn(j, next), Fault \/ NoFault,
           UNCHANGED <<found, container, created>>, record' \in Record \cup {None},
           next \in {"start", "stop", "refind", "remove", "save"} => found[j] # None
    PROVE  IInv'
<1>1. TypeOK'
  BY Onwards DEF IInv, TypeOK
<1>2. at' = [at EXCEPT ![j] = next]
  BY Onwards DEF IInv
<1>3. FoundIsKnown' /\ IdsAreSpent' /\ FoundIsOwn'
  BY <1>2 DEF IInv, TypeOK, FoundIsKnown, IdsAreSpent, FoundIsOwn, Mine
<1> QED
  BY <1>1, <1>3 DEF IInv

LEMMA FindInv == ASSUME IInv, NEW j \in Jobs, Find(j) PROVE IInv'
<1>1. UNCHANGED <<container, created, record>> /\ record \in Record \cup {None}
  BY DEF Find, dockerVars, IInv, TypeOK
<1>2. ASSUME NEW next \in {"create", "reportFailed"}, GoOn(j, next), Fault \/ NoFault,
             UNCHANGED found
      PROVE  IInv'
  BY <1>1, <1>2, OnwardsInv DEF Calls
<1>3. ASSUME container # None, container.project = Project[j],
             found' = [found EXCEPT ![j] = container.id],
             NEW next \in {"start", "stop"}, GoOn(j, next), NoFault
      PROVE  IInv'
  <2>1. container.id \in Nat /\ container.id # None /\ container.id <= created
    BY <1>3, NoneAssumption DEF IInv, TypeOK, Container, IdsAreSpent
  <2>2. next \in Calls
    BY DEF Calls
  <2>3. TypeOK'
    BY <1>1, <1>3, <2>1, <2>2, Onwards DEF IInv, TypeOK
  <2>4. at' = [at EXCEPT ![j] = next]
    BY <1>3, <2>2, Onwards DEF IInv
  <2>5. FoundIsKnown'
    BY <1>3, <2>1, <2>4 DEF IInv, TypeOK, FoundIsKnown
  <2>6. IdsAreSpent'
    BY <1>1, <1>3, <2>1 DEF IInv, TypeOK, IdsAreSpent
  <2>7. FoundIsOwn'
    BY <1>1, <1>3 DEF IInv, TypeOK, FoundIsOwn, Mine
  <2> QED
    BY <2>3, <2>5, <2>6, <2>7 DEF IInv
<1> QED
  BY <1>2, <1>3 DEF Find

\* The identifier of the container created is one that no handler holds.
LEMMA CreateInv == ASSUME IInv, NEW j \in Jobs, Create(j) PROVE IInv'
<1>1. record' = record
  BY DEF Create
<1>2. ASSUME UNCHANGED <<container, created, found>>, GoOn(j, "reportFailed"), Fault \/ NoFault
      PROVE  IInv'
  BY <1>1, <1>2, OnwardsInv DEF Calls, IInv, TypeOK
<1>3. ASSUME container' = [id |-> created + 1, project |-> Project[j], state |-> "created"],
             created' = created + 1,
             \/ GoOn(j, "start") /\ NoFault /\ found' = [found EXCEPT ![j] = created + 1]
             \/ GoOn(j, "reportFailed") /\ Fault /\ UNCHANGED found
      PROVE  IInv'
  <2>1. created \in Nat /\ created + 1 # None
    BY NoneAssumption DEF IInv, TypeOK
  <2>2. container' \in Container
    BY <1>3, <2>1 DEF Container, Projects
  <2>3. PICK next \in {"start", "reportFailed"} : GoOn(j, next) /\ (Fault \/ NoFault)
    BY <1>3
  <2>4. next \in Calls
    BY DEF Calls
  <2>5. /\ found' \in [Jobs -> Nat \cup {None}]
        /\ \A i \in Jobs : i # j => found'[i] = found[i]
        /\ found'[j] \in {created + 1, found[j]}
    BY <1>3, <2>1 DEF IInv, TypeOK
  <2>6. TypeOK'
    BY <1>1, <1>3, <2>1, <2>2, <2>3, <2>4, <2>5, Onwards DEF IInv, TypeOK
  <2>7. FoundIsKnown'
    <3>1. CASE GoOn(j, "start") /\ NoFault /\ found' = [found EXCEPT ![j] = created + 1]
      <4>1. at' = [at EXCEPT ![j] = "start"] /\ found'[j] # None
        BY <2>1, <3>1 DEF GoOn, IInv, TypeOK
      <4> QED
        BY <2>5, <4>1 DEF IInv, TypeOK, FoundIsKnown
    <3>2. CASE GoOn(j, "reportFailed") /\ UNCHANGED found
      <4>1. at' = [at EXCEPT ![j] = "reportFailed"]
        BY <3>2 DEF GoOn
      <4> QED
        BY <3>2, <4>1 DEF IInv, TypeOK, FoundIsKnown
    <3> QED
      BY <1>3, <3>1, <3>2
  <2>8. \A i \in Jobs : found[i] # None => found[i] \in Nat /\ found[i] <= created
    BY DEF IInv, TypeOK, IdsAreSpent
  <2>9. IdsAreSpent'
    BY <1>3, <2>1, <2>5, <2>8 DEF IdsAreSpent
  <2>10. FoundIsOwn'
    <3> SUFFICES ASSUME NEW i \in Jobs, Mine(i)' PROVE container'.project = Project[i]
      BY DEF FoundIsOwn
    <3>1. found'[i] = created + 1
      BY <1>3 DEF Mine
    <3>2. i = j
      BY <2>1, <2>5, <2>8, <3>1
    <3> QED
      BY <1>3, <3>2
  <2> QED
    BY <2>6, <2>7, <2>9, <2>10 DEF IInv
<1> QED
  BY <1>2, <1>3 DEF Create, dockerVars

\* A call on the container changes at most its state, or removes it; and it is made
\* with the identifier of a container of the job's own project.
LEMMA CallInv ==
    ASSUME IInv, NEW j \in Jobs, NEW effect, NEW next \in Calls, NEW onError \in Calls,
           Call(j, effect, next, onError),
           Mine(j) => \/ effect = None
                      \/ /\ effect \in Container
                         /\ effect.id = container.id /\ effect.project = container.project,
           next # "create" /\ onError # "create",
           found[j] # None
    PROVE  IInv'
<1>1. UNCHANGED <<created, found, record>> /\ record \in Record \cup {None}
  BY DEF Call, IInv, TypeOK
<1>2. PICK go \in {next, onError} : GoOn(j, go) /\ (Fault \/ NoFault)
  BY DEF Call
<1>3. container' = container \/ (Mine(j) /\ container' = effect)
  BY DEF Call
<1>4. container' \in Container \cup {None}
  BY <1>3 DEF IInv, TypeOK
<1>5. TypeOK'
  BY <1>1, <1>2, <1>4, Onwards DEF IInv, TypeOK
<1>6. at' = [at EXCEPT ![j] = go]
  BY <1>2 DEF GoOn
<1>7. FoundIsKnown'
  BY <1>1, <1>6 DEF IInv, TypeOK, FoundIsKnown
<1>8. container' # None => /\ container # None /\ container'.id = container.id
                           /\ container'.project = container.project
  BY <1>3 DEF Mine
<1>9. IdsAreSpent' /\ FoundIsOwn'
  BY <1>1, <1>8 DEF IInv, IdsAreSpent, FoundIsOwn, Mine
<1> QED
  BY <1>5, <1>7, <1>9 DEF IInv

LEMMA StateChanges ==
    ASSUME container \in Container, NEW state \in {"created", "running", "exited"}
    PROVE  LET changed == [container EXCEPT !.state = state] IN
           changed \in Container /\ changed.id = container.id
             /\ changed.project = container.project
BY DEF Container

LEMMA StartInv == ASSUME IInv, NEW j \in Jobs, Start(j) PROVE IInv'
<1> DEFINE next == IF kind[j] = "provision" THEN "save" ELSE "update"
           effect == [container EXCEPT !.state = "running"]
<1>1. Call(j, effect, next, "reportFailed") /\ found[j] # None
  BY DEF Start, IInv, FoundIsKnown
<1>2. next \in Calls /\ "reportFailed" \in Calls /\ next # "create"
  BY DEF Calls
<1>3. Mine(j) => /\ effect \in Container
                 /\ effect.id = container.id /\ effect.project = container.project
  BY StateChanges DEF Mine, IInv, TypeOK
<1> HIDE DEF next, effect
<1> QED
  BY <1>1, <1>2, <1>3, CallInv

LEMMA StopInv == ASSUME IInv, NEW j \in Jobs, Stop(j) PROVE IInv'
<1>1. found[j] # None
  BY DEF Stop, IInv, FoundIsKnown
<1>2. {"remove", "refind", "update", "reportFailed"} \subseteq Calls
  BY DEF Calls
<1>3. PICK next \in {"remove", "refind", "update"}, onError \in {"remove", "reportFailed"} :
        Call(j, Halted, next, onError)
  BY DEF Stop
<1>4. Mine(j) => /\ Halted \in Container
                 /\ Halted.id = container.id /\ Halted.project = container.project
  BY StateChanges DEF Mine, Halted, IInv, TypeOK
<1> QED
  BY <1>1, <1>2, <1>3, <1>4, CallInv

LEMMA RemoveInv == ASSUME IInv, NEW j \in Jobs, Remove(j) PROVE IInv'
<1>1. found[j] # None /\ Call(j, None, "update", "reportFailed")
  BY DEF Remove, IInv, FoundIsKnown
<1>2. "update" \in Calls /\ "reportFailed" \in Calls
  BY DEF Calls
<1> QED
  BY <1>1, <1>2, CallInv

LEMMA SaveInv == ASSUME IInv, NEW j \in Jobs, Save(j) PROVE IInv'
<1>1. found[j] \in Nat
  BY DEF Save, IInv, TypeOK, FoundIsKnown
<1>2. /\ GoOn(j, "report") /\ NoFault /\ UNCHANGED <<found, container, created>>
      /\ record' = [status |-> "Running", ref |-> found[j], project |-> Project[j]]
  BY DEF Save, dockerVars
<1>3. record' \in Record
  BY <1>1, <1>2 DEF Record, Projects
<1> QED
  BY <1>2, <1>3, OnwardsInv DEF Calls

LEMMA UpdateInv == ASSUME IInv, NEW j \in Jobs, Update(j) PROVE IInv'
<1>1. /\ GoOn(j, "report") /\ NoFault /\ UNCHANGED <<found, container, created>>
      /\ record' = IF record = None THEN None ELSE [record EXCEPT !.status = Written(j)]
  BY DEF Update, dockerVars
<1>2. Written(j) \in {"Running", "stopped", "deleted"}
  BY GoalsOfJobs DEF Written, Goals
<1>3. record' \in Record \cup {None}
  BY <1>1, <1>2 DEF IInv, TypeOK, Record
<1> QED
  BY <1>1, <1>3, OnwardsInv DEF Calls

\* The handler has ended, whichever way.
LEMMA EndsInv ==
    ASSUME IInv, NEW j \in Jobs, HandlerEnds(j), NEW status \in Goals \cup {"failed"}, Tell(status),
           NEW p \in {"queued", "done", "failed"}, phase' = [phase EXCEPT ![j] = p],
           tries' = tries,
           episode' \in [goals : SUBSET Goals, succeeded : BOOLEAN, failed : BOOLEAN,
                         disturbed : BOOLEAN, clean : BOOLEAN]
    PROVE  IInv'
<1>1. /\ at' = [at EXCEPT ![j] = "idle"]
      /\ found' = [found EXCEPT ![j] = None]
      /\ UNCHANGED <<container, created, record, daemon>>
  BY DEF HandlerEnds, dockerVars
<1>2. kind' \in [Jobs -> JobTypes \cup {None}]
  <2>1. PICK k \in {kind[j], None} : kind' = [kind EXCEPT ![j] = k]
    BY DEF HandlerEnds
  <2> QED
    BY <2>1 DEF IInv, TypeOK
<1>3. troubles' \in 0 .. MaxTroubles /\ reported' \in Goals \cup {"failed", "pending", "unknown"}
  BY Troubled DEF Tell, IInv, TypeOK
<1>4. TypeOK'
  BY <1>1, <1>2, <1>3 DEF IInv, TypeOK
<1>5. FoundIsKnown' /\ IdsAreSpent'
  BY <1>1 DEF IInv, TypeOK, FoundIsKnown, IdsAreSpent
<1>6. FoundIsOwn'
  <2> SUFFICES ASSUME NEW i \in Jobs, Mine(i)' PROVE container'.project = Project[i]
    BY DEF FoundIsOwn
  <2>1. container # None /\ container.id \in Nat /\ container.id = found'[i]
    BY <1>1 DEF Mine, IInv, TypeOK, Container
  <2>2. i # j
    BY <1>1, <2>1, NoneAssumption DEF IInv, TypeOK
  <2> QED
    BY <1>1, <2>1, <2>2 DEF IInv, TypeOK, FoundIsOwn, Mine
<1> QED
  BY <1>4, <1>5, <1>6 DEF IInv

LEMMA ReportInv == ASSUME IInv, NEW j \in Jobs, Report(j) \/ ReportFailed(j) PROVE IInv'
<1>1. CASE Report(j)
  <2>1. HandlerEnds(j) /\ Tell(Goal(j)) /\ Goal(j) \in Goals
    BY <1>1, GoalsOfJobs DEF Report
  <2>2. phase' = [phase EXCEPT ![j] = "done"] /\ tries' = tries
    BY <1>1 DEF Report, Queue!Succeed, Queue!Move
  <2>3. (episode.disturbed \/ reported' # Goal(j)) \in BOOLEAN
    OBVIOUS
  <2>4. episode' \in [goals : SUBSET Goals, succeeded : BOOLEAN, failed : BOOLEAN,
                      disturbed : BOOLEAN, clean : BOOLEAN]
    BY <1>1, <2>3 DEF Report, IInv, TypeOK
  <2> QED
    BY <2>1, <2>2, <2>4, EndsInv
<1>2. CASE ReportFailed(j)
  <2>1. HandlerEnds(j) /\ Tell("failed")
    BY <1>2 DEF ReportFailed
  <2>2. PICK p \in {"queued", "failed"} : phase' = [phase EXCEPT ![j] = p] /\ tries' = tries
    BY <1>2 DEF ReportFailed, Queue!Requeue, Queue!Fail, Queue!Move
  <2>3. episode' \in [goals : SUBSET Goals, succeeded : BOOLEAN, failed : BOOLEAN,
                      disturbed : BOOLEAN, clean : BOOLEAN]
    BY <1>2 DEF ReportFailed, IInv, TypeOK
  <2> QED
    BY <2>1, <2>2, <2>3, EndsInv
<1> QED
  BY <1>1, <1>2

-----------------------------------------------------------------------------
(* Around the handlers.                                                    *)

LEMMA ExitInv == ASSUME IInv, Exit PROVE IInv'
<1>1. /\ UNCHANGED <<phase, tries, kind, at, found, created, record, reported, daemon>>
      /\ container # None /\ container' = [container EXCEPT !.state = "exited"]
      /\ Trouble /\ episode' = Disturbed
  BY DEF Exit, queueVars, workerVars
<1>2. /\ container' \in Container
      /\ container'.id = container.id /\ container'.project = container.project
  BY <1>1, StateChanges DEF IInv, TypeOK
<1>3. TypeOK'
  BY <1>1, <1>2, Troubled, Episodes DEF IInv, TypeOK
<1>4. FoundIsKnown' /\ IdsAreSpent' /\ FoundIsOwn'
  BY <1>1, <1>2 DEF IInv, FoundIsKnown, IdsAreSpent, FoundIsOwn, Mine
<1> QED
  BY <1>3, <1>4 DEF IInv

\* Signals, the end of the process and its start-up leave handlers and container.
LEMMA DaemonInv == ASSUME IInv, Sigterm \/ Terminate \/ Boot PROVE IInv'
<1>1. UNCHANGED <<phase, tries, kind, at, found, container, created, reported>>
  BY DEF Sigterm, Terminate, Boot, queueVars, workerVars, dockerVars
<1>2. record' \in Record \cup {None} /\ daemon' \in {"up", "stopping", "down"}
  BY Adopted DEF IInv, TypeOK, Sigterm, Terminate, Boot
<1>3. troubles' \in 0 .. MaxTroubles
  BY Troubled DEF IInv, Sigterm, Terminate, Boot
<1>4. episode' \in [goals : SUBSET Goals, succeeded : BOOLEAN, failed : BOOLEAN,
                    disturbed : BOOLEAN, clean : BOOLEAN]
  BY Episodes DEF IInv, TypeOK, Sigterm, Terminate, Boot
<1>5. TypeOK'
  BY <1>1, <1>2, <1>3, <1>4 DEF IInv, TypeOK
<1> QED
  BY <1>1, <1>5, SameHandlers DEF IInv

LEMMA CrashInv == ASSUME IInv, Crash PROVE IInv'
<1>1. /\ UNCHANGED <<phase, tries, container, created, reported>>
      /\ daemon' = "down" /\ record' = None /\ Trouble /\ episode' = Disturbed
      /\ at' = [j \in Jobs |-> "idle"] /\ found' = [j \in Jobs |-> None]
      /\ kind' = [j \in Jobs |-> IF at[j] = "idle" THEN kind[j] ELSE None]
  BY DEF Crash, queueVars, dockerVars
<1>2. kind' \in [Jobs -> JobTypes \cup {None}]
  BY <1>1 DEF IInv, TypeOK
<1>3. TypeOK'
  BY <1>1, <1>2, Troubled, Episodes DEF IInv, TypeOK
<1>4. FoundIsKnown' /\ IdsAreSpent'
  BY <1>1 DEF IInv, FoundIsKnown, IdsAreSpent
<1>5. FoundIsOwn'
  <2>1. container # None => container.id # None
    BY NoneAssumption DEF IInv, TypeOK, Container
  <2> QED
    BY <1>1, <2>1 DEF FoundIsOwn, Mine
<1> QED
  BY <1>3, <1>4, <1>5 DEF IInv

LEMMA StutterInv == ASSUME IInv, UNCHANGED vars PROVE IInv'
<1>1. TypeOK'
  BY DEF IInv, TypeOK, vars, queueVars, workerVars, dockerVars
<1>2. UNCHANGED <<at, found, container, created>>
  BY DEF vars, workerVars, dockerVars
<1> QED
  BY <1>1, <1>2, SameHandlers DEF IInv

-----------------------------------------------------------------------------
LEMMA StepInv == IInv /\ [Next]_vars => IInv'
<1> SUFFICES ASSUME IInv, [Next]_vars PROVE IInv'
  OBVIOUS
<1>1. ASSUME NEW j \in Jobs, Submit(j) PROVE IInv'
  BY <1>1, SubmitInv
<1>2. ASSUME NEW j \in Jobs, Begin(j) PROVE IInv'
  BY <1>2, BeginInv
<1>3. ASSUME NEW j \in Jobs, Handler(j) PROVE IInv'
  BY <1>3, FindInv, CreateInv, StartInv, StopInv, RemoveInv, SaveInv, UpdateInv, ReportInv
     DEF Handler
<1>4. CASE Exit
  BY <1>4, ExitInv
<1>5. CASE Sigterm \/ Terminate \/ Boot
  BY <1>5, DaemonInv
<1>6. CASE Crash
  BY <1>6, CrashInv
<1>7. CASE UNCHANGED vars
  BY <1>7, StutterInv
<1> QED
  BY <1>1, <1>2, <1>3, <1>4, <1>5, <1>6, <1>7 DEF Next

\* The invariant holds in every behaviour, whatever jobs overlap and crash.
THEOREM InvariantHolds == Spec => []IInv
BY InitInv, StepInv, PTL DEF Spec

\* The variables keep their types.
THEOREM TypeCorrect == Spec => []TypeOK
<1>1. IInv => TypeOK
  BY DEF IInv
<1> QED
  BY InvariantHolds, <1>1, PTL

\* A handler never starts, stops or removes a container of another project.
THEOREM HandlersTouchTheirOwn == Spec => TouchesOnlyItsOwn
<1> DEFINE Touch == \A j \in Jobs :
                       Handler(j) /\ container' # container /\ container # None
                         => container.project = Project[j]
<1>1. IInv /\ [Next]_vars => [Touch]_vars
  <2> SUFFICES ASSUME IInv, NEW j \in Jobs,
                      Handler(j), container' # container, container # None
               PROVE  container.project = Project[j]
    OBVIOUS
  <2>1. Mine(j)
    BY DEF Handler, Find, Create, Start, Stop, Remove, Save, Update, Report, ReportFailed,
           Call, HandlerEnds, dockerVars
  <2> QED
    BY <2>1 DEF IInv, FoundIsOwn
<1> QED
  BY InvariantHolds, <1>1, PTL DEF Spec, TouchesOnlyItsOwn

-----------------------------------------------------------------------------
(* Handlers that want the same.  SameGoalAgrees and RepositoryMirrorsDocker *)
(* speak of the moments when no handler is at work.  In between, what they *)
(* say may be untrue only while a handler is on its way to make it true,   *)
(* and in an undisturbed episode that handler cannot fail any more.        *)

Busy(calls) == \E j \in Jobs : at[j] \in calls

\* Which jobs make which call, and when a handler holds an identifier.
KindsFit ==
    \A j \in Jobs :
        /\ phase[j] = "queued" \/ at[j] # "idle" => kind[j] \in JobTypes
        /\ at[j] # "idle" => phase[j] = "running" /\ Goal(j) \in episode.goals
        /\ at[j] \in {"idle", "find"} => found[j] = None
        /\ at[j] = "find" => kind[j] \in {"start", "stop", "restart", "delete"}
        /\ at[j] \in {"create", "start"} => kind[j] \in {"provision", "start", "restart"}
        /\ at[j] = "stop" => kind[j] \in {"stop", "restart", "delete"}
        /\ at[j] = "refind" => kind[j] = "restart"
        /\ at[j] = "remove" => kind[j] = "delete"
        /\ at[j] = "save" => kind[j] = "provision"
        /\ at[j] = "update" => kind[j] \in {"start", "stop", "restart", "delete"}

DownIsQuiet == daemon = "down" => Quiet

Undisturbed(goal) == episode.goals = {goal} /\ ~episode.disturbed

Running == container # None /\ container.state = "running"

\* What the handler that brought it about leaves in Docker; a restart that is
\* under way will start the container again.
InDocker(goal) ==
    CASE goal = "running" -> Running \/ Busy({"refind", "start"})
      [] goal = "stopped" -> container # None /\ ~Running
      [] OTHER -> container = None

InRecord(goal) ==
    \/ record = None
    \/ record.status = IF goal = "running" THEN "Running" ELSE goal

Settling(goal) ==
    /\ \A j \in Jobs : found[j] # None => Mine(j) \/ (goal = "deleted" /\ container = None)
    /\ episode.succeeded \/ Busy({"save", "update", "report"}) => InDocker(goal)
    /\ episode.succeeded \/ Busy({"report"}) => InRecord(goal)

BroughtAbout == \A goal \in Goals : Undisturbed(goal) => Settling(goal)

Mirrors ==
    \/ record = None
    \/ record.status = "Running" /\ Running
    \/ record.status \in {"Stopped", "stopped"} /\ container # None /\ ~Running
    \/ record.status = "deleted" /\ container = None

\* The calls of a handler that has changed the container, or is about to, and has
\* not written so in the repository.
Unwritten(goal) ==
    CASE goal = "running" -> {"refind", "start", "save", "update"}
      [] goal = "stopped" -> {"update"}
      [] OTHER -> {"remove", "update"}

MirrorsSoon(goal) ==
    /\ Mirrors \/ Busy(Unwritten(goal))
    /\ goal = "deleted" /\ container = None => Mirrors \/ Busy({"update"})

Mirroring ==
    episode.clean /\ ~episode.disturbed =>
        /\ episode.goals = {} => Mirrors
        /\ \A goal \in Goals : episode.goals = {goal} => MirrorsSoon(goal)

SameGoal == KindsFit /\ DownIsQuiet /\ BroughtAbout /\ Mirroring

-----------------------------------------------------------------------------
(* What a step of one handler means for the others.                        *)

LEMMA BusyNext ==
    ASSUME TypeOK, NEW j \in Jobs, NEW next, at' = [at EXCEPT ![j] = next]
    PROVE  \A calls :
              /\ next \in calls => Busy(calls)'
              /\ at[j] \notin calls /\ Busy(calls) => Busy(calls)'
              /\ Busy(calls)' => Busy(calls) \/ next \in calls
BY DEF TypeOK, Busy

\* A fault ends what could be said of the episode.
LEMMA DisturbedSaysNothing ==
    ASSUME TypeOK, episode' = Disturbed
    PROVE  BroughtAbout' /\ Mirroring'
BY DEF TypeOK, Disturbed, BroughtAbout, Undisturbed, Mirroring

\* In a step without a fault only the goal of the handler is at stake.
LEMMA InOneEpisode ==
    ASSUME SameGoal, NEW j \in Jobs, at[j] # "idle", episode' = episode,
           \A goal \in Goals : goal = Goal(j) /\ Settling(goal) => Settling(goal)',
           \A goal \in Goals :
              goal = Goal(j) /\ Settling(goal) /\ MirrorsSoon(goal) => MirrorsSoon(goal)'
    PROVE  BroughtAbout' /\ Mirroring'
<1>1. Goal(j) \in episode.goals
  BY DEF SameGoal, KindsFit
<1>2. BroughtAbout'
  BY <1>1 DEF SameGoal, BroughtAbout, Undisturbed
<1>3. Mirroring'
  <2> SUFFICES ASSUME episode.clean, ~episode.disturbed
               PROVE  \A goal \in Goals : episode.goals = {goal} => MirrorsSoon(goal)'
    BY <1>1 DEF Mirroring
  <2> TAKE goal \in Goals
  <2> HAVE episode.goals = {goal}
  <2>1. goal = Goal(j) /\ Settling(goal) /\ MirrorsSoon(goal)
    BY <1>1 DEF SameGoal, BroughtAbout, Undisturbed, Mirroring
  <2> QED BY <2>1
<1> QED BY <1>2, <1>3

\* A handler goes on with a call that fits its job.
LEMMA FitsOn ==
    ASSUME IInv, SameGoal, NEW j \in Jobs, NEW next \in Calls, GoOn(j, next), Fault \/ NoFault,
           at[j] # "idle", \A i \in Jobs : i # j => found'[i] = found[i],
           next # "find",
           next \in {"create", "start"} => kind[j] \in {"provision", "start", "restart"},
           next = "stop" => kind[j] \in {"stop", "restart", "delete"},
           next = "refind" => kind[j] = "restart",
           next = "remove" => kind[j] = "delete",
           next = "save" => kind[j] = "provision",
           next = "update" => kind[j] \in {"start", "stop", "restart", "delete"}
    PROVE  KindsFit' /\ DownIsQuiet'
<1>1. /\ UNCHANGED <<phase, kind, daemon>> /\ at' = [at EXCEPT ![j] = next]
      /\ episode'.goals = episode.goals
  BY DEF GoOn, queueVars, Fault, NoFault, Disturbed, IInv, TypeOK
<1>2. \A i \in Jobs : i # j => at'[i] = at[i]
  BY <1>1 DEF IInv, TypeOK
<1>3. at'[j] = next /\ next # "idle"
  BY <1>1 DEF IInv, TypeOK, Calls
<1>4. \A i \in Jobs : Goal(i)' = Goal(i)
  BY <1>1 DEF Goal
<1>5. KindsFit'
  <2> SUFFICES ASSUME NEW i \in Jobs
               PROVE  /\ phase[i] = "queued" \/ at'[i] # "idle" => kind[i] \in JobTypes
                      /\ at'[i] # "idle" => phase[i] = "running" /\ Goal(i) \in episode.goals
                      /\ at'[i] \in {"idle", "find"} => found'[i] = None
                      /\ at'[i] = "find" => kind[i] \in {"start", "stop", "restart", "delete"}
                      /\ at'[i] \in {"create", "start"} => kind[i] \in {"provision", "start", "restart"}
                      /\ at'[i] = "stop" => kind[i] \in {"stop", "restart", "delete"}
                      /\ at'[i] = "refind" => kind[i] = "restart"
                      /\ at'[i] = "remove" => kind[i] = "delete"
                      /\ at'[i] = "save" => kind[i] = "provision"
                      /\ at'[i] = "update" => kind[i] \in {"start", "stop", "restart", "delete"}
    BY <1>1, <1>4 DEF KindsFit
  <2>1. CASE i = j
    BY <1>3, <2>1 DEF SameGoal, KindsFit
  <2>2. CASE i # j
    BY <1>2, <2>2 DEF SameGoal, KindsFit
  <2> QED BY <2>1, <2>2
<1>6. DownIsQuiet'
  BY <1>1 DEF SameGoal, DownIsQuiet, Quiet
<1> QED BY <1>5, <1>6

\* A call without effect: the handler looks, or is refused.  A restart that has
\* stopped the container is not, and a removal only if the container is gone.
LEMMA NoEffect ==
    ASSUME IInv, SameGoal, NEW j \in Jobs, NoFault,
           NEW next \in {"create", "start", "stop", "remove", "reportFailed"},
           at' = [at EXCEPT ![j] = next],
           at[j] \in {"find", "refind", "create", "start", "stop", "remove"},
           UNCHANGED <<container, record, reported>>,
           \/ found' = found
           \/ container # None /\ found' = [found EXCEPT ![j] = container.id],
           Settling(Goal(j)) /\ at[j] \in {"refind", "start"} => next = "start",
           Settling(Goal(j)) /\ at[j] = "remove" => container = None
    PROVE  BroughtAbout' /\ Mirroring'
<1>1. episode' = episode /\ TypeOK
  BY DEF NoFault, IInv
<1>2. ASSUME NEW goal \in Goals, goal = Goal(j), Settling(goal) PROVE Settling(goal)'
  <2>1. \A i \in Jobs : found'[i] # None => Mine(i)' \/ (goal = "deleted" /\ container' = None)
    BY <1>1, <1>2 DEF Settling, Mine, TypeOK
  <2>2. Busy({"save", "update", "report"})' => Busy({"save", "update", "report"})
    BY <1>1, BusyNext
  <2>3. Busy({"report"})' => Busy({"report"})
    BY <1>1, BusyNext
  <2>4. Busy({"refind", "start"}) => Busy({"refind", "start"})'
    BY <1>1, <1>2, BusyNext
  <2>5. InDocker(goal) => InDocker(goal)'
    BY <2>4 DEF InDocker, Running
  <2>6. InRecord(goal) => InRecord(goal)'
    BY DEF InRecord
  <2> QED BY <1>1, <1>2, <2>1, <2>2, <2>3, <2>5, <2>6 DEF Settling
<1>3. ASSUME NEW goal \in Goals, goal = Goal(j), Settling(goal), MirrorsSoon(goal)
      PROVE  MirrorsSoon(goal)'
  <2>1. Mirrors => Mirrors'
    BY DEF Mirrors, Running
  <2>2. Busy({"update"}) => Busy({"update"})'
    BY <1>1, BusyNext
  <2>3. Busy({"update"})' => Busy(Unwritten(goal))'
    BY DEF Busy, Unwritten
  <2>4. CASE at[j] \notin Unwritten(goal)
    <3>1. Busy(Unwritten(goal)) => Busy(Unwritten(goal))'
      BY <1>1, <2>4, BusyNext DEF Unwritten
    <3> QED BY <1>3, <2>1, <2>2, <3>1 DEF MirrorsSoon
  <2>5. CASE at[j] \in Unwritten(goal) /\ goal = "deleted"
    <3>1. at[j] = "remove" /\ container = None
      BY <1>3, <2>5 DEF Unwritten
    <3> QED BY <1>3, <2>1, <2>2, <2>3, <2>5, <3>1 DEF MirrorsSoon
  <2>6. CASE at[j] \in Unwritten(goal) /\ goal # "deleted"
    <3>1. goal = "running" /\ next = "start"
      BY <1>3, <2>6 DEF Unwritten, Goals
    <3>2. Busy(Unwritten(goal))'
      BY <1>1, <3>1, BusyNext DEF Unwritten
    <3> QED BY <2>6, <3>2 DEF MirrorsSoon
  <2> QED BY <2>4, <2>5, <2>6
<1> QED BY <1>1, <1>2, <1>3, InOneEpisode

\* While handlers want the same and nothing interferes, an identifier that a
\* handler holds is that of the container, unless a delete has removed it.
LEMMA HeldIsThere ==
    ASSUME IInv, SameGoal, NEW j \in Jobs, Settling(Goal(j)),
           at[j] \in {"start", "stop", "refind", "remove"}
    PROVE  Mine(j) \/ (Goal(j) = "deleted" /\ container = None)
BY DEF IInv, FoundIsKnown, Settling

-----------------------------------------------------------------------------
LEMMA FindKeepsGoals == ASSUME IInv, SameGoal, NEW j \in Jobs, Find(j) PROVE SameGoal'
<1> DEFINE starts == kind[j] = "start" \/ at[j] = "refind"
<1>1. at[j] \in {"find", "refind"} /\ UNCHANGED <<container, record>>
  BY DEF Find, dockerVars
<1>2. /\ kind[j] \in {"start", "stop", "restart", "delete"}
      /\ at[j] = "refind" => kind[j] = "restart" /\ Goal(j) = "running"
  BY <1>1 DEF SameGoal, KindsFit, Goal
<1>3. PICK next \in {"create", "start", "stop", "reportFailed"} :
         /\ GoOn(j, next) /\ (Fault \/ NoFault)
         /\ found' = found \/ (container # None /\ found' = [found EXCEPT ![j] = container.id])
         /\ next = "start" => starts
         /\ next = "stop" => ~starts
         /\ next = "create" => starts
         /\ Fault \/ next = "start" \/ container = None \/ container.project # Project[j] \/ ~starts
  BY DEF Find
<1>4. next \in Calls
  BY DEF Calls
<1>5. at' = [at EXCEPT ![j] = next] /\ UNCHANGED reported
  BY <1>3 DEF GoOn
<1>6. KindsFit' /\ DownIsQuiet'
  <2>1. \A i \in Jobs : i # j => found'[i] = found[i]
    BY <1>3 DEF IInv, TypeOK
  <2>2. at[j] # "idle"
    BY <1>1
  <2> QED BY <1>2, <1>3, <1>4, <2>1, <2>2, FitsOn
<1>7. CASE Fault
  BY <1>6, <1>7, DisturbedSaysNothing DEF SameGoal, Fault, IInv
<1>8. CASE NoFault
  <2>1. Settling(Goal(j)) /\ at[j] \in {"refind", "start"} => next = "start" \/ Fault
    <3> SUFFICES ASSUME Settling(Goal(j)), at[j] = "refind" PROVE next = "start" \/ Fault
      BY <1>1
    <3>1. Mine(j)
      BY <1>2, HeldIsThere
    <3>2. container # None /\ container.project = Project[j]
      BY <3>1 DEF IInv, FoundIsOwn, Mine
    <3> QED BY <1>3, <3>2
  <2>2. CASE ~Fault
    BY <1>1, <1>3, <1>5, <1>6, <1>8, <2>1, <2>2, NoEffect DEF SameGoal
  <2> QED BY <1>7, <2>2
<1> QED BY <1>3, <1>7, <1>8

LEMMA CreateKeepsGoals == ASSUME IInv, SameGoal, NEW j \in Jobs, Create(j) PROVE SameGoal'
<1>1. at[j] = "create" /\ UNCHANGED record
  BY DEF Create
<1>2. kind[j] \in {"provision", "start", "restart"} /\ Goal(j) = "running"
  BY <1>1 DEF SameGoal, KindsFit, Goal
<1>3. PICK next \in {"start", "reportFailed"} :
         /\ GoOn(j, next) /\ (Fault \/ NoFault)
         /\ \/ Fault
            \/ next = "reportFailed" /\ UNCHANGED <<container, found>>
            \/ /\ next = "start" /\ container = None
               /\ container' = [id |-> created + 1, project |-> Project[j], state |-> "created"]
               /\ found' = [found EXCEPT ![j] = created + 1]
         /\ found' = found \/ found' = [found EXCEPT ![j] = created + 1]
  BY DEF Create, dockerVars
<1>4. next \in Calls
  BY DEF Calls
<1>5. at' = [at EXCEPT ![j] = next] /\ UNCHANGED reported
  BY <1>3 DEF GoOn
<1>6. KindsFit' /\ DownIsQuiet'
  <2>1. \A i \in Jobs : i # j => found'[i] = found[i]
    BY <1>3 DEF IInv, TypeOK
  <2>2. at[j] # "idle"
    BY <1>1
  <2> QED BY <1>2, <1>3, <1>4, <2>1, <2>2, FitsOn
<1>7. CASE Fault
  BY <1>6, <1>7, DisturbedSaysNothing DEF SameGoal, Fault, IInv
<1>8. CASE NoFault /\ next = "reportFailed" /\ UNCHANGED <<container, found>>
  BY <1>1, <1>5, <1>6, <1>8, NoEffect DEF SameGoal
<1>9. CASE /\ NoFault /\ next = "start" /\ container = None
           /\ container' = [id |-> created + 1, project |-> Project[j], state |-> "created"]
           /\ found' = [found EXCEPT ![j] = created + 1]
  <2>1. container' # None /\ container'.id = created + 1
    <3>1. container' \in Container
      BY <1>9 DEF IInv, TypeOK, Container, Projects
    <3> QED BY <1>9, <3>1, NoContainerAssumption
  <2>2. TypeOK /\ episode' = episode /\ at[j] # "idle"
    BY <1>1, <1>9 DEF NoFault, IInv
  <2>3. ASSUME NEW goal \in Goals, goal = Goal(j), Settling(goal)
        PROVE  Settling(goal)' /\ MirrorsSoon(goal)'
    <3>1. \A i \in Jobs : found[i] = None
      BY <1>2, <1>9, <2>3 DEF Settling, Mine
    <3>2. \A i \in Jobs : found'[i] # None => Mine(i)'
      BY <1>9, <2>1, <3>1 DEF IInv, TypeOK, Mine
    <3>3. Busy({"refind", "start"})' /\ (Busy({"report"})' => Busy({"report"}))
      BY <1>5, <1>9, <2>2, BusyNext
    <3>4. Busy(Unwritten(goal))'
      BY <1>2, <1>5, <1>9, <2>2, <2>3, BusyNext DEF Unwritten
    <3>5. InDocker(goal)' /\ (InRecord(goal) => InRecord(goal)')
      BY <1>1, <1>2, <2>3, <3>3 DEF InDocker, InRecord
    <3>6. Settling(goal)'
      BY <1>5, <2>2, <2>3, <3>2, <3>3, <3>5 DEF Settling
    <3> QED BY <1>2, <2>3, <3>4, <3>6 DEF MirrorsSoon
  <2> QED BY <1>6, <2>2, <2>3, InOneEpisode DEF SameGoal
<1> QED BY <1>3, <1>7, <1>8, <1>9

\* What becomes of a call on the container: a fault, a refusal, or its effect.
LEMMA CallOutcomes ==
    ASSUME IInv, SameGoal, NEW j \in Jobs, NEW effect, NEW next \in Calls, NEW onError \in Calls,
           Call(j, effect, next, onError)
    PROVE  /\ UNCHANGED <<found, record, reported>>
           /\ \E go \in {next, onError} :
                 /\ GoOn(j, go) /\ at' = [at EXCEPT ![j] = go] /\ (Fault \/ NoFault)
                 /\ \/ Fault
                    \/ NoFault /\ go = onError /\ ~Mine(j) /\ container' = container
                    \/ NoFault /\ go = next /\ Mine(j) /\ container' = effect
BY DEF Call, GoOn

LEMMA StartKeepsGoals == ASSUME IInv, SameGoal, NEW j \in Jobs, Start(j) PROVE SameGoal'
<1> DEFINE next == IF kind[j] = "provision" THEN "save" ELSE "update"
           effect == [container EXCEPT !.state = "running"]
<1>1. at[j] = "start" /\ Call(j, effect, next, "reportFailed")
  BY DEF Start
<1>2. /\ kind[j] \in {"provision", "start", "restart"} /\ Goal(j) = "running"
      /\ next \in {"save", "update"} /\ next \in Calls /\ "reportFailed" \in Calls
      /\ next = "save" => kind[j] = "provision"
      /\ next = "update" => kind[j] \in {"start", "restart"}
  BY <1>1 DEF SameGoal, KindsFit, Goal, Calls
<1>3. Mine(j) => effect \in Container /\ effect.id = container.id /\ effect.state = "running"
  BY DEF IInv, TypeOK, Container, Mine
<1> HIDE DEF next, effect
<1>4. UNCHANGED <<found, record, reported>>
  BY <1>1, <1>2, CallOutcomes
<1>5. PICK go \in {next, "reportFailed"} :
         /\ GoOn(j, go) /\ at' = [at EXCEPT ![j] = go] /\ (Fault \/ NoFault)
         /\ \/ Fault
            \/ NoFault /\ go = "reportFailed" /\ ~Mine(j) /\ container' = container
            \/ NoFault /\ go = next /\ Mine(j) /\ container' = effect
  BY <1>1, <1>2, CallOutcomes
<1>6. KindsFit' /\ DownIsQuiet'
  <2>1. at[j] # "idle" /\ go \in Calls /\ \A i \in Jobs : found'[i] = found[i]
    BY <1>1, <1>2, <1>4
  <2> QED BY <1>2, <1>5, <2>1, FitsOn
<1>7. CASE Fault
  BY <1>6, <1>7, DisturbedSaysNothing DEF SameGoal, Fault, IInv
<1>8. CASE NoFault /\ go = "reportFailed" /\ ~Mine(j) /\ container' = container
  <2>1. ~Settling(Goal(j))
    BY <1>1, <1>2, <1>8, HeldIsThere
  <2> QED BY <1>1, <1>4, <1>5, <1>6, <1>8, <2>1, NoEffect DEF SameGoal
<1>9. CASE NoFault /\ go = next /\ Mine(j) /\ container' = effect
  <2>1. TypeOK /\ episode' = episode /\ at[j] # "idle"
    BY <1>1, <1>9 DEF NoFault, IInv
  <2>2. Running'
    BY <1>3, <1>9, NoContainerAssumption DEF Running
  <2>3. \A i \in Jobs : Mine(i) => Mine(i)'
    BY <1>3, <1>4, <1>9, NoContainerAssumption DEF Mine
  <2>4. ASSUME NEW goal \in Goals, goal = Goal(j), Settling(goal)
        PROVE  Settling(goal)' /\ MirrorsSoon(goal)'
    <3>1. \A i \in Jobs : found'[i] # None => Mine(i)'
      BY <1>2, <1>4, <2>3, <2>4 DEF Settling
    <3>2. Busy({"report"})' => Busy({"report"})
      BY <1>2, <1>5, <1>9, <2>1, BusyNext
    <3>3. Busy(Unwritten(goal))'
      BY <1>2, <1>5, <1>9, <2>1, <2>4, BusyNext DEF Unwritten
    <3>4. InDocker(goal)' /\ (InRecord(goal) => InRecord(goal)')
      BY <1>2, <1>4, <2>2, <2>4 DEF InDocker, InRecord
    <3>5. Settling(goal)'
      BY <1>4, <2>1, <2>4, <3>1, <3>2, <3>4 DEF Settling
    <3> QED BY <1>2, <2>4, <3>3, <3>5 DEF MirrorsSoon
  <2> QED BY <1>6, <2>1, <2>4, InOneEpisode DEF SameGoal
<1> QED BY <1>5, <1>7, <1>8, <1>9

LEMMA StopKeepsGoals == ASSUME IInv, SameGoal, NEW j \in Jobs, Stop(j) PROVE SameGoal'
<1>1. at[j] = "stop" /\ kind[j] \in {"stop", "restart", "delete"}
  BY DEF Stop, SameGoal, KindsFit
<1>2. PICK next \in {"remove", "refind", "update"}, onError \in {"remove", "reportFailed"} :
         /\ Call(j, Halted, next, onError)
         /\ next = "remove" \/ onError = "remove" => kind[j] = "delete" /\ Goal(j) = "deleted"
         /\ next = "refind" => kind[j] = "restart" /\ Goal(j) = "running"
         /\ next = "update" => kind[j] = "stop" /\ Goal(j) = "stopped"
  BY <1>1 DEF Stop, Goal
<1>3. {"remove", "refind", "update", "reportFailed"} \subseteq Calls
  BY DEF Calls
<1>4. Mine(j) => Halted \in Container /\ Halted.id = container.id /\ Halted.state # "running"
  BY DEF IInv, TypeOK, Container, Mine, Halted
<1>5. UNCHANGED <<found, record, reported>>
  BY <1>2, <1>3, CallOutcomes
<1>6. PICK go \in {next, onError} :
         /\ GoOn(j, go) /\ at' = [at EXCEPT ![j] = go] /\ (Fault \/ NoFault)
         /\ \/ Fault
            \/ NoFault /\ go = onError /\ ~Mine(j) /\ container' = container
            \/ NoFault /\ go = next /\ Mine(j) /\ container' = Halted
  BY <1>2, <1>3, CallOutcomes
<1>7. KindsFit' /\ DownIsQuiet'
  <2>1. at[j] # "idle" /\ go \in Calls /\ \A i \in Jobs : found'[i] = found[i]
    BY <1>1, <1>3, <1>5
  <2>2. go \in {"remove", "refind", "update", "reportFailed"}
    OBVIOUS
  <2> QED BY <1>2, <1>6, <2>1, <2>2, FitsOn
<1>8. CASE Fault
  BY <1>7, <1>8, DisturbedSaysNothing DEF SameGoal, Fault, IInv
<1>9. CASE NoFault /\ go = onError /\ ~Mine(j) /\ container' = container
  <2>1. go \in {"remove", "reportFailed"}
    BY <1>9
  <2> QED BY <1>1, <1>5, <1>6, <1>7, <1>9, <2>1, NoEffect DEF SameGoal
<1>10. CASE NoFault /\ go = next /\ Mine(j) /\ container' = Halted
  <2>1. TypeOK /\ episode' = episode /\ at[j] # "idle"
    BY <1>1, <1>10 DEF NoFault, IInv
  <2>2. container' # None /\ ~Running'
    BY <1>4, <1>10, NoContainerAssumption DEF Running
  <2>3. \A i \in Jobs : Mine(i) => Mine(i)'
    BY <1>4, <1>5, <1>10, NoContainerAssumption DEF Mine
  <2>4. ASSUME NEW goal \in Goals, goal = Goal(j), Settling(goal)
        PROVE  Settling(goal)' /\ MirrorsSoon(goal)'
    <3>1. \A i \in Jobs : found'[i] # None => Mine(i)'
      BY <1>5, <1>10, <2>3, <2>4 DEF Settling, Mine
    <3>2. Busy({"report"})' => Busy({"report"})
      BY <1>6, <1>10, <2>1, BusyNext
    <3>3. Busy(Unwritten(goal))'
      BY <1>2, <1>6, <1>10, <2>1, <2>4, BusyNext DEF Unwritten
    <3>4. episode.succeeded \/ Busy({"save", "update", "report"})' => InDocker(goal)'
      <4>1. CASE next = "remove"
        <5>1. ~(episode.succeeded \/ Busy({"save", "update", "report"}))
          BY <1>2, <1>10, <2>4, <4>1 DEF Settling, InDocker, Mine
        <5> QED BY <1>6, <1>10, <2>1, <4>1, <5>1, BusyNext
      <4>2. CASE next = "refind"
        <5>1. Busy({"refind", "start"})'
          BY <1>6, <1>10, <2>1, <4>2, BusyNext
        <5> QED BY <1>2, <2>4, <4>2, <5>1 DEF InDocker
      <4>3. CASE next = "update"
        BY <1>2, <2>2, <2>4, <4>3 DEF InDocker
      <4> QED BY <4>1, <4>2, <4>3
    <3>5. InRecord(goal) => InRecord(goal)'
      BY <1>5 DEF InRecord
    <3>6. Settling(goal)'
      BY <1>5, <2>1, <2>4, <3>1, <3>2, <3>4, <3>5 DEF Settling
    <3> QED BY <2>2, <3>3, <3>6 DEF MirrorsSoon
  <2> QED BY <1>7, <2>1, <2>4, InOneEpisode DEF SameGoal
<1> QED BY <1>6, <1>8, <1>9, <1>10

LEMMA RemoveKeepsGoals == ASSUME IInv, SameGoal, NEW j \in Jobs, Remove(j) PROVE SameGoal'
<1>1. at[j] = "remove" /\ Call(j, None, "update", "reportFailed")
  BY DEF Remove
<1>2. kind[j] = "delete" /\ Goal(j) = "deleted"
  BY <1>1 DEF SameGoal, KindsFit, Goal
<1>3. "update" \in Calls /\ "reportFailed" \in Calls
  BY DEF Calls
<1>4. UNCHANGED <<found, record, reported>>
  BY <1>1, <1>3, CallOutcomes
<1>5. PICK go \in {"update", "reportFailed"} :
         /\ GoOn(j, go) /\ at' = [at EXCEPT ![j] = go] /\ (Fault \/ NoFault)
         /\ \/ Fault
            \/ NoFault /\ go = "reportFailed" /\ ~Mine(j) /\ container' = container
            \/ NoFault /\ go = "update" /\ Mine(j) /\ container' = None
  BY <1>1, <1>3, CallOutcomes
<1>6. KindsFit' /\ DownIsQuiet'
  <2>1. at[j] # "idle" /\ go \in Calls /\ \A i \in Jobs : found'[i] = found[i]
    BY <1>1, <1>3, <1>4
  <2> QED BY <1>2, <1>5, <2>1, FitsOn
<1>7. CASE Fault
  BY <1>6, <1>7, DisturbedSaysNothing DEF SameGoal, Fault, IInv
<1>8. CASE NoFault /\ go = "reportFailed" /\ ~Mine(j) /\ container' = container
  <2>1. Settling(Goal(j)) => container = None
    BY <1>1, <1>8, HeldIsThere
  <2> QED BY <1>1, <1>4, <1>5, <1>6, <1>8, <2>1, NoEffect DEF SameGoal
<1>9. CASE NoFault /\ go = "update" /\ Mine(j) /\ container' = None
  <2>1. TypeOK /\ episode' = episode /\ at[j] # "idle"
    BY <1>1, <1>9 DEF NoFault, IInv
  <2>2. Busy({"update"})' /\ Busy({"remove", "update"})' /\ (Busy({"report"})' => Busy({"report"}))
    BY <1>5, <1>9, <2>1, BusyNext
  <2>3. ASSUME NEW goal \in Goals, goal = Goal(j), Settling(goal)
        PROVE  Settling(goal)' /\ MirrorsSoon(goal)'
    <3>1. InDocker(goal)' /\ (InRecord(goal) => InRecord(goal)')
      BY <1>2, <1>4, <1>9, <2>3 DEF InDocker, InRecord
    <3>2. Settling(goal)'
      BY <1>2, <1>4, <1>9, <2>1, <2>2, <2>3, <3>1 DEF Settling
    <3> QED BY <1>2, <2>2, <2>3, <3>2 DEF MirrorsSoon, Unwritten
  <2> QED BY <1>6, <2>1, <2>3, InOneEpisode DEF SameGoal
<1> QED BY <1>5, <1>7, <1>8, <1>9

\* Writing the record: what is written is so, or will be so by a restart under way.
LEMMA WritingKeepsGoals ==
    ASSUME IInv, SameGoal, NEW j \in Jobs, Save(j) \/ Update(j)
    PROVE  SameGoal'
<1>1. /\ at[j] \in {"save", "update"}
      /\ GoOn(j, "report") /\ NoFault /\ UNCHANGED <<found, container, reported>>
      /\ at' = [at EXCEPT ![j] = "report"]
  BY DEF Save, Update, GoOn, dockerVars
<1>2. \/ record' = None
      \/ record'.status = IF Goal(j) = "running" THEN "Running" ELSE Goal(j)
  <2>1. CASE Save(j)
    BY <1>1, <2>1 DEF Save, SameGoal, KindsFit, Goal
  <2>2. CASE Update(j)
    BY <2>2 DEF Update, Written, IInv, TypeOK, Record
  <2> QED BY <2>1, <2>2
<1>3. KindsFit' /\ DownIsQuiet'
  <2>1. "report" \in Calls /\ at[j] # "idle" /\ \A i \in Jobs : found'[i] = found[i]
    BY <1>1 DEF Calls
  <2> QED BY <1>1, <2>1, FitsOn
<1>4. TypeOK /\ episode' = episode /\ at[j] # "idle"
  BY <1>1 DEF NoFault, IInv
<1>5. Busy({"refind", "start"}) => Busy({"refind", "start"})'
  BY <1>1, <1>4, BusyNext
<1>6. Busy({"save", "update", "report"})
  BY <1>1 DEF Busy
<1>7. ASSUME NEW goal \in Goals, goal = Goal(j), Settling(goal)
      PROVE  Settling(goal)' /\ MirrorsSoon(goal)'
  <2>1. InDocker(goal)
    BY <1>6, <1>7 DEF Settling
  <2>2. InDocker(goal)'
    BY <1>1, <1>5, <2>1 DEF InDocker, Running
  <2>3. InRecord(goal)'
    BY <1>2, <1>7 DEF InRecord
  <2>4. Settling(goal)'
    BY <1>1, <1>4, <1>7, <2>2, <2>3 DEF Settling, Mine
  <2>5. Mirrors' \/ (goal = "running" /\ Busy({"refind", "start"})')
    BY <2>2, <2>3 DEF Mirrors, InDocker, InRecord, Running, Goals
  <2>6. goal = "running" /\ Busy({"refind", "start"})' => Busy(Unwritten(goal))'
    BY DEF Busy, Unwritten
  <2> QED BY <2>4, <2>5, <2>6 DEF MirrorsSoon
<1> QED BY <1>3, <1>4, <1>7, InOneEpisode DEF SameGoal

\* A handler ends: what it said is so holds for those that are still at work, and
\* nothing is left that only it was to bring about.
LEMMA EndingKeepsGoals ==
    ASSUME IInv, SameGoal, NEW j \in Jobs, Report(j) \/ ReportFailed(j)
    PROVE  SameGoal'
<1>1. /\ TypeOK /\ at[j] \in {"report", "reportFailed"} /\ HandlerEnds(j)
      /\ at[j] = "report" <=> Report(j)
  BY DEF Report, ReportFailed, IInv
<1>2. PICK p \in {"queued", "done", "failed"} : phase' = [phase EXCEPT ![j] = p]
  BY DEF Report, ReportFailed, Queue!Succeed, Queue!Requeue, Queue!Fail, Queue!Move
<1>3. /\ at' = [at EXCEPT ![j] = "idle"] /\ found' = [found EXCEPT ![j] = None]
      /\ kind' = [kind EXCEPT ![j] = IF phase'[j] = "queued" THEN kind[j] ELSE None]
      /\ UNCHANGED <<container, record, daemon>>
  BY <1>1 DEF HandlerEnds, dockerVars
<1>4. /\ episode'.goals = episode.goals /\ episode'.clean = episode.clean
      /\ ~episode'.disturbed => ~episode.disturbed
      /\ at[j] = "report" /\ ~episode'.disturbed => reported' = Goal(j)
      /\ at[j] # "report" => episode'.failed /\ episode'.succeeded = episode.succeeded
  BY <1>1 DEF Report, ReportFailed, TypeOK
<1>5. Goal(j) \in episode.goals /\ kind[j] \in JobTypes
  BY <1>1 DEF SameGoal, KindsFit
<1>6. KindsFit'
  <2> SUFFICES ASSUME NEW i \in Jobs
               PROVE  /\ phase'[i] = "queued" \/ at'[i] # "idle" => kind'[i] \in JobTypes
                      /\ at'[i] # "idle" => phase'[i] = "running" /\ Goal(i)' \in episode.goals
                      /\ at'[i] \in {"idle", "find"} => found'[i] = None
                      /\ at'[i] = "find" => kind'[i] \in {"start", "stop", "restart", "delete"}
                      /\ at'[i] \in {"create", "start"} => kind'[i] \in {"provision", "start", "restart"}
                      /\ at'[i] = "stop" => kind'[i] \in {"stop", "restart", "delete"}
                      /\ at'[i] = "refind" => kind'[i] = "restart"
                      /\ at'[i] = "remove" => kind'[i] = "delete"
                      /\ at'[i] = "save" => kind'[i] = "provision"
                      /\ at'[i] = "update" => kind'[i] \in {"start", "stop", "restart", "delete"}
    BY <1>4 DEF KindsFit
  <2>1. CASE i = j
    <3>1. at'[i] = "idle" /\ found'[i] = None
      BY <1>1, <1>3, <2>1 DEF TypeOK
    <3>2. phase'[i] = "queued" => kind'[i] \in JobTypes
      BY <1>1, <1>3, <1>5, <2>1 DEF TypeOK
    <3> QED BY <3>1, <3>2
  <2>2. CASE i # j
    <3>1. /\ at'[i] = at[i] /\ found'[i] = found[i] /\ kind'[i] = kind[i]
          /\ phase'[i] = phase[i]
      BY <1>1, <1>2, <1>3, <2>2 DEF TypeOK
    <3>2. Goal(i)' = Goal(i)
      BY <3>1 DEF Goal
    <3> QED BY <3>1, <3>2 DEF SameGoal, KindsFit
  <2> QED BY <2>1, <2>2
<1>7. DownIsQuiet'
  BY <1>1, <1>3 DEF SameGoal, DownIsQuiet, Quiet
<1>8. \A calls : Busy(calls)' => Busy(calls) \/ "idle" \in calls
  BY <1>1, <1>3, BusyNext
<1>9. \A calls : at[j] \notin calls /\ Busy(calls) => Busy(calls)'
  BY <1>1, <1>3, BusyNext
<1>10. \A goal : Undisturbed(goal)' => Undisturbed(goal) /\ goal = Goal(j)
  BY <1>4, <1>5 DEF Undisturbed
<1>11. BroughtAbout'
  <2> SUFFICES ASSUME NEW goal \in Goals, Undisturbed(goal)' PROVE Settling(goal)'
    BY DEF BroughtAbout
  <2>1. Settling(goal) /\ goal = Goal(j) /\ ~episode'.disturbed
    BY <1>10 DEF SameGoal, BroughtAbout, Undisturbed
  <2>2. \A i \in Jobs : found'[i] # None => Mine(i)' \/ (goal = "deleted" /\ container' = None)
    BY <1>1, <1>3, <2>1 DEF Settling, Mine, TypeOK
  <2>3. /\ at[j] = "report" => Busy({"report"}) /\ Busy({"save", "update", "report"})
        /\ Busy({"report"})' => Busy({"report"})
        /\ Busy({"save", "update", "report"})' => Busy({"save", "update", "report"})
    BY <1>8 DEF Busy
  <2>4. InDocker(goal) => InDocker(goal)'
    <3>1. Busy({"refind", "start"}) => Busy({"refind", "start"})'
      BY <1>1, <1>9
    <3> QED BY <1>3, <3>1 DEF InDocker, Running
  <2>5. InRecord(goal) => InRecord(goal)'
    BY <1>3 DEF InRecord
  <2>6. at[j] = "report" => reported' = goal
    BY <1>4, <2>1
  <2> QED BY <1>1, <1>4, <2>1, <2>2, <2>3, <2>4, <2>5, <2>6 DEF Settling
<1>12. Mirroring'
  <2> SUFFICES ASSUME episode.clean, ~episode'.disturbed, NEW goal \in Goals,
                      episode.goals = {goal}
               PROVE  MirrorsSoon(goal)'
    BY <1>4, <1>5 DEF Mirroring
  <2>1. MirrorsSoon(goal)
    BY <1>4 DEF SameGoal, Mirroring
  <2>2. Mirrors => Mirrors'
    BY <1>3 DEF Mirrors, Running
  <2>3. Busy(Unwritten(goal)) => Busy(Unwritten(goal))'
    <3>1. at[j] \notin Unwritten(goal)
      BY <1>1 DEF Unwritten
    <3> QED BY <1>9, <3>1 DEF Unwritten
  <2>4. Busy({"update"}) => Busy({"update"})'
    BY <1>1, <1>9
  <2> QED BY <1>3, <2>1, <2>2, <2>3, <2>4 DEF MirrorsSoon
<1> QED BY <1>6, <1>7, <1>11, <1>12 DEF SameGoal

-----------------------------------------------------------------------------
(* Around the handlers.                                                    *)

\* Between episodes the repository is a mirror already.
LEMMA QuietMirrors == ASSUME IInv, SameGoal, Quiet, Orderly PROVE Mirrors
<1>1. \A calls : "idle" \notin calls => ~Busy(calls)
  BY DEF Quiet, Busy
<1>2. CASE episode.goals = {}
  BY <1>2 DEF Orderly, SameGoal, Mirroring
<1>3. CASE episode.goals # {}
  <2>1. PICK goal \in Goals : episode.goals = {goal}
    BY <1>3 DEF Orderly, IInv, TypeOK
  <2>2. MirrorsSoon(goal)
    BY <2>1 DEF Orderly, SameGoal, Mirroring
  <2>3. "idle" \notin Unwritten(goal)
    BY DEF Unwritten
  <2> QED BY <1>1, <2>2, <2>3 DEF MirrorsSoon
<1> QED BY <1>2, <1>3

LEMMA DiscoveredMirrors ==
    ASSUME record' = Discover(container), container' = container
    PROVE  Mirrors'
BY DEF Discover, Mirrors, Running

\* Steps that leave the handlers alone, and steps that leave what they said alone.
LEMMA SameFits ==
    ASSUME KindsFit, UNCHANGED <<phase, kind, at, found>>, episode'.goals = episode.goals
    PROVE  KindsFit'
BY DEF KindsFit, Goal

LEMMA SameEpisode ==
    ASSUME SameGoal, UNCHANGED <<at, found, container, record, episode>>
    PROVE  /\ BroughtAbout' /\ Mirroring'
           /\ UNCHANGED daemon => DownIsQuiet'
<1>1. \A calls : Busy(calls)' <=> Busy(calls)
  BY DEF Busy
<1>2. /\ Mirrors' <=> Mirrors
      /\ \A goal \in Goals : (InDocker(goal)' <=> InDocker(goal)) /\ (InRecord(goal)' <=> InRecord(goal))
  BY <1>1 DEF Mirrors, Running, InDocker, InRecord
<1>3. \A goal \in Goals : Settling(goal) => Settling(goal)'
  BY <1>1, <1>2 DEF Settling, Mine
<1>4. \A goal \in Goals : MirrorsSoon(goal) => MirrorsSoon(goal)'
  BY <1>1, <1>2 DEF MirrorsSoon, Unwritten
<1>5. UNCHANGED daemon => DownIsQuiet'
  BY DEF SameGoal, DownIsQuiet, Quiet
<1>6. BroughtAbout'
  BY <1>3 DEF SameGoal, BroughtAbout, Undisturbed
<1>7. Mirroring'
  BY <1>2, <1>4 DEF SameGoal, Mirroring
<1> QED BY <1>5, <1>6, <1>7

\* A handler begins: in the episode that is under way, or in a new one, whose
\* mirror is the one the last left behind.
LEMMA BeginKeepsGoals == ASSUME IInv, SameGoal, NEW j \in Jobs, Begin(j) PROVE SameGoal'
<1> DEFINE old == IF Quiet THEN NewEpisode(Orderly) ELSE episode
<1>1. /\ TypeOK /\ phase[j] = "queued" /\ phase' = [phase EXCEPT ![j] = "running"]
      /\ at' = [at EXCEPT ![j] = First(j)]
      /\ UNCHANGED <<kind, found, container, record, reported, daemon>>
      /\ daemon # "down"
      /\ episode' = [old EXCEPT !.goals = old.goals \cup {Goal(j)}]
  BY DEF Begin, Queue!Begin, Queue!Move, IInv, dockerVars
<1>2. kind[j] \in JobTypes /\ at[j] = "idle" /\ found[j] = None
  BY <1>1 DEF SameGoal, KindsFit
<1>3. /\ First(j) \in {"create", "find"}
      /\ First(j) = "create" => kind[j] = "provision"
      /\ First(j) = "find" => kind[j] \in {"start", "stop", "restart", "delete"}
  BY <1>2 DEF First, JobTypes
<1>4. old \in [goals : SUBSET Goals, succeeded : BOOLEAN, failed : BOOLEAN,
               disturbed : BOOLEAN, clean : BOOLEAN]
  <2>1. Orderly \in BOOLEAN
    BY <1>1 DEF Orderly, TypeOK
  <2> QED BY <1>1, <2>1, Episodes DEF TypeOK
<1>5. /\ episode'.goals = old.goals \cup {Goal(j)}
      /\ episode'.disturbed = old.disturbed /\ episode'.clean = old.clean
      /\ episode'.succeeded = old.succeeded /\ episode'.failed = old.failed
  BY <1>1, <1>4
<1>6. \A i \in Jobs : at[i] # "idle" => Goal(i) \in old.goals
  BY DEF SameGoal, KindsFit, Quiet
<1>7. \A i \in Jobs : Goal(i)' = Goal(i)
  BY <1>1 DEF Goal
<1>8. KindsFit'
  <2> SUFFICES ASSUME NEW i \in Jobs
               PROVE  /\ phase'[i] = "queued" \/ at'[i] # "idle" => kind[i] \in JobTypes
                      /\ at'[i] # "idle" => phase'[i] = "running" /\ Goal(i) \in episode'.goals
                      /\ at'[i] \in {"idle", "find"} => found[i] = None
                      /\ at'[i] = "find" => kind[i] \in {"start", "stop", "restart", "delete"}
                      /\ at'[i] \in {"create", "start"} => kind[i] \in {"provision", "start", "restart"}
                      /\ at'[i] = "stop" => kind[i] \in {"stop", "restart", "delete"}
                      /\ at'[i] = "refind" => kind[i] = "restart"
                      /\ at'[i] = "remove" => kind[i] = "delete"
                      /\ at'[i] = "save" => kind[i] = "provision"
                      /\ at'[i] = "update" => kind[i] \in {"start", "stop", "restart", "delete"}
    BY <1>1, <1>7 DEF KindsFit
  <2>1. CASE i = j
    <3>1. at'[i] = First(j) /\ phase'[i] = "running"
      BY <1>1, <2>1 DEF TypeOK
    <3> QED BY <1>2, <1>3, <1>5, <2>1, <3>1
  <2>2. CASE i # j
    <3>1. at'[i] = at[i] /\ phase'[i] = phase[i]
      BY <1>1, <2>2 DEF TypeOK
    <3> QED BY <1>5, <1>6, <2>2, <3>1 DEF SameGoal, KindsFit
  <2> QED BY <2>1, <2>2
<1>9. DownIsQuiet'
  BY <1>1 DEF DownIsQuiet
<1>10. \A calls : /\ Busy(calls)' => Busy(calls) \/ First(j) \in calls
                  /\ "idle" \notin calls /\ Busy(calls) => Busy(calls)'
  BY <1>1, <1>2, BusyNext
<1>11. CASE Quiet
  <2>1. /\ old.goals = {} /\ ~old.succeeded /\ old.clean = Orderly
        /\ \A i \in Jobs : at[i] = "idle" /\ found[i] = None
    BY <1>11 DEF NewEpisode, Quiet, SameGoal, KindsFit
  <2>2. ~Busy({"save", "update", "report"})' /\ ~Busy({"report"})'
    <3>1. ~Busy({"save", "update", "report"}) /\ ~Busy({"report"})
      BY <2>1 DEF Busy
    <3>2. First(j) \notin {"save", "update", "report"}
      BY <1>3
    <3> QED BY <1>10, <3>1, <3>2
  <2>3. BroughtAbout'
    BY <1>1, <1>5, <2>1, <2>2 DEF BroughtAbout, Settling
  <2>4. Orderly => Mirrors
    BY <1>11, QuietMirrors
  <2>5. Mirrors => Mirrors'
    BY <1>1 DEF Mirrors, Running
  <2>6. episode'.goals # {}
    BY <1>5
  <2>7. Mirroring'
    BY <1>5, <2>1, <2>4, <2>5, <2>6 DEF Mirroring, MirrorsSoon
  <2> QED BY <1>8, <1>9, <2>3, <2>7 DEF SameGoal
<1>12. CASE ~Quiet
  <2>1. PICK i \in Jobs : at[i] # "idle"
    BY <1>12 DEF Quiet
  <2>2. old = episode /\ Goal(i) \in episode.goals
    BY <1>6, <1>12, <2>1
  <2>3. \A goal : episode'.goals = {goal} => episode.goals = {goal}
    BY <1>5, <2>2
  <2>4. /\ \A goal \in Goals : Undisturbed(goal)' => Undisturbed(goal)
        /\ episode'.clean = episode.clean /\ episode'.disturbed = episode.disturbed
        /\ episode'.succeeded = episode.succeeded /\ episode'.failed = episode.failed
    BY <1>5, <2>2, <2>3 DEF Undisturbed
  <2>5. ASSUME NEW goal \in Goals, Settling(goal) PROVE Settling(goal)'
    <3>1. /\ Busy({"save", "update", "report"})' => Busy({"save", "update", "report"})
          /\ Busy({"report"})' => Busy({"report"})
          /\ Busy({"refind", "start"}) => Busy({"refind", "start"})'
      BY <1>3, <1>10
    <3>2. \A k \in Jobs : found'[k] # None => Mine(k)' \/ (goal = "deleted" /\ container' = None)
      BY <1>1, <2>5 DEF Settling, Mine
    <3>3. (InDocker(goal) => InDocker(goal)') /\ (InRecord(goal) => InRecord(goal)')
      BY <1>1, <3>1 DEF InDocker, InRecord, Running
    <3> QED BY <1>1, <2>4, <2>5, <3>1, <3>2, <3>3 DEF Settling
  <2>6. BroughtAbout'
    BY <2>4, <2>5 DEF SameGoal, BroughtAbout
  <2>7. ASSUME NEW goal \in Goals, MirrorsSoon(goal) PROVE MirrorsSoon(goal)'
    <3>1. (Mirrors => Mirrors') /\ container' = container
      BY <1>1 DEF Mirrors, Running
    <3>2. "idle" \notin Unwritten(goal)
      BY DEF Unwritten
    <3>3. Busy(Unwritten(goal)) => Busy(Unwritten(goal))'
      BY <1>10, <3>2 DEF Unwritten
    <3>4. Busy({"update"}) => Busy({"update"})'
      BY <1>10
    <3> QED BY <2>7, <3>1, <3>3, <3>4 DEF MirrorsSoon
  <2>8. Mirroring'
    BY <1>5, <2>2, <2>3, <2>4, <2>7 DEF SameGoal, Mirroring
  <2> QED BY <1>8, <1>9, <2>6, <2>8 DEF SameGoal
<1> QED BY <1>11, <1>12

LEMMA SubmitKeepsGoals == ASSUME IInv, SameGoal, NEW j \in Jobs, Submit(j) PROVE SameGoal'
<1>1. PICK k \in Kinds[j] : kind' = [kind EXCEPT ![j] = k]
  BY DEF Submit
<1>2. /\ TypeOK /\ k \in JobTypes /\ phase[j] = "new" /\ phase' = [phase EXCEPT ![j] = "queued"]
      /\ UNCHANGED <<at, found, container, record, reported, daemon, episode>>
  BY LifecycleAssumption DEF Submit, Queue!Submit, Queue!Move, IInv, workerVars, dockerVars
<1>3. at[j] = "idle"
  BY <1>2 DEF SameGoal, KindsFit
<1>4. KindsFit'
  <2> SUFFICES ASSUME NEW i \in Jobs
               PROVE  /\ phase'[i] = "queued" \/ at[i] # "idle" => kind'[i] \in JobTypes
                      /\ at[i] # "idle" => phase'[i] = "running" /\ Goal(i)' \in episode.goals
                      /\ at[i] \in {"idle", "find"} => found[i] = None
                      /\ at[i] = "find" => kind'[i] \in {"start", "stop", "restart", "delete"}
                      /\ at[i] \in {"create", "start"} => kind'[i] \in {"provision", "start", "restart"}
                      /\ at[i] = "stop" => kind'[i] \in {"stop", "restart", "delete"}
                      /\ at[i] = "refind" => kind'[i] = "restart"
                      /\ at[i] = "remove" => kind'[i] = "delete"
                      /\ at[i] = "save" => kind'[i] = "provision"
                      /\ at[i] = "update" => kind'[i] \in {"start", "stop", "restart", "delete"}
    BY <1>2 DEF KindsFit
  <2>1. CASE i = j
    BY <1>1, <1>2, <1>3, <2>1 DEF TypeOK, SameGoal, KindsFit
  <2>2. CASE i # j
    <3>1. phase'[i] = phase[i] /\ kind'[i] = kind[i]
      BY <1>1, <1>2, <2>2 DEF TypeOK
    <3>2. Goal(i)' = Goal(i)
      BY <3>1 DEF Goal
    <3> QED BY <3>1, <3>2 DEF SameGoal, KindsFit
  <2> QED BY <2>1, <2>2
<1>5. DownIsQuiet' /\ BroughtAbout' /\ Mirroring'
  BY <1>2, SameEpisode DEF SameGoal
<1> QED BY <1>4, <1>5 DEF SameGoal

LEMMA DaemonKeepsGoals ==
    ASSUME IInv, SameGoal, Exit \/ Sigterm \/ Terminate \/ Crash \/ Boot
    PROVE  SameGoal'
<1>1. CASE Sigterm
  <2>1. UNCHANGED <<phase, kind, at, found, container, record, reported, episode>> /\ daemon' # "down"
    BY <1>1 DEF Sigterm, queueVars, workerVars, dockerVars
  <2> QED BY <2>1, SameEpisode, SameFits DEF SameGoal, DownIsQuiet
<1>2. CASE Exit \/ Terminate
  <2>1. UNCHANGED <<phase, kind, at, found>> /\ episode' = Disturbed /\ TypeOK
    BY <1>2 DEF Exit, Terminate, queueVars, workerVars, IInv
  <2>2. episode'.goals = episode.goals
    BY <2>1 DEF Disturbed, TypeOK
  <2>3. DownIsQuiet'
    BY <1>2, <2>1 DEF Exit, Terminate, Quiet, SameGoal, DownIsQuiet
  <2> QED BY <2>1, <2>2, <2>3, SameFits, DisturbedSaysNothing DEF SameGoal
<1>3. CASE Crash
  <2>1. /\ TypeOK /\ phase' = phase /\ episode' = Disturbed
        /\ at' = [j \in Jobs |-> "idle"] /\ found' = [j \in Jobs |-> None]
        /\ kind' = [j \in Jobs |-> IF at[j] = "idle" THEN kind[j] ELSE None]
    BY <1>3 DEF Crash, queueVars, IInv
  <2>2. KindsFit'
    BY <2>1 DEF SameGoal, KindsFit
  <2>3. DownIsQuiet'
    BY <2>1 DEF DownIsQuiet, Quiet
  <2> QED BY <2>1, <2>2, <2>3, DisturbedSaysNothing DEF SameGoal
<1>4. CASE Boot
  <2>1. /\ daemon = "down" /\ daemon' = "up" /\ record' = Discover(container)
        /\ episode' = NewEpisode(TRUE)
        /\ UNCHANGED <<phase, kind, at, found, container>>
    BY <1>4 DEF Boot, queueVars, workerVars, dockerVars
  <2>2. episode'.goals = {} /\ \A j \in Jobs : at[j] = "idle"
    BY <2>1 DEF NewEpisode, SameGoal, DownIsQuiet, Quiet
  <2>3. KindsFit'
    BY <2>1, <2>2 DEF SameGoal, KindsFit
  <2>4. Mirrors'
    BY <2>1, DiscoveredMirrors
  <2> QED BY <2>1, <2>2, <2>3, <2>4 DEF SameGoal, DownIsQuiet, BroughtAbout, Undisturbed, Mirroring
<1> QED BY <1>1, <1>2, <1>3, <1>4

LEMMA StepKeepsGoals == IInv /\ SameGoal /\ [Next]_vars => SameGoal'
<1> SUFFICES ASSUME IInv, SameGoal, [Next]_vars PROVE SameGoal'
  OBVIOUS
<1>1. ASSUME NEW j \in Jobs, Submit(j) PROVE SameGoal'
  BY <1>1, SubmitKeepsGoals
<1>2. ASSUME NEW j \in Jobs, Begin(j) PROVE SameGoal'
  BY <1>2, BeginKeepsGoals
<1>3. ASSUME NEW j \in Jobs, Handler(j) PROVE SameGoal'
  BY <1>3, FindKeepsGoals, CreateKeepsGoals, StartKeepsGoals, StopKeepsGoals, RemoveKeepsGoals,
     WritingKeepsGoals, EndingKeepsGoals DEF Handler
<1>4. CASE Exit \/ Sigterm \/ Terminate \/ Crash \/ Boot
  BY <1>4, DaemonKeepsGoals
<1>5. CASE UNCHANGED vars
  <2>1. UNCHANGED <<phase, kind, at, found, container, record, reported, daemon, episode>>
    BY <1>5 DEF vars, queueVars, workerVars, dockerVars
  <2> QED BY <2>1, SameEpisode, SameFits DEF SameGoal, DownIsQuiet, Quiet
<1> QED BY <1>1, <1>2, <1>3, <1>4, <1>5 DEF Next

-----------------------------------------------------------------------------
LEMMA InitGoals == Init => SameGoal
<1> SUFFICES ASSUME Init PROVE SameGoal
  OBVIOUS
<1>1. /\ \A j \in Jobs : phase[j] = "new" /\ at[j] = "idle" /\ found[j] = None
      /\ daemon = "up" /\ episode = NewEpisode(TRUE) /\ record = Discover(container)
  BY DEF Init, Queue!Init
<1>2. KindsFit /\ DownIsQuiet
  BY <1>1 DEF KindsFit, DownIsQuiet
<1>3. Mirrors
  BY <1>1 DEF Discover, Mirrors, Running
<1>4. episode.goals = {}
  BY <1>1 DEF NewEpisode
<1> QED BY <1>2, <1>3, <1>4 DEF SameGoal, BroughtAbout, Undisturbed, Mirroring

LEMMA GoalsHold == Spec => []SameGoal
BY InitGoals, StepKeepsGoals, InvariantHolds, PTL DEF Spec

-----------------------------------------------------------------------------
(* What the platform is told.                                              *)

Told(goal) == episode.succeeded => episode.failed \/ reported = goal

AllTold == \A goal \in Goals : Undisturbed(goal) => Told(goal)

\* What is left open after a step was left open before it, and nothing was told: a
\* handler that ends tells its goal, or that it failed, or the episode is disturbed.
LEMMA LeftOpen ==
    ASSUME IInv, SameGoal, [Next]_vars, NEW goal \in Goals,
           Undisturbed(goal)', episode'.succeeded, ~episode'.failed, reported' # goal
    PROVE  /\ Undisturbed(goal) /\ episode.succeeded /\ ~episode.failed /\ reported' = reported
           /\ \A j \in Jobs : ~Report(j) /\ ~ReportFailed(j)
<1>1. TypeOK /\ episode' # Disturbed /\ \A clean \in BOOLEAN : episode' # NewEpisode(clean)
  BY DEF IInv, TypeOK, Undisturbed, Disturbed, NewEpisode
<1>2. episode' = episode =>
        Undisturbed(goal) /\ episode.succeeded /\ ~episode.failed
  BY DEF Undisturbed
<1>3. ASSUME NEW j \in Jobs, Report(j) \/ ReportFailed(j) PROVE FALSE
  <2>1. Goal(j) \in episode.goals /\ episode'.goals = episode.goals
    BY <1>1, <1>3 DEF Report, ReportFailed, SameGoal, KindsFit, TypeOK
  <2>2. CASE Report(j)
    <3>1. ~episode'.disturbed => reported' = Goal(j)
      BY <1>1, <2>2 DEF Report, TypeOK
    <3> QED BY <2>1, <3>1 DEF Undisturbed
  <2>3. CASE ReportFailed(j)
    BY <1>1, <2>3 DEF ReportFailed, TypeOK
  <2> QED BY <1>3, <2>2, <2>3
<1>4. ASSUME NEW j \in Jobs, Handler(j) PROVE episode' = episode /\ reported' = reported
  <2>1. Find(j) \/ Create(j) \/ Start(j) \/ Stop(j) \/ Remove(j) \/ Save(j) \/ Update(j)
    BY <1>3, <1>4 DEF Handler
  <2>2. (Fault \/ NoFault) /\ reported' = reported
    BY <2>1 DEF Find, Create, Start, Stop, Remove, Save, Update, Call, GoOn
  <2> QED BY <1>1, <2>2 DEF Fault, NoFault
<1>5. ASSUME NEW j \in Jobs, Begin(j)
      PROVE  /\ Undisturbed(goal) /\ episode.succeeded /\ ~episode.failed
             /\ reported' = reported
  <2> DEFINE old == IF Quiet THEN NewEpisode(Orderly) ELSE episode
  <2>1. /\ episode' = [old EXCEPT !.goals = old.goals \cup {Goal(j)}] /\ reported' = reported
        /\ old \in [goals : SUBSET Goals, succeeded : BOOLEAN, failed : BOOLEAN,
                    disturbed : BOOLEAN, clean : BOOLEAN]
    <3>1. Orderly \in BOOLEAN
      BY <1>1 DEF Orderly, TypeOK
    <3> QED BY <1>1, <1>5, <3>1, Episodes DEF Begin, TypeOK
  <2>2. ~Quiet
    BY <2>1 DEF NewEpisode
  <2>3. PICK i \in Jobs : at[i] # "idle"
    BY <2>2 DEF Quiet
  <2>4. old = episode /\ Goal(i) \in episode.goals
    BY <2>2, <2>3 DEF SameGoal, KindsFit
  <2> QED BY <2>1, <2>4 DEF Undisturbed
<1>6. CASE \/ \E j \in Jobs : Submit(j)
           \/ Exit \/ Sigterm \/ Terminate \/ Crash \/ Boot \/ UNCHANGED vars
  <2>1. reported' = reported
    BY <1>6 DEF Submit, Exit, Sigterm, Terminate, Crash, Boot, vars
  <2>2. episode' = episode
    BY <1>1, <1>6 DEF Submit, Exit, Sigterm, Terminate, Crash, Boot, vars
  <2> QED BY <1>2, <2>1, <2>2, <1>3
<1> QED
  <2>1. \A j \in Jobs : ~Report(j) /\ ~ReportFailed(j)
    BY <1>3
  <2> QED BY <1>2, <1>4, <1>5, <1>6, <2>1 DEF Next

LEMMA StepKeepsTold == IInv /\ SameGoal /\ AllTold /\ [Next]_vars => AllTold'
BY LeftOpen DEF AllTold, Told

LEMMA AllToldHolds == Spec => []AllTold
<1>1. Init => AllTold
  BY DEF Init, NewEpisode, AllTold, Told
<1> QED BY <1>1, StepKeepsTold, InvariantHolds, GoalsHold, PTL DEF Spec

\* When no handler is at work what the invariant says of Docker and the repository
\* is what SameGoalAgrees does.
LEMMA QuietAgrees ==
    ASSUME IInv, SameGoal, NEW goal \in Goals, Accomplished(goal)
    PROVE  AgreesOnNode(goal)
<1>1. ~Busy({"refind", "start"})
  BY DEF Accomplished, Quiet, Busy
<1>2. InDocker(goal) /\ InRecord(goal)
  BY DEF Accomplished, SameGoal, BroughtAbout, Undisturbed, Settling
<1> QED BY <1>1, <1>2 DEF AgreesOnNode, InDocker, InRecord, Running, Goals

\* Handlers that want the same and of which one has succeeded leave Docker, the
\* repository and the platform in agreement about it, whatever the others did.
THEOREM SameGoalIsAgreedOn == Spec => []SameGoalAgrees
<1>1. IInv /\ SameGoal /\ AllTold => SameGoalAgrees
  BY QuietAgrees DEF SameGoalAgrees, Accomplished, AllTold, Told, Undisturbed
<1> QED BY <1>1, InvariantHolds, GoalsHold, AllToldHolds, PTL

\* Whenever no handler is at work the repository shows what Docker has, since
\* start-up, as long as overlapping jobs want the same and nothing interferes.
THEOREM RepositoryIsAMirror == Spec => []RepositoryMirrorsDocker
<1>1. IInv /\ SameGoal => RepositoryMirrorsDocker
  BY QuietMirrors DEF RepositoryMirrorsDocker, Mirrors, Running
<1> QED BY <1>1, InvariantHolds, GoalsHold, PTL

-----------------------------------------------------------------------------
(* With the scraper.  Between two steps of the handlers it may tell what   *)
(* they have not: while a restart is under way that the container has      *)
(* stopped, for instance.  Then either that is still so, or a handler that *)
(* has changed it is on its way to tell.                                   *)

AsSeen == container # None /\ reported = mapDockerState(container.state)

ToTell == {"save", "update", "report"}

Heard(goal) ==
    episode.succeeded => episode.failed \/ reported = goal \/ AsSeen \/ Busy(ToTell)

AllHeard == \A goal \in Goals : Undisturbed(goal) => Heard(goal)

ScrapedInv == IInv /\ SameGoal /\ ScrapedTypeOK /\ AllHeard

\* A handler that is to tell goes on to do so; one that changes what the scraper
\* may have told is to tell.
LEMMA HandlersTell ==
    ASSUME IInv, SameGoal, NEW j \in Jobs, Handler(j), ~Report(j), ~ReportFailed(j),
           NEW goal \in Goals, Undisturbed(goal), Undisturbed(goal)', episode.succeeded,
           reported # goal, AsSeen \/ Busy(ToTell)
    PROVE  AsSeen' \/ Busy(ToTell)'
<1>1. /\ TypeOK /\ episode' # Disturbed
      /\ Find(j) \/ Create(j) \/ Start(j) \/ Stop(j) \/ Remove(j) \/ Save(j) \/ Update(j)
  BY DEF IInv, TypeOK, Undisturbed, Disturbed, Handler
<1>2. PICK next : GoOn(j, next)
  BY <1>1 DEF Find, Create, Start, Stop, Remove, Save, Update, Call
<1>3. at' = [at EXCEPT ![j] = next] /\ reported' = reported
  BY <1>2 DEF GoOn
<1>4. Goal(j) = goal /\ Settling(goal) /\ InDocker(goal)
  <2>1. at[j] # "idle"
    BY <1>1 DEF Find, Create, Start, Stop, Remove, Save, Update
  <2>2. Goal(j) = goal /\ Settling(goal)
    BY <2>1 DEF SameGoal, KindsFit, BroughtAbout, Undisturbed
  <2> QED BY <2>2 DEF Settling
<1>5. CASE Busy(ToTell)
  <2>1. CASE at[j] \in ToTell
    <3>1. Save(j) \/ Update(j)
      BY <1>1, <2>1 DEF ToTell, Find, Create, Start, Stop, Remove
    <3>2. at' = [at EXCEPT ![j] = "report"]
      BY <3>1 DEF Save, Update, GoOn
    <3> QED BY <1>1, <3>2, BusyNext DEF ToTell
  <2>2. CASE at[j] \notin ToTell
    BY <1>1, <1>3, <1>5, <2>2, BusyNext DEF ToTell
  <2> QED BY <2>1, <2>2
<1>6. CASE AsSeen /\ container' = container
  BY <1>3, <1>6 DEF AsSeen, mapDockerState
<1>7. CASE AsSeen /\ container' # container
  <2>1. container # None /\ container \in Container
    BY <1>1, <1>7 DEF AsSeen, TypeOK
  <2>2. Start(j) \/ Stop(j) \/ Remove(j)
    BY <1>1, <1>7, <2>1 DEF Find, Create, Save, Update, Fault, dockerVars
  <2>3. CASE Start(j)
    <3>1. \E go \in {"save", "update"} : at' = [at EXCEPT ![j] = go]
      BY <1>1, <1>7, <2>3 DEF Start, Call, GoOn, Fault
    <3> QED BY <1>1, <3>1, BusyNext DEF ToTell
  <2>4. CASE Stop(j)
    <3>1. container' = Halted
      BY <1>7, <2>4 DEF Stop, Call
    <3>2. container.state = "running"
      BY <1>7, <3>1 DEF Halted
    <3>3. reported = "running"
      BY <1>7, <3>2 DEF AsSeen, mapDockerState
    <3>4. goal # "running" => ~Running
      BY <1>4 DEF InDocker, Running
    <3> QED BY <2>1, <3>2, <3>3, <3>4 DEF Running
  <2>5. CASE Remove(j)
    <3>1. goal = "deleted"
      BY <1>4, <2>5 DEF Remove, SameGoal, KindsFit, Goal
    <3> QED BY <1>4, <2>1, <3>1 DEF InDocker
  <2> QED BY <2>2, <2>3, <2>4, <2>5
<1> QED BY <1>5, <1>6, <1>7

\* So does any other step that disturbs nothing.
LEMMA NextKeepsHeard ==
    ASSUME IInv, SameGoal, AllHeard, [Next]_vars
    PROVE  AllHeard'
<1> SUFFICES ASSUME NEW goal \in Goals, Undisturbed(goal)', episode'.succeeded,
                    ~episode'.failed, reported' # goal
             PROVE  AsSeen' \/ Busy(ToTell)'
  BY DEF AllHeard, Heard
<1>1. /\ Undisturbed(goal) /\ episode.succeeded /\ ~episode.failed /\ reported' = reported
      /\ \A j \in Jobs : ~Report(j) /\ ~ReportFailed(j)
  BY LeftOpen
<1>2. AsSeen \/ Busy(ToTell)
  BY <1>1 DEF AllHeard, Heard
<1>3. ASSUME NEW j \in Jobs, Handler(j) PROVE AsSeen' \/ Busy(ToTell)'
  BY <1>1, <1>2, <1>3, HandlersTell
<1>4. ASSUME NEW j \in Jobs, Begin(j) PROVE AsSeen' \/ Busy(ToTell)'
  <2>1. /\ at[j] = "idle" /\ container' = container /\ TypeOK
        /\ at' = [at EXCEPT ![j] = First(j)]
    BY <1>4 DEF Begin, Queue!Begin, Queue!Move, dockerVars, SameGoal, KindsFit, IInv
  <2>2. Busy(ToTell) => Busy(ToTell)'
    BY <2>1, BusyNext DEF ToTell
  <2> QED BY <1>1, <1>2, <2>1, <2>2 DEF AsSeen, mapDockerState
<1>5. CASE (\E j \in Jobs : Submit(j)) \/ Sigterm \/ UNCHANGED vars
  <2>1. UNCHANGED <<at, container>>
    BY <1>5 DEF Submit, Sigterm, vars, workerVars, dockerVars
  <2> QED BY <1>1, <1>2, <2>1 DEF AsSeen, mapDockerState, Busy
<1>6. CASE Exit \/ Terminate \/ Crash \/ Boot
  <2>1. episode' = Disturbed \/ episode' = NewEpisode(TRUE)
    BY <1>6 DEF Exit, Terminate, Crash, Boot
  <2> QED BY <2>1 DEF Undisturbed, Disturbed, NewEpisode, IInv, TypeOK
<1> QED BY <1>3, <1>4, <1>5, <1>6 DEF Next

\* A step of the scraper changes nothing on the node; what it reports is so, or the
\* episode is disturbed.
LEMMA ScraperKeepsInv == ASSUME ScrapedInv, Scraper PROVE ScrapedInv'
<1>1. /\ UNCHANGED <<phase, tries, kind, at, found, container, created, record, daemon>>
      /\ TypeOK /\ (Trouble \/ UNCHANGED troubles)
  BY DEF ScrapedInv, IInv, Scraper, ScrapeRecord, ScrapeStatus, ScrapeReport, Unscraped, Tell,
         queueVars, workerVars, dockerVars
<1>2. /\ scraping' \in {"no", "asking", "running", "stopped", "pending"}
      /\ asked' \in Projects \cup {None}
      /\ reported' = reported \/ reported' \in {"running", "stopped", "pending"}
  <2>1. scraping \in {"no", "asking", "running", "stopped", "pending"} /\ asked \in Projects \cup {None}
    BY DEF ScrapedInv, ScrapedTypeOK
  <2>2. record # None => record.project \in Projects
    BY <1>1 DEF TypeOK, Record
  <2> QED BY <2>1, <2>2 DEF Scraper, ScrapeRecord, ScrapeStatus, ScrapeReport, Tell, Listed, mapDockerState
<1>3. /\ episode' = episode \/ episode' = Disturbed
      /\ reported' = reported \/ episode' = Disturbed \/ AsSeen'
  BY <1>1 DEF Scraper, ScrapeRecord, ScrapeStatus, ScrapeReport, Stale, Tell, AsSeen,
              mapDockerState
<1>4. IInv'
  <2>1. TypeOK'
    BY <1>1, <1>2, <1>3, Troubled, Episodes DEF TypeOK, Goals
  <2> QED BY <1>1, <2>1, SameHandlers DEF ScrapedInv, IInv
<1>5. KindsFit' /\ DownIsQuiet'
  <2>1. episode'.goals = episode.goals
    BY <1>1, <1>3 DEF TypeOK, Disturbed
  <2> QED BY <1>1, <2>1, SameFits DEF ScrapedInv, SameGoal, DownIsQuiet, Quiet
<1>6. CASE episode' = Disturbed
  <2>1. AllHeard'
    BY <1>1, <1>6 DEF AllHeard, Undisturbed, Disturbed, TypeOK
  <2> QED BY <1>1, <1>2, <1>4, <1>5, <1>6, <2>1, DisturbedSaysNothing
          DEF ScrapedInv, SameGoal, ScrapedTypeOK, IInv
<1>7. CASE episode' = episode /\ episode' # Disturbed
  <2>1. BroughtAbout' /\ Mirroring'
    BY <1>1, <1>7, SameEpisode DEF ScrapedInv
  <2>2. (AsSeen => AsSeen' \/ reported' # reported) /\ (Busy(ToTell) => Busy(ToTell)')
    BY <1>1 DEF AsSeen, mapDockerState, Busy
  <2>3. AllHeard'
    BY <1>3, <1>7, <2>2 DEF ScrapedInv, AllHeard, Heard, Undisturbed
  <2> QED BY <1>2, <1>4, <1>5, <2>1, <2>3 DEF ScrapedInv, SameGoal, ScrapedTypeOK, IInv
<1> QED BY <1>3, <1>6, <1>7

\* Handlers and scraper together keep the invariant, whatever comes in between.
THEOREM ScrapedInvariantHolds == ScrapedSpec => []ScrapedInv
<1>1. ScrapedInit => ScrapedInv
  <2> SUFFICES ASSUME ScrapedInit PROVE ScrapedInv
    OBVIOUS
  <2>1. IInv /\ SameGoal
    BY InitInv, InitGoals DEF ScrapedInit
  <2> QED BY <2>1 DEF ScrapedInit, Init, NewEpisode, ScrapedInv, ScrapedTypeOK, IInv, AllHeard, Heard
<1>2. ScrapedInv /\ [ScrapedNext]_scrapedVars => ScrapedInv'
  <2> SUFFICES ASSUME ScrapedInv, [ScrapedNext]_scrapedVars PROVE ScrapedInv'
    OBVIOUS
  <2>1. CASE Scraper
    BY <2>1, ScraperKeepsInv
  <2>2. CASE ~Scraper
    <3>1. [Next]_vars /\ (UNCHANGED scraperVars \/ (scraping' = "no" /\ asked' = None))
      BY <2>2 DEF ScrapedNext, scrapedVars, scraperVars
    <3>2. IInv' /\ SameGoal' /\ AllHeard'
      BY <3>1, StepInv, StepKeepsGoals, NextKeepsHeard DEF ScrapedInv
    <3> QED BY <3>1, <3>2 DEF ScrapedInv, ScrapedTypeOK, IInv, scraperVars
  <2> QED BY <2>1, <2>2
<1> QED BY <1>1, <1>2, PTL DEF ScrapedSpec

\* The variables of the scraper keep their types, and so do the others beside it.
THEOREM ScrapedTypeCorrect == ScrapedSpec => []ScrapedTypeOK
<1>1. ScrapedInv => ScrapedTypeOK
  BY DEF ScrapedInv
<1> QED BY <1>1, ScrapedInvariantHolds, PTL

\* Reports of the scraper in between, late ones that change nothing included, leave
\* the agreement of handlers that want the same as it is.
THEOREM ScrapedGoalIsAgreedOn == ScrapedSpec => []ScrapedGoalAgrees
<1>1. ScrapedInv => ScrapedGoalAgrees
  <2> SUFFICES ASSUME ScrapedInv, NEW goal \in Goals, Accomplished(goal), ~episode.failed,
                      reported # goal
               PROVE  goal = "stopped" /\ container.state = "created" /\ reported = "pending"
    BY QuietAgrees DEF ScrapedInv, ScrapedGoalAgrees
  <2>1. ~Busy(ToTell)
    BY DEF Accomplished, Quiet, Busy, ToTell
  <2>2. AsSeen
    BY <2>1 DEF ScrapedInv, AllHeard, Heard, Accomplished, Undisturbed
  <2>3. AgreesOnNode(goal) /\ container \in Container
    BY <2>2, QuietAgrees DEF ScrapedInv, IInv, TypeOK, AsSeen
  <2> QED BY <2>2, <2>3 DEF AsSeen, AgreesOnNode, mapDockerState, Container, Goals
<1> QED BY <1>1, ScrapedInvariantHolds, PTL

\* The scraper's reports do not touch the mirror that the repository is.
THEOREM ScrapedRepositoryIsAMirror == ScrapedSpec => []RepositoryMirrorsDocker
<1>1. ScrapedInv => RepositoryMirrorsDocker
  BY QuietMirrors DEF ScrapedInv, RepositoryMirrorsDocker, Mirrors, Running
<1> QED BY <1>1, ScrapedInvariantHolds, PTL
=============================================================================
