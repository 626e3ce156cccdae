------------------------ MODULE MemoryDispatchProofs ------------------------
(***************************************************************************)
(* Proofs about MemoryDispatch, for every set of jobs, of loops and of     *)
(* semaphore tokens.                                                       *)
(***************************************************************************)
EXTENDS MemoryDispatch, SequenceTheorems, TLAPS

\* A goroutine under a token goes on with the job it has.
LEMMA SlotAdvances ==
    ASSUME slot \in [Slots -> [pc : SlotPCs, job : Jobs \cup {NoJob}]],
           NEW s \in Slots, NEW op \in SlotPCs
    PROVE  [slot EXCEPT ![s].pc = op] \in [Slots -> [pc : SlotPCs, job : Jobs \cup {NoJob}]]
OBVIOUS

\* Appending puts the new element behind the others and moves none of them.
LEMMA AppendPlaces ==
    ASSUME NEW S, NEW q \in Seq(S), NEW x \in S
    PROVE  /\ Append(q, x) \in Seq(S)
           /\ Len(q) \in Nat
           /\ Len(Append(q, x)) = Len(q) + 1
           /\ \A i \in 1 .. Len(q) : Append(q, x)[i] = q[i]
           /\ Append(q, x)[Len(q) + 1] = x
BY SMT

\* Dropping the head moves every other element one place forward.
LEMMA TailPlaces ==
    ASSUME NEW S, NEW q \in Seq(S), q # <<>>
    PROVE  /\ Tail(q) \in Seq(S)
           /\ Len(q) \in Nat \ {0}
           /\ Len(Tail(q)) = Len(q) - 1
           /\ Head(q) = q[1]
           /\ \A i \in 1 .. Len(q) - 1 : Tail(q)[i] = q[i + 1]
BY SMT

-----------------------------------------------------------------------------
(* The inductive invariant.  OneHolder speaks of the holders of a job; for *)
(* it to be preserved, the loop must hold a job exactly where its program  *)
(* counter says so, and a loop that has returned must have no goroutine.   *)
(* EndsForCause and AttemptsBounded speak of settled and waiting jobs; for *)
(* them to be preserved, what a goroutine is about to report must agree    *)
(* with what its handler said.                                             *)

HandsMatch ==
    \A d \in Daemons : InHand(d) <=> loop[d] \in {"lookup", "acquire"}

ReturnedAreDrained ==
    \A d \in Daemons : loop[d] = "returned" => Drained(d)

ReportsMatch ==
    \A s \in Slots :
        LET j == slot[s].job IN
        /\ slot[s].pc = "acknowledge" => verdict[j] = "ok"
        /\ slot[s].pc = "retry" => verdict[j] = "transient" /\ attempts[j] < MaxAttempts[j]
        /\ slot[s].pc = "markFailed" =>
              \/ verdict[j] = "permanent"
              \/ verdict[j] = "transient" /\ attempts[j] >= MaxAttempts[j]

NewAreUntried == \A j \in Jobs : status[j] = "new" => attempts[j] = 0

Ledger == AttemptsBounded /\ EndsForCause /\ ReportsMatch /\ NewAreUntried

IInv ==
    /\ TypeOK
    /\ HandsMatch /\ ReturnedAreDrained
    /\ OneHolder
    /\ OnePlace
    /\ Ledger

USE MaxAttemptsAssumption, OwnerAssumption, NoJobAssumption, KnownAssumption

\* The state at start-up.
LEMMA InitHolds == Init => IInv
BY DEF Init, QueueInit, DispatcherInit, IInv, TypeOK, QueueTypeOK, DispatcherTypeOK,
       HandsMatch, ReturnedAreDrained, OneHolder, OnePlace, Ledger, AttemptsBounded,
       EndsForCause, ReportsMatch, NewAreUntried, InHand, HeldBy, Active, Idle, Drained,
       Statuses, LoopPCs, SlotPCs, OpPCs, Outcomes

-----------------------------------------------------------------------------
\* OnePlace is about the queue alone.
LEMMA QueueUntouched ==
    ASSUME OnePlace, UNCHANGED <<pending, processing, status>>
    PROVE  OnePlace'
BY DEF OnePlace

\* A job that is not waiting is appended: Submit and Retry.
LEMMA AppendKeepsOnePlace ==
    ASSUME TypeOK, OnePlace, NEW j \in Jobs,
           \A i \in 1 .. Len(pending) : pending[i] # j,
           pending' = Append(pending, j),
           status' = [status EXCEPT ![j] = "pending"],
           processing' = processing \ {j}
    PROVE  OnePlace'
<1> USE DEF TypeOK, QueueTypeOK
<1>1. /\ Len(pending) \in Nat
      /\ Len(pending') = Len(pending) + 1
      /\ \A i \in 1 .. Len(pending) : pending'[i] = pending[i]
      /\ pending'[Len(pending) + 1] = j
  BY AppendPlaces
<1>2. \A m, n \in 1 .. Len(pending') : pending'[m] = pending'[n] => m = n
  BY <1>1 DEF OnePlace
<1>3. \A k \in Jobs : status'[k] = "pending" <=> \E n \in 1 .. Len(pending') : pending'[n] = k
  <2> TAKE k \in Jobs
  <2>1. CASE k = j
    <3>1. Len(pending) + 1 \in 1 .. Len(pending')
      BY <1>1
    <3> QED BY <1>1, <2>1, <3>1
  <2>2. CASE k # j
    <3>1. status'[k] = status[k]
      BY <2>2
    <3>2. status[k] = "pending" <=> \E n \in 1 .. Len(pending) : pending[n] = k
      BY DEF OnePlace
    <3>3. (\E n \in 1 .. Len(pending') : pending'[n] = k) <=> (\E n \in 1 .. Len(pending) : pending[n] = k)
      BY <1>1, <2>2
    <3> QED BY <3>1, <3>2, <3>3
  <2> QED BY <2>1, <2>2
<1>4. \A k \in Jobs : status'[k] = "processing" <=> k \in processing'
  BY DEF OnePlace
<1> QED BY <1>2, <1>3, <1>4 DEF OnePlace

\* Submit appends a job that was nowhere before.
LEMMA SubmitKeeps ==
    ASSUME IInv, NEW j \in Jobs, Submit(j)
    PROVE  IInv'
<1> USE DEF IInv, Submit, Enqueue, dispatcherVars, TypeOK, QueueTypeOK, DispatcherTypeOK
<1>1. /\ pending' \in Seq(Jobs)
      /\ Len(pending) \in Nat
      /\ Len(pending') = Len(pending) + 1
      /\ \A i \in 1 .. Len(pending) : pending'[i] = pending[i]
      /\ pending'[Len(pending) + 1] = j
  BY AppendPlaces
<1>2. ahead' \in [Jobs -> SUBSET Jobs]
  <2>1. {pending[n] : n \in 1 .. Len(pending)} \in SUBSET Jobs
    OBVIOUS
  <2> QED BY <2>1
<1>3. TypeOK'
  BY <1>1, <1>2 DEF Statuses
<1>4. /\ HandsMatch' /\ ReturnedAreDrained' /\ OneHolder'
  BY DEF HandsMatch, ReturnedAreDrained, OneHolder, InHand, HeldBy, Active, Drained
<1>5. OnePlace'
  <2>1. \A i \in 1 .. Len(pending) : pending[i] # j
    BY DEF OnePlace
  <2>2. processing' = processing \ {j}
    BY DEF OnePlace
  <2> QED BY <2>1, <2>2, AppendKeepsOnePlace
<1>6. Ledger'
  BY DEF Ledger, AttemptsBounded, EndsForCause, ReportsMatch, NewAreUntried
<1> QED BY <1>3, <1>4, <1>5, <1>6

\* Dequeue takes the head, a job that nobody held, into the loop's hand.
LEMMA DequeueKeeps ==
    ASSUME IInv, NEW d \in Daemons, NEW j \in Jobs,
           TakeJob(d, j), Dequeue(j),
           ahead' = [n \in Jobs |-> ahead[n] \ {j}], UNCHANGED verdict
    PROVE  IInv'
<1> USE DEF IInv, TakeJob, Goto, Dequeue, TypeOK, QueueTypeOK, DispatcherTypeOK
<1>1. /\ pending' \in Seq(Jobs)
      /\ Len(pending) \in Nat \ {0}
      /\ Len(pending') = Len(pending) - 1
      /\ j = pending[1]
      /\ \A i \in 1 .. Len(pending) - 1 : pending'[i] = pending[i + 1]
  BY TailPlaces
<1>2. TypeOK'
  BY <1>1 DEF Statuses, LoopPCs
<1>3. status[j] = "pending" /\ j \notin processing
  BY <1>1 DEF OnePlace
<1>4. HandsMatch' /\ ReturnedAreDrained'
  BY DEF HandsMatch, ReturnedAreDrained, InHand, Drained, SlotsOf
<1>5. OneHolder'
  <2>1. ~InHand(d)
    BY DEF HandsMatch
  <2>2. \A e \in Daemons : hand[e] # j
    BY <1>3 DEF OneHolder, InHand
  <2>3. \A s \in Slots : ~HeldBy(s, j)
    BY <1>3 DEF OneHolder, HeldBy
  <2>4. /\ hand'[d] = j /\ j # NoJob
        /\ \A e \in Daemons : e # d => hand'[e] = hand[e]
    OBVIOUS
  <2>5. \A i \in processing' :
           (\E e \in Daemons : hand'[e] = i) \/ (\E s \in Slots : HeldBy(s, i)')
    <3> TAKE i \in processing'
    <3>1. CASE i = j
      BY <2>4, <3>1
    <3>2. CASE i # j
      <4>1. i \in processing /\ i # NoJob
        BY <3>2
      <4>2. (\E e \in Daemons : hand[e] = i) \/ (\E s \in Slots : HeldBy(s, i))
        BY <4>1 DEF OneHolder
      <4>3. \A e \in Daemons : hand[e] = i => hand'[e] = i
        BY <2>1, <2>4, <4>1 DEF InHand
      <4> QED BY <4>2, <4>3 DEF HeldBy, Active
    <3> QED BY <3>1, <3>2
  <2>6. \A e \in Daemons : InHand(e)' => hand'[e] \in processing'
    BY <2>4 DEF OneHolder, InHand
  <2>7. \A s \in Slots : Active(s)' => slot'[s].job \in processing'
    BY DEF OneHolder, Active
  <2>8. \A e, f \in Daemons : InHand(e)' /\ hand'[e] = hand'[f] => e = f
    BY <2>2, <2>4 DEF OneHolder, InHand
  <2>9. \A s, t \in Slots : Active(s)' /\ HeldBy(t, slot[s].job)' => s = t
    BY DEF OneHolder, Active, HeldBy
  <2>10. \A e \in Daemons, s \in Slots : ~HeldBy(s, hand[e])'
    BY <2>3, <2>4 DEF OneHolder, Active, HeldBy
  <2> QED BY <2>5, <2>6, <2>7, <2>8, <2>9, <2>10 DEF OneHolder
<1>6. OnePlace'
  <2>1. \A m, n \in 1 .. Len(pending') : pending'[m] = pending'[n] => m = n
    BY <1>1 DEF OnePlace
  <2>2. \A k \in Jobs : status'[k] = "pending" <=> \E n \in 1 .. Len(pending') : pending'[n] = k
    <3> TAKE k \in Jobs
    <3>1. CASE k = j
      BY <1>1, <3>1 DEF OnePlace
    <3>2. CASE k # j
      <4>1. \A n \in 1 .. Len(pending') : n + 1 \in 1 .. Len(pending) /\ pending'[n] = pending[n + 1]
        BY <1>1
      <4>2. \A n \in 2 .. Len(pending) : n - 1 \in 1 .. Len(pending') /\ pending'[n - 1] = pending[n]
        BY <1>1
      <4>3. (\E n \in 1 .. Len(pending') : pending'[n] = k) <=> (\E n \in 1 .. Len(pending) : pending[n] = k)
        <5>1. ASSUME NEW n \in 1 .. Len(pending), pending[n] = k
              PROVE  \E m \in 1 .. Len(pending') : pending'[m] = k
          <6>1. n \in 2 .. Len(pending)
            BY <1>1, <3>2, <5>1
          <6> QED BY <4>2, <5>1, <6>1
        <5>2. ASSUME NEW n \in 1 .. Len(pending'), pending'[n] = k
              PROVE  \E m \in 1 .. Len(pending) : pending[m] = k
          BY <4>1, <5>2
        <5> QED BY <5>1, <5>2
      <4>4. status'[k] = status[k]
        BY <3>2
      <4>5. status[k] = "pending" <=> \E n \in 1 .. Len(pending) : pending[n] = k
        BY DEF OnePlace
      <4> QED BY <4>3, <4>4, <4>5
    <3> QED BY <3>1, <3>2
  <2>3. \A k \in Jobs : status'[k] = "processing" <=> k \in processing'
    BY DEF OnePlace
  <2> QED BY <2>1, <2>2, <2>3 DEF OnePlace
<1>7. Ledger'
  BY <1>3 DEF Ledger, AttemptsBounded, EndsForCause, ReportsMatch, NewAreUntried, OneHolder,
     Active, OpPCs
<1> QED BY <1>2, <1>4, <1>5, <1>6, <1>7

\* The steps of the loop that move no job: the context is looked at, Run waits
\* and returns, the queue is empty, a handler is found, the daemon is told to stop.
LEMMA QuietStepKeeps ==
    ASSUME IInv, NEW d \in Daemons,
           CheckContext(d) \/ WaitForGoroutines(d) \/ TakeNothing(d) \/ FindHandler(d) \/ Cancel(d),
           UNCHANGED <<queueVars, historyVars>>
    PROVE  IInv'
<1> USE DEF IInv, CheckContext, WaitForGoroutines, TakeNothing, FindHandler, Cancel, Goto,
            queueVars, historyVars
<1>1. TypeOK'
  BY DEF TypeOK, QueueTypeOK, DispatcherTypeOK, LoopPCs
<1>2. HandsMatch' /\ ReturnedAreDrained'
  BY DEF TypeOK, DispatcherTypeOK, HandsMatch, ReturnedAreDrained, InHand, Drained, SlotsOf
<1>3. OneHolder' /\ OnePlace' /\ Ledger'
  BY DEF OneHolder, InHand, HeldBy, Active, OnePlace, Ledger, AttemptsBounded, EndsForCause,
         ReportsMatch, NewAreUntried
<1> QED BY <1>1, <1>2, <1>3

\* MarkFailed for a job nobody handles: the loop lets go of it as it is settled.
LEMMA DropUnknownKeeps ==
    ASSUME IInv, NEW d \in Daemons, DropUnknown(d), MarkFailed(hand[d]), UNCHANGED historyVars
    PROVE  IInv'
<1> DEFINE j == hand[d]
<1> USE DEF IInv, DropUnknown, Goto, historyVars, TypeOK, QueueTypeOK, DispatcherTypeOK
<1>1. InHand(d) /\ j \in Jobs /\ j \in processing /\ j # NoJob
  BY DEF HandsMatch, OneHolder, InHand
<1>2. /\ processing' = processing \ {j}
      /\ status' = [status EXCEPT ![j] = "failed"]
      /\ UNCHANGED <<pending, attempts>>
  BY <1>1 DEF MarkFailed, Settle, NotFound
<1>3. TypeOK'
  BY <1>2 DEF Statuses, LoopPCs
<1>4. HandsMatch' /\ ReturnedAreDrained'
  BY DEF HandsMatch, ReturnedAreDrained, InHand, Drained, SlotsOf
<1>5. OneHolder'
  <2>1. /\ hand'[d] = NoJob
        /\ \A e \in Daemons : e # d => hand'[e] = hand[e]
        /\ UNCHANGED slot
    OBVIOUS
  <2>2. \A i \in processing' : (\E e \in Daemons : hand'[e] = i) \/ (\E s \in Slots : HeldBy(s, i)')
    <3> TAKE i \in processing'
    <3>1. i # j /\ ((\E e \in Daemons : hand[e] = i) \/ (\E s \in Slots : HeldBy(s, i)))
      BY <1>2 DEF OneHolder
    <3> QED BY <2>1, <3>1 DEF HeldBy, Active
  <2>3. \A e \in Daemons : InHand(e)' => hand'[e] \in processing'
    BY <1>1, <1>2, <2>1 DEF OneHolder, InHand
  <2>4. \A s \in Slots : Active(s)' => slot'[s].job \in processing'
    BY <1>2, <2>1 DEF OneHolder, Active, HeldBy
  <2>5. \A e, f \in Daemons : InHand(e)' /\ hand'[e] = hand'[f] => e = f
    BY <2>1 DEF OneHolder, InHand
  <2>6. \A s, t \in Slots : Active(s)' /\ HeldBy(t, slot[s].job)' => s = t
    BY <2>1 DEF OneHolder, Active, HeldBy
  <2>7. \A e \in Daemons, s \in Slots : ~HeldBy(s, hand[e])'
    BY <2>1, <2>4 DEF OneHolder, Active, HeldBy
  <2> QED BY <2>2, <2>3, <2>4, <2>5, <2>6, <2>7 DEF OneHolder
<1>6. OnePlace'
  <2>1. ~\E n \in 1 .. Len(pending) : pending[n] = j
    BY <1>1 DEF OnePlace
  <2>2. /\ pending' = pending /\ processing' = processing \ {j}
        /\ \A k \in Jobs : status'[k] = IF k = j THEN "failed" ELSE status[k]
    BY <1>1, <1>2
  <2>3. \A k \in Jobs : status'[k] = "pending" <=> \E n \in 1 .. Len(pending') : pending'[n] = k
    BY <2>1, <2>2 DEF OnePlace
  <2>4. \A k \in Jobs : status'[k] = "processing" <=> k \in processing'
    BY <2>2 DEF OnePlace
  <2>5. \A m, n \in 1 .. Len(pending') : pending'[m] = pending'[n] => m = n
    BY <2>2 DEF OnePlace
  <2> HIDE DEF IInv, DropUnknown, TypeOK, QueueTypeOK, DispatcherTypeOK
  <2> QED BY ONLY <2>3, <2>4, <2>5 DEF OnePlace
<1>7. Ledger'
  <2>1. \A s \in Slots : slot[s].pc \in OpPCs => slot[s].job # j
    BY DEF OneHolder, HeldBy, Active
  <2> QED BY <1>1, <1>2, <2>1 DEF Ledger, AttemptsBounded, EndsForCause, ReportsMatch, NewAreUntried
<1> QED BY <1>3, <1>4, <1>5, <1>6, <1>7

\* Spawn hands the loop's job to the goroutine of a free token.
LEMMA SpawnKeeps ==
    ASSUME IInv, NEW d \in Daemons, NEW s \in Slots, Spawn(d, s),
           UNCHANGED <<queueVars, historyVars>>
    PROVE  IInv'
<1> DEFINE j == hand[d]
<1> USE DEF IInv, Spawn, Goto, queueVars, historyVars, TypeOK, QueueTypeOK, DispatcherTypeOK
<1>1. InHand(d) /\ j \in Jobs /\ j \in processing /\ j # NoJob /\ ~Active(s)
  BY DEF HandsMatch, OneHolder, InHand, Active, Idle, OpPCs
<1>2. /\ slot'[s] = [pc |-> "handling", job |-> j]
      /\ \A t \in Slots : t # s => slot'[t] = slot[t]
      /\ hand'[d] = NoJob
      /\ \A e \in Daemons : e # d => hand'[e] = hand[e]
  OBVIOUS
<1>3. TypeOK'
  BY <1>1 DEF LoopPCs, SlotPCs
<1>4. HandsMatch'
  BY DEF HandsMatch, InHand
<1>5. ReturnedAreDrained'
  BY DEF ReturnedAreDrained, Drained, SlotsOf
<1>6. OneHolder'
  <2>1. \A t \in Slots : t # s => slot'[t].job # j \/ ~Active(t)'
    BY <1>2 DEF OneHolder, HeldBy, Active
  <2>2. \A i \in processing' :
           (\E e \in Daemons : hand'[e] = i) \/ (\E t \in Slots : HeldBy(t, i)')
    <3> TAKE i \in processing'
    <3>1. CASE i = j
      BY <1>2, <3>1 DEF HeldBy, Active
    <3>2. CASE \E e \in Daemons : e # d /\ hand[e] = i
      BY <1>2, <3>2
    <3>3. CASE \E t \in Slots : t # s /\ HeldBy(t, i)
      BY <1>2, <3>3 DEF HeldBy, Active
    <3>4. (\E e \in Daemons : hand[e] = i) \/ (\E t \in Slots : HeldBy(t, i))
      BY DEF OneHolder
    <3> QED BY <1>1, <3>1, <3>2, <3>3, <3>4 DEF HeldBy
  <2>3. \A e \in Daemons : InHand(e)' => hand'[e] \in processing'
    BY <1>2 DEF OneHolder, InHand
  <2>4. \A t \in Slots : Active(t)' => slot'[t].job \in processing'
    BY <1>1, <1>2 DEF OneHolder, Active
  <2>5. \A e, f \in Daemons : InHand(e)' /\ hand'[e] = hand'[f] => e = f
    BY <1>1, <1>2 DEF OneHolder, InHand
  <2>6. \A t, u \in Slots : Active(t)' /\ HeldBy(u, slot[t].job)' => t = u
    BY <1>1, <1>2, <2>1 DEF OneHolder, Active, HeldBy
  <2>7. \A e \in Daemons, t \in Slots : ~HeldBy(t, hand[e])'
    <3> TAKE e \in Daemons, t \in Slots
    <3>1. CASE e = d
      BY <1>1, <1>2, <2>4, <3>1 DEF HeldBy
    <3>2. CASE e # d /\ t = s
      BY <1>1, <1>2, <3>2 DEF OneHolder, InHand, HeldBy
    <3>3. CASE e # d /\ t # s
      BY <1>2, <3>3 DEF OneHolder, HeldBy, Active
    <3> QED BY <3>1, <3>2, <3>3
  <2> QED BY <2>2, <2>3, <2>4, <2>5, <2>6, <2>7 DEF OneHolder
<1>7. OnePlace'
  BY QueueUntouched
<1>8. Ledger'
  BY <1>2 DEF Ledger, AttemptsBounded, EndsForCause, ReportsMatch, NewAreUntried
<1> QED BY <1>3, <1>4, <1>5, <1>6, <1>7, <1>8

-----------------------------------------------------------------------------
\* Who holds what is a matter of the hands and the active goroutines only.
LEMMA SameHolders ==
    ASSUME OneHolder, UNCHANGED <<hand, processing>>,
           \A t \in Slots : /\ Active(t)' <=> Active(t)
                            /\ Active(t) => slot'[t].job = slot[t].job
    PROVE  OneHolder'
<1>1. \A t \in Slots : \A i : HeldBy(t, i)' <=> HeldBy(t, i)
  BY DEF HeldBy, Active
<1>2. \A i \in processing' : (\E d \in Daemons : hand'[d] = i) \/ (\E t \in Slots : HeldBy(t, i)')
  BY <1>1 DEF OneHolder
<1>3. \A s, t \in Slots : Active(s)' /\ HeldBy(t, slot[s].job)' => s = t
  BY DEF OneHolder, HeldBy, Active
<1>4. \A d \in Daemons, t \in Slots : ~HeldBy(t, hand[d])'
  BY DEF OneHolder, HeldBy, Active
<1>5. \A t \in Slots : Active(t)' => slot'[t].job \in processing'
  BY DEF OneHolder, Active
<1> QED BY <1>2, <1>3, <1>4, <1>5 DEF OneHolder, InHand

\* The handler returns; what the goroutine will report agrees with it.
LEMMA HandleKeeps ==
    ASSUME IInv, NEW s \in Slots, Handle(s)
    PROVE  IInv'
<1> DEFINE j == slot[s].job
<1> USE DEF IInv, TypeOK, QueueTypeOK, DispatcherTypeOK
<1>1. PICK outcome \in Outcomes :
        /\ HandlerReturns(s, outcome, attempts[j])
        /\ verdict' = [verdict EXCEPT ![j] = outcome]
        /\ UNCHANGED <<queueVars, ahead>>
  BY DEF Handle
<1> DEFINE op == OpAfter(j, outcome, attempts[j])
<1>2. op \in OpPCs
  BY DEF OpAfter, OpPCs
<1>3. /\ slot[s].pc = "handling"
      /\ slot' = [slot EXCEPT ![s].pc = op]
      /\ UNCHANGED <<loop, hand, cancelled, pending, processing, status, attempts, ahead>>
  BY <1>1 DEF HandlerReturns, queueVars
<1> HIDE DEF op
<1>4. /\ slot'[s].pc = op /\ slot'[s].job = j
      /\ \A t \in Slots : t # s => slot'[t] = slot[t]
      /\ Active(s) /\ j \in Jobs /\ j \in processing
  BY <1>3 DEF Active, OneHolder
<1>5. TypeOK'
  <2>1. slot' \in [Slots -> [pc : SlotPCs, job : Jobs \cup {NoJob}]]
    <3>1. op \in SlotPCs
      BY <1>2 DEF SlotPCs
    <3>2. slot' = [slot EXCEPT ![s].pc = op]
      BY <1>3
    <3> QED BY <3>1, <3>2, SlotAdvances
  <2>2. verdict' \in [Jobs -> Outcomes \cup {"none"}]
    BY <1>1
  <2> QED BY <1>3, <2>1, <2>2
<1>6. HandsMatch' /\ ReturnedAreDrained'
  <2>1. slot[s] # Idle
    BY <1>3 DEF Idle
  <2> QED BY <1>3, <1>4, <2>1 DEF HandsMatch, ReturnedAreDrained, InHand, Drained, SlotsOf
<1>7. \A t \in Slots : (Active(t)' <=> Active(t)) /\ slot'[t].job = slot[t].job
  BY <1>2, <1>4 DEF Active
<1>8. OneHolder'
  BY <1>3, <1>7, SameHolders
<1>9. OnePlace'
  BY <1>3, QueueUntouched
<1>10. Ledger'
  <2>1. \A t \in Slots : t # s /\ slot'[t].pc \in OpPCs => slot[t].job # j
    BY <1>4 DEF OneHolder, HeldBy, Active
  <2>2. ReportsMatch'
    <3> SUFFICES ASSUME NEW t \in Slots
                 PROVE  /\ slot'[t].pc = "acknowledge" => verdict'[slot'[t].job] = "ok"
                        /\ slot'[t].pc = "retry" =>
                              /\ verdict'[slot'[t].job] = "transient"
                              /\ attempts'[slot'[t].job] < MaxAttempts[slot'[t].job]
                        /\ slot'[t].pc = "markFailed" =>
                              \/ verdict'[slot'[t].job] = "permanent"
                              \/ /\ verdict'[slot'[t].job] = "transient"
                                 /\ attempts'[slot'[t].job] >= MaxAttempts[slot'[t].job]
      BY DEF ReportsMatch
    <3>1. CASE t = s
      BY <1>1, <1>3, <1>4, <3>1 DEF op, OpAfter, CanRetry, Outcomes
    <3>2. CASE t # s
      BY <1>1, <1>3, <1>4, <2>1, <3>2 DEF Ledger, ReportsMatch, OpPCs
    <3> QED BY <3>1, <3>2
  <2>3. EndsForCause'
    BY <1>1, <1>3, <1>4 DEF Ledger, EndsForCause, OnePlace
  <2> QED BY <1>3, <2>2, <2>3 DEF Ledger, AttemptsBounded, NewAreUntried
<1> QED BY <1>5, <1>6, <1>8, <1>9, <1>10

\* A goroutine that has reported holds its job no more, and nobody else did.
LEMMA LettingGoKeepsHolders ==
    ASSUME TypeOK, OneHolder, NEW s \in Slots, Active(s),
           slot' = [slot EXCEPT ![s].pc = "releasing"],
           hand' = hand,
           processing' = processing \ {slot[s].job}
    PROVE  OneHolder'
<1> DEFINE j == slot[s].job
<1> USE DEF TypeOK, QueueTypeOK, DispatcherTypeOK
<1>1. /\ ~Active(s)'
      /\ \A t \in Slots : t # s => slot'[t] = slot[t]
      /\ \A t \in Slots : Active(t)' => t # s /\ Active(t) /\ slot'[t] = slot[t]
  BY DEF Active, OpPCs
<1>2. \A t \in Slots : t # s => ~HeldBy(t, j)
  BY DEF OneHolder
<1>3. \A d \in Daemons : hand[d] # j
  BY DEF OneHolder, HeldBy
<1>4. \A i \in processing' : (\E d \in Daemons : hand'[d] = i) \/ (\E t \in Slots : HeldBy(t, i)')
  <2> TAKE i \in processing'
  <2>1. i # j /\ ((\E d \in Daemons : hand[d] = i) \/ (\E t \in Slots : HeldBy(t, i)))
    BY DEF OneHolder
  <2>2. \A t \in Slots : HeldBy(t, i) => HeldBy(t, i)'
    BY <1>1, <2>1 DEF HeldBy, Active
  <2> QED BY <2>1, <2>2
<1>5. \A d \in Daemons : InHand(d)' => hand'[d] \in processing'
  BY <1>3 DEF OneHolder, InHand
<1>6. \A t \in Slots : Active(t)' => slot'[t].job \in processing'
  BY <1>1, <1>2 DEF OneHolder, HeldBy
<1>7. \A d, e \in Daemons : InHand(d)' /\ hand'[d] = hand'[e] => d = e
  BY DEF OneHolder, InHand
<1>8. \A t, u \in Slots : Active(t)' /\ HeldBy(u, slot[t].job)' => t = u
  BY <1>1 DEF OneHolder, HeldBy
<1>9. \A d \in Daemons, t \in Slots : ~HeldBy(t, hand[d])'
  BY <1>1 DEF OneHolder, HeldBy
<1> QED BY <1>4, <1>5, <1>6, <1>7, <1>8, <1>9 DEF OneHolder

\* Acknowledge and MarkFailed settle the job with the verdict of its handler.
LEMMA SettleKeeps ==
    ASSUME IInv, NEW s \in Slots, NEW op \in {"acknowledge", "markFailed"}, CallReturns(s, op),
           IF op = "acknowledge" THEN Acknowledge(slot[s].job) ELSE MarkFailed(slot[s].job),
           UNCHANGED historyVars
    PROVE  IInv'
<1> DEFINE j == slot[s].job
           end == IF op = "acknowledge" THEN "completed" ELSE "failed"
<1> USE DEF IInv, TypeOK, QueueTypeOK, DispatcherTypeOK
<1>1. /\ slot[s].pc = op /\ Active(s)
      /\ slot' = [slot EXCEPT ![s].pc = "releasing"]
      /\ UNCHANGED <<loop, hand, cancelled, ahead, verdict>>
  BY DEF CallReturns, Active, OpPCs, historyVars
<1>2. j \in Jobs /\ j \in processing
  BY <1>1 DEF OneHolder
<1>3. /\ processing' = processing \ {j}
      /\ status' = [status EXCEPT ![j] = end]
      /\ UNCHANGED <<pending, attempts>>
  BY <1>2 DEF Acknowledge, MarkFailed, Settle, NotFound
<1>4. TypeOK'
  BY <1>1, <1>3 DEF Statuses, SlotPCs
<1>5. HandsMatch' /\ ReturnedAreDrained'
  BY <1>1 DEF HandsMatch, ReturnedAreDrained, InHand, Drained, SlotsOf, Idle, OpPCs
<1>6. OneHolder'
  BY <1>1, <1>3, LettingGoKeepsHolders
<1>7. OnePlace'
  <2>1. ~\E n \in 1 .. Len(pending) : pending[n] = j
    BY <1>2 DEF OnePlace
  <2> QED BY <1>2, <1>3, <2>1 DEF OnePlace
<1>8. Ledger'
  <2>1. /\ op = "acknowledge" => verdict[j] = "ok"
        /\ op = "markFailed" => verdict[j] = "permanent" \/ (verdict[j] = "transient" /\ attempts[j] >= MaxAttempts[j])
    BY <1>1 DEF Ledger, ReportsMatch
  <2>2. EndsForCause'
    BY <1>1, <1>2, <1>3, <2>1 DEF Ledger, EndsForCause
  <2>3. ReportsMatch'
    BY <1>1, <1>3 DEF Ledger, ReportsMatch
  <2> QED BY <1>1, <1>3, <2>2, <2>3 DEF Ledger, AttemptsBounded, NewAreUntried
<1> QED BY <1>4, <1>5, <1>6, <1>7, <1>8

\* Retry puts the job behind the others, with attempts left.
LEMMA RetryKeeps ==
    ASSUME IInv, NEW s \in Slots, CallReturns(s, "retry"), Retry(slot[s].job), UNCHANGED historyVars
    PROVE  IInv'
<1> DEFINE j == slot[s].job
<1> USE DEF IInv, TypeOK, QueueTypeOK, DispatcherTypeOK
<1>1. /\ slot[s].pc = "retry" /\ Active(s)
      /\ slot' = [slot EXCEPT ![s].pc = "releasing"]
      /\ UNCHANGED <<loop, hand, cancelled, ahead, verdict>>
  BY DEF CallReturns, Active, OpPCs, historyVars
<1>2. j \in Jobs /\ j \in processing
  BY <1>1 DEF OneHolder
<1>3. /\ processing' = processing \ {j}
      /\ status' = [status EXCEPT ![j] = "pending"]
      /\ pending' = Append(pending, j)
      /\ UNCHANGED attempts
  BY <1>2 DEF Retry, Settle, NotFound
<1>4. /\ pending' \in Seq(Jobs)
      /\ Len(pending) \in Nat
      /\ Len(pending') = Len(pending) + 1
      /\ \A i \in 1 .. Len(pending) : pending'[i] = pending[i]
      /\ pending'[Len(pending) + 1] = j
  BY <1>2, <1>3, AppendPlaces
<1>5. TypeOK'
  <2>1. slot' \in [Slots -> [pc : SlotPCs, job : Jobs \cup {NoJob}]]
    <3>1. "releasing" \in SlotPCs
      BY DEF SlotPCs
    <3> QED BY <1>1, <3>1, SlotAdvances
  <2>2. status' \in [Jobs -> Statuses \cup {"new"}]
    BY <1>3 DEF Statuses
  <2> QED BY <1>1, <1>3, <1>4, <2>1, <2>2
<1>6. HandsMatch' /\ ReturnedAreDrained'
  BY <1>1 DEF HandsMatch, ReturnedAreDrained, InHand, Drained, SlotsOf, Idle, OpPCs
<1>7. OneHolder'
  BY <1>1, <1>3, LettingGoKeepsHolders
<1>8. OnePlace'
  <2>1. \A i \in 1 .. Len(pending) : pending[i] # j
    BY <1>2 DEF OnePlace
  <2>2. OnePlace /\ j \in Jobs
    BY <1>2
  <2> QED BY <1>3, <1>4, <2>1, <2>2, AppendKeepsOnePlace
<1>9. Ledger'
  <2>1. verdict[j] = "transient" /\ attempts[j] < MaxAttempts[j]
    BY <1>1 DEF Ledger, ReportsMatch
  <2>2. EndsForCause'
    BY <1>1, <1>2, <1>3, <2>1 DEF Ledger, EndsForCause
  <2>3. ReportsMatch'
    BY <1>1, <1>3 DEF Ledger, ReportsMatch
  <2> QED BY <1>1, <1>3, <2>2, <2>3 DEF Ledger, AttemptsBounded, NewAreUntried
<1> QED BY <1>5, <1>6, <1>7, <1>8, <1>9

\* A goroutine that has reported gives its token back.
LEMMA LeaveKeeps ==
    ASSUME IInv, NEW s \in Slots, Leave(s)
    PROVE  IInv'
<1> USE DEF IInv, TypeOK, QueueTypeOK, DispatcherTypeOK
<1>1. /\ ~Active(s) /\ ~Active(s)'
      /\ slot' = [slot EXCEPT ![s] = Idle]
      /\ \A t \in Slots : t # s => slot'[t] = slot[t]
      /\ UNCHANGED <<loop, hand, cancelled, pending, processing, status, attempts, historyVars>>
  BY DEF Leave, Release, Active, Idle, OpPCs, queueVars
<1>2. TypeOK'
  BY <1>1 DEF SlotPCs, Idle, historyVars
<1>3. HandsMatch' /\ ReturnedAreDrained'
  BY <1>1 DEF HandsMatch, ReturnedAreDrained, InHand, Drained, SlotsOf
<1>4. OneHolder'
  <2>1. \A t \in Slots : /\ Active(t)' <=> Active(t)
                         /\ Active(t) => slot'[t] = slot[t]
    BY <1>1 DEF Active
  <2> QED BY <1>1, <2>1, SameHolders
<1>5. OnePlace'
  BY <1>1, QueueUntouched
<1>6. Ledger'
  BY <1>1 DEF Ledger, AttemptsBounded, EndsForCause, ReportsMatch, NewAreUntried, Idle, historyVars
<1> QED BY <1>2, <1>3, <1>4, <1>5, <1>6

-----------------------------------------------------------------------------
\* Every step of the dispatcher and its queue keeps the invariant.
LEMMA StepKeeps == IInv /\ [Next]_vars => IInv'
<1> SUFFICES ASSUME IInv, [Next]_vars PROVE IInv'
  OBVIOUS
<1>1. ASSUME NEW j \in Jobs, Submit(j) PROVE IInv'
  BY <1>1, SubmitKeeps
<1>2. ASSUME NEW d \in Daemons, Shutdown(d) PROVE IInv'
  BY <1>2, QuietStepKeeps DEF Shutdown
<1>3. ASSUME NEW d \in Daemons, LoopTop(d) PROVE IInv'
  BY <1>3, QuietStepKeeps DEF LoopTop
<1>4. ASSUME NEW d \in Daemons, LoopDequeue(d) PROVE IInv'
  <2>1. ASSUME NEW j \in Jobs, TakeJob(d, j), Dequeue(j),
               ahead' = [n \in Jobs |-> ahead[n] \ {j}], UNCHANGED verdict
        PROVE  IInv'
    BY <2>1, DequeueKeeps
  <2>2. CASE TakeNothing(d) /\ DequeueEmpty /\ UNCHANGED historyVars
    BY <2>2, QuietStepKeeps DEF DequeueEmpty
  <2> QED BY <1>4, <2>1, <2>2 DEF LoopDequeue
<1>5. ASSUME NEW d \in Daemons, LoopLookup(d) PROVE IInv'
  BY <1>5, QuietStepKeeps, DropUnknownKeeps DEF LoopLookup
<1>6. ASSUME NEW d \in Daemons, LoopSpawn(d) PROVE IInv'
  BY <1>6, SpawnKeeps DEF LoopSpawn
<1>7. ASSUME NEW s \in Slots, Handle(s) PROVE IInv'
  BY <1>7, HandleKeeps
<1>8. ASSUME NEW s \in Slots, Report(s) PROVE IInv'
  <2>1. UNCHANGED historyVars
    BY <1>8 DEF Report
  <2>2. CASE CallReturns(s, "acknowledge") /\ Acknowledge(slot[s].job)
    BY <2>1, <2>2, SettleKeeps
  <2>3. CASE CallReturns(s, "retry") /\ Retry(slot[s].job)
    BY <2>1, <2>3, RetryKeeps
  <2>4. CASE CallReturns(s, "markFailed") /\ MarkFailed(slot[s].job)
    BY <2>1, <2>4, SettleKeeps
  <2> QED BY <1>8, <2>2, <2>3, <2>4 DEF Report
<1>9. ASSUME NEW s \in Slots, Leave(s) PROVE IInv'
  BY <1>9, LeaveKeeps
<1>10. CASE UNCHANGED vars
  BY <1>10 DEF vars, queueVars, dispatcherVars, historyVars, IInv, TypeOK, QueueTypeOK,
     DispatcherTypeOK, HandsMatch, ReturnedAreDrained, OneHolder, InHand, HeldBy, Active,
     Drained, OnePlace, Ledger, AttemptsBounded, EndsForCause, ReportsMatch, NewAreUntried
<1> QED BY <1>1, <1>2, <1>3, <1>4, <1>5, <1>6, <1>7, <1>8, <1>9, <1>10
        DEF Next, Loop, Goroutine

\* The inductive invariant holds in every reachable state.
THEOREM InvariantHolds == Spec => []IInv
<1>1. Init => IInv
  BY InitHolds
<1>2. IInv /\ [Next]_vars => IInv'
  BY StepKeeps
<1> QED BY <1>1, <1>2, PTL DEF Spec

\* The variables keep their types.
THEOREM TypeCorrect == Spec => []TypeOK
<1>1. IInv => TypeOK
  BY DEF IInv
<1> QED BY <1>1, InvariantHolds, PTL

\* No job is ever in the hands of two goroutines, and no call the dispatcher
\* makes on the queue is refused.
THEOREM JobsHaveOneHolder == Spec => []OneHolder
<1>1. IInv => OneHolder
  BY DEF IInv
<1> QED BY <1>1, InvariantHolds, PTL

\* No job is lost by the queue or queued twice.
THEOREM JobsAreInOnePlace == Spec => []OnePlace
<1>1. IInv => OnePlace
  BY DEF IInv
<1> QED BY <1>1, InvariantHolds, PTL

\* A job is tried at most max_attempts times, or once.
THEOREM AttemptsStayBounded == Spec => []AttemptsBounded
<1>1. IInv => AttemptsBounded
  BY DEF IInv, Ledger
<1> QED BY <1>1, InvariantHolds, PTL

\* A job ends, or is tried again, for the reason its handler gave.
THEOREM JobsEndForCause == Spec => []EndsForCause
<1>1. IInv => EndsForCause
  BY DEF IInv, Ledger
<1> QED BY <1>1, InvariantHolds, PTL

\* When every loop has returned, nothing is left in processing: a job there
\* would be in the hand of a loop, which a returned loop has empty, or held by a
\* goroutine, which a returned loop has waited for.
THEOREM ShutdownIsClean == Spec => []ShutdownLeavesNothingHalfDone
<1>1. IInv => ShutdownLeavesNothingHalfDone
  <2> SUFFICES ASSUME IInv, \A d \in Daemons : loop[d] = "returned", NEW j \in processing
               PROVE  FALSE
    BY DEF ShutdownLeavesNothingHalfDone
  <2>1. j \in Jobs /\ j # NoJob
    BY DEF IInv, TypeOK, QueueTypeOK
  <2>2. \A d \in Daemons : hand[d] # j
    BY <2>1 DEF IInv, HandsMatch, InHand
  <2>3. \A s \in Slots : ~HeldBy(s, j)
    <3> TAKE s \in Slots
    <3>1. slot[s] = Idle
      BY DEF IInv, ReturnedAreDrained, Drained, SlotsOf
    <3> QED BY <3>1 DEF HeldBy, Active, Idle, OpPCs
  <2> QED BY <2>2, <2>3 DEF IInv, OneHolder
<1> QED BY <1>1, InvariantHolds, PTL

-----------------------------------------------------------------------------
(* First tries.  Every dispatch takes the head of the slice, so what is    *)
(* dequeued while a job waits stands before it; that whoever stands before *)
(* a newcomer was there when it came is the invariant.                     *)

UntriedWait == \A j \in Jobs : attempts[j] = 0 => status[j] \in {"new", "pending"}

BehindTheAhead ==
    \A p, q \in 1 .. Len(pending) :
        p < q /\ attempts[pending[q]] = 0 => pending[p] \in ahead[pending[q]]

Arrivals == UntriedWait /\ BehindTheAhead

\* A newcomer stands behind everybody in the slice.
LEMMA SubmitKeepsTurns ==
    ASSUME IInv, Arrivals, NEW j \in Jobs, Submit(j)
    PROVE  Arrivals'
<1>1. /\ Len(pending) \in Nat
      /\ Len(pending') = Len(pending) + 1
      /\ \A i \in 1 .. Len(pending) : pending'[i] = pending[i] /\ pending[i] \in Jobs
      /\ pending'[Len(pending) + 1] = j
  BY AppendPlaces DEF IInv, TypeOK, QueueTypeOK, Submit, Enqueue
<1>2. /\ attempts' = attempts
      /\ status[j] = "new"
      /\ \A k \in Jobs : status'[k] = IF k = j THEN "pending" ELSE status[k]
  BY DEF IInv, TypeOK, QueueTypeOK, Submit, Enqueue
<1>3. /\ ahead'[j] = {pending[i] : i \in 1 .. Len(pending)}
      /\ \A k \in Jobs \ {j} : ahead'[k] = ahead[k]
  BY DEF IInv, TypeOK, Submit
<1>4. \A i \in 1 .. Len(pending) : pending[i] # j
  BY <1>2 DEF IInv, OnePlace
<1>5. UntriedWait'
  BY <1>2 DEF Arrivals, UntriedWait
<1>6. BehindTheAhead'
  <2> SUFFICES ASSUME NEW p \in 1 .. Len(pending'), NEW q \in 1 .. Len(pending'),
                      p < q, attempts[pending'[q]] = 0
               PROVE  pending'[p] \in ahead'[pending'[q]]
    BY <1>2 DEF BehindTheAhead
  <2>1. p \in 1 .. Len(pending) /\ pending'[p] = pending[p]
    BY <1>1
  <2>2. CASE q \in 1 .. Len(pending)
    <3>1. pending'[q] = pending[q] /\ pending[q] \in Jobs \ {j}
      BY <1>1, <1>4, <2>2
    <3>2. pending[p] \in ahead[pending[q]]
      BY <2>1, <2>2, <3>1 DEF Arrivals, BehindTheAhead
    <3> QED BY <1>3, <2>1, <3>1, <3>2
  <2>3. CASE q = Len(pending) + 1
    BY <1>1, <1>3, <2>1, <2>3
  <2>4. q \in 1 .. Len(pending) \/ q = Len(pending) + 1
    BY <1>1
  <2> QED BY <2>2, <2>3, <2>4
<1> QED BY <1>5, <1>6 DEF Arrivals

\* The head leaves: no other job in the slice is the same, and none is moved past another.
LEMMA DequeueKeepsTurns ==
    ASSUME IInv, Arrivals, NEW j \in Jobs, Dequeue(j),
           ahead' = [n \in Jobs |-> ahead[n] \ {j}]
    PROVE  Arrivals'
<1>1. /\ Len(pending) \in Nat \ {0}
      /\ Len(pending') = Len(pending) - 1
      /\ j = pending[1]
      /\ \A i \in 1 .. Len(pending) - 1 : pending'[i] = pending[i + 1]
      /\ \A i \in 1 .. Len(pending) : pending[i] \in Jobs
  BY TailPlaces DEF IInv, TypeOK, QueueTypeOK, Dequeue
<1>2. /\ \A k \in Jobs : attempts[k] \in Nat
      /\ attempts'[j] > 0
      /\ \A k \in Jobs : k # j => attempts'[k] = attempts[k] /\ status'[k] = status[k]
  BY DEF IInv, TypeOK, QueueTypeOK, Dequeue
<1>3. UntriedWait'
  BY <1>2 DEF Arrivals, UntriedWait
<1>4. BehindTheAhead'
  <2> SUFFICES ASSUME NEW p \in 1 .. Len(pending'), NEW q \in 1 .. Len(pending'),
                      p < q, attempts'[pending'[q]] = 0
               PROVE  pending'[p] \in ahead'[pending'[q]]
    BY DEF BehindTheAhead
  <2>1. /\ p + 1 \in 1 .. Len(pending) /\ pending'[p] = pending[p + 1]
        /\ q + 1 \in 1 .. Len(pending) /\ pending'[q] = pending[q + 1]
        /\ p + 1 < q + 1 /\ 1 \in 1 .. Len(pending) /\ p + 1 # 1
    BY <1>1
  <2>2. pending[p + 1] # j /\ pending[q + 1] \in Jobs /\ pending[p + 1] \in Jobs
    BY <1>1, <2>1 DEF IInv, OnePlace
  <2>3. attempts[pending[q + 1]] = 0
    <3>1. attempts'[pending[q + 1]] = 0
      BY <2>1
    <3>2. \A k \in Jobs : attempts'[k] = 0 => attempts[k] = 0
      BY <1>2
    <3> QED BY <2>2, <3>1, <3>2
  <2>4. pending[p + 1] \in ahead[pending[q + 1]]
    BY <2>1, <2>3 DEF Arrivals, BehindTheAhead
  <2> QED BY <2>1, <2>2, <2>4
<1> QED BY <1>3, <1>4 DEF Arrivals

\* A job that is put back or settled was being processed: it has been tried, and
\* it is put behind everybody else.
LEMMA SettlingKeepsTurns ==
    ASSUME IInv, Arrivals, NEW j, Acknowledge(j) \/ Retry(j) \/ MarkFailed(j),
           UNCHANGED historyVars
    PROVE  Arrivals'
<1>1. CASE UNCHANGED queueVars
  BY <1>1 DEF queueVars, historyVars, Arrivals, UntriedWait, BehindTheAhead
<1>2. CASE j \in processing /\ ~UNCHANGED queueVars
  <2>1. j \in Jobs /\ attempts[j] # 0 /\ UNCHANGED <<attempts, ahead>>
    <3>1. j \in Jobs /\ status[j] = "processing"
      BY <1>2 DEF IInv, TypeOK, QueueTypeOK, OnePlace
    <3>2. attempts[j] # 0
      BY <3>1 DEF Arrivals, UntriedWait
    <3> QED BY <1>2, <3>1, <3>2 DEF Acknowledge, Retry, MarkFailed, NotFound, historyVars
  <2>2. \A k \in Jobs : k # j => status'[k] = status[k]
    BY <1>2 DEF IInv, TypeOK, QueueTypeOK, Acknowledge, Retry, MarkFailed, Settle, NotFound
  <2>3. UntriedWait'
    BY <2>1, <2>2 DEF Arrivals, UntriedWait
  <2>4. BehindTheAhead'
    <3>1. CASE UNCHANGED pending
      BY <2>1, <3>1 DEF Arrivals, BehindTheAhead
    <3>2. CASE pending' = Append(pending, j)
      <4>1. /\ Len(pending) \in Nat
            /\ Len(pending') = Len(pending) + 1
            /\ \A i \in 1 .. Len(pending) : pending'[i] = pending[i]
            /\ pending'[Len(pending) + 1] = j
        BY <2>1, <3>2, AppendPlaces DEF IInv, TypeOK, QueueTypeOK
      <4> SUFFICES ASSUME NEW p \in 1 .. Len(pending'), NEW q \in 1 .. Len(pending'),
                          p < q, attempts[pending'[q]] = 0
                   PROVE  pending'[p] \in ahead[pending'[q]]
        BY <2>1 DEF BehindTheAhead
      <4>2. q # Len(pending) + 1
        BY <2>1, <4>1
      <4>3. p \in 1 .. Len(pending) /\ q \in 1 .. Len(pending)
        BY <4>1, <4>2
      <4> QED BY <4>1, <4>3 DEF Arrivals, BehindTheAhead
    <3> QED BY <1>2, <3>1, <3>2 DEF Acknowledge, Retry, MarkFailed, NotFound
  <2> QED BY <2>3, <2>4 DEF Arrivals
<1> QED BY <1>1, <1>2 DEF Acknowledge, Retry, MarkFailed, Settle, NotFound, queueVars

\* Every step keeps the turns of the jobs that have not had their first try.
LEMMA StepKeepsTurns == IInv /\ Arrivals /\ [Next]_vars => Arrivals'
<1> SUFFICES ASSUME IInv, Arrivals, [Next]_vars PROVE Arrivals'
  OBVIOUS
<1>1. ASSUME UNCHANGED <<pending, status, attempts, ahead>> PROVE Arrivals'
  BY <1>1 DEF Arrivals, UntriedWait, BehindTheAhead
<1>2. ASSUME NEW j \in Jobs, Submit(j) PROVE Arrivals'
  BY <1>2, SubmitKeepsTurns
<1>3. ASSUME NEW d \in Daemons, Shutdown(d) \/ LoopTop(d) \/ LoopSpawn(d) PROVE Arrivals'
  BY <1>1, <1>3 DEF Shutdown, LoopTop, LoopSpawn, queueVars, historyVars
<1>4. ASSUME NEW d \in Daemons, LoopDequeue(d) PROVE Arrivals'
  BY <1>1, <1>4, DequeueKeepsTurns DEF LoopDequeue, DequeueEmpty, queueVars, historyVars
<1>5. ASSUME NEW d \in Daemons, LoopLookup(d) PROVE Arrivals'
  BY <1>1, <1>5, SettlingKeepsTurns DEF LoopLookup, queueVars, historyVars
<1>6. ASSUME NEW s \in Slots, Handle(s) \/ Leave(s) PROVE Arrivals'
  BY <1>1, <1>6 DEF Handle, Leave, queueVars, historyVars
<1>7. ASSUME NEW s \in Slots, Report(s) PROVE Arrivals'
  BY <1>7, SettlingKeepsTurns DEF Report
<1>8. CASE UNCHANGED vars
  BY <1>1, <1>8 DEF vars, queueVars, historyVars
<1> QED BY <1>2, <1>3, <1>4, <1>5, <1>6, <1>7, <1>8 DEF Next, Loop, Goroutine

-----------------------------------------------------------------------------
(* What a step does to the life of each job: for the action property and   *)
(* for the refinement of JobLifecycle.                                     *)

\* The five things a step can do to the status and the attempts of the jobs.
Moves(j, from, to, counted) ==
    /\ status[j] \in from
    /\ status' = [status EXCEPT ![j] = to]
    /\ attempts' = IF counted THEN [attempts EXCEPT ![j] = @ + 1] ELSE attempts

JobStep ==
    \E j \in Jobs :
        \/ Moves(j, {"new"}, "pending", FALSE)
        \/ Moves(j, {"pending"}, "processing", TRUE)
        \/ Moves(j, {"processing"}, "completed", FALSE)
        \/ Moves(j, {"processing"}, "failed", FALSE)
        \/ Moves(j, {"processing"}, "pending", FALSE) /\ attempts[j] < MaxAttempts[j]

\* A step moves one job along, or none.
LEMMA StepMovesOneJob == IInv /\ [Next]_vars => JobStep \/ UNCHANGED <<status, attempts>>
<1> SUFFICES ASSUME IInv, [Next]_vars PROVE JobStep \/ UNCHANGED <<status, attempts>>
  OBVIOUS
<1> USE DEF IInv, TypeOK, QueueTypeOK, queueVars
<1>1. ASSUME NEW j \in Jobs, Submit(j) PROVE JobStep
  BY <1>1 DEF Submit, Enqueue, JobStep, Moves
<1>2. ASSUME NEW d \in Daemons, Shutdown(d) \/ LoopTop(d) \/ LoopSpawn(d)
      PROVE  UNCHANGED <<status, attempts>>
  BY <1>2 DEF Shutdown, LoopTop, LoopSpawn
<1>3. ASSUME NEW d \in Daemons, LoopDequeue(d)
      PROVE  JobStep \/ UNCHANGED <<status, attempts>>
  <2>1. ASSUME NEW j \in Jobs, Dequeue(j) PROVE JobStep
    <3>1. Head(pending) = pending[1] /\ Len(pending) \in Nat \ {0}
      BY <2>1, TailPlaces DEF Dequeue
    <3>2. status[j] = "pending"
      BY <2>1, <3>1 DEF Dequeue, OnePlace
    <3> QED BY <2>1, <3>2 DEF Dequeue, JobStep, Moves
  <2> QED BY <1>3, <2>1 DEF LoopDequeue, DequeueEmpty
<1>4. ASSUME NEW d \in Daemons, LoopLookup(d)
      PROVE  JobStep \/ UNCHANGED <<status, attempts>>
  BY <1>4 DEF LoopLookup, MarkFailed, Settle, NotFound, OnePlace, JobStep, Moves
<1>5. ASSUME NEW s \in Slots, Handle(s) \/ Leave(s)
      PROVE  UNCHANGED <<status, attempts>>
  BY <1>5 DEF Handle, Leave
<1>6. ASSUME NEW s \in Slots, Report(s)
      PROVE  JobStep \/ UNCHANGED <<status, attempts>>
  <2> DEFINE j == slot[s].job
  <2>1. CASE j \notin processing
    BY <1>6, <2>1 DEF Report, Acknowledge, Retry, MarkFailed, Settle, NotFound
  <2>2. CASE j \in processing
    <3>1. j \in Jobs /\ status[j] = "processing"
      BY <2>2 DEF OnePlace
    <3>2. slot[s].pc = "retry" => attempts[j] < MaxAttempts[j]
      BY DEF Ledger, ReportsMatch
    <3> QED BY <1>6, <2>2, <3>1, <3>2 DEF Report, CallReturns, Acknowledge, Retry, MarkFailed,
            Settle, NotFound, JobStep, Moves
  <2> QED BY <2>1, <2>2
<1>7. CASE UNCHANGED vars
  BY <1>7 DEF vars
<1> QED BY <1>1, <1>2, <1>3, <1>4, <1>5, <1>6, <1>7 DEF Next, Loop, Goroutine

\* A completed or failed job keeps its status and its attempts for ever.
THEOREM SettledStaysSettled == Spec => SettledIsFinal
<1>1. IInv /\ [Next]_vars =>
        [\A j \in Jobs : Terminal(j) => status'[j] = status[j] /\ attempts'[j] = attempts[j]]_vars
  <2> SUFFICES ASSUME IInv, [Next]_vars, NEW j \in Jobs, Terminal(j)
               PROVE  status'[j] = status[j] /\ attempts'[j] = attempts[j]
    OBVIOUS
  <2>1. CASE UNCHANGED <<status, attempts>>
    BY <2>1
  <2>2. CASE JobStep
    <3>1. PICK i \in Jobs : \E from \in SUBSET {"new", "pending", "processing"} : \E to, counted :
                               Moves(i, from, to, counted)
      BY <2>2 DEF JobStep
    <3>2. i # j
      BY <3>1 DEF Moves, Terminal
    <3> QED BY <3>1, <3>2 DEF Moves, IInv, TypeOK, QueueTypeOK
  <2> QED BY <2>1, <2>2, StepMovesOneJob
<1> QED BY <1>1, InvariantHolds, PTL DEF Spec, SettledIsFinal

\* While a job waits for its first try only jobs that waited before it came are
\* dequeued, each once: no retry overtakes a newcomer.
THEOREM NewcomersKeepTheirTurn == Spec => NewcomersAreNotOvertaken
<1> DEFINE InTurn ==
             \A n, j \in Jobs :
                 status[n] = "pending" /\ attempts[n] = 0 /\ attempts'[j] > attempts[j] =>
                    j = n \/ j \in ahead[n]
<1>1. Init => Arrivals
  BY DEF Init, QueueInit, Arrivals, UntriedWait, BehindTheAhead
<1>2. IInv /\ Arrivals /\ [Next]_vars => Arrivals'
  BY StepKeepsTurns
<1>3. IInv /\ Arrivals /\ [Next]_vars => [InTurn]_vars
  <2> SUFFICES ASSUME IInv, Arrivals, [Next]_vars, NEW n \in Jobs, NEW j \in Jobs,
                      status[n] = "pending", attempts[n] = 0, attempts'[j] > attempts[j]
               PROVE  j = n \/ j \in ahead[n]
    OBVIOUS
  <2>1. attempts \in [Jobs -> Nat] /\ pending \in Seq(Jobs)
    BY DEF IInv, TypeOK, QueueTypeOK
  <2>2. PICK d \in Daemons : LoopDequeue(d)
    <3>1. ~UNCHANGED attempts
      BY <2>1
    <3> QED BY <3>1 DEF Next, Loop, Goroutine, Submit, Enqueue, Shutdown, LoopTop, LoopSpawn,
            LoopLookup, Handle, Report, Leave, Acknowledge, Retry, MarkFailed, Settle, NotFound,
            queueVars, vars
  <2>3. Dequeue(j)
    BY <2>1, <2>2 DEF LoopDequeue, Dequeue, DequeueEmpty, queueVars
  <2>4. Len(pending) \in Nat \ {0} /\ j = pending[1]
    BY <2>1, <2>3, TailPlaces DEF Dequeue
  <2>5. PICK q \in 1 .. Len(pending) : pending[q] = n
    BY DEF IInv, OnePlace
  <2>6. CASE q = 1
    BY <2>4, <2>5, <2>6
  <2>7. CASE q # 1
    <3>1. 1 \in 1 .. Len(pending) /\ 1 < q
      BY <2>4, <2>5, <2>7
    <3> QED BY <2>4, <2>5, <3>1 DEF Arrivals, BehindTheAhead
  <2> QED BY <2>6, <2>7
<1> QED BY <1>1, <1>2, <1>3, InvariantHolds, PTL DEF Spec, NewcomersAreNotOvertaken

\* MemoryDispatch implements JobLifecycle under the map Phase.
THEOREM MemoryImplementsLifecycle == Spec => ImplementsLifecycle
<1> DEFINE phase == [j \in Jobs |-> Phase(j)]
<1>1. Init => Lifecycle!Init
  BY DEF Init, QueueInit, Lifecycle!Init, Phase
<1>2. IInv /\ [Next]_vars => [Lifecycle!Next]_Lifecycle!vars
  <2> SUFFICES ASSUME IInv, [Next]_vars PROVE [Lifecycle!Next]_Lifecycle!vars
    OBVIOUS
  <2>1. CASE UNCHANGED <<status, attempts>>
    BY <2>1 DEF Lifecycle!vars, Phase
  <2>2. CASE JobStep
    <3>1. PICK j \in Jobs :
            \/ Moves(j, {"new"}, "pending", FALSE)
            \/ Moves(j, {"pending"}, "processing", TRUE)
            \/ Moves(j, {"processing"}, "completed", FALSE)
            \/ Moves(j, {"processing"}, "failed", FALSE)
            \/ Moves(j, {"processing"}, "pending", FALSE) /\ attempts[j] < MaxAttempts[j]
      BY <2>2 DEF JobStep
    <3>2. ASSUME NEW to, status' = [status EXCEPT ![j] = to]
          PROVE  phase' = [phase EXCEPT ![j] = Phase(j)']
      BY <3>2 DEF Phase, IInv, TypeOK, QueueTypeOK
    <3>3. status' = [status EXCEPT ![j] = status'[j]] /\ status'[j] # "new"
      BY <3>1 DEF Moves, IInv, TypeOK, QueueTypeOK
    <3>4. phase' = [phase EXCEPT ![j] = Phase(j)'] /\ phase[j] = Phase(j)
      BY <3>2, <3>3
    <3>5. Lifecycle!Submit(j) \/ Lifecycle!Begin(j) \/ Lifecycle!Succeed(j)
            \/ Lifecycle!Fail(j) \/ Lifecycle!Requeue(j)
      <4> USE DEF Moves, Phase, IInv, TypeOK, QueueTypeOK, Lifecycle!Move
      <4>1. CASE Moves(j, {"new"}, "pending", FALSE)
        BY <3>4, <4>1 DEF Lifecycle!Submit
      <4>2. CASE Moves(j, {"pending"}, "processing", TRUE)
        BY <3>4, <4>2 DEF Lifecycle!Begin
      <4>3. CASE Moves(j, {"processing"}, "completed", FALSE)
        BY <3>4, <4>3 DEF Lifecycle!Succeed
      <4>4. CASE Moves(j, {"processing"}, "failed", FALSE)
        BY <3>4, <4>4 DEF Lifecycle!Fail
      <4>5. CASE Moves(j, {"processing"}, "pending", FALSE) /\ attempts[j] < MaxAttempts[j]
        BY <3>4, <4>5 DEF Lifecycle!Requeue
      <4> QED BY <3>1, <4>1, <4>2, <4>3, <4>4, <4>5
    <3> QED BY <3>5 DEF Lifecycle!Next
  <2> QED BY <2>1, <2>2, StepMovesOneJob
<1> QED BY <1>1, <1>2, InvariantHolds, PTL DEF Spec, ImplementsLifecycle, Lifecycle!Spec
=============================================================================
