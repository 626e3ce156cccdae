--------------------------- MODULE ScraperProofs ---------------------------
(***************************************************************************)
(* Proofs about Scraper, for every set of workloads and every bound.       *)
(***************************************************************************)
EXTENDS Scraper, TLAPS

-----------------------------------------------------------------------------
(* The inductive invariant.  The ledger balances only if what is taken for *)
(* measured is no more than the counter shows, and if there is an update   *)
(* at hand only while it is being reported: a snapshot never runs ahead of *)
(* a container whose present life it is about.                             *)

SnapshotsAreBehind == \A w \in Workloads : seen[w] => prevIO[w] <= total[w]

NothingAtHand == pc # "reporting" => update.delta = 0

IInv == TypeOK /\ TrafficIsAccountedFor /\ SnapshotsAreBehind /\ NothingAtHand

-----------------------------------------------------------------------------
LEMMA ChosenWorkload == NoUpdate.id \in Workloads /\ NoUpdate.delta = 0
BY WorkloadsAssumption DEF NoUpdate

\* Delta is never negative, and is the difference unless the counter ran backwards.
LEMMA DeltaFacts ==
    ASSUME NEW now \in Nat, NEW prev \in Nat
    PROVE  /\ Delta(now, prev) \in Nat
           /\ now >= prev => Delta(now, prev) = now - prev
           /\ now < prev => Delta(now, prev) = now
BY DEF Delta

\* A credit changes one account of one workload.
LEMMA CreditFacts ==
    ASSUME NEW w \in Workloads, NEW account \in Accounts, NEW amount \in Nat,
           ledger \in [Workloads -> [Accounts -> Nat]],
           Credit(w, account, amount)
    PROVE  /\ ledger' \in [Workloads -> [Accounts -> Nat]]
           /\ \A v \in Workloads : v # w => ledger'[v] = ledger[v]
           /\ ledger'[w][account] = ledger[w][account] + amount
           /\ \A a \in Accounts : a # account => ledger'[w][a] = ledger[w][a]
<1>1. ledger[w] \in [Accounts -> Nat]
  OBVIOUS
<1>2. ledger' = [ledger EXCEPT ![w] = [ledger[w] EXCEPT ![account] = ledger[w][account] + amount]]
  BY DEF Credit
<1>3. [ledger[w] EXCEPT ![account] = ledger[w][account] + amount] \in [Accounts -> Nat]
  BY <1>1
<1> QED
  BY <1>1, <1>2, <1>3

Balanced(v) ==
    ledger[v]["billed"] + Pending(v) + ledger[v]["lost"] + ledger[v]["missed"]
        + ledger[v]["masked"] + (total[v] - Covered(v)) = used[v] + ledger[v]["forgotten"]

LEMMA BalancedIsAccounted ==
    /\ TrafficIsAccountedFor <=> \A v \in Workloads : Balanced(v)
    /\ TrafficIsAccountedFor' <=> \A v \in Workloads : Balanced(v)'
BY DEF TrafficIsAccountedFor, Balanced

\* The figures in the balance of a workload.
LEMMA Figures ==
    ASSUME TypeOK, TrafficIsAccountedFor, NEW v \in Workloads
    PROVE  /\ Balanced(v)
           /\ \A a \in Accounts : ledger[v][a] \in Nat
           /\ Pending(v) \in Nat /\ Covered(v) \in Nat /\ total[v] \in Nat /\ used[v] \in Nat
BY BalancedIsAccounted DEF TypeOK, Pending, Covered

LEMMA InitInv == Init => IInv
<1> SUFFICES ASSUME Init PROVE IInv
  OBVIOUS
<1>1. TypeOK
  BY ChosenWorkload, MaxTroublesAssumption DEF Init, TypeOK, NoUpdate, Accounts
<1>2. TrafficIsAccountedFor
  <2> SUFFICES ASSUME NEW w \in Workloads
               PROVE  LET l == ledger[w] IN
                      l.billed + Pending(w) + l.lost + l.missed + l.masked + (total[w] - Covered(w))
                        = used[w] + l.forgotten
    BY DEF TrafficIsAccountedFor
  <2>1. \A a \in Accounts : ledger[w][a] = 0
    BY DEF Init
  <2>2. Pending(w) = 0 /\ Covered(w) = 0 /\ total[w] = 0 /\ used[w] = 0
    BY ChosenWorkload DEF Init, Pending, Covered
  <2> QED
    BY <2>1, <2>2 DEF Accounts
<1>3. SnapshotsAreBehind /\ NothingAtHand
  BY ChosenWorkload DEF Init, SnapshotsAreBehind, NothingAtHand
<1> QED
  BY <1>1, <1>2, <1>3 DEF IInv

-----------------------------------------------------------------------------
(* The world.                                                              *)

LEMMA TransferInv == ASSUME IInv, NEW w \in Workloads, Transfer(w) PROVE IInv'
<1>1. TypeOK'
  BY DEF IInv, TypeOK, Transfer
<1>2. TrafficIsAccountedFor'
  <2> SUFFICES ASSUME NEW v \in Workloads
               PROVE  (LET l == ledger[v] IN
                       l.billed + Pending(v) + l.lost + l.missed + l.masked + (total[v] - Covered(v))
                         = used[v] + l.forgotten)'
    BY DEF TrafficIsAccountedFor
  <2>1. ledger[v] \in [Accounts -> Nat]
    BY DEF IInv, TypeOK
  <2> QED
    BY <2>1 DEF IInv, TypeOK, TrafficIsAccountedFor, Transfer, Covered, Pending, Accounts
<1>3. SnapshotsAreBehind' /\ NothingAtHand'
  BY DEF IInv, TypeOK, SnapshotsAreBehind, NothingAtHand, Transfer
<1> QED
  BY <1>1, <1>2, <1>3 DEF IInv

LEMMA StopsInv == ASSUME IInv, NEW w \in Workloads, ContainerStops(w) PROVE IInv'
<1>0. total[w] - Covered(w) \in Nat
  BY DEF IInv, TypeOK, SnapshotsAreBehind, Covered
<1>1. "missed" \in Accounts /\ Credit(w, "missed", total[w] - Covered(w))
  BY DEF ContainerStops, Accounts
<1>2. /\ ledger' \in [Workloads -> [Accounts -> Nat]]
      /\ \A v \in Workloads : v # w => ledger'[v] = ledger[v]
      /\ ledger'[w]["missed"] = ledger[w]["missed"] + (total[w] - Covered(w))
      /\ \A a \in Accounts : a # "missed" => ledger'[w][a] = ledger[w][a]
  BY <1>0, <1>1, CreditFacts DEF IInv, TypeOK
<1>3. TypeOK'
  <2>1. troubles' \in 0 .. MaxTroubles
    BY MaxTroublesAssumption DEF IInv, TypeOK, ContainerStops, Trouble
  <2>2. seen' \in [Workloads -> BOOLEAN]
    BY DEF IInv, TypeOK, ContainerStops
  <2>3. total' \in [Workloads -> Nat] /\ up' \subseteq Workloads
    BY DEF IInv, TypeOK, ContainerStops
  <2> QED
    BY <1>2, <2>1, <2>2, <2>3 DEF IInv, TypeOK, ContainerStops
<1>4. \A v \in Workloads :
        /\ Pending(v)' = Pending(v) /\ used'[v] = used[v]
        /\ v # w => total'[v] = total[v] /\ Covered(v)' = Covered(v)
  <2>1. prevIO' = prevIO /\ update' = update /\ used' = used
    BY DEF ContainerStops
  <2>2. \A v \in Workloads : v # w => total'[v] = total[v] /\ seen'[v] = seen[v]
    BY DEF IInv, TypeOK, ContainerStops
  <2> QED
    BY <2>1, <2>2 DEF Pending, Covered
<1>5. total'[w] = 0 /\ Covered(w)' = 0
  BY DEF IInv, TypeOK, ContainerStops, Covered
<1>6. ASSUME NEW v \in Workloads PROVE Balanced(v)'
  <2>1. /\ Balanced(v)
        /\ \A a \in Accounts : ledger[v][a] \in Nat
        /\ Pending(v) \in Nat /\ Covered(v) \in Nat /\ total[v] \in Nat /\ used[v] \in Nat
    BY Figures DEF IInv
  <2>2. CASE v = w
    BY <1>2, <1>4, <1>5, <2>1, <2>2 DEF Balanced, Accounts
  <2>3. CASE v # w
    BY <1>2, <1>4, <2>1, <2>3 DEF Balanced
  <2> QED
    BY <2>2, <2>3
<1>7. SnapshotsAreBehind' /\ NothingAtHand'
  BY DEF IInv, TypeOK, SnapshotsAreBehind, NothingAtHand, ContainerStops
<1> QED
  BY <1>3, <1>6, <1>7, BalancedIsAccounted DEF IInv

LEMMA StartsInv == ASSUME IInv, NEW w \in Workloads, ContainerStarts(w) PROVE IInv'
<1>1. TypeOK'
  BY DEF IInv, TypeOK, ContainerStarts
<1>2. \A v \in Workloads : Balanced(v) <=> Balanced(v)'
  BY DEF ContainerStarts, Balanced, Pending, Covered
<1>3. SnapshotsAreBehind' /\ NothingAtHand'
  BY DEF IInv, SnapshotsAreBehind, NothingAtHand, ContainerStarts
<1> QED
  BY <1>1, <1>2, <1>3, BalancedIsAccounted DEF IInv

LEMMA RecordInv == ASSUME IInv, NEW w \in Workloads, RecordChanges(w) PROVE IInv'
<1>1. troubles' \in 0 .. MaxTroubles
  BY MaxTroublesAssumption DEF IInv, TypeOK, RecordChanges, Trouble
<1>2. TypeOK'
  BY <1>1 DEF IInv, TypeOK, RecordChanges
<1>3. \A v \in Workloads : Balanced(v) <=> Balanced(v)'
  BY DEF RecordChanges, Balanced, Pending, Covered
<1>4. SnapshotsAreBehind' /\ NothingAtHand'
  BY DEF IInv, SnapshotsAreBehind, NothingAtHand, RecordChanges
<1> QED
  BY <1>2, <1>3, <1>4, BalancedIsAccounted DEF IInv

-----------------------------------------------------------------------------
(* scrape.                                                                 *)

LEMMA TickInv == ASSUME IInv, Tick PROVE IInv'
<1>1. TypeOK'
  BY DEF IInv, TypeOK, Tick, worldVars
<1>2. \A v \in Workloads : Balanced(v) <=> Balanced(v)'
  BY DEF Tick, worldVars, Balanced, Pending, Covered
<1>3. SnapshotsAreBehind' /\ NothingAtHand'
  BY DEF IInv, SnapshotsAreBehind, NothingAtHand, Tick, worldVars
<1> QED
  BY <1>1, <1>2, <1>3, BalancedIsAccounted DEF IInv

\* A visit that measures nothing changes no figure.
LEMMA NotMeasuredInv ==
    ASSUME IInv, NEW w \in Workloads,
           pc = "visiting", todo' = todo \ {w}, UNCHANGED worldVars,
           Skip(w) \/ NoStatus(w)
    PROVE  IInv'
<1>1. troubles' \in 0 .. MaxTroubles
  BY MaxTroublesAssumption DEF IInv, TypeOK, Skip, NoStatus, Trouble
<1>2. UNCHANGED <<pc, prevIO, update, seen, ledger>> /\ activeIDs' \subseteq Workloads
  BY DEF IInv, TypeOK, Skip, NoStatus
<1>3. TypeOK'
  BY <1>1, <1>2 DEF IInv, TypeOK, worldVars
<1>4. \A v \in Workloads : Balanced(v) <=> Balanced(v)'
  BY <1>2 DEF worldVars, Balanced, Pending, Covered
<1>5. SnapshotsAreBehind' /\ NothingAtHand'
  BY <1>2 DEF IInv, SnapshotsAreBehind, NothingAtHand, worldVars
<1> QED
  BY <1>3, <1>4, <1>5, BalancedIsAccounted DEF IInv

\* A measurement moves what was not measured yet into the update; what the snapshot
\* of an earlier life of the container hides is masked.
LEMMA MeasureInv ==
    ASSUME IInv, NEW w \in Workloads,
           pc = "visiting", todo' = todo \ {w}, UNCHANGED worldVars, UNCHANGED troubles,
           Measure(w, total[w])
    PROVE  IInv'
<1> DEFINE now == total[w]
           prev == prevIO[w]
           hidden == IF ~seen[w] /\ now >= prev THEN prev ELSE 0
<1>1. now \in Nat /\ prev \in Nat /\ seen[w] \in BOOLEAN
  BY DEF IInv, TypeOK
<1>2. hidden \in Nat
  BY <1>1
<1>3. "masked" \in Accounts /\ Credit(w, "masked", hidden)
  BY DEF Measure, Credit, Accounts
<1>4. /\ ledger' \in [Workloads -> [Accounts -> Nat]]
      /\ \A v \in Workloads : v # w => ledger'[v] = ledger[v]
      /\ ledger'[w]["masked"] = ledger[w]["masked"] + hidden
      /\ \A a \in Accounts : a # "masked" => ledger'[w][a] = ledger[w][a]
  <2> HIDE DEF hidden
  <2> QED
    BY <1>2, <1>3, CreditFacts DEF IInv, TypeOK
<1>5. /\ update' = [id |-> w, delta |-> Delta(now, prev)]
      /\ prevIO' = [prevIO EXCEPT ![w] = now]
      /\ pc' = "reporting"
      /\ seen' = [seen EXCEPT ![w] = TRUE]
      /\ activeIDs' = activeIDs \cup {w}
  BY DEF Measure
<1>6. Delta(now, prev) \in Nat
  BY <1>1, DeltaFacts
<1>7. TypeOK'
  <2>1. seen' \in [Workloads -> BOOLEAN]
    BY <1>5 DEF IInv, TypeOK
  <2>2. prevIO' \in [Workloads -> Nat]
    BY <1>1, <1>5 DEF IInv, TypeOK
  <2>3. update' \in [id : Workloads, delta : Nat]
    BY <1>5, <1>6
  <2> QED
    BY <1>4, <1>5, <2>1, <2>2, <2>3 DEF IInv, TypeOK, worldVars
<1>8. \A v \in Workloads : Pending(v) = 0
  BY DEF IInv, NothingAtHand, Pending
<1>9. Pending(w)' = Delta(now, prev) /\ Covered(w)' = now
  BY <1>1, <1>5 DEF Pending, Covered, IInv, TypeOK
<1>10. \A v \in Workloads : v # w => Pending(v)' = 0 /\ Covered(v)' = Covered(v)
  <2>1. \A v \in Workloads : v # w => prevIO'[v] = prevIO[v] /\ seen'[v] = seen[v]
    BY <1>5 DEF IInv, TypeOK
  <2> QED
    BY <1>5, <2>1 DEF Pending, Covered
<1>11. total' = total /\ used' = used
  BY DEF worldVars
<1>12. Covered(w) + hidden + Delta(now, prev) = now
  <2>1. CASE seen[w]
    <3>1. prev <= now
      BY <2>1 DEF IInv, SnapshotsAreBehind
    <3>2. Delta(now, prev) = now - prev /\ hidden = 0 /\ Covered(w) = prev
      BY <1>1, <2>1, <3>1, DeltaFacts DEF Covered
    <3> QED
      BY <1>1, <3>2
  <2>2. CASE ~seen[w]
    BY <1>1, <2>2, DeltaFacts DEF Covered
  <2> QED
    BY <2>1, <2>2
<1>13. ASSUME NEW v \in Workloads PROVE Balanced(v)'
  <2>1. /\ Balanced(v)
        /\ \A a \in Accounts : ledger[v][a] \in Nat
        /\ Pending(v) = 0 /\ Covered(v) \in Nat /\ total[v] \in Nat /\ used[v] \in Nat
    BY <1>8, Figures DEF IInv
  <2>2. CASE v = w
    <3> HIDE DEF hidden
    <3> QED
      BY <1>1, <1>2, <1>4, <1>6, <1>9, <1>11, <1>12, <2>1, <2>2 DEF Balanced, Accounts
  <2>3. CASE v # w
    BY <1>4, <1>10, <1>11, <2>1, <2>3 DEF Balanced
  <2> QED
    BY <2>2, <2>3
<1>14. SnapshotsAreBehind' /\ NothingAtHand'
  BY <1>1, <1>5, <1>11 DEF IInv, TypeOK, SnapshotsAreBehind, NothingAtHand
<1> QED
  BY <1>7, <1>13, <1>14, BalancedIsAccounted DEF IInv

\* Zeros drop the snapshot: what was measured will be measured again.
LEMMA ZerosInv ==
    ASSUME IInv, NEW w \in Workloads,
           pc = "visiting", todo' = todo \ {w}, UNCHANGED worldVars,
           MeasureZeros(w)
    PROVE  IInv'
<1>1. Covered(w) \in Nat /\ prevIO[w] \in Nat
  BY Figures DEF IInv, TypeOK
<1>2. "forgotten" \in Accounts /\ Credit(w, "forgotten", Covered(w))
  BY DEF MeasureZeros, Accounts
<1>3. /\ ledger' \in [Workloads -> [Accounts -> Nat]]
      /\ \A v \in Workloads : v # w => ledger'[v] = ledger[v]
      /\ ledger'[w]["forgotten"] = ledger[w]["forgotten"] + Covered(w)
      /\ \A a \in Accounts : a # "forgotten" => ledger'[w][a] = ledger[w][a]
  BY <1>1, <1>2, CreditFacts DEF IInv, TypeOK
<1>4. Delta(0, prevIO[w]) = 0
  BY <1>1, DeltaFacts
<1>5. /\ update' = [id |-> w, delta |-> 0]
      /\ prevIO' = [prevIO EXCEPT ![w] = 0]
      /\ pc' = "reporting" /\ seen' = seen
      /\ activeIDs' = activeIDs \cup {w}
  BY <1>4 DEF MeasureZeros
<1>6. troubles' \in 0 .. MaxTroubles
  BY MaxTroublesAssumption DEF IInv, TypeOK, MeasureZeros, Trouble
<1>7. TypeOK'
  BY <1>3, <1>5, <1>6 DEF IInv, TypeOK, worldVars
<1>8. \A v \in Workloads : Pending(v) = 0 /\ Pending(v)' = 0
  BY <1>5 DEF IInv, NothingAtHand, Pending
<1>9. Covered(w)' = 0
  BY <1>5 DEF Covered, IInv, TypeOK
<1>10. \A v \in Workloads : v # w => Covered(v)' = Covered(v)
  BY <1>5 DEF Covered, IInv, TypeOK
<1>11. total' = total /\ used' = used
  BY DEF worldVars
<1>12. ASSUME NEW v \in Workloads PROVE Balanced(v)'
  <2>1. /\ Balanced(v)
        /\ \A a \in Accounts : ledger[v][a] \in Nat
        /\ Covered(v) \in Nat /\ total[v] \in Nat /\ used[v] \in Nat
    BY Figures DEF IInv
  <2>2. CASE v = w
    BY <1>3, <1>8, <1>9, <1>11, <2>1, <2>2 DEF Balanced, Accounts
  <2>3. CASE v # w
    BY <1>3, <1>8, <1>10, <1>11, <2>1, <2>3 DEF Balanced
  <2> QED
    BY <2>2, <2>3
<1>13. SnapshotsAreBehind' /\ NothingAtHand'
  BY <1>5, <1>11 DEF IInv, TypeOK, SnapshotsAreBehind, NothingAtHand
<1> QED
  BY <1>7, <1>12, <1>13, BalancedIsAccounted DEF IInv

LEMMA VisitInv == ASSUME IInv, NEW w \in Workloads, Visit(w) PROVE IInv'
BY NotMeasuredInv, MeasureInv, ZerosInv DEF Visit

\* A report moves the update from at hand to the platform, or loses it.
LEMMA ReportInv == ASSUME IInv, Report PROVE IInv'
<1> DEFINE w == update.id
<1>1. w \in Workloads /\ update.delta \in Nat /\ {"billed", "lost"} \subseteq Accounts
  BY DEF IInv, TypeOK, Accounts
<1>2. PICK account \in {"billed", "lost"} : Credit(w, account, update.delta)
  BY DEF Report
<1>3. /\ ledger' \in [Workloads -> [Accounts -> Nat]]
      /\ \A v \in Workloads : v # w => ledger'[v] = ledger[v]
      /\ ledger'[w][account] = ledger[w][account] + update.delta
      /\ \A a \in Accounts : a # account => ledger'[w][a] = ledger[w][a]
  BY <1>1, <1>2, CreditFacts DEF IInv, TypeOK
<1>4. troubles' \in 0 .. MaxTroubles
  BY MaxTroublesAssumption DEF IInv, TypeOK, Report, Trouble
<1>5. /\ update' = NoUpdate /\ NoUpdate \in [id : Workloads, delta : Nat]
      /\ UNCHANGED <<listed, up, total, used, prevIO, todo, activeIDs, seen>>
      /\ pc' = "visiting"
  BY WorkloadsAssumption DEF Report, worldVars, NoUpdate
<1>6. TypeOK'
  BY <1>3, <1>4, <1>5 DEF IInv, TypeOK
<1>7. /\ \A v \in Workloads : Pending(v)' = 0 /\ Covered(v)' = Covered(v)
      /\ \A v \in Workloads : v # w => Pending(v) = 0
      /\ Pending(w) = update.delta
  BY <1>5, ChosenWorkload DEF Pending, Covered
<1>8. ASSUME NEW v \in Workloads PROVE Balanced(v)'
  <2>1. /\ Balanced(v)
        /\ \A a \in Accounts : ledger[v][a] \in Nat
        /\ Pending(v) \in Nat /\ Covered(v) \in Nat /\ total[v] \in Nat /\ used[v] \in Nat
    BY Figures DEF IInv
  <2>2. CASE v = w
    BY <1>1, <1>2, <1>3, <1>5, <1>7, <2>1, <2>2 DEF Balanced, Accounts
  <2>3. CASE v # w
    BY <1>3, <1>5, <1>7, <2>1, <2>3 DEF Balanced
  <2> QED
    BY <2>2, <2>3
<1>9. SnapshotsAreBehind' /\ NothingAtHand'
  BY <1>5, ChosenWorkload DEF IInv, SnapshotsAreBehind, NothingAtHand
<1> QED
  BY <1>6, <1>8, <1>9, BalancedIsAccounted DEF IInv

LEMMA CleanupInv == ASSUME IInv, Cleanup PROVE IInv'
<1>1. \A v \in Workloads : Covered(v) \in Nat /\ ledger[v] \in [Accounts -> Nat]
  BY Figures DEF IInv, TypeOK
<1>2. \A v \in Workloads :
        /\ v \in activeIDs => ledger'[v] = ledger[v] /\ prevIO'[v] = prevIO[v]
        /\ v \notin activeIDs =>
             /\ ledger'[v] = [ledger[v] EXCEPT !["forgotten"] = ledger[v]["forgotten"] + Covered(v)]
             /\ prevIO'[v] = 0
  BY DEF Cleanup, Keep
<1>3. ASSUME NEW v \in Workloads
      PROVE  ledger'[v] \in [Accounts -> Nat]
  <2>1. ledger[v]["forgotten"] + Covered(v) \in Nat
    BY <1>1 DEF Accounts
  <2>2. CASE v \in activeIDs
    BY <1>1, <1>2, <2>2
  <2>3. CASE v \notin activeIDs
    <3>1. [ledger[v] EXCEPT !["forgotten"] = ledger[v]["forgotten"] + Covered(v)]
             \in [Accounts -> Nat]
      BY <1>1, <2>1
    <3> QED
      BY <1>2, <2>3, <3>1
  <2> QED
    BY <2>2, <2>3
<1>4. /\ UNCHANGED <<listed, up, total, used, todo, update, troubles, seen>>
      /\ pc' = "waiting" /\ pc # "reporting" /\ activeIDs' = {}
      /\ ledger' = [v \in Workloads |-> ledger'[v]]
      /\ prevIO' = [v \in Workloads |-> prevIO'[v]]
  BY DEF Cleanup, Keep, worldVars
<1>5. ledger' \in [Workloads -> [Accounts -> Nat]] /\ prevIO' \in [Workloads -> Nat]
  BY <1>2, <1>3, <1>4 DEF IInv, TypeOK
<1>6. TypeOK'
  BY <1>4, <1>5 DEF IInv, TypeOK
<1>7. ASSUME NEW v \in Workloads PROVE Balanced(v)'
  <2>1. /\ Balanced(v)
        /\ \A a \in Accounts : ledger[v][a] \in Nat
        /\ Pending(v) \in Nat /\ Covered(v) \in Nat /\ total[v] \in Nat /\ used[v] \in Nat
    BY Figures DEF IInv
  <2>2. Pending(v)' = Pending(v)
    BY <1>4 DEF Pending
  <2>3. CASE v \in activeIDs
    <3>1. Covered(v)' = Covered(v)
      BY <1>2, <1>4, <2>3 DEF Covered
    <3> QED
      BY <1>2, <1>4, <2>1, <2>2, <2>3, <3>1 DEF Balanced
  <2>4. CASE v \notin activeIDs
    <3>1. Covered(v)' = 0
      BY <1>2, <1>4, <2>4 DEF Covered
    <3>2. /\ ledger'[v]["forgotten"] = ledger[v]["forgotten"] + Covered(v)
          /\ \A a \in Accounts : a # "forgotten" => ledger'[v][a] = ledger[v][a]
      BY <1>1, <1>2, <2>4 DEF Accounts
    <3> QED
      BY <1>4, <2>1, <2>2, <3>1, <3>2 DEF Balanced, Accounts
  <2> QED
    BY <2>3, <2>4
<1>8. SnapshotsAreBehind' /\ NothingAtHand'
  BY <1>2, <1>4 DEF IInv, TypeOK, SnapshotsAreBehind, NothingAtHand
<1> QED
  BY <1>6, <1>7, <1>8, BalancedIsAccounted DEF IInv

\* A restart forgets every snapshot, and loses the update that was at hand.
LEMMA RestartInv == ASSUME IInv, DaemonRestart PROVE IInv'
<1>1. \A v \in Workloads : /\ Covered(v) \in Nat /\ Pending(v) \in Nat
                           /\ ledger[v] \in [Accounts -> Nat]
  BY Figures DEF IInv, TypeOK
<1>2. \A v \in Workloads :
        Pending(v) = IF v = update.id THEN update.delta ELSE 0
  BY DEF Pending
<1>3. ASSUME NEW v \in Workloads
      PROVE  /\ ledger'[v] = [[ledger[v] EXCEPT !["forgotten"] = ledger[v]["forgotten"] + Covered(v)]
                                  EXCEPT !["lost"] = ledger[v]["lost"] + Pending(v)]
             /\ ledger'[v]["forgotten"] = ledger[v]["forgotten"] + Covered(v)
             /\ ledger'[v]["lost"] = ledger[v]["lost"] + Pending(v)
             /\ \A a \in Accounts : a \notin {"forgotten", "lost"} => ledger'[v][a] = ledger[v][a]
             /\ ledger'[v] \in [Accounts -> Nat]
  <2>1. ledger'[v] = [[ledger[v] EXCEPT !["forgotten"] = ledger[v]["forgotten"] + Covered(v)]
                                  EXCEPT !["lost"] = ledger[v]["lost"] + Pending(v)]
    BY <1>1, <1>2 DEF DaemonRestart, Accounts
  <2>2. ledger[v]["forgotten"] + Covered(v) \in Nat /\ ledger[v]["lost"] + Pending(v) \in Nat
    BY <1>1 DEF Accounts
  <2> QED
    BY <1>1, <2>1, <2>2 DEF Accounts
<1>4. /\ UNCHANGED <<listed, up, total, used, seen>>
      /\ pc' = "waiting" /\ activeIDs' = {} /\ todo' = {}
      /\ update' = NoUpdate /\ NoUpdate \in [id : Workloads, delta : Nat]
      /\ ledger' = [v \in Workloads |-> ledger'[v]]
      /\ prevIO' = [v \in Workloads |-> 0]
  BY WorkloadsAssumption DEF DaemonRestart, worldVars, NoUpdate
<1>5. troubles' \in 0 .. MaxTroubles
  <2>1. troubles \in 0 .. MaxTroubles
    BY DEF IInv, TypeOK
  <2>2. Trouble
    BY DEF DaemonRestart
  <2> QED
    BY MaxTroublesAssumption, <2>1, <2>2 DEF Trouble
<1>6. ledger' \in [Workloads -> [Accounts -> Nat]]
  BY <1>3, <1>4
<1>7. TypeOK'
  BY <1>4, <1>5, <1>6 DEF IInv, TypeOK
<1>8. ASSUME NEW v \in Workloads PROVE Balanced(v)'
  <2>1. /\ Balanced(v)
        /\ \A a \in Accounts : ledger[v][a] \in Nat
        /\ Pending(v) \in Nat /\ Covered(v) \in Nat /\ total[v] \in Nat /\ used[v] \in Nat
    BY Figures DEF IInv
  <2>2. Pending(v)' = 0 /\ Covered(v)' = 0
    BY <1>4, ChosenWorkload DEF Pending, Covered
  <2>3. /\ ledger'[v]["forgotten"] = ledger[v]["forgotten"] + Covered(v)
        /\ ledger'[v]["lost"] = ledger[v]["lost"] + Pending(v)
        /\ ledger'[v]["billed"] = ledger[v]["billed"]
        /\ ledger'[v]["missed"] = ledger[v]["missed"]
        /\ ledger'[v]["masked"] = ledger[v]["masked"]
    BY <1>3 DEF Accounts
  <2>4. /\ ledger[v]["forgotten"] \in Nat /\ ledger[v]["lost"] \in Nat
        /\ ledger[v]["billed"] \in Nat /\ ledger[v]["missed"] \in Nat
        /\ ledger[v]["masked"] \in Nat
    BY <2>1 DEF Accounts
  <2>5. total'[v] = total[v] /\ used'[v] = used[v]
    BY <1>4
  <2> DEFINE billed == ledger[v]["billed"]
             lost == ledger[v]["lost"]
             missed == ledger[v]["missed"]
             masked == ledger[v]["masked"]
             forgotten == ledger[v]["forgotten"]
             pending == Pending(v)
             covered == Covered(v)
             counter == total[v]
             all == used[v]
  <2>6. /\ billed \in Nat /\ lost \in Nat /\ missed \in Nat /\ masked \in Nat
        /\ forgotten \in Nat /\ pending \in Nat /\ covered \in Nat /\ counter \in Nat
        /\ all \in Nat
    BY <2>1, <2>4
  <2>7. billed + pending + lost + missed + masked + (counter - covered) = all + forgotten
    BY <2>1 DEF Balanced
  <2>8. Balanced(v)' <=> billed + 0 + (lost + pending) + missed + masked + (counter - 0)
                           = all + (forgotten + covered)
    BY <2>2, <2>3, <2>5 DEF Balanced
  <2> HIDE DEF billed, lost, missed, masked, forgotten, pending, covered, counter, all
  <2> QED
    BY <2>6, <2>7, <2>8
<1>9. SnapshotsAreBehind' /\ NothingAtHand'
  BY <1>4, ChosenWorkload DEF IInv, TypeOK, SnapshotsAreBehind, NothingAtHand
<1> QED
  BY <1>7, <1>8, <1>9, BalancedIsAccounted DEF IInv

LEMMA StutterInv == ASSUME IInv, UNCHANGED vars PROVE IInv'
<1>1. TypeOK' /\ SnapshotsAreBehind' /\ NothingAtHand'
  BY DEF IInv, TypeOK, SnapshotsAreBehind, NothingAtHand, vars
<1>2. \A v \in Workloads : Balanced(v) <=> Balanced(v)'
  BY DEF vars, Balanced, Pending, Covered
<1> QED
  BY <1>1, <1>2, BalancedIsAccounted DEF IInv

-----------------------------------------------------------------------------
\* The invariant holds in every behaviour of the scraper.
THEOREM InvariantHolds == Spec => []IInv
<1>1. IInv /\ [Next]_vars => IInv'
  <2> SUFFICES ASSUME IInv, [Next]_vars PROVE IInv'
    OBVIOUS
  <2>1. ASSUME NEW w \in Workloads, Transfer(w) PROVE IInv'
    BY <2>1, TransferInv
  <2>2. ASSUME NEW w \in Workloads, ContainerStops(w) PROVE IInv'
    BY <2>2, StopsInv
  <2>3. ASSUME NEW w \in Workloads, ContainerStarts(w) PROVE IInv'
    BY <2>3, StartsInv
  <2>4. ASSUME NEW w \in Workloads, RecordChanges(w) PROVE IInv'
    BY <2>4, RecordInv
  <2>5. CASE Tick
    BY <2>5, TickInv
  <2>6. ASSUME NEW w \in Workloads, Visit(w) PROVE IInv'
    BY <2>6, VisitInv
  <2>7. CASE Report
    BY <2>7, ReportInv
  <2>8. CASE Cleanup
    BY <2>8, CleanupInv
  <2>9. CASE DaemonRestart
    BY <2>9, RestartInv
  <2>10. CASE UNCHANGED vars
    BY <2>10, StutterInv
  <2> QED
    BY <2>1, <2>2, <2>3, <2>4, <2>5, <2>6, <2>7, <2>8, <2>9, <2>10 DEF Next, Scrape
<1> QED
  BY InitInv, <1>1, PTL DEF Spec

\* The variables keep their types; in particular no figure is ever negative.
THEOREM TypeCorrect == Spec => []TypeOK
<1>1. IInv => TypeOK
  BY DEF IInv
<1> QED
  BY InvariantHolds, <1>1, PTL

\* Every unit of traffic is in exactly one place: reported, about to be, or lost in
\* one of the ways that the ledger names.
THEOREM TrafficStaysAccountedFor == Spec => []TrafficIsAccountedFor
<1>1. IInv => TrafficIsAccountedFor
  BY DEF IInv
<1> QED
  BY InvariantHolds, <1>1, PTL

\* A tenant is charged at most for what it used and what the scraper forgot.
THEOREM NobodyIsOverbilled == Spec => []NeverOverbilled
<1>1. IInv => NeverOverbilled
  <2> SUFFICES ASSUME IInv, NEW w \in Workloads
               PROVE  ledger[w].billed <= used[w] + ledger[w].forgotten
    BY DEF NeverOverbilled
  <2>1. /\ Balanced(w)
        /\ \A a \in Accounts : ledger[w][a] \in Nat
        /\ Pending(w) \in Nat /\ Covered(w) \in Nat /\ total[w] \in Nat /\ used[w] \in Nat
    BY Figures DEF IInv
  <2>2. Covered(w) <= total[w]
    BY DEF IInv, TypeOK, SnapshotsAreBehind, Covered
  <2> QED
    BY <2>1, <2>2 DEF Balanced, Accounts
<1> QED
  BY InvariantHolds, <1>1, PTL

-----------------------------------------------------------------------------
(* Without troubles the books are exact.  Why they are is in the order of  *)
(* scrape: a workload that is listed is among the active ones when the     *)
(* snapshots are cleaned up, and only a listed one ever had a snapshot.    *)

UpToDate ==
    /\ \A w \in Workloads : /\ ledger[w]["billed"] + Pending(w) = prevIO[w]
                            /\ prevIO[w] <= total[w]
                            /\ w \notin listed => prevIO[w] = 0
    /\ pc # "waiting" => listed \subseteq activeIDs \cup todo

Exact == troubles = 0 => UpToDate

LEMMA TroubleIsCounted == ASSUME TypeOK, Trouble PROVE troubles' # 0
BY MaxTroublesAssumption DEF TypeOK, Trouble

LEMMA InitExact == Init => Exact
<1> SUFFICES ASSUME Init, NEW w \in Workloads
             PROVE  /\ ledger[w]["billed"] + Pending(w) = prevIO[w]
                    /\ prevIO[w] <= total[w]
  BY DEF Init, Exact, UpToDate
<1>1. ledger[w]["billed"] = 0 /\ prevIO[w] = 0 /\ total[w] = 0
  BY DEF Init, Accounts
<1>2. Pending(w) = 0
  BY ChosenWorkload DEF Init, Pending
<1> QED
  BY <1>1, <1>2

LEMMA MeasureExact ==
    ASSUME IInv, troubles = 0, UpToDate, NEW w \in Workloads,
           pc = "visiting", todo' = todo \ {w}, UNCHANGED worldVars, Measure(w, total[w])
    PROVE  UpToDate'
<1>1. /\ update' = [id |-> w, delta |-> Delta(total[w], prevIO[w])]
      /\ prevIO' = [prevIO EXCEPT ![w] = total[w]]
      /\ activeIDs' = activeIDs \cup {w}
      /\ w \in listed /\ listed' = listed /\ total' = total
  BY DEF Measure, worldVars
<1>2. \A v \in Workloads : prevIO[v] \in Nat /\ total[v] \in Nat /\ ledger[v]["billed"] \in Nat
  BY DEF IInv, TypeOK, Accounts
<1>3. \A v \in Workloads : ledger'[v]["billed"] = ledger[v]["billed"]
  BY DEF Measure, IInv, TypeOK, Accounts
<1>4. \A v \in Workloads : Pending(v) = 0
  BY DEF IInv, NothingAtHand, Pending
<1>5. Delta(total[w], prevIO[w]) = total[w] - prevIO[w]
  BY <1>2, DeltaFacts DEF UpToDate
<1>6. ASSUME NEW v \in Workloads
      PROVE  /\ ledger'[v]["billed"] + Pending(v)' = prevIO'[v]
             /\ prevIO'[v] <= total'[v]
             /\ v \notin listed' => prevIO'[v] = 0
  <2>1. ledger[v]["billed"] + 0 = prevIO[v] /\ prevIO[v] <= total[v]
    BY <1>4 DEF UpToDate
  <2>2. CASE v = w
    <3>1. prevIO'[v] = total[v] /\ Pending(v)' = total[v] - prevIO[v]
      BY <1>1, <1>5, <2>2 DEF Pending, IInv, TypeOK
    <3> QED
      BY <1>1, <1>2, <1>3, <2>1, <2>2, <3>1
  <2>3. CASE v # w
    <3>1. prevIO'[v] = prevIO[v] /\ Pending(v)' = 0
      BY <1>1, <2>3 DEF Pending, IInv, TypeOK
    <3> QED
      BY <1>1, <1>2, <1>3, <2>1, <3>1 DEF UpToDate
  <2> QED
    BY <2>2, <2>3
<1>7. listed' \subseteq activeIDs' \cup todo'
  BY <1>1 DEF UpToDate
<1> QED
  BY <1>6, <1>7 DEF UpToDate

LEMMA ReportExact ==
    ASSUME IInv, troubles = 0, troubles' = 0, UpToDate, Report
    PROVE  UpToDate'
<1>1. Credit(update.id, "billed", update.delta)
  BY TroubleIsCounted DEF IInv, Report
<1>2. update.id \in Workloads /\ update.delta \in Nat /\ "billed" \in Accounts
  BY DEF IInv, TypeOK, Accounts
<1>3. /\ \A v \in Workloads : v # update.id => ledger'[v] = ledger[v]
      /\ ledger'[update.id]["billed"] = ledger[update.id]["billed"] + update.delta
  BY <1>1, <1>2, CreditFacts DEF IInv, TypeOK
<1>4. /\ UNCHANGED <<listed, total, prevIO, todo, activeIDs>>
      /\ pc = "reporting" /\ update' = NoUpdate
  BY DEF Report, worldVars
<1>5. \A v \in Workloads : Pending(v)' = 0
  BY <1>4, ChosenWorkload DEF Pending
<1>6. \A v \in Workloads : ledger[v]["billed"] \in Nat
  BY DEF IInv, TypeOK, Accounts
<1>7. ASSUME NEW v \in Workloads
      PROVE  ledger'[v]["billed"] + Pending(v)' = prevIO'[v]
  <2>1. ledger[v]["billed"] + Pending(v) = prevIO[v]
    BY DEF UpToDate
  <2>2. CASE v = update.id
    BY <1>2, <1>3, <1>4, <1>5, <1>6, <2>1, <2>2 DEF Pending
  <2>3. CASE v # update.id
    BY <1>3, <1>4, <1>5, <2>1, <2>3 DEF Pending
  <2> QED
    BY <2>2, <2>3
<1> QED
  BY <1>4, <1>7 DEF UpToDate

LEMMA CleanupExact == ASSUME IInv, UpToDate, Cleanup PROVE UpToDate'
<1>1. /\ UNCHANGED <<listed, total, update>>
      /\ pc' = "waiting" /\ listed \subseteq activeIDs
  BY DEF Cleanup, UpToDate, worldVars
<1>2. ASSUME NEW v \in Workloads
      PROVE  prevIO'[v] = prevIO[v] /\ ledger'[v]["billed"] = ledger[v]["billed"]
  <2>1. v \notin activeIDs => prevIO[v] = 0
    BY <1>1 DEF UpToDate
  <2>2. prevIO'[v] = prevIO[v]
    BY <2>1 DEF Cleanup, Keep
  <2>3. ledger'[v]["billed"] = ledger[v]["billed"]
    BY DEF Cleanup, Keep, IInv, TypeOK, Accounts
  <2> QED
    BY <2>2, <2>3
<1>3. \A v \in Workloads : Pending(v)' = Pending(v)
  BY <1>1 DEF Pending
<1> QED
  BY <1>1, <1>2, <1>3 DEF UpToDate

\* No step without a trouble leaves the books inexact.
LEMMA StepExact == ASSUME IInv, Exact, [Next]_vars PROVE Exact'
<1> SUFFICES ASSUME troubles' = 0 PROVE UpToDate'
  BY DEF Exact
<1>1. ~ Trouble
  BY TroubleIsCounted DEF IInv
<1>2. ASSUME UNCHANGED <<listed, total, prevIO, activeIDs, todo, update, ledger, troubles, pc>>
      PROVE  UpToDate'
  <2>1. UpToDate
    BY <1>2 DEF Exact
  <2>2. \A v \in Workloads : Pending(v)' = Pending(v)
    BY <1>2 DEF Pending
  <2> QED
    BY <1>2, <2>1, <2>2 DEF UpToDate
<1>3. ASSUME NEW w \in Workloads, Transfer(w) PROVE UpToDate'
  <2>1. UpToDate /\ UNCHANGED <<listed, prevIO, activeIDs, todo, update, ledger, pc>>
    BY <1>3 DEF Exact, Transfer
  <2>2. \A v \in Workloads : Pending(v)' = Pending(v)
    BY <2>1 DEF Pending
  <2>3. \A v \in Workloads : prevIO[v] <= total'[v]
    <3>1. \A v \in Workloads : total'[v] = IF v = w THEN total[v] + 1 ELSE total[v]
      BY <1>3 DEF Transfer, IInv, TypeOK
    <3>2. \A v \in Workloads : prevIO[v] \in Nat /\ total[v] \in Nat /\ prevIO[v] <= total[v]
      BY <2>1 DEF IInv, TypeOK, UpToDate
    <3> QED
      BY <3>1, <3>2
  <2> QED
    BY <2>1, <2>2, <2>3 DEF UpToDate
<1>4. ASSUME NEW w \in Workloads, ContainerStarts(w) PROVE UpToDate'
  BY <1>2, <1>4 DEF ContainerStarts
<1>5. CASE Tick
  <2>1. UpToDate /\ UNCHANGED <<listed, total, prevIO, update, ledger>> /\ todo' = Workloads
    BY <1>5 DEF Exact, Tick, worldVars
  <2>2. \A v \in Workloads : Pending(v)' = Pending(v)
    BY <2>1 DEF Pending
  <2> QED
    BY <2>1, <2>2 DEF UpToDate, IInv, TypeOK
<1>6. ASSUME NEW w \in Workloads, Visit(w) PROVE UpToDate'
  <2>1. pc = "visiting" /\ todo' = todo \ {w} /\ UNCHANGED worldVars
    BY <1>6 DEF Visit
  <2>2. CASE Skip(w)
    <3>1. UpToDate /\ UNCHANGED <<listed, total, prevIO, activeIDs, update, ledger, pc>>
      BY <2>1, <2>2 DEF Exact, Skip, worldVars
    <3>2. w \notin listed
      BY <2>2 DEF Skip
    <3>3. \A v \in Workloads : Pending(v)' = Pending(v)
      BY <3>1 DEF Pending
    <3> QED
      BY <2>1, <3>1, <3>2, <3>3 DEF UpToDate
  <2>3. CASE Measure(w, total[w]) /\ UNCHANGED troubles
    BY <2>1, <2>3, MeasureExact DEF Exact
  <2> QED
    BY <1>1, <1>6, <2>2, <2>3 DEF Visit, NoStatus, MeasureZeros
<1>7. CASE Report
  <2>1. troubles = 0
    BY <1>1, <1>7 DEF Report
  <2> QED
    BY <1>7, <2>1, ReportExact DEF Exact
<1>8. CASE Cleanup
  BY <1>8, CleanupExact DEF Exact, Cleanup
<1>9. CASE UNCHANGED vars
  BY <1>2, <1>9 DEF vars
<1> QED
  BY <1>1, <1>3, <1>4, <1>5, <1>6, <1>7, <1>8, <1>9
     DEF Next, Scrape, ContainerStops, RecordChanges, DaemonRestart

\* As long as nothing stops, fails or changes its record, the platform has been told
\* exactly what the snapshots say.
THEOREM BooksAreExact == Spec => []ExactWithoutTroubles
<1>1. IInv /\ Exact /\ [Next]_vars => Exact'
  BY StepExact
<1>2. Exact => ExactWithoutTroubles
  BY DEF Exact, UpToDate, ExactWithoutTroubles
<1> QED
  BY InvariantHolds, InitExact, <1>1, <1>2, PTL DEF Spec
=============================================================================
