----------------------------- MODULE TailProofs -----------------------------
(***************************************************************************)
(* Proofs about the log tailer: of the pipeline of one tail, for any log,  *)
(* channel and batch size (TailPipeline), and of the goroutines and the    *)
(* map, for every set of workloads and of goroutines (Tailer, T).          *)
(***************************************************************************)
EXTENDS TailPipeline, TailMap, SequenceTheorems, TLAPS

-----------------------------------------------------------------------------
(* The inductive invariant: the order of the lines sent, where a line that *)
(* is not sent can be, and why a scanner or the copier has ended.          *)

Ordered ==
    \A i, j \in DOMAIN Sent :
        i < j /\ stream[Sent[i]] = stream[Sent[j]] => Sent[i] < Sent[j]

NoGaps ==
    \A x \in Range(Sent), y \in 1 .. read :
        y < x /\ stream[y] = stream[x] => y \in Range(Sent)

\* The line a scanner holds is the next one of its stream.
ScannerHoldsNext ==
    \A s \in Streams : scanner[s] \in Lines =>
        /\ stream[scanner[s]] = s /\ scanner[s] \notin Range(Sent)
        /\ \A y \in 1 .. read : y < scanner[s] /\ stream[y] = s => y \in Range(Sent)

\* The copier holds the line read last.
CopierHoldsLast ==
    copier \in Lines =>
        /\ copier = read /\ copier \notin Range(Sent)
        /\ \A s \in Streams : scanner[s] # copier

\* As long as its scanner is there, a line is not passed over.
Followed ==
    \A y \in 1 .. read :
        y # copier /\ scanner[stream[y]] # Done =>
            y \in Range(Sent) \/ y = scanner[stream[y]]

Complete ==
    ~cancelled => \A y \in 1 .. read :
        y \in Range(Sent) \/ y = scanner[stream[y]] \/ y = copier

\* A scanner ends before the copier only over a line that is too long.
EndsForCause ==
    ~cancelled => \A s \in Streams : scanner[s] = Done /\ copier # Done =>
        copier \in tooLong /\ stream[copier] = s

TooLongStaysInHand == ~cancelled => \A y \in tooLong \cap 1 .. read : y = copier

CopierEndsWithLog == ~cancelled /\ copier = Done => broken \/ (exited /\ read = written)

\* Nobody sends on a closed channel.
ClosedBehindScanners == closed => \A s \in Streams : scanner[s] = Done

ReturnsWhenClosed ==
    tail = "returned" /\ ~cancelled => closed /\ lines = <<>> /\ batch = <<>>

SentInv == Ordered /\ NoGaps /\ ScannerHoldsNext /\ CopierHoldsLast /\ Followed /\ Complete
EndInv == EndsForCause /\ TooLongStaysInHand /\ CopierEndsWithLog
          /\ ClosedBehindScanners /\ ReturnsWhenClosed

IInv == TypeOK /\ SentInv /\ EndInv

-----------------------------------------------------------------------------
(* What a step does to the lines sent.                                     *)

LEMMA SentIsSeq ==
    ASSUME TypeOK
    PROVE  Sent \in Seq(1 .. read) /\ Range(Sent) \subseteq 1 .. read
<1>1. Sent \in Seq(1 .. read)
  BY ConcatProperties DEF TypeOK, Sent
<1> QED
  BY <1>1, RangeOfSeq

LEMMA SentOfSame ==
    ASSUME UNCHANGED <<gone, batch, lines>>
    PROVE  Sent' = Sent
BY DEF Sent

\* A scanner sends: its line comes last.
LEMMA SentBySend ==
    ASSUME TypeOK, NEW x \in 1 .. read,
           lines' = Append(lines, x), UNCHANGED <<gone, batch>>
    PROVE  Sent' = Append(Sent, x)
<1> DEFINE T == 1 .. read
           first == gone \o batch
<1>1. gone \in Seq(T) /\ batch \in Seq(T) /\ lines \in Seq(T) /\ <<x>> \in Seq(T)
  BY DEF TypeOK
<1>2. first \in Seq(T) /\ first \o lines \in Seq(T)
  BY <1>1, ConcatProperties
<1>3. Append(lines, x) = lines \o <<x>> /\ Append(first \o lines, x) = (first \o lines) \o <<x>>
  BY <1>1, <1>2, AppendIsConcat
<1>4. first \o (lines \o <<x>>) = (first \o lines) \o <<x>>
  BY <1>1, <1>2, ConcatAssociative
<1> QED
  BY <1>3, <1>4 DEF Sent

\* What a list with one more element holds.
LEMMA RangeOfMore ==
    ASSUME NEW S, NEW q \in Seq(S), NEW x \in S
    PROVE  Range(Append(q, x)) = Range(q) \cup {x}
<1>1. /\ Len(q) \in Nat /\ DOMAIN q = 1 .. Len(q)
      /\ DOMAIN Append(q, x) = 1 .. Len(q) + 1
      /\ \A i \in 1 .. Len(q) : Append(q, x)[i] = q[i]
      /\ Append(q, x)[Len(q) + 1] = x
  OBVIOUS
<1>2. \A i \in 1 .. Len(q) + 1 : i \in 1 .. Len(q) \/ i = Len(q) + 1
  BY <1>1
<1>3. \A i \in 1 .. Len(q) : i \in 1 .. Len(q) + 1
  BY <1>1
<1>4. Len(q) + 1 \in 1 .. Len(q) + 1
  BY <1>1
<1> QED BY <1>1, <1>2, <1>3, <1>4 DEF Range

LEMMA SentByTake ==
    ASSUME TypeOK, Take
    PROVE  Sent' = Sent
<1> DEFINE T == 1 .. read
           h == Head(lines)
           full == Append(batch, h)
<1>1. gone \in Seq(T) /\ batch \in Seq(T) /\ lines \in Seq(T) /\ lines # <<>>
  BY DEF TypeOK, Take
<1>2. h \in T /\ Tail(lines) \in Seq(T) /\ <<h>> \in Seq(T)
  <2>1. h \in T /\ Tail(lines) \in Seq(T)
    BY <1>1, HeadTailProperties
  <2> HIDE DEF h, T
  <2> QED
    BY <2>1
<1>3. lines = <<h>> \o Tail(lines)
  BY <1>1, <1>2
<1>4. full = batch \o <<h>> /\ full \in Seq(T)
  BY <1>1, <1>2, AppendIsConcat, AppendProperties
<1>5. gone \o full = (gone \o batch) \o <<h>>
  BY <1>1, <1>2, <1>4, ConcatAssociative
<1>6. gone \o batch \in Seq(T)
  BY <1>1, ConcatProperties
<1>7. (gone \o full) \o Tail(lines) = (gone \o batch) \o lines
  <2> HIDE DEF full, h, T
  <2>1. ((gone \o batch) \o <<h>>) \o Tail(lines) = (gone \o batch) \o (<<h>> \o Tail(lines))
    BY <1>2, <1>6, ConcatAssociative, SMTT(30)
  <2> QED
    BY <2>1, <1>3, <1>5
<1>8. CASE gone' = gone \o full /\ batch' = <<>> /\ lines' = Tail(lines)
  <2>1. gone \o full \in Seq(T)
    BY <1>1, <1>4, ConcatProperties
  <2>2. (gone \o full) \o <<>> = gone \o full
    BY <2>1, ConcatEmptySeq
  <2> QED
    BY <1>7, <1>8, <2>2 DEF Sent
<1>9. CASE gone' = gone /\ batch' = full /\ lines' = Tail(lines)
  BY <1>7, <1>9 DEF Sent
<1> QED
  BY <1>8, <1>9 DEF Take, Ship

LEMMA SentByShip ==
    ASSUME TypeOK, gone' = gone \o batch, batch' = <<>>, UNCHANGED lines
    PROVE  Sent' = Sent
<1> DEFINE T == 1 .. read
<1>1. gone \o batch \in Seq(T)
  BY ConcatProperties DEF TypeOK
<1>2. (gone \o batch) \o <<>> = gone \o batch
  BY <1>1, ConcatEmptySeq
<1> QED
  BY <1>2 DEF Sent

-----------------------------------------------------------------------------
LEMMA InitInv == Init => IInv
<1> SUFFICES ASSUME Init PROVE IInv
  OBVIOUS
<1>1. Sent = <<>>
  BY ConcatEmptySeq, EmptySeq DEF Init, Sent
<1>2. Range(Sent) = {}
  BY <1>1 DEF Range
<1>3. 0 \in 0 .. MaxLines
  BY PipelineAssumption
<1>4. TypeOK
  <2>1. <<>> \in Seq(1 .. 0) /\ Len(<<>>) = 0 /\ 0 < BatchSize /\ 0 <= Capacity
    BY PipelineAssumption
  <2>2. tooLong \subseteq Lines
    BY DEF Init
  <2>3. scanner \in [Streams -> 0 .. read \cup {Done}] /\ copier \in 0 .. read \cup {Done}
    BY DEF Init
  <2>4. lines \in Seq(1 .. read) /\ batch \in Seq(1 .. read) /\ gone \in Seq(1 .. read)
        /\ Len(lines) <= Capacity /\ Len(batch) < BatchSize
    BY <2>1 DEF Init
  <2>5. written \in 0 .. MaxLines /\ read \in 0 .. written
    BY <1>3 DEF Init
  <2> QED
    BY <2>2, <2>3, <2>4, <2>5 DEF Init, TypeOK
<1>5. Ordered /\ NoGaps
  BY <1>1, <1>2 DEF Ordered, NoGaps
<1>6. ScannerHoldsNext /\ CopierHoldsLast /\ Followed /\ Complete
  BY <1>2, PipelineAssumption
     DEF Init, ScannerHoldsNext, CopierHoldsLast, Followed, Complete, Lines
<1>7. EndInv
  BY PipelineAssumption
     DEF Init, EndInv, EndsForCause, TooLongStaysInHand, CopierEndsWithLog, Done,
         ClosedBehindScanners, ReturnsWhenClosed
<1> QED
  BY <1>4, <1>5, <1>6, <1>7 DEF IInv, SentInv

-----------------------------------------------------------------------------
LEMMA SeqOfMore ==
    ASSUME NEW n \in Nat, NEW seq \in Seq(1 .. n)
    PROVE  seq \in Seq(1 .. n + 1)
<1>1. \A i \in 1 .. Len(seq) : seq[i] \in 1 .. n + 1
  BY ElementOfSeq
<1> QED
  BY <1>1

LEMMA TypeInv == TypeOK /\ [Next]_vars => TypeOK'
<1> SUFFICES ASSUME TypeOK, [Next]_vars PROVE TypeOK'
  OBVIOUS
<1> USE DEF TypeOK
<1>1. CASE ContainerWrites
  BY <1>1, PipelineAssumption DEF ContainerWrites, tailVars
<1>2. CASE ContainerExits
  BY <1>2 DEF ContainerExits, tailVars
<1>3. CASE Cancel
  BY <1>3 DEF Cancel, logVars, tailVars
<1>4. CASE Read
  <2>1. read' = read + 1 /\ copier' = read' /\ read' \in 0 .. written
    BY <1>4 DEF Read
  <2>2. lines' \in Seq(1 .. read') /\ batch' \in Seq(1 .. read') /\ gone' \in Seq(1 .. read')
    BY <1>4, <2>1, SeqOfMore DEF Read, tailVars
  <2>3. scanner' \in [Streams -> 0 .. read' \cup {Done}]
    BY <1>4, <2>1 DEF Read
  <2> QED
    BY <1>4, <2>1, <2>2, <2>3 DEF Read, logVars, tailVars
<1>5. CASE CopyEnds
  BY <1>5 DEF CopyEnds, logVars, tailVars
<1>6. ASSUME NEW s \in Streams, Hand(s) PROVE TypeOK'
  <2>1. copier \in 0 .. read /\ 0 \in 0 .. read
    BY <1>6 DEF Hand, Lines, Done
  <2>2. scanner' \in [Streams -> 0 .. read \cup {Done}] /\ copier' \in 0 .. read \cup {Done}
    <3>1. CASE copier \in tooLong
      BY <1>6, <2>1, <3>1 DEF Hand
    <3>2. CASE copier \notin tooLong
      BY <1>6, <2>1, <3>2 DEF Hand
    <3> QED BY <3>1, <3>2
  <2> QED BY <1>6, <2>2 DEF Hand, logVars, tailVars
<1>7. ASSUME NEW s \in Streams, ScanEnds(s) PROVE TypeOK'
  BY <1>7 DEF ScanEnds, logVars, tailVars
<1>8. ASSUME NEW s \in Streams, Send(s) PROVE TypeOK'
  <2>1. scanner[s] \in 1 .. read /\ Len(lines) < Capacity
    BY <1>8 DEF Send, Lines, Done
  <2>2. lines' \in Seq(1 .. read) /\ Len(lines') <= Capacity
    BY <1>8, <2>1, AppendProperties, PipelineAssumption DEF Send
  <2>3. scanner' \in [Streams -> 0 .. read \cup {Done}]
    BY <1>8 DEF Send
  <2> QED
    BY <1>8, <2>2, <2>3 DEF Send, logVars, tailVars
<1>9. CASE CloseLines
  BY <1>9 DEF CloseLines, logVars, tailVars
<1>10. CASE Take
  <2>1. Head(lines) \in 1 .. read /\ Tail(lines) \in Seq(1 .. read)
        /\ Len(Tail(lines)) <= Capacity
    BY <1>10, HeadTailProperties, PipelineAssumption DEF Take
  <2> DEFINE full == Append(batch, Head(lines))
  <2>2. full \in Seq(1 .. read) /\ gone \o full \in Seq(1 .. read)
    BY <2>1, AppendProperties, ConcatProperties
  <2>3. <<>> \in Seq(1 .. read) /\ Len(<<>>) = 0 /\ 0 < BatchSize /\ BatchSize \in Nat
        /\ Len(full) \in Nat
    BY <2>2, PipelineAssumption
  <2>4. \/ gone' = gone \o full /\ batch' = <<>>
        \/ gone' = gone /\ batch' = full /\ ~(Len(full) >= BatchSize)
    BY <1>10 DEF Take, Ship
  <2> HIDE DEF full
  <2>5. gone' \in Seq(1 .. read) /\ batch' \in Seq(1 .. read)
    BY <2>2, <2>3, <2>4
  <2>6. Len(full) < BatchSize \/ Len(full) >= BatchSize
    BY <2>3
  <2>7. Len(batch') < BatchSize
    BY <2>3, <2>4, <2>6
  <2> QED
    BY <1>10, <2>1, <2>5, <2>7 DEF Take, logVars
<1>11. CASE Flush \/ Return
  <2>1. gone \o batch \in Seq(1 .. read)
    BY ConcatProperties
  <2>2. <<>> \in Seq(1 .. read) /\ Len(<<>>) < BatchSize
    BY PipelineAssumption
  <2> QED
    BY <1>11, <2>1, <2>2 DEF Flush, Return, Ship, logVars
<1>12. CASE LogBreaks
  BY <1>12 DEF LogBreaks, tailVars
<1>13. CASE UNCHANGED vars
  BY <1>13 DEF vars
<1> QED
  BY <1>1, <1>2, <1>3, <1>4, <1>5, <1>6, <1>7, <1>8, <1>9, <1>10, <1>11, <1>12, <1>13
     DEF Next, Copying, Scanning, Tailing

-----------------------------------------------------------------------------
(* The steps of the container, of the copier and of tail leave the order of *)
(* what is sent alone.                                                      *)

LEMMA SentUnchanged ==
    ASSUME IInv, Sent' = Sent, UNCHANGED <<stream, read, copier, scanner>>, cancelled => cancelled'
    PROVE  SentInv'
BY DEF IInv, SentInv, Ordered, NoGaps, ScannerHoldsNext, CopierHoldsLast, Followed, Complete

LEMMA OutsideStep ==
    ASSUME IInv, ContainerWrites \/ ContainerExits \/ LogBreaks \/ Cancel
    PROVE  SentInv' /\ EndInv'
<1>1. SentInv'
  BY SentOfSame, SentUnchanged
     DEF ContainerWrites, ContainerExits, LogBreaks, Cancel, logVars, tailVars
<1>2. EndInv'
  BY DEF ContainerWrites, ContainerExits, LogBreaks, Cancel, logVars, tailVars, IInv, EndInv, EndsForCause,
         TooLongStaysInHand, CopierEndsWithLog, ClosedBehindScanners, ReturnsWhenClosed
<1> QED
  BY <1>1, <1>2

LEMMA TailStep ==
    ASSUME IInv, CloseLines \/ Tailing
    PROVE  SentInv' /\ EndInv'
<1> USE DEF Tailing
<1>1. Sent' = Sent
  BY SentOfSame, SentByTake, SentByShip
     DEF IInv, CloseLines, Flush, Return, Ship, tailVars
<1>2. UNCHANGED <<logVars, read, copier, scanner, cancelled>>
  BY DEF CloseLines, Take, Flush, Return
<1>3. SentInv'
  BY <1>1, <1>2, SentUnchanged DEF logVars
<1>4. ClosedBehindScanners' /\ ReturnsWhenClosed'
  BY <1>2 DEF CloseLines, Take, Flush, Return, IInv, EndInv, ClosedBehindScanners,
              ReturnsWhenClosed, tailVars
<1>5. EndInv'
  BY <1>2, <1>4 DEF IInv, EndInv, EndsForCause, TooLongStaysInHand, CopierEndsWithLog, logVars
<1> QED
  BY <1>3, <1>5

-----------------------------------------------------------------------------
(* The copier and the scanners.                                             *)

LEMMA StreamOfRead ==
    ASSUME TypeOK
    PROVE  \A y \in 1 .. read : y \in Lines /\ stream[y] \in Streams
<1>1. read \in Nat /\ read <= MaxLines
  BY PipelineAssumption DEF TypeOK
<1>2. \A y \in 1 .. read : y \in Lines
  BY <1>1, PipelineAssumption DEF Lines
<1> QED
  BY <1>2 DEF TypeOK

LEMMA ReadStep ==
    ASSUME IInv, Read
    PROVE  SentInv' /\ EndInv'
<1>1. /\ read \in Nat /\ read' = read + 1 /\ copier = 0 /\ copier' = read + 1
      /\ UNCHANGED <<stream, tooLong, scanner, cancelled>>
  BY DEF IInv, TypeOK, Read, logVars
<1>2. Sent' = Sent /\ Range(Sent) \subseteq 1 .. read
  BY SentOfSame, SentIsSeq DEF IInv, Read, tailVars
<1>3. \A s \in Streams : scanner[s] \in 0 .. read \cup {Done}
  BY DEF IInv, TypeOK
<1>4. Ordered' /\ NoGaps'
  <2>1. Ordered'
    BY <1>1, <1>2 DEF IInv, SentInv, Ordered
  <2>2. ASSUME NEW x \in Range(Sent), NEW y \in 1 .. read', y < x, stream[y] = stream[x]
        PROVE  y \in Range(Sent)
    <3>1. y \in 1 .. read
      BY <1>1, <1>2, <2>2
    <3> QED
      BY <3>1, <2>2 DEF IInv, SentInv, NoGaps
  <2> QED
    BY <1>1, <1>2, <2>1, <2>2 DEF NoGaps
<1>5. ScannerHoldsNext'
  <2>1. ASSUME NEW s \in Streams, scanner[s] \in Lines
        PROVE  /\ stream[scanner[s]] = s /\ scanner[s] \notin Range(Sent)
               /\ \A y \in 1 .. read' : y < scanner[s] /\ stream[y] = s => y \in Range(Sent)
    <3>1. scanner[s] \in 1 .. read
      BY <1>3, <2>1, PipelineAssumption DEF Lines, Done
    <3>2. \A y \in 1 .. read' : y < scanner[s] => y \in 1 .. read
      BY <1>1, <3>1
    <3> QED
      BY <2>1, <3>2 DEF IInv, SentInv, ScannerHoldsNext
  <2> QED
    BY <1>1, <1>2, <2>1 DEF ScannerHoldsNext
<1>6. CopierHoldsLast'
  <2>1. read + 1 \notin Range(Sent) /\ \A s \in Streams : scanner[s] # read + 1
    BY <1>1, <1>2, <1>3 DEF Done
  <2> QED
    BY <1>1, <1>2, <2>1 DEF CopierHoldsLast
<1>7. \A y \in 1 .. read' : y # copier' => y \in 1 .. read /\ y # copier
  BY <1>1
<1>8. Followed' /\ Complete'
  BY <1>1, <1>2, <1>7 DEF IInv, SentInv, Followed, Complete
<1>9. EndsForCause'
  BY <1>1 DEF IInv, TypeOK, EndInv, EndsForCause, Lines, Done
<1>10. TooLongStaysInHand'
  <2>1. ~cancelled => tooLong \cap 1 .. read = {}
    BY <1>1 DEF IInv, TypeOK, EndInv, TooLongStaysInHand, Lines
  <2> QED
    BY <1>1, <1>7, <2>1 DEF TooLongStaysInHand
<1>11. CopierEndsWithLog' /\ ClosedBehindScanners' /\ ReturnsWhenClosed'
  BY <1>1 DEF Read, IInv, EndInv, CopierEndsWithLog, ClosedBehindScanners, ReturnsWhenClosed,
              Done, tailVars
<1> QED
  BY <1>4, <1>5, <1>6, <1>8, <1>9, <1>10, <1>11 DEF SentInv, EndInv

LEMMA CopyEndsStep ==
    ASSUME IInv, CopyEnds
    PROVE  SentInv' /\ EndInv'
<1>1. /\ copier = 0 /\ copier' = Done
      /\ UNCHANGED <<stream, tooLong, written, exited, broken, read, scanner, lines, closed, batch,
                     tail, gone, cancelled>>
  BY DEF CopyEnds, logVars, tailVars
<1>2. Sent' = Sent /\ read \in Nat
  BY <1>1, SentOfSame DEF IInv, TypeOK
<1>3. Done \notin Lines /\ \A y \in 1 .. read : y # 0 /\ y # Done
  BY <1>2 DEF Done, Lines
<1>4. SentInv'
  BY <1>1, <1>2, <1>3
     DEF IInv, SentInv, Ordered, NoGaps, ScannerHoldsNext, CopierHoldsLast, Followed, Complete
<1>5. ASSUME ~cancelled PROVE broken \/ (exited /\ read = written)
  <2>1. tail # "returned"
    BY <1>1, <1>5 DEF IInv, TypeOK, EndInv, ReturnsWhenClosed, ClosedBehindScanners, EndsForCause,
                      Streams, Done, Lines
  <2> QED
    BY <1>5, <2>1 DEF CopyEnds
<1>6. TooLongStaysInHand'
  BY <1>1, <1>3 DEF IInv, EndInv, TooLongStaysInHand
<1>7. EndInv'
  BY <1>1, <1>5, <1>6
     DEF IInv, EndInv, EndsForCause, CopierEndsWithLog, ClosedBehindScanners, ReturnsWhenClosed
<1> QED
  BY <1>4, <1>7

\* A line goes through its pipe, or is too long for the scanner.
LEMMA HandStep ==
    ASSUME IInv, NEW s \in Streams, Hand(s)
    PROVE  SentInv' /\ EndInv'
<1>1. /\ scanner[s] = 0 /\ copier \in Lines /\ stream[copier] = s
      /\ UNCHANGED <<stream, tooLong, written, exited, broken, read, lines, closed, batch, tail, gone,
                     cancelled>>
  BY DEF Hand, logVars, tailVars
<1>2. Sent' = Sent /\ read \in Nat /\ scanner \in [Streams -> 0 .. read \cup {Done}]
  BY <1>1, SentOfSame DEF IInv, TypeOK
<1>3. Done \notin Lines /\ 0 \notin Lines /\ Done # 0 /\ \A y \in 1 .. read : y # 0 /\ y # Done
  BY <1>2 DEF Done, Lines
<1>4. copier = read /\ copier \notin Range(Sent) /\ \A t \in Streams : scanner[t] # copier
  BY <1>1 DEF IInv, SentInv, CopierHoldsLast
<1>5. Ordered' /\ NoGaps'
  BY <1>1, <1>2 DEF IInv, SentInv, Ordered, NoGaps
<1>6. ClosedBehindScanners' /\ ReturnsWhenClosed' /\ ~closed
  BY <1>1, <1>3 DEF IInv, EndInv, ClosedBehindScanners, ReturnsWhenClosed
<1>7. CASE copier \in tooLong
  <2>1. scanner' = [scanner EXCEPT ![s] = Done] /\ copier' = copier
    BY <1>7 DEF Hand
  <2>2. scanner'[s] = Done /\ \A t \in Streams : t # s => scanner'[t] = scanner[t]
    BY <1>2, <2>1
  <2>3. SentInv'
    <3>1. ScannerHoldsNext' /\ CopierHoldsLast'
      BY <1>1, <1>2, <1>3, <2>1, <2>2 DEF IInv, SentInv, ScannerHoldsNext, CopierHoldsLast
    <3>2. \A y \in 1 .. read : stream[y] \in Streams
      BY StreamOfRead DEF IInv
    <3>3. Followed' /\ Complete'
      BY <1>1, <1>2, <1>3, <2>1, <2>2, <3>2 DEF IInv, SentInv, Followed, Complete
    <3> QED
      BY <1>5, <3>1, <3>3 DEF SentInv
  <2>4. EndInv'
    BY <1>1, <1>3, <1>6, <1>7, <2>1, <2>2
       DEF IInv, EndInv, EndsForCause, TooLongStaysInHand, CopierEndsWithLog
  <2> QED
    BY <2>3, <2>4
<1>8. CASE copier \notin tooLong
  <2>1. scanner' = [scanner EXCEPT ![s] = copier] /\ copier' = 0
    BY <1>8 DEF Hand
  <2>2. scanner'[s] = copier /\ \A t \in Streams : t # s => scanner'[t] = scanner[t]
    BY <1>2, <2>1
  <2>3. \A y \in 1 .. read : y # copier /\ stream[y] = s => y \in Range(Sent)
    BY <1>1, <1>3 DEF IInv, SentInv, Followed
  <2>4. SentInv'
    <3>1. ASSUME NEW t \in Streams, scanner'[t] \in Lines
          PROVE  /\ stream[scanner'[t]] = t /\ scanner'[t] \notin Range(Sent)
                 /\ \A y \in 1 .. read : y < scanner'[t] /\ stream[y] = t => y \in Range(Sent)
      <4>1. CASE t = s
        <5>1. \A y \in 1 .. read : y < copier => y # copier
          BY DEF IInv, TypeOK
        <5> QED
          BY <1>1, <1>4, <2>2, <2>3, <4>1, <5>1
      <4>2. CASE t # s
        BY <2>2, <3>1, <4>2 DEF IInv, SentInv, ScannerHoldsNext
      <4> QED
        BY <4>1, <4>2
    <3>2. ScannerHoldsNext' /\ CopierHoldsLast'
      BY <1>1, <1>2, <1>3, <2>1, <3>1 DEF ScannerHoldsNext, CopierHoldsLast
    <3>3. \A y \in 1 .. read : stream[y] \in Streams
      BY StreamOfRead DEF IInv
    <3>4. Followed' /\ Complete'
      BY <1>1, <1>2, <1>3, <2>1, <2>2, <2>3, <3>3 DEF IInv, SentInv, Followed, Complete
    <3> QED
      BY <1>5, <3>2, <3>4 DEF SentInv
  <2>5. EndInv'
    BY <1>1, <1>3, <1>4, <1>6, <1>8, <2>1, <2>2
       DEF IInv, EndInv, EndsForCause, TooLongStaysInHand, CopierEndsWithLog
  <2> QED
    BY <2>4, <2>5
<1> QED
  BY <1>7, <1>8

LEMMA ScanEndsStep ==
    ASSUME IInv, NEW s \in Streams, ScanEnds(s)
    PROVE  SentInv' /\ EndInv'
<1>1. /\ scanner' = [scanner EXCEPT ![s] = Done]
      /\ cancelled \/ (scanner[s] = 0 /\ copier = Done)
      /\ UNCHANGED <<stream, tooLong, written, exited, broken, read, copier, lines, closed, batch, tail,
                     gone, cancelled>>
  BY DEF ScanEnds, logVars, tailVars
<1>2. Sent' = Sent /\ read \in Nat /\ scanner \in [Streams -> 0 .. read \cup {Done}]
  BY <1>1, SentOfSame DEF IInv, TypeOK
<1>3. Done \notin Lines /\ \A y \in 1 .. read : y # 0 /\ stream[y] \in Streams
  BY <1>2, StreamOfRead DEF IInv, Done, Lines
<1>4. scanner'[s] = Done /\ \A t \in Streams : t # s => scanner'[t] = scanner[t]
  BY <1>1, <1>2
<1>5. Ordered' /\ NoGaps' /\ ScannerHoldsNext' /\ CopierHoldsLast'
  BY <1>1, <1>2, <1>3, <1>4
     DEF IInv, SentInv, Ordered, NoGaps, ScannerHoldsNext, CopierHoldsLast
<1>6. Followed' /\ Complete'
  BY <1>1, <1>2, <1>3, <1>4 DEF IInv, SentInv, Followed, Complete
<1>7. EndInv'
  BY <1>1, <1>4 DEF IInv, EndInv, EndsForCause, TooLongStaysInHand, CopierEndsWithLog,
                    ClosedBehindScanners, ReturnsWhenClosed
<1> QED
  BY <1>5, <1>6, <1>7 DEF SentInv

LEMMA SendStep ==
    ASSUME IInv, NEW s \in Streams, Send(s)
    PROVE  SentInv' /\ EndInv'
<1> DEFINE x == scanner[s]
           n == Len(Sent)
<1>1. /\ x \in Lines /\ lines' = Append(lines, x) /\ scanner' = [scanner EXCEPT ![s] = 0]
      /\ UNCHANGED <<stream, tooLong, written, exited, broken, read, copier, closed, batch, tail, gone,
                     cancelled>>
  BY DEF Send, logVars, tailVars
<1>2. Done \notin Lines /\ 0 \notin Lines /\ Done # 0
  BY DEF Done, Lines
<1>3. x \in 1 .. read /\ read \in Nat /\ scanner \in [Streams -> 0 .. read \cup {Done}]
  BY <1>1, <1>2 DEF IInv, TypeOK, Lines
<1>4. scanner'[s] = 0 /\ \A t \in Streams : t # s => scanner'[t] = scanner[t]
  BY <1>1, <1>3
<1>5. Sent' = Append(Sent, x)
  BY <1>1, <1>3, SentBySend DEF IInv
<1>6. Sent \in Seq(1 .. read)
  BY SentIsSeq DEF IInv
<1>7. Range(Sent') = Range(Sent) \cup {x}
  <2> HIDE DEF x
  <2> QED BY <1>3, <1>5, <1>6, RangeOfMore
<1>8. /\ stream[x] = s /\ x \notin Range(Sent)
      /\ \A y \in 1 .. read : y < x /\ stream[y] = s => y \in Range(Sent)
  BY <1>1 DEF IInv, SentInv, ScannerHoldsNext
<1>9. Ordered'
  <2>1. /\ n \in Nat /\ DOMAIN Sent = 1 .. n /\ DOMAIN Sent' = 1 .. n + 1
        /\ Sent'[n + 1] = x /\ \A i \in 1 .. n : Sent'[i] = Sent[i]
    BY <1>3, <1>5, <1>6, AppendProperties
  <2>2. \A i \in 1 .. n : Sent[i] \in Range(Sent) /\ Sent[i] \in 1 .. read
    BY <1>6, <2>1, ElementOfSeq DEF Range
  <2> HIDE DEF n, x
  <2>3. ASSUME NEW i \in 1 .. n + 1, NEW j \in 1 .. n + 1, i < j,
               stream[Sent'[i]] = stream[Sent'[j]]
        PROVE  Sent'[i] < Sent'[j]
    <3>1. CASE j \in 1 .. n
      <4>1. i \in 1 .. n
        BY <2>1, <2>3, <3>1
      <4> QED
        BY <2>1, <2>3, <3>1, <4>1 DEF IInv, SentInv, Ordered
    <3>2. CASE j = n + 1
      <4>1. i \in 1 .. n
        BY <2>1, <2>3, <3>2
      <4>2. Sent[i] \in Range(Sent) /\ stream[Sent[i]] = stream[x] /\ Sent[i] \in 1 .. read
        BY <2>1, <2>2, <2>3, <3>2, <4>1
      <4>3. ~(x < Sent[i])
        BY <1>3, <1>8, <4>2 DEF IInv, SentInv, NoGaps
      <4>4. Sent[i] # x
        BY <1>8, <4>2
      <4>5. Sent[i] < x
        BY <1>3, <4>2, <4>3, <4>4
      <4> QED
        BY <2>1, <3>2, <4>1, <4>5
    <3> QED
      BY <2>1, <3>1, <3>2
  <2> QED
    BY <1>1, <2>1, <2>3 DEF Ordered
<1> HIDE DEF x
<1>10. NoGaps'
  BY <1>1, <1>7, <1>8 DEF IInv, SentInv, NoGaps
<1>11. ScannerHoldsNext'
  BY <1>1, <1>2, <1>4, <1>7, <1>8 DEF IInv, SentInv, ScannerHoldsNext
<1>12. CopierHoldsLast'
  <2>1. copier \in Lines => copier # x
    BY DEF x, IInv, SentInv, CopierHoldsLast
  <2> QED
    BY <1>1, <1>2, <1>4, <1>7, <2>1 DEF IInv, SentInv, CopierHoldsLast
<1>13. Followed' /\ Complete'
  <2>1. \A y \in 1 .. read : y = scanner[stream[y]] /\ stream[y] = s => y = x
    BY DEF x
  <2>2. \A y \in 1 .. read : stream[y] \in Streams
    BY StreamOfRead DEF IInv
  <2>3. scanner[s] # Done
    BY <1>1, <1>2 DEF x
  <2> QED
    BY <1>1, <1>4, <1>7, <2>1, <2>2, <2>3 DEF IInv, SentInv, Followed, Complete
<1>14. EndInv'
  <2>1. ~closed
    BY <1>1, <1>2 DEF x, IInv, EndInv, ClosedBehindScanners
  <2> QED
    BY <1>1, <1>2, <1>4, <2>1
       DEF IInv, EndInv, EndsForCause, TooLongStaysInHand, CopierEndsWithLog,
           ClosedBehindScanners, ReturnsWhenClosed
<1> QED
  BY <1>9, <1>10, <1>11, <1>12, <1>13, <1>14 DEF SentInv

LEMMA NextInv == IInv /\ [Next]_vars => IInv'
<1> SUFFICES ASSUME IInv, [Next]_vars PROVE IInv'
  OBVIOUS
<1>1. TypeOK'
  BY TypeInv DEF IInv
<1>2. CASE UNCHANGED vars
  <2>1. SentInv'
    BY <1>2, SentOfSame, SentUnchanged DEF vars
  <2>2. EndInv'
    BY <1>2 DEF vars, IInv, EndInv, EndsForCause, TooLongStaysInHand, CopierEndsWithLog,
                ClosedBehindScanners, ReturnsWhenClosed
  <2> QED
    BY <1>1, <2>1, <2>2 DEF IInv
<1>3. CASE Next
  <2>1. SentInv' /\ EndInv'
    BY <1>3, OutsideStep, TailStep, ReadStep, CopyEndsStep, HandStep, ScanEndsStep, SendStep
       DEF Next, Copying, Scanning
  <2> QED
    BY <1>1, <2>1 DEF IInv
<1> QED
  BY <1>2, <1>3

-----------------------------------------------------------------------------
\* The inductive invariant of the pipeline: every line that was read is sent or in a
\* goroutine's hands, and each goroutine ends for the reason the code has for it.
THEOREM InvariantHolds == Spec => []IInv
<1>1. Init => IInv
  BY InitInv
<1>2. IInv /\ [Next]_vars => IInv'
  BY NextInv
<1> QED
  BY <1>1, <1>2, PTL DEF Spec

\* The variables of the goroutines keep their types, the channel its capacity and
\* the batch its size.
THEOREM TypeCorrect == Spec => []TypeOK
<1>1. IInv => TypeOK
  BY DEF IInv
<1> QED
  BY <1>1, InvariantHolds, PTL

\* Each stream's lines are sent in the order of the log, without gaps or doubles,
\* for any log, channel and batch size.
THEOREM LinesStayInOrder == Spec => []LinesInOrder
<1>1. IInv => LinesInOrder
  BY DEF IInv, SentInv, LinesInOrder, Ordered, NoGaps, Complete
<1> QED
  BY <1>1, InvariantHolds, PTL

\* A tail that returns without a cancellation has shipped all that was read, and has read
\* the log to its end or to where it broke.
THEOREM ReadLinesAreShipped == Spec => []ReturnsWithAllLines
<1>1. ASSUME IInv, tail = "returned", ~cancelled
      PROVE  /\ tooLong \cap 1 .. read = {}
             /\ 1 .. read \subseteq Range(gone)
             /\ broken \/ (exited /\ read = written)
  <2>1. closed /\ lines = <<>> /\ batch = <<>>
    BY <1>1 DEF IInv, EndInv, ReturnsWhenClosed
  <2>2. \A s \in Streams : scanner[s] = Done
    BY <1>1, <2>1 DEF IInv, EndInv, ClosedBehindScanners
  <2>3. copier = Done
    BY <1>1, <2>2 DEF IInv, EndInv, EndsForCause, Streams
  <2>4. broken \/ (exited /\ read = written)
    BY <1>1, <2>3 DEF IInv, EndInv, CopierEndsWithLog
  <2>5. \A y \in 1 .. read : y # Done
    BY DEF Done, IInv, TypeOK
  <2>6. tooLong \cap 1 .. read = {}
    BY <1>1, <2>3, <2>5 DEF IInv, EndInv, TooLongStaysInHand
  <2>7. Sent = gone
    BY <2>1, ConcatEmptySeq DEF Sent, IInv, TypeOK
  <2>8. 1 .. read \subseteq Range(gone)
    BY <1>1, <2>2, <2>3, <2>5, <2>7, StreamOfRead DEF IInv, SentInv, Complete
  <2> QED
    BY <2>4, <2>6, <2>8
<1>2. IInv => ReturnsWithAllLines
  BY <1>1 DEF ReturnsWithAllLines
<1> QED
  BY <1>2, InvariantHolds, PTL

\* No scanner ever sends on the channel after CloseLines, which would end the daemon.
THEOREM NoSendAfterClose == Spec => [](closed => \A s \in Streams : scanner[s] = Done)
<1>1. IInv => (closed => \A s \in Streams : scanner[s] = Done)
  BY DEF IInv, EndInv, ClosedBehindScanners
<1> QED
  BY <1>1, InvariantHolds, PTL
-----------------------------------------------------------------------------
(* The map and its goroutines.  Names that both modules use are the        *)
(* pipeline's; Tailer's stream and cancelled are spelt otherwise.          *)

CONSTANTS MaxChanges, Overlong

VARIABLES status, streams, pc, todo, active, stopped, changes

T == INSTANCE Tailer WITH stream <- streams, cancelled <- stopped

\* Once the daemon is told to stop, every goroutine that tails is cancelled,
\* whether a map entry leads to it or not, and so is one that starts afterwards.
ShutdownReachesAll == stopped => \A t \in Tails : Exists(t) => t \in done

\* What Tailer assumes of its constants, which an instance does not hand on.
TailerAssumption == MaxChanges \in Nat

\* The three hold together: that an entry is a tail of its workload is what makes
\* the one entry a goroutine deletes the only one it could be found under.
TailerInv == T!TypeOK /\ EntriesAreTails /\ ShutdownReachesAll

-----------------------------------------------------------------------------
LEMMA TailerInit == ASSUME TailerAssumption, T!Init PROVE TailerInv
<1>1. (CHOOSE w \in Workloads : TRUE) \in Workloads
  BY WorkloadsAssumption
<1>2. tails \in [Tails -> [pc : TailPCs, workload : Workloads]]
  BY <1>1 DEF T!Init, TailPCs, T!TailPCs
<1>3. T!TypeOK
  <2>1. 0 \in 0 .. MaxChanges
    BY DEF TailerAssumption
  <2>2. running \in [Workloads -> Tails \cup {NoTail}] /\ changes \in 0 .. MaxChanges
    BY <2>1 DEF T!Init
  <2>3. status \subseteq Workloads /\ streams \subseteq Workloads
    BY DEF T!Init
  <2> QED
    BY <1>2, <2>2, <2>3 DEF T!Init, T!TypeOK, T!TailPCs, TailPCs
<1>4. EntriesAreTails /\ ShutdownReachesAll
  BY DEF T!Init, EntriesAreTails, ShutdownReachesAll, Of, T!Of
<1> QED
  BY <1>3, <1>4 DEF TailerInv

\* A step that changes neither the map nor a goroutine, and cancels none that is
\* not cancelled.
LEMMA SameTails ==
    ASSUME TailerInv, UNCHANGED <<running, tails, stopped>>, done \subseteq done'
    PROVE  EntriesAreTails' /\ ShutdownReachesAll'
BY DEF TailerInv, EntriesAreTails, ShutdownReachesAll, Of, T!Of, Exists, T!Exists

LEMMA WorldInv ==
    ASSUME TailerAssumption, TailerInv, NEW w \in Workloads, T!WorldChanges(w)
    PROVE  TailerInv'
<1>1. changes' \in 0 .. MaxChanges
  BY DEF TailerAssumption, TailerInv, T!TypeOK, T!WorldChanges, T!TailPCs, TailPCs
<1>2. T!TypeOK'
  BY <1>1 DEF TailerInv, T!TypeOK, T!WorldChanges, T!Toggle, T!loopVars, T!TailPCs, TailPCs
<1>3. UNCHANGED <<running, tails, stopped, done>>
  BY DEF T!WorldChanges
<1> QED
  BY <1>2, <1>3, SameTails DEF TailerInv

LEMMA ShutdownInv == ASSUME TailerInv, T!Shutdown PROVE TailerInv'
<1>1. T!TypeOK'
  BY DEF TailerInv, T!TypeOK, T!Shutdown, T!worldVars, T!loopVars, T!TailPCs, TailPCs
<1>2. EntriesAreTails'
  BY DEF TailerInv, EntriesAreTails, Of, T!Of, Exists, T!Exists, T!Shutdown
<1>3. ShutdownReachesAll'
  BY DEF ShutdownReachesAll, Exists, T!Exists, T!Shutdown
<1> QED
  BY <1>1, <1>2, <1>3 DEF TailerInv

-----------------------------------------------------------------------------
(* The reconciling goroutine.                                              *)

LEMMA TickInv == ASSUME TailerInv, T!Tick PROVE TailerInv'
<1>1. T!TypeOK'
  BY DEF TailerInv, T!TypeOK, T!Tick, T!worldVars, T!TailPCs, TailPCs
<1>2. UNCHANGED <<running, tails, stopped, done>>
  BY DEF T!Tick
<1> QED
  BY <1>1, <1>2, SameTails DEF TailerInv

LEMMA FreeNameIsFree ==
    /\ FreeName \in Tails
    /\ (\E t \in Tails : ~Exists(t)) => ~Exists(FreeName)
<1>1. \E t \in Tails : (\E u \in Tails : ~Exists(u)) => ~Exists(t)
  BY TailsAssumption
<1> QED
  BY <1>1 DEF FreeName

\* The goroutine started is not one that some entry leads to.
LEMMA StartTailInv ==
    ASSUME TailerInv, NEW w \in Workloads, T!StartTail(w),
           pc = "visiting", todo' = todo \ {w}, UNCHANGED <<T!worldVars, pc, stopped>>
    PROVE  TailerInv'
<1> DEFINE t == FreeName
<1>1. /\ ~Exists(t)
      /\ running' = [running EXCEPT ![w] = t]
      /\ tails' = [tails EXCEPT ![t] = [pc |-> "opening", workload |-> w]]
      /\ done' = IF stopped THEN done \cup {t} ELSE done
      /\ active' = active \cup {w}
  <2>1. \A u : T!Exists(u) <=> Exists(u)
    BY DEF T!Exists, Exists
  <2>2. T!FreeName = t
    BY <2>1 DEF T!FreeName, FreeName
  <2> HIDE DEF t
  <2> QED
    BY <2>1, <2>2 DEF T!StartTail
<1>2. t \in Tails /\ t # NoTail
  BY FreeNameIsFree, NoTailAssumption
<1> HIDE DEF t
<1>3. T!TypeOK'
  <2>1. tails' \in [Tails -> [pc : TailPCs, workload : Workloads]]
    BY <1>1, <1>2 DEF TailerInv, T!TypeOK, TailPCs, T!TailPCs
  <2> QED
    BY <1>1, <1>2, <2>1 DEF TailerInv, T!TypeOK, T!worldVars, T!TailPCs, TailPCs
<1>4. tails'[t].workload = w /\ tails'[t].pc = "opening"
  BY <1>1, <1>2 DEF TailerInv, T!TypeOK, T!TailPCs, TailPCs
<1>5. \A u \in Tails : u # t => tails'[u] = tails[u]
  BY <1>1, <1>2 DEF TailerInv, T!TypeOK, T!TailPCs, TailPCs
<1>6. EntriesAreTails'
  <2> SUFFICES ASSUME NEW v \in Workloads, running'[v] # NoTail
               PROVE  running'[v] \in Of(v)'
    BY DEF EntriesAreTails, Of, T!Of
  <2>1. CASE v = w
    BY <1>1, <1>2, <1>4, <2>1 DEF Of, T!Of, Exists, T!Exists, TailerInv, T!TypeOK,
       T!TailPCs, TailPCs
  <2>2. CASE v # w
    <3>1. running'[v] = running[v] /\ running[v] \in Of(v)
      BY <1>1, <2>2 DEF TailerInv, T!TypeOK, EntriesAreTails, T!TailPCs, TailPCs
    <3>2. running[v] # t
      BY <1>1, <3>1 DEF Of, T!Of
    <3> QED
      BY <1>5, <3>1, <3>2 DEF Of, T!Of, Exists, T!Exists
  <2> QED
    BY <2>1, <2>2
<1>7. ShutdownReachesAll'
  BY <1>1, <1>5 DEF TailerInv, ShutdownReachesAll, Exists, T!Exists
<1> QED
  BY <1>3, <1>6, <1>7 DEF TailerInv

LEMMA VisitInv ==
    ASSUME TailerInv, NEW w \in Workloads, T!Visit(w)
    PROVE  TailerInv'
<1>1. /\ pc = "visiting" /\ todo' = todo \ {w}
      /\ UNCHANGED <<T!worldVars, pc, stopped>>
  BY DEF T!Visit
<1>2. ASSUME T!SkipNotRunning(w) \/ T!KeepTail(w) PROVE TailerInv'
  <2>1. UNCHANGED <<running, tails, done>> /\ active' \subseteq Workloads
    BY <1>2 DEF T!SkipNotRunning, T!KeepTail, TailerInv, T!TypeOK, T!TailPCs, TailPCs
  <2>2. T!TypeOK'
    BY <1>1, <2>1 DEF TailerInv, T!TypeOK, T!worldVars, T!TailPCs, TailPCs
  <2> QED
    BY <1>1, <2>1, <2>2, SameTails DEF TailerInv
<1>3. CASE T!StartTail(w)
  BY <1>1, <1>3, StartTailInv
<1> QED
  BY <1>2, <1>3 DEF T!Visit

\* Entries are taken out, and what they led to is cancelled.
LEMMA LetGo ==
    ASSUME TailerInv, NEW W \in SUBSET Workloads,
           running' = [w \in Workloads |-> IF w \in W THEN running[w] ELSE NoTail],
           done' = done \cup Registered(Workloads \ W), UNCHANGED <<tails, stopped>>
    PROVE  /\ running' \in [Workloads -> Tails \cup {NoTail}] /\ done' \subseteq Tails
           /\ EntriesAreTails' /\ ShutdownReachesAll'
<1>1. Registered(Workloads \ W) \subseteq Tails
  BY DEF TailerInv, T!TypeOK, Registered, T!Registered, T!TailPCs, TailPCs
<1>2. running' \in [Workloads -> Tails \cup {NoTail}] /\ done' \subseteq Tails
  BY <1>1 DEF TailerInv, T!TypeOK, T!TailPCs, TailPCs
<1>3. EntriesAreTails'
  BY DEF TailerInv, EntriesAreTails, Of, T!Of, Exists, T!Exists
<1>4. ShutdownReachesAll'
  BY DEF TailerInv, ShutdownReachesAll, Exists, T!Exists
<1> QED
  BY <1>2, <1>3, <1>4

LEMMA PruneInv == ASSUME TailerInv, T!Prune PROVE TailerInv'
<1>1. /\ running' = [w \in Workloads |-> IF w \in active THEN running[w] ELSE NoTail]
      /\ done' = done \cup Registered(Workloads \ active)
      /\ pc' = "waiting" /\ active' = {}
      /\ UNCHANGED <<status, streams, changes, tails, todo, stopped>>
  BY DEF T!Prune, T!worldVars, Registered, T!Registered
<1>2. active \in SUBSET Workloads
  BY DEF TailerInv, T!TypeOK, T!TailPCs, TailPCs
<1>3. /\ running' \in [Workloads -> Tails \cup {NoTail}] /\ done' \subseteq Tails
      /\ EntriesAreTails' /\ ShutdownReachesAll'
  BY <1>1, <1>2, LetGo
<1>4. T!TypeOK'
  BY <1>1, <1>3 DEF TailerInv, T!TypeOK, T!TailPCs, TailPCs
<1> QED
  BY <1>3, <1>4 DEF TailerInv

LEMMA StopAllInv == ASSUME TailerInv, T!StopAll PROVE TailerInv'
<1> DEFINE kept == {}
<1>0. kept \in SUBSET Workloads
  OBVIOUS
<1>1. /\ running' = [w \in Workloads |-> IF w \in kept THEN running[w] ELSE NoTail]
      /\ done' = done \cup Registered(Workloads \ kept)
      /\ pc' = "returned"
      /\ UNCHANGED <<status, streams, changes, tails, todo, active, stopped>>
  BY DEF T!StopAll, T!worldVars, Registered, T!Registered
<1> HIDE DEF kept
<1>2. /\ running' \in [Workloads -> Tails \cup {NoTail}] /\ done' \subseteq Tails
      /\ EntriesAreTails' /\ ShutdownReachesAll'
  BY <1>0, <1>1, LetGo
<1>3. T!TypeOK'
  BY <1>1, <1>2 DEF TailerInv, T!TypeOK, T!TailPCs, TailPCs
<1> QED
  BY <1>2, <1>3 DEF TailerInv

-----------------------------------------------------------------------------
(* A tailing goroutine.                                                    *)

\* A goroutine that goes on is still the one of its workload.
LEMMA MoveInv ==
    ASSUME TailerInv, NEW t \in Tails, NEW to \in TailPCs \ {"none"},
           tails[t].pc # "none", tails' = [tails EXCEPT ![t].pc = to],
           changes' \in 0 .. MaxChanges,
           UNCHANGED <<status, streams, running, done, pc, todo, active, stopped>>
    PROVE  TailerInv'
<1>1. /\ tails' \in [Tails -> [pc : TailPCs, workload : Workloads]]
      /\ \A u \in Tails : tails'[u].workload = tails[u].workload
      /\ \A u \in Tails : Exists(u)' <=> Exists(u)
  BY DEF TailerInv, T!TypeOK, Exists, T!Exists, T!TailPCs, TailPCs
<1>2. T!TypeOK'
  BY <1>1 DEF TailerInv, T!TypeOK, T!TailPCs, TailPCs
<1>3. EntriesAreTails' /\ ShutdownReachesAll'
  BY <1>1 DEF TailerInv, EntriesAreTails, ShutdownReachesAll, Of, T!Of
<1> QED
  BY <1>2, <1>3 DEF TailerInv

\* The goroutine that ends takes the entry of its workload with it, and no entry of
\* another workload led to it.
LEMMA LeaveInv == ASSUME TailerInv, NEW t \in Tails, T!Leave(t) PROVE TailerInv'
<1> DEFINE w == tails[t].workload
<1>1. /\ tails[t].pc = "leaving" /\ tails' = [tails EXCEPT ![t].pc = "none"]
      /\ running' = [running EXCEPT ![w] = NoTail]
      /\ done' = done \ {t}
      /\ UNCHANGED <<status, streams, changes, pc, todo, active, stopped>>
  BY DEF T!Leave, T!worldVars, T!loopVars
<1>2. w \in Workloads
  BY DEF TailerInv, T!TypeOK, T!TailPCs, TailPCs
<1>3. tails' \in [Tails -> [pc : TailPCs, workload : Workloads]]
  BY <1>1 DEF TailerInv, T!TypeOK, TailPCs, T!TailPCs
<1>4. \A u \in Tails : u # t => tails'[u] = tails[u]
  BY <1>1 DEF TailerInv, T!TypeOK, T!TailPCs, TailPCs
<1>5. T!TypeOK'
  BY <1>1, <1>2, <1>3 DEF TailerInv, T!TypeOK, T!TailPCs, TailPCs
<1>6. EntriesAreTails'
  <2> SUFFICES ASSUME NEW v \in Workloads, running'[v] # NoTail
               PROVE  running'[v] \in Of(v)'
    BY DEF EntriesAreTails, Of, T!Of
  <2>1. v # w /\ running'[v] = running[v]
    BY <1>1, <1>2 DEF TailerInv, T!TypeOK, T!TailPCs, TailPCs
  <2>2. running[v] \in Of(v)
    BY <2>1 DEF TailerInv, EntriesAreTails
  <2>3. running[v] # t
    BY <2>1, <2>2 DEF Of, T!Of
  <2> QED
    BY <1>4, <2>1, <2>2, <2>3 DEF Of, T!Of, Exists, T!Exists
<1>7. ShutdownReachesAll'
  <2>1. ~Exists(t)'
    BY <1>1 DEF Exists, T!Exists, TailerInv, T!TypeOK, T!TailPCs, TailPCs
  <2> QED
    BY <1>1, <1>4, <2>1 DEF TailerInv, ShutdownReachesAll, Exists, T!Exists
<1> QED
  BY <1>5, <1>6, <1>7 DEF TailerInv

LEMMA TailerStutters == ASSUME TailerInv, UNCHANGED T!vars PROVE TailerInv'
<1>1. T!TypeOK'
  BY DEF TailerInv, T!TypeOK, T!vars, T!worldVars, T!loopVars, T!TailPCs, TailPCs
<1> QED
  BY <1>1, SameTails DEF TailerInv, T!vars

-----------------------------------------------------------------------------
\* The invariant holds in every behaviour of the tailer.
THEOREM TailerInvariantHolds ==
    ASSUME TailerAssumption PROVE T!Spec => []TailerInv
<1>1. TailerInv /\ [T!Next]_(T!vars) => TailerInv'
  <2> SUFFICES ASSUME TailerInv, [T!Next]_(T!vars) PROVE TailerInv'
    OBVIOUS
  <2>1. ASSUME NEW w \in Workloads, T!WorldChanges(w) PROVE TailerInv'
    BY <2>1, WorldInv
  <2>2. CASE T!Shutdown
    BY <2>2, ShutdownInv
  <2>3. CASE T!Tick
    BY <2>3, TickInv
  <2>4. ASSUME NEW w \in Workloads, T!Visit(w) PROVE TailerInv'
    BY <2>4, VisitInv
  <2>5. CASE T!Prune
    BY <2>5, PruneInv
  <2>6. CASE T!StopAll
    BY <2>6, StopAllInv
  <2>7. ASSUME NEW t \in Tails, T!Open(t) \/ T!EndOfStream(t) \/ T!Silence(t) \/ T!LogFails(t)
        PROVE  TailerInv'
    <3>1. changes' \in 0 .. MaxChanges
      BY <2>7 DEF TailerAssumption, TailerInv, T!TypeOK, T!Open, T!EndOfStream, T!Silence,
         T!LogFails, T!Move, T!worldVars
    <3>2. PICK to \in TailPCs \ {"none"} : tails' = [tails EXCEPT ![t].pc = to]
      BY <2>7 DEF T!Open, T!EndOfStream, T!Silence, T!LogFails, T!Move, TailPCs
    <3>3. /\ tails[t].pc # "none"
          /\ UNCHANGED <<status, streams, running, done, pc, todo, active, stopped>>
      BY <2>7 DEF T!Open, T!EndOfStream, T!Silence, T!LogFails, T!Move, T!worldVars, T!loopVars
    <3> QED
      BY <3>1, <3>2, <3>3, MoveInv
  <2>8. ASSUME NEW t \in Tails, T!Leave(t) PROVE TailerInv'
    BY <2>8, LeaveInv
  <2>9. CASE UNCHANGED T!vars
    BY <2>9, TailerStutters
  <2> QED
    BY <2>1, <2>2, <2>3, <2>4, <2>5, <2>6, <2>7, <2>8, <2>9 DEF T!Next, T!Reconciler,
       T!Tailing
<1> QED
  BY TailerInit, <1>1, PTL DEF T!Spec

\* The variables keep their types.
THEOREM TailerTypeCorrect ==
    ASSUME TailerAssumption PROVE T!Spec => []T!TypeOK
<1>1. TailerInv => T!TypeOK
  BY DEF TailerInv
<1> QED
  BY TailerInvariantHolds, <1>1, PTL

\* An entry of the map is always a goroutine that tails that very workload: none is
\* left behind that would keep the workload from being tailed again.
THEOREM EntriesStayTails ==
    ASSUME TailerAssumption PROVE T!Spec => []EntriesAreTails
<1>1. TailerInv => EntriesAreTails
  BY DEF TailerInv
<1> QED
  BY TailerInvariantHolds, <1>1, PTL

\* After SIGTERM no goroutine tails with a live context, also one that no entry
\* leads to any more, or that the last reconciliation still starts.
THEOREM ShutdownReaches ==
    ASSUME TailerAssumption PROVE T!Spec => []ShutdownReachesAll
<1>1. TailerInv => ShutdownReachesAll
  BY DEF TailerInv
<1> QED
  BY TailerInvariantHolds, <1>1, PTL
=============================================================================
