---------------------------- MODULE TailPipeline ----------------------------
(***************************************************************************)
(* Tailer.tail from the open log stream to the platform: a goroutine       *)
(* demultiplexes the stream into two pipes, a scanner per pipe sends its   *)
(* lines into one bounded channel, a third goroutine closes the channel    *)
(* behind them, and tail itself gathers the lines in batches and ships     *)
(* them.  A line is its number; a pipe holds nothing, its writer waits     *)
(* for the reader.                                                         *)
(***************************************************************************)
EXTENDS Integers, Sequences, Functions

CONSTANTS MaxLines,      \* bound: what the container writes to its log
          Capacity,      \* of the channel `lines`
          BatchSize

ASSUME PipelineAssumption ==
    /\ MaxLines \in Nat /\ Capacity \in Nat \ {0} /\ BatchSize \in Nat \ {0}

Streams == {"stdout", "stderr"}
Lines   == 1 .. MaxLines
Done    == -1

VARIABLES stream,        \* stream[i]: the one line i goes to
          tooLong,       \* the lines longer than a scanner's buffer
          written,       \* how many lines the container has written
          exited,        \* whether it has ended, and its log with it
          broken,        \* whether the log can be read no more
          read,          \* how many lines StdCopy has read from the log
          copier,        \* StdCopy: 0 when reading, the line it writes, or Done
          scanner,       \* scanner[s]: 0 when scanning, the line it sends, or Done
          lines, closed, \* the channel
          batch,
          tail,          \* "selecting" or "returned"
          cancelled,     \* whether ctx is
          gone           \* history: the lines of the batches shipped, in order,
                         \* whether or not the platform took them

vars == <<stream, tooLong, written, exited, broken, read, copier, scanner, lines, closed,
          batch, tail, cancelled, gone>>
logVars  == <<stream, tooLong, written, exited, broken>>
tailVars == <<batch, tail, gone>>

TypeOK ==
    /\ stream \in [Lines -> Streams] /\ tooLong \subseteq Lines
    /\ written \in 0 .. MaxLines /\ exited \in BOOLEAN /\ broken \in BOOLEAN
    /\ read \in 0 .. written
    /\ copier \in 0 .. read \cup {Done}
    /\ scanner \in [Streams -> 0 .. read \cup {Done}]
    /\ lines \in Seq(1 .. read) /\ Len(lines) <= Capacity
    /\ batch \in Seq(1 .. read) /\ Len(batch) < BatchSize
    /\ closed \in BOOLEAN /\ cancelled \in BOOLEAN
    /\ tail \in {"selecting", "returned"}
    /\ gone \in Seq(1 .. read)

Init ==
    /\ stream \in [Lines -> Streams]
    /\ tooLong \in {{}} \cup {{i} : i \in Lines}
    /\ written = 0 /\ exited = FALSE /\ broken = FALSE
    /\ read = 0 /\ copier = 0 /\ scanner = [s \in Streams |-> 0]
    /\ lines = <<>> /\ closed = FALSE
    /\ batch = <<>> /\ tail = "selecting"
    /\ cancelled = FALSE /\ gone = <<>>

-----------------------------------------------------------------------------
(* The container, and whoever cancels the tail.                            *)

ContainerWrites ==
    /\ ~exited /\ written < MaxLines
    /\ written' = written + 1
    /\ UNCHANGED <<stream, tooLong, exited, broken, read, copier, scanner, lines, closed, tailVars, cancelled>>

ContainerExits ==
    /\ ~exited
    /\ exited' = TRUE
    /\ UNCHANGED <<stream, tooLong, written, broken, read, copier, scanner, lines, closed, tailVars, cancelled>>

\* The connection is lost or brings a bad frame, while the container runs or when it
\* has ended: the next read fails.
LogBreaks ==
    /\ ~broken
    /\ broken' = TRUE
    /\ UNCHANGED <<stream, tooLong, written, exited, read, copier, scanner, lines, closed, tailVars, cancelled>>

Cancel ==
    /\ ~cancelled
    /\ cancelled' = TRUE
    /\ UNCHANGED <<logVars, read, copier, scanner, lines, closed, tailVars>>

-----------------------------------------------------------------------------
(* The goroutines that feed the channel.                                   *)

Read ==
    /\ copier = 0 /\ read < written /\ ~broken
    /\ read' = read + 1
    /\ copier' = read + 1
    /\ UNCHANGED <<logVars, scanner, lines, closed, tailVars, cancelled>>

\* The log has ended, or reading fails because the log is broken, the context of the
\* request is cancelled or tail has closed the stream: StdCopy's error is dropped, and
\* both pipes are closed.
CopyEnds ==
    /\ copier = 0
    /\ (exited /\ read = written) \/ broken \/ cancelled \/ tail = "returned"
    /\ copier' = Done
    /\ UNCHANGED <<logVars, read, scanner, lines, closed, tailVars, cancelled>>

\* A line goes through its pipe.  A scanner whose buffer is full without a line
\* in it gives up, and leaves the copier with the rest of the line in its hands.
Hand(s) ==
    /\ scanner[s] = 0 /\ copier \in Lines /\ stream[copier] = s
    /\ IF copier \in tooLong
       THEN scanner' = [scanner EXCEPT ![s] = Done] /\ UNCHANGED copier
       ELSE scanner' = [scanner EXCEPT ![s] = copier] /\ copier' = 0
    /\ UNCHANGED <<logVars, read, lines, closed, tailVars, cancelled>>

ScanEnds(s) ==
    /\ \/ scanner[s] = 0 /\ copier = Done
       \/ scanner[s] \in Lines /\ cancelled
    /\ scanner' = [scanner EXCEPT ![s] = Done]
    /\ UNCHANGED <<logVars, read, copier, lines, closed, tailVars, cancelled>>

\* A mutant of Send: a full channel makes the scanner drop its line.
SendOrDrop(s) ==
    /\ scanner[s] \in Lines
    /\ lines' = IF Len(lines) < Capacity THEN Append(lines, scanner[s]) ELSE lines
    /\ scanner' = [scanner EXCEPT ![s] = 0]
    /\ UNCHANGED <<logVars, read, copier, closed, tailVars, cancelled>>

Send(s) ==
    /\ scanner[s] \in Lines /\ Len(lines) < Capacity
    /\ lines' = Append(lines, scanner[s])
    /\ scanner' = [scanner EXCEPT ![s] = 0]
    /\ UNCHANGED <<logVars, read, copier, closed, tailVars, cancelled>>

\* A mutant of CloseLines: the wait group counts one of the scanners only.
CloseAfterFirst ==
    /\ ~closed /\ \E s \in Streams : scanner[s] = Done
    /\ closed' = TRUE
    /\ UNCHANGED <<logVars, read, copier, scanner, lines, tailVars, cancelled>>

CloseLines ==
    /\ ~closed /\ \A s \in Streams : scanner[s] = Done
    /\ closed' = TRUE
    /\ UNCHANGED <<logVars, read, copier, scanner, lines, tailVars, cancelled>>

-----------------------------------------------------------------------------
(* The loop of tail.                                                       *)

\* ShipLogs: it succeeds, or the batch is dropped with a warning.
Ship(b) == gone' = gone \o b

Take ==
    /\ tail = "selecting" /\ lines # <<>>
    /\ lines' = Tail(lines)
    /\ LET full == Append(batch, Head(lines)) IN
       IF Len(full) >= BatchSize THEN Ship(full) /\ batch' = <<>>
                                 ELSE batch' = full /\ UNCHANGED gone
    /\ UNCHANGED <<logVars, read, copier, scanner, closed, tail, cancelled>>

Flush ==
    /\ tail = "selecting" /\ batch # <<>>
    /\ Ship(batch) /\ batch' = <<>>
    /\ UNCHANGED <<logVars, read, copier, scanner, lines, closed, tail, cancelled>>

\* A mutant of Return: the context is not looked at.
ReturnWhenClosed ==
    /\ tail = "selecting"
    /\ closed /\ lines = <<>>
    /\ Ship(batch)
    /\ batch' = <<>> /\ tail' = "returned"
    /\ UNCHANGED <<logVars, read, copier, scanner, lines, closed, cancelled>>

\* The last batch is shipped under context.Background(), so that it gets through.
Return ==
    /\ tail = "selecting"
    /\ cancelled \/ (closed /\ lines = <<>>)
    /\ Ship(batch)
    /\ batch' = <<>> /\ tail' = "returned"
    /\ UNCHANGED <<logVars, read, copier, scanner, lines, closed, cancelled>>

Copying     == Read \/ CopyEnds
Scanning(s) == Hand(s) \/ ScanEnds(s) \/ Send(s)
Tailing     == Take \/ Flush \/ Return

Next ==
    \/ ContainerWrites \/ ContainerExits \/ LogBreaks \/ Cancel
    \/ Copying \/ (\E s \in Streams : Scanning(s)) \/ CloseLines
    \/ Tailing

Spec == Init /\ [][Next]_vars

\* Goroutines run, calls to the platform answer or time out, and a select does not
\* pass over a ready case for ever.
Fairness ==
    /\ WF_vars(Copying) /\ \A s \in Streams : WF_vars(Scanning(s))
    /\ WF_vars(CloseLines)
    /\ WF_vars(Tailing) /\ SF_vars(Return)

FairSpec == Spec /\ Fairness

-----------------------------------------------------------------------------
(* Properties.                                                             *)

\* The lines that the scanners have sent, in the order in which they have.
Sent == gone \o batch \o lines

\* Within a stream, lines are shipped in the order the container wrote them, none
\* twice and none passed over: not at the hand-over between four goroutines, nor
\* where batches end.  Only a cancellation and a line that is too long cut off the
\* rest; until then what was read and not sent is in a goroutine's hands.
LinesInOrder ==
    /\ \A i, j \in DOMAIN Sent :
          i < j /\ stream[Sent[i]] = stream[Sent[j]] => Sent[i] < Sent[j]
    /\ \A x \in Range(Sent), y \in 1 .. read :
          y < x /\ stream[y] = stream[x] => y \in Range(Sent)
    /\ ~cancelled => \A y \in 1 .. read :
          y \in Range(Sent) \/ y = scanner[stream[y]] \/ y = copier

\* A tail that nobody cancelled returns with every line shipped that was read, none of
\* them cut off, and it stops reading only at the end of the container's log or where the
\* log broke: not when one of the two streams has come to its end, nor with lines left in
\* the channel.  (After a break the reconciler starts a tail that ships the log again from
\* the container's start; the piece of a line before the break counts as that line.)
ReturnsWithAllLines ==
    tail = "returned" /\ ~cancelled =>
        /\ tooLong \cap 1 .. read = {}
        /\ 1 .. read \subseteq Range(gone)
        /\ broken \/ (exited /\ read = written)

\* The tail and its four goroutines end when the container has or its log breaks, unless a
\* line was too long for the scanners or the tail was cancelled first; and a tail that is
\* cancelled returns, wherever its goroutines are stuck.
TailEnds ==
    /\ tooLong = {} /\ []~cancelled =>
           (exited \/ broken ~> /\ tail = "returned" /\ closed /\ copier = Done
                                /\ \A s \in Streams : scanner[s] = Done)
    /\ cancelled ~> tail = "returned"
=============================================================================
