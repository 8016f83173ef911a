-------------------------- MODULE FailureDetector --------------------------
(***************************************************************************)
(* The accrual failure detector of pkg/gossip/failuredetector.go for one   *)
(* remote node, with its two callers: handlers report every message of the *)
(* node, and the schedulers of pkg/gossip/gossip.go update its liveness    *)
(* and remove it when it has expired.                                      *)
(*                                                                         *)
(* Time is a number of ticks.  Report and SuspicionLevel read the clock    *)
(* right before they take the mutex: the model does both in one step, and  *)
(* assumes that the clock has moved between two messages of the node, and  *)
(* between the window SuspicionLevel makes for it and its first message.   *)
(* The code compares no timestamps: without the assumption an interval of  *)
(* zero, or less, would enter the buffer.  Phi is a quotient:              *)
(* phi > threshold is compared by multiplying out.                         *)
(***************************************************************************)
EXTENDS Integers, Sequences, SequencesExt

CONSTANTS
    SampleSize,             \* sampleSize, 50
    BootstrapInterval,      \* bootstrapInterval, twice the gossip interval
    SuspicionThreshold,     \* suspicionThreshold, 20
    NodeExpiry,             \* nodeExpiry
    MaxTime                 \* bound: the last tick

ASSUME DetectorAssumption ==
    /\ SampleSize \in Nat \ {0}
    /\ BootstrapInterval \in Nat \ {0}
    /\ SuspicionThreshold \in Nat \ {0}
    /\ NodeExpiry \in Nat
    /\ MaxTime \in Nat

VARIABLES
    now,
    windows,        \* the arrivalWindow of the node, if there is one
    known,          \* whether the gossip state has the node
    unreachable,
    expiry,         \* when the node expires, if that is set
    samples         \* history: every interval of the present window

vars == <<now, windows, known, unreachable, expiry, samples>>

-----------------------------------------------------------------------------
(***************************************************************************)
(* The circular buffer.  intervals[i] is the Go slice at i, from 0.        *)
(***************************************************************************)

newArrivalIntervals ==
    [intervals |-> [i \in 0 .. SampleSize - 1 |-> 0],
     index |-> 0, isFull |-> FALSE, sum |-> 0]

size(b) == IF b.isFull THEN SampleSize ELSE b.index

\* Mutant: the interval that is overwritten stays in the sum.
AddKeepsSum(b, interval) ==
    LET wrap == b.index = SampleSize
        i == IF wrap THEN 0 ELSE b.index
    IN  [intervals |-> [b.intervals EXCEPT ![i] = interval],
         index |-> i + 1,
         isFull |-> b.isFull \/ wrap,
         sum |-> b.sum + interval]

\* Adds to the buffer, wrapping around at its end.
Add(b, interval) ==
    LET wrap == b.index = SampleSize
        i == IF wrap THEN 0 ELSE b.index
        old == IF b.isFull \/ wrap THEN b.intervals[i] ELSE 0
    IN  [intervals |-> [b.intervals EXCEPT ![i] = interval],
         index |-> i + 1,
         isFull |-> b.isFull \/ wrap,
         sum |-> b.sum - old + interval]

\* Mutant: there is no interval before the first message.
IntervalZero(ws, timestamp) ==
    IF ws = {} THEN 0
    ELSE timestamp - (CHOOSE w \in ws : TRUE).lastTimestamp

\* The interval a message ends; before the first it is taken to be long.
Interval(ws, timestamp) ==
    IF ws = {} THEN BootstrapInterval
    ELSE timestamp - (CHOOSE w \in ws : TRUE).lastTimestamp

\* The window after a message.
Arrived(ws, timestamp) ==
    LET b == IF ws = {} THEN newArrivalIntervals
             ELSE (CHOOSE w \in ws : TRUE).buffer
    IN  {[lastTimestamp |-> timestamp,
          buffer |-> Add(b, Interval(ws, timestamp))]}

\* Mutant: the mean is over the whole buffer before it is full.
SuspectedCapacity(w, timestamp) ==
    (timestamp - w.lastTimestamp) * SampleSize
        > SuspicionThreshold * w.buffer.sum

\* Whether phi, the silence divided by the mean, is above the threshold.
Suspected(w, timestamp) ==
    (timestamp - w.lastTimestamp) * size(w.buffer)
        > SuspicionThreshold * w.buffer.sum

-----------------------------------------------------------------------------
Init ==
    /\ now = 0
    /\ windows = {}
    /\ known = FALSE
    /\ unreachable = FALSE
    /\ expiry = {}
    /\ samples = <<>>

Tick ==
    /\ now < MaxTime
    /\ now' = now + 1
    /\ UNCHANGED <<windows, known, unreachable, expiry, samples>>

\* The node is discovered from a digest or a delta, which may be another's.
Discover ==
    /\ ~known
    /\ known' = TRUE
    /\ UNCHANGED <<now, windows, unreachable, expiry, samples>>

\* A message of the node.  The guard is the assumption about the clock.
Report ==
    /\ \A w \in windows : w.lastTimestamp < now
    /\ windows' = Arrived(windows, now)
    /\ samples' = Append(samples, Interval(windows, now))
    /\ UNCHANGED <<now, known, unreachable, expiry>>

(***************************************************************************)
(* UpdateLiveness: SuspicionLevel makes a window for a node that has none. *)
(***************************************************************************)
UpdateLiveness ==
    /\ known
    /\ windows' = IF windows = {} THEN Arrived(windows, now) ELSE windows
    /\ samples' = IF windows = {} THEN <<BootstrapInterval>> ELSE samples
    /\ \E w \in windows' :
         /\ unreachable' = Suspected(w, now)
         /\ expiry' = IF unreachable' = unreachable THEN expiry
                      ELSE IF unreachable' THEN {now + NodeExpiry} ELSE {}
    /\ UNCHANGED <<now, known>>

RemoveExpired ==
    /\ \E t \in expiry : now > t
    /\ known' = FALSE
    /\ unreachable' = FALSE
    /\ expiry' = {}
    /\ windows' = {}
    /\ samples' = <<>>
    /\ UNCHANGED now

Next == Tick \/ Discover \/ Report \/ UpdateLiveness \/ RemoveExpired

Spec == Init /\ [][Next]_vars

-----------------------------------------------------------------------------
(***************************************************************************)
(* Properties.                                                             *)
(***************************************************************************)

\* The last SampleSize intervals, from the history.
Recent ==
    SubSeq(samples, Max({1, Len(samples) - SampleSize + 1}), Len(samples))

\* The sum of the elements of a sequence.
Total(seq) ==
    LET sums[i \in 0 .. Len(seq)] == IF i = 0 THEN 0 ELSE sums[i - 1] + seq[i]
    IN  sums[Len(seq)]

(***************************************************************************)
(* However often the circular buffer has wrapped around, its size and its  *)
(* running sum are those of the last SampleSize intervals: no interval is  *)
(* counted twice, or after it was overwritten, or in another window.       *)
(***************************************************************************)
WindowSum ==
    /\ windows = {} <=> samples = <<>>
    /\ \A w \in windows :
         /\ size(w.buffer) = Len(Recent)
         /\ w.buffer.sum = Total(Recent)

(***************************************************************************)
(* Phi never panics with "cannot sample phi before any samples arrived": a *)
(* window that exists has a positive mean, even one that UpdateLiveness    *)
(* has just made for a node that never sent anything.                      *)
(***************************************************************************)
PhiDefined == \A w \in windows : w.buffer.sum > 0 /\ size(w.buffer) > 0

Silence == now - (CHOOSE w \in windows : TRUE).lastTimestamp

VerdictStep ==
    /\ unreachable' /\ ~unreachable /\ windows # {} =>
          \E i \in DOMAIN Recent : Silence > SuspicionThreshold * Recent[i]
    /\ known' /\ ~unreachable' /\ unreachable =>
          \E i \in DOMAIN Recent : Silence <= SuspicionThreshold * Recent[i]

(***************************************************************************)
(* A node becomes unreachable only if it has been silent for longer than   *)
(* the threshold times some recent interval, in particular never a node    *)
(* that keeps to its rhythm; it becomes reachable again only if it has     *)
(* been silent for at most the threshold times some recent interval.       *)
(***************************************************************************)
Verdicts == [][VerdictStep]_vars

=============================================================================
