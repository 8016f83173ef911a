----------------------- MODULE FailureDetectorProofs -----------------------
(***************************************************************************)
(* Proofs about FailureDetector, for all sample sizes, intervals and       *)
(* thresholds: WindowSum, PhiDefined and Verdicts.                         *)
(*                                                                         *)
(* An interval is the difference of two timestamps, so a sum of successive *)
(* intervals is one difference too.  The invariant has the timestamps as a *)
(* function T, with one before the first message for BootstrapInterval.    *)
(***************************************************************************)
EXTENDS FailureDetector, SequenceTheorems, NaturalsInduction,
        WellFoundedInduction, TLAPS

\* Sequence sq has the differences of the timestamps T[0], T[1], ...
Differences(sq, T) ==
    /\ sq \in Seq(Int)
    /\ T \in [0 .. Len(sq) -> Int]
    /\ \A i \in 1 .. Len(sq) : sq[i] = T[i] - T[i - 1] /\ T[i - 1] < T[i]

(***************************************************************************)
(* The buffer after all the samples in sq.  A position below the index has *)
(* a sample of the present round, another one of the round before.         *)
(***************************************************************************)
Ring(b, sq, T) ==
    LET n == Len(sq) IN
    /\ b.intervals \in [0 .. SampleSize - 1 -> Int]
    /\ b.index \in 1 .. SampleSize
    /\ b.isFull \in BOOLEAN
    /\ n >= b.index
    /\ b.isFull => n - b.index >= SampleSize /\ b.sum = T[n] - T[n - SampleSize]
    /\ ~b.isFull => n = b.index /\ b.sum = T[n] - T[0]
    /\ \A j \in 0 .. SampleSize - 1 :
         /\ j < b.index => b.intervals[j] = sq[n - b.index + j + 1]
         /\ b.isFull /\ j >= b.index =>
               b.intervals[j] = sq[n - b.index - SampleSize + j + 1]

Windowed(b, T) ==
    /\ windows = {[lastTimestamp |-> T[Len(samples)], buffer |-> b]}
    /\ T[Len(samples)] <= now
    /\ Differences(samples, T)
    /\ Ring(b, samples, T)

IInv ==
    /\ now \in Nat
    /\ unreachable \in BOOLEAN
    /\ \/ windows = {} /\ samples = <<>> /\ ~unreachable
       \/ \E b, T : Windowed(b, T)

-----------------------------------------------------------------------------
(***************************************************************************)
(* Arithmetic and sums.                                                    *)
(***************************************************************************)

\* A non-empty set of numbers has a least one.
LEMMA Least ==
    ASSUME NEW S \in SUBSET Nat, S # {}
    PROVE  \E m \in S : \A x \in S : m <= x
<1>1. PICK m \in S : \A x \in S : ~(<<x, m>> \in OpToRel(<, Nat))
  BY NatLessThanWellFounded, WFMin, ZenonT(60)
<1>2. \A x \in S : m <= x
  <2> TAKE x \in S
  <2>1. m \in Nat /\ x \in Nat
    OBVIOUS
  <2>2. <<x, m>> \notin OpToRel(<, Nat)
    BY <1>1, ZenonT(60)
  <2>3. ~(x < m)
    BY <2>1, <2>2 DEF OpToRel
  <2> QED  BY <2>1, <2>3
<1> QED  BY <1>2

\* A function whose every difference is at least c grows by at least k * c.
LEMMA Growth ==
    ASSUME NEW k \in Nat, NEW f \in [0 .. k -> Int], NEW c \in Int,
           \A i \in 1 .. k : c <= f[i] - f[i - 1]
    PROVE  k * c <= f[k] - f[0]
<1> DEFINE Bad == {i \in 0 .. k : ~(i * c <= f[i] - f[0])}
<1>1. SUFFICES ASSUME Bad # {} PROVE FALSE
  <2>1. k \in 0 .. k
    OBVIOUS
  <2> QED  BY <2>1, Zenon
<1>2. PICK m \in Bad : \A x \in Bad : m <= x
  <2>1. Bad \in SUBSET Nat
    OBVIOUS
  <2> HIDE DEF Bad
  <2> QED  BY <1>1, <2>1, Least, Zenon
<1>3. m \in 0 .. k /\ ~(m * c <= f[m] - f[0])
  OBVIOUS
<1>4. m # 0
  <2>1. 0 * c = 0
    OBVIOUS
  <2> QED  BY <1>3, <2>1
<1>5. m - 1 \in 0 .. k /\ m \in 1 .. k
  BY <1>3, <1>4
<1>6. (m - 1) * c <= f[m - 1] - f[0]
  <2>1. m - 1 \notin Bad
    <3> HIDE DEF Bad
    <3> QED  BY <1>2, <1>5
  <2> QED  BY <1>5, <2>1
<1>7. (m - 1) * c = m * c - c
  BY <1>3
<1>8. f[m] \in Int /\ f[m - 1] \in Int /\ f[0] \in Int /\ m * c \in Int
  BY <1>3, <1>5
<1> HIDE DEF Bad
<1> QED  BY <1>3, <1>5, <1>6, <1>7, <1>8

\* The greater of two numbers.
LEMMA MaxOfTwo ==
    ASSUME NEW a \in Int, NEW b \in Int
    PROVE  Max({a, b}) = IF a >= b THEN a ELSE b
<1> DEFINE m == IF a >= b THEN a ELSE b
<1>1. m \in {a, b} /\ \A x \in {a, b} : m >= x
  OBVIOUS
<1>2. Max({a, b}) \in {a, b} /\ \A x \in {a, b} : Max({a, b}) >= x
  BY <1>1 DEF Max
<1> QED  BY <1>2

\* The total of a sequence of differences.
LEMMA TotalIs ==
    ASSUME NEW sq \in Seq(Int), NEW U \in [0 .. Len(sq) -> Int],
           \A i \in 1 .. Len(sq) : sq[i] = U[i] - U[i - 1]
    PROVE  Total(sq) = U[Len(sq)] - U[0]
<1> DEFINE Step(f) ==
             [i \in 0 .. Len(sq) |-> IF i = 0 THEN 0 ELSE f[i - 1] + sq[i]]
           g == [i \in 0 .. Len(sq) |-> U[i] - U[0]]
           sums == CHOOSE f : f = Step(f)
           Bad == {i \in 0 .. Len(sq) : sums[i] # g[i]}
<1>0. /\ Len(sq) \in Nat
      /\ 0 \in 0 .. Len(sq)
      /\ \A i \in 1 .. Len(sq) : i \in 0 .. Len(sq) /\ i - 1 \in 0 .. Len(sq)
      /\ \A i \in 0 .. Len(sq) : U[i] \in Int
  OBVIOUS
<1>1. Total(sq) = sums[Len(sq)]
  BY DEF Total
<1>2. g = Step(g)
  <2>1. \A i \in 0 .. Len(sq) : g[i] = Step(g)[i]
    <3> TAKE i \in 0 .. Len(sq)
    <3>1. CASE i = 0
      BY <3>1
    <3>2. CASE i # 0
      <4>1. i \in 1 .. Len(sq) /\ i - 1 \in 0 .. Len(sq)
        BY <1>0, <3>2
      <4>2. U[i] \in Int /\ U[i - 1] \in Int /\ U[0] \in Int
        BY <1>0, <4>1, Zenon
      <4> QED  BY <3>2, <4>1, <4>2
    <3> QED  BY <3>1, <3>2
  <2> QED  BY <2>1, Zenon
<1>3. sums = Step(sums)
  <2>1. \E f : f = Step(f)
    BY <1>2, Zenon
  <2> HIDE DEF Step
  <2> QED  BY <2>1
<1>4. \A i \in 0 .. Len(sq) :
        sums[i] = IF i = 0 THEN 0 ELSE sums[i - 1] + sq[i]
  <2> HIDE DEF sums
  <2> QED  BY <1>3, SMTT(30)
<1> HIDE DEF sums
<1>5. Bad = {}
  <2> SUFFICES ASSUME Bad # {} PROVE FALSE
    OBVIOUS
  <2>1. Bad \in SUBSET Nat
    OBVIOUS
  <2>2. PICK m \in Bad : \A x \in Bad : m <= x
    <3> HIDE DEF Bad
    <3> QED  BY <2>1, Least, Zenon
  <2>3. m \in 0 .. Len(sq) /\ sums[m] # U[m] - U[0]
    OBVIOUS
  <2>4. m # 0
    BY <1>0, <1>4, <2>3
  <2>5. m \in 1 .. Len(sq) /\ m - 1 \in 0 .. Len(sq)
    BY <1>0, <2>3, <2>4
  <2>6. sums[m - 1] = U[m - 1] - U[0]
    <3>1. m - 1 \notin Bad
      <4> HIDE DEF Bad
      <4> QED  BY <2>1, <2>2, <2>5
    <3> QED  BY <2>5, <3>1
  <2>7. sums[m] = sums[m - 1] + sq[m]
    BY <1>4, <2>3, <2>4
  <2>8. U[m] \in Int /\ U[m - 1] \in Int /\ U[0] \in Int
    BY <1>0, <2>5, Zenon
  <2>9. sq[m] = U[m] - U[m - 1]
    BY <2>5
  <2> HIDE DEF Bad
  <2> QED  BY <2>3, <2>6, <2>7, <2>8, <2>9
<1>6. Len(sq) \in 0 .. Len(sq)
  BY <1>0
<1>7. sums[Len(sq)] = g[Len(sq)]
  BY <1>5, <1>6, Zenon
<1> QED  BY <1>1, <1>6, <1>7

-----------------------------------------------------------------------------
(***************************************************************************)
(* The circular buffer: it is filled, then overwritten, and wraps around.  *)
(***************************************************************************)

\* What Add leaves in the buffer, field by field.
LEMMA AddFields ==
    ASSUME NEW b, NEW v, b.intervals \in [0 .. SampleSize - 1 -> Int],
           b.index \in 0 .. SampleSize, b.isFull \in BOOLEAN, b.sum \in Int,
           v \in Int
    PROVE  LET c == Add(b, v)
               i == IF b.index = SampleSize THEN 0 ELSE b.index
           IN  /\ c.intervals \in [0 .. SampleSize - 1 -> Int]
               /\ c.intervals[i] = v
               /\ \A j \in 0 .. SampleSize - 1 :
                    j # i => c.intervals[j] = b.intervals[j]
               /\ c.index = i + 1
               /\ c.isFull \in BOOLEAN
               /\ c.isFull <=> b.isFull \/ b.index = SampleSize
               /\ c.isFull => c.sum = b.sum - b.intervals[i] + v
               /\ ~c.isFull => c.sum = b.sum + v
<1> DEFINE c == Add(b, v)
           i == IF b.index = SampleSize THEN 0 ELSE b.index
<1>1. /\ c.intervals = [b.intervals EXCEPT ![i] = v]
      /\ c.index = i + 1
  BY DEF Add
<1>2. c.isFull = (b.isFull \/ b.index = SampleSize)
  BY DEF Add
<1>3. /\ b.isFull \/ b.index = SampleSize => c.sum = b.sum - b.intervals[i] + v
      /\ ~(b.isFull \/ b.index = SampleSize) => c.sum = b.sum - 0 + v
  BY DEF Add
<1>4. b.sum - 0 + v = b.sum + v
  OBVIOUS
<1>5. i \in 0 .. SampleSize - 1
  BY DetectorAssumption
<1> HIDE DEF c, i
<1>6. c.isFull \in BOOLEAN /\ (c.isFull <=> b.isFull \/ b.index = SampleSize)
  BY <1>2, Zenon
<1>7. /\ c.intervals \in [0 .. SampleSize - 1 -> Int]
      /\ c.intervals[i] = v
      /\ \A j \in 0 .. SampleSize - 1 : j # i => c.intervals[j] = b.intervals[j]
  BY <1>1, <1>5, Zenon
<1> QED  BY <1>1, <1>3, <1>4, <1>6, <1>7, Zenon DEF c, i

\* The first sample of a window, whose message is at time t.
LEMMA RingFirst ==
    ASSUME NEW t \in Int
    PROVE  LET T == [i \in 0 .. 1 |-> IF i = 0 THEN t - BootstrapInterval ELSE t]
               sq == <<BootstrapInterval>>
           IN  /\ Differences(sq, T)
               /\ T[Len(sq)] = t
               /\ Ring(Add(newArrivalIntervals, BootstrapInterval), sq, T)
<1> DEFINE T == [i \in 0 .. 1 |-> IF i = 0 THEN t - BootstrapInterval ELSE t]
           sq == <<BootstrapInterval>>
           e == newArrivalIntervals
           b == Add(e, BootstrapInterval)
<1>0. /\ BootstrapInterval \in Int /\ BootstrapInterval > 0
      /\ SampleSize \in Int /\ SampleSize > 0
  BY DetectorAssumption
<1>1. /\ sq \in Seq(Int) /\ Len(sq) = 1 /\ sq[1] = BootstrapInterval
      /\ T \in [0 .. 1 -> Int] /\ T[0] = t - BootstrapInterval /\ T[1] = t
  BY <1>0
<1>2. Differences(sq, T)
  <2>1. \A i \in 1 .. Len(sq) : i = 1 /\ i - 1 = 0
    BY <1>1
  <2>2. sq[1] = T[1] - T[0] /\ T[0] < T[1]
    BY <1>0, <1>1
  <2> HIDE DEF T, sq
  <2>3. \A i \in 1 .. Len(sq) : sq[i] = T[i] - T[i - 1] /\ T[i - 1] < T[i]
    BY <2>1, <2>2
  <2> QED  BY <1>1, <2>3 DEF Differences
<1>3. /\ e.intervals \in [0 .. SampleSize - 1 -> Int]
      /\ e.index = 0 /\ e.isFull = FALSE /\ e.sum = 0
  BY DEF newArrivalIntervals
<1> HIDE DEF T, sq, e
<1>4. /\ b.intervals \in [0 .. SampleSize - 1 -> Int]
      /\ b.intervals[0] = BootstrapInterval
      /\ b.index = 1 /\ b.isFull \in BOOLEAN /\ ~b.isFull
      /\ b.sum = BootstrapInterval
  <2>1. e.index # SampleSize /\ e.sum \in Int /\ e.index \in 0 .. SampleSize
    BY <1>0, <1>3
  <2>2. e.isFull \in BOOLEAN /\ ~e.isFull
    BY <1>3, Zenon
  <2>3. PICK i : i = IF e.index = SampleSize THEN 0 ELSE e.index
    OBVIOUS
  <2>4. /\ b.intervals \in [0 .. SampleSize - 1 -> Int]
        /\ b.intervals[i] = BootstrapInterval
        /\ b.index = i + 1
        /\ b.isFull \in BOOLEAN
        /\ b.isFull <=> e.isFull \/ e.index = SampleSize
        /\ ~b.isFull => b.sum = e.sum + BootstrapInterval
    BY <1>0, <1>3, <2>1, <2>2, <2>3, AddFields
  <2> HIDE DEF b
  <2> QED  BY <1>0, <1>3, <2>1, <2>2, <2>3, <2>4
<1> HIDE DEF b
<1>5. Ring(b, sq, T)
  <2>1. \A j \in 0 .. SampleSize - 1 :
          j < b.index => b.intervals[j] = sq[Len(sq) - b.index + j + 1]
    BY <1>0, <1>1, <1>4
  <2>2. Len(sq) = b.index /\ b.sum = T[Len(sq)] - T[0] /\ 1 \in 1 .. SampleSize
    BY <1>0, <1>1, <1>4
  <2> QED  BY <1>1, <1>4, <2>1, <2>2 DEF Ring
<1> QED  BY <1>1, <1>2, <1>5 DEF T, sq, e, b

\* Every later sample: the one that is SampleSize older leaves the sum.
LEMMA RingNext ==
    ASSUME NEW sq, NEW T, NEW b, NEW t \in Int,
           Differences(sq, T), Ring(b, sq, T), T[Len(sq)] < t
    PROVE  LET v == t - T[Len(sq)]
               U == [k \in 0 .. Len(sq) + 1 |-> IF k = Len(sq) + 1 THEN t ELSE T[k]]
           IN  /\ Differences(Append(sq, v), U)
               /\ U[Len(Append(sq, v))] = t
               /\ Ring(Add(b, v), Append(sq, v), U)
<1> DEFINE n == Len(sq)
           v == t - T[n]
           U == [k \in 0 .. n + 1 |-> IF k = n + 1 THEN t ELSE T[k]]
           s2 == Append(sq, v)
           c == Add(b, v)
<1>0. /\ SampleSize \in Int /\ SampleSize > 0
      /\ sq \in Seq(Int) /\ n \in Nat
      /\ \A k \in 0 .. n : T[k] \in Int
  <2>1. SampleSize \in Int /\ SampleSize > 0
    BY DetectorAssumption
  <2>2. sq \in Seq(Int) /\ T \in [0 .. n -> Int]
    BY Zenon DEF Differences
  <2> QED  BY <2>1, <2>2
<1>1. /\ b.intervals \in [0 .. SampleSize - 1 -> Int]
      /\ b.index \in 1 .. SampleSize
      /\ b.isFull \in BOOLEAN
      /\ n >= b.index
  BY DEF Ring
<1>2. /\ b.isFull => n - b.index >= SampleSize /\ b.sum = T[n] - T[n - SampleSize]
      /\ ~b.isFull => n = b.index /\ b.sum = T[n] - T[0]
  BY Zenon DEF Ring
<1>3. \A j \in 0 .. SampleSize - 1 :
        /\ j < b.index => b.intervals[j] = sq[n - b.index + j + 1]
        /\ b.isFull /\ j >= b.index =>
              b.intervals[j] = sq[n - b.index - SampleSize + j + 1]
  BY Zenon DEF Ring
<1>4. v \in Int /\ v > 0 /\ T[n] \in Int /\ T[0] \in Int /\ n + 1 \in Nat
  BY <1>0
<1>5. /\ s2 \in Seq(Int) /\ Len(s2) = n + 1 /\ s2[n + 1] = v
      /\ \A k \in 1 .. n : s2[k] = sq[k]
  BY <1>0, <1>4, AppendProperties
<1>6. /\ U \in [0 .. n + 1 -> Int] /\ U[n + 1] = t
      /\ \A k \in 0 .. n : U[k] = T[k]
  BY <1>0
<1>7. v = t - T[n]
  OBVIOUS
<1> HIDE DEF n, v, U, s2
<1>8. Differences(s2, U)
  <2>1. ASSUME NEW k \in 1 .. n + 1
        PROVE  s2[k] = U[k] - U[k - 1] /\ U[k - 1] < U[k]
    <3>1. CASE k = n + 1
      <4>1. k - 1 = n /\ n \in 0 .. n
        BY <1>0, <3>1
      <4>2. U[k - 1] = T[n] /\ T[n] < t
        BY <1>6, <4>1 DEF n
      <4> QED  BY <1>4, <1>5, <1>6, <1>7, <3>1, <4>2
    <3>2. CASE k # n + 1
      <4>1. k \in 1 .. n /\ k \in 0 .. n /\ k - 1 \in 0 .. n
        BY <1>0, <3>2
      <4>2. sq[k] = T[k] - T[k - 1] /\ T[k - 1] < T[k]
        BY <4>1 DEF Differences, n
      <4> QED  BY <1>5, <1>6, <4>1, <4>2
    <3> QED  BY <3>1, <3>2
  <2> QED  BY <1>5, <1>6, <2>1 DEF Differences
<1>9. b.sum \in Int /\ b.index \in 0 .. SampleSize
  <2>1. b.isFull => n - SampleSize \in 0 .. n
    BY <1>0, <1>1, <1>2
  <2> QED  BY <1>0, <1>1, <1>2, <1>4, <2>1
<1>10. PICK i : i = IF b.index = SampleSize THEN 0 ELSE b.index
  OBVIOUS
<1>11. /\ c.intervals \in [0 .. SampleSize - 1 -> Int]
       /\ c.intervals[i] = v
       /\ \A j \in 0 .. SampleSize - 1 :
            j # i => c.intervals[j] = b.intervals[j]
       /\ c.index = i + 1
       /\ c.isFull \in BOOLEAN
       /\ c.isFull <=> b.isFull \/ b.index = SampleSize
       /\ c.isFull => c.sum = b.sum - b.intervals[i] + v
       /\ ~c.isFull => c.sum = b.sum + v
  BY <1>1, <1>4, <1>9, <1>10, AddFields
<1> HIDE DEF c
<1>12. PICK m \in Nat : m = n + 1 /\ m = Len(s2)
  BY <1>4, <1>5
<1>13. n \in Int /\ m \in Int /\ m = n + 1 /\ SampleSize \in Int /\ SampleSize > 0
  BY <1>0, <1>12
<1>14. /\ i \in Int /\ b.index \in Int /\ c.index \in Int
       /\ 1 <= b.index /\ b.index <= SampleSize
       /\ b.index = SampleSize => i = 0 /\ c.index = 1
       /\ b.index # SampleSize => i = b.index /\ c.index = b.index + 1
  BY <1>0, <1>1, <1>10, <1>11
<1>15. /\ b.index = SampleSize => c.isFull
       /\ b.index # SampleSize => (c.isFull <=> b.isFull)
  BY <1>11, Zenon
<1>16. /\ i \in 0 .. SampleSize - 1
       /\ c.index \in 1 .. SampleSize
       /\ c.isFull => m - c.index >= SampleSize
       /\ ~c.isFull => m = c.index
       /\ m >= c.index
  <2>1. CASE b.index = SampleSize
    <3>1. i = 0 /\ c.index = 1 /\ c.isFull /\ n >= SampleSize
      BY <1>1, <1>14, <1>15, <2>1
    <3> QED  BY <1>13, <3>1
  <2>2. CASE b.index # SampleSize
    <3>1. i = b.index /\ c.index = b.index + 1
      BY <1>14, <2>2
    <3>2. /\ c.isFull => n - b.index >= SampleSize
          /\ ~c.isFull => n = b.index
      BY <1>2, <1>15, <2>2, Zenon
    <3>3. n >= b.index /\ b.index \in Int /\ 1 <= b.index /\ b.index <= SampleSize
      BY <1>1, <1>14
    <3> QED  BY <1>13, <2>2, <3>1, <3>2, <3>3
  <2> QED  BY <2>1, <2>2
<1>17. ASSUME NEW j \in 0 .. SampleSize - 1
       PROVE  /\ j < c.index => c.intervals[j] = s2[m - c.index + j + 1]
              /\ c.isFull /\ j >= c.index =>
                    c.intervals[j] = s2[m - c.index - SampleSize + j + 1]
  <2>1. CASE j = i
    <3>1. j < c.index /\ m - c.index + j + 1 = n + 1
      BY <1>13, <1>11, <1>16, <2>1
    <3> QED  BY <1>5, <1>11, <1>16, <2>1, <3>1
  <2>2. CASE j # i /\ b.index = SampleSize
    <3>1. /\ j < b.index /\ j >= c.index
          /\ m - c.index - SampleSize + j + 1 = n - b.index + j + 1
          /\ n - b.index + j + 1 \in 1 .. n
      <4>1. j \in Int /\ 0 <= j /\ j <= SampleSize - 1 /\ c.index = 1 /\ j # 0
        BY <1>13, <1>14, <2>2
      <4>2. n >= SampleSize
        BY <1>1, <2>2
      <4> QED  BY <1>13, <2>2, <4>1, <4>2
    <3>2. b.intervals[j] = sq[n - b.index + j + 1]
      BY <1>3, <3>1
    <3>3. ~(j < c.index)
      BY <1>14, <3>1
    <3> QED  BY <1>5, <1>11, <2>2, <3>1, <3>2, <3>3
  <2>3. CASE j # i /\ b.index # SampleSize
    <3>1. /\ c.index = b.index + 1 /\ i = b.index
          /\ j \in Int /\ 0 <= j /\ j <= SampleSize - 1
      BY <1>13, <1>14, <2>3
    <3>2. CASE j < c.index
      <4>1. /\ j < b.index
            /\ m - c.index + j + 1 = n - b.index + j + 1
            /\ n - b.index + j + 1 \in 1 .. n
        <5>1. j < b.index
          BY <1>14, <2>3, <3>1, <3>2
        <5>2. b.index \in Int /\ n >= b.index
          BY <1>1, <1>14
        <5> QED  BY <1>13, <3>1, <5>1, <5>2
      <4>2. b.intervals[j] = sq[n - b.index + j + 1]
        BY <1>3, <4>1
      <4>3. ~(j >= c.index)
        BY <1>14, <3>1, <3>2
      <4> QED  BY <1>5, <1>11, <2>3, <4>1, <4>2, <4>3
    <3>3. CASE ~(j < c.index) /\ c.isFull
      <4>0. b.isFull /\ n - b.index >= SampleSize
        BY <1>2, <1>15, <2>3, <3>3
      <4>1. /\ j >= b.index
            /\ m - c.index - SampleSize + j + 1 =
                 n - b.index - SampleSize + j + 1
            /\ n - b.index - SampleSize + j + 1 \in 1 .. n
        <5>1. j >= b.index
          BY <1>14, <2>3, <3>1, <3>3
        <5>2. b.index \in Int /\ b.index <= SampleSize /\ 1 <= b.index
          BY <1>14
        <5>3. m - c.index - SampleSize + j + 1 = n - b.index - SampleSize + j + 1
          BY <1>13, <3>1, <5>2, SMTT(30)
        <5>4. n - b.index - SampleSize + j + 1 \in 1 .. n
          BY <1>13, <3>1, <4>0, <5>2
        <5> QED  BY <5>1, <5>3, <5>4
      <4>2. b.intervals[j] = sq[n - b.index - SampleSize + j + 1]
        BY <1>3, <4>0, <4>1
      <4> QED  BY <1>5, <1>11, <2>3, <3>3, <4>1, <4>2
    <3> QED  BY <3>2, <3>3
  <2> QED  BY <2>1, <2>2, <2>3
<1>18. c.isFull => c.sum = U[m] - U[m - SampleSize]
  <2> SUFFICES ASSUME c.isFull PROVE c.sum = U[m] - U[m - SampleSize]
    OBVIOUS
  <2>1. n >= SampleSize /\ b.sum = T[n] - T[n - SampleSize]
    <3>1. CASE b.isFull
      BY <1>13, <1>1, <1>2, <3>1
    <3>2. CASE ~b.isFull
      <4>1. n = b.index /\ b.index = SampleSize /\ n - SampleSize = 0
        BY <1>13, <1>2, <1>15, <3>2
      <4> QED  BY <1>13, <1>2, <3>2, <4>1
    <3> QED  BY <1>1, <3>1, <3>2
  <2>2. /\ n - SampleSize + 1 \in 1 .. n /\ n - SampleSize + 1 \in 0 .. n
        /\ n - SampleSize \in 0 .. n
        /\ n - SampleSize + 1 - 1 = n - SampleSize
        /\ m - SampleSize = n - SampleSize + 1
    BY <1>13, <2>1
  <2>3. b.intervals[i] = sq[n - SampleSize + 1]
    <3>1. CASE b.index = SampleSize
      <4>1. i < b.index /\ n - b.index + i + 1 = n - SampleSize + 1
        BY <1>13, <1>10, <3>1
      <4> QED  BY <1>3, <1>16, <4>1
    <3>2. CASE b.index # SampleSize
      <4>1. /\ i >= b.index /\ b.isFull
            /\ n - b.index - SampleSize + i + 1 = n - SampleSize + 1
        BY <1>13, <1>14, <1>15, <3>2
      <4> QED  BY <1>3, <1>16, <4>1
    <3> QED  BY <3>1, <3>2
  <2>4. sq[n - SampleSize + 1] = T[n - SampleSize + 1] - T[n - SampleSize]
    BY <2>2 DEF Differences, n
  <2>5. /\ T[n - SampleSize] \in Int /\ T[n - SampleSize + 1] \in Int
        /\ U[m - SampleSize] = T[n - SampleSize + 1]
    BY <1>13, <1>6, <2>2
  <2> QED  BY <1>4, <1>6, <1>12, <1>7, <1>11, <2>1, <2>3, <2>4, <2>5, SMTT(30)
<1>19. ~c.isFull => c.sum = U[m] - U[0]
  <2>1. 0 \in 0 .. n
    BY <1>0
  <2> QED  BY <1>1, <1>2, <1>4, <1>12, <1>6, <1>7, <1>11, <2>1
<1>20. Ring(c, s2, U)
  BY <1>12, <1>11, <1>16, <1>17, <1>18, <1>19, Zenon DEF Ring
<1> QED  BY <1>5, <1>6, <1>8, <1>20 DEF c, s2, U, v, n

-----------------------------------------------------------------------------
(***************************************************************************)
(* The recent samples.                                                     *)
(***************************************************************************)

\* The samples the buffer holds are the last ones, and its sum is theirs.
LEMMA RecentIs ==
    ASSUME NEW b, NEW T, Differences(samples, T), Ring(b, samples, T)
    PROVE  LET n == Len(samples)
               k == size(b)
           IN  /\ n \in Nat /\ k \in Nat /\ k > 0 /\ k <= n
               /\ Recent \in Seq(Int)
               /\ Len(Recent) = k
               /\ \A i \in 1 .. k : Recent[i] = samples[n - k + i]
               /\ b.sum = T[n] - T[n - k]
<1> DEFINE n == Len(samples)
           k == size(b)
<1>1. /\ b.index \in 1 .. SampleSize
      /\ b.isFull \in BOOLEAN
      /\ n >= b.index
      /\ b.isFull => n - b.index >= SampleSize /\ b.sum = T[n] - T[n - SampleSize]
      /\ ~b.isFull => n = b.index /\ b.sum = T[n] - T[0]
  BY DEF Ring
<1>2. samples \in Seq(Int)
  BY Zenon DEF Differences
<1>3. n \in Nat /\ SampleSize \in Nat /\ SampleSize > 0
  BY <1>2, DetectorAssumption
<1>4. \A i \in 1 .. n : samples[i] \in Int
  BY <1>2
<1> HIDE DEF n
<1>5. /\ k \in Nat /\ k > 0 /\ k <= n
      /\ b.sum = T[n] - T[n - k]
      /\ (IF 1 >= n - SampleSize + 1 THEN 1 ELSE n - SampleSize + 1) = n - k + 1
  <2>1. CASE b.isFull
    <3>1. k = SampleSize
      BY <2>1 DEF size
    <3>2. n - b.index >= SampleSize /\ b.index \in Int /\ 1 <= b.index
      BY <1>1, <2>1
    <3> HIDE DEF k
    <3>3. n >= SampleSize + 1
      BY <1>3, <3>2
    <3> QED  BY <1>1, <1>3, <2>1, <3>1, <3>3
  <2>2. CASE ~b.isFull
    <3>1. k = n
      BY <1>1, <2>2 DEF size
    <3>2. n <= SampleSize /\ n >= 1
      BY <1>1, <1>3, <2>2
    <3> HIDE DEF k
    <3>3. n - k = 0
      BY <1>3, <3>1
    <3> QED  BY <1>1, <1>3, <2>2, <3>1, <3>2, <3>3
  <2> QED  BY <1>1, <2>1, <2>2
<1> HIDE DEF k
<1>6. Recent = SubSeq(samples, n - k + 1, n)
  <2>1. 1 \in Int /\ n - SampleSize + 1 \in Int
    BY <1>3
  <2>2. Max({1, n - SampleSize + 1}) = n - k + 1
    BY <1>5, <2>1, MaxOfTwo, Zenon
  <2> QED  BY <2>2, Zenon DEF Recent, n
<1>7. /\ n - k + 1 \in Int /\ n \in Int
      /\ \A i \in n - k + 1 .. n : samples[i] \in Int
      /\ n - k + 1 <= n
      /\ n - (n - k + 1) + 1 = k
  BY <1>3, <1>4, <1>5
<1>8. /\ Recent \in Seq(Int)
      /\ Len(Recent) = k
      /\ \A i \in 1 .. k : Recent[i] = samples[n - k + 1 + i - 1]
  BY <1>6, <1>7, SubSeqProperties
<1>9. \A i \in 1 .. k : n - k + 1 + i - 1 = n - k + i
  BY <1>3, <1>5
<1> QED  BY <1>3, <1>5, <1>8, <1>9, Zenon DEF k, n

\* The timestamps of the recent samples.
LEMMA RecentTimes ==
    ASSUME NEW b, NEW T, Differences(samples, T), Ring(b, samples, T)
    PROVE  LET k == size(b)
               U == [i \in 0 .. k |-> T[Len(samples) - k + i]]
           IN  /\ U \in [0 .. k -> Int]
               /\ \A i \in 1 .. k : Recent[i] = U[i] - U[i - 1] /\ U[i - 1] < U[i]
               /\ b.sum = U[k] - U[0]
<1> DEFINE n == Len(samples)
           k == size(b)
           U == [i \in 0 .. k |-> T[n - k + i]]
<1>1. /\ n \in Nat /\ k \in Nat /\ k > 0 /\ k <= n
      /\ \A i \in 1 .. k : Recent[i] = samples[n - k + i]
      /\ b.sum = T[n] - T[n - k]
  BY RecentIs, Zenon
<1>2. /\ T \in [0 .. n -> Int]
      /\ \A i \in 1 .. n : samples[i] = T[i] - T[i - 1] /\ T[i - 1] < T[i]
  BY Zenon DEF Differences
<1> HIDE DEF n, k
<1>3. \A i \in 0 .. k : n - k + i \in 0 .. n /\ U[i] = T[n - k + i]
  BY <1>1
<1>4. U \in [0 .. k -> Int]
  BY <1>2, <1>3
<1>5. n - k + k = n /\ n - k + 0 = n - k /\ k \in 0 .. k /\ 0 \in 0 .. k
  BY <1>1
<1> HIDE DEF U
<1>6. b.sum = U[k] - U[0]
  BY <1>1, <1>3, <1>5
<1>7. ASSUME NEW i \in 1 .. k
      PROVE  Recent[i] = U[i] - U[i - 1] /\ U[i - 1] < U[i]
  <2>1. /\ i \in 0 .. k /\ i - 1 \in 0 .. k
        /\ n - k + i \in 1 .. n /\ n - k + (i - 1) = n - k + i - 1
    BY <1>1
  <2>2. U[i] = T[n - k + i] /\ U[i - 1] = T[n - k + i - 1]
    BY <1>3, <2>1
  <2> QED  BY <1>1, <1>2, <2>1, <2>2
<1> QED  BY <1>4, <1>6, <1>7, Zenon DEF U, n, k

-----------------------------------------------------------------------------
(***************************************************************************)
(* The mean lies between the least and the greatest recent interval.       *)
(***************************************************************************)

\* The recent timestamps, multiplied by a factor.
LEMMA Scaled ==
    ASSUME NEW b, NEW T, Differences(samples, T), Ring(b, samples, T), NEW r \in Int
    PROVE  LET k == size(b)
           IN  \E V \in [0 .. k -> Int] :
                 /\ \A i \in 1 .. k : r * Recent[i] = V[i] - V[i - 1]
                 /\ r * b.sum = V[k] - V[0]
<1> DEFINE k == size(b)
           U == [i \in 0 .. k |-> T[Len(samples) - k + i]]
           V == [i \in 0 .. k |-> r * U[i]]
<1>1. k \in Nat /\ k > 0
  BY RecentIs, Zenon
<1>2. /\ U \in [0 .. k -> Int]
      /\ \A i \in 1 .. k : Recent[i] = U[i] - U[i - 1] /\ U[i - 1] < U[i]
      /\ b.sum = U[k] - U[0]
  BY RecentTimes, Zenon
<1> HIDE DEF k, U
<1>3. \A i \in 0 .. k : U[i] \in Int /\ r * U[i] \in Int /\ V[i] = r * U[i]
  BY <1>2
<1>4. V \in [0 .. k -> Int]
  BY <1>3
<1> HIDE DEF V
<1>5. \A x, y \in Int : r * (x - y) = r * x - r * y
  OBVIOUS
<1>6. ASSUME NEW i \in 1 .. k
      PROVE  r * Recent[i] = V[i] - V[i - 1]
  <2>1. i \in 0 .. k /\ i - 1 \in 0 .. k
    BY <1>1
  <2> QED  BY <1>2, <1>3, <1>5, <2>1
<1>7. r * b.sum = V[k] - V[0]
  <2>1. k \in 0 .. k /\ 0 \in 0 .. k
    BY <1>1
  <2> QED  BY <1>2, <1>3, <1>5, <2>1
<1> QED  BY <1>4, <1>6, <1>7, Zenon DEF k

\* A silence that is long for the mean is long for some recent interval.
LEMMA SomeShort ==
    ASSUME NEW b, NEW T, Differences(samples, T), Ring(b, samples, T),
           NEW z \in Int, z * size(b) > SuspicionThreshold * b.sum
    PROVE  \E i \in DOMAIN Recent : z > SuspicionThreshold * Recent[i]
<1> DEFINE k == size(b)
<1>1. k \in Nat /\ k > 0 /\ Recent \in Seq(Int) /\ Len(Recent) = k
  BY RecentIs, Zenon
<1>2. DOMAIN Recent = 1 .. k /\ \A i \in 1 .. k : Recent[i] \in Int
  BY <1>1
<1>3. PICK r \in Int : r = SuspicionThreshold
  BY DetectorAssumption
<1>4. PICK V \in [0 .. k -> Int] :
        /\ \A i \in 1 .. k : r * Recent[i] = V[i] - V[i - 1]
        /\ r * b.sum = V[k] - V[0]
  BY <1>3, Scaled, Zenon
<1>5. z * k > r * b.sum
  BY <1>3
<1> HIDE DEF k
<1>6. SUFFICES ASSUME \A i \in 1 .. k : ~(z > r * Recent[i]) PROVE FALSE
  BY <1>2, <1>3
<1>7. \A i \in 1 .. k : z <= V[i] - V[i - 1]
  <2> TAKE i \in 1 .. k
  <2>1. r * Recent[i] \in Int
    BY <1>2
  <2> QED  BY <1>4, <1>6, <2>1
<1>8. k * z <= V[k] - V[0]
  BY <1>1, <1>7, Growth, Zenon
<1>9. k * z = z * k /\ z * k \in Int
  BY <1>1
<1>10. V[k] - V[0] \in Int
  BY <1>1
<1> QED  BY <1>4, <1>5, <1>8, <1>9, <1>10

\* A silence that is not long for the mean is not long for some recent one.
LEMMA SomeLong ==
    ASSUME NEW b, NEW T, Differences(samples, T), Ring(b, samples, T),
           NEW z \in Int, ~(z * size(b) > SuspicionThreshold * b.sum)
    PROVE  \E i \in DOMAIN Recent : z <= SuspicionThreshold * Recent[i]
<1> DEFINE k == size(b)
<1>1. k \in Nat /\ k > 0 /\ Recent \in Seq(Int) /\ Len(Recent) = k
  BY RecentIs, Zenon
<1>2. DOMAIN Recent = 1 .. k /\ \A i \in 1 .. k : Recent[i] \in Int
  BY <1>1
<1>3. PICK r \in Int : r = 0 - SuspicionThreshold
  BY DetectorAssumption
<1>4. PICK V \in [0 .. k -> Int] :
        /\ \A i \in 1 .. k : r * Recent[i] = V[i] - V[i - 1]
        /\ r * b.sum = V[k] - V[0]
  BY Scaled, Zenon
<1>5. PICK c \in Int : c = 1 - z
  OBVIOUS
<1>6. SuspicionThreshold \in Int /\ \A x \in Int : r * x = 0 - SuspicionThreshold * x
  BY <1>3, DetectorAssumption
<1>7. b.sum \in Int
  <2>1. /\ Len(samples) \in Nat /\ k <= Len(samples)
        /\ b.sum = T[Len(samples)] - T[Len(samples) - k]
    BY RecentIs, Zenon
  <2>2. T \in [0 .. Len(samples) -> Int]
    BY Zenon DEF Differences
  <2> HIDE DEF k
  <2>3. Len(samples) \in 0 .. Len(samples) /\ Len(samples) - k \in 0 .. Len(samples)
    BY <1>1, <2>1
  <2> QED  BY <2>1, <2>2, <2>3
<1>8. ~(z * k > SuspicionThreshold * b.sum)
  OBVIOUS
<1> HIDE DEF k
<1>9. SUFFICES ASSUME \A i \in 1 .. k : ~(z <= SuspicionThreshold * Recent[i])
               PROVE  FALSE
  BY <1>2
<1>10. \A i \in 1 .. k : c <= V[i] - V[i - 1]
  <2> TAKE i \in 1 .. k
  <2>1. SuspicionThreshold * Recent[i] \in Int
    BY <1>2, <1>6
  <2>2. r * Recent[i] = 0 - SuspicionThreshold * Recent[i]
    BY <1>2, <1>6, Zenon
  <2> QED  BY <1>4, <1>5, <1>9, <2>1, <2>2
<1>11. k * c <= V[k] - V[0]
  BY <1>1, <1>10, Growth, Zenon
<1>12. k * c = k - z * k /\ z * k \in Int
  BY <1>1, <1>5
<1>13. PICK p \in Int : p = z * k
  BY <1>12
<1>14. PICK q \in Int : q = SuspicionThreshold * b.sum /\ r * b.sum = 0 - q
  <2>1. PICK y \in Int : y = b.sum
    BY <1>7
  <2>2. PICK h \in Int : h = SuspicionThreshold
    BY <1>6
  <2>3. h * y \in Int
    BY <2>1, <2>2
  <2>4. r * y = 0 - h * y
    BY <1>6, <2>2, Zenon
  <2> QED  BY <2>1, <2>2, <2>3, <2>4, Zenon
<1>15. k - p <= 0 - q
  BY <1>4, <1>11, <1>12, <1>13, <1>14
<1>16. p <= q
  BY <1>8, <1>13, <1>14
<1> QED  BY <1>1, <1>15, <1>16

-----------------------------------------------------------------------------
(***************************************************************************)
(* A step preserves the invariant.                                         *)
(***************************************************************************)

\* The window of a node that had none.
LEMMA FirstWindow ==
    ASSUME NEW t \in Nat
    PROVE  \E b, T : /\ Arrived({}, t) = {[lastTimestamp |-> t, buffer |-> b]}
                    /\ Differences(<<BootstrapInterval>>, T)
                    /\ T[Len(<<BootstrapInterval>>)] = t
                    /\ Ring(b, <<BootstrapInterval>>, T)
<1>1. Arrived({}, t) =
        {[lastTimestamp |-> t, buffer |-> Add(newArrivalIntervals, BootstrapInterval)]}
  BY DEF Arrived, Interval
<1>2. t \in Int
  OBVIOUS
<1> QED  BY <1>1, <1>2, RingFirst, Zenon

\* The message after the last one of a window.
LEMMA NextWindow ==
    ASSUME NEW b, NEW T, NEW t \in Nat, Windowed(b, T), T[Len(samples)] < t
    PROVE  \E c, U :
             LET sq == Append(samples, Interval(windows, t))
             IN  /\ Arrived(windows, t) = {[lastTimestamp |-> t, buffer |-> c]}
                 /\ Differences(sq, U)
                 /\ U[Len(sq)] = t
                 /\ Ring(c, sq, U)
<1> DEFINE w == [lastTimestamp |-> T[Len(samples)], buffer |-> b]
           v == t - T[Len(samples)]
<1>1. windows = {w}
  BY DEF Windowed
<1>2. windows # {} /\ (CHOOSE x \in windows : TRUE) = w
  BY <1>1, Zenon
<1>3. w.lastTimestamp = T[Len(samples)] /\ w.buffer = b
  OBVIOUS
<1> HIDE DEF w
<1>4. Interval(windows, t) = v
  BY <1>2, <1>3, Zenon DEF Interval
<1>5. Arrived(windows, t) = {[lastTimestamp |-> t, buffer |-> Add(b, v)]}
  BY <1>2, <1>3, <1>4, Zenon DEF Arrived
<1>6. t \in Int /\ Differences(samples, T) /\ Ring(b, samples, T)
  BY DEF Windowed
<1>7. \E U : /\ Differences(Append(samples, v), U)
             /\ U[Len(Append(samples, v))] = t
             /\ Ring(Add(b, v), Append(samples, v), U)
  BY <1>6, RingNext, Zenon
<1> HIDE DEF v
<1> QED  BY <1>4, <1>5, <1>7, Zenon

\* There is no window at first.
LEMMA InitIInv == Init => IInv
<1> SUFFICES ASSUME Init PROVE IInv
  OBVIOUS
<1>1. now \in Nat
  BY DEF Init
<1> QED  BY <1>1, Zenon DEF Init, IInv

\* A message adds a timestamp, and RemoveExpired forgets them all.
LEMMA NextIInv == IInv /\ [Next]_vars => IInv'
<1> SUFFICES ASSUME IInv, [Next]_vars PROVE IInv'
  OBVIOUS
<1>0. now \in Nat /\ unreachable \in BOOLEAN
  BY DEF IInv
<1>1. CASE now' \in Nat /\ now <= now' /\ UNCHANGED <<windows, unreachable, samples>>
  <2>1. CASE windows = {} /\ samples = <<>> /\ ~unreachable
    BY <1>0, <1>1, <2>1 DEF IInv
  <2>2. CASE \E b, T : Windowed(b, T)
    <3>1. PICK b, T : Windowed(b, T)
      BY <2>2
    <3>2. T[Len(samples)] <= now /\ T[Len(samples)] \in Int
      <4>1. samples \in Seq(Int) /\ T \in [0 .. Len(samples) -> Int]
        BY <3>1, Zenon DEF Windowed, Differences
      <4>2. Len(samples) \in 0 .. Len(samples)
        BY <4>1
      <4> QED  BY <3>1, <4>1, <4>2 DEF Windowed
    <3>3. T[Len(samples)] <= now'
      BY <1>0, <1>1, <3>2
    <3>4. Windowed(b, T)'
      BY <1>1, <3>1, <3>3, Zenon DEF Windowed, Differences, Ring
    <3> QED  BY <1>0, <1>1, <3>4, Zenon DEF IInv
  <2> QED  BY <2>1, <2>2 DEF IInv
<1>2. CASE Report
  <2>1. now' = now /\ unreachable' = unreachable
    BY <1>2 DEF Report
  <2>2. CASE windows = {} /\ samples = <<>>
    <3>1. PICK b, T : /\ Arrived({}, now) = {[lastTimestamp |-> now, buffer |-> b]}
                      /\ Differences(<<BootstrapInterval>>, T)
                      /\ T[Len(<<BootstrapInterval>>)] = now
                      /\ Ring(b, <<BootstrapInterval>>, T)
      BY <1>0, FirstWindow, Zenon
    <3>2. samples' = <<BootstrapInterval>> /\ windows' = Arrived({}, now)
      BY <1>2, <2>2 DEF Report, Interval
    <3>3. now <= now
      BY <1>0
    <3>4. Windowed(b, T)'
      BY <2>1, <3>1, <3>2, <3>3, Zenon DEF Windowed, Differences, Ring
    <3> QED  BY <1>0, <2>1, <3>4, Zenon DEF IInv
  <2>3. CASE \E b, T : Windowed(b, T)
    <3>1. PICK b, T : Windowed(b, T)
      BY <2>3
    <3>2. T[Len(samples)] < now
      BY <1>2, <3>1 DEF Report, Windowed
    <3>3. PICK c, U :
             LET sq == Append(samples, Interval(windows, now))
             IN  /\ Arrived(windows, now) = {[lastTimestamp |-> now, buffer |-> c]}
                 /\ Differences(sq, U)
                 /\ U[Len(sq)] = now
                 /\ Ring(c, sq, U)
      BY <1>0, <3>1, <3>2, NextWindow, Zenon
    <3>4. /\ samples' = Append(samples, Interval(windows, now))
          /\ windows' = Arrived(windows, now)
      BY <1>2 DEF Report
    <3>5. now <= now
      BY <1>0
    <3>6. Windowed(c, U)'
      BY <2>1, <3>3, <3>4, <3>5, Zenon DEF Windowed, Differences, Ring
    <3> QED  BY <1>0, <2>1, <3>6, Zenon DEF IInv
  <2> QED  BY <2>2, <2>3 DEF IInv
<1>3. CASE UpdateLiveness
  <2>1. now' = now /\ unreachable' \in BOOLEAN
    BY <1>3 DEF UpdateLiveness, Suspected
  <2>2. CASE windows = {} /\ samples = <<>>
    <3>1. PICK b, T : /\ Arrived({}, now) = {[lastTimestamp |-> now, buffer |-> b]}
                      /\ Differences(<<BootstrapInterval>>, T)
                      /\ T[Len(<<BootstrapInterval>>)] = now
                      /\ Ring(b, <<BootstrapInterval>>, T)
      BY <1>0, FirstWindow, Zenon
    <3>2. samples' = <<BootstrapInterval>> /\ windows' = Arrived({}, now)
      BY <1>3, <2>2 DEF UpdateLiveness
    <3>3. now <= now
      BY <1>0
    <3>4. Windowed(b, T)'
      BY <2>1, <3>1, <3>2, <3>3, Zenon DEF Windowed, Differences, Ring
    <3> QED  BY <1>0, <2>1, <3>4, Zenon DEF IInv
  <2>3. CASE \E b, T : Windowed(b, T)
    <3>1. PICK b, T : Windowed(b, T)
      BY <2>3
    <3>2. windows # {}
      BY <3>1, Zenon DEF Windowed
    <3>3. samples' = samples /\ windows' = windows
      BY <1>3, <3>2 DEF UpdateLiveness
    <3>4. Windowed(b, T)'
      BY <2>1, <3>1, <3>3, Zenon DEF Windowed, Differences, Ring
    <3> QED  BY <1>0, <2>1, <3>4, Zenon DEF IInv
  <2> QED  BY <2>2, <2>3 DEF IInv
<1>4. CASE RemoveExpired
  BY <1>0, <1>4, Zenon DEF RemoveExpired, IInv
<1>5. CASE Tick \/ Discover \/ UNCHANGED vars
  <2>1. now' \in Nat /\ now <= now' /\ UNCHANGED <<windows, unreachable, samples>>
    BY <1>0, <1>5 DEF Tick, Discover, vars
  <2> QED  BY <1>1, <2>1
<1> QED  BY <1>2, <1>3, <1>4, <1>5 DEF Next

-----------------------------------------------------------------------------
(***************************************************************************)
(* The theorems.                                                           *)
(***************************************************************************)

\* The buffer of arrivalWindow has the differences of successive timestamps, the
\* last SampleSize of them, and a node without a window is not unreachable.
THEOREM Invariance == Spec => []IInv
<1> QED  BY InitIInv, NextIInv, PTL DEF Spec

\* Size and running sum of the circular buffer are those of the last intervals,
\* however often it has wrapped around.
THEOREM WindowSumHolds == Spec => []WindowSum
<1>1. IInv => WindowSum
  <2> SUFFICES ASSUME IInv PROVE WindowSum
    OBVIOUS
  <2>1. CASE windows = {} /\ samples = <<>>
    BY <2>1 DEF WindowSum
  <2>2. CASE \E b, T : Windowed(b, T)
    <3>1. PICK b, T : Windowed(b, T)
      BY <2>2
    <3>2. Differences(samples, T) /\ Ring(b, samples, T)
      BY <3>1 DEF Windowed
    <3> DEFINE k == size(b)
               U == [i \in 0 .. k |-> T[Len(samples) - k + i]]
    <3>3. /\ Len(samples) \in Nat /\ k \in Nat /\ k > 0 /\ k <= Len(samples)
          /\ Recent \in Seq(Int) /\ Len(Recent) = k
      BY <3>2, RecentIs, Zenon
    <3>4. /\ U \in [0 .. k -> Int]
          /\ \A i \in 1 .. k : Recent[i] = U[i] - U[i - 1]
          /\ b.sum = U[k] - U[0]
      BY <3>2, RecentTimes, Zenon
    <3> HIDE DEF k, U
    <3>5. b.sum = Total(Recent)
      BY <3>3, <3>4, TotalIs, Zenon
    <3>6. samples # <<>> /\ windows # {}
      BY <3>1, <3>3 DEF Windowed
    <3>7. \A w \in windows : w.buffer = b
      BY <3>1 DEF Windowed
    <3> QED  BY <3>3, <3>5, <3>6, <3>7 DEF WindowSum, k
  <2> QED  BY <2>1, <2>2 DEF IInv
<1> QED  BY <1>1, Invariance, PTL

\* A window that exists has samples and a positive mean: Phi does not panic.
THEOREM PhiDefinedHolds == Spec => []PhiDefined
<1>1. IInv => PhiDefined
  <2> SUFFICES ASSUME IInv, NEW w \in windows
               PROVE  w.buffer.sum > 0 /\ size(w.buffer) > 0
    BY DEF PhiDefined
  <2>1. PICK b, T : Windowed(b, T)
    BY DEF IInv
  <2>2. Differences(samples, T) /\ Ring(b, samples, T)
    BY <2>1 DEF Windowed
  <2>3. w.buffer = b
    BY <2>1 DEF Windowed
  <2> DEFINE k == size(b)
             U == [i \in 0 .. k |-> T[Len(samples) - k + i]]
  <2>4. k \in Nat /\ k > 0
    BY <2>2, RecentIs, Zenon
  <2>5. /\ U \in [0 .. k -> Int]
        /\ \A i \in 1 .. k : Recent[i] = U[i] - U[i - 1] /\ U[i - 1] < U[i]
        /\ b.sum = U[k] - U[0]
    BY <2>2, RecentTimes, Zenon
  <2> HIDE DEF k, U
  <2>6. \A i \in 1 .. k : 1 <= U[i] - U[i - 1]
    <3> TAKE i \in 1 .. k
    <3>1. i \in 0 .. k /\ i - 1 \in 0 .. k
      BY <2>4
    <3>2. U[i] \in Int /\ U[i - 1] \in Int
      BY <2>5, <3>1
    <3> QED  BY <2>5, <3>2
  <2>7. PICK c \in Int : c = 1
    OBVIOUS
  <2>8. k * c <= U[k] - U[0]
    BY <2>4, <2>5, <2>6, <2>7, Growth, Zenon
  <2>9. U[k] \in Int /\ U[0] \in Int
    BY <2>4, <2>5
  <2>10. b.sum > 0
    BY <2>4, <2>5, <2>7, <2>8, <2>9
  <2> QED  BY <2>3, <2>4, <2>10 DEF k
<1> QED  BY <1>1, Invariance, PTL

\* A node becomes unreachable only if it has been silent for longer than the
\* threshold times some recent interval, and reachable again only if it has not
\* been silent for longer than the threshold times some recent interval.
THEOREM VerdictsHolds == Spec => Verdicts
<1>1. IInv /\ [Next]_vars => [VerdictStep]_vars
  <2> SUFFICES ASSUME IInv, Next PROVE VerdictStep
    BY DEF vars
  <2>1. CASE Tick \/ Discover \/ Report \/ RemoveExpired
    <3>1. /\ unreachable' => unreachable
          /\ unreachable => unreachable' \/ ~known'
      <4>1. unreachable \in BOOLEAN
        BY DEF IInv
      <4> QED  BY <2>1, <4>1 DEF Tick, Discover, Report, RemoveExpired
    <3> QED  BY <3>1 DEF VerdictStep
  <2>2. CASE UpdateLiveness
    <3>1. CASE windows = {} /\ ~unreachable
      BY <3>1, Zenon DEF VerdictStep
    <3>2. CASE \E b, T : Windowed(b, T)
      <4>1. PICK b, T : Windowed(b, T)
        BY <3>2
      <4>2. Differences(samples, T) /\ Ring(b, samples, T)
        BY <4>1 DEF Windowed
      <4> DEFINE w == [lastTimestamp |-> T[Len(samples)], buffer |-> b]
      <4>3. windows = {w} /\ windows # {}
        BY <4>1 DEF Windowed
      <4>4. w.lastTimestamp = T[Len(samples)] /\ w.buffer = b
        OBVIOUS
      <4> HIDE DEF w
      <4>5. (CHOOSE x \in windows : TRUE) = w
        BY <4>3, Zenon
      <4>6. windows' = {w}
        BY <2>2, <4>3 DEF UpdateLiveness
      <4>7. unreachable' = Suspected(w, now)
        BY <2>2, <4>6, Zenon DEF UpdateLiveness
      <4>8. Silence = now - T[Len(samples)]
        BY <4>4, <4>5, Zenon DEF Silence
      <4>9. unreachable' = (Silence * size(b) > SuspicionThreshold * b.sum)
        BY <4>4, <4>7, <4>8, Zenon DEF Suspected
      <4>10. Silence \in Int
        <5>1. samples \in Seq(Int) /\ T \in [0 .. Len(samples) -> Int] /\ now \in Nat
          BY <4>2, Zenon DEF Differences, IInv
        <5>2. Len(samples) \in 0 .. Len(samples)
          BY <5>1
        <5> QED  BY <4>8, <5>1, <5>2
      <4>11. PICK z \in Int : z = Silence
        BY <4>10
      <4>12. unreachable' => \E i \in DOMAIN Recent : z > SuspicionThreshold * Recent[i]
        BY <4>2, <4>9, <4>11, SomeShort, Zenon
      <4>13. ~unreachable' => \E i \in DOMAIN Recent : z <= SuspicionThreshold * Recent[i]
        BY <4>2, <4>9, <4>11, SomeLong, Zenon
      <4> QED  BY <4>11, <4>12, <4>13, Zenon DEF VerdictStep
    <3> QED  BY <3>1, <3>2 DEF IInv
  <2> QED  BY <2>1, <2>2 DEF Next
<1> QED  BY <1>1, Invariance, PTL DEF Spec, Verdicts

=============================================================================
