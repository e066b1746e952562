---------------------------- MODULE FilterProofs ----------------------------
(***************************************************************************)
(* What the operators of the sampler compute, for windows of any length:    *)
(* the running sum is the sum of the buffer, an average lies between the    *)
(* least and the greatest of its readings, and a weight grows with the      *)
(* reading.                                                                 *)
(*                                                                         *)
(* That a sum is one is said without recursion, by its partial sums; what  *)
(* needs an induction is proved of a least counterexample.                  *)
(***************************************************************************)
EXTENDS Sampler, Minimal, TLAPS, SequenceTheorems

\* what the moving average takes in
Reading == {Clean(raw) : raw \in Raw}

PartialSums(p, buffer) ==
  /\ p \in [0..Len(buffer) -> Int] /\ p[0] = 0
  /\ \A i \in 1..Len(buffer) : p[i] = p[i - 1] + buffer[i]

IsSum(total, buffer) == \E p : PartialSums(p, buffer) /\ p[Len(buffer)] = total

-----------------------------------------------------------------------------
\* Readings between two bounds have a sum between the bounds' multiples.
LEMMA SumBounds ==
  ASSUME NEW buffer \in Seq(Nat), NEW total, IsSum(total, buffer),
         NEW low \in Nat, NEW high \in Nat,
         \A i \in 1..Len(buffer) : low <= buffer[i] /\ buffer[i] <= high
  PROVE  /\ total \in Nat
         /\ Len(buffer) * low <= total /\ total <= Len(buffer) * high
<1> PICK p : PartialSums(p, buffer) /\ p[Len(buffer)] = total
  BY DEF IsSum
<1> DEFINE T == {n \in 0..Len(buffer) : ~(n * low <= p[n] /\ p[n] <= n * high)}
<1>1. Len(buffer) \in Nat /\ \A i \in 1..Len(buffer) : buffer[i] \in Nat
  OBVIOUS
<1>2. \A n \in 0..Len(buffer) : p[n] \in Int
  BY DEF PartialSums
<1>3. ASSUME T # {} PROVE FALSE
  <2>0. T \in SUBSET Nat
    BY <1>1
  <2> PICK n \in T : \A m \in T : n <= m
    <3> HIDE DEF T
    <3> QED BY <1>3, <2>0, LeastNatural
  <2>1. n # 0
    BY DEF PartialSums
  <2>2. n - 1 \in 0..Len(buffer) /\ n \in 1..Len(buffer) /\ n - 1 \notin T
    BY <1>1, <2>1
  <2>3. (n - 1) * low <= p[n - 1] /\ p[n - 1] <= (n - 1) * high
    BY <2>2
  <2>4. p[n] = p[n - 1] + buffer[n] /\ p[n] \in Int /\ p[n - 1] \in Int
    BY <1>2, <2>2 DEF PartialSums
  <2>5. (n - 1) * low + low = n * low /\ (n - 1) * high + high = n * high
    BY <1>1, <2>2
  <2>6. n * low <= p[n] /\ p[n] <= n * high
    <3> DEFINE least == n * low
               most == n * high
               leastBefore == (n - 1) * low
               mostBefore == (n - 1) * high
               here == p[n]
               before == p[n - 1]
               value == buffer[n]
    <3>1. /\ least \in Int /\ most \in Int
          /\ leastBefore \in Int /\ mostBefore \in Int
      BY <1>1, <2>2
    <3>2. value \in Nat /\ low <= value /\ value <= high
      BY <1>1, <2>2
    <3>3. here = before + value /\ here \in Int /\ before \in Int
      BY <2>4
    <3>4. /\ leastBefore <= before /\ before <= mostBefore
          /\ leastBefore + low = least /\ mostBefore + high = most
      BY <2>3, <2>5
    <3>5. least <= here /\ here <= most
      <4> HIDE DEF T, least, most, leastBefore, mostBefore, here, before, value
      <4>1. leastBefore + low <= before + value
        BY <3>1, <3>2, <3>3, <3>4
      <4>2. before + value <= mostBefore + high
        BY <3>1, <3>2, <3>3, <3>4
      <4> QED
        BY <3>3, <3>4, <4>1, <4>2
    <3> QED
      BY <3>5
  <2> QED
    BY <2>6
<1>4. Len(buffer) \notin T
  BY <1>3
<1>5. Len(buffer) * low <= total /\ total <= Len(buffer) * high
  BY <1>1, <1>4
<1>6. Len(buffer) * low >= 0 /\ total \in Int
  BY <1>1, <1>2
<1> QED
  BY <1>5, <1>6

\* An empty buffer has the sum 0.
LEMMA EmptySum == IsSum(0, << >>)
<1>1. PartialSums([i \in 0..0 |-> 0], << >>)
  BY DEF PartialSums
<1> QED
  BY <1>1 DEF IsSum

\* MovingAverage.add keeps the running sum that of the buffer, when the buffer
\* grows and when its oldest value leaves.
LEMMA SumKept ==
  ASSUME NEW Values \in SUBSET Nat, NEW buffer \in Seq(Values), NEW total,
         IsSum(total, buffer), NEW value \in Values, Len(buffer) <= WindowSize
  PROVE  /\ BufferAfter(buffer, value) \in Seq(Values)
         /\ Len(BufferAfter(buffer, value)) \in 1..WindowSize
         /\ IsSum(SumAfter(total, buffer, value), BufferAfter(buffer, value))
<1> PICK p : PartialSums(p, buffer) /\ p[Len(buffer)] = total
  BY DEF IsSum
<1>0. \A v \in Values : v \in Int
  OBVIOUS
<1>1. /\ WindowSize \in Nat \ {0} /\ Len(buffer) \in Nat /\ total \in Int
      /\ value \in Int
  BY FilterAssumption DEF PartialSums
<1>2. CASE ~Full(buffer)
  <2> DEFINE after == Append(buffer, value)
             q == [i \in 0..Len(after) |-> IF i <= Len(buffer) THEN p[i] ELSE total + value]
  <2>1. /\ after \in Seq(Values) /\ Len(after) = Len(buffer) + 1
        /\ \A i \in 1..Len(after) :
             after[i] = IF i <= Len(buffer) THEN buffer[i] ELSE value
    OBVIOUS
  <2>2. after = BufferAfter(buffer, value) /\ SumAfter(total, buffer, value) = total + value
    BY <1>1, <1>2 DEF BufferAfter, SumAfter
  <2> HIDE DEF after
  <2>3. PartialSums(q, after)
    <3>1. q \in [0..Len(after) -> Int] /\ q[0] = 0
      BY <1>1, <2>1 DEF PartialSums
    <3>2. ASSUME NEW i \in 1..Len(after) PROVE q[i] = q[i - 1] + after[i]
      <4>1. CASE i <= Len(buffer)
        <5>1. p[i] = p[i - 1] + buffer[i] /\ after[i] = buffer[i]
          BY <1>1, <2>1, <4>1 DEF PartialSums
        <5>2. q[i] = p[i] /\ q[i - 1] = p[i - 1]
          BY <1>1, <2>1, <4>1
        <5> QED
          BY <5>1, <5>2
      <4>2. CASE i = Len(buffer) + 1
        <5>1. q[i] = total + value /\ q[i - 1] = p[Len(buffer)]
          BY <1>1, <2>1, <4>2
        <5>2. after[i] = value
          BY <1>1, <2>1, <4>2
        <5> QED
          BY <5>1, <5>2
      <4> QED
        BY <1>1, <2>1, <4>1, <4>2
    <3> HIDE DEF q
    <3> QED
      BY <3>1, <3>2 DEF PartialSums
  <2>4. q[Len(after)] = total + value
    BY <1>1, <2>1
  <2> HIDE DEF q
  <2> QED
    BY <1>1, <1>2, <2>1, <2>2, <2>3, <2>4 DEF IsSum, Full
<1>3. CASE Full(buffer)
  <2> DEFINE after == Append(Tail(buffer), value)
             n == Len(buffer)
             q == [i \in 0..n |-> IF i < n THEN p[i + 1] - p[1]
                                    ELSE total + value - p[1]]
  <2>0. n \in Nat \ {0} /\ buffer # << >>
    BY <1>1, <1>3 DEF Full
  <2>1. /\ after \in Seq(Values) /\ Len(after) = n
        /\ \A i \in 1..n : after[i] = IF i < n THEN buffer[i + 1] ELSE value
    BY <2>0
  <2>2. after = BufferAfter(buffer, value)
        /\ SumAfter(total, buffer, value) = total + value - buffer[1]
    BY <1>1, <1>3, <2>0 DEF BufferAfter, SumAfter
  <2>3. p[1] = buffer[1] /\ p[n] = total /\ \A i \in 0..n : p[i] \in Int
    BY <2>0 DEF PartialSums
  <2> HIDE DEF after
  <2>4. PartialSums(q, after)
    <3>1. q \in [0..Len(after) -> Int] /\ q[0] = 0
      <4>1. \A i \in 0..n : i < n => i + 1 \in 0..n
        BY <2>0
      <4>2. 1 \in 0..n /\ total \in Int /\ p[1] \in Int
        BY <1>1, <2>0, <2>3
      <4> QED
        BY <2>0, <2>1, <2>3, <4>1, <4>2
    <3>2. ASSUME NEW i \in 1..n PROVE q[i] = q[i - 1] + after[i]
      <4>1. CASE i < n
        <5>1. p[i + 1] = p[i] + buffer[i + 1]
          BY <2>0, <4>1 DEF PartialSums
        <5>2. q[i] = p[i + 1] - p[1] /\ q[i - 1] = p[i] - p[1]
          BY <2>0, <4>1
        <5>3. p[i] \in Int /\ p[1] \in Int
          BY <2>0, <2>3, <4>1
        <5>4. buffer[i + 1] \in Int
          <6>1. buffer[i + 1] \in Values
            BY <2>0, <4>1
          <6> QED
            BY <1>0, <6>1
        <5>5. after[i] = buffer[i + 1]
          BY <2>1, <4>1
        <5> QED
          BY <5>1, <5>2, <5>3, <5>4, <5>5
      <4>2. CASE i = n
        <5>1. q[i] = total + value - p[1] /\ q[i - 1] = total - p[1]
          BY <2>0, <2>3, <4>2
        <5>2. after[i] = value
          BY <2>1, <4>2
        <5>3. p[1] \in Int /\ total \in Int
          BY <1>1, <2>0, <2>3
        <5> QED
          BY <5>1, <5>2, <5>3
      <4> QED
        BY <2>0, <4>1, <4>2
    <3> HIDE DEF q
    <3> QED
      BY <2>1, <3>1, <3>2 DEF PartialSums
  <2>5. q[n] = total + value - buffer[1]
    BY <2>0, <2>3
  <2> HIDE DEF q
  <2> QED
    BY <1>1, <1>3, <2>1, <2>2, <2>4, <2>5 DEF IsSum, Full
<1> QED
  BY <1>2, <1>3

\* The conversion to grams is defined up to the greatest reading, and grows.
LEMMA GramsGrow ==
  ASSUME NEW c \in DOMAIN Grams, NEW d \in Nat, d <= c
  PROVE  d \in DOMAIN Grams /\ Grams[d] \in Nat /\ Grams[d] <= Grams[c]
<1> DEFINE T == {n \in 0..c : ~(c - n \in DOMAIN Grams /\ Grams[c - n] <= Grams[c])}
<1>1. c \in Nat /\ \A e \in DOMAIN Grams : e \in Nat /\ Grams[e] \in Nat
  BY GramsAssumption
<1>2. ASSUME T # {} PROVE FALSE
  <2>1. T \in SUBSET Nat
    BY <1>1
  <2> PICK n \in T : \A m \in T : n <= m
    <3> HIDE DEF T
    <3> QED BY <1>2, <2>1, LeastNatural
  <2>2. n \in 0..c /\ n # 0
    BY <1>1
  <2>3. n - 1 \in 0..c /\ n - 1 \notin T
    BY <1>1, <2>2
  <2> DEFINE e == c - (n - 1)
  <2>4. e \in DOMAIN Grams /\ Grams[e] <= Grams[c] /\ e # 0 /\ e - 1 = c - n
    BY <1>1, <2>2, <2>3
  <2> HIDE DEF e
  <2>5. e - 1 \in DOMAIN Grams /\ Grams[e - 1] <= Grams[e]
    BY <2>4, GramsAssumption
  <2>6. Grams[e - 1] \in Nat /\ Grams[e] \in Nat /\ Grams[c] \in Nat
    BY <1>1, <2>4, <2>5
  <2>7. c - n \in DOMAIN Grams /\ Grams[c - n] <= Grams[c]
    BY <2>4, <2>5, <2>6
  <2> QED
    BY <2>7
<1>3. c - d \in 0..c /\ c - (c - d) = d
  BY <1>1
<1>4. c - d \notin T
  BY <1>2
<1> QED
  BY <1>1, <1>3, <1>4

\* What is taken in is never negative, and below some value with a weight.
LEMMA ReadingsBounded ==
  \E c \in DOMAIN Grams : c \in Nat /\ Reading \subseteq 0..c
<1> PICK c \in DOMAIN Grams : \A raw \in Raw : raw <= c
  BY GramsAssumption
<1>1. c \in Nat
  BY GramsAssumption
<1>2. ASSUME NEW raw \in Raw PROVE Clean(raw) \in 0..c
  BY <1>1, SensorAssumption, FilterAssumption DEF Clean
<1> QED
  BY <1>1, <1>2 DEF Reading

\* So it has a weight itself.
LEMMA ReadingHasWeight ==
  ASSUME NEW value \in Reading
  PROVE  value \in Nat /\ value \in DOMAIN Grams
<1> PICK c \in DOMAIN Grams : c \in Nat /\ Reading \subseteq 0..c
  BY ReadingsBounded
<1>1. value \in Nat /\ value <= c
  OBVIOUS
<1> QED
  BY <1>1, GramsGrow

\* Every average of readings between two bounds is between them.
LEMMA AverageBounds ==
  ASSUME NEW buffer \in Seq(Nat), NEW total, IsSum(total, buffer),
         Len(buffer) \in 1..WindowSize, NEW low \in Nat, NEW high \in Nat,
         \A i \in 1..Len(buffer) : low <= buffer[i] /\ buffer[i] <= high
  PROVE  /\ Average(total, buffer) \in Nat
         /\ low * Unit <= Average(total, buffer)
         /\ Average(total, buffer) <= high * Unit
<1> DEFINE n == Len(buffer)
           k == Unit \div n
<1>1. /\ total \in Nat
      /\ n * low <= total /\ total <= n * high
  BY SumBounds
<1>2. n \in Nat \ {0} /\ n \in 1..WindowSize /\ Unit \in Nat \ {0} /\ Unit % n = 0
  BY FilterAssumption
<1> HIDE DEF n
<1>3. k \in Nat /\ n * k = Unit
  BY <1>2
<1>4. Average(total, buffer) = total * k
  BY DEF Average, n
<1> HIDE DEF k
<1>5. (n * low) * k = low * Unit /\ (n * high) * k = high * Unit
  BY <1>2, <1>3
<1>6. \A x, y, z \in Nat : x <= y => x * z <= y * z
  OBVIOUS
<1>7. (n * low) * k <= total * k /\ total * k <= (n * high) * k
  BY <1>1, <1>2, <1>3, <1>6
<1>8. total * k \in Nat
  BY <1>1, <1>3
<1> QED
  BY <1>4, <1>5, <1>7, <1>8

\* A whole part of a value counted in units lies between whole bounds of it.
LEMMA WholePart ==
  ASSUME NEW x \in Nat, NEW low \in Nat, NEW high \in Nat,
         low * Unit <= x, x <= high * Unit
  PROVE  x \div Unit \in low..high
<1> DEFINE q == x \div Unit
<1>1. Unit \in Nat \ {0}
  BY FilterAssumption
<1>2. q \in Nat /\ q * Unit <= x /\ x < (q + 1) * Unit
  BY <1>1
<1> HIDE DEF q
<1>3. ASSUME q < low PROVE FALSE
  <2>1. (q + 1) * Unit <= low * Unit
    BY <1>1, <1>2, <1>3
  <2> QED
    BY <1>1, <1>2, <2>1
<1>4. ASSUME high < q PROVE FALSE
  <2>1. (high + 1) * Unit <= q * Unit /\ high * Unit < (high + 1) * Unit
    BY <1>1, <1>2, <1>4
  <2> QED
    BY <1>1, <1>2, <2>1
<1>5. low <= q /\ q <= high
  BY <1>2, <1>3, <1>4
<1> QED
  BY <1>2, <1>5 DEF q

\* correct never yields a value without a weight, whatever the baseline.
LEMMA CorrectedHasWeight ==
  ASSUME NEW buffer \in Seq(Reading), NEW total, IsSum(total, buffer),
         Len(buffer) \in 1..WindowSize, NEW base \in Nat
  PROVE  /\ Corrected(Average(total, buffer), base) \div Unit \in DOMAIN Grams
         /\ Grams[Corrected(Average(total, buffer), base) \div Unit] \in Nat
<1> DEFINE x == Corrected(Average(total, buffer), base)
<1> PICK c \in DOMAIN Grams : c \in Nat /\ Reading \subseteq 0..c
  BY ReadingsBounded
<1>1. c \in Nat /\ Reading \subseteq Nat
  OBVIOUS
<1>2. \A value \in Reading : 0 <= value /\ value <= c
  OBVIOUS
<1>3. buffer \in Seq(Nat) /\ \A i \in 1..Len(buffer) : buffer[i] \in Reading
  <2>1. \A i \in 1..Len(buffer) : buffer[i] \in Reading
    OBVIOUS
  <2> QED
    BY <1>1, <2>1, SeqMonotonic
<1>4. Average(total, buffer) \in Nat /\ Average(total, buffer) <= c * Unit
  <2>1. \A i \in 1..Len(buffer) : 0 <= buffer[i] /\ buffer[i] <= c
    BY <1>2, <1>3
  <2> QED
    BY <1>1, <1>3, <2>1, AverageBounds
<1>5. x \in Nat /\ x <= c * Unit
  BY <1>1, <1>4, FilterAssumption DEF Corrected
<1> HIDE DEF x
<1>6. x \div Unit \in 0..c
  <2>1. 0 * Unit <= x
    BY <1>5, FilterAssumption
  <2> QED
    BY <1>1, <1>5, <2>1, WholePart
<1>7. x \div Unit \in DOMAIN Grams /\ Grams[x \div Unit] \in Nat
  BY <1>1, <1>6, GramsGrow
<1> QED
  BY <1>7 DEF x

\* The weight of a steady reading falls short of it by the baseline at most.
LEMMA WeightOfSteady ==
  ASSUME NEW value \in Reading, NEW base \in Nat, base <= NearZero * Unit
  PROVE  Grams[Corrected(value * Unit, base) \div Unit]
           \in Grams[Corrected(value, NearZero)] .. Grams[value]
<1> DEFINE x == Corrected(value * Unit, base)
           low == Corrected(value, NearZero)
<1>1. /\ value \in Nat /\ value \in DOMAIN Grams
      /\ Unit \in Nat \ {0} /\ NearZero \in Nat
  BY ReadingHasWeight, FilterAssumption
<1>2. low \in Nat /\ low <= value
  BY <1>1 DEF Corrected
<1>3. value * Unit \in Nat /\ NearZero * Unit \in Nat
  BY <1>1
<1>4. (value - NearZero) * Unit = value * Unit - NearZero * Unit
  BY <1>1
<1>5. x \in Nat /\ low * Unit <= x /\ x <= value * Unit
  BY <1>1, <1>3, <1>4 DEF Corrected
<1> HIDE DEF x, low
<1>6. x \div Unit \in low..value
  BY <1>1, <1>2, <1>5, WholePart
<1>7. /\ x \div Unit \in DOMAIN Grams /\ Grams[x \div Unit] \in Nat
      /\ Grams[x \div Unit] <= Grams[value]
  BY <1>1, <1>2, <1>6, GramsGrow
<1>8. /\ Grams[low] \in Nat /\ Grams[value] \in Nat
      /\ Grams[low] <= Grams[x \div Unit]
  BY <1>1, <1>2, <1>6, <1>7, GramsGrow
<1> QED
  BY <1>7, <1>8 DEF x, low

\* A baseline that correct keeps on an empty shelf is near zero.
LEMMA KeptOnEmpty ==
  ASSUME NEW base \in Nat, ~Drifted(0, base)
  PROVE  base <= NearZero * Unit
<1> DEFINE rest == 100 - MarginPercent
<1>1. /\ Unit \in Nat \ {0} /\ NearZero \in Nat /\ MarginPercent \in Nat
      /\ MarginPercent <= rest * NearZero
  BY FilterAssumption, DriftAssumption
<1>2. 0 <= NearZero * Unit
  BY <1>1
<1>3. 100 * base <= MarginPercent * (base + Unit)
  <2>1. Distance(0, base) = base
    BY DEF Distance
  <2>2. MarginPercent * (base + Unit) \in Int
    BY <1>1
  <2> QED
    BY <1>2, <2>1, <2>2 DEF Drifted
<1>4. rest * base <= MarginPercent * Unit
  BY <1>1, <1>3
<1>5. MarginPercent * Unit <= (rest * NearZero) * Unit
  BY <1>1
<1>6. rest > 0
  BY <1>1
<1>7. rest * base <= rest * (NearZero * Unit)
  BY <1>1, <1>4, <1>5
<1> HIDE DEF rest
<1>8. ASSUME base > NearZero * Unit PROVE FALSE
  <2> DEFINE z == NearZero * Unit
  <2>1. z \in Nat
    BY <1>1
  <2> HIDE DEF z
  <2>2. \A r \in Int : r > 0 /\ base > z => r * base > r * z
    BY <2>1
  <2> QED
    BY <1>1, <1>6, <1>7, <1>8, <2>2 DEF rest, z
<1>9. NearZero * Unit \in Int
  BY <1>1
<1> QED
  BY <1>8, <1>9
=============================================================================
