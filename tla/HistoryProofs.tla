-------------------------------- MODULE HistoryProofs --------------------------------
(* Proofs about History, for any number of tiers, widths and retentions that satisfy   *)
(* HistoryAssumption, however long time goes on, and whenever readings are stored      *)
(* and housekeeping runs or is interrupted.                                            *)
EXTENDS History, SequenceTheorems, WellFoundedInduction, TLAPS

(* The newest row of a tier (the SELECT MAX(ts) of rollupInto); that a tier has        *)
(* aggregated a reading; that it may have dropped it.                                  *)
Top(k)      == NewestIn(rows[k])
In(k, m, t) == t \in rows[k][m][Trunc(k, t)]
Gone(k, t)  == Retain[k] # 0 /\ Trunc(k, t) < now - Retain[k]

(* How much of a tier may be without a row between two.                                *)
Empty(k) == Trunc(k, MaxGap - 1)

(* A tier has had its last word on a reading: it is done with the reading's bucket, or  *)
(* has just been rolled up past it.                                                    *)
Settled(k, t) ==
    \/ k = 1
    \/ Trunc(k, t) < Top(k)
    \/ step > k /\ Trunc(k, t) < Trunc(k, at)

(* A row aggregates only readings that were stored and fall in its bucket.             *)
RowsTrue ==
    \A k \in Levels, m \in Metrics, b \in Times : \A t \in rows[k][m][b] :
        Trunc(k, t) = b /\ <<m, t>> \in stored

(* Neither readings nor housekeeping are ahead of the time.                            *)
Past == at <= now /\ \A r \in stored : r[2] <= now

(* No tier is ahead of the time, or of the one it is made from.                        *)
NotAhead ==
    /\ \A k \in 2..Last : Top(k) = 0 \/ Top(k) + Width[k] <= now
    /\ \A k \in 3..Last : Top(k) <= Top(k - 1)

(* What is older than a tier's newest row is in it, unless it has been kept for long    *)
(* enough.                                                                             *)
Done ==
    \A k \in 2..Last, r \in stored :
        Trunc(k, r[2]) < Top(k) => In(k, r[1], r[2]) \/ Gone(k, r[2])

(* What is not is in the tier below, once that has had its say.                        *)
Held ==
    \A k \in 2..Last, r \in stored :
        Trunc(k, r[2]) >= Top(k) /\ Settled(k - 1, r[2]) => In(k - 1, r[1], r[2])

(* Something is stored in any MaxGap buckets.                                          *)
Dense ==
    \A x \in 0..now - 1 : x < MaxGap \/ \E r \in stored : r[2] <= x /\ x < r[2] + MaxGap

(* A tier that has been rolled up has a row for the last coarse bucket that is over and  *)
(* in which something was stored.                                                      *)
Caught ==
    \A k \in 2..Last : step > k => Trunc(k, at) <= Top(k) + Width[k] + Empty(k)

(* The finest tier has every reading it has not kept for long enough.                  *)
Fresh == \A r \in stored : In(1, r[1], r[2]) \/ Gone(1, r[2])

(* NothingIsLost is not inductive: a reading's last trace may be in any tier, and      *)
(* what a tier may drop depends on how far the next one has got. The rest says where   *)
(* every reading is while housekeeping goes on.                                        *)
IInv == TypeOK /\ RowsTrue /\ Past /\ NotAhead /\ Done /\ Held /\ Dense /\ Caught /\ Fresh
--------------------------------------------------------------------------------------
(* A set of numbers that is not empty has a least one (chooseTier takes the finest     *)
(* tier).                                                                              *)
LEMMA LeastOf ==
    ASSUME NEW S \in SUBSET Nat, S # {}
    PROVE  Min(S) \in S /\ \A y \in S : Min(S) <= y
<1>1. \E x \in S : \A y \in S : ~(<<y, x>> \in OpToRel(<, Nat))
  BY NatLessThanWellFounded, WFMin
<1>2. PICK x \in S : \A y \in S : ~(<<y, x>> \in OpToRel(<, Nat))
  BY <1>1
<1>3. \A y \in S : x <= y
  <2>1. SUFFICES ASSUME NEW y \in S, y < x PROVE FALSE
    OBVIOUS
  <2>2. <<y, x>> \in OpToRel(<, Nat)
    BY <2>1 DEF OpToRel
  <2>3. QED
    BY <1>2, <2>2
<1>4. QED
  BY <1>3 DEF Min

(* One that is bounded has a greatest one (MAX(ts) in rollupInto, and the tier Query   *)
(* ends in).                                                                           *)
LEMMA GreatestOf ==
    ASSUME NEW n \in Nat, NEW S \in SUBSET (0 .. n), S # {}
    PROVE  Max(S) \in S /\ \A y \in S : y <= Max(S)
<1> DEFINE R == {n - x : x \in S}
<1>1. R \in SUBSET Nat /\ R # {}
  <2>1. \A x \in S : x \in Nat /\ x <= n /\ n - x \in Nat
    OBVIOUS
  <2>2. QED
    BY <2>1
<1>2. PICK z \in R : \A y \in R : z <= y
  BY <1>1, LeastOf
<1>3. PICK x \in S : z = n - x
  BY <1>2
<1>4. \A y \in S : x >= y
  <2>1. SUFFICES ASSUME NEW y \in S PROVE x >= y
    OBVIOUS
  <2>2. n - y \in R
    OBVIOUS
  <2>3. z <= n - y /\ z = n - x /\ x \in Int /\ y \in Int /\ n \in Int
    <3>1. x \in 0 .. n /\ y \in 0 .. n
      OBVIOUS
    <3>2. QED
      BY <2>2, <1>2, <1>3, <3>1
  <2>4. QED
    BY <2>3
<1>5. QED
  BY <1>4 DEF Max

(* What is handed from one tier to the next reaches them all: induction on a bounded   *)
(* interval.                                                                           *)
LEMMA Climb ==
    ASSUME NEW a \in Nat, NEW S, a \in S, NEW b \in Nat,
           \A j \in a .. b - 1 : j \in S => j + 1 \in S
    PROVE  a .. b \subseteq S
<1>1. SUFFICES ASSUME (a .. b) \ S # {} PROVE FALSE
  OBVIOUS
<1> DEFINE R == (a .. b) \ S
<1>2. R \in SUBSET Nat
  OBVIOUS
<1>3. PICK z \in R : \A y \in R : z <= y
  BY <1>1, <1>2, LeastOf
<1>4. z # a /\ z - 1 \in a .. b - 1 /\ z - 1 \notin R
  BY <1>3
<1>5. QED
  BY <1>3, <1>4

(* What HistoryAssumption says of each tier (Tiers in store.go), one by one.           *)
LEMMA Constants ==
    /\ Last \in Nat /\ Last >= 2
    /\ \A k \in Levels : Width[k] \in Nat /\ Width[k] > 0 /\ Retain[k] \in Nat
    /\ Width[1] = 1 /\ Retain[Last] = 0
    /\ \A k \in 2 .. Last : Width[k] > Width[k - 1] /\ Width[k] % Width[k - 1] = 0
    /\ MaxAge \in Nat /\ MaxAge > 0 /\ MaxAge <= Width[2]
    /\ \A k \in 1 .. Last - 1 : Retain[k] >= 2 * Width[k + 1] - 1 + Empty(k + 1)
    /\ MaxNow \in Nat /\ MaxGap \in Nat /\ MaxGap > 0
    /\ Levels = 1 .. Last /\ Times = 0 .. MaxNow /\ Times \subseteq Nat
<1>1. Last \in Nat /\ Last >= 2 /\ Len(Retain) = Last /\ Levels = 1 .. Last
  BY HistoryAssumption, LenProperties DEF Last, Levels
<1>2. \A k \in Levels : Width[k] \in Nat \ {0} /\ Retain[k] \in Nat
  BY HistoryAssumption, <1>1, ElementOfSeq DEF Last
<1>3. QED
  BY <1>1, <1>2, HistoryAssumption DEF Times, Empty

(* Products of numbers.                                                                *)
LEMMA Multiples ==
    \A m, n, w \in Nat : (m <= n => m * w <= n * w) /\ (m + 1) * w = m * w + w /\ m * w \in Nat
  BY SMT

(* What division rounds down to.                                                       *)
LEMMA Division ==
    ASSUME NEW t \in Nat, NEW w \in Nat, w > 0
    PROVE  /\ t \div w \in Nat
           /\ (t \div w) * w <= t /\ t < (t \div w) * w + w
  BY SMT

(* The bucket of a time (the ts / bucket * bucket of rollupInto) begins at it or       *)
(* before, and is the last that does.                                                  *)
LEMMA Buckets ==
    \A k \in Levels, t \in Nat :
        /\ Trunc(k, t) \in Nat /\ Trunc(k, t) <= t /\ t < Trunc(k, t) + Width[k]
        /\ \A q \in Nat : q * Width[k] <= t => q * Width[k] <= Trunc(k, t)
<1>1. SUFFICES ASSUME NEW k \in Levels, NEW t \in Nat
      PROVE  /\ Trunc(k, t) \in Nat /\ Trunc(k, t) <= t /\ t < Trunc(k, t) + Width[k]
             /\ \A q \in Nat : q * Width[k] <= t => q * Width[k] <= Trunc(k, t)
  OBVIOUS
<1>2. Width[k] \in Nat /\ Width[k] > 0
  BY Constants
<1> DEFINE w == Width[k]
           d == t \div w
<1>3. d \in Nat /\ d * w <= t /\ t < d * w + w /\ d * w \in Nat
  BY <1>2, Division, Multiples
<1>4. Trunc(k, t) = d * w
  BY DEF Trunc
<1>5. \A q \in Nat : q * w <= t => q * w <= d * w
  <2>1. SUFFICES ASSUME NEW q \in Nat, q * w <= t, ~(q <= d) PROVE FALSE
    BY <1>2, <1>3, Multiples
  <2> HIDE DEF d, w
  <2>2. d + 1 <= q
    BY <2>1, <1>3
  <2>3. (d + 1) * w <= q * w /\ (d + 1) * w = d * w + w
    BY <2>2, <1>2, <1>3, Multiples DEF w
  <2>4. q * w \in Nat /\ d * w \in Nat /\ w \in Nat
    BY <1>2, <1>3, Multiples DEF w
  <2>5. QED
    BY <2>1, <2>3, <2>4, <1>3
<1>6. QED
  BY <1>3, <1>4, <1>5

(* A bucket begins at a multiple of its tier's width.                                  *)
LEMMA Aligned ==
    \A k \in Levels, t \in Nat : \E q \in Nat : Trunc(k, t) = q * Width[k]
<1>1. SUFFICES ASSUME NEW k \in Levels, NEW t \in Nat PROVE \E q \in Nat : Trunc(k, t) = q * Width[k]
  OBVIOUS
<1>2. Width[k] \in Nat /\ Width[k] > 0
  BY Constants
<1>3. t \div Width[k] \in Nat
  BY <1>2, Division
<1>4. QED
  BY <1>3 DEF Trunc

(* Buckets are in the order of the times, a width apart.                               *)
LEMMA Steps ==
    \A k \in Levels, s, t \in Nat :
        /\ s <= t => Trunc(k, s) <= Trunc(k, t)
        /\ Trunc(k, s) < Trunc(k, t) => Trunc(k, s) + Width[k] <= Trunc(k, t)
        /\ Trunc(k, Trunc(k, s)) = Trunc(k, s)
<1>1. SUFFICES ASSUME NEW k \in Levels, NEW s \in Nat, NEW t \in Nat
      PROVE  /\ s <= t => Trunc(k, s) <= Trunc(k, t)
             /\ Trunc(k, s) < Trunc(k, t) => Trunc(k, s) + Width[k] <= Trunc(k, t)
             /\ Trunc(k, Trunc(k, s)) = Trunc(k, s)
  OBVIOUS
<1> DEFINE w == Width[k]
<1>2. w \in Nat /\ w > 0
  BY Constants
<1>3. PICK p \in Nat : Trunc(k, s) = p * w
  BY Aligned
<1>4. PICK q \in Nat : Trunc(k, t) = q * w
  BY Aligned
<1>5. /\ p * w \in Nat /\ q * w \in Nat
      /\ p * w <= s /\ s < p * w + w /\ q * w <= t /\ t < q * w + w
      /\ p * w <= t => p * w <= q * w
  BY <1>3, <1>4, Buckets, Multiples, <1>2
<1>6. p * w < q * w => p * w + w <= q * w
  <2>1. SUFFICES ASSUME p * w < q * w PROVE p * w + w <= q * w
    OBVIOUS
  <2> HIDE DEF w
  <2>2. p + 1 <= q
    <3>1. SUFFICES ASSUME q <= p PROVE FALSE
      OBVIOUS
    <3>2. q * w <= p * w
      BY <3>1, <1>2, Multiples
    <3>3. QED
      BY <3>2, <2>1, <1>5
  <2>3. QED
    BY <2>2, <1>2, Multiples
<1>7. Trunc(k, p * w) = p * w
  <2>1. Trunc(k, p * w) <= p * w /\ (p * w <= p * w => p * w <= Trunc(k, p * w)) /\ Trunc(k, p * w) \in Nat
    BY <1>5, Buckets
  <2>2. QED
    BY <2>1, <1>5
<1>8. s <= t => p * w <= q * w
  BY <1>5, <1>2
<1>9. QED
  BY <1>3, <1>4, <1>6, <1>7, <1>8

(* A multiple of a width begins a bucket.                                              *)
LEMMA Whole ==
    \A k \in Levels, q \in Nat : q * Width[k] \in Nat /\ Trunc(k, q * Width[k]) = q * Width[k]
<1> SUFFICES ASSUME NEW k \in Levels, NEW q \in Nat
      PROVE  q * Width[k] \in Nat /\ Trunc(k, q * Width[k]) = q * Width[k]
  OBVIOUS
<1> DEFINE e == q * Width[k]
<1>1. e \in Nat
  BY Multiples, Constants
<1>2. Trunc(k, e) \in Nat /\ Trunc(k, e) <= e /\ (q * Width[k] <= e => q * Width[k] <= Trunc(k, e))
  BY <1>1, Buckets
<1>3. QED
  BY <1>1, <1>2

(* What MaxGap leaves empty of a tier, in whole rows.                                  *)
LEMMA Gaps ==
    \A k \in Levels : /\ Empty(k) \in Nat /\ MaxGap <= Empty(k) + Width[k]
                      /\ \E q \in Nat : Empty(k) = q * Width[k]
<1> SUFFICES ASSUME NEW k \in Levels
      PROVE  /\ Empty(k) \in Nat /\ MaxGap <= Empty(k) + Width[k]
             /\ \E q \in Nat : Empty(k) = q * Width[k]
  OBVIOUS
<1>1. MaxGap - 1 \in Nat /\ MaxGap \in Nat /\ Width[k] \in Nat
  BY Constants
<1>2. \E q \in Nat : Empty(k) = q * Width[k]
  BY <1>1, Aligned DEF Empty
<1>3. Empty(k) \in Nat /\ MaxGap - 1 < Empty(k) + Width[k]
  BY <1>1, Buckets DEF Empty
<1>4. QED
  BY <1>1, <1>2, <1>3

(* The coarse bucket of a finer bucket is that of the times in it.                     *)
LEMMA Nested ==
    \A k \in 2 .. Last, t \in Nat :
        Trunc(k, Trunc(k - 1, t)) = Trunc(k, t) /\ Trunc(k, t) <= Trunc(k - 1, t)
<1>1. SUFFICES ASSUME NEW k \in 2 .. Last, NEW t \in Nat
      PROVE  Trunc(k, Trunc(k - 1, t)) = Trunc(k, t) /\ Trunc(k, t) <= Trunc(k - 1, t)
  OBVIOUS
<1> DEFINE w == Width[k]
           v == Width[k - 1]
           p == w \div v
<1>2. /\ k \in Levels /\ k - 1 \in Levels /\ w \in Nat /\ w > 0 /\ v \in Nat /\ v > 0
      /\ w % v = 0
  BY Constants
<1>3. p \in Nat /\ w = p * v
  BY <1>2, SMT
<1>4. PICK q \in Nat : Trunc(k, t) = q * w
  BY Aligned, <1>2
<1>5. q * p \in Nat /\ q * w = (q * p) * v
  <2> HIDE DEF p, w, v
  <2>1. q * p \in Nat /\ q * (p * v) = (q * p) * v
    BY <1>2, <1>3, SMT
  <2>2. QED
    BY <2>1, <1>3
<1>6. Trunc(k, t) <= Trunc(k - 1, t)
  <2>1. Trunc(k, t) <= t
    BY <1>2, Buckets
  <2>2. \A x \in Nat : x * v <= t => x * v <= Trunc(k - 1, t)
    BY <1>2, Buckets
  <2>3. QED
    BY <2>1, <2>2, <1>4, <1>5
<1>7. /\ Trunc(k - 1, t) \in Nat /\ Trunc(k - 1, t) <= t /\ Trunc(k, t) \in Nat
      /\ Trunc(k, Trunc(k, t)) = Trunc(k, t) /\ Trunc(k, Trunc(k - 1, t)) \in Nat
  BY <1>2, Buckets, Steps
<1>8. Trunc(k, Trunc(k, t)) <= Trunc(k, Trunc(k - 1, t)) /\ Trunc(k, Trunc(k - 1, t)) <= Trunc(k, t)
  BY <1>2, <1>6, <1>7, Steps
<1>9. QED
  BY <1>6, <1>7, <1>8

(* A coarser tier's bucket begins no later.                                            *)
LEMMA Coarser ==
    \A i, k \in Levels, t \in Nat : i <= k => Trunc(k, t) <= Trunc(i, t) /\ Width[i] <= Width[k]
<1>1. SUFFICES ASSUME NEW i \in Levels, NEW t \in Nat
      PROVE  \A k \in i .. Last : Trunc(k, t) <= Trunc(i, t) /\ Width[i] <= Width[k]
  BY Constants
<1> DEFINE S == {k \in Levels : Trunc(k, t) <= Trunc(i, t) /\ Width[i] <= Width[k]}
<1>2. i \in S
  <2>1. Trunc(i, t) \in Nat /\ Width[i] \in Nat
    BY Buckets, Constants
  <2>2. QED
    BY <2>1
<1>3. \A j \in i .. Last - 1 : j \in S => j + 1 \in S
  <2>1. SUFFICES ASSUME NEW j \in i .. Last - 1, j \in S PROVE j + 1 \in S
    OBVIOUS
  <2>2. j \in Nat /\ j + 1 \in 2 .. Last /\ j + 1 \in Levels /\ j + 1 - 1 = j /\ j \in Levels
    BY Constants
  <2>3. Trunc(j + 1, t) <= Trunc(j, t)
    BY <2>2, Nested
  <2>4. Width[j] < Width[j + 1]
    BY <2>2, Constants
  <2>5. /\ Trunc(j + 1, t) \in Nat /\ Trunc(j, t) \in Nat /\ Trunc(i, t) \in Nat
        /\ Width[i] \in Nat /\ Width[j] \in Nat /\ Width[j + 1] \in Nat
    BY <2>2, Buckets, Constants
  <2>6. QED
    BY <2>1, <2>2, <2>3, <2>4, <2>5
<1>4. i .. Last \subseteq S
  <2> HIDE DEF S
  <2>1. i \in Nat /\ Last \in Nat
    BY Constants
  <2>2. QED
    BY <1>2, <1>3, <2>1, Climb
<1>5. QED
  BY <1>4

(* What a tier may hold.                                                               *)
Tiers == [Metrics -> [Times -> SUBSET Times]]

(* What the newest row of a tier is: no row is newer, and it is there unless there     *)
(* is none.                                                                            *)
LEMMA NewestRow ==
    ASSUME NEW tier \in Tiers
    PROVE  /\ NewestIn(tier) \in Times
           /\ \A m \in Metrics, b \in Times : tier[m][b] # {} => b <= NewestIn(tier)
           /\ NewestIn(tier) # 0 => \E m \in Metrics : tier[m][NewestIn(tier)] # {}
<1> DEFINE S == {b \in Times : \E m \in Metrics : tier[m][b] # {}}
<1>1. {0} \cup S \in SUBSET (0 .. MaxNow) /\ MaxNow \in Nat
  BY Constants
<1>2. Max({0} \cup S) \in {0} \cup S /\ \A y \in {0} \cup S : y <= Max({0} \cup S)
  <2> HIDE DEF S
  <2> QED
    BY <1>1, GreatestOf
<1>3. NewestIn(tier) = Max({0} \cup S)
  BY DEF NewestIn, Newest
<1>4. QED
  BY <1>1, <1>2, <1>3 DEF Times

(* It begins a bucket.                                                                 *)
LEMMA TopOf ==
    ASSUME NEW k \in Levels, NEW tier \in Tiers,
           \A m \in Metrics, b \in Times : \A t \in tier[m][b] : Trunc(k, t) = b
    PROVE  NewestIn(tier) \in Nat /\ Trunc(k, NewestIn(tier)) = NewestIn(tier)
<1>1. NewestIn(tier) \in Times /\ NewestIn(tier) \in Nat
  BY NewestRow, Constants
<1>2. CASE NewestIn(tier) = 0
  BY <1>2, Buckets
<1>3. CASE NewestIn(tier) # 0
  <2>1. PICK m \in Metrics : tier[m][NewestIn(tier)] # {}
    BY <1>3, NewestRow
  <2>2. PICK t \in Times : t \in tier[m][NewestIn(tier)]
    BY <2>1, <1>1 DEF Tiers
  <2>3. Trunc(k, t) = NewestIn(tier) /\ t \in Nat
    BY <2>2, <1>1, Constants
  <2>4. Trunc(k, Trunc(k, t)) = Trunc(k, t)
    BY <2>3, Steps
  <2>5. QED
    BY <2>3, <2>4, <1>1
<1>4. QED
  BY <1>1, <1>2, <1>3

(* The types, one by one.                                                              *)
LEMMA Readings ==
    ASSUME TypeOK
    PROVE  /\ \A r \in stored : r[1] \in Metrics /\ r[2] \in Times /\ r[2] \in Nat /\ r = <<r[1], r[2]>>
           /\ \A k \in Levels : rows[k] \in Tiers
           /\ now \in Nat /\ at \in Nat /\ at \in Times
  BY Constants DEF TypeOK, Tiers

(* NewestRow and TopOf for the tiers there are.                                        *)
LEMMA Tops ==
    ASSUME TypeOK, RowsTrue
    PROVE  \A k \in Levels :
               /\ Top(k) \in Nat /\ Trunc(k, Top(k)) = Top(k)
               /\ \A m \in Metrics, b \in Times : rows[k][m][b] # {} => b <= Top(k)
               /\ Top(k) # 0 => \E m \in Metrics : rows[k][m][Top(k)] # {}
<1>1. SUFFICES ASSUME NEW k \in Levels
      PROVE  /\ Top(k) \in Nat /\ Trunc(k, Top(k)) = Top(k)
             /\ \A m \in Metrics, b \in Times : rows[k][m][b] # {} => b <= Top(k)
             /\ Top(k) # 0 => \E m \in Metrics : rows[k][m][Top(k)] # {}
  OBVIOUS
<1>2. rows[k] \in Tiers
  BY Readings
<1>3. \A m \in Metrics, b \in Times : \A t \in rows[k][m][b] : Trunc(k, t) = b
  BY DEF RowsTrue
<1>4. QED
  BY <1>2, <1>3, TopOf, NewestRow DEF Top

(* What falls below a row's beginning, and what does not.                              *)
LEMMA Sides ==
    \A k \in Levels, s, t \in Nat :
        Trunc(k, t) = t => (s < t <=> Trunc(k, s) < t) /\ (t <= s <=> t <= Trunc(k, s))
                           /\ (Trunc(k, s) < t => Trunc(k, s) + Width[k] <= t)
<1>1. SUFFICES ASSUME NEW k \in Levels, NEW s \in Nat, NEW t \in Nat, Trunc(k, t) = t
      PROVE  /\ s < t <=> Trunc(k, s) < t
             /\ t <= s <=> t <= Trunc(k, s)
             /\ Trunc(k, s) < t => Trunc(k, s) + Width[k] <= t
  OBVIOUS
<1>2. Trunc(k, s) \in Nat /\ Trunc(k, s) <= s /\ s < Trunc(k, s) + Width[k] /\ Width[k] \in Nat
  BY Buckets, Constants
<1>3. Trunc(k, s) < t => Trunc(k, s) + Width[k] <= t
  BY Steps, <1>1
<1>4. QED
  BY <1>2, <1>3

(* An empty database satisfies the invariant.                                          *)
LEMMA InitIInv == Init => IInv
<1> SUFFICES ASSUME Init PROVE IInv
  OBVIOUS
<1>1. now = 0 /\ rows = [k \in Levels |-> NoRows] /\ stored = {} /\ step = 0 /\ at = 0
  BY DEF Init
<1>2. \A k \in Levels, m \in Metrics, b \in Times : rows[k][m][b] = {}
  BY <1>1 DEF NoRows
<1>3. TypeOK
  BY <1>1, Constants DEF TypeOK, NoRows
<1>4. RowsTrue
  BY <1>2 DEF RowsTrue
<1>5. \A k \in Levels : Top(k) = 0
  BY <1>2, <1>3, <1>4, Tops, Readings, NewestRow DEF Top
<1>6. Past /\ NotAhead /\ Done /\ Held /\ Dense /\ Caught /\ Fresh
  BY <1>1, <1>5, Constants DEF Past, NotAhead, Done, Held, Dense, Caught, Fresh
<1>7. QED
  BY <1>3, <1>4, <1>6 DEF IInv

(* What a rollup makes of a tier.                                                      *)
LEMMA RollingUp ==
    ASSUME IInv, NEW k \in 2 .. Last, step = k, NEW new, new = RolledInto(k)
    PROVE  /\ new \in Tiers
           /\ \A m \in Metrics, b \in Times : \A t \in new[m][b] : Trunc(k, t) = b /\ <<m, t>> \in stored
           /\ \A m \in Metrics, b \in Times : rows[k][m][b] \subseteq new[m][b]
           /\ \A r \in stored : Top(k) <= Trunc(k, r[2]) /\ Trunc(k, r[2]) < Trunc(k, at)
                                    => r[2] \in new[r[1]][Trunc(k, r[2])]
           /\ NewestIn(new) \in Nat /\ Top(k) <= NewestIn(new)
           /\ NewestIn(new) = Top(k) \/ NewestIn(new) < Trunc(k, at)
           /\ NewestIn(new) = 0 \/ NewestIn(new) + Width[k] <= now
           /\ k >= 3 => NewestIn(new) <= Top(k - 1)
           /\ Trunc(k, at) <= NewestIn(new) + Width[k] + Empty(k)
<1> DEFINE C == Trunc(k, at)
           T == Top(k)
           N == NewestIn(new)
<1>0. /\ TypeOK /\ RowsTrue /\ Past /\ NotAhead /\ Done /\ Held /\ Dense /\ Caught /\ Fresh
      /\ k \in Levels /\ k - 1 \in Levels /\ Width[k] \in Nat /\ Width[k] > 0
  BY Constants DEF IInv
<1>1. /\ \A r \in stored : r[1] \in Metrics /\ r[2] \in Times /\ r[2] \in Nat /\ r = <<r[1], r[2]>>
      /\ rows[k] \in Tiers /\ rows[k - 1] \in Tiers
      /\ now \in Nat /\ at \in Nat /\ at <= now
  BY <1>0, Readings DEF Past
<1>2. /\ T \in Nat /\ Trunc(k, T) = T
      /\ \A m \in Metrics, b \in Times : rows[k][m][b] # {} => b <= T
      /\ T # 0 => \E m \in Metrics : rows[k][m][T] # {}
  BY <1>0, Tops
<1>3. C \in Nat /\ C <= at /\ Trunc(k, C) = C
  BY <1>0, <1>1, Buckets, Steps
<1>4. \A t \in Nat : /\ Trunc(k, t) \in Nat /\ Trunc(k, t) <= t
                     /\ t < T <=> Trunc(k, t) < T
                     /\ t < C <=> Trunc(k, t) < C
                     /\ Trunc(k, t) < C => Trunc(k, t) + Width[k] <= C
  BY <1>0, <1>2, <1>3, Sides, Buckets
<1>5. CASE T >= C
  <2>1. new = rows[k]
    BY <1>5 DEF RolledInto, Top, Cutoff
  <2>2. N = T
    BY <2>1 DEF Top
  <2>3. \A r \in stored : ~(T <= Trunc(k, r[2]) /\ Trunc(k, r[2]) < C)
    BY <1>1, <1>2, <1>3, <1>4, <1>5
  <2>4. T = 0 \/ T + Width[k] <= now
    BY <1>0 DEF NotAhead
  <2>5. k >= 3 => T <= Top(k - 1)
    BY <1>0 DEF NotAhead
  <2>6. \A m \in Metrics, b \in Times : \A t \in new[m][b] : Trunc(k, t) = b /\ <<m, t>> \in stored
    BY <2>1, <1>0 DEF RowsTrue
  <2>7. C <= N + Width[k] + Empty(k)
    BY <2>2, <1>5, <1>2, <1>3, <1>0, Gaps
  <2>8. QED
    BY <2>1, <2>2, <2>3, <2>4, <2>5, <2>6, <2>7, <1>1, <1>2
<1>6. CASE T < C
  <2> DEFINE F(m, b) == Fine(k, m, b)
  <2>1. /\ new = [m \in Metrics |-> [b \in Times |-> IF F(m, b) = {} THEN rows[k][m][b] ELSE F(m, b)]]
    BY <1>6, <1>2, <1>3 DEF RolledInto, Top, Cutoff
  <2>2. \A m \in Metrics, b \in Times : \A t : t \in F(m, b) <=>
            \E f \in Times : t \in rows[k - 1][m][f] /\ Trunc(k, f) = b /\ T <= f /\ f < C
    BY <1>2, <1>3, Constants DEF Fine, Top, Cutoff
  <2> HIDE DEF F
  <2>3. \A m \in Metrics, b \in Times : \A t \in F(m, b) :
            /\ t \in Times /\ Trunc(k, t) = b /\ <<m, t>> \in stored
            /\ T <= b /\ b < C
            /\ \E f \in Times : rows[k - 1][m][f] # {} /\ b <= f
    <3>1. SUFFICES ASSUME NEW m \in Metrics, NEW b \in Times, NEW t \in F(m, b)
          PROVE  /\ t \in Times /\ Trunc(k, t) = b /\ <<m, t>> \in stored
                 /\ T <= b /\ b < C
                 /\ \E f \in Times : rows[k - 1][m][f] # {} /\ b <= f
      OBVIOUS
    <3>2. PICK f \in Times : t \in rows[k - 1][m][f] /\ Trunc(k, f) = b /\ T <= f /\ f < C
      BY <2>2
    <3>3. Trunc(k - 1, t) = f /\ <<m, t>> \in stored
      BY <3>2, <1>0 DEF RowsTrue
    <3>4. t \in Times /\ t \in Nat /\ f \in Nat
      BY <3>3, <1>1, Constants
    <3>5. Trunc(k, t) = b
      BY <3>2, <3>3, <3>4, Nested
    <3>6. T <= b /\ b < C /\ b <= f
      BY <3>2, <3>4, <1>4, <1>2
    <3>7. QED
      BY <3>2, <3>3, <3>4, <3>5, <3>6
  <2>4. new \in Tiers
    <3>1. \A m \in Metrics, b \in Times : F(m, b) \subseteq Times
      BY <2>3
    <3>2. \A m \in Metrics, b \in Times : rows[k][m][b] \subseteq Times
      BY <1>1 DEF Tiers
    <3>3. QED
      BY <2>1, <3>1, <3>2 DEF Tiers
  <2>5. \A m \in Metrics, b \in Times : new[m][b] = IF F(m, b) = {} THEN rows[k][m][b] ELSE F(m, b)
    BY <2>1
  <2>6. \A m \in Metrics, b \in Times : \A t \in new[m][b] : Trunc(k, t) = b /\ <<m, t>> \in stored
    <3>1. SUFFICES ASSUME NEW m \in Metrics, NEW b \in Times, NEW t \in new[m][b]
          PROVE  Trunc(k, t) = b /\ <<m, t>> \in stored
      OBVIOUS
    <3>2. CASE t \in F(m, b)
      BY <3>2, <2>3
    <3>3. CASE t \in rows[k][m][b]
      BY <3>3, <1>0 DEF RowsTrue
    <3>4. QED
      BY <3>2, <3>3, <2>5
  <2>7. \A r \in stored : T <= Trunc(k, r[2]) /\ Trunc(k, r[2]) < C => r[2] \in new[r[1]][Trunc(k, r[2])]
    <3>1. SUFFICES ASSUME NEW r \in stored, T <= Trunc(k, r[2]), Trunc(k, r[2]) < C
          PROVE  r[2] \in new[r[1]][Trunc(k, r[2])]
      OBVIOUS
    <3> DEFINE f == Trunc(k - 1, r[2])
               b == Trunc(k, r[2])
    <3>2. /\ r[1] \in Metrics /\ r[2] \in Times /\ r[2] \in Nat
          /\ f \in Nat /\ f <= r[2] /\ b \in Nat /\ b <= f /\ Trunc(k, f) = b
      BY <1>1, <1>0, Buckets, Nested
    <3>3. f \in Times /\ b \in Times
      BY <3>2, Constants
    <3>4. T <= f /\ f < C
      BY <3>1, <3>2, <1>4, <1>2
    <3>5. C <= Trunc(k - 1, at)
      BY <1>1, Nested
    <3>6. Settled(k - 1, r[2])
      <4>1. Trunc(k - 1, at) \in Nat
        BY <1>0, <1>1, Buckets
      <4>2. QED
        BY <3>2, <3>4, <3>5, <4>1, <1>3 DEF Settled
    <3>7. In(k - 1, r[1], r[2])
      BY <3>1, <3>6, <1>0, <3>2, <1>2 DEF Held
    <3>8. r[2] \in F(r[1], b)
      BY <3>7, <3>2, <3>3, <3>4, <2>2 DEF In
    <3>9. QED
      BY <3>8, <3>2, <3>3, <2>5
  <2>8. \A m \in Metrics, b \in Times : rows[k][m][b] \subseteq new[m][b]
    <3>1. SUFFICES ASSUME NEW m \in Metrics, NEW b \in Times, NEW t \in rows[k][m][b], F(m, b) # {}
          PROVE  t \in new[m][b]
      BY <2>5
    <3>2. T <= b /\ b < C
      BY <2>3, <3>1
    <3>3. Trunc(k, t) = b /\ <<m, t>> \in stored
      BY <1>0 DEF RowsTrue
    <3>4. QED
      BY <2>7, <3>2, <3>3
  <2>9. /\ N \in Nat /\ Trunc(k, N) = N /\ N \in Times
        /\ \A m \in Metrics, b \in Times : new[m][b] # {} => b <= N
        /\ N # 0 => \E m \in Metrics : new[m][N] # {}
    <3>1. \A m \in Metrics, b \in Times : \A t \in new[m][b] : Trunc(k, t) = b
      BY <2>6
    <3>2. N \in Nat /\ Trunc(k, N) = N
      BY <2>4, <3>1, <1>0, TopOf
    <3>3. QED
      BY <3>2, <2>4, NewestRow
  <2>10. T <= N
    <3>1. CASE T = 0
      BY <3>1, <2>9
    <3>2. CASE T # 0
      <4>1. PICK m \in Metrics : rows[k][m][T] # {}
        BY <3>2, <1>2
      <4>2. T \in Times
        BY <1>1, NewestRow DEF Top
      <4>3. QED
        BY <4>1, <4>2, <2>8, <2>9
    <3>3. QED
      BY <3>1, <3>2
  <2>11. N = T \/ \E m \in Metrics : F(m, N) # {}
    <3>1. SUFFICES ASSUME N # T PROVE \E m \in Metrics : F(m, N) # {}
      OBVIOUS
    <3>2. N # 0 /\ T < N
      BY <3>1, <2>9, <2>10, <1>2
    <3>3. PICK m \in Metrics : new[m][N] # {}
      BY <3>2, <2>9
    <3>4. rows[k][m][N] = {}
      BY <3>2, <1>2, <2>9
    <3>5. QED
      BY <3>3, <3>4, <2>5, <2>9
  <2>12. N < C
    BY <2>11, <2>3, <2>9, <1>6
  <2>13. N + Width[k] <= C
    BY <2>12, <2>9, <1>4
  <2>14. N + Width[k] <= now
    BY <2>13, <2>9, <1>0, <1>1, <1>3
  <2>15. k >= 3 => N <= Top(k - 1)
    <3>1. SUFFICES ASSUME k >= 3 PROVE N <= Top(k - 1)
      OBVIOUS
    <3>2. CASE N = T
      BY <3>1, <3>2, <1>0 DEF NotAhead
    <3>3. CASE N # T
      <4>1. PICK m \in Metrics : F(m, N) # {}
        BY <3>3, <2>11
      <4>2. PICK f \in Times : rows[k - 1][m][f] # {} /\ N <= f
        BY <4>1, <2>3, <2>9
      <4>3. f <= Top(k - 1) /\ Top(k - 1) \in Nat /\ f \in Nat
        BY <4>2, <1>0, Tops, Constants
      <4>4. QED
        BY <4>2, <4>3, <2>9
    <3>4. QED
      BY <3>2, <3>3
  <2>16. C <= N + Width[k] + Empty(k)
    <3> DEFINE e == N + Width[k] + Empty(k)
    <3>1. SUFFICES ASSUME e < C PROVE FALSE
      BY <2>9, <1>0, <1>3, Gaps
    <3>2. /\ Empty(k) \in Nat /\ MaxGap \in Nat /\ MaxGap > 0 /\ MaxGap <= Empty(k) + Width[k]
          /\ e \in Nat /\ Trunc(k, e) = e
      <4>1. PICK p \in Nat : N = p * Width[k]
        BY <2>9, <1>0, Aligned
      <4>2. PICK q \in Nat : Empty(k) = q * Width[k]
        BY <1>0, Gaps
      <4>3. e = (p + q + 1) * Width[k] /\ p + q + 1 \in Nat
        BY <4>1, <4>2, <1>0
      <4>4. QED
        BY <4>3, <1>0, <2>9, Whole, Gaps, Constants
    <3>3. e + Width[k] <= C
      <4> HIDE DEF e
      <4>1. Trunc(k, e) < Trunc(k, C) => Trunc(k, e) + Width[k] <= Trunc(k, C)
        BY <3>2, <1>0, <1>3, Steps
      <4>2. QED
        BY <4>1, <3>1, <3>2, <1>3
    <3>4. C - 1 \in 0 .. now - 1 /\ ~(C - 1 < MaxGap)
      BY <3>3, <3>2, <2>9, <1>0, <1>3, <1>1
    <3>5. PICK r \in stored : r[2] <= C - 1 /\ C - 1 < r[2] + MaxGap
      BY <3>4, <1>0 DEF Dense
    <3>6. r[2] \in Nat /\ r[1] \in Metrics /\ Trunc(k, r[2]) \in Nat /\ Trunc(k, r[2]) < C
      BY <3>5, <1>1, <1>3, <1>4
    <3>7. N < Trunc(k, r[2])
      <4> DEFINE m == N + Width[k]
      <4>1. m \in Nat /\ m <= r[2] /\ N < m
        BY <3>2, <3>3, <3>5, <3>6, <2>9, <1>0, <1>3
      <4>2. PICK p \in Nat : N = p * Width[k]
        BY <2>9, <1>0, Aligned
      <4>3. m = (p + 1) * Width[k] /\ p + 1 \in Nat
        BY <4>2, <1>0, Multiples
      <4> HIDE DEF m
      <4>4. m <= Trunc(k, r[2])
        BY <4>1, <4>3, <3>6, <1>0, Buckets
      <4>5. QED
        BY <4>1, <4>4, <3>6, <2>9
    <3>8. r[2] \in new[r[1]][Trunc(k, r[2])]
      BY <2>7, <2>9, <2>10, <3>6, <3>7, <1>2
    <3>9. Trunc(k, r[2]) \in Times
      <4>1. Trunc(k, r[2]) <= r[2] /\ r[2] \in Times
        BY <1>1, <1>0, Buckets
      <4>2. QED
        BY <4>1, <3>6, Constants
    <3>10. Trunc(k, r[2]) <= N
      BY <3>6, <3>8, <3>9, <2>9
    <3>11. QED
      BY <3>6, <3>7, <3>10, <2>9
  <2>17. QED
    BY <2>4, <2>6, <2>7, <2>8, <2>9, <2>10, <2>12, <2>14, <2>15, <2>16
<1>7. QED
  BY <1>2, <1>3, <1>5, <1>6

(* What does not touch the rows, and what a step that forgets Settled needs no more.   *)
LEMMA SameRows ==
    ASSUME TypeOK, rows' = rows
    PROVE  /\ \A k : Top(k)' = Top(k)
           /\ \A k, m, t : In(k, m, t)' = In(k, m, t)
  BY DEF Top, In, NewestIn, Newest, Trunc

(* So does time passing.                                                               *)
LEMMA TickIInv == ASSUME IInv, Tick PROVE IInv'
<1>0. TypeOK /\ RowsTrue /\ Past /\ NotAhead /\ Done /\ Held /\ Dense /\ Caught /\ Fresh
  BY DEF IInv
<1>1. /\ now < MaxNow /\ now' = now + 1 /\ rows' = rows /\ step' = step /\ at' = at /\ stored' = stored
      /\ now - Newest({r[2] : r \in stored}) < MaxGap
  BY DEF Tick, keepVars
<1>2. /\ \A r \in stored : r[1] \in Metrics /\ r[2] \in Times /\ r[2] \in Nat /\ r = <<r[1], r[2]>>
      /\ now \in Nat /\ at \in Nat /\ at <= now
  BY <1>0, Readings DEF Past
<1>3. /\ \A k : Top(k)' = Top(k)
      /\ \A k, m, t : In(k, m, t)' = In(k, m, t)
  BY <1>0, <1>1, SameRows
<1>4. TypeOK'
  BY <1>0, <1>1, Constants, <1>2 DEF TypeOK, Times, Levels
<1>5. RowsTrue'
  BY <1>0, <1>1 DEF RowsTrue
<1>6. Past'
  BY <1>0, <1>1, <1>2 DEF Past
<1>7. NotAhead'
  <2>1. \A k \in 2 .. Last : Top(k) \in Nat /\ Width[k] \in Nat
    BY <1>0, Tops, Constants
  <2>2. QED
    BY <1>0, <1>1, <1>3, <1>2, <2>1 DEF NotAhead
<1>8. \A k \in Levels, t \in Nat : Gone(k, t) => Gone(k, t)'
  <2>1. \A k \in Levels, t \in Nat : Trunc(k, t) \in Nat /\ Retain[k] \in Nat
    BY Buckets, Constants
  <2>2. QED
    BY <2>1, <1>1, <1>2 DEF Gone
<1>9. Done'
  <2>1. SUFFICES ASSUME NEW k \in 2 .. Last, NEW r \in stored, Trunc(k, r[2]) < Top(k)
        PROVE  In(k, r[1], r[2])' \/ Gone(k, r[2])'
    BY <1>1, <1>3 DEF Done
  <2>2. In(k, r[1], r[2]) \/ Gone(k, r[2])
    BY <2>1, <1>0 DEF Done
  <2>3. QED
    BY <2>2, <1>3, <1>8, <1>2, Constants
<1>10. Fresh'
  <2>1. SUFFICES ASSUME NEW r \in stored PROVE In(1, r[1], r[2])' \/ Gone(1, r[2])'
    BY <1>1 DEF Fresh
  <2>2. QED
    BY <1>0, <1>3, <1>8, <1>2, Constants DEF Fresh
<1>11. Held'
  BY <1>0, <1>1, <1>3 DEF Held, Settled
<1>12. Caught'
  BY <1>0, <1>1, <1>3 DEF Caught
<1>13. Dense'
  <2>1. SUFFICES ASSUME NEW x \in 0 .. now, ~(x < MaxGap)
        PROVE  \E r \in stored : r[2] <= x /\ x < r[2] + MaxGap
    BY <1>1, <1>2, Constants DEF Dense
  <2>2. CASE x # now
    BY <2>1, <2>2, <1>0, <1>2 DEF Dense
  <2>3. CASE x = now
    <3> DEFINE S == {r[2] : r \in stored}
               n == Max({0} \cup S)
    <3>1. {0} \cup S \in SUBSET (0 .. MaxNow) /\ MaxNow \in Nat
      BY <1>2, Constants
    <3>2. n \in {0} \cup S
      <4> HIDE DEF S
      <4> QED
        BY <3>1, GreatestOf
    <3>3. now - n < MaxGap
      BY <1>1 DEF Newest
    <3>4. n # 0
      BY <3>3, <2>1, <2>3, <1>2, Constants
    <3>5. PICK r \in stored : n = r[2]
      BY <3>2, <3>4
    <3>6. r[2] <= now /\ now < r[2] + MaxGap
      BY <3>3, <3>5, <1>0, <1>2, Constants DEF Past
    <3>7. QED
      BY <3>6, <2>3
  <2>4. QED
    BY <2>2, <2>3
<1>14. QED
  BY <1>4, <1>5, <1>6, <1>7, <1>9, <1>10, <1>11, <1>12, <1>13 DEF IInv

(* Record, of a snapshot that is not stale, late in its bucket or not, may add to      *)
(* the finest tier what the second has not got to yet.                                 *)
LEMMA RecordIInv ==
    ASSUME IInv, NEW ms \in SUBSET Metrics, NEW b \in Times, b <= now, now - MaxAge <= b, Record(ms, b)
    PROVE  IInv'
<1>0. TypeOK /\ RowsTrue /\ Past /\ NotAhead /\ Done /\ Held /\ Dense /\ Caught /\ Fresh
  BY DEF IInv
<1>1. /\ step = 0 /\ now' = now /\ step' = step /\ at' = at /\ stored' = stored \cup (ms \X {b})
      /\ rows' = [rows EXCEPT ![1] = [m \in Metrics |->
                    IF m \in ms THEN [rows[1][m] EXCEPT ![b] = {b}] ELSE rows[1][m]]]
  BY DEF Record, keepVars
<1>2. /\ \A r \in stored : r[1] \in Metrics /\ r[2] \in Times /\ r[2] \in Nat /\ r = <<r[1], r[2]>>
      /\ now \in Nat /\ at \in Nat /\ at <= now
      /\ \A k \in Levels : rows[k] \in Tiers
      /\ 1 \in Levels /\ b \in Nat
  BY <1>0, Readings, Constants DEF Past
<1>3. /\ \A k \in 2 .. Last : rows'[k] = rows[k]
      /\ \A m \in Metrics, c \in Times : rows'[1][m][c] = IF m \in ms /\ c = b THEN {b} ELSE rows[1][m][c]
  <2>1. rows \in [Levels -> Tiers]
    BY <1>0 DEF TypeOK, Tiers
  <2>2. \A k \in 2 .. Last : k \in Levels /\ k # 1
    BY Constants
  <2>3. \A m \in Metrics : rows[1][m] \in [Times -> SUBSET Times]
    BY <1>2 DEF Tiers
  <2>4. rows'[1] = [m \in Metrics |-> IF m \in ms THEN [rows[1][m] EXCEPT ![b] = {b}] ELSE rows[1][m]]
    BY <1>1, <2>1, <1>2
  <2>5. \A k \in 2 .. Last : rows'[k] = rows[k]
    BY <1>1, <2>1, <2>2
  <2>6. \A m \in Metrics, c \in Times : rows'[1][m][c] = IF m \in ms /\ c = b THEN {b} ELSE rows[1][m][c]
    <3>1. SUFFICES ASSUME NEW m \in Metrics, NEW c \in Times
          PROVE  rows'[1][m][c] = IF m \in ms /\ c = b THEN {b} ELSE rows[1][m][c]
      OBVIOUS
    <3>2. rows'[1][m] = IF m \in ms THEN [rows[1][m] EXCEPT ![b] = {b}] ELSE rows[1][m]
      BY <2>4
    <3>3. [rows[1][m] EXCEPT ![b] = {b}][c] = IF c = b THEN {b} ELSE rows[1][m][c]
      BY <2>3
    <3>4. QED
      BY <3>2, <3>3
  <2>7. QED
    BY <2>5, <2>6
<1>4. /\ \A k \in 2 .. Last : Top(k)' = Top(k)
      /\ \A k \in 2 .. Last : \A m, t : In(k, m, t)' = In(k, m, t)
  BY <1>3 DEF Top, In, NewestIn, Newest, Trunc
<1>5. \A t \in Nat : Trunc(1, t) = t
  <2>1. \A t \in Nat : Trunc(1, t) \in Nat /\ Trunc(1, t) <= t /\ t < Trunc(1, t) + 1
    BY <1>2, Buckets, Constants
  <2>2. QED
    BY <2>1
<1>6. TypeOK'
  <2>1. [m \in Metrics |-> IF m \in ms THEN [rows[1][m] EXCEPT ![b] = {b}] ELSE rows[1][m]] \in Tiers
    BY <1>2 DEF Tiers
  <2>2. rows' \in [Levels -> Tiers]
    BY <2>1, <1>0, <1>1 DEF TypeOK, Tiers
  <2>3. stored' \subseteq Metrics \X Times
    BY <1>0, <1>1 DEF TypeOK
  <2>4. QED
    BY <2>2, <2>3, <1>0, <1>1 DEF TypeOK, Tiers, Levels, Times
<1>7. RowsTrue'
  <2>1. SUFFICES ASSUME NEW k \in Levels, NEW m \in Metrics, NEW c \in Times, NEW t \in rows'[k][m][c]
        PROVE  Trunc(k, t) = c /\ <<m, t>> \in stored'
    BY DEF RowsTrue, Trunc
  <2>2. CASE t \in rows[k][m][c]
    BY <2>2, <1>0, <1>1 DEF RowsTrue
  <2>3. CASE t \notin rows[k][m][c]
    <3>1. k = 1 /\ m \in ms /\ c = b /\ t = b
      BY <2>1, <2>3, <1>3, Constants
    <3>2. <<m, t>> \in stored'
      BY <3>1, <1>1
    <3>3. QED
      BY <3>1, <3>2, <1>5, <1>2
  <2>4. QED
    BY <2>2, <2>3
<1>8. Past'
  BY <1>0, <1>1 DEF Past
<1>9. NotAhead'
  <2>1. \A k \in 3 .. Last : k \in 2 .. Last /\ k - 1 \in 2 .. Last
    BY Constants
  <2>2. QED
    BY <2>1, <1>0, <1>1, <1>4 DEF NotAhead
(* A new reading is never older than a tier's newest row.                              *)
<1>10. \A k \in 2 .. Last : ~(Trunc(k, b) < Top(k))
  <2>1. SUFFICES ASSUME NEW k \in 2 .. Last, Trunc(k, b) < Top(k) PROVE FALSE
    OBVIOUS
  <2>2. /\ k \in Levels /\ 2 \in Levels /\ Width[k] \in Nat /\ Width[2] \in Nat /\ Width[2] <= Width[k]
        /\ MaxAge <= Width[2] /\ MaxAge \in Nat
    BY Constants, Coarser, <1>2
  <2>3. Top(k) \in Nat /\ Trunc(k, Top(k)) = Top(k) /\ Trunc(k, b) \in Nat
    BY <1>0, <2>2, Tops, Buckets, <1>2
  <2>4. b < Top(k)
    BY <2>1, <2>2, <2>3, <1>2, Sides
  <2>5. Top(k) + Width[k] <= now
    BY <2>1, <2>3, <1>0 DEF NotAhead
  <2>6. QED
    BY <2>2, <2>3, <2>4, <2>5, <1>2
<1>11. \A m \in ms : In(1, m, b)'
  <2>1. \A m \in ms : b \in rows'[1][m][b]
    BY <1>3
  <2>2. \A m \in ms : b \in rows'[1][m][Trunc(1, b)]
    BY <2>1, <1>5, <1>2
  <2>3. QED
    BY <2>2 DEF In, Trunc
<1>12. \A r \in stored : In(1, r[1], r[2]) => In(1, r[1], r[2])'
  <2>1. SUFFICES ASSUME NEW r \in stored, r[2] \in rows[1][r[1]][Trunc(1, r[2])]
        PROVE  r[2] \in rows'[1][r[1]][Trunc(1, r[2])]
    BY DEF In, Trunc
  <2>2. QED
    BY <2>1, <1>2, <1>3, <1>5
<1>13. \A k, t : Gone(k, t)' = Gone(k, t)
  BY <1>1 DEF Gone, Trunc
<1>14. \A r \in stored' : r \in stored \/ (r[1] \in ms /\ r[2] = b)
  BY <1>1
<1>15. Done'
  <2>1. SUFFICES ASSUME NEW k \in 2 .. Last, NEW r \in stored', Trunc(k, r[2]) < Top(k)
        PROVE  In(k, r[1], r[2]) \/ Gone(k, r[2])
    BY <1>4, <1>13 DEF Done, Trunc
  <2>2. r \in stored
    BY <2>1, <1>10, <1>14
  <2>3. QED
    BY <2>1, <2>2, <1>0 DEF Done
<1>16. Fresh'
  BY <1>0, <1>11, <1>12, <1>13, <1>14 DEF Fresh
<1>17. Held'
  <2>1. SUFFICES ASSUME NEW k \in 2 .. Last, NEW r \in stored', Trunc(k, r[2]) >= Top(k), Settled(k - 1, r[2])'
        PROVE  In(k - 1, r[1], r[2])'
    BY <1>4 DEF Held, Trunc
  <2>2. k - 1 = 1 \/ (k - 1 \in 2 .. Last /\ Trunc(k - 1, r[2]) < Top(k - 1))
    <3>1. k - 1 = 1 \/ k - 1 \in 2 .. Last
      BY Constants
    <3>2. CASE k - 1 \in 2 .. Last
      <4>1. ~(step' > k - 1)
        BY <3>2, <1>1, Constants
      <4>2. QED
        BY <4>1, <3>2, <2>1, <1>4 DEF Settled, Trunc
    <3>3. QED
      BY <3>1, <3>2
  <2>3. CASE r \in stored
    <3>1. Settled(k - 1, r[2])
      BY <2>2 DEF Settled
    <3>2. In(k - 1, r[1], r[2])
      BY <2>1, <2>3, <3>1, <1>0 DEF Held
    <3>3. CASE k - 1 = 1
      <4>1. In(1, r[1], r[2])
        BY <3>2, <3>3
      <4>2. In(1, r[1], r[2])'
        BY <4>1, <2>3, <1>12
      <4>3. QED
        BY <4>2, <3>3
    <3>4. CASE k - 1 \in 2 .. Last
      BY <3>2, <3>4, <1>4
    <3>5. QED
      BY <2>2, <3>3, <3>4
  <2>4. CASE r[1] \in ms /\ r[2] = b
    <3>1. k - 1 = 1
      BY <2>2, <2>4, <1>10
    <3>2. QED
      BY <3>1, <2>4, <1>11
  <2>5. QED
    BY <1>14, <2>3, <2>4
<1>18. Dense'
  BY <1>0, <1>1 DEF Dense
<1>19. Caught'
  <2>1. \A k \in 2 .. Last : ~(step' > k)
    BY <1>1, Constants
  <2>2. QED
    BY <2>1 DEF Caught
<1>20. QED
  BY <1>6, <1>7, <1>8, <1>9, <1>15, <1>16, <1>17, <1>18, <1>19 DEF IInv

(* Housekeeping begins.                                                                *)
LEMMA BeginIInv == ASSUME IInv, BeginHousekeep PROVE IInv'
<1>0. TypeOK /\ RowsTrue /\ Past /\ NotAhead /\ Done /\ Held /\ Dense /\ Caught /\ Fresh
  BY DEF IInv
<1>1. step = 0 /\ step' = 2 /\ at' = now /\ now' = now /\ rows' = rows /\ stored' = stored
  BY DEF BeginHousekeep
<1>2. /\ \A k : Top(k)' = Top(k)
      /\ \A k, m, t : In(k, m, t)' = In(k, m, t)
  BY <1>0, <1>1, SameRows
<1>3. TypeOK'
  BY <1>0, <1>1, Constants DEF TypeOK, Levels, Times
<1>4. \A k \in 2 .. Last : \A t : Settled(k - 1, t)' => Settled(k - 1, t)
  <2>1. \A k \in 2 .. Last : k - 1 = 1 \/ ~(step' > k - 1)
    BY <1>1, Constants
  <2>2. QED
    BY <2>1, <1>2 DEF Settled, Trunc
<1>5. Held'
  BY <1>0, <1>1, <1>2, <1>4 DEF Held, Trunc
<1>6. Caught'
  <2>1. \A k \in 2 .. Last : ~(step' > k)
    BY <1>1, Constants
  <2>2. QED
    BY <2>1 DEF Caught
<1>7. RowsTrue' /\ NotAhead' /\ Done' /\ Dense' /\ Fresh'
  BY <1>0, <1>1, <1>2 DEF RowsTrue, NotAhead, Done, Dense, Fresh, Gone, Trunc
<1>8. Past'
  BY <1>0, <1>1, Readings DEF Past
<1>9. QED
  BY <1>3, <1>5, <1>6, <1>7, <1>8 DEF IInv

(* It ends anywhere, by an error or with the power.                                    *)
LEMMA GiveUpIInv == ASSUME IInv, GiveUp PROVE IInv'
<1>0. TypeOK /\ RowsTrue /\ Past /\ NotAhead /\ Done /\ Held /\ Dense /\ Caught /\ Fresh
  BY DEF IInv
<1>1. step' = 0 /\ at' = 0 /\ now' = now /\ rows' = rows /\ stored' = stored
  BY DEF GiveUp
<1>2. /\ \A k : Top(k)' = Top(k)
      /\ \A k, m, t : In(k, m, t)' = In(k, m, t)
  BY <1>0, <1>1, SameRows
<1>3. TypeOK'
  BY <1>0, <1>1, Constants DEF TypeOK, Levels, Times
<1>4. \A k \in 2 .. Last : \A t : Settled(k - 1, t)' => Settled(k - 1, t)
  <2>1. \A k \in 2 .. Last : ~(step' > k - 1)
    BY <1>1, Constants
  <2>2. QED
    BY <2>1, <1>2 DEF Settled, Trunc
<1>5. Held'
  BY <1>0, <1>1, <1>2, <1>4 DEF Held, Trunc
<1>6. Caught'
  <2>1. \A k \in 2 .. Last : ~(step' > k)
    BY <1>1, Constants
  <2>2. QED
    BY <2>1 DEF Caught
<1>7. RowsTrue' /\ NotAhead' /\ Done' /\ Dense' /\ Fresh'
  BY <1>0, <1>1, <1>2 DEF RowsTrue, NotAhead, Done, Dense, Fresh, Gone, Trunc
<1>8. Past'
  BY <1>0, <1>1, Readings DEF Past
<1>9. QED
  BY <1>3, <1>5, <1>6, <1>7, <1>8 DEF IInv

(* rollupInto: a tier hands on all the next one lacks.                                 *)
LEMMA RollupIInv == ASSUME IInv, Rollup PROVE IInv'
<1>0. TypeOK /\ RowsTrue /\ Past /\ NotAhead /\ Done /\ Held /\ Dense /\ Caught /\ Fresh
  BY DEF IInv
<1>1. PICK k \in 2 .. Last : k = step
  BY DEF Rollup
<1>2. /\ step' = k + 1 /\ now' = now /\ at' = at /\ stored' = stored
      /\ rows' = [rows EXCEPT ![k] = RolledInto(k)]
  BY <1>1 DEF Rollup
<1>3. /\ \A r \in stored : r[1] \in Metrics /\ r[2] \in Times /\ r[2] \in Nat /\ r = <<r[1], r[2]>>
      /\ now \in Nat /\ at \in Nat /\ at <= now
      /\ k \in Levels /\ k \in Nat
  BY <1>0, <1>1, Readings, Constants DEF Past
<1>4. /\ rows'[k] = RolledInto(k) /\ \A j \in Levels : j # k => rows'[j] = rows[j]
  BY <1>0, <1>2, <1>3 DEF TypeOK
<1>5. /\ Top(k)' = NewestIn(rows'[k])
      /\ \A j \in Levels : j # k => Top(j)' = Top(j)
      /\ \A j \in Levels : \A m, t : j # k => (In(j, m, t)' <=> In(j, m, t))
      /\ \A m, t : In(k, m, t)' <=> t \in rows'[k][m][Trunc(k, t)]
  BY <1>4 DEF Top, In, NewestIn, Newest, Trunc
<1>6. /\ rows'[k] \in Tiers
      /\ \A m \in Metrics, b \in Times : \A t \in rows'[k][m][b] : Trunc(k, t) = b /\ <<m, t>> \in stored
      /\ \A m \in Metrics, b \in Times : rows[k][m][b] \subseteq rows'[k][m][b]
      /\ \A r \in stored : Top(k) <= Trunc(k, r[2]) /\ Trunc(k, r[2]) < Trunc(k, at)
                               => In(k, r[1], r[2])'
      /\ Top(k)' \in Nat /\ Top(k) <= Top(k)'
      /\ Top(k)' = Top(k) \/ Top(k)' < Trunc(k, at)
      /\ Top(k)' = 0 \/ Top(k)' + Width[k] <= now
      /\ k >= 3 => Top(k)' <= Top(k - 1)
      /\ Trunc(k, at) <= Top(k)' + Width[k] + Empty(k)
  BY <1>1, <1>4, <1>5, RollingUp
<1>7. \A j \in Levels : Top(j) \in Nat /\ \A t \in Nat : Trunc(j, t) \in Nat /\ Trunc(j, t) <= t
  BY <1>0, Tops, Buckets
<1>8. \A r \in stored : In(k, r[1], r[2]) => In(k, r[1], r[2])'
  <2>1. SUFFICES ASSUME NEW r \in stored, r[2] \in rows[k][r[1]][Trunc(k, r[2])]
        PROVE  r[2] \in rows'[k][r[1]][Trunc(k, r[2])]
    BY <1>5 DEF In
  <2>2. Trunc(k, r[2]) \in Times
    <3>1. Trunc(k, r[2]) \in Nat /\ Trunc(k, r[2]) <= r[2] /\ r[2] \in Times
      BY <1>3, <1>7
    <3>2. QED
      BY <3>1, Constants
  <2>3. QED
    BY <2>1, <2>2, <1>3, <1>6
<1>9. \A j, t : Gone(j, t)' = Gone(j, t)
  BY <1>2 DEF Gone, Trunc
<1>10. TypeOK'
  <2>1. rows \in [Levels -> Tiers]
    BY <1>0 DEF TypeOK, Tiers
  <2>2. rows' \in [Levels -> Tiers]
    BY <2>1, <1>2, <1>4, <1>6, <1>3
  <2>3. step' \in 0 .. Last + Last - 1
    BY <1>2, <1>1, Constants
  <2>4. QED
    BY <2>2, <2>3, <1>0, <1>2 DEF TypeOK, Tiers, Levels, Times
<1>11. RowsTrue'
  <2>1. SUFFICES ASSUME NEW j \in Levels, NEW m \in Metrics, NEW c \in Times, NEW t \in rows'[j][m][c]
        PROVE  Trunc(j, t) = c /\ <<m, t>> \in stored'
    BY DEF RowsTrue, Trunc
  <2>2. CASE j = k
    BY <2>1, <2>2, <1>2, <1>6
  <2>3. CASE j # k
    BY <2>1, <2>3, <1>2, <1>4, <1>0 DEF RowsTrue
  <2>4. QED
    BY <2>2, <2>3
<1>12. Past' /\ Dense' /\ Fresh'
  <2>1. 1 \in Levels /\ 1 # k
    BY <1>1, Constants
  <2>2. Past' /\ Dense'
    BY <1>0, <1>2 DEF Past, Dense
  <2>3. Fresh'
    BY <2>1, <1>0, <1>2, <1>5, <1>9 DEF Fresh
  <2>4. QED
    BY <2>2, <2>3
<1>13. NotAhead'
  <2>1. SUFFICES ASSUME NEW j \in 2 .. Last
        PROVE  /\ Top(j)' = 0 \/ Top(j)' + Width[j] <= now
               /\ j >= 3 => Top(j)' <= Top(j - 1)'
    <3>1. \A j \in 3 .. Last : j \in 2 .. Last /\ j >= 3
      OBVIOUS
    <3>2. QED
      BY <3>1, <1>2 DEF NotAhead
  <2>2. /\ j \in Levels /\ j - 1 \in Levels /\ j \in Nat
        /\ Top(j) = 0 \/ Top(j) + Width[j] <= now
        /\ j >= 3 => Top(j) <= Top(j - 1)
    BY <1>0, Constants DEF NotAhead
  <2>3. CASE j = k
    <3>1. j - 1 # k
      BY <2>2, <2>3
    <3>2. Top(j - 1)' = Top(j - 1)
      BY <3>1, <2>2, <1>5
    <3>3. QED
      BY <3>2, <2>3, <1>6
  <2>4. CASE j # k /\ j - 1 = k
    <3>1. Top(j)' = Top(j) /\ Top(j - 1)' = Top(k)'
      BY <2>4, <2>2, <1>5
    <3>2. Top(j - 1) = Top(k)
      BY <2>4
    <3>3. QED
      BY <3>1, <3>2, <2>2, <1>6, <1>7
  <2>5. CASE j # k /\ j - 1 # k
    <3>1. Top(j)' = Top(j) /\ Top(j - 1)' = Top(j - 1)
      BY <2>5, <2>2, <1>5
    <3>2. QED
      BY <3>1, <2>2
  <2>6. QED
    BY <2>3, <2>4, <2>5
<1>14. Done'
  <2>1. SUFFICES ASSUME NEW j \in 2 .. Last, NEW r \in stored, Trunc(j, r[2]) < Top(j)'
        PROVE  In(j, r[1], r[2])' \/ Gone(j, r[2])
    BY <1>2, <1>9 DEF Done, Trunc
  <2>2. j \in Levels
    BY Constants
  <2>3. CASE j # k
    BY <2>1, <2>2, <2>3, <1>5, <1>0 DEF Done
  <2>4. CASE j = k /\ Trunc(k, r[2]) < Top(k)
    BY <2>1, <2>4, <1>8, <1>0 DEF Done
  <2>5. CASE j = k /\ ~(Trunc(k, r[2]) < Top(k))
    <3>1. Trunc(k, r[2]) \in Nat /\ Top(k) \in Nat /\ Trunc(k, at) \in Nat
      BY <1>3, <1>7
    <3>2. Top(k) <= Trunc(k, r[2]) /\ Trunc(k, r[2]) < Trunc(k, at)
      BY <2>1, <2>5, <3>1, <1>6
    <3>3. QED
      BY <3>2, <2>5, <1>6
  <2>6. QED
    BY <2>3, <2>4, <2>5
<1>15. Held'
  <2>1. SUFFICES ASSUME NEW j \in 2 .. Last, NEW r \in stored, Trunc(j, r[2]) >= Top(j)', Settled(j - 1, r[2])'
        PROVE  In(j - 1, r[1], r[2])'
    BY <1>2 DEF Held, Trunc
  <2>2. /\ j \in Levels /\ j - 1 \in Levels /\ j \in Nat
        /\ Trunc(j, r[2]) \in Nat /\ Trunc(k, r[2]) \in Nat /\ Trunc(k, at) \in Nat
        /\ Top(j) \in Nat /\ Top(k) \in Nat
    BY Constants, <1>3, <1>7
  <2>3. Trunc(j, r[2]) >= Top(j)
    <3>1. CASE j = k
      BY <3>1, <2>1, <2>2, <1>6
    <3>2. CASE j # k
      BY <3>2, <2>1, <2>2, <1>5
    <3>3. QED
      BY <3>1, <3>2
  <2>4. j - 1 = 1 \/ Trunc(j - 1, r[2]) < Top(j - 1)' \/ (k + 1 > j - 1 /\ Trunc(j - 1, r[2]) < Trunc(j - 1, at))
    BY <2>1, <1>2 DEF Settled, Trunc
  <2>5. CASE j - 1 # k
    <3>1. Top(j - 1)' = Top(j - 1)
      BY <2>5, <2>2, <1>5
    <3>2. Settled(j - 1, r[2])
      BY <3>1, <2>4, <2>5, <2>2, <1>1, <1>3 DEF Settled
    <3>3. In(j - 1, r[1], r[2])
      BY <3>2, <2>3, <1>0 DEF Held
    <3>4. QED
      BY <3>3, <2>5, <2>2, <1>5
  <2>6. CASE j - 1 = k /\ Trunc(k, r[2]) < Top(k)
    <3>1. Settled(j - 1, r[2])
      BY <2>6 DEF Settled
    <3>2. In(j - 1, r[1], r[2])
      BY <3>1, <2>3, <1>0 DEF Held
    <3>3. In(k, r[1], r[2])
      BY <3>2, <2>6
    <3>4. In(k, r[1], r[2])'
      BY <3>3, <1>8
    <3>5. QED
      BY <3>4, <2>6
  <2>7. CASE j - 1 = k /\ ~(Trunc(k, r[2]) < Top(k))
    <3>1. Trunc(k, r[2]) < Top(k)' \/ Trunc(k, r[2]) < Trunc(k, at)
      <4>1. k # 1 /\ Top(j - 1)' = Top(k)'
        BY <2>7, <1>1
      <4>2. QED
        BY <4>1, <2>4, <2>7
    <3>2. Top(k) <= Trunc(k, r[2]) /\ Trunc(k, r[2]) < Trunc(k, at)
      BY <3>1, <2>7, <2>2, <1>6
    <3>3. In(k, r[1], r[2])'
      BY <3>2, <1>6
    <3>4. QED
      BY <3>3, <2>7
  <2>8. QED
    BY <2>5, <2>6, <2>7
<1>16. Caught'
  <2>1. SUFFICES ASSUME NEW j \in 2 .. Last, k + 1 > j PROVE Trunc(j, at) <= Top(j)' + Width[j] + Empty(j)
    BY <1>2 DEF Caught, Empty, Trunc
  <2>2. CASE j = k
    BY <2>2, <1>6
  <2>3. CASE j # k
    <3>1. step > j /\ j \in Levels
      BY <2>1, <2>3, <1>1, <1>3, Constants
    <3>2. QED
      BY <3>1, <2>3, <1>5, <1>0 DEF Caught
  <2>4. QED
    BY <2>2, <2>3
<1>17. QED
  BY <1>10, <1>11, <1>12, <1>13, <1>14, <1>15, <1>16 DEF IInv

(* Prune: what is deleted is older than the newest row of the next tier, which         *)
(* therefore has it.                                                                   *)
LEMMA PruneIInv == ASSUME IInv, Prune PROVE IInv'
<1>0. TypeOK /\ RowsTrue /\ Past /\ NotAhead /\ Done /\ Held /\ Dense /\ Caught /\ Fresh
  BY DEF IInv
<1>1. PICK k \in 1 .. Last - 1 : k = step - Last
  BY <1>0, Constants DEF Prune, TypeOK
<1>2. /\ step > Last /\ now' = now /\ stored' = stored
      /\ step' = step + 1 \/ step' = 0
      /\ step' = (IF k < Last - 1 THEN step + 1 ELSE 0)
      /\ at' = IF step' = 0 THEN 0 ELSE at
      /\ rows' = IF Retain[k] = 0 THEN rows ELSE [rows EXCEPT ![k] = Pruned(k)]
  BY <1>1 DEF Prune
<1>3. /\ \A r \in stored : r[1] \in Metrics /\ r[2] \in Times /\ r[2] \in Nat /\ r = <<r[1], r[2]>>
      /\ now \in Nat /\ at \in Nat /\ at <= now /\ step \in Nat
      /\ k \in Levels /\ k \in Nat /\ k + 1 \in Levels /\ k + 1 \in 2 .. Last
      /\ \A j \in Levels : rows[j] \in Tiers
      /\ Retain[k] \in Nat /\ Width[k + 1] \in Nat /\ Retain[k] >= 2 * Width[k + 1] - 1 + Empty(k + 1)
      /\ Empty(k + 1) \in Nat
  <2>1. k \in Levels /\ k \in Nat /\ k + 1 \in Levels /\ k + 1 \in 2 .. Last
    BY <1>1, Constants
  <2>2. Retain[k] \in Nat /\ Width[k + 1] \in Nat /\ Retain[k] >= 2 * Width[k + 1] - 1 + Empty(k + 1)
      /\ Empty(k + 1) \in Nat
    BY <2>1, <1>1, Constants, Gaps
  <2>3. step \in Nat /\ at <= now
    BY <1>0, Constants DEF Past, TypeOK
  <2>4. QED
    BY <2>1, <2>2, <2>3, <1>0, Readings
<1>4. /\ \A j \in Levels : j # k => rows'[j] = rows[j]
      /\ \A m \in Metrics, b \in Times :
             rows'[k][m][b] = IF Retain[k] # 0 /\ b < at - Retain[k] THEN {} ELSE rows[k][m][b]
      /\ rows' \in [Levels -> Tiers]
  <2>1. rows \in [Levels -> Tiers]
    BY <1>0 DEF TypeOK, Tiers
  <2>2. CASE Retain[k] = 0
    BY <2>1, <2>2, <1>2
  <2>3. CASE Retain[k] # 0
    <3>1. rows' = [rows EXCEPT ![k] = Pruned(k)]
      BY <2>3, <1>2
    <3>2. /\ rows'[k] = Pruned(k) /\ \A j \in Levels : j # k => rows'[j] = rows[j]
      BY <3>1, <2>1, <1>3
    <3>3. Pruned(k) \in Tiers
      BY <1>3 DEF Pruned, Tiers
    <3>4. \A m \in Metrics, b \in Times : Pruned(k)[m][b] = IF b < at - Retain[k] THEN {} ELSE rows[k][m][b]
      BY DEF Pruned
    <3>5. QED
      BY <2>1, <2>3, <3>1, <3>2, <3>3, <3>4, <1>3
  <2>4. QED
    BY <2>2, <2>3
<1>5. /\ Top(k)' = NewestIn(rows'[k])
      /\ \A j \in Levels : j # k => Top(j)' = Top(j)
      /\ \A j \in Levels : \A m, t : j # k => (In(j, m, t)' <=> In(j, m, t))
      /\ \A j, t : Gone(j, t)' = Gone(j, t)
  BY <1>2, <1>4 DEF Top, In, Gone, NewestIn, Newest, Trunc
<1>6. \A j \in Levels : /\ Top(j) \in Nat
                        /\ \A t \in Nat : Trunc(j, t) \in Nat /\ Trunc(j, t) <= t /\ t < Trunc(j, t) + Width[j]
  BY <1>0, Tops, Buckets
<1>7. \A m \in Metrics, b \in Times : rows'[k][m][b] = rows[k][m][b] \/ (rows'[k][m][b] = {} /\ Retain[k] # 0 /\ b < at - Retain[k])
  BY <1>4
(* What is pruned is older than the newest row of the next tier.                       *)
<1>8. at - Retain[k] <= Top(k + 1)
  <2>1. step > k + 1
    BY <1>2, <1>3, Constants
  <2>2. Trunc(k + 1, at) <= Top(k + 1) + Width[k + 1] + Empty(k + 1)
    BY <2>1, <1>3, <1>0 DEF Caught
  <2>3. Trunc(k + 1, at) \in Nat /\ at < Trunc(k + 1, at) + Width[k + 1] /\ Top(k + 1) \in Nat
    BY <1>3, <1>6
  <2>4. QED
    BY <2>2, <2>3, <1>3
<1>9. ASSUME NEW r \in stored, In(k, r[1], r[2]),
             ~(Retain[k] # 0 /\ Trunc(k, r[2]) < at - Retain[k])
      PROVE  In(k, r[1], r[2])'
  <2>1. r \in stored /\ In(k, r[1], r[2]) /\ ~(Retain[k] # 0 /\ Trunc(k, r[2]) < at - Retain[k])
    BY <1>9
  <2>2. Trunc(k, r[2]) \in Times
    <3>1. Trunc(k, r[2]) \in Nat /\ Trunc(k, r[2]) <= r[2] /\ r[2] \in Times
      BY <1>3, <1>6
    <3>2. QED
      BY <3>1, Constants
  <2>3. rows'[k][r[1]][Trunc(k, r[2])] = rows[k][r[1]][Trunc(k, r[2])]
    BY <2>1, <2>2, <1>3, <1>4
  <2>4. r[2] \in rows'[k][r[1]][Trunc(k, r[2])]
    BY <2>1, <2>3 DEF In
  <2>5. QED
    BY <2>4 DEF In, Trunc
<1>10. TypeOK'
  <2>1. step' \in 0 .. Last + Last - 1
    <3>1. Last \in Nat /\ Last >= 2
      BY Constants
    <3>2. step \in Nat /\ k \in 1 .. Last - 1 /\ k = step - Last
      BY <1>1, <1>3
    <3>3. step' = (IF k < Last - 1 THEN step + 1 ELSE 0)
      BY <1>2
    <3>4. QED
      BY <3>1, <3>2, <3>3
  <2>2. at' \in Times
    BY <1>0, <1>2, Constants DEF TypeOK
  <2>3. QED
    BY <2>1, <2>2, <1>0, <1>2, <1>4 DEF TypeOK, Tiers, Levels, Times
<1>11. RowsTrue'
  <2>1. SUFFICES ASSUME NEW j \in Levels, NEW m \in Metrics, NEW c \in Times, NEW t \in rows'[j][m][c]
        PROVE  Trunc(j, t) = c /\ <<m, t>> \in stored'
    BY DEF RowsTrue, Trunc
  <2>2. t \in rows[j][m][c]
    <3>1. CASE j = k
      BY <3>1, <2>1, <1>7
    <3>2. CASE j # k
      BY <3>2, <2>1, <1>4
    <3>3. QED
      BY <3>1, <3>2
  <2>3. QED
    BY <2>2, <1>2, <1>0 DEF RowsTrue
<1>12. Past' /\ Dense'
  BY <1>0, <1>2, <1>3 DEF Past, Dense
<1>13. k >= 2 => Top(k)' = Top(k)
  <2>1. SUFFICES ASSUME k >= 2 PROVE Top(k)' = Top(k)
    OBVIOUS
  <2>2. Top(k + 1) <= Top(k)
    <3>1. k + 1 \in 3 .. Last /\ k + 1 - 1 = k
      BY <2>1, <1>3
    <3>2. QED
      BY <3>1, <1>0 DEF NotAhead
  <2>3. /\ Top(k)' \in Nat
        /\ Top(k)' \in Times
        /\ \A m \in Metrics, b \in Times : rows'[k][m][b] # {} => b <= Top(k)'
        /\ Top(k)' # 0 => \E m \in Metrics : rows'[k][m][Top(k)'] # {}
    <3>1. rows'[k] \in Tiers
      BY <1>3, <1>4
    <3>2. /\ NewestIn(rows'[k]) \in Times
          /\ \A m \in Metrics, b \in Times : rows'[k][m][b] # {} => b <= NewestIn(rows'[k])
          /\ NewestIn(rows'[k]) # 0 => \E m \in Metrics : rows'[k][m][NewestIn(rows'[k])] # {}
      BY <3>1, NewestRow
    <3>3. QED
      BY <3>2, <1>5, Constants
  <2>4. /\ Top(k) \in Times /\ Top(k) \in Nat
        /\ \A m \in Metrics, b \in Times : rows[k][m][b] # {} => b <= Top(k)
        /\ Top(k) # 0 => \E m \in Metrics : rows[k][m][Top(k)] # {}
    BY <1>3, NewestRow, Constants DEF Top
  <2>5. Top(k)' <= Top(k)
    <3>1. SUFFICES ASSUME Top(k)' # 0 PROVE Top(k)' <= Top(k)
      BY <2>3, <2>4
    <3>2. PICK m \in Metrics : rows'[k][m][Top(k)'] # {}
      BY <3>1, <2>3
    <3>3. rows[k][m][Top(k)'] # {}
      BY <3>2, <2>3, <1>7
    <3>4. QED
      BY <3>3, <2>3, <2>4
  <2>6. Top(k) <= Top(k)'
    <3>1. SUFFICES ASSUME Top(k) # 0 PROVE Top(k) <= Top(k)'
      BY <2>3, <2>4
    <3>2. PICK m \in Metrics : rows[k][m][Top(k)] # {}
      BY <3>1, <2>4
    <3>3. ~(Top(k) < at - Retain[k])
      BY <2>2, <2>4, <1>3, <1>6, <1>8
    <3>4. rows'[k][m][Top(k)] # {}
      BY <3>2, <3>3, <2>4, <1>7
    <3>5. QED
      BY <3>4, <2>3, <2>4
  <2>7. QED
    BY <2>3, <2>4, <2>5, <2>6
<1>14. \A j \in 2 .. Last : Top(j)' = Top(j)
  BY <1>5, <1>13, Constants
<1>15. NotAhead'
  <2>1. \A j \in 3 .. Last : j \in 2 .. Last /\ j - 1 \in 2 .. Last
    BY Constants
  <2>2. QED
    BY <2>1, <1>0, <1>2, <1>14 DEF NotAhead
<1>16. \A r \in stored : Retain[k] # 0 /\ Trunc(k, r[2]) < at - Retain[k] => Gone(k, r[2])
  <2>1. \A r \in stored : Trunc(k, r[2]) \in Nat
    BY <1>3, <1>6
  <2>2. QED
    BY <2>1, <1>3 DEF Gone
<1>17. Done'
  <2>1. SUFFICES ASSUME NEW j \in 2 .. Last, NEW r \in stored, Trunc(j, r[2]) < Top(j)
        PROVE  In(j, r[1], r[2])' \/ Gone(j, r[2])
    BY <1>2, <1>5, <1>14 DEF Done, Trunc
  <2>2. (In(j, r[1], r[2]) \/ Gone(j, r[2])) /\ j \in Levels
    BY <2>1, <1>0, Constants DEF Done
  <2>3. QED
    BY <2>2, <1>5, <1>9, <1>16
<1>18. Fresh'
  <2>1. SUFFICES ASSUME NEW r \in stored PROVE In(1, r[1], r[2])' \/ Gone(1, r[2])
    BY <1>2, <1>5 DEF Fresh
  <2>2. (In(1, r[1], r[2]) \/ Gone(1, r[2])) /\ 1 \in Levels
    BY <2>1, <1>0, Constants DEF Fresh
  <2>3. QED
    BY <2>2, <1>5, <1>9, <1>16
<1>19. Held'
  <2>1. SUFFICES ASSUME NEW j \in 2 .. Last, NEW r \in stored, Trunc(j, r[2]) >= Top(j), Settled(j - 1, r[2])'
        PROVE  In(j - 1, r[1], r[2])'
    BY <1>2, <1>14 DEF Held, Trunc
  <2>2. j \in Levels /\ j - 1 \in Levels /\ (j - 1 = 1 \/ j - 1 \in 2 .. Last) /\ j <= Last /\ j \in Nat /\ Last \in Nat
    BY Constants
  <2>3. Settled(j - 1, r[2])
    <3>1. CASE j - 1 = 1
      BY <3>1 DEF Settled
    <3>2. CASE j - 1 \in 2 .. Last
      <4>1. Trunc(j - 1, r[2]) < Top(j - 1) \/ (step' > j - 1 /\ Trunc(j - 1, r[2]) < Trunc(j - 1, at'))
        BY <3>2, <2>1, <1>14 DEF Settled, Trunc
      <4>2. CASE Trunc(j - 1, r[2]) < Top(j - 1)
        BY <4>2 DEF Settled
      <4>3. CASE step' > j - 1 /\ Trunc(j - 1, r[2]) < Trunc(j - 1, at')
        <5>1. step' # 0
          BY <4>3, <2>2
        <5>2. at' = at /\ step > j - 1
          BY <5>1, <1>2, <1>3, <2>2
        <5>3. QED
          BY <5>2, <4>3 DEF Settled
      <4>4. QED
        BY <4>1, <4>2, <4>3
    <3>3. QED
      BY <2>2, <3>1, <3>2
  <2>4. In(j - 1, r[1], r[2])
    BY <2>1, <2>3, <1>0 DEF Held
  <2>5. CASE j - 1 # k
    BY <2>4, <2>5, <2>2, <1>5
  <2>6. CASE j - 1 = k
    <3>1. j = k + 1
      BY <2>6, <2>2, <1>3
    <3>2. Trunc(j, r[2]) <= Trunc(j - 1, r[2])
      BY <1>3, Nested
    <3>3. Top(k + 1) <= Trunc(k, r[2])
      <4>1. Top(k + 1) <= Trunc(k + 1, r[2]) /\ Trunc(k + 1, r[2]) <= Trunc(k, r[2])
        BY <3>1, <3>2, <2>1, <2>6, <1>3, <1>6
      <4>2. QED
        BY <4>1, <1>3, <1>6
    <3>4. ~(Trunc(k, r[2]) < at - Retain[k])
      BY <3>3, <1>8, <1>3, <1>6
    <3>5. In(k, r[1], r[2])
      BY <2>4, <2>6
    <3>6. In(k, r[1], r[2])'
      BY <3>4, <3>5, <1>9
    <3>7. QED
      BY <3>6, <2>6
  <2>7. QED
    BY <2>5, <2>6
<1>20. Caught'
  <2>1. SUFFICES ASSUME NEW j \in 2 .. Last, step' > j PROVE Trunc(j, at') <= Top(j) + Width[j] + Empty(j)
    BY <1>14 DEF Caught, Empty, Trunc
  <2>2. at' = at /\ step > j
    <3>1. Last \in Nat /\ j \in 2 .. Last /\ step' > j
      BY <2>1, Constants
    <3>2. step \in Nat
      BY <1>3
    <3>3. step > Last /\ at' = IF step' = 0 THEN 0 ELSE at
      BY <1>2
    <3>4. QED
      BY <3>1, <3>2, <3>3
  <2>3. QED
    BY <2>2, <1>0 DEF Caught
<1>21. QED
  BY <1>10, <1>11, <1>12, <1>15, <1>17, <1>18, <1>19, <1>20 DEF IInv

(* Every step of the recorder, its housekeeping and the time keeps the invariant.      *)
LEMMA NextIInv == ASSUME IInv, [Next]_vars PROVE IInv'
<1>0. TypeOK
  BY DEF IInv
<1>1. CASE Tick
  BY <1>1, TickIInv
<1>2. CASE RecordSnapshot
  <2>1. PICK taken \in Times, host \in SUBSET {"host"} :
            taken \in now - MaxAge .. now /\ Record({"unit"} \cup host, taken)
    BY <1>2 DEF RecordSnapshot
  <2>2. {"unit"} \cup host \in SUBSET Metrics
    BY DEF Metrics
  <2>3. taken <= now /\ now - MaxAge <= taken
    BY <2>1, <1>0, Readings, Constants
  <2>4. QED
    BY <2>1, <2>2, <2>3, RecordIInv
<1>3. CASE RecordHost
  <2>1. now \in Times /\ now <= now /\ now - MaxAge <= now
    BY <1>0, Readings, Constants DEF TypeOK
  <2>2. {"host"} \in SUBSET Metrics
    BY DEF Metrics
  <2>3. QED
    BY <2>1, <2>2, <1>3, RecordIInv DEF RecordHost
<1>4. CASE BeginHousekeep
  BY <1>4, BeginIInv
<1>5. CASE Rollup
  BY <1>5, RollupIInv
<1>6. CASE Prune
  BY <1>6, PruneIInv
<1>7. CASE GiveUp
  BY <1>7, GiveUpIInv
<1>8. CASE UNCHANGED vars
  <2>1. now' = now /\ rows' = rows /\ step' = step /\ at' = at /\ stored' = stored
    BY <1>8 DEF vars, keepVars
  <2>2. /\ \A k : Top(k)' = Top(k)
        /\ \A k, m, t : In(k, m, t)' = In(k, m, t)
    BY <1>0, <2>1, SameRows
  <2>3. TypeOK' /\ RowsTrue' /\ Past' /\ NotAhead' /\ Dense'
    BY <2>1, <2>2 DEF IInv, TypeOK, RowsTrue, Past, NotAhead, Dense, Levels, Times, Trunc
  <2>4. Done' /\ Held' /\ Caught' /\ Fresh'
    BY <2>1, <2>2 DEF IInv, Done, Held, Caught, Fresh, Gone, Settled, Trunc
  <2>5. QED
    BY <2>3, <2>4 DEF IInv
<1>9. QED
  BY <1>1, <1>2, <1>3, <1>4, <1>5, <1>6, <1>7, <1>8 DEF Next

(* The inductive invariant holds throughout, for any tiers and any length of time.     *)
THEOREM Invariance == Spec => []IInv
  BY InitIInv, NextIInv, PTL DEF Spec

(* A reading the tier n is not done with is in the tier below the first that is not    *)
(* done with it.                                                                       *)
LEMMA FirstOpen ==
    ASSUME IInv, NEW r \in stored, NEW n \in 2 .. Last, Trunc(n, r[2]) >= Top(n)
    PROVE  \E i \in 2 .. n : Trunc(i, r[2]) >= Top(i) /\ In(i - 1, r[1], r[2])
<1> DEFINE S == {i \in 2 .. n : Trunc(i, r[2]) >= Top(i)}
<1>0. TypeOK /\ RowsTrue /\ Held
  BY DEF IInv
<1>1. S \in SUBSET Nat /\ S # {}
  OBVIOUS
<1>2. PICK i \in S : \A y \in S : i <= y
  BY <1>1, LeastOf
<1>3. i \in 2 .. Last /\ i \in 2 .. n /\ Trunc(i, r[2]) >= Top(i) /\ i - 1 \in Levels
  BY <1>2, Constants
<1>4. Settled(i - 1, r[2])
  <2>1. CASE i = 2
    BY <2>1 DEF Settled
  <2>2. CASE i # 2
    <3>1. i - 1 \in 2 .. n /\ ~(i <= i - 1)
      BY <2>2, <1>3
    <3>2. ~(Trunc(i - 1, r[2]) >= Top(i - 1))
      BY <3>1, <1>2
    <3>3. Trunc(i - 1, r[2]) \in Nat /\ Top(i - 1) \in Nat
      BY <1>0, <1>3, Tops, Buckets, Readings
    <3>4. QED
      BY <3>2, <3>3 DEF Settled
  <2>3. QED
    BY <2>1, <2>2
<1>5. In(i - 1, r[1], r[2])
  BY <1>0, <1>3, <1>4 DEF Held
<1>6. QED
  BY <1>3, <1>5

(* Some tier has every reading that was ever stored, whenever housekeeping (Rollup,    *)
(* then Prune, store.go) is interrupted: if the coarsest is done with it, it is        *)
(* there for ever, and otherwise the tier below the first that is not done with it     *)
(* has it.                                                                             *)
THEOREM NeverLost == Spec => []NothingIsLost
<1>1. IInv => NothingIsLost
  <2>1. SUFFICES ASSUME IInv, NEW r \in stored PROVE \E k \in Levels : In(k, r[1], r[2])
    BY DEF NothingIsLost, In
  <2>2. TypeOK /\ RowsTrue /\ Done
    BY <2>1 DEF IInv
  <2>3. /\ Last \in 2 .. Last /\ Last \in Levels /\ r[2] \in Nat
        /\ Trunc(Last, r[2]) \in Nat /\ Top(Last) \in Nat
    BY <2>2, Constants, Readings, Buckets, Tops
  <2>4. CASE Trunc(Last, r[2]) < Top(Last)
    BY <2>2, <2>3, <2>4, Constants DEF Done, Gone
  <2>5. CASE Trunc(Last, r[2]) >= Top(Last)
    <3>1. PICK i \in 2 .. Last : In(i - 1, r[1], r[2])
      BY <2>1, <2>3, <2>5, FirstOpen
    <3>2. i - 1 \in Levels
      BY Constants
    <3>3. QED
      BY <3>1, <3>2
  <2>6. QED
    BY <2>3, <2>4, <2>5
<1>2. QED
  BY Invariance, <1>1, PTL

(* No step takes readings out of a row but by deleting the row.                        *)
LEMMA RedoingStep ==
    ASSUME IInv, [Next]_vars, NEW k \in 2 .. Last, NEW m \in Metrics, NEW b \in Times
    PROVE  rows'[k][m][b] = {} \/ rows[k][m][b] \subseteq rows'[k][m][b]
<1>0. rows \in [Levels -> Tiers] /\ k \in Levels /\ k # 1
  BY Constants DEF IInv, TypeOK, Tiers
<1>1. CASE rows' = rows
  BY <1>1
<1>2. CASE RecordSnapshot \/ RecordHost
  <2>1. rows'[k] = rows[k]
    BY <1>0, <1>2 DEF RecordSnapshot, RecordHost, Record
  <2>2. QED
    BY <2>1
<1>3. CASE Rollup
  <2>1. step \in 2 .. Last /\ rows' = [rows EXCEPT ![step] = RolledInto(step)]
    BY <1>3 DEF Rollup
  <2>2. CASE k = step
    <3>1. rows'[k] = RolledInto(k)
      BY <2>1, <2>2, <1>0
    <3>2. QED
      BY <3>1, <2>2, RollingUp
  <2>3. CASE k # step
    BY <2>1, <2>3, <1>0
  <2>4. QED
    BY <2>2, <2>3
<1>4. CASE Prune
  <2> DEFINE j == step - Last
  <2>1. rows' = IF Retain[j] = 0 THEN rows ELSE [rows EXCEPT ![j] = Pruned(j)]
    BY <1>4 DEF Prune
  <2>2. CASE Retain[j] # 0 /\ k = j
    <3>1. rows'[k] = Pruned(k)
      BY <2>1, <2>2, <1>0
    <3>2. Pruned(k)[m][b] = IF b < at - Retain[k] THEN {} ELSE rows[k][m][b]
      BY DEF Pruned
    <3>3. QED
      BY <3>1, <3>2
  <2>3. CASE Retain[j] = 0 \/ k # j
    BY <2>1, <2>3, <1>0
  <2>4. QED
    BY <2>2, <2>3
<1>5. CASE Tick \/ BeginHousekeep \/ GiveUp \/ UNCHANGED vars
  BY <1>1, <1>5 DEF Tick, BeginHousekeep, GiveUp, vars
<1>6. QED
  BY <1>2, <1>3, <1>4, <1>5 DEF Next

(* The newest coarse row is redone on every pass (rollupInto) from rows that are       *)
(* being pruned, and never comes out with less.                                        *)
THEOREM RedoingSafe == Spec => RedoingLosesNothing
<1>1. IInv /\ [Next]_vars => [\A k \in 2 .. Last, m \in Metrics, b \in Times :
          rows'[k][m][b] = {} \/ rows[k][m][b] \subseteq rows'[k][m][b]]_rows
  BY RedoingStep
<1>2. QED
  BY Invariance, <1>1, PTL DEF Spec, RedoingLosesNothing

(* The tier a chart asks for.                                                          *)
LEMMA Chosen ==
    ASSUME NEW from \in Nat, NEW points \in Nat
    PROVE  /\ ChooseTier(from, points) \in Levels
           /\ Retain[ChooseTier(from, points)] > 0 => now - from <= Retain[ChooseTier(from, points)]
<1> DEFINE S == {Last} \cup {k \in Levels : Covers(k, from, points)}
<1>1. S \in SUBSET Nat /\ S # {} /\ Last \in Levels
  BY Constants
<1>2. ChooseTier(from, points) \in S
  <2>1. Min(S) \in S
    <3> HIDE DEF S
    <3> QED
      BY <1>1, LeastOf
  <2>2. QED
    BY <2>1 DEF ChooseTier
<1>3. CASE ChooseTier(from, points) = Last
  BY <1>1, <1>3, Constants
<1>4. CASE ChooseTier(from, points) \in Levels /\ Covers(ChooseTier(from, points), from, points)
  BY <1>4 DEF Covers
<1>5. QED
  BY <1>2, <1>3, <1>4

(* The tier it gets.                                                                   *)
LEMMA Queried ==
    ASSUME NEW m \in Metrics, NEW from \in Nat, NEW points \in Nat
    PROVE  /\ Query(m, from, points) \in 1 .. ChooseTier(from, points)
           /\ \A j \in Query(m, from, points) + 1 .. ChooseTier(from, points) : Read(m, j, from) = {}
<1> DEFINE best == ChooseTier(from, points)
           S == {1} \cup {k \in 1 .. best : Read(m, k, from) # {}}
<1>1. best \in Nat /\ 1 <= best
  <2>1. best \in Levels
    BY Chosen
  <2> HIDE DEF best
  <2>2. QED
    BY <2>1, Constants
<1>2. S \in SUBSET (0 .. best) /\ S # {} /\ S \subseteq 1 .. best
  BY <1>1
<1>3. Max(S) \in S /\ \A y \in S : y <= Max(S)
  <2> HIDE DEF S
  <2> QED
    BY <1>1, <1>2, GreatestOf
<1>4. Query(m, from, points) = Max(S)
  BY DEF Query
<1>5. \A j \in Max(S) + 1 .. best : Read(m, j, from) = {}
  <2>1. SUFFICES ASSUME NEW j \in Max(S) + 1 .. best, Read(m, j, from) # {} PROVE FALSE
    OBVIOUS
  <2>2. Max(S) \in 1 .. best
    BY <1>2, <1>3
  <2>3. j \in 1 .. best /\ ~(j <= Max(S))
    <3> HIDE DEF S, best
    <3> QED
      BY <2>1, <2>2, <1>1
  <2>4. j \in S
    BY <2>1, <2>3
  <2>5. QED
    BY <2>3, <2>4, <1>3
<1>6. QED
  BY <1>2, <1>3, <1>4, <1>5

(* The tier Query ends in has what a chart asks for: a finer tier than chooseTier's    *)
(* is drawn only while the coarser ones have nothing to draw.                          *)
LEMMA ChartWhole ==
    ASSUME IInv, NEW m \in Metrics, NEW from \in Nat, from <= now, NEW points \in Nat,
           NEW r \in stored, r[1] = m,
           Trunc(ChooseTier(from, points), r[2]) >= from,
           Trunc(Query(m, from, points), r[2]) < Top(Query(m, from, points))
    PROVE  In(Query(m, from, points), m, r[2])
<1> DEFINE best == ChooseTier(from, points)
           k    == Query(m, from, points)
           t    == r[2]
<1>0. TypeOK /\ RowsTrue /\ Past /\ NotAhead /\ Done /\ Fresh
  BY DEF IInv
<1>1. /\ best \in Levels /\ (Retain[best] > 0 => now - from <= Retain[best])
      /\ k \in 1 .. best /\ \A j \in k + 1 .. best : Read(m, j, from) = {}
      /\ k \in Levels /\ best \in Nat /\ k \in Nat
      /\ Trunc(best, t) >= from /\ Trunc(k, t) < Top(k) /\ r[1] = m
  <2>1. best \in Levels /\ (Retain[best] > 0 => now - from <= Retain[best])
    BY Chosen
  <2>2. k \in 1 .. best /\ \A j \in k + 1 .. best : Read(m, j, from) = {}
    BY Queried
  <2>3. Trunc(best, t) >= from /\ Trunc(k, t) < Top(k) /\ r[1] = m
    OBVIOUS
  <2> HIDE DEF best, k, t
  <2>4. k \in Levels /\ best \in Nat /\ k \in Nat
    BY <2>1, <2>2, Constants
  <2>5. QED
    BY <2>1, <2>2, <2>3, <2>4
<1> HIDE DEF best, k
<1>2. /\ t \in Times /\ t \in Nat /\ now \in Nat /\ now \in Times /\ t <= now
      /\ \A j \in Levels : Trunc(j, t) \in Nat /\ Trunc(j, t) <= t /\ Top(j) \in Nat
                           /\ Trunc(j, Top(j)) = Top(j) /\ Retain[j] \in Nat
  BY <1>0, Readings, Buckets, Tops, Constants DEF Past, TypeOK
<1>3. ~Gone(best, t)
  <2>1. Retain[best] \in Nat /\ Trunc(best, t) \in Nat
    BY <1>1, <1>2
  <2>2. QED
    BY <2>1, <1>1, <1>2 DEF Gone
<1>4. CASE k = best
  <2>1. CASE k = 1
    <3>1. In(1, r[1], t) \/ Gone(1, t)
      BY <1>0 DEF Fresh
    <3>2. In(k, m, t)
      BY <3>1, <2>1, <1>1, <1>3, <1>4
    <3>3. QED
      BY <3>2 DEF k
  <2>2. CASE k # 1
    <3>1. k \in 2 .. Last
      BY <2>2, <1>1, Constants
    <3>2. Trunc(k, t) < Top(k) => In(k, r[1], t) \/ Gone(k, t)
      BY <3>1, <1>0 DEF Done
    <3>3. In(k, m, t)
      BY <3>2, <1>1, <1>3, <1>4
    <3>4. QED
      BY <3>3 DEF k
  <2>3. QED
    BY <2>1, <2>2
<1>5. CASE k # best
  (* No tier above has the reading: it would have drawn it. *)
  <2>1. ASSUME NEW j \in k + 1 .. best, In(j, m, t) PROVE FALSE
    <3>1. j \in Levels /\ j <= best /\ Trunc(j, t) \in Nat
      <4>1. j \in Levels /\ j <= best
        <5> HIDE DEF t
        <5> QED
          BY <2>1, <1>1, Constants
      <4>2. QED
        BY <4>1, <1>2
    <3>2. Trunc(best, t) <= Trunc(j, t)
      BY <3>1, <1>1, <1>2, Coarser
    <3>3. Trunc(j, t) \in from .. now
      BY <3>1, <3>2, <1>1, <1>2
    <3>4. Trunc(j, t) \in Read(m, j, from)
      BY <2>1, <3>3 DEF Read, In
    <3>5. QED
      BY <3>4, <1>1
  <2>2. best \in 2 .. Last /\ best \in k + 1 .. best
    BY <1>1, <1>5, Constants
  <2>3. Trunc(best, t) >= Top(best)
    <3>1. ~(Trunc(best, t) < Top(best))
      BY <2>1, <2>2, <1>0, <1>1, <1>3 DEF Done
    <3>2. QED
      BY <3>1, <1>1, <1>2
  <2>4. PICK i \in 2 .. best : Trunc(i, t) >= Top(i) /\ In(i - 1, m, t)
    BY <2>2, <2>3, <1>1, FirstOpen
  <2>5. i - 1 \in Nat /\ ~(i - 1 \in k + 1 .. best) /\ i - 1 <= k /\ i \in Levels /\ i \in Nat /\ i >= 2
    <3>1. ~(i - 1 \in k + 1 .. best)
      BY <2>1, <2>4
    <3>2. QED
      BY <3>1, <1>1, Constants
  <2>6. CASE i - 1 = k
    <3>1. In(i - 1, m, t)
      BY <2>4
    <3>2. In(k, m, t)
      BY <3>1, <2>6
    <3>3. QED
      BY <3>2 DEF k
  <2>7. CASE i - 1 # k
    <3>1. i <= k
      BY <2>5, <2>7, <1>1
    <3>2. Top(k) <= Top(i)
      <4> DEFINE S == {j \in Levels : Top(j) <= Top(i)}
      <4>1. i \in S
        BY <2>5, <1>2
      <4>2. \A j \in i .. k - 1 : j \in S => j + 1 \in S
        <5>1. SUFFICES ASSUME NEW j \in i .. k - 1, j \in S PROVE j + 1 \in S
          OBVIOUS
        <5>2. j + 1 \in 3 .. Last /\ j + 1 \in Levels /\ j + 1 - 1 = j /\ j \in Levels
          BY <2>5, <1>1, Constants
        <5>3. Top(j + 1) <= Top(j)
          BY <5>2, <1>0 DEF NotAhead
        <5>4. Top(j + 1) \in Nat /\ Top(j) \in Nat /\ Top(i) \in Nat
          BY <5>2, <2>5, <1>2
        <5>5. QED
          BY <5>1, <5>2, <5>3, <5>4
      <4>3. i .. k \subseteq S
        <5> HIDE DEF S
        <5> QED
          BY <4>1, <4>2, <2>5, <1>1, Climb
      <4>4. k \in i .. k
        BY <3>1, <2>5, <1>1
      <4>5. QED
        BY <4>3, <4>4
    <3>3. Top(k) <= t
      BY <3>2, <2>4, <2>5, <1>1, <1>2
    <3>4. Top(k) <= Trunc(k, t)
      BY <3>3, <1>1, <1>2, Sides
    <3>5. QED
      BY <3>4, <1>1, <1>2
  <2>8. QED
    BY <2>6, <2>7
<1>6. QED
  BY <1>4, <1>5 DEF k

(* Whatever a chart asks for (chooseTier, Query), it lacks no reading that its tier    *)
(* is done with.                                                                       *)
THEOREM WholeCharts == Spec => []ChartsAreWhole
<1>1. IInv => ChartsAreWhole
  <2>1. SUFFICES ASSUME IInv PROVE ChartsAreWhole
    OBVIOUS
  <2> DEFINE newest == [k \in Levels |-> NewestIn(rows[k])]
  <2>2. SUFFICES ASSUME NEW m \in Metrics, NEW from \in 0 .. now, NEW points \in Points,
                        NEW r \in stored, r[1] = m,
                        Trunc(ChooseTier(from, points), r[2]) >= from,
                        Trunc(Query(m, from, points), r[2]) < newest[Query(m, from, points)]
        PROVE  r[2] \in rows[Query(m, from, points)][m][Trunc(Query(m, from, points), r[2])]
    BY DEF ChartsAreWhole
  <2>3. points \in Nat /\ from \in Nat /\ from <= now
    BY <2>1, HistoryAssumption, Readings DEF IInv
  <2>4. Query(m, from, points) \in Levels
    <3>1. ChooseTier(from, points) \in Levels
      BY <2>3, Chosen
    <3>2. Query(m, from, points) \in 1 .. ChooseTier(from, points)
      BY <2>3, Queried
    <3>3. QED
      BY <3>1, <3>2, Constants
  <2>5. newest[Query(m, from, points)] = Top(Query(m, from, points))
    BY <2>4 DEF Top
  <2>6. In(Query(m, from, points), m, r[2])
    BY <2>1, <2>2, <2>3, <2>5, ChartWhole
  <2>7. QED
    BY <2>6 DEF In
<1>2. QED
  BY Invariance, <1>1, PTL

======================================================================================
