------------------------- MODULE BarFeedProofs --------------------------
(***************************************************************************)
(* What the pipeline is fed (BarFeed), proved for bars, windows and        *)
(* intervals of any length, a start-up of any length the assumptions       *)
(* allow, and any number of downloads into the store meanwhile.            *)
(***************************************************************************)
EXTENDS BarFeed, FiniteSetTheorems, SequenceTheorems, TLAPS

\* A moment that a candle opens at.
Aligned(t) == t \in Int /\ t % BarSlots = 0

Rows == [ts : Int, taken : Int]

\* A store of aligned bars, each price taken while its candle was open or when
\* it closed.
StoreOK(rows) ==
    /\ \A ts \in DOMAIN rows :
         Aligned(ts) /\ rows[ts] \in Int /\ ts <= rows[ts] /\ rows[ts] <= ts + BarSlots

----------------------------------------------------------------------------
(* Bars and moments.                                                        *)

LEMMA Multiples ==
    ASSUME NEW n \in Int
    PROVE  (BarSlots * n) \div BarSlots = n /\ Aligned(BarSlots * n)
  BY BarFeedAssumption DEF Aligned

LEMMA AlignedMultiple ==
    ASSUME NEW t, Aligned(t)
    PROVE  t \div BarSlots \in Int /\ t = BarSlots * (t \div BarSlots)
  BY BarFeedAssumption DEF Aligned

LEMMA AlignedSteps ==
    ASSUME NEW t, Aligned(t)
    PROVE  /\ \A n \in Int : Aligned(t + BarSlots * n)
           /\ Aligned(t + BarSlots) /\ Aligned(t - BarSlots)
  <1> DEFINE q == t \div BarSlots
  <1>1. q \in Int /\ t = BarSlots * q /\ BarSlots \in Int
    BY AlignedMultiple, BarFeedAssumption
  <1> HIDE DEF q
  <1>2. ASSUME NEW n \in Int PROVE Aligned(t + BarSlots * n)
    <2>1. q + n \in Int
      BY <1>1
    <2>2. Aligned(BarSlots * (q + n))
      BY <2>1, Multiples
    <2>3. BarSlots * (q + n) = t + BarSlots * n
      BY <1>1
    <2> QED
      BY <2>2, <2>3
  <1>3. /\ BarSlots * 1 = BarSlots /\ BarSlots * (-1) = -BarSlots
        /\ t + -BarSlots = t - BarSlots
    BY <1>1
  <1>4. Aligned(t + BarSlots)
    BY <1>2, <1>3, 1 \in Int
  <1>5. Aligned(t - BarSlots)
    <2>1. -1 \in Int
      OBVIOUS
    <2>2. Aligned(t + BarSlots * (-1))
      BY <1>2, <2>1
    <2> QED
      BY <1>3, <2>2
  <1> QED
    BY <1>2, <1>4, <1>5

\* Between two moments candles open at lies at least a bar.
LEMMA AlignedApart ==
    ASSUME NEW s, Aligned(s), NEW t, Aligned(t), s < t
    PROVE  s + BarSlots <= t
  <1> DEFINE p == s \div BarSlots
             q == t \div BarSlots
  <1>1. /\ p \in Int /\ s = BarSlots * p /\ BarSlots \in Int /\ BarSlots > 0
        /\ q \in Int /\ t = BarSlots * q
    BY AlignedMultiple, BarFeedAssumption
  <1> HIDE DEF p, q
  <1>2. p < q
    <2>1. ASSUME q <= p PROVE FALSE
      <3>1. BarSlots * q <= BarSlots * p
        BY <1>1, <2>1
      <3> QED
        BY <1>1, <3>1
    <2> QED
      BY <1>1, <2>1
  <1>3. BarSlots * (p + 1) <= BarSlots * q
    BY <1>1, <1>2
  <1> QED
    BY <1>1, <1>3

LEMMA Alignment ==
    ASSUME NEW t \in Int
    PROVE  /\ Aligned(AlignToBarClose(t))
           /\ AlignToBarClose(t) <= t /\ t < AlignToBarClose(t) + BarSlots
           /\ \A s : Aligned(s) /\ s <= t => s <= AlignToBarClose(t)
           /\ \A s : Aligned(s) /\ s <= t /\ t < s + BarSlots => s = AlignToBarClose(t)
  <1>1. /\ Aligned(AlignToBarClose(t))
        /\ AlignToBarClose(t) <= t /\ t < AlignToBarClose(t) + BarSlots
    <2>1. AlignToBarClose(t) % BarSlots = 0
      BY BarFeedAssumption DEF AlignToBarClose
    <2>2. AlignToBarClose(t) \in Int
      BY BarFeedAssumption DEF AlignToBarClose
    <2>3. AlignToBarClose(t) <= t /\ t < AlignToBarClose(t) + BarSlots
      BY BarFeedAssumption DEF AlignToBarClose
    <2> QED
      BY <2>1, <2>2, <2>3 DEF Aligned
  <1> DEFINE a == AlignToBarClose(t)
  <1> HIDE DEF a
  <1>2. ASSUME NEW s, Aligned(s), s <= t PROVE s <= a
    <2>1. a < s => a + BarSlots <= s
      BY <1>1, <1>2, AlignedApart DEF a
    <2> QED
      BY <1>1, <1>2, <2>1, BarFeedAssumption DEF Aligned, a
  <1>3. ASSUME NEW s, Aligned(s), s <= t, t < s + BarSlots PROVE s = a
    <2>1. s < a => s + BarSlots <= a
      BY <1>1, <1>3, AlignedApart DEF a
    <2>2. s <= a
      BY <1>2, <1>3
    <2> QED
      BY <1>1, <1>3, <2>1, <2>2, BarFeedAssumption DEF Aligned, a
  <1> QED
    BY <1>1, <1>2, <1>3 DEF a


\* The moments candles open at, from one of them to another, are evenly spaced.
LEMMA Grid ==
    ASSUME NEW first, Aligned(first), NEW last, Aligned(last), first <= last
    PROVE  LET n == (last - first) \div BarSlots + 1
           IN  /\ n \in Nat \ {0}
               /\ last = first + BarSlots * (n - 1)
               /\ \A ts : Aligned(ts) /\ first <= ts /\ ts <= last =>
                    \E i \in 1..n : ts = first + BarSlots * (i - 1)
  <1> DEFINE p == first \div BarSlots
             q == last \div BarSlots
             n == (last - first) \div BarSlots + 1
  <1>1. /\ p \in Int /\ first = BarSlots * p /\ BarSlots \in Int /\ BarSlots > 0
        /\ q \in Int /\ last = BarSlots * q
    BY AlignedMultiple, BarFeedAssumption
  <1>2. n = q - p + 1
    <2>1. last - first = BarSlots * (q - p)
      BY <1>1
    <2>2. q - p \in Int
      BY <1>1
    <2>3. (BarSlots * (q - p)) \div BarSlots = q - p
      BY <2>2, Multiples
    <2> QED
      BY <2>1, <2>3
  <1> HIDE DEF p, q, n
  <1>3. \A a, b \in Int : BarSlots * a <= BarSlots * b => a <= b
    <2> SUFFICES ASSUME NEW a \in Int, NEW b \in Int, b < a
                 PROVE  ~(BarSlots * a <= BarSlots * b)
      OBVIOUS
    <2>1. BarSlots * (b + 1) <= BarSlots * a
      BY <1>1
    <2> QED
      BY <1>1, <2>1
  <1>4. p <= q
    BY <1>1, <1>3
  <1>5. n \in Nat \ {0}
    BY <1>1, <1>2, <1>4
  <1>6. last = first + BarSlots * (n - 1)
    <2>1. n - 1 = q - p
      BY <1>1, <1>2
    <2>2. BarSlots * q = BarSlots * p + BarSlots * (q - p)
      BY <1>1
    <2> QED
      BY <1>1, <2>1, <2>2
  <1>7. ASSUME NEW ts, Aligned(ts), first <= ts, ts <= last
        PROVE  \E i \in 1..n : ts = first + BarSlots * (i - 1)
    <2> DEFINE r == ts \div BarSlots
    <2>1. r \in Int /\ ts = BarSlots * r
      BY <1>7, AlignedMultiple
    <2> HIDE DEF r
    <2>2. p <= r /\ r <= q
      BY <1>1, <1>3, <1>7, <2>1
    <2>3. r - p + 1 \in 1..n
      BY <1>1, <1>2, <2>1, <2>2
    <2>4. first + BarSlots * ((r - p + 1) - 1) = ts
      <3>1. (r - p + 1) - 1 = r - p
        BY <1>1, <2>1
      <3>2. BarSlots * r = BarSlots * p + BarSlots * (r - p)
        BY <1>1, <2>1
      <3> QED
        BY <1>1, <2>1, <3>1, <3>2
    <2> QED
      BY <2>3, <2>4
  <1> QED
    BY <1>5, <1>6, <1>7 DEF n

LEMMA GridPoints ==
    ASSUME NEW first, Aligned(first), NEW n \in Nat
    PROVE  /\ \A i \in 1..n : Aligned(first + BarSlots * (i - 1))
           /\ \A i \in 1..n : first <= first + BarSlots * (i - 1)
           /\ \A i \in 1..n : first + BarSlots * (i - 1) <= first + BarSlots * (n - 1)
           /\ \A i, j \in 1..n :
                i < j => first + BarSlots * (i - 1) < first + BarSlots * (j - 1)
  <1>1. first \in Int /\ BarSlots \in Int /\ BarSlots > 0
    BY BarFeedAssumption DEF Aligned
  <1>2. ASSUME NEW i \in 1..n PROVE Aligned(first + BarSlots * (i - 1))
    <2>1. i - 1 \in Int
      OBVIOUS
    <2> QED
      BY <2>1, AlignedSteps
  <1>3. ASSUME NEW i \in Int, NEW j \in Int, i < j
        PROVE  BarSlots * (i - 1) < BarSlots * (j - 1)
    <2>1. BarSlots * (j - 1) = BarSlots * (i - 1) + BarSlots * (j - i)
      BY <1>1
    <2>2. BarSlots * (j - i) > 0
      BY <1>1, <1>3
    <2> QED
      BY <1>1, <2>1, <2>2
  <1>4. BarSlots * (1 - 1) = 0
    BY <1>1
  <1>5. \A i, j \in 1..n : i < j => BarSlots * (i - 1) < BarSlots * (j - 1)
    BY <1>3
  <1>6. \A i \in 1..n : 1 < i => BarSlots * (1 - 1) < BarSlots * (i - 1)
    BY <1>3
  <1>7. \A i \in 1..n : i < n => BarSlots * (i - 1) < BarSlots * (n - 1)
    BY <1>3
  <1>8. \A i \in 1..n : BarSlots * (i - 1) \in Int
    BY <1>1
  <1>9. ASSUME NEW i \in 1..n
        PROVE  /\ first <= first + BarSlots * (i - 1)
               /\ first + BarSlots * (i - 1) <= first + BarSlots * (n - 1)
    <2>1. i = 1 \/ 1 < i
      OBVIOUS
    <2>2. i = n \/ i < n
      OBVIOUS
    <2>3. BarSlots * (n - 1) \in Int
      BY <1>1
    <2> QED
      BY <1>1, <1>4, <1>6, <1>7, <1>8, <2>1, <2>2, <2>3
  <1>10. \A i, j \in 1..n :
           i < j => first + BarSlots * (i - 1) < first + BarSlots * (j - 1)
    BY <1>1, <1>5, <1>8
  <1> QED
    BY <1>2, <1>9, <1>10


----------------------------------------------------------------------------
(* Reading the store.                                                       *)

\* What load_range finds in a store that has every bar asked for: all of them,
\* in order, from the first to the last.
LEMMA LoadComplete ==
    ASSUME NEW rows,
           \A ts \in DOMAIN rows : Aligned(ts) /\ rows[ts] \in Int,
           NEW first, Aligned(first), NEW last, Aligned(last), first <= last,
           \A ts : Aligned(ts) /\ first <= ts /\ ts <= last => ts \in DOMAIN rows
    PROVE  LET records == LoadRange(rows, first, last)
           IN  /\ records \in Seq(Rows)
               /\ Len(records) = (last - first) \div BarSlots + 1
               /\ Len(records) \in Nat \ {0}
               /\ Contiguous(records)
               /\ records[1].ts = first
               /\ records[Len(records)].ts = last
               /\ \A i \in 1..Len(records) :
                    /\ records[i].ts \in DOMAIN rows
                    /\ records[i].taken = rows[records[i].ts]
  <1> DEFINE n == (last - first) \div BarSlots + 1
             bars == {ts \in DOMAIN rows : first <= ts /\ ts <= last}
             Rising(seq) == \A i, j \in 1..Cardinality(bars) : i < j => seq[i] < seq[j]
             w == [i \in 1..n |-> first + BarSlots * (i - 1)]
             o == CHOOSE seq \in [1..Cardinality(bars) -> bars] : Rising(seq)
             records == [i \in 1..Cardinality(bars) |-> [ts |-> o[i], taken |-> rows[o[i]]]]
  <1>1. records = LoadRange(rows, first, last)
    BY DEF LoadRange
  <1>2. /\ n \in Nat \ {0}
        /\ last = first + BarSlots * (n - 1)
        /\ \A ts : Aligned(ts) /\ first <= ts /\ ts <= last =>
             \E i \in 1..n : ts = first + BarSlots * (i - 1)
    BY Grid
  <1>3. /\ \A i \in 1..n : Aligned(first + BarSlots * (i - 1))
        /\ \A i \in 1..n : first <= first + BarSlots * (i - 1)
        /\ \A i \in 1..n : first + BarSlots * (i - 1) <= last
        /\ \A i, j \in 1..n :
             i < j => first + BarSlots * (i - 1) < first + BarSlots * (j - 1)
    <2> HIDE DEF n
    <2> QED
      BY <1>2, GridPoints
  <1>4. first \in Int /\ last \in Int /\ BarSlots \in Int /\ BarSlots > 0
    BY BarFeedAssumption DEF Aligned
  <1> HIDE DEF n
  <1>5. \A ts \in bars : ts \in Int /\ Aligned(ts) /\ first <= ts /\ ts <= last
    BY DEF Aligned
  <1>6. \A ts : Aligned(ts) /\ first <= ts /\ ts <= last => ts \in bars
    OBVIOUS
  <1>7. \A i \in 1..n : w[i] = first + BarSlots * (i - 1)
    OBVIOUS
  <1>8. w \in [1..n -> bars]
    BY <1>3, <1>6
  <1> HIDE DEF w, bars
  <1>9. \A i, j \in 1..n : i < j => w[i] < w[j]
    BY <1>3, <1>7
  <1>10. \A i \in 1..n : w[i] \in Int
    BY <1>5, <1>8
  <1>11. Cardinality(bars) = n
    <2>1. \A i, j \in 1..n : w[i] = w[j] => i = j
      <3> SUFFICES ASSUME NEW i \in 1..n, NEW j \in 1..n, w[i] = w[j], i # j
                   PROVE  FALSE
        OBVIOUS
      <3>1. i < j \/ j < i
        BY <1>2
      <3> QED
        BY <1>9, <1>10, <3>1
    <2>2. \A ts \in bars : \E i \in 1..n : w[i] = ts
      BY <1>2, <1>5, <1>7
    <2>3. w \in Bijection(1..n, bars)
      BY <1>8, <2>1, <2>2 DEF Bijection, Injection, IsInjective, Surjection
    <2> QED
      BY <1>2, <2>3, FS_CountingElements DEF ExistsBijection
  <1>12. o \in [1..n -> bars] /\ (\A i, j \in 1..n : i < j => o[i] < o[j])
    BY <1>8, <1>9, <1>11
  <1>13. \A i \in 1..n : o[i] \in bars /\ o[i] \in Int
    <2> HIDE DEF o
    <2> QED
      BY <1>5, <1>12
  <1> HIDE DEF o
  <1>14. \A ts \in bars : \E i \in 1..n : o[i] = ts
    <2>1. \A i, j \in 1..n : o[i] = o[j] => i = j
      <3> SUFFICES ASSUME NEW i \in 1..n, NEW j \in 1..n, o[i] = o[j], i # j
                   PROVE  FALSE
        OBVIOUS
      <3>1. i < j \/ j < i
        BY <1>2
      <3> QED
        BY <1>12, <1>13, <3>1
    <2>2. o \in Injection(1..n, bars)
      BY <1>12, <2>1 DEF Injection, IsInjective
    <2>3. IsFiniteSet(1..n) /\ Cardinality(1..n) = n
      BY <1>2, FS_Interval
    <2>4. IsFiniteSet(bars)
      <3>1. bars \subseteq first..last
        BY <1>4, <1>5
      <3>2. IsFiniteSet(first..last)
        BY <1>4, FS_Interval
      <3> QED
        BY <3>1, <3>2, FS_Subset
    <2>5. o \in Surjection(1..n, bars)
      BY <1>11, <2>2, <2>3, <2>4, FS_Injection
    <2> QED
      BY <2>5 DEF Surjection
  <1>15. o[1] = first
    <2>1. Aligned(first) /\ first \in bars
      BY <1>4, <1>6
    <2>2. PICK k \in 1..n : o[k] = first
      BY <1>14, <2>1
    <2>3. 1 \in 1..n
      BY <1>2
    <2>4. k = 1 \/ 1 < k
      BY <1>2
    <2>5. first <= o[1]
      BY <1>5, <1>13, <2>3
    <2> QED
      BY <1>4, <1>12, <1>13, <2>2, <2>3, <2>4, <2>5
  <1>16. o[n] = last
    <2>1. last \in bars
      BY <1>4, <1>6
    <2>2. PICK k \in 1..n : o[k] = last
      BY <1>14, <2>1
    <2>3. n \in 1..n
      BY <1>2
    <2>4. k = n \/ k < n
      BY <1>2
    <2>5. o[n] <= last
      BY <1>5, <1>13, <2>3
    <2> QED
      BY <1>4, <1>12, <1>13, <2>2, <2>3, <2>4, <2>5
  <1>17. ASSUME NEW i \in 1..(n - 1) PROVE o[i + 1] = o[i] + BarSlots
    <2>1. /\ i \in Nat /\ i \in 1..n /\ i + 1 \in 1..n
          /\ o[i] \in Int /\ o[i + 1] \in Int
      <3>1. i \in Nat /\ i \in 1..n /\ i + 1 \in 1..n
        BY <1>2
      <3> QED
        BY <1>13, <3>1
    <2>2. /\ Aligned(o[i]) /\ first <= o[i]
          /\ Aligned(o[i + 1]) /\ o[i + 1] <= last
          /\ o[i] < o[i + 1]
      <3>1. o[i] < o[i + 1]
        BY <1>12, <2>1
      <3> QED
        BY <1>5, <1>13, <2>1, <3>1
    <2>3. o[i] + BarSlots <= o[i + 1]
      BY <2>2, AlignedApart
    <2>4. o[i] + BarSlots \in bars
      <3>1. Aligned(o[i] + BarSlots)
        BY <2>2, AlignedSteps
      <3>2. first <= o[i] + BarSlots /\ o[i] + BarSlots <= last
        BY <1>4, <2>1, <2>2, <2>3
      <3> QED
        BY <1>6, <3>1, <3>2
    <2>5. PICK k \in 1..n : o[k] = o[i] + BarSlots
      BY <1>14, <2>4
    <2>6. CASE k < i + 1
      <3>1. k = i \/ k < i
        BY <1>2, <2>1, <2>6
      <3>2. o[k] <= o[i]
        BY <1>12, <1>13, <2>1, <3>1
      <3> QED
        BY <1>4, <2>1, <2>5, <3>2
    <2>7. CASE i + 1 < k
      <3>1. o[i + 1] < o[k]
        BY <1>12, <2>1, <2>7
      <3> QED
        BY <1>4, <2>1, <2>3, <2>5, <3>1
    <2>8. CASE k = i + 1
      BY <2>5, <2>8
    <2> QED
      BY <1>2, <2>1, <2>6, <2>7, <2>8
  <1>18. /\ Len(records) = n
         /\ \A i \in 1..n : records[i] = [ts |-> o[i], taken |-> rows[o[i]]]
    BY <1>2, <1>11
  <1>19. \A i \in 1..n : o[i] \in DOMAIN rows /\ rows[o[i]] \in Int
    BY <1>13 DEF bars
  <1>20. records \in Seq(Rows)
    <2>1. records = [i \in 1..n |-> [ts |-> o[i], taken |-> rows[o[i]]]]
      BY <1>11
    <2>2. \A i \in 1..n : [ts |-> o[i], taken |-> rows[o[i]]] \in Rows
      BY <1>13, <1>19 DEF Rows
    <2>3. records \in [1..n -> Rows]
      BY <2>1, <2>2
    <2> HIDE DEF records
    <2> QED
      BY <1>2, <2>3, SeqDef
  <1> HIDE DEF records
  <1>21. \A i \in 1..n : records[i].ts = o[i] /\ records[i].taken = rows[o[i]]
    BY <1>18
  <1>22. Contiguous(records)
    <2> SUFFICES ASSUME NEW i \in 1..(n - 1)
                 PROVE  records[i + 1].ts = records[i].ts + BarSlots
      BY <1>18 DEF Contiguous
    <2>1. i \in 1..n /\ i + 1 \in 1..n
      BY <1>2
    <2> QED
      BY <1>17, <1>21, <2>1
  <1>23. records[1].ts = first /\ records[Len(records)].ts = last
    <2>1. 1 \in 1..n /\ n \in 1..n
      BY <1>2
    <2> QED
      BY <1>15, <1>16, <1>18, <1>21, <2>1
  <1>24. \A i \in 1..Len(records) :
           /\ records[i].ts \in DOMAIN rows
           /\ records[i].taken = rows[records[i].ts]
    BY <1>18, <1>19, <1>21
  <1> QED
    BY <1>1, <1>2, <1>18, <1>20, <1>22, <1>23, <1>24 DEF n


----------------------------------------------------------------------------
(* Feeding the pipeline.                                                    *)

\* The pipeline keeps the end of what it had and what is added.
LEMMA FedIsASuffix ==
    ASSUME NEW before \in Seq(Rows), NEW records \in Seq(Rows)
    PROVE  LET all == before \o records
               fed2 == Fed(before, records)
           IN  /\ fed2 \in Seq(Rows)
               /\ Len(fed2) \in Nat
               /\ Len(fed2) <= WarmupBars + 1
               /\ Len(fed2) <= Len(before) + Len(records)
               /\ \/ Len(fed2) = Len(before) + Len(records)
                  \/ Len(fed2) = WarmupBars + 1
               /\ \A i \in 1..Len(fed2) :
                    fed2[i] = all[i + (Len(before) + Len(records) - Len(fed2))]
  <1> DEFINE all == before \o records
             drop == Len(all) - (WarmupBars + 1)
             fed2 == Fed(before, records)
  <1> DEFINE Suffix ==
               /\ fed2 \in Seq(Rows)
               /\ Len(fed2) \in Nat
               /\ Len(fed2) <= WarmupBars + 1
               /\ Len(fed2) <= Len(before) + Len(records)
               /\ \/ Len(fed2) = Len(before) + Len(records)
                  \/ Len(fed2) = WarmupBars + 1
               /\ \A i \in 1..Len(fed2) :
                    fed2[i] = all[i + (Len(before) + Len(records) - Len(fed2))]
  <1> SUFFICES Suffix
    OBVIOUS
  <1>1. /\ all \in Seq(Rows)
        /\ Len(all) = Len(before) + Len(records)
        /\ Len(before) \in Nat /\ Len(records) \in Nat /\ Len(all) \in Nat
        /\ \A i \in 1..Len(all) : all[i] \in Rows
    BY ConcatProperties
  <1>2. WarmupBars \in Nat /\ WarmupBars > 0 /\ drop \in Int
    BY <1>1, BarFeedAssumption
  <1>3. fed2 = IF drop <= 0 THEN all ELSE SubSeq(all, drop + 1, Len(all))
    BY DEF Fed
  <1> HIDE DEF all, fed2, Suffix, drop
  <1>4. CASE drop <= 0
    <2>1. fed2 = all
      BY <1>3, <1>4
    <2>2. \A i \in 1..Len(fed2) : i + (Len(before) + Len(records) - Len(fed2)) = i
      BY <1>1, <2>1
    <2>3. \A i \in 1..Len(fed2) :
            fed2[i] = all[i + (Len(before) + Len(records) - Len(fed2))]
      BY <2>1, <2>2
    <2>4. Len(fed2) <= WarmupBars + 1
      BY <1>1, <1>2, <1>4, <2>1 DEF drop
    <2> QED
      BY <1>1, <2>1, <2>3, <2>4 DEF Suffix
  <1>5. CASE ~(drop <= 0)
    <2>1. fed2 = SubSeq(all, drop + 1, Len(all))
      BY <1>3, <1>5
    <2>2. /\ drop + 1 \in Int /\ Len(all) \in Int
          /\ \A i \in (drop + 1)..Len(all) : all[i] \in Rows
          /\ Len(all) - (drop + 1) + 1 = WarmupBars + 1
          /\ drop + 1 <= Len(all)
      BY <1>1, <1>2, <1>5 DEF drop
    <2>3. /\ fed2 \in Seq(Rows)
          /\ Len(fed2) = WarmupBars + 1
          /\ \A i \in 1..(WarmupBars + 1) : fed2[i] = all[(drop + 1) + i - 1]
      BY <2>1, <2>2, SubSeqProperties
    <2>4. \A i \in 1..(WarmupBars + 1) :
            (drop + 1) + i - 1 = i + (Len(before) + Len(records) - Len(fed2))
      BY <1>1, <1>2, <2>3 DEF drop
    <2>5. Len(fed2) <= Len(before) + Len(records)
      BY <1>1, <1>2, <1>5, <2>3 DEF drop
    <2>6. \A i \in 1..Len(fed2) :
            fed2[i] = all[i + (Len(before) + Len(records) - Len(fed2))]
      BY <2>3, <2>4
    <2>7. Len(fed2) \in Nat /\ Len(fed2) <= WarmupBars + 1
      BY <1>2, <2>3
    <2> QED
      BY <2>3, <2>5, <2>6, <2>7 DEF Suffix
  <1> QED
    BY <1>4, <1>5

LEMMA ConcatSplit ==
    ASSUME NEW before \in Seq(Rows), NEW records \in Seq(Rows),
           NEW j \in 1..(Len(before) + Len(records))
    PROVE  LET all == before \o records
           IN  /\ j <= Len(before) => j \in 1..Len(before) /\ all[j] = before[j]
               /\ j > Len(before) =>
                    /\ j - Len(before) \in 1..Len(records)
                    /\ all[j] = records[j - Len(before)]
  <1>1. /\ Len(before) \in Nat /\ Len(records) \in Nat
        /\ (before \o records)[j] = IF j <= Len(before) THEN before[j]
                                    ELSE records[j - Len(before)]
    BY ConcatProperties
  <1>2. j <= Len(before) => j \in 1..Len(before)
    BY <1>1
  <1>3. j > Len(before) => j - Len(before) \in 1..Len(records) /\ ~(j <= Len(before))
    BY <1>1
  <1> QED
    BY <1>1, <1>2, <1>3

\* Two neighbours of what is fed were neighbours before, are neighbours among
\* the new bars, or are the last bar before and the first new one; and the last
\* bar is the last of the new ones.
LEMMA FedNeighbours ==
    ASSUME NEW before \in Seq(Rows), NEW records \in Seq(Rows), records # <<>>
    PROVE  LET fed2 == Fed(before, records)
           IN  /\ Len(fed2) \in Nat \ {0}
               /\ fed2[Len(fed2)] = records[Len(records)]
               /\ \A i \in 1..Len(fed2) :
                    \/ \E j \in 1..Len(before) : fed2[i] = before[j]
                    \/ \E j \in 1..Len(records) : fed2[i] = records[j]
               /\ \A i \in 1..(Len(fed2) - 1) :
                    \/ \E j \in 1..(Len(before) - 1) :
                         fed2[i] = before[j] /\ fed2[i + 1] = before[j + 1]
                    \/ \E j \in 1..(Len(records) - 1) :
                         fed2[i] = records[j] /\ fed2[i + 1] = records[j + 1]
                    \/ /\ Len(before) > 0
                       /\ fed2[i] = before[Len(before)] /\ fed2[i + 1] = records[1]
  <1> DEFINE all == before \o records
             fed2 == Fed(before, records)
             gone == Len(before) + Len(records) - Len(fed2)
  <1>1. /\ Len(before) \in Nat /\ Len(records) \in Nat /\ Len(records) > 0
        /\ \A i \in 1..(Len(before) + Len(records)) :
             all[i] = IF i <= Len(before) THEN before[i] ELSE records[i - Len(before)]
    <2>1. Len(records) > 0
      BY EmptySeq
    <2> QED
      BY <2>1, ConcatProperties
  <1>2. /\ Len(fed2) \in Nat
        /\ Len(fed2) <= Len(before) + Len(records)
        /\ \/ Len(fed2) = Len(before) + Len(records)
           \/ Len(fed2) = WarmupBars + 1
        /\ \A i \in 1..Len(fed2) : fed2[i] = all[i + gone]
    BY FedIsASuffix
  <1>3. WarmupBars \in Nat
    BY BarFeedAssumption
  <1>4. /\ Len(fed2) \in Nat \ {0}
        /\ gone \in Nat /\ gone = Len(before) + Len(records) - Len(fed2)
    BY <1>1, <1>2, <1>3
  <1> HIDE DEF all, fed2, gone
  <1>5. \A i \in 1..Len(fed2) :
          /\ i + gone <= Len(before) =>
               i + gone \in 1..Len(before) /\ fed2[i] = before[i + gone]
          /\ i + gone > Len(before) =>
               /\ i + gone - Len(before) \in 1..Len(records)
               /\ fed2[i] = records[i + gone - Len(before)]
    <2> SUFFICES ASSUME NEW i \in 1..Len(fed2)
                 PROVE  /\ i + gone <= Len(before) =>
                             i + gone \in 1..Len(before) /\ fed2[i] = before[i + gone]
                        /\ i + gone > Len(before) =>
                             /\ i + gone - Len(before) \in 1..Len(records)
                             /\ fed2[i] = records[i + gone - Len(before)]
      OBVIOUS
    <2>1. i + gone \in 1..(Len(before) + Len(records))
      <3>1. Len(before) \in Nat /\ Len(records) \in Nat
        BY <1>1
      <3> QED
        BY <3>1, <1>4
    <2>2. fed2[i] = all[i + gone]
      BY <1>2
    <2>3. \A j \in 1..(Len(before) + Len(records)) :
            /\ j <= Len(before) => j \in 1..Len(before) /\ all[j] = before[j]
            /\ j > Len(before) =>
                 /\ j - Len(before) \in 1..Len(records)
                 /\ all[j] = records[j - Len(before)]
      BY ConcatSplit DEF all
    <2>4. PICK j \in 1..(Len(before) + Len(records)) : j = i + gone
      BY <2>1
    <2>5. fed2[i] = all[j]
      BY <2>2, <2>4
    <2>6. /\ j <= Len(before) => j \in 1..Len(before) /\ fed2[i] = before[j]
          /\ j > Len(before) =>
               /\ j - Len(before) \in 1..Len(records)
               /\ fed2[i] = records[j - Len(before)]
      BY <2>3, <2>5
    <2>7. i \in Int /\ gone \in Int /\ Len(before) \in Int
      BY <1>1, <1>4
    <2> QED
      BY <2>4, <2>6, <2>7
  <1>6. fed2[Len(fed2)] = records[Len(records)]
    <2>1. Len(fed2) + gone = Len(before) + Len(records)
      BY <1>1, <1>4
    <2>2. Len(fed2) + gone > Len(before) /\ Len(fed2) + gone - Len(before) = Len(records)
      BY <1>1, <1>4, <2>1
    <2>3. Len(fed2) \in 1..Len(fed2)
      BY <1>4
    <2>4. fed2[Len(fed2)] = records[Len(fed2) + gone - Len(before)]
      BY <1>5, <2>2, <2>3
    <2> QED
      BY <2>2, <2>4
  <1>7. ASSUME NEW i \in 1..Len(fed2)
        PROVE  \/ \E j \in 1..Len(before) : fed2[i] = before[j]
               \/ \E j \in 1..Len(records) : fed2[i] = records[j]
    <2>1. i + gone <= Len(before) \/ i + gone > Len(before)
      BY <1>1, <1>4
    <2> QED
      BY <1>5, <2>1
  <1>8. ASSUME NEW i \in 1..(Len(fed2) - 1)
        PROVE  \/ \E j \in 1..(Len(before) - 1) :
                    fed2[i] = before[j] /\ fed2[i + 1] = before[j + 1]
               \/ \E j \in 1..(Len(records) - 1) :
                    fed2[i] = records[j] /\ fed2[i + 1] = records[j + 1]
               \/ /\ Len(before) > 0
                  /\ fed2[i] = before[Len(before)] /\ fed2[i + 1] = records[1]
    <2>1. i \in 1..Len(fed2) /\ i + 1 \in 1..Len(fed2)
      BY <1>4
    <2> DEFINE j == i + gone
               k == i + gone - Len(before)
    <2>2. j \in Int /\ k = j - Len(before) /\ k \in Int /\ i + 1 + gone = j + 1 /\ i + 1 + gone - Len(before) = k + 1
      BY <1>1, <1>4, <2>1
    <2> HIDE DEF j, k
    <2>3. CASE j + 1 <= Len(before)
      <3>1. j <= Len(before)
        BY <1>1, <2>2, <2>3
      <3>2. fed2[i] = before[j] /\ j \in 1..Len(before)
        BY <1>5, <2>1, <3>1 DEF j, k
      <3>3. fed2[i + 1] = before[j + 1]
        BY <1>5, <2>1, <2>2, <2>3
      <3>4. j \in 1..(Len(before) - 1)
        BY <1>1, <2>2, <2>3, <3>2
      <3> QED
        BY <3>2, <3>3, <3>4
    <2>4. CASE j = Len(before)
      <3>1. j <= Len(before) /\ j + 1 > Len(before)
        BY <1>1, <2>2, <2>4
      <3>2. fed2[i] = before[j] /\ j \in 1..Len(before)
        BY <1>5, <2>1, <3>1 DEF j, k
      <3>3. fed2[i + 1] = records[k + 1]
        BY <1>5, <2>1, <2>2, <3>1
      <3>4. k + 1 = 1 /\ Len(before) > 0
        BY <1>1, <2>2, <2>4, <3>2
      <3> QED
        BY <2>4, <3>2, <3>3, <3>4
    <2>5. CASE j > Len(before)
      <3>1. j + 1 > Len(before)
        BY <1>1, <2>2, <2>5
      <3>2. fed2[i] = records[k] /\ k \in 1..Len(records)
        BY <1>5, <2>1, <2>5 DEF j, k
      <3>3. fed2[i + 1] = records[k + 1] /\ k + 1 \in 1..Len(records)
        BY <1>5, <2>1, <2>2, <3>1
      <3>4. k \in 1..(Len(records) - 1)
        BY <1>1, <2>2, <3>2, <3>3
      <3> QED
        BY <3>2, <3>3, <3>4
    <2>6. j + 1 <= Len(before) \/ j = Len(before) \/ j > Len(before)
      BY <1>1, <2>2
    <2> QED
      BY <2>3, <2>4, <2>5, <2>6
  <1> QED
    BY <1>4, <1>6, <1>7, <1>8 DEF fed2

\* Bars that go on where the fed ones end leave no gap.
LEMMA FedContiguous ==
    ASSUME NEW before \in Seq(Rows), NEW records \in Seq(Rows), records # <<>>,
           Contiguous(before), Contiguous(records),
           Len(before) > 0 => records[1].ts = before[Len(before)].ts + BarSlots
    PROVE  Contiguous(Fed(before, records))
  <1> DEFINE fed2 == Fed(before, records)
  <1>1. \A i \in 1..(Len(fed2) - 1) :
          \/ \E j \in 1..(Len(before) - 1) :
               fed2[i] = before[j] /\ fed2[i + 1] = before[j + 1]
          \/ \E j \in 1..(Len(records) - 1) :
               fed2[i] = records[j] /\ fed2[i + 1] = records[j + 1]
          \/ /\ Len(before) > 0
             /\ fed2[i] = before[Len(before)] /\ fed2[i + 1] = records[1]
    BY FedNeighbours
  <1> HIDE DEF fed2
  <1>2. \A i \in 1..(Len(fed2) - 1) : fed2[i + 1].ts = fed2[i].ts + BarSlots
    BY <1>1 DEF Contiguous
  <1> QED
    BY <1>2 DEF Contiguous, fed2


----------------------------------------------------------------------------
(* Filling the store.                                                       *)

LEMMA WarmupWindowBars ==
    ASSUME NEW now, Aligned(now)
    PROVE  LET first == WarmupStart(now)
               window == WarmupWindow(now)
           IN  /\ Aligned(first) /\ first = now - BarSlots * WarmupBars
               /\ LatestCompletedBar(now) = now - BarSlots
               /\ Aligned(now - BarSlots) /\ first <= now - BarSlots
               /\ (now - BarSlots - first) \div BarSlots + 1 = WarmupBars
               /\ DOMAIN window = 1..WarmupBars
               /\ \A i \in 1..WarmupBars : Aligned(window[i]) /\ window[i] < now
               /\ \A ts : Aligned(ts) /\ first <= ts /\ ts < now =>
                    \E i \in 1..WarmupBars : ts = window[i]
  <1> DEFINE first == WarmupStart(now)
             last == now - BarSlots
             window == WarmupWindow(now)
  <1>1. /\ BarSlots \in Int /\ BarSlots > 0 /\ now \in Int
        /\ WarmupBars \in Nat /\ WarmupBars > 0
    BY BarFeedAssumption DEF Aligned
  <1>2. AlignToBarClose(now) = now
    BY <1>1 DEF AlignToBarClose, Aligned
  <1>3. LatestCompletedBar(now) = last
    BY <1>2 DEF LatestCompletedBar
  <1>4. first = last - BarSlots * (WarmupBars - 1) /\ Aligned(last)
    BY <1>3, AlignedSteps DEF WarmupStart
  <1>5. Aligned(first)
    <2>1. -(WarmupBars - 1) \in Int
      BY <1>1
    <2>2. Aligned(last + BarSlots * (-(WarmupBars - 1)))
      BY <1>4, <2>1, AlignedSteps
    <2>3. last + BarSlots * (-(WarmupBars - 1)) = last - BarSlots * (WarmupBars - 1)
      BY <1>1
    <2> QED
      BY <1>4, <2>2, <2>3
  <1>6. first = now - BarSlots * WarmupBars
    <2>1. BarSlots * WarmupBars = BarSlots + BarSlots * (WarmupBars - 1)
      BY <1>1
    <2> QED
      BY <1>1, <1>4, <2>1
  <1>7. first <= last
    <2>1. BarSlots * (WarmupBars - 1) >= 0
      BY <1>1
    <2> QED
      BY <1>1, <1>4, <2>1
  <1> HIDE DEF first
  <1>8. first \in Int /\ last \in Int
    BY <1>4, <1>5 DEF Aligned
  <1>9. (last - first) \div BarSlots + 1 = WarmupBars
    <2>1. last - first = BarSlots * (WarmupBars - 1)
      BY <1>1, <1>4
    <2>2. WarmupBars - 1 \in Int
      BY <1>1
    <2>3. (BarSlots * (WarmupBars - 1)) \div BarSlots = WarmupBars - 1
      BY <2>2, Multiples
    <2> QED
      BY <1>1, <2>1, <2>3
  <1>10. window = [i \in 1..WarmupBars |-> first + (i - 1) * BarSlots]
    BY <1>3, <1>9 DEF first, WarmupWindow, BarsBetween
  <1>11. \A i \in 1..WarmupBars : window[i] = first + BarSlots * (i - 1)
    BY <1>1, <1>8, <1>10
  <1>12. /\ last = first + BarSlots * (WarmupBars - 1)
         /\ \A ts : Aligned(ts) /\ first <= ts /\ ts <= last =>
              \E i \in 1..WarmupBars : ts = first + BarSlots * (i - 1)
    BY <1>4, <1>5, <1>7, <1>9, Grid
  <1>13. ASSUME NEW i \in 1..WarmupBars PROVE Aligned(window[i]) /\ window[i] < now
    <2>1. Aligned(first + BarSlots * (i - 1)) /\ first + BarSlots * (i - 1) <= last
      BY <1>1, <1>5, <1>12, GridPoints
    <2>2. window[i] \in Int /\ window[i] <= last
      BY <1>11, <2>1 DEF Aligned
    <2> QED
      BY <1>1, <1>11, <2>1, <2>2
  <1>14. ASSUME NEW ts, Aligned(ts), first <= ts, ts < now
         PROVE  \E i \in 1..WarmupBars : ts = window[i]
    <2>1. ts + BarSlots <= now /\ ts \in Int
      BY <1>14, AlignedApart DEF Aligned
    <2>2. ts <= last
      BY <1>1, <2>1
    <2> QED
      BY <1>11, <1>12, <1>14, <2>2
  <1>15. DOMAIN window = 1..WarmupBars
    BY <1>10
  <1> QED
    BY <1>3, <1>4, <1>5, <1>6, <1>7, <1>9, <1>13, <1>14, <1>15 DEF first

\* A store that counts as complete has every bar of the window.
LEMMA CompleteIsComplete ==
    ASSUME NEW now, Aligned(now), HistoryComplete(WarmupWindow(now))
    PROVE  \A i \in 1..WarmupBars : WarmupWindow(now)[i] \in DOMAIN store
  <1> DEFINE window == WarmupWindow(now)
             bars == ToSet(window)
             known == DOMAIN store \cap bars
  <1>1. DOMAIN window = 1..WarmupBars /\ WarmupBars \in Nat
    BY WarmupWindowBars, BarFeedAssumption
  <1>2. bars = {window[i] : i \in 1..WarmupBars}
    BY <1>1 DEF ToSet
  <1>3. Cardinality(known) >= WarmupBars
    BY DEF HistoryComplete
  <1> HIDE DEF window, bars
  <1>4. IsFiniteSet(bars) /\ Cardinality(bars) <= WarmupBars
    <2> DEFINE w == [i \in 1..WarmupBars |-> window[i]]
    <2>1. w \in [1..WarmupBars -> bars]
      BY <1>2
    <2>2. \A ts \in bars : \E i \in 1..WarmupBars : w[i] = ts
      BY <1>2
    <2>3. w \in Surjection(1..WarmupBars, bars)
      BY <2>1, <2>2 DEF Surjection
    <2>4. IsFiniteSet(1..WarmupBars) /\ Cardinality(1..WarmupBars) = WarmupBars
      BY <1>1, FS_Interval
    <2> HIDE DEF w
    <2> QED
      BY <2>3, <2>4, FS_Surjection
  <1>5. known = bars
    <2>1. known \in SUBSET bars
      OBVIOUS
    <2> HIDE DEF known
    <2>2. /\ Cardinality(known) <= Cardinality(bars)
          /\ Cardinality(bars) = Cardinality(known) => bars = known
          /\ IsFiniteSet(known)
      BY <1>4, <2>1, FS_Subset
    <2>3. Cardinality(known) \in Nat /\ Cardinality(bars) \in Nat
      BY <1>4, <2>2, FS_CardinalityType
    <2> QED
      BY <1>1, <1>3, <1>4, <2>2, <2>3
  <1> QED
    BY <1>2, <1>5 DEF window

LEMMA ReplacedOK ==
    ASSUME StoreOK(store), clock \in Int, NEW bars,
           \A ts \in bars : Aligned(ts) /\ ts <= clock
    PROVE  StoreOK(Replaced(bars)) /\ DOMAIN Replaced(bars) = DOMAIN store \cup bars
  <1>1. DOMAIN Replaced(bars) = DOMAIN store \cup bars
    BY DEF Replaced
  <1>2. ASSUME NEW ts \in DOMAIN store \cup bars
        PROVE  /\ Aligned(ts) /\ Replaced(bars)[ts] \in Int
               /\ ts <= Replaced(bars)[ts] /\ Replaced(bars)[ts] <= ts + BarSlots
    <2>1. CASE ts \in bars
      <3>1. Replaced(bars)[ts] = Earlier(clock, ts + BarSlots)
        BY <2>1 DEF Replaced, TakenNow
      <3>2. ts \in Int /\ ts <= clock /\ BarSlots \in Nat /\ Aligned(ts)
        BY <2>1, BarFeedAssumption DEF Aligned
      <3> QED
        BY <3>1, <3>2 DEF Earlier
    <2>2. CASE ts \notin bars
      <3>1. Replaced(bars)[ts] = store[ts] /\ ts \in DOMAIN store
        BY <1>2, <2>2 DEF Replaced
      <3> QED
        BY <3>1 DEF StoreOK
    <2> QED
      BY <2>1, <2>2
  <1> QED
    BY <1>1, <1>2 DEF StoreOK

\* After ensure_price_history the store has every bar of the window.
LEMMA Ensured ==
    ASSUME StoreOK(store), clock \in Int, NEW now, Aligned(now), now <= clock,
           EnsurePriceHistory(now)
    PROVE  /\ StoreOK(store')
           /\ \A ts : Aligned(ts) /\ WarmupStart(now) <= ts /\ ts < now => ts \in DOMAIN store'
  <1> DEFINE window == WarmupWindow(now)
  <1>1. /\ \A i \in 1..WarmupBars : Aligned(window[i]) /\ window[i] < now
        /\ \A ts : Aligned(ts) /\ WarmupStart(now) <= ts /\ ts < now =>
             \E i \in 1..WarmupBars : ts = window[i]
    BY WarmupWindowBars
  <1>2. CASE HistoryComplete(window)
    <2>1. store' = store
      BY <1>2 DEF EnsurePriceHistory
    <2>2. \A i \in 1..WarmupBars : window[i] \in DOMAIN store
      BY <1>2, CompleteIsComplete
    <2> HIDE DEF window
    <2> QED
      BY <1>1, <2>1, <2>2
  <1>3. CASE ~HistoryComplete(window)
    <2> DEFINE bars == {window[i] : i \in 1..WarmupBars}
    <2>1. store' = Replaced(bars)
      BY <1>3 DEF EnsurePriceHistory, Saved
    <2>2. \A ts \in bars : Aligned(ts) /\ ts <= clock
      <3> HIDE DEF window
      <3> QED
        BY <1>1 DEF Aligned
    <2>3. \A ts : Aligned(ts) /\ WarmupStart(now) <= ts /\ ts < now => ts \in bars
      <3> HIDE DEF window
      <3> QED
        BY <1>1
    <2> HIDE DEF bars
    <2>4. StoreOK(Replaced(bars)) /\ DOMAIN Replaced(bars) = DOMAIN store \cup bars
      BY <2>2, ReplacedOK
    <2> QED
      BY <2>1, <2>3, <2>4
  <1> QED
    BY <1>2, <1>3

LEMMA EnsureFailed ==
    ASSUME StoreOK(store), clock \in Int, NEW now, Aligned(now), now <= clock,
           EnsureFails(now)
    PROVE  StoreOK(store')
  <1> DEFINE window == WarmupWindow(now)
  <1>1. \A i \in 1..WarmupBars : Aligned(window[i]) /\ window[i] < now
    BY WarmupWindowBars
  <1>2. PICK n \in 0..(WarmupBars - 1) : store' = Replaced({window[i] : i \in 1..n})
    BY DEF EnsureFails, Saved
  <1> HIDE DEF window
  <1>3. \A i \in 1..n : i \in 1..WarmupBars
    BY BarFeedAssumption
  <1>4. \A ts \in {window[i] : i \in 1..n} : Aligned(ts) /\ ts <= clock
    BY <1>1, <1>3 DEF Aligned
  <1> QED
    BY <1>2, <1>4, ReplacedOK


----------------------------------------------------------------------------
(* The inductive invariant.                                                 *)

\* A price is taken while its candle is open or when it closed.
PricesOK(records) ==
    \A i \in 1..Len(records) :
      records[i].ts <= records[i].taken /\ records[i].taken <= records[i].ts + BarSlots

Rising(records) ==
    \A i \in 1..(Len(records) - 1) :
      /\ records[i].ts <= records[i + 1].ts
      /\ records[i].taken <= records[i + 1].taken

\* The pipeline has seen a full window up to the bar before this one.
Warm(bar) ==
    /\ Contiguous(fed)
    /\ Len(fed) >= WarmupBars
    /\ fed[Len(fed)].ts = bar - BarSlots

TypeInv ==
    /\ once \in OnceModes
    /\ clock \in 0..MaxClock
    /\ StoreOK(store)
    /\ pc \in Points
    /\ Aligned(run_at) /\ run_at <= clock
    /\ Aligned(latest) /\ latest <= clock
    /\ tick \in Nat
    /\ downloads \in 0..MaxDownloads
    /\ fed \in Seq(Rows) /\ Len(fed) <= WarmupBars + 1
    /\ late \in BOOLEAN

\* What the start-up has done, and how far behind the clock it can be.
StartInv ==
    /\ pc \in {"down", "backfill", "catchup"} => tick = 0
    /\ pc \in {"down", "backfill"} => fed = <<>>
    /\ pc = "backfill" => clock - run_at <= StartupSlots \/ clock - run_at < BarSlots
    /\ pc = "catchup" =>
         /\ run_at < latest /\ latest - run_at <= BarSlots * WarmupBars
         /\ Warm(run_at)
    /\ pc = "run" /\ tick = 0 => Warm(run_at)
    /\ pc = "loop" => tick # 0

\* What was fed is in order and not from the future.
OrderInv ==
    /\ PricesOK(fed)
    /\ Rising(fed)
    /\ Len(fed) > 0 => fed[Len(fed)].ts <= run_at /\ fed[Len(fed)].taken <= clock

FeedInv == TypeInv /\ StartInv /\ OrderInv

\* A process that was never behind: the bar under way is the clock's until the
\* loop is entered; from then on the tick lies in the bar after the last run's.
OnTimeInv ==
    ~late =>
      /\ Contiguous(fed)
      /\ pc = "catchup" => latest = AlignToBarClose(clock)
      /\ pc \in {"run", "running"} /\ tick = 0 => run_at = AlignToBarClose(clock)
      /\ pc = "run" => Len(fed) > 0 /\ fed[Len(fed)].ts = run_at - BarSlots
      /\ pc \in {"running", "loop"} => Len(fed) > 0 /\ fed[Len(fed)].ts = run_at
      /\ tick # 0 =>
           /\ run_at + BarSlots <= tick /\ tick < run_at + BarSlots + BarSlots
           /\ clock < run_at + BarSlots + BarSlots


----------------------------------------------------------------------------
(* The bars that are loaded during a start-up.                              *)

\* Bars without a gap are in order, and so are their prices.
LEMMA ContiguousRises ==
    ASSUME NEW records \in Seq(Rows), Contiguous(records), PricesOK(records)
    PROVE  Rising(records)
  <1> SUFFICES ASSUME NEW i \in 1..(Len(records) - 1)
               PROVE  /\ records[i].ts <= records[i + 1].ts
                      /\ records[i].taken <= records[i + 1].taken
    BY DEF Rising
  <1>1. i \in 1..Len(records) /\ i + 1 \in 1..Len(records)
    OBVIOUS
  <1>2. records[i] \in Rows /\ records[i + 1] \in Rows
    BY <1>1
  <1>3. records[i + 1].ts = records[i].ts + BarSlots
    BY DEF Contiguous
  <1>4. records[i].taken <= records[i].ts + BarSlots /\ records[i + 1].ts <= records[i + 1].taken
    BY <1>1 DEF PricesOK
  <1>5. /\ records[i].ts \in Int /\ records[i].taken \in Int
        /\ records[i + 1].ts \in Int /\ records[i + 1].taken \in Int
        /\ BarSlots \in Nat
    BY <1>2, BarFeedAssumption DEF Rows
  <1> QED
    BY <1>3, <1>4, <1>5

\* What is loaded between two bars of a good store that has them all.
LEMMA Loads ==
    ASSUME NEW rows, StoreOK(rows),
           NEW first, Aligned(first), NEW last, Aligned(last), first <= last,
           \A ts : Aligned(ts) /\ first <= ts /\ ts <= last => ts \in DOMAIN rows
    PROVE  LET records == LoadRange(rows, first, last)
           IN  /\ records \in Seq(Rows) /\ records # <<>>
               /\ Len(records) = (last - first) \div BarSlots + 1
               /\ Len(records) \in Nat \ {0}
               /\ Contiguous(records) /\ PricesOK(records)
               /\ records[1].ts = first
               /\ records[Len(records)].ts = last
  <1> DEFINE records == LoadRange(rows, first, last)
  <1>1. \A ts \in DOMAIN rows : Aligned(ts) /\ rows[ts] \in Int
    BY DEF StoreOK
  <1>2. /\ records \in Seq(Rows)
        /\ Len(records) = (last - first) \div BarSlots + 1
        /\ Len(records) \in Nat \ {0}
        /\ Contiguous(records)
        /\ records[1].ts = first
        /\ records[Len(records)].ts = last
        /\ \A i \in 1..Len(records) :
             /\ records[i].ts \in DOMAIN rows
             /\ records[i].taken = rows[records[i].ts]
    BY <1>1, LoadComplete
  <1> HIDE DEF records
  <1>3. PricesOK(records)
    BY <1>2 DEF PricesOK, StoreOK
  <1>4. records # <<>>
    BY <1>2
  <1> QED
    BY <1>2, <1>3, <1>4 DEF records

Loaded(records, first, last) ==
    /\ records \in Seq(Rows) /\ records # <<>>
    /\ Len(records) = (last - first) \div BarSlots + 1
    /\ Len(records) \in Nat \ {0}
    /\ Contiguous(records) /\ PricesOK(records) /\ Rising(records)
    /\ records[1].ts = first
    /\ records[Len(records)].ts = last

\* The warm-up loads its whole window.
LEMMA WarmUpLoads ==
    ASSUME TypeInv, WarmUp
    PROVE  /\ StoreOK(store')
           /\ LET records == LoadRange(store', WarmupStart(run_at), LatestCompletedBar(run_at))
              IN  /\ Loaded(records, WarmupStart(run_at), run_at - BarSlots)
                  /\ Len(records) = WarmupBars
  <1>1. Aligned(run_at) /\ run_at <= clock /\ StoreOK(store) /\ clock \in Int
    BY DEF TypeInv
  <1>2. /\ Aligned(WarmupStart(run_at))
        /\ LatestCompletedBar(run_at) = run_at - BarSlots
        /\ Aligned(run_at - BarSlots) /\ WarmupStart(run_at) <= run_at - BarSlots
        /\ (run_at - BarSlots - WarmupStart(run_at)) \div BarSlots + 1 = WarmupBars
    BY <1>1, WarmupWindowBars
  <1>3. /\ StoreOK(store')
        /\ \A ts : Aligned(ts) /\ WarmupStart(run_at) <= ts /\ ts < run_at => ts \in DOMAIN store'
    BY <1>1, Ensured DEF WarmUp
  <1>4. \A ts : Aligned(ts) /\ WarmupStart(run_at) <= ts /\ ts <= run_at - BarSlots =>
          ts \in DOMAIN store'
    <2> SUFFICES ASSUME NEW ts, Aligned(ts), WarmupStart(run_at) <= ts, ts <= run_at - BarSlots
                 PROVE  ts < run_at
      BY <1>3
    <2> QED
      BY <1>1, BarFeedAssumption DEF Aligned
  <1> DEFINE first == WarmupStart(run_at)
             last == run_at - BarSlots
             records == LoadRange(store', first, last)
  <1>5. Aligned(first) /\ Aligned(last) /\ first <= last
    BY <1>2
  <1>6. \A ts : Aligned(ts) /\ first <= ts /\ ts <= last => ts \in DOMAIN store'
    BY <1>4
  <1>7. (last - first) \div BarSlots + 1 = WarmupBars
    BY <1>2
  <1>8. records = LoadRange(store', WarmupStart(run_at), LatestCompletedBar(run_at))
    BY <1>2
  <1> HIDE DEF first, last
  <1>9. /\ records \in Seq(Rows) /\ records # <<>>
        /\ Len(records) = (last - first) \div BarSlots + 1
        /\ Len(records) \in Nat \ {0}
        /\ Contiguous(records) /\ PricesOK(records)
        /\ records[1].ts = first
        /\ records[Len(records)].ts = last
    BY <1>3, <1>5, <1>6, Loads
  <1> HIDE DEF records
  <1>10. Loaded(records, first, last)
    BY <1>9, ContiguousRises DEF Loaded
  <1> QED
    BY <1>3, <1>7, <1>8, <1>9, <1>10 DEF first, last

\* The catch-up loads the bars from the one it warmed up to.
LEMMA CatchUpLoads ==
    ASSUME TypeInv, StartInv, CatchUp
    PROVE  /\ StoreOK(store')
           /\ Loaded(GapWindow(store', run_at, latest), run_at, latest - BarSlots)
  <1>1. /\ Aligned(run_at) /\ run_at <= clock /\ Aligned(latest) /\ latest <= clock
        /\ StoreOK(store) /\ clock \in Int
    BY DEF TypeInv
  <1>2. run_at < latest /\ latest - run_at <= BarSlots * WarmupBars
    BY DEF StartInv, CatchUp
  <1>3. WarmupStart(latest) = latest - BarSlots * WarmupBars /\ Aligned(latest - BarSlots)
    BY <1>1, WarmupWindowBars
  <1>4. /\ StoreOK(store')
        /\ \A ts : Aligned(ts) /\ WarmupStart(latest) <= ts /\ ts < latest => ts \in DOMAIN store'
    BY <1>1, Ensured DEF CatchUp
  <1> DEFINE last == latest - BarSlots
             width == BarSlots * WarmupBars
             records == LoadRange(store', run_at, last)
  <1>5. /\ run_at \in Int /\ latest \in Int /\ BarSlots \in Int /\ BarSlots > 0
        /\ width \in Int
    BY <1>1, BarFeedAssumption DEF Aligned
  <1>6. run_at <= last
    <2>1. run_at + BarSlots <= latest
      BY <1>1, <1>2, AlignedApart
    <2> QED
      BY <1>5, <2>1
  <1>7. \A ts : Aligned(ts) /\ run_at <= ts /\ ts <= last => ts \in DOMAIN store'
    <2> SUFFICES ASSUME NEW ts, Aligned(ts), run_at <= ts, ts <= last
                 PROVE  WarmupStart(latest) <= ts /\ ts < latest
      BY <1>4
    <2>1. ts \in Int
      BY DEF Aligned
    <2>2. latest - run_at <= width /\ WarmupStart(latest) = latest - width
      BY <1>2, <1>3
    <2> HIDE DEF width
    <2> QED
      BY <1>5, <2>1, <2>2
  <1>8. records = GapWindow(store', run_at, latest)
    BY DEF GapWindow
  <1>9. Aligned(last)
    BY <1>3
  <1> HIDE DEF last
  <1>10. /\ records \in Seq(Rows) /\ records # <<>>
         /\ Len(records) = (last - run_at) \div BarSlots + 1
         /\ Len(records) \in Nat \ {0}
         /\ Contiguous(records) /\ PricesOK(records)
         /\ records[1].ts = run_at
         /\ records[Len(records)].ts = last
    BY <1>1, <1>4, <1>6, <1>7, <1>9, Loads
  <1> HIDE DEF records
  <1>11. Loaded(records, run_at, last)
    BY <1>10, ContiguousRises DEF Loaded
  <1> QED
    BY <1>4, <1>8, <1>11 DEF last

\* Feeding bars in order to a pipeline fed in order.
LEMMA FedInOrder ==
    ASSUME NEW before \in Seq(Rows), NEW records \in Seq(Rows), records # <<>>,
           PricesOK(before), Rising(before), PricesOK(records), Rising(records),
           Len(before) > 0 =>
             /\ before[Len(before)].ts <= records[1].ts
             /\ before[Len(before)].taken <= records[1].taken
    PROVE  PricesOK(Fed(before, records)) /\ Rising(Fed(before, records))
  <1> DEFINE fed2 == Fed(before, records)
  <1>1. /\ \A i \in 1..Len(fed2) :
             \/ \E j \in 1..Len(before) : fed2[i] = before[j]
             \/ \E j \in 1..Len(records) : fed2[i] = records[j]
        /\ \A i \in 1..(Len(fed2) - 1) :
             \/ \E j \in 1..(Len(before) - 1) :
                  fed2[i] = before[j] /\ fed2[i + 1] = before[j + 1]
             \/ \E j \in 1..(Len(records) - 1) :
                  fed2[i] = records[j] /\ fed2[i + 1] = records[j + 1]
             \/ /\ Len(before) > 0
                /\ fed2[i] = before[Len(before)] /\ fed2[i + 1] = records[1]
    BY FedNeighbours
  <1> HIDE DEF fed2
  <1>2. PricesOK(fed2)
    BY <1>1 DEF PricesOK
  <1>3. Rising(fed2)
    BY <1>1 DEF Rising
  <1> QED
    BY <1>2, <1>3 DEF fed2


\* The bar of a run, fetched now.
LEMMA OneBar ==
    ASSUME Aligned(run_at), run_at <= clock, clock \in Int
    PROVE  LET records == <<PairBar(run_at)>>
           IN  /\ records \in Seq(Rows) /\ records # <<>> /\ Len(records) = 1
               /\ records[1].ts = run_at
               /\ records[1].taken \in Int /\ records[1].taken <= clock
               /\ \A t \in Int : t <= clock /\ t <= run_at + BarSlots => t <= records[1].taken
               /\ Contiguous(records) /\ PricesOK(records) /\ Rising(records)
  <1> DEFINE taken == TakenNow(run_at)
             records == <<[ts |-> run_at, taken |-> taken]>>
  <1>1. records = <<PairBar(run_at)>>
    BY DEF PairBar
  <1>2. run_at \in Int /\ BarSlots \in Nat
    BY BarFeedAssumption DEF Aligned
  <1>3. /\ taken \in Int /\ taken <= clock
        /\ run_at <= taken /\ taken <= run_at + BarSlots
        /\ \A t \in Int : t <= clock /\ t <= run_at + BarSlots => t <= taken
    BY <1>2 DEF TakenNow, Earlier
  <1> HIDE DEF taken
  <1>4. [ts |-> run_at, taken |-> taken] \in Rows
    BY <1>2, <1>3 DEF Rows
  <1>5. /\ records \in Seq(Rows) /\ records # <<>> /\ Len(records) = 1
        /\ records[1] = [ts |-> run_at, taken |-> taken]
    BY <1>4
  <1>6. records[1].ts = run_at /\ records[1].taken = taken
    BY <1>5
  <1> HIDE DEF records
  <1>7. \A i \in 1..Len(records) : i = 1
    BY <1>5
  <1>8. PricesOK(records)
    BY <1>3, <1>6, <1>7 DEF PricesOK
  <1>9. Contiguous(records) /\ Rising(records)
    <2>1. 1..(Len(records) - 1) = {}
      BY <1>5
    <2> QED
      BY <2>1 DEF Contiguous, Rising
  <1> QED
    BY <1>1, <1>3, <1>5, <1>6, <1>8, <1>9

----------------------------------------------------------------------------
(* The steps keep the invariant.                                            *)

LEMMA EmptyFed ==
    /\ <<>> \in Seq(Rows) /\ Len(<<>>) = 0
    /\ PricesOK(<<>>) /\ Rising(<<>>) /\ Contiguous(<<>>)
  <1>1. 1..0 = {} /\ 1..(0 - 1) = {}
    OBVIOUS
  <1> QED
    BY <1>1 DEF PricesOK, Rising, Contiguous

\* The first bars fed to a pipeline that has none.
LEMMA FirstFed ==
    ASSUME NEW records \in Seq(Rows), records # <<>>,
           Contiguous(records), PricesOK(records), Rising(records)
    PROVE  /\ Contiguous(Fed(<<>>, records))
           /\ PricesOK(Fed(<<>>, records)) /\ Rising(Fed(<<>>, records))
  <1> DEFINE before == <<>>
  <1>1. /\ before \in Seq(Rows) /\ ~(Len(before) > 0)
        /\ PricesOK(before) /\ Rising(before) /\ Contiguous(before)
    BY EmptyFed
  <1> HIDE DEF before
  <1>2. Contiguous(Fed(before, records))
    BY <1>1, FedContiguous
  <1>3. PricesOK(Fed(before, records)) /\ Rising(Fed(before, records))
    BY <1>1, FedInOrder
  <1> QED
    BY <1>2, <1>3 DEF before

LEMMA ZeroAligned == Aligned(0) /\ 0 <= WarmupBars + 1 /\ 0 \in 0..MaxClock
                      /\ 0 \in 0..MaxDownloads
  BY BarFeedAssumption DEF Aligned

LEMMA FeedInit == Init => FeedInv /\ OnTimeInv
  <1> SUFFICES ASSUME Init PROVE FeedInv /\ OnTimeInv
    OBVIOUS
  <1>1. StoreOK(store)
    BY DEF Init, StoreOK
  <1>2. fed = <<>> /\ Len(fed) = 0
    BY EmptyFed DEF Init
  <1>3. TypeInv
    <2>1. fed \in Seq(Rows) /\ Len(fed) <= WarmupBars + 1
      BY <1>2, EmptyFed, ZeroAligned
    <2>2. /\ clock \in 0..MaxClock /\ tick \in Nat /\ downloads \in 0..MaxDownloads
          /\ Aligned(run_at) /\ run_at <= clock /\ Aligned(latest) /\ latest <= clock
      BY ZeroAligned DEF Init
    <2>3. once \in OnceModes /\ pc \in Points /\ late \in BOOLEAN
      BY DEF Init, Points
    <2> QED
      BY <1>1, <2>1, <2>2, <2>3 DEF TypeInv
  <1>4. StartInv
    BY DEF Init, StartInv
  <1>5. OrderInv
    BY <1>2, EmptyFed DEF OrderInv, Init
  <1>6. OnTimeInv
    BY <1>2, EmptyFed DEF OnTimeInv, Init
  <1> QED
    BY <1>3, <1>4, <1>5, <1>6 DEF FeedInv

\* Whatever ends the process leaves nothing but the store.
LEMMA DownInv ==
    ASSUME FeedInv, Down, StoreOK(store'), UNCHANGED <<once, clock>>,
           downloads' \in 0..MaxDownloads
    PROVE  FeedInv' /\ OnTimeInv'
  <1>1. fed' = <<>> /\ Len(fed') = 0
    BY EmptyFed DEF Down
  <1>2. /\ once' \in OnceModes /\ clock' \in 0..MaxClock /\ clock' = clock
        /\ run_at' = 0 /\ latest' = 0 /\ tick' = 0 /\ pc' = "down" /\ late' = FALSE
    BY DEF FeedInv, TypeInv, Down
  <1>3. TypeInv'
    <2>1. fed' \in Seq(Rows) /\ Len(fed') <= WarmupBars + 1
      BY <1>1, EmptyFed, ZeroAligned
    <2>2. 0 <= clock'
      BY <1>2, BarFeedAssumption
    <2> QED
      BY <1>2, <2>1, <2>2, ZeroAligned DEF TypeInv, Points
  <1>4. StartInv'
    BY <1>1, <1>2 DEF StartInv
  <1>5. OrderInv'
    BY <1>1, EmptyFed DEF OrderInv
  <1>6. OnTimeInv'
    BY <1>1, <1>2, EmptyFed DEF OnTimeInv
  <1> QED
    BY <1>3, <1>4, <1>5, <1>6 DEF FeedInv

LEMMA WarmUpKeeps ==
    ASSUME FeedInv, WarmUp
    PROVE  FeedInv' /\ OnTimeInv'
  <1> DEFINE first == WarmupStart(run_at)
             records == LoadRange(store', WarmupStart(run_at), LatestCompletedBar(run_at))
             bars == BarSlots * WarmupBars
  <1>1. /\ StoreOK(store')
        /\ Loaded(records, first, run_at - BarSlots)
        /\ Len(records) = WarmupBars
    BY WarmUpLoads DEF FeedInv
  <1>2. fed' = Fed(<<>>, records)
    BY DEF WarmUp
  <1> HIDE DEF first, records
  <1>3. /\ records \in Seq(Rows) /\ records # <<>>
        /\ Contiguous(records) /\ PricesOK(records) /\ Rising(records)
        /\ records[Len(records)].ts = run_at - BarSlots
    BY <1>1 DEF Loaded
  <1>4. /\ clock \in Int /\ clock \in 0..MaxClock /\ WarmupBars \in Nat \ {0}
        /\ BarSlots \in Nat \ {0} /\ StartupSlots \in Nat /\ bars \in Nat
        /\ StartupSlots <= bars /\ BarSlots <= bars
        /\ Aligned(run_at) /\ run_at \in Int /\ run_at <= clock
    <2>1. clock \in 0..MaxClock /\ Aligned(run_at) /\ run_at \in Int /\ run_at <= clock
      BY DEF FeedInv, TypeInv, Aligned
    <2>2. StartupSlots <= bars
      BY StartupAssumption, BarFeedAssumption
    <2>3. BarSlots <= bars
      BY BarFeedAssumption
    <2> QED
      BY <2>1, <2>2, <2>3, BarFeedAssumption
  <1>5. /\ fed' \in Seq(Rows) /\ Len(fed') = WarmupBars
        /\ fed'[Len(fed')] = records[Len(records)]
    <2>1. /\ fed' \in Seq(Rows)
          /\ Len(fed') <= 0 + Len(records)
          /\ Len(fed') = 0 + Len(records) \/ Len(fed') = WarmupBars + 1
      <3>1. LET empty == <<>>
            IN  /\ Fed(empty, records) \in Seq(Rows)
                /\ Len(Fed(empty, records)) <= Len(empty) + Len(records)
                /\ \/ Len(Fed(empty, records)) = Len(empty) + Len(records)
                   \/ Len(Fed(empty, records)) = WarmupBars + 1
        BY <1>3, EmptyFed, FedIsASuffix
      <3>2. Len(<<>>) = 0
        BY EmptyFed
      <3> QED
        BY <1>2, <3>1, <3>2
    <2>2. fed'[Len(fed')] = records[Len(records)]
      <3>1. Fed(<<>>, records)[Len(Fed(<<>>, records))] = records[Len(records)]
        <4>1. <<>> \in Seq(Rows) /\ records \in Seq(Rows) /\ records # <<>>
          BY <1>3, EmptyFed
        <4> QED
          BY <4>1, FedNeighbours, Zenon
      <3> QED
        BY <1>2, <3>1
    <2>3. Len(fed') = WarmupBars
      <3>1. Len(records) = WarmupBars /\ WarmupBars \in Nat \ {0}
        BY <1>1, <1>4
      <3>2. Len(fed') \in Nat
        BY <2>1
      <3>3. /\ Len(fed') <= 0 + WarmupBars
            /\ Len(fed') = 0 + WarmupBars \/ Len(fed') = WarmupBars + 1
        BY <2>1, <3>1
      <3> QED
        BY <3>1, <3>2, <3>3
    <2> QED
      BY <2>1, <2>2, <2>3
  <1>6. Contiguous(fed')
    BY <1>2, <1>3, FirstFed
  <1>7. PricesOK(fed') /\ Rising(fed')
    BY <1>2, <1>3, FirstFed
  <1>8. /\ Aligned(AlignToBarClose(clock))
        /\ AlignToBarClose(clock) <= clock /\ clock < AlignToBarClose(clock) + BarSlots
        /\ run_at <= AlignToBarClose(clock)
        /\ clock < run_at + BarSlots => run_at = AlignToBarClose(clock)
    BY <1>4, Alignment
  <1>9. /\ latest' = AlignToBarClose(clock) /\ latest' \in Int
        /\ pc' = IF latest' > run_at THEN "catchup" ELSE "run"
        /\ UNCHANGED <<once, clock, run_at, tick, downloads, late>>
        /\ tick = 0
        /\ clock - run_at <= StartupSlots \/ clock - run_at < BarSlots
    BY <1>8 DEF WarmUp, FeedInv, StartInv, Aligned
  <1>10. pc' \in Points /\ pc' \in {"catchup", "run"}
    BY <1>9 DEF Points
  <1>11. TypeInv'
    BY <1>1, <1>4, <1>5, <1>8, <1>9, <1>10 DEF TypeInv, FeedInv
  <1>12. Warm(run_at)'
    BY <1>3, <1>4, <1>5, <1>6, <1>9 DEF Warm
  <1>13. latest' - run_at <= bars
    <2> HIDE DEF bars
    <2> QED
      BY <1>4, <1>8, <1>9
  <1>14. StartInv'
    <2>1. pc' = "catchup" => run_at' < latest' /\ latest' - run_at' <= BarSlots * WarmupBars
      BY <1>4, <1>9, <1>13
    <2> QED
      BY <1>9, <1>10, <1>12, <2>1 DEF StartInv
  <1>15. OrderInv'
    <2>1. fed'[Len(fed')].ts = run_at - BarSlots
      BY <1>3, <1>5
    <2>2. /\ Len(fed') \in 1..Len(fed') /\ fed'[Len(fed')] \in Rows
      BY <1>4, <1>5
    <2>3. fed'[Len(fed')].taken <= run_at - BarSlots + BarSlots
      BY <1>7, <2>1, <2>2 DEF PricesOK
    <2>4. fed'[Len(fed')].taken \in Int
      BY <2>2 DEF Rows
    <2>5. fed'[Len(fed')].ts <= run_at' /\ fed'[Len(fed')].taken <= clock'
      BY <1>4, <1>9, <2>1, <2>3, <2>4
    <2> QED
      BY <1>7, <2>5 DEF OrderInv
  <1>16. OnTimeInv'
    <2>1. ~(latest' > run_at) => run_at = AlignToBarClose(clock)
      BY <1>4, <1>8, <1>9
    <2>2. Len(fed') > 0
      BY <1>4, <1>5
    <2> QED
      BY <1>3, <1>5, <1>6, <1>9, <1>10, <2>1, <2>2 DEF OnTimeInv
  <1> QED
    BY <1>11, <1>14, <1>15, <1>16 DEF FeedInv


LEMMA CatchUpKeeps ==
    ASSUME FeedInv, CatchUp
    PROVE  FeedInv' /\ (OnTimeInv => OnTimeInv')
  <1> DEFINE records == GapWindow(store', run_at, latest)
             had == Len(fed)
  <1>1. StoreOK(store') /\ Loaded(records, run_at, latest - BarSlots)
    BY CatchUpLoads DEF FeedInv
  <1>2. /\ fed' = Fed(fed, records)
        /\ pc = "catchup" /\ pc' = "run" /\ run_at' = latest
        /\ UNCHANGED <<once, clock, latest, tick, downloads, late>>
    BY DEF CatchUp
  <1> HIDE DEF records
  <1>3. /\ records \in Seq(Rows) /\ records # <<>> /\ Len(records) \in Nat \ {0}
        /\ Contiguous(records) /\ PricesOK(records) /\ Rising(records)
        /\ records[1].ts = run_at /\ records[Len(records)].ts = latest - BarSlots
    BY <1>1 DEF Loaded
  <1>4. /\ run_at < latest /\ Warm(run_at) /\ tick = 0
        /\ fed \in Seq(Rows) /\ had \in Nat /\ PricesOK(fed) /\ Rising(fed)
        /\ Aligned(latest) /\ latest \in Int /\ latest <= clock /\ run_at \in Int
        /\ clock \in Int
        /\ WarmupBars \in Nat \ {0} /\ BarSlots \in Nat \ {0}
    BY <1>2, BarFeedAssumption DEF FeedInv, TypeInv, StartInv, OrderInv, Aligned
  <1>5. /\ Contiguous(fed) /\ had >= WarmupBars /\ had > 0
        /\ fed[had].ts = run_at - BarSlots
    BY <1>4 DEF Warm
  <1>6. records[1].ts = fed[had].ts + BarSlots
    BY <1>3, <1>4, <1>5
  <1>7. Contiguous(fed')
    BY <1>2, <1>3, <1>4, <1>5, <1>6, FedContiguous
  <1>8. fed[had].ts <= records[1].ts /\ fed[had].taken <= records[1].taken
    <2>1. had \in 1..Len(fed) /\ 1 \in 1..Len(records)
      BY <1>3, <1>4, <1>5
    <2>2. fed[had] \in Rows /\ records[1] \in Rows
      BY <1>3, <1>4, <2>1
    <2>3. fed[had].taken <= fed[had].ts + BarSlots /\ records[1].ts <= records[1].taken
      BY <1>3, <1>4, <2>1 DEF PricesOK
    <2>4. /\ fed[had].ts \in Int /\ fed[had].taken \in Int
          /\ records[1].ts \in Int /\ records[1].taken \in Int
      BY <2>2 DEF Rows
    <2> QED
      BY <1>4, <1>6, <2>3, <2>4
  <1>9. PricesOK(fed') /\ Rising(fed')
    <2>1. fed' = Fed(fed, records)
      BY <1>2
    <2>2. /\ records \in Seq(Rows) /\ records # <<>>
          /\ PricesOK(records) /\ Rising(records)
      BY <1>3
    <2>3. fed \in Seq(Rows) /\ PricesOK(fed) /\ Rising(fed)
      BY <1>4
    <2> QED
      BY <1>4, <1>8, <2>1, <2>2, <2>3, FedInOrder
  <1>10. /\ fed' \in Seq(Rows) /\ Len(fed') \in Nat /\ Len(fed') <= WarmupBars + 1
         /\ Len(fed') = had + Len(records) \/ Len(fed') = WarmupBars + 1
         /\ fed'[Len(fed')] = records[Len(records)]
    BY <1>2, <1>3, <1>4, FedIsASuffix, FedNeighbours
  <1>11. Len(fed') >= WarmupBars /\ Len(fed') > 0
    BY <1>3, <1>4, <1>5, <1>10
  <1>12. fed'[Len(fed')].ts = latest - BarSlots
    BY <1>3, <1>10
  <1>13. TypeInv'
    BY <1>1, <1>2, <1>4, <1>10 DEF FeedInv, TypeInv, Points
  <1>14. StartInv'
    <2>1. Warm(run_at)'
      BY <1>2, <1>7, <1>11, <1>12 DEF Warm
    <2> QED
      BY <1>2, <1>4, <2>1 DEF StartInv
  <1>15. OrderInv'
    <2>1. Len(fed') \in 1..Len(fed') /\ fed'[Len(fed')] \in Rows
      BY <1>10, <1>11
    <2>2. fed'[Len(fed')].taken <= latest - BarSlots + BarSlots
      BY <1>9, <1>12, <2>1 DEF PricesOK
    <2>3. fed'[Len(fed')].taken \in Int
      BY <2>1 DEF Rows
    <2>4. fed'[Len(fed')].ts <= run_at' /\ fed'[Len(fed')].taken <= clock'
      BY <1>2, <1>4, <1>12, <2>2, <2>3
    <2> QED
      BY <1>9, <2>4 DEF OrderInv
  <1>16. ASSUME OnTimeInv PROVE OnTimeInv'
    <2>1. ~late => latest = AlignToBarClose(clock)
      BY <1>2, <1>16 DEF OnTimeInv
    <2> QED
      BY <1>2, <1>4, <1>7, <1>11, <1>12, <2>1 DEF OnTimeInv
  <1> QED
    BY <1>13, <1>14, <1>15, <1>16 DEF FeedInv

LEMMA FeedBarKeeps ==
    ASSUME FeedInv, FeedBar
    PROVE  FeedInv' /\ (OnTimeInv => OnTimeInv')
  <1> DEFINE records == <<PairBar(run_at)>>
             had == Len(fed)
  <1>1. /\ fed' = Fed(fed, records)
        /\ store' = Replaced({run_at}) \/ store' = store
        /\ pc = "run" /\ pc' = "running"
        /\ UNCHANGED <<once, clock, run_at, latest, tick, downloads, late>>
    BY DEF FeedBar
  <1>2. /\ Aligned(run_at) /\ run_at \in Int /\ run_at <= clock /\ clock \in Int
        /\ fed \in Seq(Rows) /\ had \in Nat /\ PricesOK(fed) /\ Rising(fed)
        /\ WarmupBars \in Nat \ {0} /\ BarSlots \in Nat \ {0}
        /\ StoreOK(store)
        /\ had > 0 => fed[had].ts <= run_at /\ fed[had].taken <= clock
    BY BarFeedAssumption DEF FeedInv, TypeInv, OrderInv, Aligned
  <1>3. /\ records \in Seq(Rows) /\ records # <<>> /\ Len(records) = 1
        /\ records[1].ts = run_at
        /\ records[1].taken \in Int /\ records[1].taken <= clock
        /\ \A t \in Int : t <= clock /\ t <= run_at + BarSlots => t <= records[1].taken
        /\ Contiguous(records) /\ PricesOK(records) /\ Rising(records)
    BY <1>2, OneBar
  <1> HIDE DEF records
  <1>4. had > 0 => fed[had].ts <= records[1].ts /\ fed[had].taken <= records[1].taken
    <2> SUFFICES ASSUME had > 0
                 PROVE  fed[had].ts <= records[1].ts /\ fed[had].taken <= records[1].taken
      OBVIOUS
    <2>1. had \in 1..Len(fed)
      BY <1>2
    <2>2. fed[had].ts \in Int /\ fed[had].taken \in Int
      <3>1. fed[had] \in Rows
        BY <1>2, <2>1
      <3> QED
        BY <3>1 DEF Rows
    <2>3. fed[had].taken <= fed[had].ts + BarSlots
      BY <1>2, <2>1 DEF PricesOK
    <2>4. fed[had].taken <= run_at + BarSlots
      BY <1>2, <2>2, <2>3
    <2> QED
      BY <1>2, <1>3, <2>2, <2>4
  <1>5. PricesOK(fed') /\ Rising(fed')
    BY <1>1, <1>2, <1>3, <1>4, FedInOrder
  <1>6. /\ fed' \in Seq(Rows) /\ Len(fed') \in Nat \ {0} /\ Len(fed') <= WarmupBars + 1
        /\ fed'[Len(fed')] = records[Len(records)]
    BY <1>1, <1>2, <1>3, FedIsASuffix, FedNeighbours
  <1>7. fed'[Len(fed')].ts = run_at /\ fed'[Len(fed')].taken <= clock
    BY <1>3, <1>6
  <1>8. StoreOK(store')
    <2>1. \A ts \in {run_at} : Aligned(ts) /\ ts <= clock
      BY <1>2
    <2>2. StoreOK(Replaced({run_at}))
      BY <1>2, <2>1, ReplacedOK
    <2> QED
      BY <1>1, <1>2, <2>2
  <1>9. TypeInv'
    BY <1>1, <1>6, <1>8 DEF FeedInv, TypeInv, Points
  <1>10. StartInv'
    BY <1>1 DEF StartInv
  <1>11. OrderInv'
    BY <1>1, <1>2, <1>5, <1>7 DEF OrderInv
  <1>12. ASSUME OnTimeInv, ~late PROVE Contiguous(fed')
    <2>1. Contiguous(fed) /\ fed[had].ts = run_at - BarSlots
      BY <1>1, <1>12 DEF OnTimeInv
    <2>2. records[1].ts = fed[had].ts + BarSlots
      BY <1>2, <1>3, <2>1
    <2> QED
      BY <1>1, <1>2, <1>3, <2>1, <2>2, FedContiguous
  <1>13. ASSUME OnTimeInv PROVE OnTimeInv'
    <2>1. Len(fed') > 0
      BY <1>6
    <2>2. late' = late
      BY <1>1
    <2> SUFFICES ASSUME ~late PROVE OnTimeInv'
      BY <2>2 DEF OnTimeInv
    <2> QED
      BY <1>1, <1>7, <1>12, <1>13, <2>1 DEF OnTimeInv
  <1> QED
    BY <1>9, <1>10, <1>11, <1>13 DEF FeedInv


\* Time passes.
LEMMA TimeKeeps ==
    ASSUME FeedInv, TimePasses
    PROVE  FeedInv'
  <1>1. /\ clock' = clock + 1 /\ clock < MaxClock
        /\ pc = "backfill" => clock - run_at < StartupSlots
        /\ UNCHANGED <<once, store, pc, run_at, latest, tick, downloads, fed>>
        /\ late' = (late \/ (Behind /\ clock' % BarSlots = 0))
    BY DEF TimePasses
  <1>2. clock \in 0..MaxClock /\ MaxClock \in Nat /\ clock' \in 0..MaxClock /\ clock <= clock'
    BY <1>1, BarFeedAssumption DEF FeedInv, TypeInv
  <1>3. /\ run_at \in Int /\ latest \in Int /\ run_at <= clock' /\ latest <= clock'
        /\ StartupSlots \in Nat
    BY <1>2, BarFeedAssumption DEF FeedInv, TypeInv, Aligned
  <1>4. late' \in BOOLEAN
    BY <1>1
  <1>5. TypeInv'
    BY <1>1, <1>2, <1>3, <1>4 DEF FeedInv, TypeInv
  <1>6. StartInv'
    <2>1. pc = "backfill" => clock' - run_at <= StartupSlots
      BY <1>1, <1>2, <1>3
    <2> QED
      BY <1>1, <2>1 DEF FeedInv, StartInv, Warm
  <1>7. OrderInv'
    <2>1. ASSUME Len(fed) > 0 PROVE fed[Len(fed)].taken <= clock'
      <3>1. fed \in Seq(Rows) /\ Len(fed) \in 1..Len(fed) /\ fed[Len(fed)].taken <= clock
        BY <2>1 DEF FeedInv, TypeInv, OrderInv
      <3>2. fed[Len(fed)] \in Rows
        BY <3>1
      <3> QED
        BY <1>2, <3>1, <3>2 DEF Rows
    <2> QED
      BY <1>1, <2>1 DEF FeedInv, OrderInv
  <1> QED
    BY <1>5, <1>6, <1>7 DEF FeedInv

\* A moment inside a bar has the bar of the moment before.
LEMMA SameBar ==
    ASSUME NEW t \in Int, (t + 1) % BarSlots # 0
    PROVE  AlignToBarClose(t + 1) = AlignToBarClose(t)
  <1> DEFINE a == AlignToBarClose(t)
  <1>1. Aligned(a) /\ a <= t /\ t < a + BarSlots
    BY Alignment
  <1>2. a \in Int /\ BarSlots \in Nat /\ t + 1 \in Int
    BY <1>1, BarFeedAssumption DEF Aligned
  <1>3. Aligned(a + BarSlots)
    BY <1>1, AlignedSteps
  <1> HIDE DEF a
  <1>4. t + 1 # a + BarSlots
    BY <1>3 DEF Aligned
  <1>5. a <= t + 1 /\ t + 1 < a + BarSlots
    BY <1>1, <1>2, <1>4
  <1>6. a = AlignToBarClose(t + 1)
    BY <1>1, <1>2, <1>5, Alignment
  <1> QED
    BY <1>6 DEF a

\* A process that is on time and has a bar go by was waiting for it.
LEMMA TimeKeepsOnTime ==
    ASSUME FeedInv, OnTimeInv, TimePasses
    PROVE  OnTimeInv'
  <1>1. /\ clock' = clock + 1
        /\ UNCHANGED <<pc, run_at, latest, tick, fed>>
        /\ late' = (late \/ (Behind /\ clock' % BarSlots = 0))
    BY DEF TimePasses
  <1>2. /\ clock \in Int /\ run_at \in Int /\ tick \in Nat /\ BarSlots \in Nat \ {0}
        /\ Aligned(run_at)
    BY BarFeedAssumption DEF FeedInv, TypeInv, Aligned
  <1> SUFFICES ASSUME ~late' PROVE OnTimeInv'
    BY DEF OnTimeInv
  <1>3. ~late /\ ~(Behind /\ clock' % BarSlots = 0)
    BY <1>1
  <1>4. tick = 0 /\ pc \in {"catchup", "run", "running"} =>
          AlignToBarClose(clock') = AlignToBarClose(clock)
    <2> SUFFICES ASSUME tick = 0, pc \in {"catchup", "run", "running"}
                 PROVE  AlignToBarClose(clock') = AlignToBarClose(clock)
      OBVIOUS
    <2>1. (clock + 1) % BarSlots # 0
      BY <1>1, <1>3 DEF Behind
    <2> QED
      BY <1>1, <1>2, <2>1, SameBar
  <1>5. ASSUME tick # 0 PROVE clock' < run_at + BarSlots + BarSlots
    <2>1. clock < run_at + BarSlots + BarSlots /\ tick < run_at + BarSlots + BarSlots
      BY <1>3, <1>5 DEF OnTimeInv
    <2>2. CASE clock < tick
      BY <1>1, <1>2, <2>1, <2>2
    <2>3. CASE clock >= tick
      <3>1. (clock + 1) % BarSlots # 0
        BY <1>1, <1>3, <1>5, <2>3 DEF Behind
      <3>2. Aligned(run_at + BarSlots + BarSlots)
        <4>1. Aligned(run_at + BarSlots)
          BY <1>2, AlignedSteps
        <4> QED
          BY <4>1, AlignedSteps
      <3>3. clock + 1 # run_at + BarSlots + BarSlots
        BY <3>1, <3>2 DEF Aligned
      <3> QED
        BY <1>1, <1>2, <2>1, <3>3
    <2> QED
      BY <1>2, <2>2, <2>3
  <1>6. pc = "catchup" => tick = 0
    BY DEF FeedInv, StartInv
  <1> QED
    BY <1>1, <1>3, <1>4, <1>5, <1>6 DEF OnTimeInv


LEMMA DownloadKeeps ==
    ASSUME FeedInv, Download
    PROVE  FeedInv' /\ (OnTimeInv => OnTimeInv')
  <1> DEFINE window == WarmupWindow(clock + BarSlots)
  <1>1. /\ downloads < MaxDownloads /\ downloads' = downloads + 1
        /\ UNCHANGED <<once, clock, pc, run_at, latest, tick, fed, late>>
    BY DEF Download
  <1>2. PICK bars \in SUBSET ToSet(window) : store' = Replaced(bars)
    BY DEF Download
  <1>3. clock \in Int /\ StoreOK(store) /\ downloads' \in 0..MaxDownloads
    BY <1>1, BarFeedAssumption DEF FeedInv, TypeInv
  <1>4. ASSUME NEW ts \in bars PROVE Aligned(ts) /\ ts <= clock
    <2> DEFINE last == LatestCompletedBar(clock + BarSlots)
               first == WarmupStart(clock + BarSlots)
    <2>1. /\ Aligned(AlignToBarClose(clock + BarSlots))
          /\ AlignToBarClose(clock + BarSlots) <= clock + BarSlots
          /\ clock + BarSlots \in Int
      BY <1>3, Alignment, BarFeedAssumption
    <2>2. /\ Aligned(last) /\ last \in Int
          /\ last = AlignToBarClose(clock + BarSlots) - BarSlots
      BY <2>1, AlignedSteps DEF LatestCompletedBar, Aligned
    <2>3. last <= clock
      BY <1>3, <2>1, <2>2, BarFeedAssumption DEF Aligned
    <2>4. PICK i \in DOMAIN window : ts = window[i]
      BY <1>2, <1>4 DEF ToSet
    <2>5. first = last - BarSlots * (WarmupBars - 1)
      BY DEF WarmupStart
    <2>6. Aligned(first) /\ first \in Int /\ first <= last
      <3> HIDE DEF last, first
      <3>1. -(WarmupBars - 1) \in Int /\ BarSlots \in Nat /\ WarmupBars \in Nat \ {0}
        BY BarFeedAssumption
      <3>2. Aligned(last + BarSlots * (-(WarmupBars - 1)))
        BY <2>2, <3>1, AlignedSteps
      <3>3. last + BarSlots * (-(WarmupBars - 1)) = first
        BY <2>2, <2>5, <3>1
      <3>4. BarSlots * (WarmupBars - 1) >= 0
        BY <3>1
      <3> QED
        BY <2>2, <2>5, <3>1, <3>2, <3>3, <3>4 DEF Aligned
    <2> DEFINE n == (last - first) \div BarSlots + 1
    <2>7. /\ window = [j \in 1..n |-> first + (j - 1) * BarSlots]
          /\ DOMAIN window = 1..n
      BY DEF WarmupWindow, BarsBetween
    <2> HIDE DEF window, last, first
    <2>8. /\ n \in Nat \ {0}
          /\ last = first + BarSlots * (n - 1)
      BY <2>2, <2>6, Grid
    <2> HIDE DEF n
    <2>9. i \in 1..n /\ ts = first + BarSlots * (i - 1)
      BY <2>4, <2>6, <2>7, BarFeedAssumption
    <2>10. Aligned(ts) /\ ts <= last
      BY <2>6, <2>8, <2>9, GridPoints
    <2> QED
      BY <1>3, <2>2, <2>3, <2>10 DEF Aligned
  <1>5. StoreOK(store')
    BY <1>2, <1>3, <1>4, ReplacedOK
  <1>6. TypeInv'
    BY <1>1, <1>3, <1>5 DEF FeedInv, TypeInv
  <1>7. StartInv' /\ OrderInv'
    BY <1>1 DEF FeedInv, StartInv, OrderInv, Warm
  <1>8. ASSUME OnTimeInv PROVE OnTimeInv'
    BY <1>1, <1>8 DEF OnTimeInv
  <1> QED
    BY <1>6, <1>7, <1>8 DEF FeedInv

LEMMA LaunchKeeps ==
    ASSUME FeedInv, Launch
    PROVE  FeedInv' /\ (OnTimeInv => OnTimeInv')
  <1>1. /\ pc = "down" /\ pc' = "backfill" /\ run_at' = AlignToBarClose(clock)
        /\ UNCHANGED <<once, clock, store, latest, tick, downloads, fed, late>>
    BY DEF Launch
  <1>2. clock \in Int /\ tick = 0 /\ fed = <<>> /\ Len(fed) = 0 /\ BarSlots \in Nat
    BY <1>1, EmptyFed, BarFeedAssumption DEF FeedInv, TypeInv, StartInv
  <1>3. /\ Aligned(run_at') /\ run_at' \in Int
        /\ run_at' <= clock /\ clock < run_at' + BarSlots
    BY <1>1, <1>2, Alignment DEF Aligned
  <1>4. TypeInv'
    BY <1>1, <1>3 DEF FeedInv, TypeInv, Points
  <1>5. StartInv'
    <2>1. clock \in Int /\ BarSlots \in Nat
      BY <1>2
    <2>2. ASSUME NEW bar \in Int, clock < bar + BarSlots PROVE clock - bar < BarSlots
      BY <2>1, <2>2
    <2>3. clock - run_at' < BarSlots
      BY <1>3, <2>2
    <2> QED
      BY <1>1, <1>2, <2>3 DEF StartInv
  <1>6. OrderInv'
    BY <1>1, <1>2 DEF FeedInv, OrderInv
  <1>7. ASSUME OnTimeInv PROVE OnTimeInv'
    BY <1>1, <1>2, <1>7 DEF OnTimeInv
  <1> QED
    BY <1>4, <1>5, <1>6, <1>7 DEF FeedInv

LEMMA EndsKeep ==
    ASSUME FeedInv, WarmUpFails \/ CatchUpFails \/ RunFails \/ Stop
    PROVE  FeedInv' /\ OnTimeInv'
  <1>1. /\ clock \in Int /\ StoreOK(store) /\ downloads \in 0..MaxDownloads
        /\ Aligned(run_at) /\ run_at <= clock /\ Aligned(latest) /\ latest <= clock
    BY DEF FeedInv, TypeInv
  <1>2. /\ Down /\ UNCHANGED <<once, clock>> /\ downloads' = downloads
    BY DEF WarmUpFails, CatchUpFails, RunFails, Stop
  <1>3. StoreOK(store')
    <2>1. CASE WarmUpFails
      BY <1>1, <2>1, EnsureFailed DEF WarmUpFails
    <2>2. CASE CatchUpFails
      BY <1>1, <2>2, EnsureFailed DEF CatchUpFails
    <2>3. CASE RunFails
      <3>1. StoreOK(Replaced({run_at}))
        <4>1. \A ts \in {run_at} : Aligned(ts) /\ ts <= clock
          BY <1>1
        <4> QED
          BY <1>1, <4>1, ReplacedOK
      <3> QED
        BY <1>1, <2>3, <3>1 DEF RunFails
    <2>4. CASE Stop
      BY <1>1, <2>4 DEF Stop
    <2> QED
      BY <2>1, <2>2, <2>3, <2>4
  <1> QED
    BY <1>1, <1>2, <1>3, DownInv

LEMMA LoopKeeps ==
    ASSUME FeedInv, StartLoop \/ EndRun
    PROVE  FeedInv'
  <1>1. /\ pc = "running" /\ pc' = "loop" /\ tick' # 0 /\ tick' \in Nat
        /\ UNCHANGED <<once, clock, store, run_at, latest, downloads, fed, late>>
    <2>1. CASE StartLoop
      BY <2>1, BarFeedAssumption DEF StartLoop, FeedInv, TypeInv
    <2>2. CASE EndRun
      BY <2>2 DEF EndRun, FeedInv, TypeInv
    <2> QED
      BY <2>1, <2>2
  <1>2. TypeInv'
    BY <1>1 DEF FeedInv, TypeInv, Points
  <1>3. StartInv'
    BY <1>1 DEF StartInv
  <1>4. OrderInv'
    BY <1>1 DEF FeedInv, OrderInv
  <1> QED
    BY <1>2, <1>3, <1>4 DEF FeedInv

LEMMA TickKeeps ==
    ASSUME FeedInv, Tick
    PROVE  FeedInv'
  <1>1. /\ pc = "loop" /\ pc' = "run" /\ clock >= tick
        /\ tick' = tick + Interval /\ run_at' = AlignToBarClose(clock)
        /\ UNCHANGED <<once, clock, store, latest, downloads, fed, late>>
    BY DEF Tick
  <1>2. /\ clock \in Int /\ Aligned(run_at) /\ run_at \in Int /\ run_at <= clock
        /\ tick \in Nat /\ tick' \in Nat /\ tick' # 0
    BY <1>1, BarFeedAssumption DEF FeedInv, TypeInv, Aligned
  <1>3. Aligned(run_at') /\ run_at' \in Int /\ run_at' <= clock /\ run_at <= run_at'
    BY <1>1, <1>2, Alignment DEF Aligned
  <1>4. TypeInv'
    BY <1>1, <1>2, <1>3 DEF FeedInv, TypeInv, Points
  <1>5. StartInv'
    BY <1>1, <1>2 DEF StartInv
  <1>6. OrderInv'
    <2>1. ASSUME Len(fed) > 0 PROVE fed[Len(fed)].ts <= run_at'
      <3>1. fed \in Seq(Rows) /\ Len(fed) \in 1..Len(fed) /\ fed[Len(fed)].ts <= run_at
        BY <2>1 DEF FeedInv, TypeInv, OrderInv
      <3>2. fed[Len(fed)] \in Rows
        BY <3>1
      <3>3. fed[Len(fed)].ts \in Int
        BY <3>2 DEF Rows
      <3> QED
        BY <1>2, <1>3, <3>1, <3>3
    <2> QED
      BY <1>1, <2>1 DEF FeedInv, OrderInv
  <1> QED
    BY <1>4, <1>5, <1>6 DEF FeedInv

\* With an interval of one bar the next tick stays inside the bar to come.
LEMMA LoopKeepsOnTime ==
    ASSUME FeedInv, OnTimeInv, StartLoop \/ EndRun, Interval = BarSlots
    PROVE  OnTimeInv'
  <1>1. pc = "running" /\ pc' = "loop" /\ UNCHANGED <<clock, run_at, latest, fed, late>>
    BY DEF StartLoop, EndRun
  <1>2. /\ clock \in Int /\ BarSlots \in Nat \ {0} /\ Aligned(run_at) /\ run_at \in Int
    BY BarFeedAssumption DEF FeedInv, TypeInv, Aligned
  <1> SUFFICES ASSUME ~late PROVE OnTimeInv'
    BY <1>1 DEF OnTimeInv
  <1>3. /\ Contiguous(fed) /\ Len(fed) > 0 /\ fed[Len(fed)].ts = run_at
    BY <1>1 DEF OnTimeInv
  <1>4. /\ run_at + BarSlots <= tick' /\ tick' < run_at + BarSlots + BarSlots
        /\ clock < run_at + BarSlots + BarSlots
    <2>1. CASE StartLoop
      <3>1. tick = 0 /\ tick' = clock + BarSlots
        BY <2>1 DEF StartLoop
      <3>2. run_at = AlignToBarClose(clock)
        BY <1>1, <3>1 DEF OnTimeInv
      <3>3. run_at <= clock /\ clock < run_at + BarSlots
        BY <1>2, <3>2, Alignment
      <3> QED
        BY <1>2, <3>1, <3>3
    <2>2. CASE EndRun
      BY <2>2 DEF EndRun, OnTimeInv
    <2> QED
      BY <2>1, <2>2
  <1> QED
    BY <1>1, <1>3, <1>4 DEF OnTimeInv

\* A tick on time is for the bar after the last run's.
LEMMA TickKeepsOnTime ==
    ASSUME FeedInv, OnTimeInv, Tick, Interval = BarSlots
    PROVE  OnTimeInv'
  <1>1. /\ pc = "loop" /\ pc' = "run" /\ clock >= tick
        /\ tick' = tick + BarSlots /\ run_at' = AlignToBarClose(clock)
        /\ UNCHANGED <<clock, latest, fed, late>>
    BY DEF Tick
  <1>2. /\ clock \in Int /\ BarSlots \in Nat \ {0} /\ tick \in Nat
        /\ Aligned(run_at) /\ run_at \in Int /\ tick # 0
    BY <1>1, BarFeedAssumption DEF FeedInv, TypeInv, StartInv, Aligned
  <1> SUFFICES ASSUME ~late PROVE OnTimeInv'
    BY <1>1 DEF OnTimeInv
  <1>3. /\ Contiguous(fed) /\ Len(fed) > 0 /\ fed[Len(fed)].ts = run_at
        /\ run_at + BarSlots <= tick /\ tick < run_at + BarSlots + BarSlots
        /\ clock < run_at + BarSlots + BarSlots
    BY <1>1, <1>2 DEF OnTimeInv
  <1>4. run_at' = run_at + BarSlots
    <2>1. Aligned(run_at + BarSlots)
      BY <1>2, AlignedSteps
    <2>2. run_at + BarSlots <= clock /\ clock < run_at + BarSlots + BarSlots
      BY <1>1, <1>2, <1>3
    <2> QED
      BY <1>1, <1>2, <2>1, <2>2, Alignment
  <1>5. /\ run_at' + BarSlots <= tick' /\ tick' < run_at' + BarSlots + BarSlots
        /\ clock < run_at' + BarSlots + BarSlots /\ tick' # 0
        /\ run_at = run_at' - BarSlots
    BY <1>1, <1>2, <1>3, <1>4
  <1> QED
    BY <1>1, <1>3, <1>5 DEF OnTimeInv


----------------------------------------------------------------------------
LEMMA FeedNext ==
    ASSUME FeedInv, [Next]_vars
    PROVE  FeedInv'
  <1>1. CASE TimePasses
    BY <1>1, TimeKeeps
  <1>2. CASE Download
    BY <1>2, DownloadKeeps
  <1>3. CASE Launch
    BY <1>3, LaunchKeeps
  <1>4. CASE WarmUp
    BY <1>4, WarmUpKeeps
  <1>5. CASE WarmUpFails \/ CatchUpFails \/ RunFails \/ Stop
    BY <1>5, EndsKeep
  <1>6. CASE CatchUp
    BY <1>6, CatchUpKeeps
  <1>7. CASE FeedBar
    BY <1>7, FeedBarKeeps
  <1>8. CASE StartLoop \/ EndRun
    BY <1>8, LoopKeeps
  <1>9. CASE Tick
    BY <1>9, TickKeeps
  <1>10. CASE UNCHANGED vars
    BY <1>10 DEF vars, FeedInv, TypeInv, StartInv, OrderInv, Warm
  <1> QED
    BY <1>1, <1>2, <1>3, <1>4, <1>5, <1>6, <1>7, <1>8, <1>9, <1>10 DEF Next

LEMMA OnTimeNext ==
    ASSUME FeedInv, OnTimeInv, [Next]_vars, Interval = BarSlots
    PROVE  OnTimeInv'
  <1>1. CASE TimePasses
    BY <1>1, TimeKeepsOnTime
  <1>2. CASE Download
    BY <1>2, DownloadKeeps
  <1>3. CASE Launch
    BY <1>3, LaunchKeeps
  <1>4. CASE WarmUp
    BY <1>4, WarmUpKeeps
  <1>5. CASE WarmUpFails \/ CatchUpFails \/ RunFails \/ Stop
    BY <1>5, EndsKeep
  <1>6. CASE CatchUp
    BY <1>6, CatchUpKeeps
  <1>7. CASE FeedBar
    BY <1>7, FeedBarKeeps
  <1>8. CASE StartLoop \/ EndRun
    BY <1>8, LoopKeepsOnTime
  <1>9. CASE Tick
    BY <1>9, TickKeepsOnTime
  <1>10. CASE UNCHANGED vars
    BY <1>10 DEF vars, OnTimeInv
  <1> QED
    BY <1>1, <1>2, <1>3, <1>4, <1>5, <1>6, <1>7, <1>8, <1>9, <1>10 DEF Next

LEMMA FeedInvariant == Spec => []FeedInv
  <1>1. Init => FeedInv
    BY FeedInit
  <1>2. FeedInv /\ [Next]_vars => FeedInv'
    BY FeedNext
  <1> QED
    BY <1>1, <1>2, PTL DEF Spec

\* For bars and windows of any length the state stays within its type: every
\* stored price was taken while its candle was open or when it closed, and the
\* pipeline never holds more than its windows and one bar (PriceStore,
\* LiveRunner::run_loop).
THEOREM FeedTypeCorrect == Spec => []TypeOK
  <1>1. FeedInv => TypeOK
    <2> SUFFICES ASSUME TypeInv PROVE TypeOK
      BY DEF FeedInv
    <2>1. /\ once \in OnceModes /\ clock \in 0..MaxClock /\ pc \in Points
          /\ run_at % BarSlots = 0 /\ latest % BarSlots = 0
          /\ tick \in Nat /\ downloads \in 0..MaxDownloads
          /\ Len(fed) <= WarmupBars + 1 /\ late \in BOOLEAN
      BY DEF TypeInv, Aligned
    <2>2. \A ts \in DOMAIN store : ts % BarSlots = 0 /\ store[ts] \in ts..(ts + BarSlots)
      <3> SUFFICES ASSUME NEW ts \in DOMAIN store
                   PROVE  ts % BarSlots = 0 /\ store[ts] \in ts..(ts + BarSlots)
        OBVIOUS
      <3>1. /\ ts % BarSlots = 0 /\ ts \in Int /\ store[ts] \in Int
            /\ ts <= store[ts] /\ store[ts] <= ts + BarSlots
        BY DEF TypeInv, StoreOK, Aligned
      <3> QED
        BY <3>1, BarFeedAssumption
    <2> QED
      BY <2>1, <2>2 DEF TypeOK
  <1> QED
    BY <1>1, FeedInvariant, PTL

\* However long the backfill takes within the window it fills, and whatever the
\* store held or is given meanwhile, the first run starts on a full window
\* without a gap, up to the bar before its own (main, ensure_price_history,
\* replay_warmup_gap_window).
THEOREM FirstRunIsWarm == Spec => []FirstRunWarm
  <1>1. FeedInv => FirstRunWarm
    BY DEF FeedInv, StartInv, Warm, FirstRunWarm, Last
  <1> QED
    BY <1>1, FeedInvariant, PTL

\* Late or not, with any interval, no bar and no price is fed after a younger
\* one (LiveRunner::run_once_at, replay_warmup_gap_window).
THEOREM NeverFedBack == Spec => []NeverBack
  <1>1. FeedInv => NeverBack
    BY DEF FeedInv, OrderInv, Rising, NeverBack
  <1> QED
    BY <1>1, FeedInvariant, PTL

\* When the loop's interval is a bar, a process that is never behind at the end
\* of a bar feeds every bar once (LiveRunner::run_loop).
THEOREM EveryBarFedOnce ==
    ASSUME Interval = BarSlots
    PROVE  Spec => []EveryBarOnce
  <1>1. Init => OnTimeInv
    BY FeedInit
  <1>2. FeedInv /\ OnTimeInv /\ [Next]_vars => OnTimeInv'
    BY OnTimeNext
  <1>3. OnTimeInv => EveryBarOnce
    BY DEF OnTimeInv, EveryBarOnce
  <1> QED
    BY <1>1, <1>2, <1>3, FeedInvariant, PTL DEF Spec
=========================================================================
