--------------------------- MODULE MemoryMapProofs ---------------------------
(***************************************************************************)
(* The map that rk356x_build_mem_map builds is faithful, for any banks, in *)
(* any order and overlapping or not, and wherever the firmware's ranges    *)
(* are: the table of edges never fills, it ends up sorted and complete,    *)
(* and so an interval between two neighbours lies in a range exactly when  *)
(* any one of its addresses does.                                          *)
(***************************************************************************)
EXTENDS MemoryMap, FiniteSetTheorems, WellFoundedInduction, TLAPS

FlagSet == {"unused", "reserved", "framebuffer", "mmio", "payload"}
Item == [start : Nat, end : Nat, flags : FlagSet]

MapTypes ==
    /\ banks \in BankLists /\ payload_end \in Nat /\ n \in Nat
    /\ stage \in {"idle", "boundaries", "intervals", "done"}
    /\ boundaries \in Seq(Nat) /\ map \in Seq(Item)

Sorted(table) == \A i, j \in DOMAIN table : i < j => table[i] < table[j]

\* The edges of the first ranges are in the table.
EdgesKnown(table, count) ==
    \A k \in 1..count : Known(table, Ranges[k].start) /\ Known(table, Ranges[k].end)

TableInv ==
    stage = "boundaries" =>
        /\ n \in 1..(Len(banks) + 7)
        /\ Sorted(boundaries)
        /\ EdgesKnown(boundaries, n - 1)
        /\ Len(boundaries) <= 2 * (n - 1)
        /\ map = <<>>

\* A map tells all there is to tell below an address.
Ordered(items) == \A i, j \in DOMAIN items : i < j => items[i].end <= items[j].start
Truthful(items) ==
    \A i \in DOMAIN items : \A a \in items[i].start..(items[i].end - 1) :
        FlagsAt(a) = items[i].flags
Has(items, a) == \E i \in DOMAIN items : items[i].start <= a /\ a < items[i].end
\* Neighbours with the same flags have been joined.
Merged(items) ==
    \A i \in DOMAIN items : i + 1 \in DOMAIN items /\ items[i].end = items[i + 1].start
                            => items[i].flags /= items[i + 1].flags

FaithfulBelow(items, limit) ==
    /\ \A i \in DOMAIN items : items[i].start < items[i].end /\ items[i].end <= limit
    /\ Ordered(items) /\ Truthful(items) /\ Merged(items)
    /\ \A a \in Nat : a < limit /\ FlagsAt(a) /= "none" => Has(items, a)

IntervalsInv ==
    stage = "intervals" =>
        /\ Sorted(boundaries)
        /\ EdgesKnown(boundaries, Len(banks) + 6)
        /\ Len(boundaries) <= MaxBoundaries
        /\ n \in 1..Len(boundaries)
        /\ Len(map) <= n - 1
        /\ FaithfulBelow(map, boundaries[n])

\* All there is to tell, and in only one way.
Canonical(items) ==
    /\ \A i \in DOMAIN items : items[i].start < items[i].end
    /\ Ordered(items) /\ Truthful(items) /\ Merged(items)
    /\ \A a \in Nat : FlagsAt(a) /= "none" => Has(items, a)

DoneInv == stage = "done" => Canonical(map)

MapInv == MapTypes /\ TableInv /\ IntervalsInv /\ DoneInv

(***************************************************************************)
(* The ranges                                                              *)
(***************************************************************************)
\* What the entries of Ranges and Reserved are.
LEMMA RangeFacts ==
    ASSUME MapTypes
    PROVE  /\ Len(banks) \in Nat /\ Len(banks) <= MaxBanks
           /\ DOMAIN banks = 1..Len(banks)
           /\ DOMAIN Ranges = 1..(Len(banks) + 6) /\ Len(Ranges) = Len(banks) + 6
           /\ DOMAIN Reserved = 1..5
           /\ \A i \in 1..Len(banks) :
                 /\ banks[i].start \in Nat /\ banks[i].size \in Nat
                 /\ Ranges[i].start = banks[i].start
                 /\ Ranges[i].end = banks[i].start + banks[i].size
           /\ \A j \in 1..5 :
                 /\ Reserved[j].start \in Nat /\ Reserved[j].end \in Nat
                 /\ Reserved[j].flags \in FlagSet
                 /\ Ranges[Len(banks) + j].start = Reserved[j].start
                 /\ Ranges[Len(banks) + j].end = Reserved[j].end
           /\ Ranges[Len(banks) + 6].start = MmioStart
           /\ Ranges[Len(banks) + 6].end = Phys4G
           /\ \A k \in 1..(Len(banks) + 6) : Ranges[k].start \in Nat /\ Ranges[k].end \in Nat
<1>1. /\ banks \in Seq(Bank) /\ Len(banks) \in Nat /\ Len(banks) <= MaxBanks
      /\ DOMAIN banks = 1..Len(banks) /\ payload_end \in Nat
  BY DEF MapTypes, BankLists
<1>2. \A i \in 1..Len(banks) : banks[i] \in Bank
  BY <1>1
<1>3. \A i \in 1..Len(banks) : banks[i].start \in Nat /\ banks[i].size \in Nat
  BY <1>2 DEF Bank
<1>4. /\ DOMAIN Reserved = 1..5
      /\ \A j \in 1..5 :
            /\ Reserved[j].start \in Nat /\ Reserved[j].end \in Nat
            /\ Reserved[j].flags \in FlagSet
  <2>1. DOMAIN Reserved = 1..5
    BY DEF Reserved
  <2>2. /\ LowEnd \in Nat /\ Payload \in Nat /\ payload_end \in Nat /\ StackBottom \in Nat
        /\ StackTop \in Nat /\ DmaStart \in Nat /\ DmaEnd \in Nat
        /\ FbStart \in Nat /\ FbEnd \in Nat
    BY <1>1, AddressAssumption
  <2>3. ASSUME NEW j \in 1..5
        PROVE  Reserved[j].start \in Nat /\ Reserved[j].end \in Nat
    <3>1. j = 1 \/ j = 2 \/ j = 3 \/ j = 4 \/ j = 5
      OBVIOUS
    <3> QED
      BY <2>2, <3>1 DEF Reserved
  <2>4. \A j \in 1..5 : Reserved[j].flags \in FlagSet
    BY DEF Reserved, FlagSet
  <2> QED
    BY <2>1, <2>3, <2>4
<1>5. Ranges = [i \in 1..(Len(banks) + 6) |-> Ranges[i]]
  BY DEF Ranges
<1>6. DOMAIN Ranges = 1..(Len(banks) + 6)
  BY DEF Ranges
<1>7. Len(Ranges) = Len(banks) + 6
  <2>1. Ranges \in Seq({Ranges[i] : i \in 1..(Len(banks) + 6)})
    BY <1>1, <1>5
  <2> QED
    BY <1>1, <1>6, <2>1
<1>8. \A i \in 1..Len(banks) :
         /\ Ranges[i].start = banks[i].start
         /\ Ranges[i].end = banks[i].start + banks[i].size
  BY <1>1 DEF Ranges
<1>9. \A j \in 1..5 :
         /\ Ranges[Len(banks) + j].start = Reserved[j].start
         /\ Ranges[Len(banks) + j].end = Reserved[j].end
  <2> TAKE j \in 1..5
  <2>1. /\ Len(banks) + j \in 1..(Len(banks) + 6)
        /\ ~(Len(banks) + j <= Len(banks)) /\ Len(banks) + j <= Len(banks) + 5
        /\ (Len(banks) + j) - Len(banks) = j
    BY <1>1
  <2> QED
    BY <2>1 DEF Ranges
<1>10. Ranges[Len(banks) + 6].start = MmioStart /\ Ranges[Len(banks) + 6].end = Phys4G
  <2>1. /\ Len(banks) + 6 \in 1..(Len(banks) + 6)
        /\ ~(Len(banks) + 6 <= Len(banks)) /\ ~(Len(banks) + 6 <= Len(banks) + 5)
    BY <1>1
  <2> QED
    BY <2>1 DEF Ranges
<1>11. \A k \in 1..(Len(banks) + 6) : Ranges[k].start \in Nat /\ Ranges[k].end \in Nat
  <2> TAKE k \in 1..(Len(banks) + 6)
  <2>1. CASE k \in 1..Len(banks)
    BY <2>1, <1>3, <1>8
  <2>2. CASE k = Len(banks) + 6
    BY <2>2, <1>10, AddressAssumption
  <2>3. CASE k \in (Len(banks) + 1)..(Len(banks) + 5)
    <3>1. k - Len(banks) \in 1..5 /\ Len(banks) + (k - Len(banks)) = k
      BY <2>3, <1>1
    <3> QED
      BY <3>1, <1>4, <1>9
  <2> QED
    BY <1>1, <2>1, <2>2, <2>3
<1> QED
  BY <1>1, <1>3, <1>4, <1>6, <1>7, <1>8, <1>9, <1>10, <1>11

(***************************************************************************)
(* The flags of an interval                                                *)
(***************************************************************************)
\* Between two addresses without an edge, all the addresses are alike: an
\* interval lies in a range exactly when one of its addresses does.
LEMMA AllOrNone ==
    ASSUME NEW s \in Nat, NEW e \in Nat, NEW a \in Nat, s <= a, a < e,
           NEW lo \in Nat, NEW hi \in Nat,
           lo <= s \/ lo >= e, hi <= s \/ hi >= e
    PROVE  (s >= lo /\ e <= hi) <=> (lo <= a /\ a < hi)
OBVIOUS

\* The table has no entry inside an interval.
Gap(s, e) == \A k \in DOMAIN boundaries : boundaries[k] <= s \/ boundaries[k] >= e

\* Flags gives an interval of a complete table the flags of its addresses.
LEMMA FlagsOfInterval ==
    ASSUME MapTypes, EdgesKnown(boundaries, Len(banks) + 6),
           NEW s \in Nat, NEW e \in Nat, Gap(s, e), NEW a \in Nat, s <= a, a < e
    PROVE  Flags(s, e) = FlagsAt(a)
<1>1. \A k \in 1..(Len(banks) + 6) :
        /\ Ranges[k].start <= s \/ Ranges[k].start >= e
        /\ Ranges[k].end <= s \/ Ranges[k].end >= e
  BY DEF EdgesKnown, Known, Gap
<1>2. \A k \in 1..(Len(banks) + 6) :
        (s >= Ranges[k].start /\ e <= Ranges[k].end)
            <=> (Ranges[k].start <= a /\ a < Ranges[k].end)
  <2> TAKE k \in 1..(Len(banks) + 6)
  <2>1. Ranges[k].start \in Nat /\ Ranges[k].end \in Nat
    BY RangeFacts
  <2> QED
    BY <1>1, <2>1, AllOrNone
<1>3. (s >= MmioStart /\ e <= Phys4G) <=> (MmioStart <= a /\ a < Phys4G)
  <2>1. Len(banks) + 6 \in 1..(Len(banks) + 6)
    BY RangeFacts
  <2> QED
    BY <1>2, <2>1, RangeFacts
<1>4. interval_in_bank(s, e) <=> \E i \in DOMAIN banks : InBank(a, banks[i])
  <2>1. \A i \in DOMAIN banks :
           (s >= banks[i].start /\ e <= banks[i].start + banks[i].size)
               <=> InBank(a, banks[i])
    <3> TAKE i \in DOMAIN banks
    <3>1. i \in 1..Len(banks) /\ i \in 1..(Len(banks) + 6)
      BY RangeFacts
    <3> QED
      BY <1>2, <3>1, RangeFacts DEF InBank
  <2> QED
    BY <2>1 DEF interval_in_bank
<1>5. Covering(s, e) = {j \in DOMAIN Reserved : Reserved[j].start <= a /\ a < Reserved[j].end}
  <2>1. \A j \in DOMAIN Reserved :
           (s >= Reserved[j].start /\ e <= Reserved[j].end)
               <=> (Reserved[j].start <= a /\ a < Reserved[j].end)
    <3> TAKE j \in DOMAIN Reserved
    <3>1. j \in 1..5 /\ Len(banks) \in Nat
      BY RangeFacts
    <3>2. Len(banks) + j \in 1..(Len(banks) + 6)
      BY <3>1
    <3> QED
      BY <1>2, <3>1, <3>2, RangeFacts
  <2> QED
    BY <2>1 DEF Covering
<1> DEFINE inside == {j \in DOMAIN Reserved : Reserved[j].start <= a /\ a < Reserved[j].end}
           first(C) == Reserved[CHOOSE j \in C : \A k \in C : j <= k].flags
<1>6. FlagsAt(a) = IF MmioStart <= a /\ a < Phys4G THEN "mmio"
                   ELSE IF ~\E i \in DOMAIN banks : InBank(a, banks[i]) THEN "none"
                   ELSE IF inside = {} THEN "unused" ELSE first(inside)
  BY DEF FlagsAt
<1>7. Flags(s, e) = IF s >= MmioStart /\ e <= Phys4G THEN "mmio"
                    ELSE IF ~interval_in_bank(s, e) THEN "none"
                    ELSE IF Covering(s, e) = {} THEN "unused" ELSE first(Covering(s, e))
  BY DEF Flags
<1>8. Covering(s, e) = inside
  BY <1>5
<1> HIDE DEF inside, first
<1> QED
  BY <1>3, <1>4, <1>6, <1>7, <1>8

\* Before the first edge and after the last there is nothing.
LEMMA NothingOutside ==
    ASSUME MapTypes, EdgesKnown(boundaries, Len(banks) + 6), NEW a \in Nat,
           \/ \A k \in DOMAIN boundaries : boundaries[k] > a
           \/ \A k \in DOMAIN boundaries : boundaries[k] <= a
    PROVE  FlagsAt(a) = "none"
<1>1. \A k \in 1..(Len(banks) + 6) : ~(Ranges[k].start <= a /\ a < Ranges[k].end)
  <2> TAKE k \in 1..(Len(banks) + 6)
  <2>1. PICK x \in DOMAIN boundaries : boundaries[x] = Ranges[k].start
    BY DEF EdgesKnown, Known
  <2>2. PICK y \in DOMAIN boundaries : boundaries[y] = Ranges[k].end
    BY DEF EdgesKnown, Known
  <2>3. Ranges[k].start \in Nat /\ Ranges[k].end \in Nat
    BY RangeFacts
  <2> QED
    BY <2>1, <2>2, <2>3
<1>2. ~(MmioStart <= a /\ a < Phys4G)
  <2>1. Len(banks) + 6 \in 1..(Len(banks) + 6)
    BY RangeFacts
  <2> QED
    BY <1>1, <2>1, RangeFacts
<1>3. ~\E i \in DOMAIN banks : InBank(a, banks[i])
  <2> SUFFICES ASSUME NEW i \in DOMAIN banks, InBank(a, banks[i])
               PROVE  FALSE
    OBVIOUS
  <2>1. i \in 1..Len(banks) /\ i \in 1..(Len(banks) + 6)
    BY RangeFacts
  <2> QED
    BY <1>1, <2>1, RangeFacts DEF InBank
<1> QED
  BY <1>2, <1>3, Zenon DEF FlagsAt

\* Flags are one of the values of a map item, or "none".
LEMMA FlagsType ==
    ASSUME MapTypes, NEW s \in Nat, NEW e \in Nat
    PROVE  Flags(s, e) \in FlagSet \union {"none"}
<1> DEFINE C == Covering(s, e)
<1>1. CASE C = {}
  BY <1>1 DEF Flags, FlagSet
<1>2. CASE C /= {}
  <2>1. C \subseteq 1..5
    BY RangeFacts DEF Covering
  <2>2. \E j \in C : \A k \in C : j <= k
    <3>1. CASE 1 \in C
      BY <2>1, <3>1
    <3>2. CASE 1 \notin C /\ 2 \in C
      BY <2>1, <3>2
    <3>3. CASE 1 \notin C /\ 2 \notin C /\ 3 \in C
      BY <2>1, <3>3
    <3>4. CASE 1 \notin C /\ 2 \notin C /\ 3 \notin C /\ 4 \in C
      BY <2>1, <3>4
    <3>5. CASE 1 \notin C /\ 2 \notin C /\ 3 \notin C /\ 4 \notin C
      BY <1>2, <2>1, <3>5
    <3> QED
      BY <3>1, <3>2, <3>3, <3>4, <3>5
  <2>3. (CHOOSE j \in C : \A k \in C : j <= k) \in C
    BY <2>2
  <2>4. Reserved[CHOOSE j \in C : \A k \in C : j <= k].flags \in FlagSet
    BY <2>1, <2>3, RangeFacts
  <2> QED
    BY <1>2, <2>4, Zenon DEF Flags, FlagSet
<1> QED
  BY <1>1, <1>2

(***************************************************************************)
(* The table                                                               *)
(***************************************************************************)
\* The shifting loop finds the place after the last smaller entry.
LEMMA InsertPosition ==
    ASSUME NEW table \in Seq(Nat), Sorted(table), NEW value \in Nat
    PROVE  /\ InsertAt(table, value) \in 0..Len(table)
           /\ LET p == InsertAt(table, value)
              IN  /\ p = 0 \/ table[p] <= value
                  /\ \A k \in (p + 1)..Len(table) : table[k] > value
<1> DEFINE D == {k \in 1..Len(table) : table[k] <= value}
           p == Cardinality(D)
           At(q) == /\ q = 0 \/ table[q] <= value
                    /\ \A k \in (q + 1)..Len(table) : table[k] > value
<1>0. \A m \in Nat : IsFiniteSet(1..m) /\ Cardinality(1..m) = m
  <2> TAKE m \in Nat
  <2>1. 1 \in Int /\ m \in Int
    OBVIOUS
  <2>2. IsFiniteSet(1..m) /\ Cardinality(1..m) = IF 1 > m THEN 0 ELSE m - 1 + 1
    BY ONLY <2>1, FS_Interval
  <2> QED
    BY <2>2
<1>1. IsFiniteSet(1..Len(table)) /\ Cardinality(1..Len(table)) = Len(table)
  BY <1>0
<1>2. IsFiniteSet(D) /\ p <= Len(table)
  <2>1. D \in SUBSET (1..Len(table))
    OBVIOUS
  <2> QED
    BY <1>1, <2>1, FS_Subset
<1>3. p \in Nat
  BY <1>2, FS_CardinalityType
<1>4. \A i, j \in 1..Len(table) : i < j /\ j \in D => i \in D
  BY DEF Sorted
<1>5. p /= 0 => p \in D
  <2> SUFFICES ASSUME p /= 0, p \notin D
               PROVE  FALSE
    OBVIOUS
  <2>1. D \in SUBSET (1..(p - 1))
    <3> HIDE DEF p
    <3> SUFFICES ASSUME NEW k \in D
                 PROVE  k \in 1..(p - 1)
      OBVIOUS
    <3>1. p \in 1..Len(table)
      BY <1>2, <1>3
    <3> QED
      BY <1>3, <1>4, <3>1
  <2>2. IsFiniteSet(1..(p - 1)) /\ Cardinality(1..(p - 1)) = p - 1
    <3>1. p - 1 \in Nat
      BY <1>3
    <3> QED
      BY <1>0, <3>1
  <2>3. p <= p - 1
    <3>1. Cardinality(D) <= Cardinality(1..(p - 1))
      BY <2>1, <2>2, FS_Subset
    <3> QED
      BY <2>2, <3>1
  <2> QED
    BY <1>3, <2>3
<1>6. \A k \in (p + 1)..Len(table) : table[k] > value
  <2> SUFFICES ASSUME NEW k \in (p + 1)..Len(table), table[k] <= value
               PROVE  FALSE
    BY <1>3
  <2>1. k \in D
    BY <1>3
  <2>2. (1..k) \in SUBSET D
    BY <1>3, <1>4, <2>1
  <2>3. Cardinality(1..k) = k
    BY <1>0, <1>3
  <2>4. k <= p
    BY <1>2, <2>2, <2>3, FS_Subset
  <2> QED
    BY <1>3, <2>4
<1>7. p \in 0..Len(table) /\ At(p)
  BY <1>2, <1>3, <1>5, <1>6
<1> QED
  BY <1>7 DEF InsertAt

\* add_boundary keeps a table sorted, keeps what it has, adds the value, and
\* grows it by one at most.
LEMMA AddBoundary ==
    ASSUME NEW table \in Seq(Nat), Sorted(table), NEW value \in Nat
    PROVE  LET new == add_boundary(table, value)
           IN  /\ new \in Seq(Nat) /\ Sorted(new) /\ Len(new) <= Len(table) + 1
               /\ Known(new, value)
               /\ \A x : Known(table, x) => Known(new, x)
<1>1. CASE Known(table, value)
  BY <1>1 DEF add_boundary
<1>2. CASE ~Known(table, value)
  <2> DEFINE p == InsertAt(table, value)
             new == Inserted(table, value)
             L == Len(table)
  <2>1. /\ p \in 0..L
        /\ p = 0 \/ table[p] <= value
        /\ \A k \in (p + 1)..L : table[k] > value
    BY InsertPosition
  <2>2. L \in Nat /\ DOMAIN table = 1..L /\ \A k \in 1..L : table[k] \in Nat
    OBVIOUS
  <2>3. new = [k \in 1..(L + 1) |->
                 IF k <= p THEN table[k] ELSE IF k = p + 1 THEN value ELSE table[k - 1]]
    BY DEF Inserted
  <2> HIDE DEF p, new
  <2>4. \A k \in 1..(L + 1) : new[k] \in Nat
    <3> TAKE k \in 1..(L + 1)
    <3>1. CASE k <= p
      BY <2>1, <2>2, <2>3, <3>1
    <3>2. CASE k = p + 1
      BY <2>1, <2>2, <2>3, <3>2
    <3>3. CASE k > p + 1
      BY <2>1, <2>2, <2>3, <3>3
    <3> QED
      BY <2>1, <3>1, <3>2, <3>3
  <2>5. new \in Seq(Nat) /\ Len(new) = L + 1 /\ DOMAIN new = 1..(L + 1)
    <3>1. new \in [1..(L + 1) -> Nat]
      BY <2>3, <2>4
    <3>2. new \in Seq(Nat)
      BY <2>2, <3>1
    <3> QED
      BY <2>2, <3>1, <3>2
  <2>6. \A k \in 1..p : table[k] < value
    <3> TAKE k \in 1..p
    <3>1. table[k] /= value
      BY <1>2, <2>1, <2>2 DEF Known
    <3>2. k = p \/ table[k] < table[p]
      BY <2>1, <2>2 DEF Sorted
    <3> QED
      BY <2>1, <2>2, <3>1, <3>2
  <2>7. Sorted(new)
    <3> SUFFICES ASSUME NEW i \in 1..(L + 1), NEW j \in 1..(L + 1), i < j
                 PROVE  new[i] < new[j]
      BY <2>5 DEF Sorted
    <3>1. CASE j <= p
      <4>1. new[i] = table[i] /\ new[j] = table[j] /\ i \in 1..L /\ j \in 1..L
        BY <2>1, <2>2, <2>3, <3>1
      <4> QED
        BY <2>2, <4>1 DEF Sorted
    <3>2. CASE j = p + 1
      <4>1. new[i] = table[i] /\ new[j] = value /\ i \in 1..p
        BY <2>1, <2>2, <2>3, <3>2
      <4> QED
        BY <2>6, <4>1
    <3>3. CASE j > p + 1
      <4>1. new[j] = table[j - 1] /\ j - 1 \in (p + 1)..L
        BY <2>1, <2>2, <2>3, <3>3
      <4>2. CASE i <= p
        <5>1. new[i] = table[i] /\ i \in 1..L /\ j - 1 \in 1..L /\ i < j - 1
          BY <2>1, <2>2, <2>3, <3>3, <4>2
        <5> QED
          BY <2>2, <4>1, <5>1 DEF Sorted
      <4>3. CASE i = p + 1
        <5>1. new[i] = value
          BY <2>1, <2>2, <2>3, <4>3
        <5> QED
          BY <2>1, <4>1, <5>1
      <4>4. CASE i > p + 1
        <5>1. new[i] = table[i - 1] /\ i - 1 \in 1..L /\ j - 1 \in 1..L /\ i - 1 < j - 1
          BY <2>1, <2>2, <2>3, <3>3, <4>4
        <5> QED
          BY <2>2, <4>1, <5>1 DEF Sorted
      <4> QED
        BY <2>1, <4>2, <4>3, <4>4
    <3> QED
      BY <2>1, <3>1, <3>2, <3>3
  <2>8. Known(new, value)
    <3>1. p + 1 \in 1..(L + 1) /\ new[p + 1] = value
      BY <2>1, <2>2, <2>3
    <3> QED
      BY <2>5, <3>1 DEF Known
  <2>9. ASSUME NEW x, Known(table, x)
        PROVE  Known(new, x)
    <3>1. PICK k \in 1..L : table[k] = x
      BY <2>2, <2>9 DEF Known
    <3>2. CASE k <= p
      <4>1. k \in 1..(L + 1) /\ new[k] = x
        BY <2>1, <2>2, <2>3, <3>1, <3>2
      <4> QED
        BY <2>5, <4>1 DEF Known
    <3>3. CASE k > p
      <4>1. /\ k + 1 \in 1..(L + 1) /\ ~(k + 1 <= p) /\ k + 1 /= p + 1
            /\ (k + 1) - 1 = k
        BY <2>1, <2>2, <3>3
      <4>2. new[k + 1] = x
        BY <2>3, <3>1, <4>1
      <4> QED
        BY <2>5, <4>1, <4>2 DEF Known
    <3> QED
      BY <2>1, <3>2, <3>3
  <2> QED
    BY <1>2, <2>2, <2>5, <2>7, <2>8, <2>9 DEF add_boundary, new
<1> QED
  BY <1>1, <1>2

(***************************************************************************)
(* The map                                                                 *)
(***************************************************************************)
\* map_add extends what the map tells by an interval, as a new item or as the
\* end of the last one.
LEMMA AddInterval ==
    ASSUME NEW items \in Seq(Item), Len(items) < MaxMapItems,
           NEW s \in Nat, NEW e \in Nat, s < e, NEW f \in FlagSet,
           FaithfulBelow(items, s), \A a \in s..(e - 1) : FlagsAt(a) = f
    PROVE  /\ map_add(items, s, e, f) \in Seq(Item)
           /\ Len(map_add(items, s, e, f)) <= Len(items) + 1
           /\ FaithfulBelow(map_add(items, s, e, f), e)
<1> DEFINE new == map_add(items, s, e, f)
           L == Len(items)
<1>1. L \in Nat /\ DOMAIN items = 1..L
  OBVIOUS
<1>2. \A i \in 1..L :
        /\ items[i] \in Item
        /\ items[i].start \in Nat /\ items[i].end \in Nat /\ items[i].flags \in FlagSet
  <2>1. \A i \in 1..L : items[i] \in Item
    OBVIOUS
  <2> QED
    BY <2>1 DEF Item
<1>3. \A i \in 1..L : items[i].start < items[i].end /\ items[i].end <= s
  BY <1>1 DEF FaithfulBelow
<1>4. ~(e <= s) /\ (items /= <<>> <=> L > 0) /\ ~(L >= MaxMapItems)
  BY MapAssumption
<1>5. CASE L > 0 /\ items[L].end = s /\ items[L].flags = f
  <2>1. new = [items EXCEPT ![L] = [items[L] EXCEPT !.end = e]]
    BY <1>4, <1>5 DEF map_add
  <2>2. /\ DOMAIN new = 1..L
        /\ \A i \in 1..L : i /= L => new[i] = items[i]
        /\ new[L] = [items[L] EXCEPT !.end = e]
    <3>1. DOMAIN items = 1..L /\ L \in DOMAIN items
      BY <1>1, <1>5
    <3> QED
      BY <2>1, <3>1
  <2>3. /\ new[L].start = items[L].start /\ new[L].end = e /\ new[L].flags = f
        /\ new[L] \in Item
    <3>1. L \in 1..L /\ items[L] \in Item
      BY <1>1, <1>2, <1>5
    <3>2. /\ [items[L] EXCEPT !.end = e].start = items[L].start
          /\ [items[L] EXCEPT !.end = e].end = e
          /\ [items[L] EXCEPT !.end = e].flags = items[L].flags
          /\ [items[L] EXCEPT !.end = e] \in Item
      BY <3>1 DEF Item
    <3>3. new[L] = [items[L] EXCEPT !.end = e]
      BY <2>2
    <3> QED
      BY <1>5, <3>2, <3>3
  <2> HIDE DEF new
  <2>4. new \in Seq(Item) /\ Len(new) = L
    <3>1. \A i \in 1..L : new[i] \in Item
      BY <1>2, <2>2, <2>3
    <3>2. new = [i \in 1..L |-> new[i]]
      BY <1>1, <2>1
    <3>3. new \in [1..L -> Item]
      BY <3>1, <3>2
    <3>4. new \in Seq(Item)
      BY <1>1, <3>3
    <3> QED
      BY <1>1, <2>2, <3>4
  <2>5. \A i \in 1..L : new[i].start < new[i].end /\ new[i].end <= e
    <3> TAKE i \in 1..L
    <3>1. CASE i = L
      BY <1>1, <1>2, <1>3, <2>3, <3>1
    <3>2. CASE i /= L
      <4>1. new[i] = items[i]
        BY <2>2, <3>2
      <4> QED
        BY <1>2, <1>3, <4>1
    <3> QED
      BY <3>1, <3>2
  <2>6. Ordered(new)
    <3> SUFFICES ASSUME NEW i \in 1..L, NEW j \in 1..L, i < j
                 PROVE  new[i].end <= new[j].start
      BY <2>2 DEF Ordered
    <3>1. new[i] = items[i]
      BY <1>1, <2>2
    <3>2. new[j].start = items[j].start
      BY <1>1, <2>2, <2>3
    <3> QED
      BY <1>1, <3>1, <3>2 DEF FaithfulBelow, Ordered
  <2>7. Truthful(new)
    <3> SUFFICES ASSUME NEW i \in 1..L, NEW a \in new[i].start..(new[i].end - 1)
                 PROVE  FlagsAt(a) = new[i].flags
      BY <2>2 DEF Truthful
    <3>1. CASE i /= L
      <4>1. new[i] = items[i]
        BY <2>2, <3>1
      <4> QED
        BY <1>1, <4>1 DEF FaithfulBelow, Truthful
    <3>2. CASE i = L /\ a < s
      <4>1. a \in items[L].start..(items[L].end - 1)
        BY <1>2, <1>5, <2>3, <3>2
      <4>2. FlagsAt(a) = items[L].flags
        BY <1>1, <1>5, <4>1 DEF FaithfulBelow, Truthful
      <4> QED
        BY <1>5, <2>3, <3>2, <4>2
    <3>3. CASE i = L /\ a >= s
      <4>1. a \in s..(e - 1)
        BY <1>2, <1>5, <2>3, <3>3
      <4> QED
        BY <2>3, <3>3, <4>1
    <3>4. a \in Int
      BY <1>1, <1>2, <2>2, <2>3
    <3> QED
      BY <3>1, <3>2, <3>3, <3>4
  <2>8. ASSUME NEW a \in Nat, a < e, FlagsAt(a) /= "none"
        PROVE  Has(new, a)
    <3>1. CASE a < s
      <4>1. PICK i \in 1..L : items[i].start <= a /\ a < items[i].end
        BY <1>1, <2>8, <3>1 DEF FaithfulBelow, Has
      <4>2. new[i].start <= a /\ a < new[i].end
        BY <1>1, <1>2, <1>3, <2>2, <2>3, <2>8, <4>1
      <4> QED
        BY <2>2, <4>2 DEF Has
    <3>2. CASE a >= s
      <4>1. L \in 1..L /\ items[L].start < s /\ items[L].start \in Nat
        BY <1>1, <1>2, <1>3, <1>5
      <4>2. new[L].start <= a /\ a < new[L].end
        BY <2>3, <2>8, <3>2, <4>1
      <4> QED
        BY <2>2, <4>1, <4>2 DEF Has
    <3> QED
      BY <3>1, <3>2
  <2>9. Merged(new)
    <3> SUFFICES ASSUME NEW i \in 1..L, i + 1 \in 1..L, new[i].end = new[i + 1].start
                 PROVE  new[i].flags /= new[i + 1].flags
      BY <2>2 DEF Merged
    <3>1. new[i] = items[i]
      BY <1>1, <2>2
    <3>2. new[i + 1].start = items[i + 1].start /\ new[i + 1].flags = items[i + 1].flags
      BY <1>5, <2>2, <2>3
    <3> QED
      BY <1>1, <3>1, <3>2 DEF FaithfulBelow, Merged
  <2> QED
    BY <1>1, <2>2, <2>4, <2>5, <2>6, <2>7, <2>8, <2>9 DEF FaithfulBelow, new
<1>6. CASE ~(L > 0 /\ items[L].end = s /\ items[L].flags = f)
  <2> DEFINE item == [start |-> s, end |-> e, flags |-> f]
  <2>1. new = Append(items, item)
    BY <1>4, <1>6 DEF map_add
  <2>2. item \in Item
    BY DEF Item
  <2>3. /\ new \in Seq(Item) /\ Len(new) = L + 1 /\ DOMAIN new = 1..(L + 1)
        /\ \A i \in 1..L : new[i] = items[i]
        /\ new[L + 1] = item
    BY <1>1, <2>1, <2>2
  <2>4. new[L + 1].start = s /\ new[L + 1].end = e /\ new[L + 1].flags = f
    BY <2>3
  <2> HIDE DEF new, item
  <2>5. \A i \in 1..(L + 1) : new[i].start < new[i].end /\ new[i].end <= e
    BY <1>1, <1>2, <1>3, <2>3, <2>4
  <2>6. Ordered(new)
    <3> SUFFICES ASSUME NEW i \in 1..(L + 1), NEW j \in 1..(L + 1), i < j
                 PROVE  new[i].end <= new[j].start
      BY <2>3 DEF Ordered
    <3>1. i \in 1..L /\ new[i] = items[i]
      BY <1>1, <2>3
    <3>2. CASE j \in 1..L
      BY <1>1, <2>3, <3>1, <3>2 DEF FaithfulBelow, Ordered
    <3>3. CASE j = L + 1
      BY <1>3, <2>4, <3>1, <3>3
    <3> QED
      BY <1>1, <3>2, <3>3
  <2>7. Truthful(new)
    <3> SUFFICES ASSUME NEW i \in 1..(L + 1), NEW a \in new[i].start..(new[i].end - 1)
                 PROVE  FlagsAt(a) = new[i].flags
      BY <2>3 DEF Truthful
    <3>1. CASE i \in 1..L
      BY <1>1, <2>3, <3>1 DEF FaithfulBelow, Truthful
    <3>2. CASE i = L + 1
      BY <2>4, <3>2
    <3> QED
      BY <1>1, <3>1, <3>2
  <2>8. ASSUME NEW a \in Nat, a < e, FlagsAt(a) /= "none"
        PROVE  Has(new, a)
    <3>1. CASE a < s
      <4>1. PICK i \in 1..L : items[i].start <= a /\ a < items[i].end
        BY <1>1, <2>8, <3>1 DEF FaithfulBelow, Has
      <4>2. i \in 1..(L + 1) /\ new[i] = items[i]
        BY <1>1, <2>3
      <4> QED
        BY <2>3, <4>1, <4>2 DEF Has
    <3>2. CASE a >= s
      <4>1. L + 1 \in 1..(L + 1)
        BY <1>1
      <4> QED
        BY <2>3, <2>4, <2>8, <3>2, <4>1 DEF Has
    <3> QED
      BY <3>1, <3>2
  <2>9. Merged(new)
    <3> SUFFICES ASSUME NEW i \in 1..(L + 1), i + 1 \in 1..(L + 1),
                        new[i].end = new[i + 1].start
                 PROVE  new[i].flags /= new[i + 1].flags
      BY <2>3 DEF Merged
    <3>1. CASE i + 1 \in 1..L
      <4>1. i \in 1..L /\ new[i] = items[i] /\ new[i + 1] = items[i + 1]
        BY <1>1, <2>3, <3>1
      <4> QED
        BY <1>1, <3>1, <4>1 DEF FaithfulBelow, Merged
    <3>2. CASE i = L
      BY <1>1, <1>6, <2>3, <2>4, <3>2
    <3> QED
      BY <1>1, <3>1, <3>2
  <2> QED
    BY <1>1, <2>3, <2>5, <2>6, <2>7, <2>8, <2>9 DEF FaithfulBelow, new
<1> QED
  BY <1>5, <1>6

\* An interval without flags needs no item.
LEMMA SkipInterval ==
    ASSUME NEW items \in Seq(Item), NEW s \in Nat, NEW e \in Nat, s < e,
           FaithfulBelow(items, s), \A a \in s..(e - 1) : FlagsAt(a) = "none"
    PROVE  FaithfulBelow(items, e)
<1>1. \A i \in DOMAIN items : items[i].end \in Nat
  <2>1. \A i \in DOMAIN items : items[i] \in Item
    OBVIOUS
  <2> QED
    BY <2>1 DEF Item
<1>2. \A i \in DOMAIN items : items[i].start < items[i].end /\ items[i].end <= e
  BY <1>1 DEF FaithfulBelow
<1>3. \A a \in Nat : a < e /\ FlagsAt(a) /= "none" => a < s
  OBVIOUS
<1> QED
  BY <1>2, <1>3 DEF FaithfulBelow

(***************************************************************************)
(* A finished map is the only one                                          *)
(***************************************************************************)
\* Every set of naturals that is not empty has a least element.
LEMMA LeastElement ==
    ASSUME NEW T \in SUBSET Nat, T /= {}
    PROVE  \E x \in T : \A y \in T : x <= y
<1> DEFINE Less == {ss \in Nat \X Nat : ss[1] < ss[2]}
<1>1. OpToRel(<, Nat) = Less
  BY DEF OpToRel
<1>2. IsWellFoundedOn(Less, Nat)
  BY <1>1, NatLessThanWellFounded
<1>3. \A x, y \in Nat : <<y, x>> \notin Less => x <= y
  OBVIOUS
<1> HIDE DEF Less
<1>4. PICK x \in T : \A y \in T : ~(<<y, x>> \in Less)
  BY <1>2, WFMin
<1>5. x \in Nat /\ \A y \in T : y \in Nat
  BY <1>4
<1> QED
  BY <1>3, <1>4, <1>5

\* What the items of a canonical map are.
LEMMA CanonicalFacts ==
    ASSUME NEW m \in Seq(Item), Canonical(m)
    PROVE  /\ DOMAIN m = 1..Len(m) /\ Len(m) \in Nat
           /\ \A i \in 1..Len(m) :
                 /\ m[i].start \in Nat /\ m[i].end \in Nat /\ m[i].start < m[i].end
                 /\ m[i].flags \in FlagSet /\ m[i].flags /= "none"
                 /\ m[i] = [start |-> m[i].start, end |-> m[i].end, flags |-> m[i].flags]
                 /\ \A a \in Nat : m[i].start <= a /\ a < m[i].end => FlagsAt(a) = m[i].flags
<1>1. DOMAIN m = 1..Len(m) /\ Len(m) \in Nat
  OBVIOUS
<1>2. ASSUME NEW i \in 1..Len(m)
      PROVE  m[i] \in Item /\ m[i].start < m[i].end
  BY <1>1 DEF Canonical
<1>3. ASSUME NEW x \in Item
      PROVE  /\ x.start \in Nat /\ x.end \in Nat
             /\ x.flags \in FlagSet /\ x.flags /= "none"
             /\ x = [start |-> x.start, end |-> x.end, flags |-> x.flags]
  BY DEF Item, FlagSet
<1>4. ASSUME NEW i \in 1..Len(m), NEW a \in Nat, m[i].start <= a, a < m[i].end
      PROVE  FlagsAt(a) = m[i].flags
  <2>1. m[i].start \in Nat /\ m[i].end \in Nat
    BY <1>2, <1>3
  <2>2. a \in m[i].start..(m[i].end - 1)
    BY <1>4, <2>1
  <2> QED
    BY <1>1, <2>2 DEF Canonical, Truthful
<1> QED
  BY <1>1, <1>2, <1>3, <1>4

\* Below an item that two maps do not share, a map has what the other one has:
\* an address the first calls something lies in an item of the second that is
\* no earlier.
LEMMA NextItem ==
    ASSUME NEW m \in Seq(Item), Canonical(m), NEW i \in Nat \ {0}, NEW a \in Nat,
           FlagsAt(a) /= "none",
           \A k \in 1..(i - 1) : k \in 1..Len(m) /\ m[k].end <= a
    PROVE  i \in 1..Len(m) /\ m[i].start <= a
<1>1. /\ DOMAIN m = 1..Len(m) /\ Len(m) \in Nat
      /\ \A k \in 1..Len(m) : m[k].start \in Nat /\ m[k].end \in Nat /\ m[k].start < m[k].end
  BY CanonicalFacts
<1>2. PICK j \in 1..Len(m) : m[j].start <= a /\ a < m[j].end
  BY <1>1 DEF Canonical, Has
<1>3. j >= i
  <2> SUFFICES ASSUME j < i PROVE FALSE
    BY <1>1
  <2>1. j \in 1..(i - 1)
    BY <1>1
  <2> QED
    BY <1>1, <1>2, <2>1
<1>4. i \in 1..Len(m)
  BY <1>1, <1>3
<1>5. i = j \/ m[i].end <= m[j].start
  <2>1. \A x, y \in 1..Len(m) : x < y => m[x].end <= m[y].start
    BY <1>1 DEF Canonical, Ordered
  <2>2. i = j \/ i < j
    BY <1>2, <1>3, <1>4
  <2> QED
    BY <1>2, <1>4, <2>1, <2>2
<1> QED
  BY <1>1, <1>2, <1>4, <1>5

\* An item ends no later than the same item of the other map.
LEMMA SameEnd ==
    ASSUME NEW m \in Seq(Item), Canonical(m), NEW i \in 1..Len(m),
           NEW x \in Item, x.start = m[i].start, x.start < x.end,
           \A a \in Nat : x.start <= a /\ a < x.end => FlagsAt(a) = x.flags
    PROVE  x.end <= m[i].end /\ x.flags = m[i].flags
<1>1. /\ DOMAIN m = 1..Len(m) /\ Len(m) \in Nat
      /\ \A k \in 1..Len(m) :
            /\ m[k].start \in Nat /\ m[k].end \in Nat /\ m[k].start < m[k].end
            /\ m[k].flags /= "none"
            /\ \A a \in Nat : m[k].start <= a /\ a < m[k].end => FlagsAt(a) = m[k].flags
  BY CanonicalFacts
<1>2. x.start \in Nat /\ x.end \in Nat /\ i \in Nat \ {0}
  BY <1>1 DEF Item
<1>3. x.flags = m[i].flags
  <2>1. FlagsAt(x.start) = x.flags
    BY <1>2
  <2>2. FlagsAt(m[i].start) = m[i].flags
    BY <1>1
  <2> QED
    BY <2>1, <2>2
<1>4. x.end <= m[i].end
  <2> SUFFICES ASSUME m[i].end < x.end PROVE FALSE
    BY <1>1, <1>2
  <2> DEFINE e == m[i].end
  <2>1. e \in Nat /\ x.start <= e /\ e < x.end
    BY <1>1
  <2>2. FlagsAt(e) = m[i].flags /\ m[i].flags /= "none"
    BY <1>1, <1>3, <2>1
  <2>3. i + 1 \in Nat \ {0} /\ (i + 1) - 1 = i
    BY <1>2
  <2>4. \A k \in 1..i : k \in 1..Len(m) /\ m[k].end <= e
    <3> TAKE k \in 1..i
    <3>1. k \in 1..Len(m) /\ (k = i \/ k < i)
      BY <1>1, <1>2
    <3>2. k = i \/ m[k].end <= m[i].start
      BY <1>1, <3>1 DEF Canonical, Ordered
    <3> QED
      BY <1>1, <3>1, <3>2
  <2>5. i + 1 \in 1..Len(m) /\ m[i + 1].start <= e
    BY <2>1, <2>2, <2>3, <2>4, NextItem
  <2>6. m[i + 1].start = e
    <3>1. m[i].end <= m[i + 1].start
      BY <1>1, <2>5 DEF Canonical, Ordered
    <3> QED
      BY <1>1, <2>1, <2>5, <3>1
  <2>7. FlagsAt(e) = m[i + 1].flags
    <3>1. m[i + 1].start \in Nat /\ m[i + 1].start < m[i + 1].end
      BY <1>1, <2>5
    <3> QED
      BY <1>1, <2>5, <2>6, <3>1
  <2>8. m[i].flags /= m[i + 1].flags
    BY <1>1, <2>5, <2>6 DEF Canonical, Merged
  <2> QED
    BY <2>2, <2>7, <2>8
<1> QED
  BY <1>3, <1>4

\* Two maps that tell the same of every address, each with as few items as
\* possible, are the same: the first item they do not share would have to
\* begin at the same address, with the same flags, and end at the same one.
LEMMA CanonicalUnique ==
    ASSUME NEW m \in Seq(Item), Canonical(m), NEW w \in Seq(Item), Canonical(w)
    PROVE  m = w
<1> DEFINE Both(i) == i \in 1..Len(m) /\ i \in 1..Len(w) /\ m[i] = w[i]
           Odd == {i \in 1..Len(m) \union 1..Len(w) : ~Both(i)}
<1>1. /\ DOMAIN m = 1..Len(m) /\ Len(m) \in Nat
      /\ \A i \in 1..Len(m) :
            /\ m[i].start \in Nat /\ m[i].end \in Nat /\ m[i].start < m[i].end
            /\ m[i].flags /= "none" /\ m[i] \in Item
            /\ m[i] = [start |-> m[i].start, end |-> m[i].end, flags |-> m[i].flags]
            /\ \A a \in Nat : m[i].start <= a /\ a < m[i].end => FlagsAt(a) = m[i].flags
  BY CanonicalFacts
<1>2. /\ DOMAIN w = 1..Len(w) /\ Len(w) \in Nat
      /\ \A i \in 1..Len(w) :
            /\ w[i].start \in Nat /\ w[i].end \in Nat /\ w[i].start < w[i].end
            /\ w[i].flags /= "none" /\ w[i] \in Item
            /\ w[i] = [start |-> w[i].start, end |-> w[i].end, flags |-> w[i].flags]
            /\ \A a \in Nat : w[i].start <= a /\ a < w[i].end => FlagsAt(a) = w[i].flags
  BY CanonicalFacts
<1>3. Odd = {}
  <2> SUFFICES ASSUME Odd /= {} PROVE FALSE
    OBVIOUS
  <2>1. Odd \in SUBSET Nat
    BY <1>1, <1>2
  <2>2. PICK i \in Odd : \A j \in Odd : i <= j
    BY <2>1, LeastElement
  <2>3. i \in Nat \ {0} /\ ~Both(i)
    BY <1>1, <1>2
  <2>4. \A k \in 1..(i - 1) : Both(k)
    <3> SUFFICES ASSUME NEW k \in 1..(i - 1), ~Both(k) PROVE FALSE
      OBVIOUS
    <3>1. k \in 1..Len(m) \union 1..Len(w) /\ k < i
      BY <1>1, <1>2, <2>3
    <3>2. k \in Odd
      BY <3>1
    <3> QED
      BY <2>2, <2>3, <3>1, <3>2
  <2> HIDE DEF Odd
  <2>5. ASSUME i \in 1..Len(m)
        PROVE  i \in 1..Len(w) /\ w[i].start <= m[i].start
    <3>1. m[i].start \in Nat /\ FlagsAt(m[i].start) /= "none"
      BY <1>1, <2>5
    <3>2. \A k \in 1..(i - 1) : k \in 1..Len(w) /\ w[k].end <= m[i].start
      <4> TAKE k \in 1..(i - 1)
      <4>1. k \in 1..Len(w) /\ k \in 1..Len(m) /\ m[k] = w[k] /\ k < i
        BY <2>3, <2>4
      <4>2. m[k].end <= m[i].start
        BY <1>1, <2>5, <4>1 DEF Canonical, Ordered
      <4> QED
        BY <4>1, <4>2
    <3> QED
      BY <2>3, <3>1, <3>2, NextItem
  <2>6. ASSUME i \in 1..Len(w)
        PROVE  i \in 1..Len(m) /\ m[i].start <= w[i].start
    <3>1. w[i].start \in Nat /\ FlagsAt(w[i].start) /= "none"
      BY <1>2, <2>6
    <3>2. \A k \in 1..(i - 1) : k \in 1..Len(m) /\ m[k].end <= w[i].start
      <4> TAKE k \in 1..(i - 1)
      <4>1. k \in 1..Len(w) /\ k \in 1..Len(m) /\ m[k] = w[k] /\ k < i
        BY <2>3, <2>4
      <4>2. w[k].end <= w[i].start
        BY <1>2, <2>6, <4>1 DEF Canonical, Ordered
      <4> QED
        BY <4>1, <4>2
    <3> QED
      BY <2>3, <3>1, <3>2, NextItem
  <2>7. i \in 1..Len(m) /\ i \in 1..Len(w)
    BY <2>2, <2>5, <2>6 DEF Odd
  <2>8. m[i].start = w[i].start
    BY <1>1, <1>2, <2>5, <2>6, <2>7
  <2>9. w[i].end <= m[i].end /\ w[i].flags = m[i].flags
    BY <1>2, <2>7, <2>8, SameEnd
  <2>10. m[i].end <= w[i].end
    BY <1>1, <2>7, <2>8, SameEnd
  <2>11. m[i] = w[i]
    BY <1>1, <1>2, <2>7, <2>8, <2>9, <2>10
  <2> QED
    BY <2>3, <2>7, <2>11
<1>4. \A i \in 1..Len(m) \union 1..Len(w) : Both(i)
  BY <1>3
<1>5. Len(m) = Len(w) /\ \A i \in 1..Len(m) : m[i] = w[i]
  <2>1. \A i \in 1..Len(m) : i \in 1..Len(w)
    BY <1>4
  <2>2. \A i \in 1..Len(w) : i \in 1..Len(m)
    BY <1>4
  <2>3. Len(m) <= Len(w)
    <3>1. Len(m) = 0 \/ Len(m) \in 1..Len(m)
      BY <1>1
    <3> QED
      BY <1>1, <1>2, <2>1, <3>1
  <2>4. Len(w) <= Len(m)
    <3>1. Len(w) = 0 \/ Len(w) \in 1..Len(w)
      BY <1>2
    <3> QED
      BY <1>1, <1>2, <2>2, <3>1
  <2>5. \A i \in 1..Len(m) : m[i] = w[i]
    BY <1>4
  <2>6. Len(m) \in Nat /\ Len(w) \in Nat
    BY <1>1, <1>2
  <2>7. Len(m) = Len(w)
    BY <2>3, <2>4, <2>6
  <2> QED
    BY <2>5, <2>7
<1> QED
  BY <1>1, <1>2, <1>5

(***************************************************************************)
(* The steps of rk356x_build_mem_map                                       *)
(***************************************************************************)
\* While a map is built, the ranges and so the flags stay the same.
LEMMA SameRanges ==
    ASSUME banks' = banks, payload_end' = payload_end
    PROVE  /\ Ranges' = Ranges
           /\ \A a : FlagsAt(a)' = FlagsAt(a)
<1>1. Reserved' = Reserved
  BY DEF Reserved
<1>2. Ranges' = Ranges
  BY <1>1 DEF Ranges
<1>3. \A a : FlagsAt(a)' = FlagsAt(a)
  BY <1>1 DEF FlagsAt
<1> QED
  BY <1>2, <1>3

LEMMA InitInv == MapInit => MapInv
<1> SUFFICES ASSUME MapInit
             PROVE  MapInv
  OBVIOUS
<1>1. banks \in BankLists
  BY AddressAssumption DEF MapInit, BankLists
<1>2. MapTypes
  BY <1>1, AddressAssumption DEF MapInit, MapTypes
<1> QED
  BY <1>2 DEF MapInit, MapInv, TableInv, IntervalsInv, DoneInv

\* A new call starts with an empty table.
LEMMA BeginMapInv ==
    ASSUME NEW list \in BankLists, NEW end \in Nat, BeginMap(list, end)
    PROVE  MapInv'
<1>1. MapTypes'
  BY DEF BeginMap, MapTypes
<1>2. TableInv'
  <2>1. Len(list) \in Nat
    BY DEF BankLists
  <2>2. n' \in 1..(Len(banks') + 7) /\ Len(boundaries') <= 2 * (n' - 1) /\ map' = <<>>
    BY <2>1 DEF BeginMap
  <2>3. Sorted(boundaries')
    BY DEF BeginMap, Sorted
  <2>4. EdgesKnown(boundaries, n - 1)'
    BY DEF BeginMap, EdgesKnown
  <2> QED
    BY <2>2, <2>3, <2>4 DEF TableInv, Sorted
<1> QED
  BY <1>1, <1>2 DEF BeginMap, MapInv, IntervalsInv, DoneInv

\* A turn of the loops that fill the table adds two edges, for which there is
\* always room.
LEMMA AddRangeInv ==
    ASSUME MapInv, AddRange
    PROVE  MapInv'
<1> DEFINE table == add_boundary(boundaries, Ranges[n].start)
           new == add_boundary(table, Ranges[n].end)
<1>1. /\ MapTypes /\ stage = "boundaries" /\ n \in 1..(Len(banks) + 6)
      /\ Sorted(boundaries) /\ EdgesKnown(boundaries, n - 1)
      /\ Len(boundaries) <= 2 * (n - 1) /\ boundaries \in Seq(Nat) /\ map = <<>>
      /\ Len(banks) \in Nat /\ Len(banks) <= MaxBanks
  <2>1. MapTypes /\ TableInv /\ stage = "boundaries" /\ n <= Len(Ranges)
    BY DEF MapInv, AddRange
  <2>2. /\ Len(Ranges) = Len(banks) + 6 /\ Len(banks) \in Nat /\ Len(banks) <= MaxBanks
    BY <2>1, RangeFacts, Zenon
  <2>3. /\ n \in 1..(Len(banks) + 7) /\ Sorted(boundaries) /\ EdgesKnown(boundaries, n - 1)
        /\ Len(boundaries) <= 2 * (n - 1) /\ map = <<>>
    BY <2>1, Zenon DEF TableInv
  <2> QED
    BY <2>1, <2>2, <2>3 DEF MapTypes
<1>2. Ranges[n].start \in Nat /\ Ranges[n].end \in Nat
  BY <1>1, RangeFacts
<1>3. /\ table \in Seq(Nat) /\ Sorted(table) /\ Len(table) <= Len(boundaries) + 1
      /\ Known(table, Ranges[n].start)
      /\ \A x : Known(boundaries, x) => Known(table, x)
  BY <1>1, <1>2, AddBoundary
<1> HIDE DEF table
<1>4. /\ new \in Seq(Nat) /\ Sorted(new) /\ Len(new) <= Len(table) + 1
      /\ Known(new, Ranges[n].end)
      /\ \A x : Known(table, x) => Known(new, x)
  BY <1>2, <1>3, AddBoundary
<1> HIDE DEF new
<1>5. Len(boundaries) \in Nat /\ Len(table) \in Nat /\ Len(new) \in Nat /\ MaxBanks \in Nat
  <2>1. \A x \in Seq(Nat) : Len(x) \in Nat
    OBVIOUS
  <2> QED
    BY <1>1, <1>3, <1>4, <2>1, AddressAssumption
<1>6. ~Full(boundaries, Ranges[n].start) /\ ~Full(table, Ranges[n].end)
  BY <1>1, <1>3, <1>5 DEF Full, MaxBoundaries
<1>7. /\ boundaries' = new /\ stage' = "boundaries" /\ n' = n + 1
      /\ UNCHANGED <<banks, payload_end, map>>
  BY <1>1, <1>6 DEF AddRange, table, new
<1>8. EdgesKnown(new, n)
  <2> SUFFICES ASSUME NEW k \in 1..n
               PROVE  Known(new, Ranges[k].start) /\ Known(new, Ranges[k].end)
    BY DEF EdgesKnown
  <2>1. CASE k = n
    BY <1>3, <1>4, <2>1
  <2>2. CASE k \in 1..(n - 1)
    BY <1>1, <1>3, <1>4, <2>2 DEF EdgesKnown
  <2> QED
    BY <1>1, <2>1, <2>2
<1>9. Ranges' = Ranges
  BY <1>7, SameRanges
<1>10. EdgesKnown(boundaries, n - 1)'
  <2>1. n' - 1 = n
    BY <1>1, <1>7
  <2> QED
    BY <1>7, <1>8, <1>9, <2>1 DEF EdgesKnown
<1>11. TableInv'
  <2>1. /\ n' \in 1..(Len(banks') + 7) /\ Len(boundaries') <= 2 * (n' - 1)
        /\ map' = <<>>
    BY <1>1, <1>3, <1>4, <1>5, <1>7
  <2>2. Sorted(boundaries)'
    BY <1>4, <1>7 DEF Sorted
  <2> QED
    BY <1>10, <2>1, <2>2 DEF TableInv
<1>12. MapTypes'
  BY <1>1, <1>4, <1>7 DEF MapTypes
<1> QED
  BY <1>7, <1>11, <1>12 DEF MapInv, IntervalsInv, DoneInv

\* Two entries of a sorted table, without its definition
LEMMA SortedTwo ==
    ASSUME NEW t \in Seq(Nat), Sorted(t), NEW i \in 1..Len(t), NEW j \in 1..Len(t), i < j
    PROVE  t[i] < t[j] /\ t[i] \in Nat /\ t[j] \in Nat
<1>1. i \in DOMAIN t /\ j \in DOMAIN t
  OBVIOUS
<1> QED
  BY <1>1 DEF Sorted

\* The complete table, below whose first edge there is nothing
LEMMA TableReadyInv ==
    ASSUME MapInv, TableReady
    PROVE  MapInv'
<1>1. /\ MapTypes /\ stage = "boundaries" /\ n = Len(banks) + 7
      /\ Sorted(boundaries) /\ EdgesKnown(boundaries, Len(banks) + 6)
      /\ Len(boundaries) <= 2 * (Len(banks) + 6) /\ boundaries \in Seq(Nat)
      /\ Len(banks) \in Nat /\ Len(banks) <= MaxBanks /\ map = <<>>
  <2>1. MapTypes /\ TableInv /\ stage = "boundaries" /\ n > Len(Ranges)
    BY DEF MapInv, TableReady
  <2>2. Len(Ranges) = Len(banks) + 6 /\ Len(banks) \in Nat
    BY <2>1, RangeFacts
  <2>3. n = Len(banks) + 7
    BY <2>1, <2>2 DEF TableInv
  <2> QED
    <3>1. EdgesKnown(boundaries, n - 1) /\ n - 1 = Len(banks) + 6
      BY <2>1, <2>2, <2>3 DEF TableInv
    <3>2. EdgesKnown(boundaries, Len(banks) + 6)
      BY <3>1
    <3>3. Len(boundaries) <= 2 * (Len(banks) + 6)
      BY <2>1, <3>1 DEF TableInv
    <3> QED
      BY <2>1, <2>2, <2>3, <3>2, <3>3, RangeFacts DEF TableInv, MapTypes
<1>2. /\ stage' = "intervals" /\ n' = 1
      /\ UNCHANGED <<banks, payload_end, boundaries, map>>
  BY DEF TableReady
<1>3. Len(boundaries) \in Nat /\ DOMAIN boundaries = 1..Len(boundaries)
  BY <1>1
<1>4. 1 \in 1..Len(boundaries) /\ boundaries[1] \in Nat
  <2>1. 1 \in 1..(Len(banks) + 6)
    BY <1>1
  <2>2. DOMAIN boundaries /= {}
    BY <1>1, <2>1 DEF EdgesKnown, Known
  <2> QED
    BY <1>1, <1>3, <2>2
<1>5. FaithfulBelow(map, boundaries[1])
  <2>1. DOMAIN map = {}
    BY <1>1
  <2>2. ASSUME NEW a \in Nat, a < boundaries[1]
        PROVE  FlagsAt(a) = "none"
    <3>1. \A k \in DOMAIN boundaries : boundaries[k] > a
      <4> TAKE k \in DOMAIN boundaries
      <4>1. k \in 1..Len(boundaries) /\ boundaries[k] \in Nat
        BY <1>1, <1>3
      <4>2. k = 1 \/ boundaries[1] < boundaries[k]
        <5>1. k \in Nat /\ (k = 1 \/ 1 < k)
          BY <1>3, <4>1
        <5> QED
          BY <1>1, <1>4, <4>1, <5>1, SortedTwo
      <4> QED
        BY <1>4, <2>2, <4>1, <4>2
    <3> QED
      BY <1>1, <3>1, NothingOutside
  <2> QED
    BY <2>1, <2>2 DEF FaithfulBelow, Ordered, Truthful, Merged
<1>6. FaithfulBelow(map, boundaries[n])'
  BY <1>2, <1>5, SameRanges DEF FaithfulBelow, Ordered, Truthful, Merged, Has
<1>7. EdgesKnown(boundaries, Len(banks) + 6)'
  BY <1>1, <1>2, SameRanges DEF EdgesKnown
<1>8. IntervalsInv'
  <2>1. Sorted(boundaries)'
    BY <1>1, <1>2 DEF Sorted
  <2>2. Len(boundaries') <= MaxBoundaries
    BY <1>1, <1>2, <1>3, AddressAssumption DEF MaxBoundaries
  <2>3. n' \in 1..Len(boundaries') /\ Len(map') <= n' - 1
    BY <1>1, <1>2, <1>4
  <2> QED
    BY <1>6, <1>7, <2>1, <2>2, <2>3 DEF IntervalsInv, MaxBoundaries
<1>9. MapTypes'
  BY <1>1, <1>2 DEF MapTypes
<1> QED
  BY <1>2, <1>8, <1>9 DEF MapInv, TableInv, DoneInv

\* A turn of the second loop: the flags of an interval
LEMMA MapIntervalInv ==
    ASSUME MapInv, MapInterval
    PROVE  MapInv'
<1> DEFINE s == boundaries[n]
           e == boundaries[n + 1]
           f == Flags(s, e)
<1>1. /\ MapTypes /\ stage = "intervals" /\ n \in 1..Len(boundaries) /\ n < Len(boundaries)
      /\ Sorted(boundaries) /\ EdgesKnown(boundaries, Len(banks) + 6)
      /\ Len(boundaries) <= MaxBoundaries /\ Len(map) <= n - 1
      /\ FaithfulBelow(map, s)
      /\ boundaries \in Seq(Nat) /\ map \in Seq(Item)
  BY DEF MapInv, MapTypes, IntervalsInv, MapInterval
<1>2. /\ stage' = "intervals" /\ n' = n + 1
      /\ UNCHANGED <<banks, payload_end, boundaries>>
      /\ map' = IF f = "none" THEN map ELSE map_add(map, s, e, f)
  BY <1>1 DEF MapInterval
<1>3. /\ Len(boundaries) \in Nat /\ DOMAIN boundaries = 1..Len(boundaries)
      /\ Len(map) \in Nat /\ n + 1 \in 1..Len(boundaries)
  BY <1>1
<1>4. s \in Nat /\ e \in Nat /\ s < e
  <2>1. n \in Nat /\ n < n + 1
    BY <1>1, <1>3
  <2> QED
    BY <1>1, <1>3, <2>1, SortedTwo
<1>5. Gap(s, e)
  <2> SUFFICES ASSUME NEW k \in 1..Len(boundaries)
               PROVE  boundaries[k] <= s \/ boundaries[k] >= e
    BY <1>3 DEF Gap
  <2>1. boundaries[k] \in Nat
    BY <1>1
  <2>2. CASE k < n
    <3>1. k \in DOMAIN boundaries /\ n \in DOMAIN boundaries
      BY <1>1, <1>3
    <3>2. boundaries[k] < boundaries[n]
      BY <1>1, <2>2, <3>1 DEF Sorted
    <3> QED
      BY <1>4, <2>1, <3>2
  <2>3. CASE k = n \/ k = n + 1
    BY <1>4, <2>3
  <2>4. CASE k > n + 1
    <3>1. k \in DOMAIN boundaries /\ n + 1 \in DOMAIN boundaries /\ n + 1 < k
      BY <1>1, <1>3, <2>4
    <3>2. boundaries[n + 1] < boundaries[k]
      BY <1>1, <3>1 DEF Sorted
    <3> QED
      BY <1>4, <2>1, <3>2
  <2> QED
    BY <1>1, <2>2, <2>3, <2>4
<1>6. \A a \in s..(e - 1) : FlagsAt(a) = f
  <2> TAKE a \in s..(e - 1)
  <2>1. a \in Nat /\ s <= a /\ a < e
    BY <1>4
  <2> HIDE DEF s, e
  <2>2. Flags(s, e) = FlagsAt(a)
    BY <1>1, <1>4, <1>5, <2>1, FlagsOfInterval, Zenon
  <2> QED
    BY <2>2 DEF f
<1>7. f \in FlagSet \union {"none"}
  BY <1>1, <1>4, FlagsType
<1>8. Len(map) < MaxMapItems
  <2>1. MaxBanks \in Nat /\ MaxMapItems \in Nat
    BY AddressAssumption, MapAssumption
  <2> QED
    BY <1>1, <1>3, <2>1, MapAssumption DEF MaxBoundaries
<1> HIDE DEF s, e, f
<1>9. map' \in Seq(Item) /\ Len(map') <= Len(map) + 1 /\ FaithfulBelow(map', e)
  <2>1. CASE f = "none"
    BY <1>1, <1>2, <1>3, <1>4, <1>6, <2>1, SkipInterval
  <2>2. CASE f /= "none"
    BY <1>1, <1>2, <1>4, <1>6, <1>7, <1>8, <2>2, AddInterval
  <2> QED
    BY <2>1, <2>2
<1>10. FaithfulBelow(map, boundaries[n])'
  <2>1. boundaries[n]' = e
    BY <1>2 DEF e
  <2> QED
    BY <1>2, <1>9, <2>1, SameRanges DEF FaithfulBelow, Ordered, Truthful, Merged, Has
<1>11. IntervalsInv'
  <2>1. Sorted(boundaries)'
    BY <1>1, <1>2 DEF Sorted
  <2>2. EdgesKnown(boundaries, Len(banks) + 6)'
    BY <1>1, <1>2, SameRanges DEF EdgesKnown
  <2>3. n' \in 1..Len(boundaries') /\ Len(map') <= n' - 1
    <3>1. Len(map') \in Nat
      BY <1>9
    <3> QED
      BY <1>1, <1>2, <1>3, <1>9, <3>1
  <2> QED
    BY <1>1, <1>2, <1>10, <2>1, <2>2, <2>3 DEF IntervalsInv, MaxBoundaries
<1>12. MapTypes'
  BY <1>1, <1>2, <1>3, <1>9 DEF MapTypes
<1> QED
  BY <1>2, <1>11, <1>12 DEF MapInv, TableInv, DoneInv

\* The end of the table, above whose last edge there is nothing
LEMMA MapReadyInv ==
    ASSUME MapInv, MapReady
    PROVE  MapInv'
<1>1. /\ MapTypes /\ stage = "intervals" /\ n = Len(boundaries)
      /\ n \in 1..Len(boundaries)
      /\ Sorted(boundaries) /\ EdgesKnown(boundaries, Len(banks) + 6)
      /\ FaithfulBelow(map, boundaries[n]) /\ boundaries \in Seq(Nat)
  BY DEF MapInv, MapTypes, IntervalsInv, MapReady
<1>2. stage' = "done" /\ UNCHANGED <<banks, payload_end, n, boundaries, map>>
  BY DEF MapReady
<1>3. ASSUME NEW a \in Nat, a >= boundaries[n]
      PROVE  FlagsAt(a) = "none"
  <2>1. \A k \in DOMAIN boundaries : boundaries[k] <= a
    <3> TAKE k \in DOMAIN boundaries
    <3>1. /\ k \in 1..Len(boundaries) /\ n \in DOMAIN boundaries
          /\ boundaries[k] \in Nat /\ boundaries[n] \in Nat
      BY <1>1
    <3>2. k = n \/ boundaries[k] < boundaries[n]
      BY <1>1, <3>1 DEF Sorted
    <3> QED
      BY <1>3, <3>1, <3>2
  <2> QED
    BY <1>1, <2>1, NothingOutside
<1>4. \A a \in Nat : FlagsAt(a) /= "none" => Has(map, a)
  <2> TAKE a \in Nat
  <2>1. boundaries[n] \in Nat
    BY <1>1
  <2> QED
    BY <1>1, <1>3, <2>1 DEF FaithfulBelow
<1>5. DoneInv'
  <2>1. /\ \A i \in DOMAIN map : map[i].start < map[i].end
        /\ Ordered(map) /\ Truthful(map) /\ Merged(map)
    BY <1>1 DEF FaithfulBelow
  <2> QED
    BY <1>2, <1>4, <2>1, SameRanges DEF DoneInv, Canonical, Ordered, Truthful, Merged, Has
<1>6. MapTypes'
  BY <1>1, <1>2 DEF MapTypes
<1> QED
  BY <1>2, <1>5, <1>6 DEF MapInv, TableInv, IntervalsInv

(***************************************************************************)
(* The theorem                                                             *)
(***************************************************************************)
LEMMA NextInv == MapInv /\ [MapNext]_mapVars => MapInv'
<1> SUFFICES ASSUME MapInv, [MapNext]_mapVars
             PROVE  MapInv'
  OBVIOUS
<1>1. CASE \E list \in BankLists, end \in Nat : BeginMap(list, end)
  BY <1>1, BeginMapInv
<1>2. CASE AddRange
  BY <1>2, AddRangeInv
<1>3. CASE TableReady
  BY <1>3, TableReadyInv
<1>4. CASE MapInterval
  BY <1>4, MapIntervalInv
<1>5. CASE MapReady
  BY <1>5, MapReadyInv
<1>6. CASE UNCHANGED mapVars
  <2>1. /\ banks' = banks /\ payload_end' = payload_end /\ stage' = stage
        /\ n' = n /\ boundaries' = boundaries /\ map' = map
    BY <1>6 DEF mapVars
  <2>2. MapTypes' /\ TableInv'
    BY <2>1, SameRanges DEF MapInv, MapTypes, TableInv, Sorted, EdgesKnown
  <2>3. IntervalsInv' /\ DoneInv'
    BY <2>1, SameRanges
    DEF MapInv, IntervalsInv, DoneInv, Sorted, EdgesKnown, FaithfulBelow, Canonical,
        Ordered, Truthful, Merged, Has, MaxBoundaries
  <2> QED
    BY <2>2, <2>3 DEF MapInv
<1> QED
  BY <1>1, <1>2, <1>3, <1>4, <1>5, <1>6 DEF MapNext, BuildMap

\* The invariant says more than the property.
LEMMA InvImpliesFaithful == MapInv => MapFaithful
<1> SUFFICES ASSUME MapInv, stage = "done"
             PROVE  /\ Ordered(map) /\ Truthful(map)
                    /\ \A a \in 0..AddrTop : FlagsAt(a) /= "none" => Has(map, a)
  BY DEF MapFaithful, Ordered, Truthful, Has
<1>1. 0..AddrTop \subseteq Nat
  BY MapAssumption
<1> QED
  BY <1>1 DEF MapInv, DoneInv, Canonical

\* Whatever banks and end of the payload rk356x_build_mem_map is called with,
\* the finished map is in order, true and complete.
THEOREM MapIsFaithful == MapSpec => []MapFaithful
BY InvImpliesFaithful, InitInv, NextInv, PTL DEF MapSpec
=============================================================================
