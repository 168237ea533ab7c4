--------------------- MODULE MCEliminationGraph_proofs ----------------------
(***************************************************************************)
(* What the engines generate, whatever the size of the field.              *)
(*                                                                         *)
(* The round robin is one.  First the deal: pass i gives group g the seed  *)
(* Dealt(groups, g, i), and this grows with i, so a group's list of seeds  *)
(* is that sequence and any two differ by one pass at most.  Then the      *)
(* circle: turning all but the first player has a closed form (Start), in  *)
(* which the two who meet in a round have first places that add up to a    *)
(* number that tells the rounds apart, since the number of those who move  *)
(* is odd; so nobody is met twice, and for any two that number names a     *)
(* round they meet in.                                                     *)
(*                                                                         *)
(* The elimination graph feeds every slot from one source.  Its matches    *)
(* are the places of each round (Place), a result leads from a place to a  *)
(* slot (Onward, Aside), and the way back is a function of the slot        *)
(* (Source); that the two are inverse to each other is all there is to it. *)
(* From there, an entrant's losses are told by where it stands (Walk); the *)
(* order of the seeds has each of them once, since the odd places have     *)
(* those of the field half the size and the even ones their reflections    *)
(* (Arranged); if the better of two always wins, round by round that order *)
(* is played backwards (Favourites); and the graph is one that a stage can *)
(* be played on, as BracketAdvance takes it to be (EnginesPlayable).       *)
(*                                                                         *)
(* Seating the groups of an earlier stage is dealing as well: to have most *)
(* seats left is to be next in turn (MostLeft), so the two of an opening   *)
(* match have turns that follow one another, and a group has a seat in     *)
(* each of as many rounds as there are tiers.                              *)
(***************************************************************************)
EXTENDS MCEliminationGraph, FiniteSetTheorems, FunctionTheorems, SequenceTheorems,
        NaturalsInduction, WellFoundedInduction, TLAPS

-----------------------------------------------------------------------------
(* Counting and dividing.                                                  *)

LEMMA DivMod ==
  ASSUME NEW a \in Nat, NEW b \in Nat, b > 0
  PROVE  /\ a \div b \in Nat /\ a % b \in 0..b - 1
         /\ a = (a \div b) * b + (a % b)
OBVIOUS

LEMMA DivIs ==
  ASSUME NEW a \in Nat, NEW b \in Nat, NEW c \in 0..b - 1
  PROVE  (a * b + c) \div b = a /\ (a * b + c) % b = c
OBVIOUS

LEMMA Larger ==
  ASSUME NEW a \in Nat, NEW b \in Nat, NEW c \in Nat, a < b
  PROVE  a * c + c <= b * c /\ a * c \in Nat /\ b * c \in Nat
OBVIOUS

(* The seed dealt to group g in pass i. *)
Dealt(groups, g, i) == (i - 1) * groups + (IF i % 2 = 1 THEN g ELSE groups + 1 - g)

(* It goes to that group.                                                  *)
LEMMA DealtIs ==
  ASSUME NEW groups \in Nat, NEW g \in 1..groups, NEW i \in Nat, i >= 1
  PROVE  /\ Dealt(groups, g, i) \in Nat
         /\ Dealt(groups, g, i) > (i - 1) * groups /\ Dealt(groups, g, i) <= i * groups
         /\ (i - 1) * groups \in Nat /\ i * groups \in Nat
         /\ GroupOf(groups, Dealt(groups, g, i)) = g
<1> DEFINE c == IF i % 2 = 1 THEN g - 1 ELSE groups - g
           p == (i - 1) * groups
<1>1. c \in 0..groups - 1 /\ groups > 0 /\ i - 1 \in Nat
  OBVIOUS
<1>2. p \in Nat /\ i * groups = p + groups
  OBVIOUS
<1>3. Dealt(groups, g, i) = p + c + 1
  BY <1>2 DEF Dealt
<1>0. PICK k \in Nat : k = i - 1
  BY <1>1
<1>4. Dealt(groups, g, i) - 1 = k * groups + c
  BY <1>0, <1>1, <1>2, <1>3
<1>a. (k * groups + c) \div groups = k /\ (k * groups + c) % groups = c
  <2> HIDE DEF c
  <2> QED
    BY <1>1, DivIs
<1>5. (Dealt(groups, g, i) - 1) \div groups = i - 1
        /\ (Dealt(groups, g, i) - 1) % groups = c
  BY <1>0, <1>4, <1>a
<1>6. GroupOf(groups, Dealt(groups, g, i)) = 1 + (IF (i - 1) % 2 = 0 THEN c ELSE groups - 1 - c)
  BY <1>5 DEF GroupOf
<1>7. GroupOf(groups, Dealt(groups, g, i)) = g
  BY <1>1, <1>6
<1> QED
  BY <1>1, <1>2, <1>3, <1>7

(* Every seed is dealt to its group in the pass it falls in.               *)
LEMMA DealtOf ==
  ASSUME NEW groups \in Nat, groups > 0, NEW s \in Nat, s >= 1
  PROVE  /\ GroupOf(groups, s) \in 1..groups
         /\ \E i \in Nat : i >= 1 /\ s = Dealt(groups, GroupOf(groups, s), i)
<1> DEFINE q == (s - 1) \div groups
           c == (s - 1) % groups
<1>1. s - 1 \in Nat /\ q \in Nat /\ c \in 0..groups - 1 /\ s - 1 = q * groups + c
  BY DivMod
<1>2. GroupOf(groups, s) = 1 + (IF q % 2 = 0 THEN c ELSE groups - 1 - c)
  BY DEF GroupOf
<1>3. PICK k \in Nat : k = q * groups
  BY <1>1
<1> HIDE DEF q, c
<1>4. GroupOf(groups, s) \in 1..groups
  BY <1>1, <1>2
<1>5. Dealt(groups, GroupOf(groups, s), q + 1) = k + (IF q % 2 = 0 THEN GroupOf(groups, s) ELSE groups + 1 - GroupOf(groups, s))
  <2>1. (q + 1) - 1 = q /\ ((q + 1) % 2 = 1 <=> q % 2 = 0)
    BY <1>1
  <2> QED
    BY <1>3, <2>1 DEF Dealt
<1>6. Dealt(groups, GroupOf(groups, s), q + 1) = k + c + 1
  BY <1>1, <1>2, <1>3, <1>5
<1>7. q + 1 \in Nat /\ q + 1 >= 1 /\ s = Dealt(groups, GroupOf(groups, s), q + 1)
  BY <1>1, <1>3, <1>6
<1> QED
  BY <1>4, <1>7

(* A later pass deals a later seed.                                        *)
LEMMA DealtGrow ==
  ASSUME NEW groups \in Nat, NEW g \in 1..groups, NEW h \in 1..groups,
         NEW i \in Nat, NEW j \in Nat, i >= 1, i < j
  PROVE  Dealt(groups, g, i) < Dealt(groups, h, j)
<1>1. Dealt(groups, g, i) <= i * groups /\ Dealt(groups, g, i) \in Nat /\ i * groups \in Nat
  BY DealtIs
<1>2. Dealt(groups, h, j) > (j - 1) * groups /\ Dealt(groups, h, j) \in Nat
        /\ (j - 1) * groups \in Nat
  BY DealtIs
<1>3. i * groups <= (j - 1) * groups
  OBVIOUS
<1> QED
  BY <1>1, <1>2, <1>3

LEMMA Interval == ASSUME NEW k \in Nat PROVE IsFiniteSet(1..k) /\ Cardinality(1..k) = k
<1>1. /\ IsFiniteSet(1..k)
      /\ Cardinality(1..k) = IF 1 > k THEN 0 ELSE k - 1 + 1
  BY FS_Interval
<1> QED
  BY <1>1

(* A list without repetitions has as many elements as places. *)
LEMMA Counted ==
  ASSUME NEW k \in Nat, NEW f, \A i, j \in 1..k : i # j => f[i] # f[j]
  PROVE  IsFiniteSet({f[i] : i \in 1..k}) /\ Cardinality({f[i] : i \in 1..k}) = k
<1> DEFINE T == {f[i] : i \in 1..k}
           h == [i \in 1..k |-> f[i]]
<1>1. h \in [1..k -> T] /\ (\A i, j \in 1..k : h[i] = h[j] => i = j)
        /\ \A t \in T : \E i \in 1..k : h[i] = t
  OBVIOUS
<1>2. h \in Bijection(1..k, T)
  <2> HIDE DEF h, T
  <2> QED
    BY <1>1 DEF Bijection, Injection, Surjection, IsInjective
<1>3. \E b : b \in Bijection(1..k, T)
  BY <1>2
<1>4. IsFiniteSet(1..k) /\ Cardinality(1..k) = k
  BY Interval
<1> HIDE DEF T
<1>5. IsFiniteSet(T) /\ Cardinality(T) = Cardinality(1..k)
  <2>1. ExistsBijection(1..k, T)
    BY <1>3 DEF ExistsBijection
  <2> QED
    BY <1>4, <2>1, FS_Bijection, Zenon
<1> QED
  BY <1>4, <1>5 DEF T

(* How many seeds a group is dealt. *)
LEMMA Passes ==
  ASSUME NEW n \in Nat, NEW groups \in 1..n, NEW g \in 1..groups
  PROVE  \E k \in Nat : k >= 1
           /\ \A i \in Nat : i >= 1 => (Dealt(groups, g, i) <= n <=> i <= k)
<1>1. groups \in Nat /\ groups > 0
  OBVIOUS
<1>2. PICK q \in Nat : q * groups <= n /\ n < q * groups + groups /\ q * groups \in Nat
  <2>1. n \div groups \in Nat /\ n % groups \in 0..groups - 1
          /\ n = (n \div groups) * groups + (n % groups)
    BY <1>1, DivMod
  <2>2. PICK q \in Nat : q = n \div groups
    BY <2>1
  <2>3. q * groups \in Nat
    BY <1>1
  <2>4. q * groups <= n /\ n < q * groups + groups
    BY <1>1, <2>1, <2>2, <2>3
  <2> QED
    BY <2>3, <2>4
<1>3. q >= 1
  <2>1. ASSUME q = 0 PROVE FALSE
    <3>1. q * groups = 0
      BY <1>1, <2>1
    <3> QED
      BY <1>2, <3>1
  <2> QED
    BY <2>1
<1>4. ASSUME NEW i \in Nat, i >= 1, i <= q PROVE Dealt(groups, g, i) <= n
  <2>1. Dealt(groups, g, i) \in Nat /\ Dealt(groups, g, i) <= i * groups
          /\ i * groups \in Nat
    BY <1>1, <1>4, DealtIs
  <2>2. i * groups <= q * groups
    BY <1>1, <1>4
  <2> QED
    BY <1>2, <2>1, <2>2
<1>5. ASSUME NEW i \in Nat, i >= q + 2 PROVE Dealt(groups, g, i) > n
  <2>1. Dealt(groups, g, i) \in Nat /\ Dealt(groups, g, i) > (i - 1) * groups
          /\ (i - 1) * groups \in Nat
    BY <1>1, <1>5, DealtIs
  <2>2. PICK k \in Nat : k = i - 1
    BY <1>5
  <2>3. q * groups + groups <= k * groups
    BY <1>1, <1>5, <2>2, Larger
  <2> QED
    BY <1>2, <2>1, <2>2, <2>3
<1>6. CASE Dealt(groups, g, q + 1) <= n
  <2>1. \A i \in Nat : i >= 1 => (Dealt(groups, g, i) <= n <=> i <= q + 1)
    <3> SUFFICES ASSUME NEW i \in Nat, i >= 1 PROVE Dealt(groups, g, i) <= n <=> i <= q + 1
      OBVIOUS
    <3>1. Dealt(groups, g, i) \in Nat
      BY <1>1, DealtIs
    <3>2. i <= q \/ i = q + 1 \/ i >= q + 2
      OBVIOUS
    <3> QED
      BY <1>4, <1>5, <1>6, <3>1, <3>2
  <2> QED
    BY <2>1
<1>7. CASE ~(Dealt(groups, g, q + 1) <= n)
  <2>1. \A i \in Nat : i >= 1 => (Dealt(groups, g, i) <= n <=> i <= q)
    <3> SUFFICES ASSUME NEW i \in Nat, i >= 1 PROVE Dealt(groups, g, i) <= n <=> i <= q
      OBVIOUS
    <3>1. Dealt(groups, g, i) \in Nat
      BY <1>1, DealtIs
    <3>2. i <= q \/ i = q + 1 \/ i >= q + 2
      OBVIOUS
    <3> QED
      BY <1>4, <1>5, <1>7, <3>1, <3>2
  <2> QED
    BY <1>3, <2>1
<1> QED
  BY <1>6, <1>7

(* The seeds of a group, in closed form. *)
LEMMA GroupSeedsAre ==
  ASSUME NEW n \in Nat, NEW groups \in 1..n, NEW g \in 1..groups
  PROVE  \E k \in Nat :
           /\ k >= 1 /\ \A i \in Nat : i >= 1 => (Dealt(groups, g, i) <= n <=> i <= k)
           /\ GroupSeeds(n, groups, g) = [i \in 1..k |-> Dealt(groups, g, i)]
<1>1. PICK k \in Nat : k >= 1
        /\ \A i \in Nat : i >= 1 => (Dealt(groups, g, i) <= n <=> i <= k)
  BY Passes
<1> DEFINE dealt == {s \in 1..n : GroupOf(groups, s) = g}
           f == [i \in 1..k |-> Dealt(groups, g, i)]
<1>0. groups \in Nat /\ groups > 0
  OBVIOUS
<1>2. \A i \in 1..k : f[i] \in Nat /\ f[i] >= 1 /\ f[i] <= n /\ GroupOf(groups, f[i]) = g
  <2> SUFFICES ASSUME NEW i \in 1..k
      PROVE f[i] \in Nat /\ f[i] >= 1 /\ f[i] <= n /\ GroupOf(groups, f[i]) = g
    OBVIOUS
  <2>1. f[i] = Dealt(groups, g, i) /\ i \in Nat /\ i >= 1 /\ i <= k
    OBVIOUS
  <2>2. (i - 1) * groups \in Nat /\ Dealt(groups, g, i) > (i - 1) * groups
          /\ Dealt(groups, g, i) \in Nat
        /\ GroupOf(groups, Dealt(groups, g, i)) = g
    BY <1>0, <2>1, DealtIs
  <2> QED
    BY <1>1, <2>1, <2>2
<1>3. \A i, j \in 1..k : i < j => f[i] < f[j]
  <2> SUFFICES ASSUME NEW i \in 1..k, NEW j \in 1..k, i < j PROVE f[i] < f[j]
    OBVIOUS
  <2> QED
    BY <1>0, DealtGrow
<1>4. dealt = {f[i] : i \in 1..k}
  <2>1. ASSUME NEW s \in dealt PROVE \E i \in 1..k : s = f[i]
    <3>1. s \in Nat /\ s >= 1 /\ s <= n /\ GroupOf(groups, s) = g
      BY <2>1
    <3>2. PICK i \in Nat : i >= 1 /\ s = Dealt(groups, g, i)
      BY <1>0, <3>1, DealtOf
    <3> QED
      BY <1>1, <3>1, <3>2
  <2>2. \A i \in 1..k : f[i] \in dealt
    <3> HIDE DEF f
    <3> QED
      BY <1>2
  <2> QED
    BY <2>1, <2>2
<1> HIDE DEF f
<1>5. \A i \in 1..k : Cardinality({t \in dealt : t < f[i]}) = i - 1
  <2> SUFFICES ASSUME NEW i \in 1..k PROVE Cardinality({t \in dealt : t < f[i]}) = i - 1
    OBVIOUS
  <2>1. {t \in dealt : t < f[i]} = {f[j] : j \in 1..i - 1}
    <3>1. \A j \in 1..k : f[j] < f[i] <=> j < i
      <4> SUFFICES ASSUME NEW j \in 1..k PROVE f[j] < f[i] <=> j < i
        OBVIOUS
      <4>1. j < i \/ j = i \/ i < j
        OBVIOUS
      <4> QED
        BY <1>2, <1>3, <4>1
    <3>2. \A j \in 1..i - 1 : j \in 1..k
      OBVIOUS
    <3> HIDE DEF dealt
    <3> QED
      BY <1>4, <3>1, <3>2
  <2>2. \A a, b \in 1..i - 1 : a # b => f[a] # f[b]
    <3> SUFFICES ASSUME NEW a \in 1..i - 1, NEW b \in 1..i - 1, a # b PROVE f[a] # f[b]
      OBVIOUS
    <3>1. a \in 1..k /\ b \in 1..k /\ (a < b \/ b < a)
      OBVIOUS
    <3> QED
      BY <1>2, <1>3, <3>1
  <2>3. PICK h \in Nat : h = i - 1
    OBVIOUS
  <2>4. Cardinality({f[j] : j \in 1..h}) = h
    BY <2>2, <2>3, Counted
  <2> QED
    BY <2>1, <2>3, <2>4
<1>6. Cardinality(dealt) = k
  <2>1. \A a, b \in 1..k : a # b => f[a] # f[b]
    <3> SUFFICES ASSUME NEW a \in 1..k, NEW b \in 1..k, a # b PROVE f[a] # f[b]
      OBVIOUS
    <3>1. a < b \/ b < a
      OBVIOUS
    <3> QED
      BY <1>2, <1>3, <3>1
  <2> QED
    BY <1>4, <2>1, Counted
<1>7. \A i \in 1..k : (CHOOSE s \in dealt : Cardinality({t \in dealt : t < s}) = i - 1) = f[i]
  <2> SUFFICES ASSUME NEW i \in 1..k
      PROVE (CHOOSE s \in dealt : Cardinality({t \in dealt : t < s}) = i - 1) = f[i]
    OBVIOUS
  <2> HIDE DEF dealt
  <2>1. f[i] \in dealt /\ Cardinality({t \in dealt : t < f[i]}) = i - 1
    BY <1>4, <1>5
  <2>2. ASSUME NEW s \in dealt, Cardinality({t \in dealt : t < s}) = i - 1 PROVE s = f[i]
    <3>1. PICK j \in 1..k : s = f[j]
      BY <1>4
    <3>2. j - 1 = i - 1
      BY <1>5, <2>2, <3>1
    <3> QED
      BY <3>1, <3>2
  <2> QED
    BY <2>1, <2>2
<1>8. GroupSeeds(n, groups, g) = [i \in 1..k |-> f[i]]
  <2>1. GroupSeeds(n, groups, g) = [i \in 1..Cardinality(dealt) |->
           CHOOSE s \in dealt : Cardinality({t \in dealt : t < s}) = i - 1]
    BY DEF GroupSeeds
  <2> HIDE DEF dealt
  <2> QED
    BY <1>6, <1>7, <2>1
<1>9. [i \in 1..k |-> f[i]] = [i \in 1..k |-> Dealt(groups, g, i)]
  BY DEF f
<1> QED
  BY <1>1, <1>8, <1>9

-----------------------------------------------------------------------------
(* The circle.                                                             *)

(* A set of numbers with a member has a least one.                         *)
LEMMA LeastNat ==
  ASSUME NEW T \in SUBSET Nat, T # {}
  PROVE  \E m \in T : \A k \in T : m <= k
<1>1. PICK R : IsWellFoundedOn(R, Nat) /\ \A x, y \in Nat : x < y => <<x, y>> \in R
  <2>1. IsWellFoundedOn(OpToRel(<, Nat), Nat)
    BY NatLessThanWellFounded
  <2>2. \A x, y \in Nat : x < y => <<x, y>> \in OpToRel(<, Nat)
    BY DEF OpToRel
  <2> QED
    BY <2>1, <2>2
<1>a. IsWellFoundedOn(R, Nat) /\ T \subseteq Nat /\ T # {}
  BY <1>1
<1>b. \E x \in T : \A y \in T : ~ (<<y, x>> \in R)
  BY <1>a, WFMin, Zenon
<1>2. PICK m \in T : \A y \in T : ~ (<<y, m>> \in R)
  BY <1>b
<1>3. ASSUME NEW k \in T PROVE m <= k
  <2>1. ~(k < m)
    BY <1>1, <1>2
  <2> QED
    BY <2>1
<1> QED
  BY <1>2, <1>3

(* Who stands in place i in round r stood here in the first. *)
Start(size, r, i) ==
  IF i = 1 THEN 1 ELSE IF i - (r - 1) >= 2 THEN i - (r - 1) ELSE i - (r - 1) + (size - 1)

(* A turn moves everybody but the first on by one, the last to second.     *)
LEMMA TurnIs ==
  ASSUME NEW c \in Seq(Nat), Len(c) >= 3
  PROVE  /\ Turn(c) \in Seq(Nat) /\ Len(Turn(c)) = Len(c)
         /\ \A i \in 1..Len(c) : Turn(c)[i]
              = IF i = 1 THEN c[1] ELSE IF i = 2 THEN c[Len(c)] ELSE c[i - 1]
<1>1. PICK n \in Nat : n = Len(c)
  OBVIOUS
<1>2. Tail(c) \in Seq(Nat) /\ Len(Tail(c)) = n - 1
        /\ \A i \in 1..n - 1 : Tail(c)[i] = c[i + 1]
  BY <1>1
<1>3. PICK t \in Seq(Nat) : t = Tail(c)
  BY <1>2
<1>4. Front(t) = SubSeq(t, 1, n - 2)
  BY <1>2, <1>3 DEF Front
<1>5. Front(t) \in Seq(Nat) /\ Len(Front(t)) = n - 2
        /\ \A i \in 1..n - 2 : Front(t)[i] = t[i]
  <2>1. \A i \in 1..n - 2 : t[i] \in Nat
    BY <1>1, <1>2, <1>3
  <2>2. PICK m \in Nat : m = n - 2
    BY <1>1
  <2>3. /\ SubSeq(t, 1, m) \in Seq(Nat)
        /\ Len(SubSeq(t, 1, m)) = IF 1 <= m THEN m - 1 + 1 ELSE 0
        /\ \A i \in 1..m - 1 + 1 : SubSeq(t, 1, m)[i] = t[1 + i - 1]
    BY <2>1, <2>2, SubSeqProperties
  <2>4. m >= 1 /\ m - 1 + 1 = m /\ \A i \in 1..m : 1 + i - 1 = i
    BY <1>1, <2>2
  <2> QED
    BY <1>4, <2>2, <2>3, <2>4
<1>6. PICK f \in Seq(Nat) : f = Front(t)
  BY <1>5
<1>7. PICK a, b \in Nat : a = c[1] /\ b = c[Len(c)]
  OBVIOUS
<1>8. Turn(c) = <<a, b>> \o f
  BY <1>3, <1>6, <1>7 DEF Turn, Last
<1>9. Len(f) = n - 2 /\ \A i \in 1..n - 2 : f[i] = c[i + 1]
  BY <1>1, <1>2, <1>3, <1>5, <1>6
<1>0. <<a, b>> \in Seq(Nat) /\ Len(<<a, b>>) = 2 /\ <<a, b>>[1] = a /\ <<a, b>>[2] = b
  OBVIOUS
<1>10. PICK d \in Seq(Nat) : d = <<a, b>>
  BY <1>0
<1>11. Len(d) = 2 /\ d[1] = a /\ d[2] = b
  BY <1>0, <1>10
<1>12. /\ d \o f \in Seq(Nat) /\ Len(d \o f) = n
       /\ \A i \in 1..n : (d \o f)[i] = IF i <= 2 THEN d[i] ELSE f[i - 2]
  <2>1. /\ d \o f \in Seq(Nat) /\ Len(d \o f) = Len(d) + Len(f)
        /\ \A i \in 1..Len(d) + Len(f) : (d \o f)[i]
             = IF i <= Len(d) THEN d[i] ELSE f[i - Len(d)]
    BY ConcatProperties
  <2>2. Len(d) = 2 /\ Len(f) = n - 2 /\ 2 + (n - 2) = n
    BY <1>1, <1>9, <1>11
  <2> QED
    BY <2>1, <2>2
<1>13. PICK T \in Seq(Nat) : T = d \o f
  BY <1>12
<1>14. T = Turn(c)
  BY <1>8, <1>10, <1>13
<1>15. \A i \in 1..n : T[i] = IF i = 1 THEN a ELSE IF i = 2 THEN b ELSE c[i - 1]
  <2> SUFFICES ASSUME NEW i \in 1..n
      PROVE T[i] = IF i = 1 THEN a ELSE IF i = 2 THEN b ELSE c[i - 1]
    OBVIOUS
  <2>1. T[i] = IF i <= 2 THEN d[i] ELSE f[i - 2]
    BY <1>12, <1>13
  <2>2. CASE i <= 2
    <3>1. i = 1 \/ i = 2
      BY <2>2
    <3> QED
      BY <1>11, <2>1, <2>2, <3>1
  <2>3. CASE i > 2
    <3>1. i - 2 \in 1..n - 2 /\ (i - 2) + 1 = i - 1
      BY <1>1, <2>3
    <3>2. f[i - 2] = c[(i - 2) + 1]
      BY <1>9, <3>1
    <3> QED
      BY <2>1, <2>3, <3>1, <3>2
  <2> QED
    BY <2>2, <2>3
<1> QED
  BY <1>1, <1>7, <1>12, <1>13, <1>14, <1>15

LEMMA StartIn ==
  ASSUME NEW size \in Nat, NEW r \in 1..size - 1, NEW i \in 1..size
  PROVE  Start(size, r, i) \in 1..size /\ (Start(size, r, i) = 1 <=> i = 1)
BY DEF Start

(* Who stands where in round r, in closed form: otherwise there would be a *)
(* first round in which somebody stood elsewhere, a turn after one in      *)
(* which nobody did.                                                       *)
LEMMA ArrangementsAre ==
  ASSUME NEW c \in Seq(Nat)
  PROVE  \A r \in 1..Len(c) - 1, i \in 1..Len(c) :
           Arrangements(c)[r][i] = c[Start(Len(c), r, i)]
<1>1. PICK n \in Nat : n = Len(c)
  OBVIOUS
<1> DEFINE Row(r) == [i \in 1..n |-> c[Start(n, r, i)]]
           F == [r \in 1..n - 1 |-> Row(r)]
           Solves(g) == g = [r \in 1..n - 1 |-> IF r = 1 THEN c ELSE Turn(g[r - 1])]
<1>2. \A r \in 1..n - 1 : Row(r) \in Seq(Nat) /\ Len(Row(r)) = n
        /\ \A i \in 1..n : Row(r)[i] = c[Start(n, r, i)]
  <2> SUFFICES ASSUME NEW r \in 1..n - 1 PROVE Row(r) \in Seq(Nat) /\ Len(Row(r)) = n
    OBVIOUS
  <2>1. \A i \in 1..n : c[Start(n, r, i)] \in Nat
    <3>1. \A i \in 1..n : c[i] \in Nat
      BY <1>1
    <3> QED
      BY <3>1, StartIn
  <2>2. Row(r) \in [1..n -> Nat]
    BY <2>1
  <2> HIDE DEF Row
  <2> QED
    BY <2>2
<1>3. n - 1 >= 1 => Row(1) = c
  <2> SUFFICES ASSUME n - 1 >= 1 PROVE Row(1) = c
    OBVIOUS
  <2>1. \A i \in 1..n : Start(n, 1, i) = i
    BY DEF Start
  <2>2. c = [i \in 1..n |-> c[i]]
    BY <1>1
  <2> QED
    BY <2>1, <2>2
<1>4. ASSUME NEW r \in 1..n - 1, r # 1 PROVE Row(r) = Turn(Row(r - 1))
  <2>1. r - 1 \in 1..n - 1 /\ n >= 3 /\ r \in Nat /\ r >= 2
    BY <1>4
  <2>2. PICK b \in Seq(Nat) : b = Row(r - 1)
    BY <1>2, <2>1
  <2>3. Len(b) = n /\ \A i \in 1..n : b[i] = c[Start(n, r - 1, i)]
    BY <1>2, <2>1, <2>2
  <2>4. PICK t \in Seq(Nat) : t = Turn(b)
    BY <2>1, <2>3, TurnIs
  <2>5. Len(t) = n
          /\ \A i \in 1..n : t[i] = IF i = 1 THEN b[1] ELSE IF i = 2 THEN b[n] ELSE b[i - 1]
    BY <2>1, <2>3, <2>4, TurnIs
  <2>6. \A i \in 1..n : t[i] = c[Start(n, r, i)]
    <3> SUFFICES ASSUME NEW i \in 1..n PROVE t[i] = c[Start(n, r, i)]
      OBVIOUS
    <3>1. CASE i = 1
      BY <2>1, <2>3, <2>5, <3>1 DEF Start
    <3>2. CASE i = 2
      <4>1. Start(n, r, 2) = Start(n, r - 1, n)
        BY <2>1 DEF Start
      <4>2. n \in 1..n /\ t[2] = b[n]
        BY <2>1, <2>5
      <4>3. b[n] = c[Start(n, r - 1, n)]
        BY <2>3, <4>2
      <4> QED
        BY <3>2, <4>1, <4>2, <4>3
    <3>3. CASE i > 2
      <4>1. Start(n, r, i) = Start(n, r - 1, i - 1)
        BY <2>1, <3>3 DEF Start
      <4>2. i - 1 \in 1..n
        BY <3>3
      <4>5. i # 1 /\ i # 2
        BY <3>3
      <4>3. t[i] = b[i - 1]
        BY <2>5, <4>5, Zenon
      <4>4. b[i - 1] = c[Start(n, r - 1, i - 1)]
        BY <2>3, <4>2
      <4> QED
        BY <4>1, <4>3, <4>4
    <3> QED
      BY <3>1, <3>2, <3>3
  <2>7. t = [i \in 1..n |-> t[i]]
    BY <2>5
  <2>8. t = [i \in 1..n |-> c[Start(n, r, i)]]
    BY <2>6, <2>7
  <2> QED
    BY <2>2, <2>4, <2>8
<1> HIDE DEF Row
<1>5. Solves(F)
  BY <1>3, <1>4
<1> HIDE DEF F
<1>6. ASSUME NEW g, Solves(g), NEW r \in 1..n - 1 PROVE g[r] = Row(r)
  <2> DEFINE T == {k \in Nat : k \in 1..n - 1 /\ g[k] # Row(k)}
  <2> SUFFICES ASSUME g[r] # Row(r) PROVE FALSE
    OBVIOUS
  <2>1. r \in T /\ T \subseteq Nat
    OBVIOUS
  <2>2. PICK m \in T : \A k \in T : m <= k
    BY <2>1, LeastNat
  <2>3. m \in 1..n - 1 /\ g[m] # Row(m) /\ m \in Nat
    OBVIOUS
  <2>4. g[m] = IF m = 1 THEN c ELSE Turn(g[m - 1])
    BY <1>6, <2>3
  <2>5. m # 1
    BY <1>3, <2>3, <2>4
  <2>6. m - 1 \in Nat /\ m - 1 \in 1..n - 1 /\ m - 1 \notin T
    BY <2>2, <2>3, <2>5
  <2>7. g[m - 1] = Row(m - 1)
    BY <2>6
  <2> QED
    BY <1>4, <2>3, <2>4, <2>5, <2>7
<1>7. PICK A : A = CHOOSE g : Solves(g)
  OBVIOUS
<1>8. Solves(A)
  BY <1>5, <1>7
<1>9. Arrangements(c) = A
  BY <1>1, <1>7 DEF Arrangements
<1>10. \A r \in 1..n - 1 : A[r] = Row(r)
  BY <1>6, <1>8
<1>11. \A r \in 1..n - 1, i \in 1..n : A[r][i] = c[Start(n, r, i)]
  BY <1>2, <1>10
<1> QED
  BY <1>1, <1>9, <1>11

(* In a round everybody stands in one place. *)
LEMMA PlacesApart ==
  ASSUME NEW h \in Nat, h >= 1, NEW r \in 1..2 * h - 1,
         NEW i \in 1..2 * h, NEW j \in 1..2 * h, Start(2 * h, r, i) = Start(2 * h, r, j)
  PROVE  i = j
BY DEF Start

(* Two who meet in a round: their places in the first add up to a number    *)
(* that tells the rounds apart.                                             *)
LEMMA MeetingSum ==
  ASSUME NEW h \in Nat, h >= 1, NEW r \in 1..2 * h - 1, NEW i \in 2..h
  PROVE  \E e \in {0, 1, 2} :
           Start(2 * h, r, i) + Start(2 * h, r, 2 * h + 1 - i) = 2 * h + 1 - 2 * (r - 1) + e * (2 * h - 1)
<1> DEFINE m == 2 * h - 1
           a == Start(2 * h, r, i)
           b == Start(2 * h, r, 2 * h + 1 - i)
<1>1. a = i - (r - 1) \/ a = i - (r - 1) + m
  BY DEF Start
<1>2. b = 2 * h + 1 - i - (r - 1) \/ b = 2 * h + 1 - i - (r - 1) + m
  BY DEF Start
<1>3. m \in Nat
  OBVIOUS
<1> HIDE DEF a, b, m
<1>4. \/ a + b = 2 * h + 1 - 2 * (r - 1) + 0 * m
      \/ a + b = 2 * h + 1 - 2 * (r - 1) + 1 * m
      \/ a + b = 2 * h + 1 - 2 * (r - 1) + 2 * m
  BY <1>1, <1>2, <1>3
<1> QED
  BY <1>4 DEF a, b, m

(* Nobody is met twice.                                                    *)
LEMMA MeetOnce ==
  ASSUME NEW h \in Nat, h >= 1, NEW r \in 1..2 * h - 1, NEW q \in 1..2 * h - 1,
         NEW i \in 1..h, NEW j \in 1..h,
         \/ Start(2 * h, r, i) = Start(2 * h, q, j) /\ Start(2 * h, r, 2 * h + 1 - i) = Start(2 * h, q, 2 * h + 1 - j)
         \/ Start(2 * h, r, i) = Start(2 * h, q, 2 * h + 1 - j) /\ Start(2 * h, r, 2 * h + 1 - i) = Start(2 * h, q, j)
  PROVE  r = q /\ i = j
<1> DEFINE a == Start(2 * h, r, i)
           b == Start(2 * h, r, 2 * h + 1 - i)
           c == Start(2 * h, q, j)
           d == Start(2 * h, q, 2 * h + 1 - j)
<1>1. 2 * h + 1 - i \in 1..2 * h /\ 2 * h + 1 - j \in 1..2 * h /\ i \in 1..2 * h
        /\ j \in 1..2 * h
      /\ 2 * h + 1 - i # 1 /\ 2 * h + 1 - j # 1
  OBVIOUS
<1>2. a \in Nat /\ b \in Nat /\ c \in Nat /\ d \in Nat /\ (a = 1 <=> i = 1)
        /\ (c = 1 <=> j = 1) /\ b # 1 /\ d # 1
  <2>1. a \in 1..2 * h /\ (a = 1 <=> i = 1)
    BY <1>1, StartIn
  <2>2. b \in 1..2 * h /\ (b = 1 <=> 2 * h + 1 - i = 1)
    BY <1>1, StartIn
  <2>3. c \in 1..2 * h /\ (c = 1 <=> j = 1)
    BY <1>1, StartIn
  <2>4. d \in 1..2 * h /\ (d = 1 <=> 2 * h + 1 - j = 1)
    BY <1>1, StartIn
  <2> QED
    BY <1>1, <2>1, <2>2, <2>3, <2>4
<1>3. (a = c /\ b = d) \/ (a = d /\ b = c)
  OBVIOUS
<1>4. r = q
  <2>1. CASE i = 1 \/ j = 1
    <3>1. i = 1 /\ j = 1 /\ b = d
      BY <1>2, <1>3, <2>1
    <3>2. b = 2 * h + 1 - r /\ d = 2 * h + 1 - q
      BY <3>1 DEF Start
    <3> QED
      BY <3>1, <3>2
  <2>2. CASE i # 1 /\ j # 1
    <3>1. i \in 2..h /\ j \in 2..h
      BY <2>2
    <3>2. PICK e \in {0, 1, 2} : a + b = 2 * h + 1 - 2 * (r - 1) + e * (2 * h - 1)
      BY <3>1, MeetingSum
    <3>3. PICK f \in {0, 1, 2} : c + d = 2 * h + 1 - 2 * (q - 1) + f * (2 * h - 1)
      BY <3>1, MeetingSum
    <3>4. a + b = c + d
      BY <1>2, <1>3
    <3>5. 2 * h + 1 - 2 * (r - 1) + e * (2 * h - 1) = 2 * h + 1 - 2 * (q - 1) + f * (2 * h - 1)
      BY <3>2, <3>3, <3>4
    <3> HIDE DEF a, b, c, d
    <3>6. PICK m \in Nat : m = 2 * h - 1
      OBVIOUS
    <3>7. 2 * (q - 1) + e * m = 2 * (r - 1) + f * m
      BY <3>5, <3>6
    <3>8. \/ e = f
          \/ (e = 0 /\ f = 1) \/ (e = 1 /\ f = 2) \/ (e = 0 /\ f = 2)
          \/ (e = 1 /\ f = 0) \/ (e = 2 /\ f = 1) \/ (e = 2 /\ f = 0)
      OBVIOUS
    <3>9. q \in 1..m /\ r \in 1..m
      BY <3>6
    <3> QED
      BY <3>6, <3>7, <3>8, <3>9
  <2> QED
    BY <2>1, <2>2
<1>5. i = j
  <2>1. CASE a = c
    BY <1>1, <1>4, <2>1, PlacesApart
  <2>2. CASE a = d
    <3>1. i = 2 * h + 1 - j
      BY <1>1, <1>4, <2>2, PlacesApart
    <3> QED
      BY <3>1
  <2> QED
    BY <1>3, <2>1, <2>2
<1> QED
  BY <1>4, <1>5

(* Whoever stands somewhere in the first round stands somewhere in every one. *)
LEMMA PlaceIn ==
  ASSUME NEW h \in Nat, h >= 1, NEW r \in 1..2 * h - 1, NEW a \in 2..2 * h
  PROVE  \E i \in 2..2 * h : Start(2 * h, r, i) = a
<1> DEFINE k == a + (r - 1)
<1>1. CASE k <= 2 * h
  <2>1. k \in 2..2 * h /\ Start(2 * h, r, k) = a
    BY <1>1 DEF Start
  <2> QED
    BY <2>1
<1>2. CASE k > 2 * h
  <2>1. k - (2 * h - 1) \in 2..2 * h /\ Start(2 * h, r, k - (2 * h - 1)) = a
    BY <1>2 DEF Start
  <2> QED
    BY <2>1
<1> QED
  BY <1>1, <1>2

(* The round two who both move meet in. *)
LEMMA MeetingRound ==
  ASSUME NEW h \in Nat, h >= 1, NEW a \in 2..2 * h, NEW b \in 2..2 * h, a # b
  PROVE  \E r \in 1..2 * h - 1 : \E e \in {0, 1, 2, 3} :
           a + b = 2 * h + 1 - 2 * (r - 1) + (e - 1) * (2 * h - 1)
<1>1. PICK m \in Nat : m = 2 * h - 1
  OBVIOUS
<1>2. PICK s \in Nat : s = a + b
  OBVIOUS
<1>3. s >= 5 /\ s <= 2 * m + 1
  BY <1>1, <1>2
<1>4. PICK k \in Nat : s = 2 * k \/ s = 2 * k + 1
  <2>1. s \div 2 \in Nat /\ (s = 2 * (s \div 2) \/ s = 2 * (s \div 2) + 1)
    OBVIOUS
  <2> QED
    BY <2>1
<1>5. CASE s = 2 * k
  <2>1. m + 1 - k + 1 \in 1..m
    BY <1>1, <1>3, <1>5
  <2>2. s = m + 2 - 2 * ((m + 1 - k + 1) - 1) + 1 * m
    BY <1>1, <1>3, <1>5
  <2>3. a + b = 2 * h + 1 - 2 * ((m + 1 - k + 1) - 1) + (2 - 1) * (2 * h - 1)
    BY <1>1, <1>2, <2>2
  <2> QED
    BY <1>1, <2>1, <2>3
<1>6. CASE s = 2 * k + 1 /\ s <= m + 2
  <2>1. h - k + 1 \in 1..m
    BY <1>1, <1>3, <1>6
  <2>2. a + b = 2 * h + 1 - 2 * ((h - k + 1) - 1) + (1 - 1) * (2 * h - 1)
    BY <1>1, <1>2, <1>6
  <2> QED
    BY <1>1, <2>1, <2>2
<1>7. CASE s = 2 * k + 1 /\ s > m + 2
  <2>1. h + m - k + 1 \in 1..m
    BY <1>1, <1>3, <1>7
  <2>2. a + b = 2 * h + 1 - 2 * ((h + m - k + 1) - 1) + (3 - 1) * (2 * h - 1)
    BY <1>1, <1>2, <1>7
  <2> QED
    BY <1>1, <2>1, <2>2
<1> QED
  BY <1>4, <1>5, <1>6, <1>7

(* Everybody is met.                                                       *)
LEMMA MeetEver ==
  ASSUME NEW h \in Nat, h >= 1, NEW a \in 1..2 * h, NEW b \in 1..2 * h, a # b
  PROVE  \E r \in 1..2 * h - 1, i \in 1..h :
           \/ Start(2 * h, r, i) = a /\ Start(2 * h, r, 2 * h + 1 - i) = b
           \/ Start(2 * h, r, i) = b /\ Start(2 * h, r, 2 * h + 1 - i) = a
<1>1. ASSUME NEW x \in 2..2 * h
      PROVE  \E r \in 1..2 * h - 1, i \in 1..h :
               Start(2 * h, r, i) = 1 /\ Start(2 * h, r, 2 * h + 1 - i) = x
  <2>1. PICK r \in 1..2 * h - 1 : r = 2 * h + 1 - x
    OBVIOUS
  <2>2. Start(2 * h, r, 1) = 1 /\ Start(2 * h, r, 2 * h + 1 - 1) = x
    BY <2>1 DEF Start
  <2>3. 1 \in 1..h
    OBVIOUS
  <2> QED
    BY <2>2, <2>3
<1>2. CASE a = 1 \/ b = 1
  <2>1. CASE a = 1
    <3>1. b \in 2..2 * h
      BY <2>1
    <3>2. PICK r \in 1..2 * h - 1, i \in 1..h : Start(2 * h, r, i) = 1
            /\ Start(2 * h, r, 2 * h + 1 - i) = b
      BY <1>1, <3>1
    <3> QED
      BY <2>1, <3>2
  <2>2. CASE b = 1
    <3>1. a \in 2..2 * h
      BY <2>2
    <3>2. PICK r \in 1..2 * h - 1, i \in 1..h : Start(2 * h, r, i) = 1
            /\ Start(2 * h, r, 2 * h + 1 - i) = a
      BY <1>1, <3>1
    <3> QED
      BY <2>2, <3>2
  <2> QED
    BY <1>2, <2>1, <2>2
<1>3. CASE a # 1 /\ b # 1
  <2>1. a \in 2..2 * h /\ b \in 2..2 * h
    BY <1>3
  <2>2. PICK r \in 1..2 * h - 1 : \E e \in {0, 1, 2, 3} :
          a + b = 2 * h + 1 - 2 * (r - 1) + (e - 1) * (2 * h - 1)
    BY <2>1, MeetingRound
  <2>3. PICK e \in {0, 1, 2, 3} : a + b = 2 * h + 1 - 2 * (r - 1) + (e - 1) * (2 * h - 1)
    BY <2>2
  <2>4. PICK i \in 2..2 * h : Start(2 * h, r, i) = a
    BY <2>1, PlaceIn
  <2>5. PICK m \in Nat : m = 2 * h - 1
    OBVIOUS
  <2>6. a = i - (r - 1) \/ a = i - (r - 1) + m
    BY <2>4, <2>5 DEF Start
  <2>7. a + b = m + 2 - 2 * (r - 1) + (e - 1) * m
    BY <2>3, <2>5
  <2>8. PICK t \in {-1, 0, 1} : b = m + 2 - i - (r - 1) + t * m
    <3>1. e = 0 \/ e = 1 \/ e = 2 \/ e = 3
      OBVIOUS
    <3>2. b \in 2..m + 1 /\ a \in 2..m + 1 /\ r \in 1..m /\ i \in 2..m + 1
      BY <2>1, <2>5
    <3>3. \/ b = m + 2 - i - (r - 1) + (-1) * m
          \/ b = m + 2 - i - (r - 1) + 0 * m
          \/ b = m + 2 - i - (r - 1) + 1 * m
      BY <2>6, <2>7, <3>1, <3>2
    <3> QED
      BY <3>3
  <2>9. i # 2 * h
    <3> SUFFICES ASSUME i = 2 * h PROVE FALSE
      OBVIOUS
    <3>1. b = 1 - (r - 1) + t * m /\ (a = m + 1 - (r - 1) \/ a = m + 1 - (r - 1) + m)
      BY <2>5, <2>6, <2>8
    <3>2. t = -1 \/ t = 0 \/ t = 1
      OBVIOUS
    <3>3. b \in 2..m + 1 /\ a \in 2..m + 1 /\ r \in 1..m
      BY <2>1, <2>5
    <3> QED
      BY <3>1, <3>2, <3>3
  <2>10. 2 * h + 1 - i \in 2..2 * h
    BY <2>9
  <2>11. Start(2 * h, r, 2 * h + 1 - i) = b
    <3>1. PICK x \in Int : x = Start(2 * h, r, 2 * h + 1 - i)
      BY <2>10, StartIn
    <3>2. x \in 2..m + 1
      BY <2>5, <2>10, <3>1, StartIn
    <3>3. x = m + 2 - i - (r - 1) \/ x = m + 2 - i - (r - 1) + m
      BY <2>5, <2>10, <3>1 DEF Start
    <3>4. b \in 2..m + 1 /\ (t = -1 \/ t = 0 \/ t = 1)
      BY <2>1, <2>5
    <3>5. x = b
      BY <2>8, <3>2, <3>3, <3>4
    <3> QED
      BY <3>1, <3>5
  <2>12. CASE i <= h
    <3>1. i \in 1..h
      BY <2>12
    <3> QED
      BY <2>4, <2>11, <3>1
  <2>13. CASE i > h
    <3>1. 2 * h + 1 - i \in 1..h /\ 2 * h + 1 - (2 * h + 1 - i) = i
      BY <2>13
    <3>2. Start(2 * h, r, 2 * h + 1 - i) = b
            /\ Start(2 * h, r, 2 * h + 1 - (2 * h + 1 - i)) = a
      BY <2>4, <2>11, <3>1
    <3> QED
      BY <3>1, <3>2
  <2>14. i <= h \/ i > h
    OBVIOUS
  <2> QED
    BY <2>12, <2>13, <2>14
<1> QED
  BY <1>2, <1>3

-----------------------------------------------------------------------------
(* The schedule of a group.                                                *)

(* The matches of a round: those of a circle c of 2h without the phantom.   *)
Plays(c, h, r) ==
  {i \in 1..h : Phantom \notin {c[Start(2 * h, r, i)], c[Start(2 * h, r, 2 * h + 1 - i)]}}

Pairing(c, h, g, r, i) ==
  [group |-> g, round |-> r, position |-> Cardinality({k \in Plays(c, h, r) : k <= i}),
   one |-> c[Start(2 * h, r, i)], two |-> c[Start(2 * h, r, 2 * h + 1 - i)]]

Schedule(c, h, g) ==
  {Pairing(c, h, g, x[1], x[2]) :
     x \in {y \in (1..2 * h - 1) \X (1..h) : y[2] \in Plays(c, h, y[1])}}

LEMMA InSchedule ==
  ASSUME NEW c, NEW h, NEW g, NEW x \in Schedule(c, h, g)
  PROVE  \E r \in 1..2 * h - 1 : \E i \in Plays(c, h, r) : x = Pairing(c, h, g, r, i)
BY DEF Schedule

LEMMA Scheduled ==
  ASSUME NEW c, NEW h, NEW g, NEW r \in 1..2 * h - 1, NEW i \in Plays(c, h, r)
  PROVE  Pairing(c, h, g, r, i) \in Schedule(c, h, g)
<1>1. <<r, i>> \in (1..2 * h - 1) \X (1..h)
  BY DEF Plays
<1> QED
  BY <1>1 DEF Schedule

(* The circle is the group, with the phantom last if it is odd. *)
Circle(s) == IF Len(s) % 2 = 1 THEN Append(s, Phantom) ELSE s

-----------------------------------------------------------------------------
(* The rows.                                                               *)

LEMMA CircleIs ==
  ASSUME NEW s \in Seq(Nat), Len(s) >= 1
  PROVE  /\ Circle(s) \in Seq(Nat)
         /\ \E h \in Nat :
              /\ h >= 1 /\ Len(Circle(s)) = 2 * h /\ Len(s) <= 2 * h /\ 2 * h <= Len(s) + 1
              /\ \A i \in 1..2 * h : Circle(s)[i] = IF i <= Len(s) THEN s[i] ELSE Phantom
<1>1. Len(s) \in Nat /\ Phantom \in Nat
  BY DEF Phantom
<1>2. /\ Append(s, Phantom) \in Seq(Nat) /\ Len(Append(s, Phantom)) = Len(s) + 1
      /\ \A i \in 1..Len(s) + 1 : Append(s, Phantom)[i]
           = IF i <= Len(s) THEN s[i] ELSE Phantom
  BY <1>1
<1>3. PICK l \in Nat : l = Len(s)
  BY <1>1
<1>4. CASE Len(s) % 2 = 1
  <2>1. Circle(s) = Append(s, Phantom)
    BY <1>4 DEF Circle
  <2>2. PICK h \in Nat : h = (l \div 2) + 1
    BY <1>3
  <2>3. l + 1 = 2 * h
    BY <1>3, <1>4, <2>2
  <2> QED
    BY <1>2, <1>3, <2>1, <2>3
<1>5. CASE Len(s) % 2 # 1
  <2>1. Circle(s) = s
    BY <1>5 DEF Circle
  <2>2. PICK h \in Nat : h = l \div 2
    BY <1>3
  <2>3. l = 2 * h
    BY <1>3, <1>5, <2>2
  <2>4. \A i \in 1..2 * h : Circle(s)[i] = IF i <= Len(s) THEN s[i] ELSE Phantom
    BY <1>3, <2>1, <2>3
  <2> QED
    BY <1>3, <2>1, <2>3, <2>4
<1> QED
  BY <1>4, <1>5

LEMMA ScheduleIsOf ==
  ASSUME NEW s \in Seq(Nat), NEW g, NEW c \in Seq(Nat), NEW h \in Nat,
         c = Circle(s), h >= 1, Len(c) = 2 * h
  PROVE  ScheduleGroup(s, g) = Schedule(c, h, g)
<1> DEFINE ring == Circle(s)
           stand == Arrangements(ring)
           playedOf(r) ==
             {i \in 1..Len(ring) \div 2 : Phantom \notin {stand[r][i], stand[r][Len(ring) + 1 - i]}}
           S0 == {y \in (1..Len(ring) - 1) \X (1..Len(ring) \div 2) : y[2] \in playedOf(y[1])}
           T == {y \in (1..2 * h - 1) \X (1..h) : y[2] \in Plays(c, h, y[1])}
<1>1. ScheduleGroup(s, g) =
        {[group |-> g, round |-> x[1], position |-> Cardinality({i \in playedOf(x[1]) : i <= x[2]}),
          one |-> stand[x[1]][x[2]], two |-> stand[x[1]][Len(ring) + 1 - x[2]]] : x \in S0}
  BY DEF ScheduleGroup, Circle
<1>2. ring = c
  OBVIOUS
<1> HIDE DEF ring
<1>3. \A r \in 1..2 * h - 1, i \in 1..2 * h : stand[r][i] = c[Start(2 * h, r, i)]
  <2>1. \A r \in 1..Len(c) - 1, i \in 1..Len(c) : Arrangements(c)[r][i] = c[Start(Len(c), r, i)]
    BY ArrangementsAre
  <2> QED
    BY <1>2, <2>1
<1>4. Len(ring) = 2 * h /\ (2 * h) \div 2 = h
  BY <1>2
<1> HIDE DEF stand
<1>5. \A r \in 1..2 * h - 1, i \in 1..h :
        stand[r][i] = c[Start(2 * h, r, i)]
          /\ stand[r][2 * h + 1 - i] = c[Start(2 * h, r, 2 * h + 1 - i)]
  <2> SUFFICES ASSUME NEW r \in 1..2 * h - 1, NEW i \in 1..h
               PROVE  stand[r][i] = c[Start(2 * h, r, i)]
                        /\ stand[r][2 * h + 1 - i] = c[Start(2 * h, r, 2 * h + 1 - i)]
    OBVIOUS
  <2>1. i \in 1..2 * h /\ 2 * h + 1 - i \in 1..2 * h
    OBVIOUS
  <2> QED
    BY <1>3, <2>1
<1>6. \A r \in 1..2 * h - 1 : playedOf(r) = Plays(c, h, r)
  BY <1>4, <1>5 DEF Plays
<1> HIDE DEF playedOf
<1>7. S0 = T
  <2>1. Len(ring) - 1 = 2 * h - 1 /\ Len(ring) \div 2 = h
    BY <1>4
  <2>2. \A y : y \in (1..Len(ring) - 1) \X (1..Len(ring) \div 2) <=> y \in (1..2 * h - 1) \X (1..h)
    BY <2>1
  <2>3. \A y \in (1..2 * h - 1) \X (1..h) : y[2] \in playedOf(y[1]) <=> y[2] \in Plays(c, h, y[1])
    BY <1>6
  <2> QED
    BY <2>2, <2>3
<1>8. ASSUME NEW x \in T
      PROVE [group |-> g, round |-> x[1], position |-> Cardinality({i \in playedOf(x[1]) : i <= x[2]}),
             one |-> stand[x[1]][x[2]], two |-> stand[x[1]][Len(ring) + 1 - x[2]]]
            = Pairing(c, h, g, x[1], x[2])
  <2>1. x[1] \in 1..2 * h - 1 /\ x[2] \in 1..h
    OBVIOUS
  <2>2. playedOf(x[1]) = Plays(c, h, x[1])
    BY <1>6, <2>1
  <2>3. stand[x[1]][x[2]] = c[Start(2 * h, x[1], x[2])]
        /\ stand[x[1]][Len(ring) + 1 - x[2]] = c[Start(2 * h, x[1], 2 * h + 1 - x[2])]
    BY <1>4, <1>5, <2>1
  <2> HIDE DEF T
  <2> QED
    BY <2>2, <2>3 DEF Pairing
<1> HIDE DEF S0, T
<1>9. ScheduleGroup(s, g) = {Pairing(c, h, g, x[1], x[2]) : x \in T}
  BY <1>1, <1>7, <1>8
<1> QED
  BY <1>9 DEF T, Schedule

(* The circle of a group holds its seeds, each once, and the phantom at most. *)
Ring(n, groups, g, c, h) ==
  /\ h >= 1 /\ 2 * h - 1 <= n
  /\ \A i \in 1..2 * h :
       c[i] \in Nat /\ (c[i] # Phantom => c[i] \in 1..n /\ GroupOf(groups, c[i]) = g)
  /\ \A i, j \in 1..2 * h : i # j => c[i] # c[j]
  /\ \A s \in 1..n : GroupOf(groups, s) = g => \E i \in 1..2 * h : c[i] = s

(* A group's circle is an even number of players, no two alike, with all   *)
(* of the group in it.                                                     *)
LEMMA GroupRing ==
  ASSUME NEW n \in Nat, NEW groups \in 1..n, NEW g \in 1..groups
  PROVE  \E c \in Seq(Nat), h \in Nat :
           /\ Ring(n, groups, g, c, h)
           /\ ScheduleGroup(GroupSeeds(n, groups, g), g) = Schedule(c, h, g)
<1>0. groups \in Nat /\ groups > 0
  OBVIOUS
<1>1. PICK k \in Nat :
        /\ k >= 1
        /\ \A i \in Nat : i >= 1 => (Dealt(groups, g, i) <= n <=> i <= k)
        /\ GroupSeeds(n, groups, g) = [i \in 1..k |-> Dealt(groups, g, i)]
  BY GroupSeedsAre
<1>2. \A i \in 1..k : Dealt(groups, g, i) \in 1..n
        /\ GroupOf(groups, Dealt(groups, g, i)) = g
  <2> SUFFICES ASSUME NEW i \in 1..k
      PROVE Dealt(groups, g, i) \in 1..n /\ GroupOf(groups, Dealt(groups, g, i)) = g
    OBVIOUS
  <2>1. i \in Nat /\ i >= 1 /\ i <= k
    OBVIOUS
  <2>2. (i - 1) * groups \in Nat /\ Dealt(groups, g, i) > (i - 1) * groups
          /\ Dealt(groups, g, i) \in Nat
        /\ GroupOf(groups, Dealt(groups, g, i)) = g
    BY <1>0, <2>1, DealtIs
  <2> QED
    BY <1>1, <2>1, <2>2
<1>3. \A i, j \in 1..k : i # j => Dealt(groups, g, i) # Dealt(groups, g, j)
  <2> SUFFICES ASSUME NEW i \in 1..k, NEW j \in 1..k, i # j
      PROVE Dealt(groups, g, i) # Dealt(groups, g, j)
    OBVIOUS
  <2>1. i \in Nat /\ j \in Nat /\ i >= 1 /\ j >= 1 /\ Dealt(groups, g, i) \in Nat
          /\ Dealt(groups, g, j) \in Nat
    BY <1>2
  <2>2. i < j \/ j < i
    OBVIOUS
  <2>3. ASSUME i < j PROVE Dealt(groups, g, i) < Dealt(groups, g, j)
    BY <1>0, <2>1, <2>3, DealtGrow
  <2>4. ASSUME j < i PROVE Dealt(groups, g, j) < Dealt(groups, g, i)
    BY <1>0, <2>1, <2>4, DealtGrow
  <2> QED
    BY <2>1, <2>2, <2>3, <2>4
<1>4. k <= n
  <2>1. k \in 1..k
    BY <1>1
  <2>2. (k - 1) * groups \in Nat /\ Dealt(groups, g, k) > (k - 1) * groups
    BY <1>0, <1>1, DealtIs
  <2>3. (k - 1) * groups >= k - 1
    BY <1>0, <1>1
  <2>4. Dealt(groups, g, k) \in 1..n
    BY <1>2, <2>1
  <2> QED
    BY <2>2, <2>3, <2>4
<1>5. PICK s : s = GroupSeeds(n, groups, g)
  OBVIOUS
<1>6. s = [i \in 1..k |-> Dealt(groups, g, i)]
  BY <1>1, <1>5
<1>7. s \in Seq(Nat) /\ Len(s) = k /\ \A i \in 1..k : s[i] = Dealt(groups, g, i)
  <2>1. \A i \in 1..k : Dealt(groups, g, i) \in Nat
    BY <1>2
  <2> QED
    BY <1>6, <2>1
<1>8. Circle(s) \in Seq(Nat)
  BY <1>1, <1>7, CircleIs
<1>9. PICK c \in Seq(Nat) : c = Circle(s)
  BY <1>8
<1>10. PICK h \in Nat : /\ h >= 1 /\ Len(c) = 2 * h /\ k <= 2 * h /\ 2 * h <= k + 1
                        /\ \A i \in 1..2 * h : c[i] = IF i <= k THEN s[i] ELSE Phantom
  BY <1>1, <1>7, <1>9, CircleIs
<1>11. ScheduleGroup(s, g) = Schedule(c, h, g)
  <2>1. s \in Seq(Nat) /\ c \in Seq(Nat) /\ h \in Nat /\ c = Circle(s) /\ h >= 1
          /\ Len(c) = 2 * h
    BY <1>7, <1>9, <1>10
  <2> QED
    BY <2>1, ScheduleIsOf
<1>12. \A i \in 1..2 * h : c[i] = IF i <= k THEN Dealt(groups, g, i) ELSE Phantom
  BY <1>7, <1>10
<1>13. \A i \in 1..2 * h :
         c[i] \in Nat /\ (c[i] # Phantom => c[i] \in 1..n /\ GroupOf(groups, c[i]) = g)
  <2> SUFFICES ASSUME NEW i \in 1..2 * h
               PROVE /\ c[i] \in Nat
                     /\ c[i] # Phantom => c[i] \in 1..n /\ GroupOf(groups, c[i]) = g
    OBVIOUS
  <2>1. CASE i <= k
    <3>1. i \in 1..k
      BY <2>1
    <3>2. Dealt(groups, g, i) \in 1..n /\ GroupOf(groups, Dealt(groups, g, i)) = g
      BY <1>2, <3>1
    <3> QED
      BY <1>12, <2>1, <3>2
  <2>2. CASE ~(i <= k)
    BY <1>12, <2>2 DEF Phantom
  <2> QED
    BY <2>1, <2>2
<1>14. \A i, j \in 1..2 * h : i # j => c[i] # c[j]
  <2>1. ASSUME NEW i \in 1..2 * h, NEW j \in 1..2 * h, i < j PROVE c[i] # c[j]
    <3>1. i \in 1..k
      BY <1>10, <2>1
    <3>2. c[i] = Dealt(groups, g, i) /\ Dealt(groups, g, i) \in 1..n
      BY <1>2, <1>12, <3>1
    <3>3. CASE j <= k
      <4>1. j \in 1..k /\ i # j
        BY <2>1, <3>3
      <4>2. c[j] = Dealt(groups, g, j)
        BY <1>12, <3>3
      <4> QED
        BY <1>3, <3>1, <3>2, <4>1, <4>2
    <3>4. CASE ~(j <= k)
      BY <1>12, <3>2, <3>4 DEF Phantom
    <3> QED
      BY <3>3, <3>4
  <2>2. \A i, j \in 1..2 * h : i # j => i < j \/ j < i
    OBVIOUS
  <2> QED
    BY <2>1, <2>2
<1>15. ASSUME NEW t \in 1..n, GroupOf(groups, t) = g PROVE \E i \in 1..2 * h : c[i] = t
  <2>1. t \in Nat /\ t >= 1 /\ t <= n
    OBVIOUS
  <2>2. PICK i \in Nat : i >= 1 /\ t = Dealt(groups, g, i)
    BY <1>0, <1>15, <2>1, DealtOf
  <2>3. i <= k
    BY <1>1, <2>1, <2>2
  <2>4. i \in 1..2 * h
    BY <1>10, <2>2, <2>3
  <2> QED
    BY <1>12, <2>2, <2>3, <2>4
<1>16. Ring(n, groups, g, c, h)
  BY <1>4, <1>10, <1>13, <1>14, <1>15 DEF Ring
<1> QED
  BY <1>5, <1>11, <1>16

LEMMA PairingIs ==
  ASSUME NEW n \in Nat, NEW groups \in 1..n, NEW g \in 1..groups, NEW c, NEW h \in Nat,
         Ring(n, groups, g, c, h), NEW r \in 1..2 * h - 1, NEW i \in Plays(c, h, r)
  PROVE  LET x == Pairing(c, h, g, r, i)
         IN  /\ x.group = g /\ x.round = r /\ x.round \in 1..n /\ x.position \in 1..n
             /\ x.one \in 1..n /\ x.two \in 1..n
             /\ GroupOf(groups, x.one) = g /\ GroupOf(groups, x.two) = g
             /\ x \in [group : Nat, round : 1..n, position : 1..n, one : 1..n, two : 1..n]
<1> DEFINE x == Pairing(c, h, g, r, i)
           before == {k \in Plays(c, h, r) : k <= i}
           a == Start(2 * h, r, i)
           b == Start(2 * h, r, 2 * h + 1 - i)
<1>1. h >= 1 /\ 2 * h - 1 <= n /\ i \in 1..h /\ i \in 1..2 * h /\ 2 * h + 1 - i \in 1..2 * h
  BY DEF Ring, Plays
<1>2. a \in 1..2 * h /\ b \in 1..2 * h
  BY <1>1, StartIn
<1>3. c[a] # Phantom /\ c[b] # Phantom
  BY DEF Plays
<1>4. c[a] \in 1..n /\ GroupOf(groups, c[a]) = g /\ c[b] \in 1..n
        /\ GroupOf(groups, c[b]) = g
  <2> HIDE DEF a, b
  <2> QED
    BY <1>2, <1>3 DEF Ring
<1>5. Cardinality(before) \in 1..n
  <2>1. before \subseteq 1..h /\ i \in before
    BY <1>1 DEF Plays
  <2>2. IsFiniteSet(1..h) /\ Cardinality(1..h) = h
    BY Interval
  <2> HIDE DEF before
  <2>3. IsFiniteSet(before) /\ Cardinality(before) <= h /\ Cardinality(before) \in Nat
    BY <2>1, <2>2, FS_Subset, FS_CardinalityType
  <2>4. Cardinality(before) # 0
    BY <2>1, <2>3, FS_EmptySet
  <2> QED
    BY <1>1, <2>3, <2>4
<1>6. x = [group |-> g, round |-> r, position |-> Cardinality(before), one |-> c[a], two |-> c[b]]
  BY DEF Pairing
<1>7. r \in 1..n /\ g \in Nat
  BY <1>1
<1> HIDE DEF before, a, b, x
<1>8. /\ x.group = g /\ x.round = r /\ x.round \in 1..n /\ x.position \in 1..n
      /\ x.one \in 1..n /\ x.two \in 1..n
      /\ GroupOf(groups, x.one) = g /\ GroupOf(groups, x.two) = g
      /\ x \in [group : Nat, round : 1..n, position : 1..n, one : 1..n, two : 1..n]
  BY <1>4, <1>5, <1>6, <1>7
<1> QED
  BY <1>8 DEF x

DoNotClash(x, y) ==
  /\ x.round # y.round \/ x.position # y.position
  /\ {x.one, x.two} # {y.one, y.two}
  /\ x.round = y.round => {x.one, x.two} \cap {y.one, y.two} = {}

LEMMA PairingsApart ==
  ASSUME NEW n \in Nat, NEW groups \in 1..n, NEW g \in 1..groups, NEW c, NEW h \in Nat,
         Ring(n, groups, g, c, h), NEW r \in 1..2 * h - 1, NEW i \in Plays(c, h, r),
         NEW q \in 1..2 * h - 1, NEW j \in Plays(c, h, q), r # q \/ i # j,
         NEW x, x = Pairing(c, h, g, r, i), NEW y, y = Pairing(c, h, g, q, j)
  PROVE  DoNotClash(x, y)
<1> DEFINE a == Start(2 * h, r, i)
           b == Start(2 * h, r, 2 * h + 1 - i)
           d == Start(2 * h, q, j)
           e == Start(2 * h, q, 2 * h + 1 - j)
<1>1. h >= 1 /\ i \in 1..h /\ j \in 1..h
  BY DEF Ring, Plays
<1>2. i \in 1..2 * h /\ 2 * h + 1 - i \in 1..2 * h /\ j \in 1..2 * h
        /\ 2 * h + 1 - j \in 1..2 * h
  BY <1>1
<1>3. a \in 1..2 * h /\ b \in 1..2 * h /\ d \in 1..2 * h /\ e \in 1..2 * h
  <2>1. \A t \in 1..2 * h : Start(2 * h, r, t) \in 1..2 * h
          /\ Start(2 * h, q, t) \in 1..2 * h
    BY StartIn
  <2> QED
    BY <1>2, <2>1
<1>4. x.round = r /\ y.round = q /\ x.one = c[a] /\ x.two = c[b] /\ y.one = c[d]
        /\ y.two = c[e]
      /\ x.position = Cardinality({k \in Plays(c, h, r) : k <= i})
      /\ y.position = Cardinality({k \in Plays(c, h, q) : k <= j})
  BY DEF Pairing
<1>5. {a, b} # {d, e}
  <2> SUFFICES ASSUME {a, b} = {d, e} PROVE FALSE
    OBVIOUS
  <2>0. (a = d /\ b = e) \/ (a = e /\ b = d)
    OBVIOUS
  <2>1. r = q /\ i = j
    BY <1>1, <2>0, MeetOnce
  <2> QED
    BY <2>1
<1>6. ASSUME r = q PROVE a # d /\ a # e /\ b # d /\ b # e
  <2>1. i # j
    BY <1>6
  <2>2. i # 2 * h + 1 - j /\ j # 2 * h + 1 - i /\ 2 * h + 1 - i # 2 * h + 1 - j
    BY <1>1, <2>1
  <2>3. ASSUME NEW s \in 1..2 * h, NEW t \in 1..2 * h, s # t
        PROVE  Start(2 * h, r, s) # Start(2 * h, r, t)
    BY <1>1, <2>3, PlacesApart
  <2> QED
    BY <1>2, <1>6, <2>1, <2>2, <2>3
<1> HIDE DEF a, b, d, e
<1>7. \A s, t \in 1..2 * h : s # t => c[s] # c[t]
  BY DEF Ring
<1>8. {c[a], c[b]} # {c[d], c[e]}
  <2> SUFFICES ASSUME {c[a], c[b]} = {c[d], c[e]} PROVE FALSE
    OBVIOUS
  <2>1. (c[a] = c[d] \/ c[a] = c[e]) /\ (c[b] = c[d] \/ c[b] = c[e])
        /\ (c[d] = c[a] \/ c[d] = c[b]) /\ (c[e] = c[a] \/ c[e] = c[b])
    OBVIOUS
  <2>2. (a = d \/ a = e) /\ (b = d \/ b = e) /\ (d = a \/ d = b) /\ (e = a \/ e = b)
    BY <1>3, <1>7, <2>1
  <2> QED
    BY <1>5, <2>2
<1>9. r = q => {c[a], c[b]} \cap {c[d], c[e]} = {}
  BY <1>3, <1>6, <1>7
<1>10. ASSUME NEW s \in Plays(c, h, r), NEW t \in Plays(c, h, r), s < t
       PROVE  Cardinality({k \in Plays(c, h, r) : k <= s})
                # Cardinality({k \in Plays(c, h, r) : k <= t})
  <2> DEFINE S == {k \in Plays(c, h, r) : k <= s}
             T == {k \in Plays(c, h, r) : k <= t}
  <2>1. T \subseteq 1..h /\ Plays(c, h, r) \subseteq 1..h
    BY DEF Plays
  <2>2. S \subseteq T /\ t \in T /\ t \notin S
    BY <1>10, <2>1
  <2>3. IsFiniteSet(1..h)
    BY Interval
  <2> HIDE DEF S, T
  <2>4. IsFiniteSet(T)
    BY <2>1, <2>3, FS_Subset
  <2>5. Cardinality(T) = Cardinality(S) => T = S
    BY <2>2, <2>4, FS_Subset
  <2>6. Cardinality(S) # Cardinality(T)
    BY <2>2, <2>5
  <2> QED
    BY <2>6 DEF S, T
<1>11. r # q \/ Cardinality({k \in Plays(c, h, r) : k <= i})
         # Cardinality({k \in Plays(c, h, q) : k <= j})
  <2> SUFFICES ASSUME r = q
               PROVE  Cardinality({k \in Plays(c, h, r) : k <= i})
                        # Cardinality({k \in Plays(c, h, r) : k <= j})
    OBVIOUS
  <2>1. i < j \/ j < i
    BY <1>1
  <2>2. i \in Plays(c, h, r) /\ j \in Plays(c, h, r)
    OBVIOUS
  <2> QED
    BY <1>10, <2>1, <2>2
<1> QED
  BY <1>4, <1>8, <1>9, <1>11 DEF DoNotClash

(* The round robin is one. *)
LEMMA RoundRobinIs ==
  ASSUME NEW n \in Nat, NEW groups \in 1..n
  PROVE  IsRoundRobin(n, groups)
<1> DEFINE rows == RoundRobinMatches(n, groups)
           Fits(x, y) ==
             /\ <<x.group, x.round, x.position>> # <<y.group, y.round, y.position>>
             /\ {x.one, x.two} # {y.one, y.two}
             /\ x.round = y.round => {x.one, x.two} \cap {y.one, y.two} = {}
<1>1. \A x : x \in rows <=> \E g \in 1..groups : x \in ScheduleGroup(GroupSeeds(n, groups, g), g)
  BY DEF RoundRobinMatches
<1> HIDE DEF rows
<1>2. ASSUME NEW x \in rows
      PROVE  /\ x \in [group : Nat, round : 1..n, position : 1..n, one : 1..n, two : 1..n]
             /\ GroupOf(groups, x.one) = x.group /\ GroupOf(groups, x.two) = x.group
             /\ x.group \in 1..groups
                  /\ x \in ScheduleGroup(GroupSeeds(n, groups, x.group), x.group)
  <2>1. PICK g \in 1..groups : x \in ScheduleGroup(GroupSeeds(n, groups, g), g)
    BY <1>1
  <2>2. PICK c \in Seq(Nat), h \in Nat :
           /\ Ring(n, groups, g, c, h)
           /\ ScheduleGroup(GroupSeeds(n, groups, g), g) = Schedule(c, h, g)
    BY GroupRing
  <2>a. PICK r \in 1..2 * h - 1 : \E i \in Plays(c, h, r) : x = Pairing(c, h, g, r, i)
    BY <2>1, <2>2, InSchedule
  <2>3. PICK i \in Plays(c, h, r) : x = Pairing(c, h, g, r, i)
    BY <2>a
  <2>4. /\ Pairing(c, h, g, r, i).group = g
        /\ GroupOf(groups, Pairing(c, h, g, r, i).one) = g
             /\ GroupOf(groups, Pairing(c, h, g, r, i).two) = g
        /\ Pairing(c, h, g, r, i) \in [group : Nat, round : 1..n, position : 1..n, one : 1..n, two : 1..n]
    BY <2>2, PairingIs
  <2> QED
    BY <2>1, <2>3, <2>4
<1>3. ASSUME NEW x \in rows, NEW y \in rows, x # y PROVE Fits(x, y)
  <2>1. CASE x.group # y.group
    <3>1. x.one # y.one /\ x.one # y.two /\ x.two # y.one /\ x.two # y.two
      BY <1>2, <2>1
    <3> QED
      BY <2>1, <3>1
  <2>2. CASE x.group = y.group
    <3>1. PICK g \in 1..groups : g = x.group
      BY <1>2
    <3>2. x \in ScheduleGroup(GroupSeeds(n, groups, g), g)
            /\ y \in ScheduleGroup(GroupSeeds(n, groups, g), g)
      BY <1>2, <2>2, <3>1
    <3>3. PICK c \in Seq(Nat), h \in Nat :
             /\ Ring(n, groups, g, c, h)
             /\ ScheduleGroup(GroupSeeds(n, groups, g), g) = Schedule(c, h, g)
      BY GroupRing
    <3>a. PICK r \in 1..2 * h - 1 : \E i \in Plays(c, h, r) : x = Pairing(c, h, g, r, i)
      BY <3>2, <3>3, InSchedule
    <3>4. PICK i \in Plays(c, h, r) : x = Pairing(c, h, g, r, i)
      BY <3>a
    <3>b. PICK q \in 1..2 * h - 1 : \E j \in Plays(c, h, q) : y = Pairing(c, h, g, q, j)
      BY <3>2, <3>3, InSchedule
    <3>5. PICK j \in Plays(c, h, q) : y = Pairing(c, h, g, q, j)
      BY <3>b
    <3>6. r # q \/ i # j
      BY <1>3, <3>4, <3>5
    <3>7. DoNotClash(x, y)
      BY <3>3, <3>4, <3>5, <3>6, PairingsApart
    <3> QED
      BY <3>7 DEF DoNotClash
  <2> QED
    BY <2>1, <2>2
<1>4. rows \subseteq [group : Nat, round : 1..n, position : 1..n, one : 1..n, two : 1..n]
  BY <1>2
<1> QED
  BY <1>3, <1>4 DEF IsRoundRobin, rows

LEMMA RowIs ==
  ASSUME NEW n \in Nat, NEW groups \in 1..n, NEW x \in RoundRobinMatches(n, groups)
  PROVE  GroupOf(groups, x.one) = x.group /\ GroupOf(groups, x.two) = x.group
<1>1. PICK g \in 1..groups : x \in ScheduleGroup(GroupSeeds(n, groups, g), g)
  BY DEF RoundRobinMatches
<1>2. PICK c \in Seq(Nat), h \in Nat :
        Ring(n, groups, g, c, h)
          /\ ScheduleGroup(GroupSeeds(n, groups, g), g) = Schedule(c, h, g)
  BY GroupRing
<1>3. PICK r \in 1..2 * h - 1 : \E i \in Plays(c, h, r) : x = Pairing(c, h, g, r, i)
  BY <1>1, <1>2, InSchedule
<1>4. PICK i \in Plays(c, h, r) : x = Pairing(c, h, g, r, i)
  BY <1>3
<1> QED
  BY <1>2, <1>4, PairingIs

(* Two of a group have one match, two of different groups none.            *)
LEMMA PairMeets ==
  ASSUME NEW n \in Nat, NEW groups \in 1..n, NEW a \in 1..n, NEW b \in 1..n, a < b,
         GroupOf(groups, a) = GroupOf(groups, b)
  PROVE  \E x \in RoundRobinMatches(n, groups) :
           (x.one = a /\ x.two = b) \/ (x.one = b /\ x.two = a)
<1>1. PICK g \in 1..groups : g = GroupOf(groups, a)
  BY DealtOf
<1>2. PICK c \in Seq(Nat), h \in Nat :
        Ring(n, groups, g, c, h)
          /\ ScheduleGroup(GroupSeeds(n, groups, g), g) = Schedule(c, h, g)
  BY GroupRing
<1>3. PICK i \in 1..2 * h : c[i] = a
  BY <1>1, <1>2 DEF Ring
<1>4. PICK j \in 1..2 * h : c[j] = b
  BY <1>1, <1>2 DEF Ring
<1>5. i # j /\ h >= 1
  BY <1>2, <1>3, <1>4 DEF Ring
<1>7. PICK r \in 1..2 * h - 1, p \in 1..h :
        \/ Start(2 * h, r, p) = i /\ Start(2 * h, r, 2 * h + 1 - p) = j
        \/ Start(2 * h, r, p) = j /\ Start(2 * h, r, 2 * h + 1 - p) = i
  BY <1>5, MeetEver
<1>8. \/ c[Start(2 * h, r, p)] = a /\ c[Start(2 * h, r, 2 * h + 1 - p)] = b
      \/ c[Start(2 * h, r, p)] = b /\ c[Start(2 * h, r, 2 * h + 1 - p)] = a
  BY <1>3, <1>4, <1>7
<1>9. p \in Plays(c, h, r)
  BY <1>8 DEF Plays, Phantom
<1>10. PICK x : x = Pairing(c, h, g, r, p)
  OBVIOUS
<1>11. x \in RoundRobinMatches(n, groups)
  <2>1. x \in ScheduleGroup(GroupSeeds(n, groups, g), g)
    BY <1>2, <1>9, <1>10, Scheduled
  <2> QED
    BY <2>1 DEF RoundRobinMatches
<1>12. x.one = c[Start(2 * h, r, p)] /\ x.two = c[Start(2 * h, r, 2 * h + 1 - p)]
  BY <1>10 DEF Pairing
<1> QED
  BY <1>8, <1>11, <1>12

(* No group is larger than another by more than one.                       *)
LEMMA GroupsBalanced ==
  ASSUME NEW n \in Nat, NEW groups \in 1..n, NEW g \in 1..groups, NEW h \in 1..groups
  PROVE  Len(GroupSeeds(n, groups, g)) <= Len(GroupSeeds(n, groups, h)) + 1
<1>1. PICK k \in Nat :
        /\ k >= 1
        /\ \A i \in Nat : i >= 1 => (Dealt(groups, g, i) <= n <=> i <= k)
        /\ GroupSeeds(n, groups, g) = [i \in 1..k |-> Dealt(groups, g, i)]
  BY GroupSeedsAre
<1>2. PICK l \in Nat :
        /\ l >= 1
        /\ \A i \in Nat : i >= 1 => (Dealt(groups, h, i) <= n <=> i <= l)
        /\ GroupSeeds(n, groups, h) = [i \in 1..l |-> Dealt(groups, h, i)]
  BY GroupSeedsAre
<1>3. groups \in Nat
  OBVIOUS
<1>4. k <= l + 1
  <2> SUFFICES ASSUME l + 1 < k PROVE FALSE
    OBVIOUS
  <2>1. Dealt(groups, h, l + 1) < Dealt(groups, g, k)
    BY <1>3, DealtGrow
  <2>2. Dealt(groups, g, k) <= n
    BY <1>1
  <2>3. ~(Dealt(groups, h, l + 1) <= n)
    BY <1>2
  <2>4. l + 1 \in Nat /\ l + 1 >= 1
          /\ \A i \in Nat, j \in 1..groups : i >= 1 => Dealt(groups, j, i) \in Nat
    BY <1>3, DealtIs
  <2> QED
    <3>1. Dealt(groups, h, l + 1) \in Nat
      BY <2>4
    <3>2. Dealt(groups, g, k) \in Nat
      BY <1>1, <2>4
    <3> QED
      BY <2>1, <2>2, <2>3, <3>1, <3>2
<1>5. Len(GroupSeeds(n, groups, g)) = k /\ Len(GroupSeeds(n, groups, h)) = l
  BY <1>1, <1>2
<1> QED
  BY <1>4, <1>5

(* Nothing changes the stage that is looked at. *)
LEMMA StageKept ==
  Spec => [](stage \in Stages)
<1>1. Init => stage \in Stages
  BY DEF Init
<1>2. stage \in Stages /\ [Next]_vars => (stage \in Stages)'
  BY DEF Next, Win, Lose, vars
<1> QED
  BY <1>1, <1>2, PTL DEF Spec

(* The round robin the engine generates is one, for any field and any      *)
(* number of groups.                                                       *)
THEOREM RoundRobinMeets == Spec => []EveryPairMeetsOnce
<1>1. ASSUME stage \in Stages PROVE EveryPairMeetsOnce
  <2>1. stage.n \in Nat
    BY <1>1, MaxFieldAssumption DEF Stages
  <2>3. ASSUME NEW groups \in 1..stage.n, NEW a \in 1..stage.n, NEW b \in 1..stage.n, a < b
        PROVE  Cardinality({x \in RoundRobinMatches(stage.n, groups) : {x.one, x.two} = {a, b}})
                 = IF GroupOf(groups, a) = GroupOf(groups, b) THEN 1 ELSE 0
    <3> DEFINE rows == RoundRobinMatches(stage.n, groups)
               met == {x \in rows : {x.one, x.two} = {a, b}}
    <3>1. \A x \in rows, y \in rows : x # y => {x.one, x.two} # {y.one, y.two}
      BY <2>1, RoundRobinIs DEF IsRoundRobin
    <3>2. CASE GroupOf(groups, a) = GroupOf(groups, b)
      <4>1. PICK x \in rows : {x.one, x.two} = {a, b}
        <5>1. PICK x \in rows : (x.one = a /\ x.two = b) \/ (x.one = b /\ x.two = a)
          BY <2>1, <2>3, <3>2, PairMeets
        <5>2. {x.one, x.two} = {a, b}
          BY <5>1
        <5> QED
          BY <5>2
      <4>2. met = {x}
        <5> HIDE DEF rows
        <5> QED
          BY <3>1, <4>1
      <4> QED
        BY <3>2, <4>2, FS_Singleton
    <3>3. CASE GroupOf(groups, a) # GroupOf(groups, b)
      <4>1. ASSUME NEW x \in rows, {x.one, x.two} = {a, b} PROVE FALSE
        <5>1. GroupOf(groups, x.one) = GroupOf(groups, x.two)
          BY <2>1, RowIs
        <5>2. (x.one = a /\ x.two = b) \/ (x.one = b /\ x.two = a)
          BY <2>3, <4>1
        <5> QED
          BY <3>3, <5>1, <5>2
      <4>2. met = {}
        BY <4>1
      <4> QED
        BY <3>3, <4>2, FS_EmptySet
    <3> QED
      BY <3>2, <3>3
  <2>4. \A groups \in 1..stage.n : IsRoundRobin(stage.n, groups)
    BY <2>1, RoundRobinIs
  <2>5. \A groups \in 1..stage.n : \A g, h \in 1..groups :
          Len(GroupSeeds(stage.n, groups, g)) <= Len(GroupSeeds(stage.n, groups, h)) + 1
    BY <2>1, GroupsBalanced
  <2> QED
    BY <2>3, <2>4, <2>5 DEF EveryPairMeetsOnce
<1> QED
  BY <1>1, StageKept, PTL

-----------------------------------------------------------------------------
(* Powers of two.                                                          *)

LEMMA PowerNat == ASSUME NEW k \in Nat PROVE 2^k \in Nat /\ Cardinality(SUBSET (1..k)) = 2^k
<1>1. IsFiniteSet(1..k) /\ Cardinality(1..k) = k
  BY Interval
<1>2. IsFiniteSet(SUBSET (1..k)) /\ Cardinality(SUBSET (1..k)) = 2^Cardinality(1..k)
  BY <1>1, FS_SUBSET
<1> QED
  BY <1>1, <1>2, FS_CardinalityType

(* A number more doubles the subsets: those without it and those with it. *)
LEMMA PowerStep == ASSUME NEW k \in Nat PROVE 2^(k + 1) = 2 * 2^k
<1> DEFINE S == SUBSET (1..k)
           W == {t \in SUBSET (1..k + 1) : k + 1 \in t}
           f == [t \in S |-> t \cup {k + 1}]
<1>1. f \in [S -> W]
  OBVIOUS
<1>2. ASSUME NEW a \in S, NEW b \in S, f[a] = f[b] PROVE a = b
  <2>1. k + 1 \notin a /\ k + 1 \notin b
    OBVIOUS
  <2>2. a \cup {k + 1} = b \cup {k + 1}
    BY <1>2
  <2> QED
    BY <2>1, <2>2
<1>3. ASSUME NEW t \in W PROVE \E a \in S : f[a] = t
  <2>1. t \ {k + 1} \in S /\ (t \ {k + 1}) \cup {k + 1} = t
    OBVIOUS
  <2> QED
    BY <2>1
<1>4. S \cup W = SUBSET (1..k + 1) /\ S \cap W = {}
  OBVIOUS
<1> HIDE DEF f, S, W
<1>5. f \in Bijection(S, W)
  BY <1>1, <1>2, <1>3 DEF Bijection, Injection, Surjection, IsInjective
<1>6. IsFiniteSet(S) /\ Cardinality(S) = 2^k /\ 2^k \in Nat
  BY PowerNat, Interval, FS_SUBSET DEF S
<1>7. IsFiniteSet(W) /\ Cardinality(W) = 2^k
  BY <1>5, <1>6, FS_Bijection DEF ExistsBijection
<1>8. Cardinality(S \cap W) = 0
  BY <1>4, FS_EmptySet
<1>9. Cardinality(S \cup W) = Cardinality(S) + Cardinality(W) - Cardinality(S \cap W)
  BY <1>6, <1>7, FS_Union
<1>10. Cardinality(S \cup W) = 2^(k + 1)
  BY <1>4, PowerNat
<1> QED
  BY <1>6, <1>7, <1>8, <1>9, <1>10

LEMMA PowerZero == 2^0 = 1 /\ 2^1 = 2
OBVIOUS

LEMMA PowerPositive == ASSUME NEW k \in Nat PROVE 2^k \in Nat /\ 2^k >= 1
<1> DEFINE T == {j \in Nat : ~(2^j >= 1)}
<1>1. CASE T = {}
  BY <1>1, PowerNat
<1>2. CASE T # {}
  <2>1. PICK m \in T : \A j \in T : m <= j
    BY <1>2, LeastNat
  <2>2. m # 0
    <3>1. ASSUME m = 0 PROVE FALSE
      <4>1. 2^m = 1
        BY <3>1, PowerZero
      <4> QED
        BY <2>1, <3>1, <4>1
    <3> QED
      BY <3>1
  <2>3. m - 1 \in Nat /\ m - 1 \notin T
    BY <2>1, <2>2
  <2>4. 2^(m - 1) >= 1 /\ 2^(m - 1) \in Nat
    BY <2>3, PowerNat
  <2>5. 2^m = 2 * 2^(m - 1)
    <3>1. PICK j \in Nat : j = m - 1
      BY <2>3
    <3>2. j + 1 = m
      BY <2>1, <3>1
    <3> QED
      BY <3>1, <3>2, PowerStep
  <2>6. ~(2^m >= 1)
    BY <2>1
  <2> QED
    BY <2>4, <2>5, <2>6
<1> QED
  BY <1>1, <1>2

LEMMA PowerDown == ASSUME NEW k \in Nat, k >= 1 PROVE k - 1 \in Nat /\ 2^k = 2 * 2^(k - 1)
<1>1. PICK j \in Nat : j = k - 1
  OBVIOUS
<1>2. j + 1 = k
  BY <1>1
<1> QED
  BY <1>1, <1>2, PowerStep

(* A power is more than its exponent. *)
LEMMA PowerLarge == ASSUME NEW k \in Nat PROVE k < 2^k
<1> DEFINE T == {j \in Nat : ~(j < 2^j)}
<1>1. CASE T = {}
  BY <1>1
<1>2. CASE T # {}
  <2>1. PICK m \in T : \A j \in T : m <= j
    BY <1>2, LeastNat
  <2>2. m # 0
    <3>1. ASSUME m = 0 PROVE FALSE
      <4>1. 2^m = 1
        BY <3>1, PowerZero
      <4> QED
        BY <2>1, <3>1, <4>1
    <3> QED
      BY <3>1
  <2>3. m - 1 \in Nat /\ m - 1 \notin T /\ m >= 1 /\ m \in Nat /\ ~(m < 2^m)
    BY <2>1, <2>2
  <2>4. m - 1 < 2^(m - 1) /\ 2^(m - 1) \in Nat
    BY <2>3, PowerNat
  <2>5. 2^m = 2 * 2^(m - 1)
    BY <2>3, PowerDown
  <2> QED
    BY <2>3, <2>4, <2>5
<1> QED
  BY <1>1, <1>2

LEMMA PowerGrows == ASSUME NEW j \in Nat, NEW k \in Nat, j < k PROVE 2 * 2^j <= 2^k
<1> DEFINE T == {i \in Nat : i > j /\ ~(2 * 2^j <= 2^i)}
<1>1. CASE T = {}
  BY <1>1
<1>2. CASE T # {}
  <2>1. PICK m \in T : \A i \in T : m <= i
    BY <1>2, LeastNat
  <2>3. m - 1 \in Nat /\ m - 1 \notin T /\ m >= 1 /\ m \in Nat /\ m > j
        /\ ~(2 * 2^j <= 2^m)
    BY <2>1
  <2>4. 2^m = 2 * 2^(m - 1) /\ 2^(m - 1) \in Nat /\ 2^j \in Nat
    BY <2>3, PowerDown, PowerNat
  <2>5. m - 1 # j
    BY <2>3, <2>4
  <2>6. 2 * 2^j <= 2^(m - 1)
    BY <2>3, <2>5
  <2> QED
    BY <2>3, <2>4, <2>6
<1> QED
  BY <1>1, <1>2

(* A larger power divided by a smaller one. *)
LEMMA PowerParts == ASSUME NEW j \in Nat, NEW k \in Nat, j <= k PROVE 2^k = 2^(k - j) * 2^j
<1> DEFINE T == {i \in Nat : i >= j /\ 2^i # 2^(i - j) * 2^j}
<1>1. CASE T = {}
  BY <1>1
<1>2. CASE T # {}
  <2>1. PICK m \in T : \A i \in T : m <= i
    BY <1>2, LeastNat
  <2>2. m # j
    <3>1. ASSUME m = j PROVE FALSE
      <4>1. 2^(m - j) = 1
        BY <3>1, PowerZero
      <4> QED
        BY <2>1, <3>1, <4>1, PowerNat
    <3> QED
      BY <3>1
  <2>3. m - 1 \in Nat /\ m - 1 \notin T /\ m >= 1 /\ m \in Nat /\ m - 1 >= j
        /\ 2^m # 2^(m - j) * 2^j
    BY <2>1, <2>2
  <2>4. 2^m = 2 * 2^(m - 1)
    BY <2>3, PowerDown
  <2>5. 2^(m - j) = 2 * 2^((m - j) - 1)
    BY <2>3, PowerDown
  <2>6. (m - j) - 1 = (m - 1) - j /\ (m - 1) - j \in Nat
    BY <2>3
  <2>7. 2^(m - 1) = 2^((m - 1) - j) * 2^j
    BY <2>3
  <2>8. PICK a \in Nat, b \in Nat : a = 2^((m - 1) - j) /\ b = 2^j
    BY <2>6, PowerNat
  <2>9. 2 * (a * b) = (2 * a) * b
    OBVIOUS
  <2> QED
    BY <2>3, <2>4, <2>5, <2>6, <2>7, <2>8, <2>9
<1> QED
  BY <1>1, <1>2

LEMMA PowerQuotient ==
  ASSUME NEW j \in Nat, NEW k \in Nat, j <= k PROVE 2^k \div 2^j = 2^(k - j)
<1>1. PICK a \in Nat, b \in Nat : a = 2^(k - j) /\ b = 2^j /\ b >= 1
  BY PowerPositive
<1>2. (a * b + 0) \div b = a
  BY <1>1, DivIs
<1>3. 2^k = a * b /\ a * b \in Nat
  BY <1>1, PowerParts
<1> QED
  BY <1>1, <1>2, <1>3

-----------------------------------------------------------------------------
(* How many rounds there are, and how many matches in each.                *)

LEMMA RoundsAre ==
  ASSUME NEW n \in Nat, n >= 2
  PROVE  /\ Rounds(n) \in Nat /\ Rounds(n) >= 1 /\ Rounds(n) <= n
         /\ n <= 2^Rounds(n) /\ 2^(Rounds(n) - 1) < n
<1> DEFINE T == {v \in Nat : n <= 2^v}
<1>1. n \in T /\ T \subseteq Nat
  BY PowerLarge, PowerNat
<1>2. PICK m \in T : \A v \in T : m <= v
  BY <1>1, LeastNat
<1>3. m \in 0..n /\ n <= 2^m /\ \A v \in 0..n : n <= 2^v => m <= v
  BY <1>1, <1>2
<1>4. /\ Rounds(n) \in 0..n /\ n <= 2^Rounds(n)
      /\ \A v \in 0..n : n <= 2^v => Rounds(n) <= v
  BY <1>3 DEF Rounds
<1>5. Rounds(n) # 0
  <2>1. ASSUME Rounds(n) = 0 PROVE FALSE
    <3>1. 2^Rounds(n) = 1
      BY <2>1, PowerZero
    <3> QED
      BY <1>4, <3>1
  <2> QED
    BY <2>1
<1>6. Rounds(n) - 1 \in 0..n /\ Rounds(n) - 1 \in Nat
  BY <1>4, <1>5
<1>7. ~(n <= 2^(Rounds(n) - 1)) /\ 2^(Rounds(n) - 1) \in Nat
  <2>1. ~(Rounds(n) <= Rounds(n) - 1)
    BY <1>4
  <2> QED
    BY <1>4, <1>6, <2>1, PowerNat
<1> QED
  BY <1>4, <1>5, <1>7

(* The number of matches in a round of a graph with w winners rounds.      *)
Size(w, r) == IF r > 0 THEN 2^(w - r) ELSE 2^(w - 1 - ((1 - r) \div 2))

LEMMA SizeIs ==
  ASSUME NEW w \in Nat, w >= 1, NEW r \in Int, r \in 1..w \/ -r \in 1..2 * w - 2
  PROVE  Size(w, r) \in Nat /\ Size(w, r) >= 1 /\ Size(w, r) <= 2^w
<1>1. PICK k \in Nat : k < w /\ Size(w, r) = 2^k
  <2>1. CASE r \in 1..w
    BY <2>1 DEF Size
  <2>2. CASE -r \in 1..2 * w - 2
    <3>1. (1 - r) \div 2 \in 1..w - 1
      BY <2>2
    <3>2. w - 1 - ((1 - r) \div 2) \in Nat /\ w - 1 - ((1 - r) \div 2) < w
      BY <3>1
    <3>3. ~(r > 0)
      BY <2>2
    <3> QED
      BY <3>2, <3>3 DEF Size
  <2> QED
    BY <2>1, <2>2
<1>2. 2 * 2^k <= 2^w /\ 2^k \in Nat /\ 2^k >= 1 /\ 2^w \in Nat
  BY <1>1, PowerGrows, PowerPositive
<1> QED
  BY <1>1, <1>2

(* The winners bracket halves each round. *)
LEMMA UpperHalves ==
  ASSUME NEW w \in Nat, w >= 1, NEW r \in 1..w - 1
  PROVE  Size(w, r) = 2 * Size(w, r + 1)
<1>1. w - r \in Nat /\ w - r >= 1 /\ (w - r) - 1 = w - (r + 1) /\ r > 0 /\ r + 1 > 0
  OBVIOUS
<1>2. 2^(w - r) = 2 * 2^((w - r) - 1)
  BY <1>1, PowerDown
<1> QED
  BY <1>1, <1>2 DEF Size

LEMMA LastSizes ==
  ASSUME NEW w \in Nat, w >= 1
  PROVE  Size(w, w) = 1 /\ (w >= 2 => Size(w, -(2 * w - 2)) = 1)
<1>1. Size(w, w) = 1
  <2>1. w - w = 0 /\ w > 0
    OBVIOUS
  <2> QED
    BY <2>1, PowerZero DEF Size
<1>2. ASSUME w >= 2 PROVE Size(w, -(2 * w - 2)) = 1
  <2>1. (1 - (-(2 * w - 2))) \div 2 = w - 1 /\ ~(-(2 * w - 2) > 0)
    BY <1>2
  <2>2. w - 1 - (w - 1) = 0
    OBVIOUS
  <2> QED
    BY <2>1, <2>2, PowerZero DEF Size
<1> QED
  BY <1>1, <1>2

(* The losers bracket takes the opening round's losers two to a match, and *)
(* then halves every other round, after those of the winners bracket have  *)
(* come.                                                                   *)
LEMMA LowerHalves ==
  ASSUME NEW w \in Nat, w >= 2
  PROVE  /\ Size(w, 1) = 2 * Size(w, -1)
         /\ \A r \in 2..w : Size(w, r) = Size(w, -(2 * r - 2))
         /\ \A k \in 1..w - 1 : Size(w, -(2 * k - 1)) = Size(w, -(2 * k))
         /\ \A k \in 1..w - 2 : Size(w, -(2 * k)) = 2 * Size(w, -(2 * k + 1))
<1>1. Size(w, 1) = 2^(w - 1) /\ Size(w, -1) = 2^((w - 1) - 1)
  <2>1. (1 - (-1)) \div 2 = 1
    OBVIOUS
  <2>2. w - 1 - 1 = (w - 1) - 1
    OBVIOUS
  <2> QED
    BY <2>1, <2>2 DEF Size
<1>2. ASSUME NEW k \in 1..w - 1
      PROVE  /\ Size(w, -(2 * k - 1)) = 2^(w - 1 - k) /\ Size(w, -(2 * k)) = 2^(w - 1 - k)
             /\ w - 1 - k \in Nat
  <2>1. (1 - (-(2 * k - 1))) \div 2 = k /\ (1 - (-(2 * k))) \div 2 = k
    OBVIOUS
  <2>2. ~(-(2 * k - 1) > 0) /\ ~(-(2 * k) > 0)
    OBVIOUS
  <2> QED
    BY <2>1, <2>2 DEF Size
<1>3. ASSUME NEW r \in 2..w PROVE Size(w, r) = Size(w, -(2 * r - 2))
  <2>1. PICK k \in 1..w - 1 : k = r - 1
    OBVIOUS
  <2>2. 2 * r - 2 = 2 * k /\ w - 1 - k = w - r /\ r > 0
    BY <2>1
  <2>3. Size(w, r) = 2^(w - r)
    BY <2>2 DEF Size
  <2> QED
    BY <1>2, <2>2, <2>3
<1>4. ASSUME NEW k \in 1..w - 2 PROVE Size(w, -(2 * k)) = 2 * Size(w, -(2 * k + 1))
  <2>1. k \in 1..w - 1
    OBVIOUS
  <2>2. PICK l \in 1..w - 1 : l = k + 1
    OBVIOUS
  <2>3. 2 * l - 1 = 2 * k + 1 /\ w - 1 - l = (w - 1 - k) - 1 /\ w - 1 - k >= 1
    BY <2>2
  <2>4. 2^(w - 1 - k) = 2 * 2^((w - 1 - k) - 1)
    BY <1>2, <2>1, <2>3, PowerDown
  <2> QED
    BY <1>2, <2>1, <2>2, <2>3, <2>4
<1>5. 2^(w - 1) = 2 * 2^((w - 1) - 1)
  <2>1. w - 1 \in Nat /\ w - 1 >= 1
    OBVIOUS
  <2> QED
    BY <2>1, PowerDown
<1> QED
  BY <1>1, <1>2, <1>3, <1>4, <1>5

(* The matches of the two brackets. *)
LEMMA WinnersAre ==
  ASSUME NEW n \in Nat, n >= 2, NEW w \in Nat, w = Rounds(n)
  PROVE  \A m : m \in WinnersMatches(n) <=> \E r \in 1..w : \E p \in 1..Size(w, r) : m = <<r, p>>
<1>1. w >= 1
  BY RoundsAre
<1>2. \A r \in 1..w : next_power_of_two(n) \div 2^r = Size(w, r)
  BY <1>1, PowerQuotient DEF next_power_of_two, Size
<1>3. \A m : m \in WinnersMatches(n) <=>
              \E r \in 1..w : \E p \in 1..(next_power_of_two(n) \div 2^r) : m = <<r, p>>
  BY DEF WinnersMatches
<1> QED
  BY <1>2, <1>3

LEMMA LosersAre ==
  ASSUME NEW n \in Nat, n >= 2, NEW w \in Nat, w = Rounds(n)
  PROVE  \A m : m \in LosersMatches(n) <=>
                \E l \in 1..2 * w - 2 : \E p \in 1..Size(w, -l) : m = <<-l, p>>
<1>1. w >= 1
  BY RoundsAre
<1>2. ASSUME NEW l \in 1..2 * w - 2 PROVE LosersRoundSize(n, l) = Size(w, -l)
  <2>1. (l + 1) \div 2 \in 1..w - 1
    BY <1>1
  <2>2. PICK k \in 1..w - 1 : k = (l + 1) \div 2
    BY <2>1
  <2>3. 2^w \div 2^(k + 1) = 2^(w - (k + 1))
    BY <2>2, PowerQuotient
  <2>4. w - (k + 1) = w - 1 - k /\ (1 - (-l)) \div 2 = k /\ ~(-l > 0)
    BY <2>2
  <2> QED
    BY <2>2, <2>3, <2>4 DEF LosersRoundSize, next_power_of_two, Size
<1>3. LosersRounds(n) = 2 * w - 2
  BY DEF LosersRounds
<1>4. \A m : m \in LosersMatches(n) <=>
              \E l \in 1..LosersRounds(n) : \E p \in 1..LosersRoundSize(n, l) : m = <<-l, p>>
  BY DEF LosersMatches
<1> QED
  BY <1>2, <1>3, <1>4

-----------------------------------------------------------------------------
(* The graph of any field: who sits where, and where each result leads,    *)
(* round by round.                                                         *)

AnyStage == [format : {SingleElim, DoubleElim}, n : {k \in Nat : k >= 2}, gfReset : BOOLEAN]

W(g) == Rounds(g.n)

Place(g, r, q) ==
  \/ r \in 1..W(g) /\ q \in 1..Size(W(g), r)
  \/ g.format = DoubleElim /\ -r \in 1..2 * W(g) - 2 /\ q \in 1..Size(W(g), r)
  \/ g.format = DoubleElim /\ r = W(g) + 1 /\ q = 1
  \/ g.format = DoubleElim /\ g.gfReset /\ r = W(g) + 2 /\ q = 1

LEMMA StageIs ==
  ASSUME NEW g \in AnyStage
  PROVE  /\ W(g) \in Nat /\ W(g) >= 1 /\ g.n \in Nat /\ g.n >= 2 /\ g.n <= 2^W(g) /\ 2^(W(g) - 1) < g.n
         /\ g.format \in {SingleElim, DoubleElim} /\ g.gfReset \in BOOLEAN
         /\ SingleElim # DoubleElim
<1>1. g.n \in Nat /\ g.n >= 2 /\ g.format \in {SingleElim, DoubleElim} /\ g.gfReset \in BOOLEAN
  BY DEF AnyStage
<1> QED
  BY <1>1, RoundsAre DEF W, SingleElim, DoubleElim

LEMMA MatchesAre ==
  ASSUME NEW g \in AnyStage
  PROVE  \A m : m \in Matches(g) <=> \E r \in Int : \E q \in Nat : m = <<r, q>> /\ Place(g, r, q)
<1> DEFINE w == W(g)
<1>0. /\ w \in Nat /\ w >= 1 /\ g.n \in Nat /\ g.n >= 2 /\ w = Rounds(g.n)
      /\ g.format \in {SingleElim, DoubleElim} /\ SingleElim # DoubleElim
  BY StageIs DEF W
<1> HIDE DEF w
<1>1. \A m : m \in WinnersMatches(g.n) <=> \E r \in 1..w : \E p \in 1..Size(w, r) : m = <<r, p>>
  BY <1>0, WinnersAre
<1>2. \A m : m \in LosersMatches(g.n) <=>
                \E l \in 1..2 * w - 2 : \E p \in 1..Size(w, -l) : m = <<-l, p>>
  BY <1>0, LosersAre
<1>3. ASSUME NEW m, m \in Matches(g)
      PROVE  \E r \in Int : \E q \in Nat : m = <<r, q>> /\ Place(g, r, q)
  <2>1. CASE m \in WinnersMatches(g.n)
    BY <1>1, <2>1 DEF Place, w
  <2>2. CASE g.format = DoubleElim /\ m \in LosersMatches(g.n)
    <3>1. PICK l \in 1..2 * w - 2 : \E p \in 1..Size(w, -l) : m = <<-l, p>>
      BY <1>2, <2>2
    <3>2. PICK p \in 1..Size(w, -l) : m = <<-l, p>>
      BY <3>1
    <3>3. -l \in Int /\ -(-l) = l /\ p \in Nat
      BY <1>0
    <3> QED
      BY <2>2, <3>2, <3>3 DEF Place, w
  <2>3. CASE g.format = DoubleElim /\ m = GrandFinal(g.n)
    BY <1>0, <2>3 DEF GrandFinal, Place, w
  <2>4. CASE g.format = DoubleElim /\ g.gfReset /\ m = Reset(g.n)
    BY <1>0, <2>4 DEF Reset, Place, w
  <2> QED
    BY <1>0, <1>3, <2>1, <2>2, <2>3, <2>4 DEF Matches, GraphMatches
<1>4. ASSUME NEW r \in Int, NEW q \in Nat, Place(g, r, q)
      PROVE  <<r, q>> \in Matches(g)
  <2>1. CASE r \in 1..w /\ q \in 1..Size(w, r)
    BY <1>1, <2>1 DEF Matches, GraphMatches
  <2>2. CASE g.format = DoubleElim /\ -r \in 1..2 * w - 2 /\ q \in 1..Size(w, r)
    <3>1. -(-r) = r
      OBVIOUS
    <3>2. <<r, q>> \in LosersMatches(g.n)
      BY <1>2, <2>2, <3>1
    <3> QED
      BY <1>0, <2>2, <3>2 DEF Matches, GraphMatches
  <2>3. CASE g.format = DoubleElim /\ r = w + 1 /\ q = 1
    BY <1>0, <2>3 DEF Matches, GraphMatches, GrandFinal
  <2>4. CASE g.format = DoubleElim /\ g.gfReset /\ r = w + 2 /\ q = 1
    BY <1>0, <2>4 DEF Matches, GraphMatches, Reset
  <2> QED
    BY <1>4, <2>1, <2>2, <2>3, <2>4 DEF Place, w
<1> QED
  BY <1>3, <1>4

Onward(g, r, q) ==
  IF r \in 1..W(g) - 1 THEN Halve(r + 1, q)
  ELSE IF g.format = SingleElim THEN NoPointer
  ELSE IF r = W(g) THEN To(W(g) + 1, 1, 1)
  ELSE IF r = -(2 * W(g) - 2) THEN To(W(g) + 1, 1, 2)
  ELSE IF r < 0 /\ (-r) % 2 = 1 THEN To(r - 1, q, 1)
  ELSE IF r < 0 THEN Halve(r - 1, q)
  ELSE IF r = W(g) + 1 /\ g.gfReset THEN To(W(g) + 2, 1, 1) ELSE NoPointer

Aside(g, r, q) ==
  IF g.format = SingleElim \/ r < 0 THEN NoPointer
  ELSE IF r = 1 /\ W(g) = 1 THEN To(2, 1, 2)
  ELSE IF r = 1 THEN Halve(-1, q)
  ELSE IF r \in 2..W(g) THEN To(-(2 * r - 2), q, 2)
  ELSE IF r = W(g) + 1 /\ g.gfReset THEN To(W(g) + 2, 1, 2) ELSE NoPointer

LEMMA WinnerCases ==
  ASSUME NEW g \in AnyStage, NEW r \in Int, NEW q \in Nat, Place(g, r, q),
         NEW x, x = <<r, q>>
  PROVE  /\ g.format = SingleElim => WinnerTo(g)[x] = SEWinnerTo(g.n, x)
         /\ g.format = DoubleElim /\ r < 0 => WinnerTo(g)[x] = LBWinnerTo(g.n, x)
         /\ g.format = DoubleElim /\ r \in 1..Rounds(g.n) =>
              WinnerTo(g)[x] = WBWinnerTo(g.n, x) /\ LoserTo(g)[x] = WBLoserTo(g.n, x)
<1> DEFINE SE == SEWinnerTo(g.n, x)
           LB == LBWinnerTo(g.n, x)
           WB == WBWinnerTo(g.n, x)
           DB == WBLoserTo(g.n, x)
           gf == [match |-> Reset(g.n), slot |-> 1]
           gl == [match |-> Reset(g.n), slot |-> 2]
<1>1. x \in Matches(g) /\ x[1] = r /\ x[2] = q /\ SingleElim # DoubleElim
  BY MatchesAre, StageIs
<1>2. WinnerTo(g)[x] =
        CASE g.format = SingleElim -> SE
          [] g.format = DoubleElim /\ x[1] < 0 -> LB
          [] g.format = DoubleElim /\ x[1] \in 1..Rounds(g.n) -> WB
          [] x = GrandFinal(g.n) /\ g.gfReset /\ g.format = DoubleElim -> gf
          [] OTHER -> NoPointer
  BY <1>1 DEF WinnerTo, GraphWinnerTo, Matches
<1>3. LoserTo(g)[x] =
        CASE g.format = DoubleElim /\ x[1] \in 1..Rounds(g.n) -> DB
          [] x = GrandFinal(g.n) /\ g.gfReset /\ g.format = DoubleElim -> gl
          [] OTHER -> NoPointer
  BY <1>1 DEF LoserTo, GraphLoserTo, Matches
<1>4. x = GrandFinal(g.n) => r = Rounds(g.n) + 1
  BY <1>1 DEF GrandFinal
<1>5. Rounds(g.n) \in Nat
  BY StageIs DEF W
<1>6. ~(r < 0 /\ r \in 1..Rounds(g.n)) /\ ~(r \in 1..Rounds(g.n) /\ r = Rounds(g.n) + 1)
      /\ ~(r < 0 /\ r = Rounds(g.n) + 1)
  BY <1>5
<1> HIDE DEF SE, LB, WB, DB, gf, gl
<1>7. /\ g.format = SingleElim => WinnerTo(g)[x] = SE
      /\ g.format = DoubleElim /\ r < 0 => WinnerTo(g)[x] = LB
      /\ g.format = DoubleElim /\ r \in 1..Rounds(g.n) => WinnerTo(g)[x] = WB /\ LoserTo(g)[x] = DB
  BY <1>1, <1>2, <1>3, <1>4, <1>6
<1> QED
  BY <1>7 DEF SE, LB, WB, DB

LEMMA WinnerGoes ==
  ASSUME NEW g \in AnyStage, NEW r \in Int, NEW q \in Nat, Place(g, r, q),
         NEW x, x = <<r, q>>
  PROVE  WinnerTo(g)[x] = Onward(g, r, q)
<1> DEFINE w == W(g)
<1>0. /\ w \in Nat /\ w >= 1 /\ w = Rounds(g.n) /\ LosersRounds(g.n) = 2 * w - 2
      /\ g.format \in {SingleElim, DoubleElim} /\ SingleElim # DoubleElim
  BY StageIs DEF W, LosersRounds
<1>1. x \in Matches(g) /\ x[1] = r /\ x[2] = q
  BY MatchesAre
<1>2. /\ GrandFinal(g.n) = <<w + 1, 1>> /\ Reset(g.n) = <<w + 2, 1>>
      /\ x = GrandFinal(g.n) => r = w + 1
      /\ r = w + 1 => q = 1 /\ g.format = DoubleElim /\ x = GrandFinal(g.n)
  BY <1>0 DEF GrandFinal, Reset, Place
<1> HIDE DEF w
<1>3. CASE g.format = SingleElim
  <2>1. r \in 1..w
    BY <1>0, <1>3 DEF Place, w
  <2>2. WinnerTo(g)[x] = SEWinnerTo(g.n, x)
    BY <1>3, WinnerCases
  <2> QED
    BY <1>0, <1>1, <1>3, <2>1, <2>2 DEF SEWinnerTo, Onward, w
<1>4. CASE g.format = DoubleElim /\ r < 0
  <2>1. WinnerTo(g)[x] = LBWinnerTo(g.n, x)
    BY <1>0, <1>4, WinnerCases
  <2>2. -r \in 1..2 * w - 2
    BY <1>0, <1>4 DEF Place, w
  <2>3. CASE r = -(2 * w - 2)
    <3>1. -r = LosersRounds(g.n) /\ r \notin 1..w - 1 /\ r # w
      BY <1>0, <1>4, <2>3
    <3>2. LBWinnerTo(g.n, x) = To(w + 1, 1, 2)
      BY <1>1, <1>2, <3>1 DEF LBWinnerTo, To
    <3> QED
      BY <1>0, <1>4, <2>1, <2>3, <3>1, <3>2 DEF Onward, w
  <2>4. CASE r # -(2 * w - 2)
    <3>1. -r # LosersRounds(g.n) /\ -r < LosersRounds(g.n) /\ r \notin 1..w - 1 /\ r # w
          /\ -(-r + 1) = r - 1
      BY <1>0, <1>4, <2>2, <2>4
    <3>2. CASE (-r) % 2 = 1
      <4>1. LBWinnerTo(g.n, x) = To(r - 1, q, 1)
        BY <1>1, <1>2, <3>1, <3>2 DEF LBWinnerTo
      <4> QED
        BY <1>0, <1>4, <2>1, <2>4, <3>1, <3>2, <4>1 DEF Onward, w
    <3>3. CASE (-r) % 2 # 1
      <4>1. LBWinnerTo(g.n, x) = Halve(r - 1, q)
        BY <1>1, <1>2, <3>1, <3>3 DEF LBWinnerTo
      <4> QED
        BY <1>0, <1>4, <2>1, <2>4, <3>1, <3>3, <4>1 DEF Onward, w
    <3> QED
      BY <3>2, <3>3
  <2> QED
    BY <2>3, <2>4
<1>5. CASE g.format = DoubleElim /\ r \in 1..w
  <2>1. WinnerTo(g)[x] = WBWinnerTo(g.n, x)
    BY <1>0, <1>5, WinnerCases
  <2>2. WBWinnerTo(g.n, x) = IF r < w THEN Halve(r + 1, q) ELSE To(w + 1, 1, 1)
    BY <1>0, <1>1, <1>2 DEF WBWinnerTo, To
  <2> QED
    BY <1>0, <1>5, <2>1, <2>2 DEF Onward, w
<1>6. CASE g.format = DoubleElim /\ r = w + 1
  <2>1. ~(x[1] < 0) /\ x[1] \notin 1..Rounds(g.n) /\ x = GrandFinal(g.n)
    BY <1>0, <1>1, <1>2, <1>6
  <2>2. WinnerTo(g)[x] = IF g.gfReset THEN To(w + 2, 1, 1) ELSE NoPointer
    BY <1>0, <1>1, <1>2, <1>6, <2>1 DEF WinnerTo, GraphWinnerTo, Matches, To
  <2>3. r \notin 1..w - 1 /\ r # w /\ r # -(2 * w - 2) /\ ~(r < 0)
    BY <1>0, <1>6
  <2> QED
    BY <1>0, <1>6, <2>2, <2>3 DEF Onward, w
<1>7. CASE g.format = DoubleElim /\ r = w + 2
  <2>1. ~(x[1] < 0) /\ x[1] \notin 1..Rounds(g.n) /\ x # GrandFinal(g.n)
    BY <1>0, <1>1, <1>2, <1>7
  <2>2. WinnerTo(g)[x] = NoPointer
    BY <1>0, <1>1, <1>2, <1>7, <2>1 DEF WinnerTo, GraphWinnerTo, Matches, To
  <2>3. r \notin 1..w - 1 /\ r # w /\ r # -(2 * w - 2) /\ ~(r < 0) /\ r # w + 1
    BY <1>0, <1>7
  <2> QED
    BY <1>0, <1>7, <2>2, <2>3 DEF Onward, w
<1>8. r < 0 \/ r \in 1..w \/ r = w + 1 \/ r = w + 2
  BY <1>0 DEF Place, w
<1> QED
  BY <1>0, <1>3, <1>4, <1>5, <1>6, <1>7, <1>8

LEMMA LoserGoes ==
  ASSUME NEW g \in AnyStage, NEW r \in Int, NEW q \in Nat, Place(g, r, q),
         NEW x, x = <<r, q>>
  PROVE  LoserTo(g)[x] = Aside(g, r, q)
<1> DEFINE w == W(g)
<1>0. /\ w \in Nat /\ w >= 1 /\ w = Rounds(g.n) /\ LosersRounds(g.n) = 2 * w - 2
      /\ g.format \in {SingleElim, DoubleElim} /\ SingleElim # DoubleElim
  BY StageIs DEF W, LosersRounds
<1>1. x \in Matches(g) /\ x[1] = r /\ x[2] = q
  BY MatchesAre
<1>2. /\ GrandFinal(g.n) = <<w + 1, 1>> /\ Reset(g.n) = <<w + 2, 1>>
      /\ x = GrandFinal(g.n) => r = w + 1
      /\ r = w + 1 => q = 1 /\ g.format = DoubleElim /\ x = GrandFinal(g.n)
  BY <1>0 DEF GrandFinal, Reset, Place
<1>9. r = w => q = 1
  <2>1. r = w => q \in 1..Size(w, w)
    BY <1>0 DEF Place
  <2> QED
    BY <1>0, <2>1, LastSizes
<1> HIDE DEF w
<1>3. CASE g.format = SingleElim
  <2>1. r \in 1..w
    BY <1>0, <1>3 DEF Place, w
  <2>2. LoserTo(g)[x] = NoPointer
    BY <1>0, <1>1, <1>3 DEF LoserTo, GraphLoserTo, Matches
  <2> QED
    BY <1>3, <2>2 DEF Aside
<1>4. CASE g.format = DoubleElim /\ r < 0
  <2>1. x[1] \notin 1..Rounds(g.n) /\ x # GrandFinal(g.n)
    BY <1>0, <1>1, <1>2, <1>4
  <2>2. LoserTo(g)[x] = NoPointer
    BY <1>0, <1>1, <1>4, <2>1 DEF LoserTo, GraphLoserTo, Matches
  <2> QED
    BY <1>4, <2>2 DEF Aside
<1>5. CASE g.format = DoubleElim /\ r \in 1..w
  <2>0. LoserTo(g)[x] = WBLoserTo(g.n, x)
    BY <1>0, <1>5, WinnerCases
  <2>1. CASE r = 1 /\ w = 1
    <3>1. WBLoserTo(g.n, x) = To(2, 1, 2)
      BY <1>0, <1>1, <1>2, <2>1 DEF WBLoserTo, To
    <3> QED
      BY <1>0, <1>5, <2>0, <2>1, <3>1 DEF Aside, w
  <2>2. CASE r = 1 /\ w > 1
    <3>1. WBLoserTo(g.n, x) = Halve(-1, q)
      BY <1>0, <1>1, <1>2, <2>2 DEF WBLoserTo
    <3> QED
      BY <1>0, <1>5, <2>0, <2>2, <3>1 DEF Aside, w
  <2>3. CASE r = w /\ w > 1
    <3>1. WBLoserTo(g.n, x) = To(-(2 * w - 2), 1, 2)
      BY <1>0, <1>1, <2>3 DEF WBLoserTo
    <3> QED
      BY <1>0, <1>5, <1>9, <2>0, <2>3, <3>1 DEF Aside, w
  <2>4. CASE r \in 2..w - 1
    <3>1. WBLoserTo(g.n, x) = To(-(2 * r - 2), q, 2)
      BY <1>0, <1>1, <2>4 DEF WBLoserTo
    <3>2. r \in 2..w /\ r # 1 /\ ~(r < 0)
      BY <1>0, <2>4
    <3> QED
      BY <1>0, <1>5, <2>0, <3>1, <3>2 DEF Aside, w
  <2> QED
    BY <1>0, <1>5, <2>1, <2>2, <2>3, <2>4
<1>6. CASE g.format = DoubleElim /\ r = w + 1
  <2>1. ~(x[1] < 0) /\ x[1] \notin 1..Rounds(g.n) /\ x = GrandFinal(g.n)
    BY <1>0, <1>1, <1>2, <1>6
  <2>2. LoserTo(g)[x] = IF g.gfReset THEN To(w + 2, 1, 2) ELSE NoPointer
    BY <1>0, <1>1, <1>2, <1>6, <2>1 DEF LoserTo, GraphLoserTo, Matches, To
  <2>3. r # 1 /\ r \notin 2..w /\ ~(r < 0)
    BY <1>0, <1>6
  <2> QED
    BY <1>0, <1>6, <2>2, <2>3 DEF Aside, w
<1>7. CASE g.format = DoubleElim /\ r = w + 2
  <2>1. ~(x[1] < 0) /\ x[1] \notin 1..Rounds(g.n) /\ x # GrandFinal(g.n)
    BY <1>0, <1>1, <1>2, <1>7
  <2>2. LoserTo(g)[x] = NoPointer
    BY <1>0, <1>1, <1>2, <1>7, <2>1 DEF LoserTo, GraphLoserTo, Matches, To
  <2>3. r # 1 /\ r \notin 2..w /\ ~(r < 0) /\ r # w + 1
    BY <1>0, <1>7
  <2> QED
    BY <1>0, <1>7, <2>2, <2>3 DEF Aside, w
<1>8. r < 0 \/ r \in 1..w \/ r = w + 1 \/ r = w + 2
  BY <1>0 DEF Place, w
<1> QED
  BY <1>0, <1>3, <1>4, <1>5, <1>6, <1>7, <1>8

-----------------------------------------------------------------------------
(* Each slot's source, found backwards.                                    *)

LEMMA ToApart ==
  ASSUME NEW a \in Int, NEW b \in Int, NEW s \in Int, NEW c \in Int, NEW d \in Int, NEW t \in Int,
         To(a, b, s) = To(c, d, t)
  PROVE  a = c /\ b = d /\ s = t
<1>1. To(a, b, s).match = To(c, d, t).match /\ To(a, b, s).slot = To(c, d, t).slot
  OBVIOUS
<1>2. <<a, b>> = <<c, d>> /\ s = t
  BY <1>1 DEF To
<1> QED
  BY <1>2

LEMMA ToNowhere ==
  ASSUME NEW a \in Int, NEW b \in Int, NEW s \in Slot
  PROVE  To(a, b, s) # NoPointer
BY PointerAssumption DEF To

LEMMA HalveIs ==
  ASSUME NEW a \in Int, NEW q \in Nat, q >= 1
  PROVE  \E p \in Nat \ {0} : \E s \in Slot : Halve(a, q) = To(a, p, s) /\ q = 2 * p - 2 + s
<1>1. q % 2 \in {0, 1} /\ q = 2 * (q \div 2) + (q % 2) /\ q \div 2 \in Nat
  OBVIOUS
<1>2. CASE q % 2 = 1
  <2>1. (q + 1) \div 2 = q \div 2 + 1
    BY <1>1, <1>2
  <2>2. Halve(a, q) = To(a, q \div 2 + 1, 1)
    BY <1>2, <2>1 DEF Halve
  <2>3. q = 2 * (q \div 2 + 1) - 2 + 1 /\ q \div 2 + 1 \in Nat \ {0}
    BY <1>1, <1>2
  <2> QED
    BY <2>2, <2>3 DEF Slot
<1>3. CASE q % 2 = 0
  <2>1. (q + 1) \div 2 = q \div 2
    BY <1>1, <1>3
  <2>2. Halve(a, q) = To(a, q \div 2, 2)
    BY <1>3, <2>1 DEF Halve
  <2>3. q = 2 * (q \div 2) - 2 + 2 /\ q \div 2 \in Nat \ {0}
    BY <1>1, <1>3
  <2> QED
    BY <2>2, <2>3 DEF Slot
<1> QED
  BY <1>1, <1>2, <1>3

(* The other way round. *)
LEMMA Halved ==
  ASSUME NEW a \in Int, NEW p \in Nat, p >= 1, NEW s \in Slot
  PROVE  /\ 2 * p - 2 + s \in Nat /\ 2 * p - 2 + s >= 1 /\ 2 * p - 2 + s <= 2 * p
         /\ Halve(a, 2 * p - 2 + s) = To(a, p, s)
<1>1. s = 1 \/ s = 2
  BY DEF Slot
<1>2. CASE s = 1
  <2>1. (2 * p - 2 + s + 1) \div 2 = p /\ (2 * p - 2 + s) % 2 = 1
    BY <1>2
  <2> QED
    BY <1>2, <2>1 DEF Halve
<1>3. CASE s = 2
  <2>1. (2 * p - 2 + s + 1) \div 2 = p /\ (2 * p - 2 + s) % 2 = 0
    BY <1>3
  <2> QED
    BY <1>3, <2>1 DEF Halve
<1> QED
  BY <1>1, <1>2, <1>3

(* The round and the position of the match that feeds a slot, and whether  *)
(* it is its winner that comes.                                            *)
SourceRound(g, a, s) ==
  IF a = W(g) + 2 THEN W(g) + 1
  ELSE IF a = W(g) + 1 THEN (IF s = 2 /\ W(g) > 1 THEN -(2 * W(g) - 2) ELSE W(g))
  ELSE IF a > 0 THEN a - 1
  ELSE IF a = -1 THEN 1
  ELSE IF a % 2 = 1 \/ s = 1 THEN a + 1
  ELSE (-a) \div 2 + 1

SourcePosition(g, a, b, s) ==
  IF a > W(g) THEN 1
  ELSE IF a > 0 \/ a % 2 = 1 THEN 2 * b - 2 + s
  ELSE b

SourceResult(g, a, s) ==
  IF \/ a = -1
     \/ a = W(g) + 1 /\ W(g) = 1 /\ s = 2
     \/ a = W(g) + 2 /\ s = 2
     \/ a < 0 /\ a % 2 # 1 /\ s = 2
  THEN "loser" ELSE "winner"

(* The classes of pointers, one by one. *)
LEMMA OnwardIs ==
  ASSUME NEW g \in AnyStage, NEW r \in Int, NEW q \in Nat, Place(g, r, q)
  PROVE  \/ Onward(g, r, q) = NoPointer /\ r >= W(g)
         \/ \E a \in Int : \E b \in Nat \ {0} : \E s \in Slot :
              /\ Onward(g, r, q) = To(a, b, s)
              /\ r = SourceRound(g, a, s) /\ q = SourcePosition(g, a, b, s) /\ SourceResult(g, a, s) = "winner"
<1> DEFINE w == W(g)
<1>0. /\ w \in Nat /\ w >= 1 /\ g.format \in {SingleElim, DoubleElim} /\ SingleElim # DoubleElim
  BY StageIs
<1>p. /\ q >= 1 /\ (r = w => q = 1) /\ (r < 0 => -r \in 1..2 * w - 2) /\ (r = -(2 * w - 2) => q = 1)
      /\ (r > 0 \/ r < 0) /\ (r < 0 \/ r > w => g.format = DoubleElim)
      /\ (r > w => q = 1)
  <2>1. Size(w, w) = 1 /\ (w >= 2 => Size(w, -(2 * w - 2)) = 1)
    BY <1>0, LastSizes
  <2>2. \/ r \in 1..w /\ q \in 1..Size(w, r)
        \/ g.format = DoubleElim /\ -r \in 1..2 * w - 2 /\ q \in 1..Size(w, r)
        \/ g.format = DoubleElim /\ r > w /\ q = 1
    BY <1>0 DEF Place
  <2>3. r = -(2 * w - 2) /\ r < 0 => w >= 2
    BY <1>0
  <2>4. r = w => Size(w, r) = 1
    BY <2>1
  <2>5. r = -(2 * w - 2) /\ r < 0 => Size(w, r) = 1
    BY <2>1, <2>3
  <2>6. CASE r \in 1..w /\ q \in 1..Size(w, r)
    BY <1>0, <2>4, <2>6
  <2>7. CASE g.format = DoubleElim /\ -r \in 1..2 * w - 2 /\ q \in 1..Size(w, r)
    BY <1>0, <2>5, <2>7
  <2>8. CASE g.format = DoubleElim /\ r > w /\ q = 1
    BY <1>0, <2>8
  <2> QED
    BY <2>2, <2>6, <2>7, <2>8
<1>s. 1 \in Slot /\ 2 \in Slot
  BY DEF Slot
<1> HIDE DEF w
<1>1. CASE r \in 1..w - 1
  <2>a. r + 1 \in Int
    OBVIOUS
  <2>b. PICK p \in Nat \ {0} : \E s \in Slot : Halve(r + 1, q) = To(r + 1, p, s) /\ q = 2 * p - 2 + s
    BY <1>p, <2>a, HalveIs
  <2>1. PICK s \in Slot : Halve(r + 1, q) = To(r + 1, p, s) /\ q = 2 * p - 2 + s
    BY <2>b
  <2>2. Onward(g, r, q) = To(r + 1, p, s)
    BY <1>1, <2>1 DEF Onward, w
  <2>3. r + 1 \in Int /\ r + 1 # w + 2 /\ r + 1 # w + 1 /\ r + 1 > 0 /\ ~(r + 1 > w) /\ r = (r + 1) - 1
    BY <1>0, <1>1
  <2>4. r = SourceRound(g, r + 1, s) /\ q = SourcePosition(g, r + 1, p, s) /\ SourceResult(g, r + 1, s) = "winner"
    BY <2>1, <2>3 DEF SourceRound, SourcePosition, SourceResult, w
  <2> QED
    BY <2>2, <2>3, <2>4
<1>2. CASE r \notin 1..w - 1 /\ g.format = SingleElim
  <2>1. r >= w
    BY <1>0, <1>p, <1>2
  <2> QED
    BY <1>2, <2>1 DEF Onward, w
<1>3. CASE r = w /\ g.format = DoubleElim
  <2>1. Onward(g, r, q) = To(w + 1, 1, 1)
    BY <1>0, <1>3 DEF Onward, w
  <2>2. w + 1 \in Int /\ w + 1 # w + 2 /\ w + 1 > w /\ w + 1 > 0 /\ 1 \in Nat \ {0}
    BY <1>0
  <2>3. r = SourceRound(g, w + 1, 1) /\ q = SourcePosition(g, w + 1, 1, 1) /\ SourceResult(g, w + 1, 1) = "winner"
    BY <1>3, <1>p, <2>2 DEF SourceRound, SourcePosition, SourceResult, w
  <2> QED
    BY <1>s, <2>1, <2>2, <2>3
<1>4. CASE r = -(2 * w - 2) /\ r < 0
  <2>0. w > 1 /\ r \notin 1..w - 1 /\ r # w /\ g.format = DoubleElim
    BY <1>0, <1>p, <1>4
  <2>1. Onward(g, r, q) = To(w + 1, 1, 2)
    BY <1>0, <1>4, <2>0 DEF Onward, w
  <2>2. w + 1 \in Int /\ w + 1 # w + 2 /\ w + 1 > w /\ w + 1 > 0 /\ 1 \in Nat \ {0}
    BY <1>0
  <2>3. r = SourceRound(g, w + 1, 2) /\ q = SourcePosition(g, w + 1, 1, 2) /\ SourceResult(g, w + 1, 2) = "winner"
    BY <1>4, <1>p, <2>0, <2>2 DEF SourceRound, SourcePosition, SourceResult, w
  <2> QED
    BY <1>s, <2>1, <2>2, <2>3
<1>5. CASE r # -(2 * w - 2) /\ r < 0 /\ (-r) % 2 = 1
  <2>0. r \notin 1..w - 1 /\ r # w /\ g.format = DoubleElim
    BY <1>0, <1>p, <1>5
  <2>1. Onward(g, r, q) = To(r - 1, q, 1)
    BY <1>0, <1>5, <2>0 DEF Onward, w
  <2>2. /\ r - 1 \in Int /\ r - 1 # w + 2 /\ r - 1 # w + 1 /\ ~(r - 1 > 0) /\ ~(r - 1 > w) /\ r - 1 # -1
        /\ (r - 1) % 2 # 1 /\ q \in Nat \ {0} /\ r = (r - 1) + 1
    BY <1>0, <1>p, <1>5
  <2>3. r = SourceRound(g, r - 1, 1) /\ q = SourcePosition(g, r - 1, q, 1) /\ SourceResult(g, r - 1, 1) = "winner"
    BY <2>2 DEF SourceRound, SourcePosition, SourceResult, w
  <2> QED
    BY <1>s, <2>1, <2>2, <2>3
<1>6. CASE r # -(2 * w - 2) /\ r < 0 /\ (-r) % 2 # 1
  <2>0. r \notin 1..w - 1 /\ r # w /\ g.format = DoubleElim
    BY <1>0, <1>p, <1>6
  <2>a. r - 1 \in Int
    OBVIOUS
  <2>b. PICK p \in Nat \ {0} : \E s \in Slot : Halve(r - 1, q) = To(r - 1, p, s) /\ q = 2 * p - 2 + s
    BY <1>p, <2>a, HalveIs
  <2>1. PICK s \in Slot : Halve(r - 1, q) = To(r - 1, p, s) /\ q = 2 * p - 2 + s
    BY <2>b
  <2>2. Onward(g, r, q) = To(r - 1, p, s)
    BY <1>0, <1>6, <2>0, <2>1 DEF Onward, w
  <2>3. /\ r - 1 \in Int /\ r - 1 # w + 2 /\ r - 1 # w + 1 /\ ~(r - 1 > 0) /\ ~(r - 1 > w) /\ r - 1 # -1
        /\ (r - 1) % 2 = 1 /\ r = (r - 1) + 1
    BY <1>0, <1>p, <1>6
  <2>4. r = SourceRound(g, r - 1, s) /\ q = SourcePosition(g, r - 1, p, s) /\ SourceResult(g, r - 1, s) = "winner"
    BY <2>1, <2>3 DEF SourceRound, SourcePosition, SourceResult, w
  <2> QED
    BY <2>1, <2>2, <2>3, <2>4
<1>7. CASE r > w
  <2>0. r \notin 1..w - 1 /\ r # w /\ ~(r < 0) /\ r # -(2 * w - 2) /\ g.format = DoubleElim
    BY <1>0, <1>p, <1>7
  <2>1. Onward(g, r, q) = IF r = w + 1 /\ g.gfReset THEN To(w + 2, 1, 1) ELSE NoPointer
    BY <1>0, <2>0 DEF Onward, w
  <2>2. CASE r = w + 1 /\ g.gfReset
    <3>1. w + 2 \in Int /\ w + 2 > w /\ 1 \in Nat \ {0}
      BY <1>0
    <3>2. r = SourceRound(g, w + 2, 1) /\ q = SourcePosition(g, w + 2, 1, 1) /\ SourceResult(g, w + 2, 1) = "winner"
      BY <1>0, <1>p, <1>7, <2>2, <3>1 DEF SourceRound, SourcePosition, SourceResult, w
    <3> QED
      BY <1>s, <2>1, <2>2, <3>1, <3>2
  <2>3. CASE ~(r = w + 1 /\ g.gfReset)
    <3>1. Onward(g, r, q) = NoPointer /\ r >= w
      BY <1>0, <1>7, <2>1, <2>3
    <3> QED
      BY <3>1 DEF w
  <2> QED
    BY <2>2, <2>3
<1>8. r \in 1..w - 1 \/ r = w \/ r > w \/ r < 0
  BY <1>0, <1>p
<1> QED
  BY <1>0, <1>1, <1>2, <1>3, <1>4, <1>5, <1>6, <1>7, <1>8

(* What every place is. *)
LEMMA PlaceIs ==
  ASSUME NEW g \in AnyStage, NEW r \in Int, NEW q \in Nat, Place(g, r, q)
  PROVE  /\ q >= 1 /\ (r = W(g) => q = 1) /\ (r < 0 => -r \in 1..2 * W(g) - 2)
         /\ (r = -(2 * W(g) - 2) => q = 1)
         /\ (r > 0 \/ r < 0) /\ (r < 0 \/ r > W(g) => g.format = DoubleElim)
         /\ (r > W(g) => q = 1)
         /\ (r = W(g) + 2 => g.gfReset)
         /\ (r = W(g) + 1 \/ r = W(g) + 2 \/ r <= W(g))
<1> DEFINE w == W(g)
<1>0. w \in Nat /\ w >= 1
  BY StageIs
<1>1. Size(w, w) = 1 /\ (w >= 2 => Size(w, -(2 * w - 2)) = 1)
  BY <1>0, LastSizes
<1>2. r = -(2 * w - 2) /\ r < 0 => w >= 2
  BY <1>0
<1>3. r = w => Size(w, r) = 1
  BY <1>1
<1>4. r = -(2 * w - 2) /\ r < 0 => Size(w, r) = 1
  BY <1>1, <1>2
<1>5. \/ r \in 1..w /\ q \in 1..Size(w, r)
      \/ g.format = DoubleElim /\ -r \in 1..2 * w - 2 /\ q \in 1..Size(w, r)
      \/ g.format = DoubleElim /\ r = w + 1 /\ q = 1
      \/ g.format = DoubleElim /\ g.gfReset /\ r = w + 2 /\ q = 1
  BY DEF Place
<1> HIDE DEF w
<1>6. CASE r \in 1..w /\ q \in 1..Size(w, r)
  BY <1>0, <1>3, <1>6 DEF w
<1>7. CASE g.format = DoubleElim /\ -r \in 1..2 * w - 2 /\ q \in 1..Size(w, r)
  BY <1>0, <1>4, <1>7 DEF w
<1>8. CASE g.format = DoubleElim /\ r = w + 1 /\ q = 1
  BY <1>0, <1>8 DEF w
<1>9. CASE g.format = DoubleElim /\ g.gfReset /\ r = w + 2 /\ q = 1
  BY <1>0, <1>9 DEF w
<1> QED
  BY <1>5, <1>6, <1>7, <1>8, <1>9

LEMMA OddBelow == (-1) % 2 = 1
<1>1. \A m \in Int : m % 2 \in {0, 1} /\ m = 2 * (m \div 2) + (m % 2)
  OBVIOUS
<1>2. \A m \in Int : m + 1 = 0 => m % 2 = 1
  BY <1>1
<1>3. -1 \in Int /\ (-1) + 1 = 0
  OBVIOUS
<1> QED
  BY <1>2, <1>3

LEMMA AsideIs ==
  ASSUME NEW g \in AnyStage, NEW r \in Int, NEW q \in Nat, Place(g, r, q)
  PROVE  \/ Aside(g, r, q) = NoPointer
         \/ \E a \in Int : \E b \in Nat \ {0} : \E s \in Slot :
              /\ Aside(g, r, q) = To(a, b, s)
              /\ r = SourceRound(g, a, s) /\ q = SourcePosition(g, a, b, s) /\ SourceResult(g, a, s) = "loser"
<1> DEFINE w == W(g)
<1>0. /\ w \in Nat /\ w >= 1 /\ g.format \in {SingleElim, DoubleElim} /\ SingleElim # DoubleElim
  BY StageIs
<1>p. q >= 1 /\ (r = w => q = 1) /\ (r > w => q = 1) /\ (r > 0 \/ r < 0)
  BY PlaceIs
<1>s. 1 \in Slot /\ 2 \in Slot /\ 1 \in Nat \ {0} /\ q \in Nat \ {0}
  BY <1>p DEF Slot
<1> HIDE DEF w
<1>1. CASE g.format = SingleElim \/ r < 0
  BY <1>1 DEF Aside
<1>2. CASE ~(g.format = SingleElim \/ r < 0) /\ r = 1 /\ w = 1
  <2>1. Aside(g, r, q) = To(2, 1, 2)
    BY <1>2 DEF Aside, w
  <2>2. 2 \in Int /\ 2 # w + 2 /\ 2 = w + 1 /\ 2 > w /\ 2 > 0
    BY <1>2
  <2>3. r = SourceRound(g, 2, 2) /\ q = SourcePosition(g, 2, 1, 2) /\ SourceResult(g, 2, 2) = "loser"
    BY <1>2, <1>p, <2>2 DEF SourceRound, SourcePosition, SourceResult, w
  <2> QED
    BY <1>s, <2>1, <2>2, <2>3
<1>3. CASE ~(g.format = SingleElim \/ r < 0) /\ r = 1 /\ w # 1
  <2>a. -1 \in Int
    OBVIOUS
  <2>b. PICK p \in Nat \ {0} : \E s \in Slot : Halve(-1, q) = To(-1, p, s) /\ q = 2 * p - 2 + s
    BY <1>p, <2>a, HalveIs
  <2>c. PICK s \in Slot : Halve(-1, q) = To(-1, p, s) /\ q = 2 * p - 2 + s
    BY <2>b
  <2>1. Aside(g, r, q) = To(-1, p, s)
    BY <1>3, <2>c DEF Aside, w
  <2>2. -1 # w + 2 /\ -1 # w + 1 /\ ~(-1 > w) /\ ~(-1 > 0) /\ (-1) % 2 = 1
    BY <1>0, OddBelow
  <2>3. r = SourceRound(g, -1, s) /\ q = SourcePosition(g, -1, p, s) /\ SourceResult(g, -1, s) = "loser"
    BY <1>3, <2>c, <2>2 DEF SourceRound, SourcePosition, SourceResult, w
  <2> QED
    BY <2>a, <2>1, <2>3
<1>4. CASE ~(g.format = SingleElim \/ r < 0) /\ r \in 2..w
  <2>1. Aside(g, r, q) = To(-(2 * r - 2), q, 2)
    BY <1>0, <1>4 DEF Aside, w
  <2>a. PICK a \in Int : a = -(2 * r - 2)
    OBVIOUS
  <2>2. /\ a # w + 2 /\ a # w + 1 /\ ~(a > w) /\ ~(a > 0) /\ a # -1 /\ a % 2 # 1
        /\ (-a) \div 2 + 1 = r /\ a < 0
    BY <1>0, <1>4, <2>a
  <2>3. r = SourceRound(g, a, 2) /\ q = SourcePosition(g, a, q, 2) /\ SourceResult(g, a, 2) = "loser"
    BY <2>2 DEF SourceRound, SourcePosition, SourceResult, w
  <2> QED
    BY <1>s, <2>1, <2>a, <2>3
<1>5. CASE ~(g.format = SingleElim \/ r < 0) /\ r > w
  <2>1. Aside(g, r, q) = IF r = w + 1 /\ g.gfReset THEN To(w + 2, 1, 2) ELSE NoPointer
    BY <1>0, <1>5 DEF Aside, w
  <2>2. CASE r = w + 1 /\ g.gfReset
    <3>1. w + 2 \in Int /\ w + 2 > w
      BY <1>0
    <3>2. r = SourceRound(g, w + 2, 2) /\ q = SourcePosition(g, w + 2, 1, 2) /\ SourceResult(g, w + 2, 2) = "loser"
      BY <1>p, <1>5, <2>2, <3>1 DEF SourceRound, SourcePosition, SourceResult, w
    <3> QED
      BY <1>s, <2>1, <2>2, <3>1, <3>2
  <2> QED
    BY <2>1, <2>2
<1>6. r < 0 \/ r = 1 \/ r \in 2..w \/ r > w
  BY <1>0, <1>p
<1> QED
  BY <1>1, <1>2, <1>3, <1>4, <1>5, <1>6

(* And every slot of a later round has one.                                *)
LEMMA SourceIs ==
  ASSUME NEW g \in AnyStage, NEW a \in Int, NEW b \in Nat, Place(g, a, b), a # 1, NEW s \in Slot
  PROVE  /\ SourceRound(g, a, s) \in Int /\ SourcePosition(g, a, b, s) \in Nat
         /\ Place(g, SourceRound(g, a, s), SourcePosition(g, a, b, s))
         /\ IF SourceResult(g, a, s) = "winner"
            THEN Onward(g, SourceRound(g, a, s), SourcePosition(g, a, b, s)) = To(a, b, s)
            ELSE Aside(g, SourceRound(g, a, s), SourcePosition(g, a, b, s)) = To(a, b, s)
<1> DEFINE w == W(g)
           r == SourceRound(g, a, s)
           q == SourcePosition(g, a, b, s)
<1>0. /\ w \in Nat /\ w >= 1 /\ g.format \in {SingleElim, DoubleElim} /\ SingleElim # DoubleElim
  BY StageIs
<1>p. /\ b >= 1 /\ (a = w => b = 1) /\ (a < 0 => -a \in 1..2 * w - 2) /\ (a = -(2 * w - 2) => b = 1)
      /\ (a > 0 \/ a < 0) /\ (a < 0 \/ a > w => g.format = DoubleElim)
      /\ (a > w => b = 1) /\ (a = w + 2 => g.gfReset) /\ (a = w + 1 \/ a = w + 2 \/ a <= w)
  BY PlaceIs
<1>z. (a \in 1..w \/ a < 0) => b \in 1..Size(w, a)
  BY <1>0, <1>p DEF Place
<1>h. /\ 2 * b - 2 + s \in Nat /\ 2 * b - 2 + s >= 1 /\ 2 * b - 2 + s <= 2 * b
      /\ \A c \in Int : Halve(c, 2 * b - 2 + s) = To(c, b, s)
  BY <1>p, Halved
<1>s. s = 1 \/ s = 2
  BY DEF Slot
<1>l. Size(w, w) = 1 /\ (w >= 2 => Size(w, -(2 * w - 2)) = 1)
  BY <1>0, LastSizes
<1> HIDE DEF w
<1>1. CASE a = w + 2
  <2>1. r = w + 1 /\ q = 1 /\ SourceResult(g, a, s) = (IF s = 1 THEN "winner" ELSE "loser")
    BY <1>0, <1>1, <1>s DEF SourceRound, SourcePosition, SourceResult, w
  <2>2. w + 1 \in Int /\ 1 \in Nat /\ Place(g, w + 1, 1)
    BY <1>0, <1>p, <1>1 DEF Place, w
  <2>3. w + 1 \notin 1..w - 1 /\ w + 1 # w /\ w + 1 # -(2 * w - 2) /\ ~(w + 1 < 0) /\ w + 1 # 1 /\ w + 1 \notin 2..w
        /\ w + 1 > w /\ a > w
    BY <1>0, <1>1
  <2>4. Onward(g, w + 1, 1) = To(w + 2, 1, 1) /\ Aside(g, w + 1, 1) = To(w + 2, 1, 2)
    BY <1>0, <1>p, <1>1, <2>3 DEF Onward, Aside, w
  <2> QED
    BY <1>p, <1>s, <1>1, <2>1, <2>2, <2>3, <2>4
<1>2. CASE a = w + 1 /\ s = 1
  <2>1. r = w /\ q = 1 /\ SourceResult(g, a, s) = "winner"
    BY <1>0, <1>2 DEF SourceRound, SourcePosition, SourceResult, w
  <2>2. w \in Int /\ 1 \in Nat /\ Place(g, w, 1)
    BY <1>0, <1>l DEF Place, w
  <2>3. w \notin 1..w - 1 /\ a > w
    BY <1>0, <1>2
  <2>4. Onward(g, w, 1) = To(w + 1, 1, 1)
    BY <1>0, <1>p, <1>2, <2>3 DEF Onward, w
  <2> QED
    BY <1>p, <1>2, <2>1, <2>2, <2>3, <2>4
<1>3. CASE a = w + 1 /\ s = 2 /\ w = 1
  <2>1. r = 1 /\ q = 1 /\ SourceResult(g, a, s) = "loser"
    BY <1>0, <1>3 DEF SourceRound, SourcePosition, SourceResult, w
  <2>2. 1 \in Int /\ 1 \in Nat /\ Place(g, 1, 1)
    BY <1>0, <1>3, <1>l DEF Place, w
  <2>4. Aside(g, 1, 1) = To(2, 1, 2)
    BY <1>0, <1>p, <1>3 DEF Aside, w
  <2> QED
    BY <1>p, <1>3, <2>1, <2>2, <2>4
<1>4. CASE a = w + 1 /\ s = 2 /\ w > 1
  <2>1. r = -(2 * w - 2) /\ q = 1 /\ SourceResult(g, a, s) = "winner"
    BY <1>0, <1>4 DEF SourceRound, SourcePosition, SourceResult, w
  <2>a. PICK l \in Int : l = -(2 * w - 2)
    BY <1>0
  <2>b. l < 0 /\ -l \in 1..2 * w - 2 /\ a > w
    BY <1>0, <1>4, <2>a
  <2>2. Place(g, l, 1)
    BY <1>0, <1>4, <1>l, <1>p, <2>a, <2>b DEF Place, w
  <2>3. l \notin 1..w - 1 /\ l # w
    BY <1>0, <2>b
  <2>4. Onward(g, l, 1) = To(w + 1, 1, 2)
    BY <1>0, <1>p, <1>4, <2>a, <2>b, <2>3 DEF Onward, w
  <2> QED
    BY <1>p, <1>4, <2>1, <2>2, <2>a, <2>b, <2>4
<1>5. CASE a \in 2..w
  <2>1. r = a - 1 /\ q = 2 * b - 2 + s /\ SourceResult(g, a, s) = "winner"
    BY <1>0, <1>5 DEF SourceRound, SourcePosition, SourceResult, w
  <2>2. a - 1 \in 1..w - 1 /\ a - 1 \in 1..w /\ (a - 1) + 1 = a
    BY <1>0, <1>5
  <2>3. Size(w, a - 1) = 2 * Size(w, a) /\ Size(w, a) \in Nat
    <3>1. Size(w, a - 1) = 2 * Size(w, (a - 1) + 1)
      BY <1>0, <2>2, UpperHalves
    <3>2. Size(w, a) \in Nat
      BY <1>0, <1>5, SizeIs
    <3> QED
      BY <2>2, <3>1, <3>2
  <2>4. 2 * b - 2 + s \in 1..Size(w, a - 1)
    BY <1>5, <1>h, <1>z, <2>3
  <2>5. Place(g, a - 1, 2 * b - 2 + s)
    BY <2>2, <2>4 DEF Place, w
  <2>6. Onward(g, a - 1, 2 * b - 2 + s) = To(a, b, s)
    BY <1>h, <2>2 DEF Onward, w
  <2> QED
    BY <1>h, <2>1, <2>5, <2>6
<1>6. CASE a = -1
  <2>1. r = 1 /\ q = 2 * b - 2 + s /\ SourceResult(g, a, s) = "loser"
    <3>1. a # w + 2 /\ a # w + 1 /\ ~(a > w) /\ ~(a > 0) /\ a % 2 = 1
      BY <1>0, <1>6, OddBelow
    <3> QED
      BY <1>6, <3>1 DEF SourceRound, SourcePosition, SourceResult, w
  <2>2. w > 1 /\ 1 \in 1..w
    BY <1>0, <1>p, <1>6
  <2>3. Size(w, 1) = 2 * Size(w, -1) /\ Size(w, -1) \in Nat
    <3>1. w >= 2
      BY <1>0, <2>2
    <3>2. Size(w, 1) = 2 * Size(w, -1)
      BY <1>0, <3>1, LowerHalves
    <3>3. Size(w, a) \in Nat
      BY <1>0, <1>p, <1>6, SizeIs
    <3> QED
      BY <1>6, <3>2, <3>3
  <2>4. 2 * b - 2 + s \in 1..Size(w, 1)
    <3>1. b \in 1..Size(w, -1)
      BY <1>6, <1>z
    <3> QED
      BY <1>h, <3>1, <2>3
  <2>5. Place(g, 1, 2 * b - 2 + s)
    BY <2>2, <2>4 DEF Place, w
  <2>6. Aside(g, 1, 2 * b - 2 + s) = To(a, b, s)
    BY <1>0, <1>h, <1>p, <1>6, <2>2 DEF Aside, w
  <2> QED
    BY <1>h, <2>1, <2>5, <2>6
<1>7. CASE a < 0 /\ a # -1 /\ a % 2 = 1
  <2>1. r = a + 1 /\ q = 2 * b - 2 + s /\ SourceResult(g, a, s) = "winner"
    <3>1. a # w + 2 /\ a # w + 1 /\ ~(a > w) /\ ~(a > 0)
      BY <1>0, <1>7
    <3> QED
      BY <1>7, <3>1 DEF SourceRound, SourcePosition, SourceResult, w
  <2>2. PICK k \in 1..w - 2 : a = -(2 * k + 1)
    <3>1. PICK k \in Nat : a = -(2 * k + 1)
      <4>1. (-a - 1) \div 2 \in Nat /\ a = -(2 * ((-a - 1) \div 2) + 1)
        BY <1>7
      <4> QED
        BY <4>1
    <3> QED
      BY <1>0, <1>p, <1>7, <3>1
  <2>3. /\ a + 1 = -(2 * k) /\ a + 1 < 0 /\ -(a + 1) \in 1..2 * w - 2 /\ (-(a + 1)) % 2 # 1
        /\ a + 1 # -(2 * w - 2) /\ a + 1 \notin 1..w - 1 /\ a + 1 # w /\ (a + 1) - 1 = a /\ a + 1 \in Int
        /\ w >= 2
    BY <1>0, <2>2
  <2>4. Size(w, a + 1) = 2 * Size(w, a) /\ Size(w, a) \in Nat
    <3>1. Size(w, -(2 * k)) = 2 * Size(w, -(2 * k + 1))
      BY <1>0, <2>3, LowerHalves
    <3>2. Size(w, a) \in Nat
      BY <1>0, <1>p, <1>7, SizeIs
    <3> QED
      BY <2>2, <2>3, <3>1, <3>2
  <2>5. 2 * b - 2 + s \in 1..Size(w, a + 1)
    BY <1>7, <1>h, <1>z, <2>4
  <2>6. Place(g, a + 1, 2 * b - 2 + s)
    BY <1>p, <1>7, <2>3, <2>5 DEF Place, w
  <2>7. Onward(g, a + 1, 2 * b - 2 + s) = To(a, b, s)
    BY <1>0, <1>p, <1>7, <1>h, <2>3 DEF Onward, w
  <2> QED
    BY <1>h, <2>1, <2>3, <2>6, <2>7
<1>8. CASE a < 0 /\ a % 2 # 1 /\ s = 1
  <2>1. r = a + 1 /\ q = b /\ SourceResult(g, a, s) = "winner"
    <3>1. a # w + 2 /\ a # w + 1 /\ ~(a > w) /\ ~(a > 0) /\ a # -1
      BY <1>0, <1>8
    <3> QED
      BY <1>8, <3>1 DEF SourceRound, SourcePosition, SourceResult, w
  <2>2. PICK k \in 1..w - 1 : a = -(2 * k)
    <3>1. PICK k \in Nat : a = -(2 * k)
      <4>1. (-a) \div 2 \in Nat /\ a = -(2 * ((-a) \div 2))
        BY <1>8
      <4> QED
        BY <4>1
    <3> QED
      BY <1>0, <1>p, <1>8, <3>1
  <2>3. /\ a + 1 = -(2 * k - 1) /\ a + 1 < 0 /\ -(a + 1) \in 1..2 * w - 2 /\ (-(a + 1)) % 2 = 1
        /\ a + 1 # -(2 * w - 2) /\ a + 1 \notin 1..w - 1 /\ a + 1 # w /\ (a + 1) - 1 = a /\ a + 1 \in Int
        /\ w >= 2
    BY <1>0, <2>2
  <2>4. Size(w, a + 1) = Size(w, a)
    <3>1. Size(w, -(2 * k - 1)) = Size(w, -(2 * k))
      BY <1>0, <2>3, LowerHalves
    <3> QED
      BY <2>2, <2>3, <3>1
  <2>6. Place(g, a + 1, b)
    BY <1>p, <1>8, <1>z, <2>3, <2>4 DEF Place, w
  <2>7. Onward(g, a + 1, b) = To(a, b, 1)
    BY <1>0, <1>p, <1>8, <2>3 DEF Onward, w
  <2> QED
    BY <1>8, <2>1, <2>3, <2>6, <2>7
<1>9. CASE a < 0 /\ a % 2 # 1 /\ s = 2
  <2>2. PICK k \in 1..w - 1 : a = -(2 * k)
    <3>1. PICK k \in Nat : a = -(2 * k)
      <4>1. (-a) \div 2 \in Nat /\ a = -(2 * ((-a) \div 2))
        BY <1>9
      <4> QED
        BY <4>1
    <3> QED
      BY <1>0, <1>p, <1>9, <3>1
  <2>1. r = k + 1 /\ q = b /\ SourceResult(g, a, s) = "loser"
    <3>1. a # w + 2 /\ a # w + 1 /\ ~(a > w) /\ ~(a > 0) /\ a # -1 /\ (-a) \div 2 + 1 = k + 1
      BY <1>0, <1>9, <2>2
    <3> QED
      BY <1>9, <3>1 DEF SourceRound, SourcePosition, SourceResult, w
  <2>3. k + 1 \in 2..w /\ k + 1 \in 1..w /\ a = -(2 * (k + 1) - 2) /\ k + 1 # 1 /\ ~(k + 1 < 0)
    BY <1>0, <2>2
  <2>4. Size(w, k + 1) = Size(w, a)
    BY <1>0, <2>3, LowerHalves
  <2>6. Place(g, k + 1, b)
    BY <1>9, <1>z, <2>3, <2>4 DEF Place, w
  <2>7. Aside(g, k + 1, b) = To(a, b, 2)
    BY <1>0, <1>p, <1>9, <2>3 DEF Aside, w
  <2> QED
    BY <1>9, <2>1, <2>3, <2>6, <2>7
<1>10. a = w + 2 \/ a = w + 1 \/ a \in 2..w \/ a < 0
  BY <1>0, <1>p
<1>11. w = 1 \/ w > 1
  BY <1>0
<1> HIDE DEF r, q
<1> QED
  BY <1>s, <1>1, <1>2, <1>3, <1>4, <1>5, <1>6, <1>7, <1>8, <1>9, <1>10, <1>11

(* The match that feeds a slot. *)
Source(g, a, b, s) == <<SourceRound(g, a, s), SourcePosition(g, a, b, s)>>

(* What leads to a slot is its source, in the way it does. *)
LEMMA LeadsFrom ==
  ASSUME NEW g \in AnyStage, NEW x \in Matches(g), NEW a \in Int, NEW b \in Int, NEW s \in Slot
  PROVE  /\ WinnerTo(g)[x] = To(a, b, s) =>
              x = Source(g, a, b, s) /\ SourceResult(g, a, s) = "winner"
         /\ LoserTo(g)[x] = To(a, b, s) =>
              x = Source(g, a, b, s) /\ SourceResult(g, a, s) = "loser"
<1>1. PICK r \in Int : \E q \in Nat : x = <<r, q>> /\ Place(g, r, q)
  BY MatchesAre
<1>2. PICK q \in Nat : x = <<r, q>> /\ Place(g, r, q)
  BY <1>1
<1>3. WinnerTo(g)[x] = Onward(g, r, q) /\ LoserTo(g)[x] = Aside(g, r, q)
  BY <1>2, WinnerGoes, LoserGoes
<1>4. To(a, b, s) # NoPointer /\ s \in Int
  BY ToNowhere DEF Slot
<1>5. ASSUME WinnerTo(g)[x] = To(a, b, s)
      PROVE  x = Source(g, a, b, s) /\ SourceResult(g, a, s) = "winner"
  <2>0. \/ Onward(g, r, q) = NoPointer
        \/ \E c \in Int : \E d \in Nat \ {0} : \E t \in Slot :
          /\ Onward(g, r, q) = To(c, d, t)
          /\ r = SourceRound(g, c, t) /\ q = SourcePosition(g, c, d, t) /\ SourceResult(g, c, t) = "winner"
    BY <1>2, OnwardIs
  <2>a. Onward(g, r, q) = To(a, b, s)
    BY <1>3, <1>5
  <2>1. \E c \in Int : \E d \in Nat \ {0} : \E t \in Slot :
          /\ To(a, b, s) = To(c, d, t)
          /\ r = SourceRound(g, c, t) /\ q = SourcePosition(g, c, d, t) /\ SourceResult(g, c, t) = "winner"
    BY <1>4, <2>0, <2>a
  <2>2. PICK c \in Int : \E d \in Nat \ {0} : \E t \in Slot :
          /\ To(a, b, s) = To(c, d, t)
          /\ r = SourceRound(g, c, t) /\ q = SourcePosition(g, c, d, t) /\ SourceResult(g, c, t) = "winner"
    BY <2>1
  <2>3. PICK d \in Nat \ {0} : \E t \in Slot :
          /\ To(a, b, s) = To(c, d, t)
          /\ r = SourceRound(g, c, t) /\ q = SourcePosition(g, c, d, t) /\ SourceResult(g, c, t) = "winner"
    BY <2>2
  <2>4. PICK t \in Slot :
          /\ To(a, b, s) = To(c, d, t)
          /\ r = SourceRound(g, c, t) /\ q = SourcePosition(g, c, d, t) /\ SourceResult(g, c, t) = "winner"
    BY <2>3
  <2>5. t \in Int /\ d \in Int
    BY DEF Slot
  <2>6. a = c /\ b = d /\ s = t
    BY <1>4, <2>4, <2>5, ToApart
  <2> QED
    BY <1>2, <2>4, <2>6 DEF Source
<1>6. ASSUME LoserTo(g)[x] = To(a, b, s)
      PROVE  x = Source(g, a, b, s) /\ SourceResult(g, a, s) = "loser"
  <2>0. \/ Aside(g, r, q) = NoPointer
        \/ \E c \in Int : \E d \in Nat \ {0} : \E t \in Slot :
          /\ Aside(g, r, q) = To(c, d, t)
          /\ r = SourceRound(g, c, t) /\ q = SourcePosition(g, c, d, t) /\ SourceResult(g, c, t) = "loser"
    BY <1>2, AsideIs
  <2>a. Aside(g, r, q) = To(a, b, s)
    BY <1>3, <1>6
  <2>1. \E c \in Int : \E d \in Nat \ {0} : \E t \in Slot :
          /\ To(a, b, s) = To(c, d, t)
          /\ r = SourceRound(g, c, t) /\ q = SourcePosition(g, c, d, t) /\ SourceResult(g, c, t) = "loser"
    BY <1>4, <2>0, <2>a
  <2>2. PICK c \in Int : \E d \in Nat \ {0} : \E t \in Slot :
          /\ To(a, b, s) = To(c, d, t)
          /\ r = SourceRound(g, c, t) /\ q = SourcePosition(g, c, d, t) /\ SourceResult(g, c, t) = "loser"
    BY <2>1
  <2>3. PICK d \in Nat \ {0} : \E t \in Slot :
          /\ To(a, b, s) = To(c, d, t)
          /\ r = SourceRound(g, c, t) /\ q = SourcePosition(g, c, d, t) /\ SourceResult(g, c, t) = "loser"
    BY <2>2
  <2>4. PICK t \in Slot :
          /\ To(a, b, s) = To(c, d, t)
          /\ r = SourceRound(g, c, t) /\ q = SourcePosition(g, c, d, t) /\ SourceResult(g, c, t) = "loser"
    BY <2>3
  <2>5. t \in Int /\ d \in Int
    BY DEF Slot
  <2>6. a = c /\ b = d /\ s = t
    BY <1>4, <2>4, <2>5, ToApart
  <2> QED
    BY <1>2, <2>4, <2>6 DEF Source
<1> QED
  BY <1>5, <1>6

(* Nothing leads to an opening slot, and to any other the source does.     *)
LEMMA SlotFed ==
  ASSUME NEW g \in AnyStage, NEW a \in Int, NEW b \in Nat, Place(g, a, b), NEW s \in Slot
  PROVE  /\ a = 1 => \A x \in Matches(g) : WinnerTo(g)[x] # To(a, b, s) /\ LoserTo(g)[x] # To(a, b, s)
         /\ a # 1 => LET x == Source(g, a, b, s)
                     IN  /\ x \in Matches(g)
                         /\ SourceResult(g, a, s) = "winner" => WinnerTo(g)[x] = To(a, b, s)
                         /\ SourceResult(g, a, s) = "loser" => LoserTo(g)[x] = To(a, b, s)
<1> DEFINE y == Source(g, a, b, s)
<1>1. ASSUME a = 1, NEW x \in Matches(g)
      PROVE  WinnerTo(g)[x] # To(a, b, s) /\ LoserTo(g)[x] # To(a, b, s)
  <2>1. PICK r \in Int : \E q \in Nat : x = <<r, q>> /\ Place(g, r, q)
    BY MatchesAre
  <2>2. PICK q \in Nat : x = <<r, q>> /\ Place(g, r, q)
    BY <2>1
  <2>3. r # 0
    BY <2>2, PlaceIs
  <2>4. SourceRound(g, a, s) = 0
    BY <1>1, StageIs DEF SourceRound
  <2>5. x # Source(g, a, b, s)
    BY <2>2, <2>3, <2>4 DEF Source
  <2>6. b \in Int
    OBVIOUS
  <2>7. WinnerTo(g)[x] = To(a, b, s) \/ LoserTo(g)[x] = To(a, b, s) =>
          x = Source(g, a, b, s)
    BY <2>6, LeadsFrom
  <2> QED
    BY <2>5, <2>7
<1>2. ASSUME a # 1
      PROVE  /\ y \in Matches(g)
             /\ SourceResult(g, a, s) = "winner" => WinnerTo(g)[y] = To(a, b, s)
             /\ SourceResult(g, a, s) = "loser" => LoserTo(g)[y] = To(a, b, s)
  <2>1. PICK r \in Int : r = SourceRound(g, a, s)
    BY <1>2, SourceIs
  <2>2. PICK q \in Nat : q = SourcePosition(g, a, b, s)
    BY <1>2, SourceIs
  <2>3. /\ Place(g, r, q)
        /\ SourceResult(g, a, s) = "winner" => Onward(g, r, q) = To(a, b, s)
        /\ SourceResult(g, a, s) = "loser" => Aside(g, r, q) = To(a, b, s)
    BY <1>2, <2>1, <2>2, SourceIs
  <2>4. y = <<r, q>>
    BY <2>1, <2>2 DEF Source
  <2>5. y \in Matches(g)
    BY <2>3, <2>4, MatchesAre
  <2> HIDE DEF y
  <2>6. WinnerTo(g)[y] = Onward(g, r, q) /\ LoserTo(g)[y] = Aside(g, r, q)
    BY <2>3, <2>4, WinnerGoes, LoserGoes
  <2> QED
    BY <2>3, <2>5, <2>6
<1> QED
  BY <1>1, <1>2

LEMMA OneSourceEach ==
  ASSUME NEW g \in AnyStage, NEW m \in Matches(g), NEW slot \in {1, 2}
  PROVE  LET p == [match |-> m, slot |-> slot]
             sources == {x \in Matches(g) : WinnerTo(g)[x] = p}
             drops == {x \in Matches(g) : LoserTo(g)[x] = p}
         IN  Cardinality(sources) + Cardinality(drops) = IF m[1] = 1 THEN 0 ELSE 1
<1> DEFINE p == [match |-> m, slot |-> slot]
           sources == {x \in Matches(g) : WinnerTo(g)[x] = p}
           drops == {x \in Matches(g) : LoserTo(g)[x] = p}
<1>1. PICK a \in Int : \E b \in Nat : m = <<a, b>> /\ Place(g, a, b)
  BY MatchesAre
<1>2. PICK b \in Nat : m = <<a, b>> /\ Place(g, a, b)
  BY <1>1
<1>3. slot \in Slot /\ p = To(a, b, slot) /\ m[1] = a /\ b \in Int
  BY <1>2 DEF To, Slot
<1>4. Cardinality({}) = 0 /\ \A x : Cardinality({x}) = 1
  BY FS_EmptySet, FS_Singleton
<1> DEFINE y == Source(g, a, b, slot)
           won == SourceResult(g, a, slot)
<1>5. /\ a = 1 => \A x \in Matches(g) : WinnerTo(g)[x] # p /\ LoserTo(g)[x] # p
      /\ a # 1 => /\ y \in Matches(g)
                  /\ won = "winner" => WinnerTo(g)[y] = p
                  /\ won = "loser" => LoserTo(g)[y] = p
  BY <1>2, <1>3, SlotFed
<1>a. \A x \in Matches(g) : /\ WinnerTo(g)[x] = To(a, b, slot) => x = y /\ won = "winner"
                            /\ LoserTo(g)[x] = To(a, b, slot) => x = y /\ won = "loser"
  BY <1>3, LeadsFrom
<1>6. \A x \in Matches(g) : /\ WinnerTo(g)[x] = p => x = y /\ won = "winner"
                            /\ LoserTo(g)[x] = p => x = y /\ won = "loser"
  <2> HIDE DEF y, won, p
  <2> QED
    BY <1>3, <1>a
<1> HIDE DEF p, y, won
<1>c. won = "winner" \/ won = "loser"
  BY DEF SourceResult, won
<1>7. CASE a = 1
  <2>1. sources = {} /\ drops = {}
    BY <1>5, <1>7
  <2> QED
    BY <1>3, <1>4, <1>7, <2>1 DEF p
<1>8. CASE a # 1 /\ won = "winner"
  <2>1. sources = {y} /\ drops = {}
    BY <1>5, <1>6, <1>8
  <2>2. Cardinality(sources) = 1 /\ Cardinality(drops) = 0
    BY <1>4, <2>1
  <2> HIDE DEF sources, drops
  <2>3. Cardinality(sources) + Cardinality(drops) = IF m[1] = 1 THEN 0 ELSE 1
    BY <1>3, <1>8, <2>2
  <2> QED
    BY <2>3 DEF sources, drops, p
<1>9. CASE a # 1 /\ won = "loser"
  <2>1. sources = {} /\ drops = {y}
    BY <1>5, <1>6, <1>9
  <2>2. Cardinality(sources) = 0 /\ Cardinality(drops) = 1
    BY <1>4, <2>1
  <2> HIDE DEF sources, drops
  <2>3. Cardinality(sources) + Cardinality(drops) = IF m[1] = 1 THEN 0 ELSE 1
    BY <1>3, <1>9, <2>2
  <2> QED
    BY <2>3 DEF sources, drops, p
<1> QED
  BY <1>c, <1>7, <1>8, <1>9

(* In every graph the engines generate, for every size of the field, each  *)
(* slot has the one source _rounds() and the pointers of its engine give   *)
(* it: a seed in the opening round, one result of one match in the others. *)
THEOREM SlotsHaveOneSource == Spec => []EverySlotHasOneSource
<1>1. ASSUME stage \in Stages PROVE EverySlotHasOneSource
  <2>1. stage \in AnyStage
    BY <1>1, MaxFieldAssumption DEF Stages, AnyStage
  <2> QED
    BY <2>1, OneSourceEach DEF EverySlotHasOneSource
<1>2. Spec => [](stage \in Stages)
  BY StageKept
<1> QED
  BY <1>1, <1>2, PTL

-----------------------------------------------------------------------------
(* Where the results of each bracket go.                                   *)

LEMMA OnwardTo ==
  ASSUME NEW g \in AnyStage, NEW r \in Int, NEW q \in Nat, Place(g, r, q)
  PROVE  \/ /\ Onward(g, r, q) = NoPointer
            /\ \/ g.format = SingleElim /\ r = W(g)
               \/ g.format = DoubleElim /\ r = W(g) + 1 /\ g.gfReset = FALSE
               \/ g.format = DoubleElim /\ r = W(g) + 2
         \/ \E a \in Int : \E b \in Nat : \E s \in Slot :
              /\ Onward(g, r, q) = To(a, b, s) /\ Place(g, a, b)
              /\ \/ r \in 1..W(g) - 1 /\ a = r + 1
                 \/ r = W(g) /\ a = W(g) + 1 /\ s = 1 /\ g.format = DoubleElim
                 \/ r < 0 /\ r = -(2 * W(g) - 2) /\ a = W(g) + 1 /\ s = 2
                 \/ r < 0 /\ a = r - 1
                 \/ r = W(g) + 1 /\ a = W(g) + 2 /\ s = 1 /\ g.gfReset = TRUE /\ g.format = DoubleElim
<1> DEFINE w == W(g)
<1>0. /\ w \in Nat /\ w >= 1 /\ g.format \in {SingleElim, DoubleElim} /\ SingleElim # DoubleElim
      /\ g.gfReset \in BOOLEAN
  BY StageIs
<1>p. /\ q >= 1 /\ (r = w => q = 1) /\ (r < 0 => -r \in 1..2 * w - 2) /\ (r = -(2 * w - 2) => q = 1)
      /\ (r > 0 \/ r < 0) /\ (r < 0 \/ r > w => g.format = DoubleElim)
      /\ (r > w => q = 1) /\ (r = w + 2 => g.gfReset) /\ (r = w + 1 \/ r = w + 2 \/ r <= w)
  BY PlaceIs
<1>z. (r \in 1..w \/ r < 0) => q \in 1..Size(w, r)
  BY <1>0, <1>p DEF Place
<1>s. 1 \in Slot /\ 2 \in Slot /\ 1 \in Nat
  BY DEF Slot
<1> HIDE DEF w
<1>1. CASE r \in 1..w - 1
  <2>a. r + 1 \in Int /\ r + 1 \in 1..w
    BY <1>0, <1>1
  <2>b. PICK p \in Nat \ {0} : \E s \in Slot : Halve(r + 1, q) = To(r + 1, p, s) /\ q = 2 * p - 2 + s
    BY <1>p, <2>a, HalveIs
  <2>1. PICK s \in Slot : Halve(r + 1, q) = To(r + 1, p, s) /\ q = 2 * p - 2 + s
    BY <2>b
  <2>2. Onward(g, r, q) = To(r + 1, p, s)
    BY <1>1, <2>1 DEF Onward, w
  <2>3. Size(w, r) = 2 * Size(w, r + 1) /\ Size(w, r + 1) \in Nat
    BY <1>0, <1>1, <2>a, UpperHalves, SizeIs
  <2>4. r \in 1..w /\ s \in 1..2
    BY <1>0, <1>1 DEF Slot
  <2>5. p \in 1..Size(w, r + 1)
    BY <1>z, <2>1, <2>3, <2>4
  <2>6. Place(g, r + 1, p)
    BY <2>a, <2>5 DEF Place, w
  <2> QED
    BY <1>1, <2>a, <2>2, <2>6 DEF w
<1>2. CASE r = w /\ g.format = SingleElim
  BY <1>0, <1>2 DEF Onward, w
<1>3. CASE r = w /\ g.format = DoubleElim
  <2>1. Onward(g, r, q) = To(w + 1, 1, 1)
    BY <1>0, <1>3 DEF Onward, w
  <2>2. Place(g, w + 1, 1) /\ w + 1 \in Int
    BY <1>0, <1>3 DEF Place, w
  <2> QED
    BY <1>3, <1>s, <2>1, <2>2 DEF w
<1>4. CASE r = -(2 * w - 2) /\ r < 0
  <2>0. w > 1 /\ r \notin 1..w - 1 /\ r # w /\ g.format = DoubleElim
    BY <1>0, <1>p, <1>4
  <2>1. Onward(g, r, q) = To(w + 1, 1, 2)
    BY <1>0, <1>4, <2>0 DEF Onward, w
  <2>2. Place(g, w + 1, 1) /\ w + 1 \in Int
    BY <1>0, <2>0 DEF Place, w
  <2> QED
    BY <1>4, <1>s, <2>1, <2>2 DEF w
<1>5. CASE r # -(2 * w - 2) /\ r < 0 /\ (-r) % 2 = 1
  <2>0. r \notin 1..w - 1 /\ r # w /\ g.format = DoubleElim
    BY <1>0, <1>p, <1>5
  <2>1. Onward(g, r, q) = To(r - 1, q, 1)
    BY <1>0, <1>5, <2>0 DEF Onward, w
  <2>2. PICK k \in 1..w - 1 : r = -(2 * k - 1)
    <3>1. PICK k \in Nat : r = -(2 * k - 1)
      <4>1. (-r + 1) \div 2 \in Nat /\ r = -(2 * ((-r + 1) \div 2) - 1)
        BY <1>5
      <4> QED
        BY <4>1
    <3> QED
      BY <1>0, <1>p, <1>5, <3>1
  <2>3. r - 1 = -(2 * k) /\ w >= 2 /\ r - 1 \in Int /\ -(r - 1) \in 1..2 * w - 2
    BY <1>0, <2>2
  <2>4. Size(w, r - 1) = Size(w, r)
    <3>1. Size(w, -(2 * k - 1)) = Size(w, -(2 * k))
      BY <1>0, <2>3, LowerHalves
    <3> QED
      BY <2>2, <2>3, <3>1
  <2>5. Place(g, r - 1, q)
    BY <1>5, <1>z, <2>0, <2>3, <2>4 DEF Place, w
  <2> QED
    BY <1>5, <1>s, <2>1, <2>3, <2>5 DEF w
<1>6. CASE r # -(2 * w - 2) /\ r < 0 /\ (-r) % 2 # 1
  <2>0. r \notin 1..w - 1 /\ r # w /\ g.format = DoubleElim
    BY <1>0, <1>p, <1>6
  <2>a. r - 1 \in Int
    OBVIOUS
  <2>b. PICK p \in Nat \ {0} : \E s \in Slot : Halve(r - 1, q) = To(r - 1, p, s) /\ q = 2 * p - 2 + s
    BY <1>p, <2>a, HalveIs
  <2>1. PICK s \in Slot : Halve(r - 1, q) = To(r - 1, p, s) /\ q = 2 * p - 2 + s
    BY <2>b
  <2>2. Onward(g, r, q) = To(r - 1, p, s)
    BY <1>0, <1>6, <2>0, <2>1 DEF Onward, w
  <2>3. PICK k \in 1..w - 2 : r = -(2 * k)
    <3>1. PICK k \in Nat : r = -(2 * k)
      <4>1. (-r) \div 2 \in Nat /\ r = -(2 * ((-r) \div 2))
        BY <1>6
      <4> QED
        BY <4>1
    <3> QED
      BY <1>0, <1>p, <1>6, <3>1
  <2>4. r - 1 = -(2 * k + 1) /\ w >= 2 /\ -(r - 1) \in 1..2 * w - 2 /\ s \in 1..2
    BY <1>0, <2>3 DEF Slot
  <2>5. Size(w, r) = 2 * Size(w, r - 1) /\ Size(w, r - 1) \in Nat
    <3>1. Size(w, -(2 * k)) = 2 * Size(w, -(2 * k + 1))
      BY <1>0, <2>4, LowerHalves
    <3>2. Size(w, r - 1) \in Nat
      BY <1>0, <2>a, <2>4, SizeIs
    <3> QED
      BY <2>3, <2>4, <3>1, <3>2
  <2>6. p \in 1..Size(w, r - 1)
    BY <1>6, <1>z, <2>1, <2>4, <2>5
  <2>7. Place(g, r - 1, p)
    BY <2>0, <2>4, <2>6 DEF Place, w
  <2> QED
    BY <1>6, <2>a, <2>2, <2>7 DEF w
<1>7. CASE r > w
  <2>0. r \notin 1..w - 1 /\ r # w /\ ~(r < 0) /\ r # -(2 * w - 2) /\ g.format = DoubleElim
    BY <1>0, <1>p, <1>7
  <2>1. Onward(g, r, q) = IF r = w + 1 /\ g.gfReset THEN To(w + 2, 1, 1) ELSE NoPointer
    BY <1>0, <2>0 DEF Onward, w
  <2>2. CASE r = w + 1 /\ g.gfReset = TRUE
    <3>1. w + 2 \in Int /\ Place(g, w + 2, 1) /\ Onward(g, r, q) = To(w + 2, 1, 1)
      BY <1>0, <2>0, <2>1, <2>2 DEF Place, w
    <3> QED
      BY <1>s, <2>0, <2>2, <3>1 DEF w
  <2>3. CASE r = w + 1 /\ g.gfReset = FALSE
    BY <2>0, <2>1, <2>3 DEF w
  <2>4. CASE r = w + 2
    <3>1. r # w + 1
      BY <1>0, <2>4
    <3> QED
      BY <2>0, <2>1, <2>4, <3>1 DEF w
  <2>5. r = w + 1 \/ r = w + 2
    BY <1>0, <1>p, <1>7
  <2> QED
    BY <1>0, <2>2, <2>3, <2>4, <2>5
<1>8. r \in 1..w - 1 \/ r = w \/ r > w \/ r < 0
  BY <1>0, <1>p
<1> QED
  BY <1>0, <1>1, <1>2, <1>3, <1>4, <1>5, <1>6, <1>7, <1>8

LEMMA AsideTo ==
  ASSUME NEW g \in AnyStage, NEW r \in Int, NEW q \in Nat, Place(g, r, q)
  PROVE  \/ /\ Aside(g, r, q) = NoPointer
            /\ \/ g.format = SingleElim
               \/ r < 0
               \/ g.format = DoubleElim /\ r = W(g) + 1 /\ g.gfReset = FALSE
               \/ g.format = DoubleElim /\ r = W(g) + 2
         \/ \E a \in Int : \E b \in Nat : \E s \in Slot :
              /\ Aside(g, r, q) = To(a, b, s) /\ Place(g, a, b) /\ g.format = DoubleElim
              /\ \/ r = 1 /\ W(g) = 1 /\ a = 2 /\ s = 2
                 \/ r = 1 /\ W(g) > 1 /\ a = -1
                 \/ r \in 2..W(g) /\ a = -(2 * r - 2) /\ b = q /\ s = 2
                 \/ r = W(g) + 1 /\ a = W(g) + 2 /\ s = 2 /\ g.gfReset = TRUE
<1> DEFINE w == W(g)
<1>0. /\ w \in Nat /\ w >= 1 /\ g.format \in {SingleElim, DoubleElim} /\ SingleElim # DoubleElim
      /\ g.gfReset \in BOOLEAN
  BY StageIs
<1>p. /\ q >= 1 /\ (r > 0 \/ r < 0) /\ (r < 0 \/ r > w => g.format = DoubleElim)
      /\ (r = w + 2 => g.gfReset) /\ (r = w + 1 \/ r = w + 2 \/ r <= w)
  BY PlaceIs
<1>z. r \in 1..w => q \in 1..Size(w, r)
  BY <1>0, <1>p DEF Place
<1>s. 2 \in Slot /\ 1 \in Nat
  BY DEF Slot
<1> HIDE DEF w
<1>1. CASE g.format = SingleElim \/ r < 0
  BY <1>1 DEF Aside
<1>2. CASE ~(g.format = SingleElim \/ r < 0) /\ r = 1 /\ w = 1
  <2>1. Aside(g, r, q) = To(2, 1, 2)
    BY <1>2 DEF Aside, w
  <2>2. Place(g, 2, 1) /\ 2 \in Int /\ g.format = DoubleElim
    BY <1>0, <1>2 DEF Place, w
  <2> QED
    BY <1>2, <1>s, <2>1, <2>2 DEF w
<1>3. CASE ~(g.format = SingleElim \/ r < 0) /\ r = 1 /\ w # 1
  <2>a. -1 \in Int
    OBVIOUS
  <2>b. PICK p \in Nat \ {0} : \E s \in Slot : Halve(-1, q) = To(-1, p, s) /\ q = 2 * p - 2 + s
    BY <1>p, <2>a, HalveIs
  <2>c. PICK s \in Slot : Halve(-1, q) = To(-1, p, s) /\ q = 2 * p - 2 + s
    BY <2>b
  <2>1. Aside(g, r, q) = To(-1, p, s)
    BY <1>3, <2>c DEF Aside, w
  <2>2. w >= 2 /\ r \in 1..w /\ s \in 1..2 /\ g.format = DoubleElim /\ 1 \in 1..2 * w - 2
    BY <1>0, <1>3 DEF Slot
  <2>m. PICK c \in Int : c = -1 /\ -c = 1
    OBVIOUS
  <2>3. Size(w, 1) = 2 * Size(w, -1)
    BY <1>0, <2>2, LowerHalves
  <2>4. Size(w, c) \in Nat
    BY <1>0, <2>2, <2>m, SizeIs
  <2>5. p \in 1..Size(w, c)
    BY <1>3, <1>z, <2>c, <2>2, <2>3, <2>4, <2>m
  <2>6. Place(g, c, p)
    BY <2>2, <2>5, <2>m DEF Place, w
  <2> QED
    BY <1>3, <2>1, <2>2, <2>6, <2>m DEF w
<1>4. CASE ~(g.format = SingleElim \/ r < 0) /\ r \in 2..w
  <2>1. Aside(g, r, q) = To(-(2 * r - 2), q, 2)
    BY <1>0, <1>4 DEF Aside, w
  <2>2. PICK a \in Int : a = -(2 * r - 2)
    OBVIOUS
  <2>3. w >= 2 /\ r \in 1..w /\ -a \in 1..2 * w - 2 /\ g.format = DoubleElim
    BY <1>0, <1>4, <2>2
  <2>4. Size(w, r) = Size(w, a)
    BY <1>0, <1>4, <2>2, <2>3, LowerHalves
  <2>5. Place(g, a, q)
    BY <1>z, <2>3, <2>4 DEF Place, w
  <2> QED
    BY <1>4, <1>s, <2>1, <2>2, <2>3, <2>5 DEF w
<1>5. CASE ~(g.format = SingleElim \/ r < 0) /\ r > w
  <2>0. g.format = DoubleElim /\ (r = w + 1 \/ r = w + 2)
    BY <1>0, <1>p, <1>5
  <2>1. Aside(g, r, q) = IF r = w + 1 /\ g.gfReset THEN To(w + 2, 1, 2) ELSE NoPointer
    BY <1>0, <1>5 DEF Aside, w
  <2>2. CASE r = w + 1 /\ g.gfReset = TRUE
    <3>1. w + 2 \in Int /\ Place(g, w + 2, 1) /\ Aside(g, r, q) = To(w + 2, 1, 2)
      BY <1>0, <2>0, <2>1, <2>2 DEF Place, w
    <3> QED
      BY <1>s, <2>0, <2>2, <3>1 DEF w
  <2>3. CASE r = w + 1 /\ g.gfReset = FALSE
    BY <2>0, <2>1, <2>3 DEF w
  <2>4. CASE r = w + 2
    <3>1. r # w + 1
      BY <1>0, <2>4
    <3> QED
      BY <2>0, <2>1, <2>4, <3>1 DEF w
  <2> QED
    BY <1>0, <2>0, <2>2, <2>3, <2>4
<1>6. r < 0 \/ r = 1 \/ r \in 2..w \/ r > w
  BY <1>0, <1>p
<1> QED
  BY <1>1, <1>2, <1>3, <1>4, <1>5, <1>6

-----------------------------------------------------------------------------
(* One entrant's way: how often it has been beaten is told by the slot it  *)
(* sits in, and it is out when that is once too often or never will be.    *)

Beaten(g, a, s) == IF a < 0 \/ a = W(g) + 2 \/ (a = W(g) + 1 /\ s = 2) THEN 1 ELSE 0

Walk ==
  /\ stage \in AnyStage
  /\ at = NoPointer \/ \E a \in Int : \E b \in Nat : \E s \in Slot :
       /\ at = To(a, b, s) /\ Place(stage, a, b)
       /\ losses = Beaten(stage, a, s) /\ champion = FALSE
  /\ at = NoPointer /\ (stage.format = SingleElim \/ stage.gfReset) =>
       \/ champion = TRUE /\ losses = 0
       \/ champion = TRUE /\ losses = 1 /\ stage.format = DoubleElim
       \/ champion = FALSE /\ losses = (IF stage.format = SingleElim THEN 1 ELSE 2)

LEMMA WalkStarts == Init => Walk
<1> SUFFICES ASSUME Init PROVE Walk
  OBVIOUS
<1>1. stage \in AnyStage
  BY MaxFieldAssumption DEF Init, Stages, AnyStage
<1>2. at \in [match : Matches(stage), slot : {1, 2}] /\ Seeds(stage)[at.match][at.slot] # None
  BY DEF Init, OpeningSlots
<1>3. PICK m \in Matches(stage), s \in {1, 2} : at = [match |-> m, slot |-> s]
  BY <1>2
<1>4. PICK a \in Int : \E b \in Nat : m = <<a, b>> /\ Place(stage, a, b)
  BY <1>1, MatchesAre
<1>5. PICK b \in Nat : m = <<a, b>> /\ Place(stage, a, b)
  BY <1>4
<1>6. at = To(a, b, s) /\ s \in Slot /\ m[1] = a
  BY <1>3, <1>5 DEF To, Slot
<1>7. a = 1
  <2>1. Seeds(stage)[m] = [slot \in Slot |-> IF m[1] = 1 THEN OpeningSeed(stage.n, m, slot) ELSE None]
    BY DEF Seeds, GraphSeeds, Matches
  <2>2. Seeds(stage)[m][s] # None
    BY <1>2, <1>3
  <2> QED
    BY <1>6, <2>1, <2>2
<1>8. losses = 0 /\ champion = FALSE /\ Beaten(stage, a, s) = 0
  <2>1. W(stage) \in Nat /\ W(stage) >= 1 /\ (W(stage) + 1 = 1 => FALSE) /\ (W(stage) + 2 = 1 => FALSE)
    BY <1>1, StageIs
  <2> QED
    BY <1>7, <2>1 DEF Init, Beaten
<1>9. at # NoPointer
  BY <1>5, <1>6, ToNowhere
<1> QED
  BY <1>1, <1>5, <1>6, <1>8, <1>9 DEF Walk

(* What a slot says of who sits in it. *)
LEMMA Seated ==
  ASSUME Walk, at # NoPointer
  PROVE  \E a \in Int : \E b \in Nat : \E s \in Slot :
           /\ at = To(a, b, s) /\ at.slot = s /\ Place(stage, a, b)
           /\ losses = Beaten(stage, a, s) /\ champion = FALSE
           /\ WinnerTo(stage)[at.match] = Onward(stage, a, b)
           /\ LoserTo(stage)[at.match] = Aside(stage, a, b)
           /\ at.match = GrandFinal(stage.n) <=> a = W(stage) + 1
<1>1. PICK a \in Int : \E b \in Nat : \E s \in Slot :
         /\ at = To(a, b, s) /\ Place(stage, a, b)
         /\ losses = Beaten(stage, a, s) /\ champion = FALSE
  BY DEF Walk
<1>2. PICK b \in Nat : \E s \in Slot :
         /\ at = To(a, b, s) /\ Place(stage, a, b)
         /\ losses = Beaten(stage, a, s) /\ champion = FALSE
  BY <1>1
<1>3. PICK s \in Slot :
         /\ at = To(a, b, s) /\ Place(stage, a, b)
         /\ losses = Beaten(stage, a, s) /\ champion = FALSE
  BY <1>2
<1>4. at.match = <<a, b>> /\ at.slot = s /\ stage \in AnyStage
  BY <1>3 DEF To, Walk
<1>5. WinnerTo(stage)[at.match] = Onward(stage, a, b) /\ LoserTo(stage)[at.match] = Aside(stage, a, b)
  BY <1>3, <1>4, WinnerGoes, LoserGoes
<1>6. at.match = GrandFinal(stage.n) <=> a = W(stage) + 1
  <2>1. GrandFinal(stage.n) = <<W(stage) + 1, 1>>
    BY DEF GrandFinal, W
  <2>2. a = W(stage) + 1 => b = 1
    <3>1. a = W(stage) + 1 => a > W(stage)
      BY <1>4, StageIs
    <3> QED
      BY <1>3, <1>4, <3>1, PlaceIs
  <2> QED
    BY <1>4, <2>1, <2>2
<1> QED
  BY <1>3, <1>4, <1>5, <1>6

LEMMA WalkWins == ASSUME Walk, Win PROVE Walk'
<1> DEFINE g == stage
           w == W(stage)
<1>0. stage \in AnyStage /\ at # NoPointer /\ stage' = stage /\ losses' = losses
  BY DEF Walk, Win
<1>w. /\ w \in Nat /\ w >= 1 /\ g.format \in {SingleElim, DoubleElim} /\ SingleElim # DoubleElim
      /\ g.gfReset \in BOOLEAN
  BY <1>0, StageIs
<1>1. PICK a \in Int : \E b \in Nat : \E s \in Slot :
           /\ at = To(a, b, s) /\ at.slot = s /\ Place(stage, a, b)
           /\ losses = Beaten(stage, a, s) /\ champion = FALSE
           /\ WinnerTo(stage)[at.match] = Onward(stage, a, b)
           /\ LoserTo(stage)[at.match] = Aside(stage, a, b)
           /\ at.match = GrandFinal(stage.n) <=> a = W(stage) + 1
  BY <1>0, Seated
<1>2. PICK b \in Nat : \E s \in Slot :
           /\ at = To(a, b, s) /\ at.slot = s /\ Place(stage, a, b)
           /\ losses = Beaten(stage, a, s) /\ champion = FALSE
           /\ WinnerTo(stage)[at.match] = Onward(stage, a, b)
           /\ LoserTo(stage)[at.match] = Aside(stage, a, b)
           /\ at.match = GrandFinal(stage.n) <=> a = W(stage) + 1
  BY <1>1
<1>3. PICK s \in Slot :
           /\ at = To(a, b, s) /\ at.slot = s /\ Place(stage, a, b)
           /\ losses = Beaten(stage, a, s) /\ champion = FALSE
           /\ WinnerTo(stage)[at.match] = Onward(stage, a, b)
           /\ LoserTo(stage)[at.match] = Aside(stage, a, b)
           /\ at.match = GrandFinal(stage.n) <=> a = W(stage) + 1
  BY <1>2
<1>p. /\ (a < 0 => -a \in 1..2 * w - 2) /\ (a > 0 \/ a < 0) /\ (a < 0 \/ a > w => g.format = DoubleElim)
      /\ (a = w + 1 \/ a = w + 2 \/ a <= w)
  BY <1>0, <1>3, PlaceIs
<1> DEFINE onward == Onward(stage, a, b)
           decided == a = w + 1 /\ s = 1
<1>4. /\ ~decided /\ onward # NoPointer => at' = onward /\ champion' = FALSE
      /\ decided \/ onward = NoPointer => at' = NoPointer /\ champion' = TRUE
  <2>1. TitleDecided(stage, at) <=> decided
    BY <1>3, <1>w, <1>p DEF TitleDecided
  <2>2. /\ at' = IF TitleDecided(stage, at) \/ onward = NoPointer THEN NoPointer ELSE onward
        /\ champion' = (TitleDecided(stage, at) \/ onward = NoPointer)
    BY <1>3 DEF Win
  <2> HIDE DEF onward, decided
  <2> QED
    BY <2>1, <2>2
<1>5. CASE decided
  <2>1. losses = 0
    BY <1>3, <1>5, <1>w DEF Beaten
  <2>2. at' = NoPointer /\ champion' = TRUE
    BY <1>4, <1>5
  <2> QED
    BY <1>0, <2>1, <2>2 DEF Walk
<1>6. CASE ~decided /\ onward = NoPointer
  <2>1. at' = NoPointer /\ champion' = TRUE
    BY <1>4, <1>6
  <2>2. \/ g.format = SingleElim /\ a = w
        \/ g.format = DoubleElim /\ a = w + 1 /\ g.gfReset = FALSE
        \/ g.format = DoubleElim /\ a = w + 2
    <3>1. \A c \in Int, d \in Nat, t \in Slot : onward # To(c, d, t)
      BY <1>6, ToNowhere
    <3> QED
      BY <1>0, <1>3, <3>1, OnwardTo
  <2>3. losses = 0 \/ (losses = 1 /\ g.format = DoubleElim)
    <3>1. CASE g.format = SingleElim /\ a = w
      <4>1. ~(a < 0) /\ a # w + 1 /\ a # w + 2
        BY <1>w, <3>1
      <4> QED
        BY <1>3, <4>1 DEF Beaten
    <3>2. CASE g.format = DoubleElim
      BY <1>3, <3>2 DEF Beaten
    <3> QED
      BY <2>2, <3>1, <3>2
  <2> QED
    BY <1>0, <2>1, <2>3 DEF Walk
<1>7. CASE ~decided /\ onward # NoPointer
  <2>1. at' = onward /\ champion' = FALSE
    BY <1>4, <1>7
  <2>0. \E c \in Int : \E d \in Nat : \E t \in Slot :
              /\ onward = To(c, d, t) /\ Place(g, c, d)
              /\ \/ a \in 1..W(g) - 1 /\ c = a + 1
                 \/ a = W(g) /\ c = W(g) + 1 /\ t = 1 /\ g.format = DoubleElim
                 \/ a < 0 /\ a = -(2 * W(g) - 2) /\ c = W(g) + 1 /\ t = 2
                 \/ a < 0 /\ c = a - 1
                 \/ a = W(g) + 1 /\ c = W(g) + 2 /\ t = 1 /\ g.gfReset = TRUE /\ g.format = DoubleElim
    BY <1>0, <1>3, <1>7, OnwardTo
  <2>2. PICK c \in Int : \E d \in Nat : \E t \in Slot :
              /\ onward = To(c, d, t) /\ Place(g, c, d)
              /\ \/ a \in 1..W(g) - 1 /\ c = a + 1
                 \/ a = W(g) /\ c = W(g) + 1 /\ t = 1 /\ g.format = DoubleElim
                 \/ a < 0 /\ a = -(2 * W(g) - 2) /\ c = W(g) + 1 /\ t = 2
                 \/ a < 0 /\ c = a - 1
                 \/ a = W(g) + 1 /\ c = W(g) + 2 /\ t = 1 /\ g.gfReset = TRUE /\ g.format = DoubleElim
    BY <2>0
  <2>3. PICK d \in Nat : \E t \in Slot :
              /\ onward = To(c, d, t) /\ Place(g, c, d)
              /\ \/ a \in 1..W(g) - 1 /\ c = a + 1
                 \/ a = W(g) /\ c = W(g) + 1 /\ t = 1 /\ g.format = DoubleElim
                 \/ a < 0 /\ a = -(2 * W(g) - 2) /\ c = W(g) + 1 /\ t = 2
                 \/ a < 0 /\ c = a - 1
                 \/ a = W(g) + 1 /\ c = W(g) + 2 /\ t = 1 /\ g.gfReset = TRUE /\ g.format = DoubleElim
    BY <2>2
  <2>4. PICK t \in Slot :
              /\ onward = To(c, d, t) /\ Place(g, c, d)
              /\ \/ a \in 1..w - 1 /\ c = a + 1
                 \/ a = w /\ c = w + 1 /\ t = 1 /\ g.format = DoubleElim
                 \/ a < 0 /\ a = -(2 * w - 2) /\ c = w + 1 /\ t = 2
                 \/ a < 0 /\ c = a - 1
                 \/ a = w + 1 /\ c = w + 2 /\ t = 1 /\ g.gfReset = TRUE /\ g.format = DoubleElim
    BY <2>3
  <2>5. s = 1 \/ s = 2
    BY DEF Slot
  <2>6. Beaten(stage, c, t) = Beaten(stage, a, s)
    <3> HIDE DEF w
    <3>1. Beaten(stage, c, t) = IF c < 0 \/ c = w + 2 \/ (c = w + 1 /\ t = 2) THEN 1 ELSE 0
      BY DEF Beaten, w
    <3>2. Beaten(stage, a, s) = IF a < 0 \/ a = w + 2 \/ (a = w + 1 /\ s = 2) THEN 1 ELSE 0
      BY DEF Beaten, w
    <3>3. CASE a \in 1..w - 1 /\ c = a + 1
      BY <1>w, <3>1, <3>2, <3>3
    <3>4. CASE a = w /\ c = w + 1 /\ t = 1
      BY <1>w, <3>1, <3>2, <3>4
    <3>5. CASE a < 0 /\ c = w + 1 /\ t = 2
      BY <1>w, <3>1, <3>2, <3>5
    <3>6. CASE a < 0 /\ c = a - 1
      BY <1>w, <3>1, <3>2, <3>6
    <3>7. CASE a = w + 1 /\ c = w + 2
      BY <1>7, <1>w, <2>5, <3>1, <3>2, <3>7
    <3> QED
      BY <2>4, <3>3, <3>4, <3>5, <3>6, <3>7
  <2>7. at' # NoPointer
    BY <1>7, <2>1
  <2>8. at' = To(c, d, t) /\ Place(stage', c, d) /\ losses' = Beaten(stage', c, t) /\ champion' = FALSE
    BY <1>0, <1>3, <2>1, <2>4, <2>6
  <2> QED
    BY <1>0, <2>7, <2>8 DEF Walk
<1> QED
  BY <1>5, <1>6, <1>7

LEMMA WalkLoses == ASSUME Walk, Lose PROVE Walk'
<1> DEFINE g == stage
           w == W(stage)
<1>0. stage \in AnyStage /\ at # NoPointer /\ stage' = stage /\ champion' = champion /\ losses' = losses + 1
  BY DEF Walk, Lose
<1>w. /\ w \in Nat /\ w >= 1 /\ g.format \in {SingleElim, DoubleElim} /\ SingleElim # DoubleElim
      /\ g.gfReset \in BOOLEAN
  BY <1>0, StageIs
<1>1. PICK a \in Int : \E b \in Nat : \E s \in Slot :
           /\ at = To(a, b, s) /\ at.slot = s /\ Place(stage, a, b)
           /\ losses = Beaten(stage, a, s) /\ champion = FALSE
           /\ WinnerTo(stage)[at.match] = Onward(stage, a, b)
           /\ LoserTo(stage)[at.match] = Aside(stage, a, b)
           /\ at.match = GrandFinal(stage.n) <=> a = W(stage) + 1
  BY <1>0, Seated
<1>2. PICK b \in Nat : \E s \in Slot :
           /\ at = To(a, b, s) /\ at.slot = s /\ Place(stage, a, b)
           /\ losses = Beaten(stage, a, s) /\ champion = FALSE
           /\ WinnerTo(stage)[at.match] = Onward(stage, a, b)
           /\ LoserTo(stage)[at.match] = Aside(stage, a, b)
           /\ at.match = GrandFinal(stage.n) <=> a = W(stage) + 1
  BY <1>1
<1>3. PICK s \in Slot :
           /\ at = To(a, b, s) /\ at.slot = s /\ Place(stage, a, b)
           /\ losses = Beaten(stage, a, s) /\ champion = FALSE
           /\ WinnerTo(stage)[at.match] = Onward(stage, a, b)
           /\ LoserTo(stage)[at.match] = Aside(stage, a, b)
           /\ at.match = GrandFinal(stage.n) <=> a = W(stage) + 1
  BY <1>2
<1>p. /\ (a > 0 \/ a < 0) /\ (a < 0 \/ a > w => g.format = DoubleElim)
      /\ (a = w + 1 \/ a = w + 2 \/ a <= w)
  BY <1>0, <1>3, PlaceIs
<1>s. s = 1 \/ s = 2
  BY DEF Slot
<1> DEFINE aside == Aside(stage, a, b)
           out == a = w + 1 /\ s = 2
<1>4. at' = IF out THEN NoPointer ELSE aside
  <2>1. (at.match = GrandFinal(stage.n) /\ stage.format = DoubleElim /\ at.slot = 2) <=> out
    BY <1>3, <1>w, <1>p
  <2>2. at' = IF at.match = GrandFinal(stage.n) /\ stage.format = DoubleElim /\ at.slot = 2
              THEN NoPointer ELSE aside
    BY <1>3 DEF Lose
  <2> HIDE DEF aside, out
  <2> QED
    BY <2>1, <2>2
<1>5. CASE out \/ aside = NoPointer
  <2>1. at' = NoPointer /\ champion' = FALSE
    BY <1>0, <1>3, <1>4, <1>5
  <2>2. ASSUME g.format = SingleElim PROVE losses = 0
    <3>1. ~(a < 0) /\ a # w + 1 /\ a # w + 2
      BY <1>w, <1>p, <2>2
    <3> QED
      BY <1>3, <3>1 DEF Beaten
  <2>3. ASSUME g.format = DoubleElim, g.gfReset = TRUE PROVE losses = 1
    <3>1. CASE out
      BY <1>3, <3>1 DEF Beaten
    <3>2. CASE aside = NoPointer
      <4>1. \A c \in Int, d \in Nat, t \in Slot : aside # To(c, d, t)
        BY <3>2, ToNowhere
      <4>2. a < 0 \/ a = w + 2
        BY <1>0, <1>3, <1>w, <2>3, <4>1, AsideTo
      <4> QED
        BY <1>3, <4>2 DEF Beaten
    <3> QED
      BY <1>5, <3>1, <3>2
  <2>4. g.format = SingleElim \/ g.gfReset => losses' = IF g.format = SingleElim THEN 1 ELSE 2
    <3>1. g.gfReset = TRUE \/ g.gfReset = FALSE
      BY <1>w
    <3>2. CASE g.format = SingleElim
      BY <1>0, <2>2, <3>2
    <3>3. CASE g.format = DoubleElim /\ g.gfReset = TRUE
      <4>1. losses = 1
        BY <2>3, <3>3
      <4>2. losses' = 2 /\ g.format # SingleElim
        BY <1>0, <1>w, <3>3, <4>1
      <4> QED
        BY <4>2
    <3> QED
      BY <1>w, <3>1, <3>2, <3>3
  <2> QED
    BY <1>0, <2>1, <2>4 DEF Walk
<1>6. CASE ~out /\ aside # NoPointer
  <2>1. at' = aside /\ champion' = FALSE
    BY <1>0, <1>3, <1>4, <1>6
  <2>0. \E c \in Int : \E d \in Nat : \E t \in Slot :
              /\ aside = To(c, d, t) /\ Place(g, c, d) /\ g.format = DoubleElim
              /\ \/ a = 1 /\ W(g) = 1 /\ c = 2 /\ t = 2
                 \/ a = 1 /\ W(g) > 1 /\ c = -1
                 \/ a \in 2..W(g) /\ c = -(2 * a - 2) /\ d = b /\ t = 2
                 \/ a = W(g) + 1 /\ c = W(g) + 2 /\ t = 2 /\ g.gfReset = TRUE
    BY <1>0, <1>3, <1>6, AsideTo
  <2>2. PICK c \in Int : \E d \in Nat : \E t \in Slot :
              /\ aside = To(c, d, t) /\ Place(g, c, d) /\ g.format = DoubleElim
              /\ \/ a = 1 /\ W(g) = 1 /\ c = 2 /\ t = 2
                 \/ a = 1 /\ W(g) > 1 /\ c = -1
                 \/ a \in 2..W(g) /\ c = -(2 * a - 2) /\ d = b /\ t = 2
                 \/ a = W(g) + 1 /\ c = W(g) + 2 /\ t = 2 /\ g.gfReset = TRUE
    BY <2>0
  <2>3. PICK d \in Nat : \E t \in Slot :
              /\ aside = To(c, d, t) /\ Place(g, c, d) /\ g.format = DoubleElim
              /\ \/ a = 1 /\ W(g) = 1 /\ c = 2 /\ t = 2
                 \/ a = 1 /\ W(g) > 1 /\ c = -1
                 \/ a \in 2..W(g) /\ c = -(2 * a - 2) /\ d = b /\ t = 2
                 \/ a = W(g) + 1 /\ c = W(g) + 2 /\ t = 2 /\ g.gfReset = TRUE
    BY <2>2
  <2>4. PICK t \in Slot :
              /\ aside = To(c, d, t) /\ Place(g, c, d) /\ g.format = DoubleElim
              /\ \/ a = 1 /\ w = 1 /\ c = 2 /\ t = 2
                 \/ a = 1 /\ w > 1 /\ c = -1
                 \/ a \in 2..w /\ c = -(2 * a - 2) /\ d = b /\ t = 2
                 \/ a = w + 1 /\ c = w + 2 /\ t = 2 /\ g.gfReset = TRUE
    BY <2>3
  <2>6. Beaten(stage, c, t) = 1 /\ Beaten(stage, a, s) = 0
    <3> HIDE DEF w
    <3>1. Beaten(stage, c, t) = IF c < 0 \/ c = w + 2 \/ (c = w + 1 /\ t = 2) THEN 1 ELSE 0
      BY DEF Beaten, w
    <3>2. Beaten(stage, a, s) = IF a < 0 \/ a = w + 2 \/ (a = w + 1 /\ s = 2) THEN 1 ELSE 0
      BY DEF Beaten, w
    <3>3. CASE a = 1 /\ w = 1 /\ c = 2 /\ t = 2
      BY <1>w, <3>1, <3>2, <3>3
    <3>4. CASE a = 1 /\ w > 1 /\ c = -1
      BY <1>w, <3>1, <3>2, <3>4
    <3>5. CASE a \in 2..w /\ c = -(2 * a - 2) /\ d = b /\ t = 2
      BY <1>w, <3>1, <3>2, <3>5
    <3>6. CASE a = w + 1 /\ c = w + 2 /\ t = 2 /\ g.gfReset = TRUE
      BY <1>6, <1>w, <3>1, <3>2, <3>6
    <3> QED
      BY <2>4, <3>3, <3>4, <3>5, <3>6
  <2>7. at' # NoPointer
    BY <1>6, <2>1
  <2>8. at' = To(c, d, t) /\ Place(stage', c, d) /\ losses' = Beaten(stage', c, t) /\ champion' = FALSE
    BY <1>0, <1>3, <2>1, <2>4, <2>6
  <2> QED
    BY <1>0, <2>7, <2>8 DEF Walk
<1> QED
  BY <1>5, <1>6

(* Whatever the results, an entrant leaves the graph the engines generate  *)
(* only beaten as often as the format allows, or with the title.           *)
THEOREM BeatenOrCrowned == Spec => []OutMeansBeaten
<1>1. Init => Walk
  BY WalkStarts
<1>2. Walk /\ [Next]_vars => Walk'
  <2>1. Walk /\ UNCHANGED vars => Walk'
    BY DEF Walk, vars
  <2> QED
    BY <2>1, WalkWins, WalkLoses DEF Next
<1>3. Walk => OutMeansBeaten
  <2> SUFFICES ASSUME Walk, stage.format = SingleElim \/ stage.gfReset
               PROVE  LET lives == IF stage.format = SingleElim THEN 1 ELSE 2
                      IN  /\ losses = lives => at = NoPointer
                          /\ at = NoPointer => (champion <=> losses < lives)
    BY DEF OutMeansBeaten
  <2>0. stage \in AnyStage
    BY DEF Walk
  <2>w. /\ W(stage) \in Nat /\ W(stage) >= 1 /\ stage.format \in {SingleElim, DoubleElim}
        /\ SingleElim # DoubleElim
    BY <2>0, StageIs
  <2>1. CASE at = NoPointer
    BY <2>w, <2>1 DEF Walk
  <2>2. CASE at # NoPointer
    <3>1. PICK a \in Int : \E b \in Nat : \E s \in Slot :
             Place(stage, a, b) /\ losses = Beaten(stage, a, s)
      BY <2>2 DEF Walk
    <3>2. PICK b \in Nat : \E s \in Slot : Place(stage, a, b) /\ losses = Beaten(stage, a, s)
      BY <3>1
    <3>3. PICK s \in Slot : Place(stage, a, b) /\ losses = Beaten(stage, a, s)
      BY <3>2
    <3>4. (a < 0 \/ a > W(stage)) => stage.format = DoubleElim
      BY <2>0, <3>3, PlaceIs
    <3>5. losses = 0 \/ (losses = 1 /\ stage.format = DoubleElim)
      <4>1. W(stage) + 2 > W(stage) /\ W(stage) + 1 > W(stage)
        BY <2>w
      <4>2. losses = 1 => (a < 0 \/ a > W(stage))
        BY <3>3, <4>1 DEF Beaten
      <4> QED
        BY <3>3, <3>4, <4>2 DEF Beaten
    <3> QED
      BY <2>2, <2>w, <3>5
  <2> QED
    BY <2>1, <2>2
<1> QED
  BY <1>1, <1>2, <1>3, PTL DEF Spec

-----------------------------------------------------------------------------
(* The seeding order: every round's order has each seed once, and its      *)
(* neighbours add up to one more than its field.                           *)

Reflected(order, k) ==
  [i \in 1..2^k |->
    IF k = 0 THEN 1
    ELSE IF i % 2 = 1 THEN order[k - 1][(i + 1) \div 2]
         ELSE 2^k + 1 - order[k - 1][i \div 2]]

Orders(order, w) == order = [k \in 0..w |-> Reflected(order, k)]

(* There is such a sequence of orders: otherwise there would be a first    *)
(* length for which there is none, one more than one for which there is.   *)
LEMMA OrdersExist == ASSUME NEW w \in Nat PROVE \E order : Orders(order, w)
<1> DEFINE T == {k \in Nat : ~\E order : Orders(order, k)}
<1> SUFFICES ASSUME w \in T PROVE FALSE
  OBVIOUS
<1>1. PICK m \in T : \A k \in T : m <= k
  <2>1. T \subseteq Nat /\ w \in T
    OBVIOUS
  <2> HIDE DEF T
  <2> QED
    BY <2>1, LeastNat
<1>2. m # 0
  <2> DEFINE one == [k \in 0..0 |-> [i \in 1..2^k |-> 1]]
  <2>1. \A k \in 0..0 : Reflected(one, k) = [i \in 1..2^k |-> 1]
    BY DEF Reflected
  <2>2. Orders(one, 0)
    BY <2>1 DEF Orders
  <2> QED
    BY <2>2
<1>3. m \in Nat /\ m - 1 \in Nat /\ m - 1 \notin T
  BY <1>1, <1>2
<1>4. PICK g : Orders(g, m - 1)
  BY <1>3
<1> DEFINE h == [k \in 0..m |-> IF k < m THEN g[k] ELSE Reflected(g, m)]
<1>5. \A k \in 0..m : k < m => h[k] = g[k] /\ g[k] = Reflected(g, k)
  BY <1>3, <1>4 DEF Orders
<1>6. h[m] = Reflected(g, m)
  BY <1>3
<1>7. ASSUME NEW k \in 0..m PROVE Reflected(h, k) = Reflected(g, k)
  <2>1. CASE k = 0
    BY <2>1 DEF Reflected
  <2>2. CASE k # 0
    <3>1. h[k - 1] = g[k - 1]
      BY <1>3, <1>5, <2>2
    <3> HIDE DEF h
    <3> QED
      BY <3>1 DEF Reflected
  <2> QED
    BY <2>1, <2>2
<1>8. \A k \in 0..m : h[k] = Reflected(h, k)
  <2> SUFFICES ASSUME NEW k \in 0..m PROVE h[k] = Reflected(h, k)
    OBVIOUS
  <2>1. k < m \/ k = m
    BY <1>3
  <2> HIDE DEF h
  <2> QED
    BY <1>5, <1>6, <1>7, <2>1
<1>9. Orders(h, m)
  <2>1. h = [k \in 0..m |-> h[k]]
    OBVIOUS
  <2> HIDE DEF h
  <2>2. [k \in 0..m |-> h[k]] = [k \in 0..m |-> Reflected(h, k)]
    BY <1>8
  <2> QED
    BY <2>1, <2>2 DEF Orders
<1> QED
  BY <1>1, <1>9

LEMMA SeedingOrders ==
  ASSUME NEW w \in Nat
  PROVE  \E order : Orders(order, w) /\ standard_seeding(w) = order[w]
<1>1. PICK order : order = CHOOSE f : Orders(f, w)
  OBVIOUS
<1>2. Orders(order, w)
  BY <1>1, OrdersExist
<1>3. standard_seeding(w) = order[w]
  BY <1>1 DEF standard_seeding, Orders, Reflected
<1> QED
  BY <1>2, <1>3

(* Neighbours. *)
LEMMA Neighbours ==
  ASSUME NEW w \in Nat, NEW order, Orders(order, w), NEW k \in 1..w, NEW p \in 1..2^(k - 1)
  PROVE  /\ 2 * p - 1 \in 1..2^k /\ 2 * p \in 1..2^k
         /\ order[k][2 * p - 1] = order[k - 1][p]
         /\ order[k][2 * p] = 2^k + 1 - order[k - 1][p]
<1>1. 2^k = 2 * 2^(k - 1) /\ 2^(k - 1) \in Nat /\ k \in Nat
  BY PowerDown, PowerNat
<1>2. 2 * p - 1 \in 1..2^k /\ 2 * p \in 1..2^k
  BY <1>1
<1>3. order[k] = Reflected(order, k)
  BY DEF Orders
<1>4. \A i \in 1..2^k : order[k][i] =
        IF i % 2 = 1 THEN order[k - 1][(i + 1) \div 2] ELSE 2^k + 1 - order[k - 1][i \div 2]
  BY <1>3 DEF Reflected
<1>5. (2 * p - 1) % 2 = 1 /\ (2 * p - 1 + 1) \div 2 = p /\ (2 * p) % 2 # 1 /\ (2 * p) \div 2 = p
  OBVIOUS
<1> QED
  BY <1>2, <1>4, <1>5

(* Each index is one of a pair. *)
LEMMA IndexIs ==
  ASSUME NEW k \in Nat, k >= 1, NEW i \in 1..2^k
  PROVE  \E p \in 1..2^(k - 1) : i = 2 * p - 1 \/ i = 2 * p
<1>1. 2^k = 2 * 2^(k - 1) /\ 2^(k - 1) \in Nat
  BY PowerDown, PowerNat
<1>2. PICK p \in Nat : i = 2 * p - 1 \/ i = 2 * p
  <2>1. (i + 1) \div 2 \in Nat /\ (i = 2 * ((i + 1) \div 2) - 1 \/ i = 2 * ((i + 1) \div 2))
    OBVIOUS
  <2> QED
    BY <2>1
<1>3. p \in 1..2^(k - 1)
  BY <1>1, <1>2
<1> QED
  BY <1>2, <1>3

(* Every order has each seed of its field once: the odd places have those  *)
(* of the smaller field, the even ones their reflections.                  *)
Arranged(order, k) ==
  /\ \A i \in 1..2^k : order[k][i] \in 1..2^k
  /\ \A i, j \in 1..2^k : order[k][i] = order[k][j] => i = j

LEMMA ArrangedNext ==
  ASSUME NEW w \in Nat, NEW order, Orders(order, w), NEW k \in 1..w, Arranged(order, k - 1)
  PROVE  Arranged(order, k)
<1>0. k \in Nat /\ k >= 1
  OBVIOUS
<1>1. 2^k = 2 * 2^(k - 1) /\ 2^(k - 1) \in Nat /\ k \in Nat /\ k >= 1
  BY <1>0, PowerDown, PowerNat
<1>2. PICK h \in Nat : h = 2^(k - 1) /\ 2^k = 2 * h
  BY <1>1
<1>3. PICK f : f = order[k]
  OBVIOUS
<1>4. PICK e : e = order[k - 1]
  OBVIOUS
<1>5. \A p \in 1..h : e[p] \in 1..h
  BY <1>2, <1>4 DEF Arranged
<1>6. \A p, q \in 1..h : e[p] = e[q] => p = q
  BY <1>2, <1>4 DEF Arranged
<1>7. \A p \in 1..h : f[2 * p - 1] = e[p] /\ f[2 * p] = 2 * h + 1 - e[p]
  BY <1>2, <1>3, <1>4, Neighbours
<1>8. \A i \in 1..2 * h : \E p \in 1..h : i = 2 * p - 1 \/ i = 2 * p
  BY <1>1, <1>2, IndexIs
<1>9. ASSUME NEW i \in 1..2 * h PROVE f[i] \in 1..2 * h
  <2>1. PICK p \in 1..h : i = 2 * p - 1 \/ i = 2 * p
    BY <1>8
  <2>2. e[p] \in 1..h /\ (f[i] = e[p] \/ f[i] = 2 * h + 1 - e[p])
    BY <1>5, <1>7, <2>1
  <2> QED
    BY <2>2
<1>10. ASSUME NEW i \in 1..2 * h, NEW j \in 1..2 * h, f[i] = f[j] PROVE i = j
  <2>1. PICK p \in 1..h : i = 2 * p - 1 \/ i = 2 * p
    BY <1>8
  <2>2. PICK q \in 1..h : j = 2 * q - 1 \/ j = 2 * q
    BY <1>8
  <2>3. e[p] \in 1..h /\ e[q] \in 1..h
    BY <1>5
  <2>4. CASE i = 2 * p - 1 /\ j = 2 * q - 1
    <3>1. e[p] = e[q]
      BY <1>7, <1>10, <2>4
    <3> QED
      BY <1>6, <2>4, <3>1
  <2>5. CASE i = 2 * p /\ j = 2 * q
    <3>1. 2 * h + 1 - e[p] = 2 * h + 1 - e[q]
      BY <1>7, <1>10, <2>5
    <3>2. e[p] = e[q]
      BY <2>3, <3>1
    <3> QED
      BY <1>6, <2>5, <3>2
  <2>6. CASE i = 2 * p - 1 /\ j = 2 * q
    <3>1. e[p] = 2 * h + 1 - e[q]
      BY <1>7, <1>10, <2>6
    <3> QED
      BY <2>3, <3>1
  <2>7. CASE i = 2 * p /\ j = 2 * q - 1
    <3>1. 2 * h + 1 - e[p] = e[q]
      BY <1>7, <1>10, <2>7
    <3> QED
      BY <2>3, <3>1
  <2> QED
    BY <2>1, <2>2, <2>4, <2>5, <2>6, <2>7
<1>11. /\ \A i \in 1..2 * h : f[i] \in 1..2 * h
       /\ \A i, j \in 1..2 * h : f[i] = f[j] => i = j
  BY <1>9, <1>10
<1> QED
  BY <1>2, <1>3, <1>11 DEF Arranged

LEMMA OrdersArranged ==
  ASSUME NEW w \in Nat, NEW order, Orders(order, w)
  PROVE  \A k \in 0..w : Arranged(order, k)
<1> DEFINE T == {k \in Nat : k \in 0..w /\ ~Arranged(order, k)}
<1> SUFFICES ASSUME NEW k \in 0..w, ~Arranged(order, k) PROVE FALSE
  OBVIOUS
<1>1. T \subseteq Nat /\ k \in T
  OBVIOUS
<1>2. PICK m \in T : \A l \in T : m <= l
  <2> HIDE DEF T
  <2> QED
    BY <1>1, LeastNat
<1>3. m \in 0..w /\ ~Arranged(order, m) /\ m \in Nat
  OBVIOUS
<1>4. Arranged(order, 0)
  <2>1. order[0] = Reflected(order, 0) /\ 2^0 = 1
    BY PowerZero DEF Orders
  <2>2. \A i \in 1..2^0 : order[0][i] = 1
    BY <2>1 DEF Reflected
  <2>3. \A i \in 1..1 : i = 1
    OBVIOUS
  <2> QED
    BY <2>1, <2>2, <2>3 DEF Arranged
<1>5. m \in 1..w /\ m - 1 \in Nat /\ m - 1 \in 0..w /\ m - 1 < m
  BY <1>3, <1>4
<1>6. Arranged(order, m - 1)
  BY <1>2, <1>5
<1> QED
  BY <1>3, <1>5, <1>6, ArrangedNext

-----------------------------------------------------------------------------
(* Who is seeded where: in the opening round only, the better of two       *)
(* first and always, the other unless there are not that many.             *)

LEMMA LaterUnseeded ==
  ASSUME NEW g \in AnyStage, NEW m \in Matches(g), m[1] # 1
  PROVE  Seeds(g)[m] = [slot \in Slot |-> None]
<1>1. Seeds(g)[m] = [slot \in Slot |-> IF m[1] = 1 THEN OpeningSeed(g.n, m, slot) ELSE None]
  BY DEF Seeds, GraphSeeds, Matches
<1> QED
  BY <1>1

LEMMA OpeningSeeded ==
  ASSUME NEW g \in AnyStage, NEW order, Orders(order, W(g)), standard_seeding(W(g)) = order[W(g)],
         NEW b \in Nat, Place(g, 1, b), NEW m, m = <<1, b>>, NEW a, a = order[W(g) - 1][b]
  PROVE  /\ m \in Matches(g) /\ b \in 1..2^(W(g) - 1)
         /\ a \in 1..g.n
         /\ Seeds(g)[m] \in [Slot -> 1..g.n \cup {None}]
         /\ Seeds(g)[m][1] = a
         /\ Seeds(g)[m][2] = (IF 2^W(g) + 1 - a <= g.n THEN 2^W(g) + 1 - a ELSE None)
<1> DEFINE w == W(g)
<1>0. w \in Nat /\ w >= 1 /\ g.n \in Nat /\ 2^(w - 1) < g.n /\ w = Rounds(g.n) /\ g.n <= 2^w
  BY StageIs DEF W
<1>1. m \in Matches(g) /\ m[1] = 1 /\ m[2] = b
  BY MatchesAre
<1>2. b \in 1..2^(w - 1)
  <2>1. 1 # w + 1 /\ 1 # w + 2 /\ ~(-1 \in 1..2 * w - 2) /\ 1 \in 1..w
    BY <1>0
  <2>2. b \in 1..Size(w, 1)
    BY <2>1 DEF Place
  <2> QED
    BY <2>2 DEF Size
<1>3. w - 1 \in Nat /\ w - 1 \in 0..w /\ w \in 1..w /\ w \in 0..w
  BY <1>0
<1>4. 2^(w - 1) \in Nat /\ 2^w = 2 * 2^(w - 1)
  BY <1>0, <1>3, PowerDown, PowerNat
<1>5. a \in 1..2^(w - 1)
  <2>1. Arranged(order, w - 1)
    BY <1>0, <1>3, OrdersArranged
  <2> QED
    BY <1>2, <2>1 DEF Arranged
<1>6. order[w][2 * b - 1] = a /\ order[w][2 * b] = 2^w + 1 - a
  BY <1>0, <1>2, <1>3, Neighbours
<1>7. \A slot \in Slot : Seeds(g)[m][slot] = OpeningSeed(g.n, m, slot)
  BY <1>1 DEF Seeds, GraphSeeds, Matches
<1>8. DOMAIN Seeds(g)[m] = Slot /\ Seeds(g)[m] = [slot \in Slot |-> Seeds(g)[m][slot]]
  BY <1>1 DEF Seeds, GraphSeeds, Matches
<1>9. 1 \in Slot /\ 2 \in Slot /\ Slot = {1, 2}
  BY DEF Slot
<1>10. 2 * (b - 1) + 1 = 2 * b - 1 /\ 2 * (b - 1) + 2 = 2 * b
  OBVIOUS
<1>a. a = order[w - 1][b]
  OBVIOUS
<1> HIDE DEF w
<1>11. OpeningSeed(g.n, m, 1) = a
  <2>1. standard_seeding(Rounds(g.n))[2 * (m[2] - 1) + 1] = a
    BY <1>0, <1>1, <1>6, <1>10 DEF w
  <2>2. a <= g.n
    BY <1>0, <1>4, <1>5
  <2> QED
    BY <1>1, <2>1, <2>2 DEF OpeningSeed
<1>12. OpeningSeed(g.n, m, 2) = IF 2^w + 1 - a <= g.n THEN 2^w + 1 - a ELSE None
  <2>1. standard_seeding(Rounds(g.n))[2 * (m[2] - 1) + 2] = 2^w + 1 - a
    BY <1>0, <1>1, <1>6, <1>10 DEF w
  <2> QED
    BY <1>1, <2>1 DEF OpeningSeed
<1>13. a \in 1..g.n
  BY <1>0, <1>4, <1>5
<1>14. \A slot \in Slot : Seeds(g)[m][slot] \in 1..g.n \cup {None}
  <2>1. CASE 2^w + 1 - a <= g.n
    <3>1. 2^w + 1 - a \in 1..g.n
      BY <1>0, <1>4, <1>5, <2>1
    <3> QED
      BY <1>7, <1>9, <1>11, <1>12, <1>13, <2>1, <3>1
  <2>2. CASE ~(2^w + 1 - a <= g.n)
    BY <1>7, <1>9, <1>11, <1>12, <1>13, <2>2
  <2> QED
    BY <2>1, <2>2
<1>15. Seeds(g)[m] \in [Slot -> 1..g.n \cup {None}]
  BY <1>8, <1>14
<1>16. Seeds(g)[m][1] = a /\ Seeds(g)[m][2] = IF 2^w + 1 - a <= g.n THEN 2^w + 1 - a ELSE None
  BY <1>7, <1>9, <1>11, <1>12
<1> QED
  BY <1>1, <1>2, <1>13, <1>15, <1>16 DEF w

(* Where a seed stands. *)
LEMMA SeedAt ==
  ASSUME NEW g \in AnyStage, NEW order, Orders(order, W(g)), standard_seeding(W(g)) = order[W(g)],
         NEW b \in Nat, Place(g, 1, b), NEW m, m = <<1, b>>, NEW s \in Slot, Seeds(g)[m][s] # None
  PROVE  /\ 2 * b - 2 + s \in 1..2^W(g)
         /\ Seeds(g)[m][s] = order[W(g)][2 * b - 2 + s]
<1> DEFINE w == W(g)
<1>0. w \in Nat /\ w >= 1 /\ w \in 1..w /\ w - 1 \in Nat
  BY StageIs
<1>1. b \in 1..2^(w - 1)
  BY OpeningSeeded
<1>2. /\ 2 * b - 1 \in 1..2^w /\ 2 * b \in 1..2^w
      /\ order[w][2 * b - 1] = order[w - 1][b]
      /\ order[w][2 * b] = 2^w + 1 - order[w - 1][b]
  BY <1>0, <1>1, Neighbours
<1>3. /\ Seeds(g)[m][1] = order[w - 1][b]
      /\ Seeds(g)[m][2] = (IF 2^w + 1 - order[w - 1][b] <= g.n THEN 2^w + 1 - order[w - 1][b] ELSE None)
  BY OpeningSeeded
<1>4. CASE s = 1
  <2>1. 2 * b - 2 + s = 2 * b - 1
    BY <1>4
  <2> QED
    BY <1>2, <1>3, <1>4, <2>1
<1>5. CASE s = 2
  <2>1. 2 * b - 2 + s = 2 * b
    BY <1>5
  <2> QED
    BY <1>2, <1>3, <1>5, <2>1
<1> QED
  BY <1>4, <1>5 DEF Slot

LEMMA SeedsAre ==
  ASSUME NEW g \in AnyStage
  PROVE  /\ Seeds(g) \in [Matches(g) -> [Slot -> 1..g.n \cup {None}]]
         /\ \A m \in Matches(g) : m[1] = 1 => Seeds(g)[m][1] \in 1..g.n
         /\ \A x, y \in Matches(g) : \A s, t \in Slot :
              Seeds(g)[x][s] # None /\ Seeds(g)[x][s] = Seeds(g)[y][t] => x = y /\ s = t
<1>1. PICK order : Orders(order, W(g)) /\ standard_seeding(W(g)) = order[W(g)]
  BY StageIs, SeedingOrders
<1>2. ASSUME NEW m \in Matches(g), m[1] = 1
      PROVE  \E b \in Nat : m = <<1, b>> /\ Place(g, 1, b)
  <2>1. PICK r \in Int : \E b \in Nat : m = <<r, b>> /\ Place(g, r, b)
    BY MatchesAre
  <2>2. PICK b \in Nat : m = <<r, b>> /\ Place(g, r, b)
    BY <2>1
  <2>3. r = 1
    BY <1>2, <2>2
  <2> QED
    BY <2>2, <2>3
<1>3. ASSUME NEW m \in Matches(g), m[1] = 1
      PROVE  Seeds(g)[m] \in [Slot -> 1..g.n \cup {None}] /\ Seeds(g)[m][1] \in 1..g.n
  <2>1. PICK b \in Nat : m = <<1, b>> /\ Place(g, 1, b)
    BY <1>2, <1>3
  <2> QED
    BY <1>1, <2>1, OpeningSeeded
<1>4. ASSUME NEW m \in Matches(g) PROVE Seeds(g)[m] \in [Slot -> 1..g.n \cup {None}]
  <2>1. CASE m[1] = 1
    BY <1>3, <2>1
  <2>2. CASE m[1] # 1
    BY <2>2, LaterUnseeded
  <2> QED
    BY <2>1, <2>2
<1>5. Seeds(g) \in [Matches(g) -> [Slot -> 1..g.n \cup {None}]]
  <2>1. Seeds(g) = [m \in Matches(g) |-> Seeds(g)[m]]
    BY DEF Seeds, GraphSeeds, Matches
  <2> QED
    BY <1>4, <2>1
<1>6. ASSUME NEW x \in Matches(g), NEW y \in Matches(g), NEW s \in Slot, NEW t \in Slot,
             Seeds(g)[x][s] # None, Seeds(g)[x][s] = Seeds(g)[y][t]
      PROVE  x = y /\ s = t
  <2>1. x[1] = 1 /\ y[1] = 1
    <3>1. x[1] # 1 => Seeds(g)[x][s] = None
      BY LaterUnseeded
    <3>2. y[1] # 1 => Seeds(g)[y][t] = None
      BY LaterUnseeded
    <3> QED
      BY <1>6, <3>1, <3>2
  <2>2. PICK b \in Nat : x = <<1, b>> /\ Place(g, 1, b)
    BY <1>2, <2>1
  <2>3. PICK c \in Nat : y = <<1, c>> /\ Place(g, 1, c)
    BY <1>2, <2>1
  <2>4. /\ 2 * b - 2 + s \in 1..2^W(g)
        /\ Seeds(g)[x][s] = order[W(g)][2 * b - 2 + s]
    BY <1>1, <1>6, <2>2, SeedAt
  <2>5. /\ 2 * c - 2 + t \in 1..2^W(g)
        /\ Seeds(g)[y][t] = order[W(g)][2 * c - 2 + t]
    BY <1>1, <1>6, <2>3, SeedAt
  <2>6. Arranged(order, W(g))
    BY <1>1, StageIs, OrdersArranged
  <2>7. 2 * b - 2 + s = 2 * c - 2 + t
    BY <1>6, <2>4, <2>5, <2>6 DEF Arranged
  <2>8. s \in {1, 2} /\ t \in {1, 2}
    BY DEF Slot
  <2>9. b = c /\ s = t
    BY <2>7, <2>8
  <2> QED
    BY <2>2, <2>3, <2>9
<1> QED
  BY <1>3, <1>5, <1>6

-----------------------------------------------------------------------------
(* The graph is one that a stage can be played on.                         *)

Graph(g) == StageGraph(g.format, g.n, g.gfReset)

LEMMA GraphIs ==
  ASSUME NEW g
  PROVE  /\ Graph(g).matches = Matches(g) /\ Graph(g).winnerTo = WinnerTo(g)
         /\ Graph(g).loserTo = LoserTo(g) /\ Graph(g).seeds = Seeds(g)
         /\ Graph(g).round = [m \in Matches(g) |-> m[1]] /\ Graph(g).field = 1..g.n
         /\ \A m \in Matches(g) : Graph(g).round[m] = m[1]
BY DEF Graph, StageGraph, Matches, WinnerTo, LoserTo, Seeds

(* The same of matches as pairs. *)
LEMMA MatchIs ==
  ASSUME NEW g \in AnyStage, NEW x \in Matches(g)
  PROVE  \E r \in Int : \E q \in Nat : /\ x = <<r, q>> /\ x[1] = r /\ x[2] = q /\ Place(g, r, q)
                                       /\ WinnerTo(g)[x] = Onward(g, r, q)
                                       /\ LoserTo(g)[x] = Aside(g, r, q)
<1>1. PICK r \in Int : \E q \in Nat : x = <<r, q>> /\ Place(g, r, q)
  BY MatchesAre
<1>2. PICK q \in Nat : x = <<r, q>> /\ Place(g, r, q)
  BY <1>1
<1>3. WinnerTo(g)[x] = Onward(g, r, q) /\ LoserTo(g)[x] = Aside(g, r, q)
  BY <1>2, WinnerGoes, LoserGoes
<1> QED
  BY <1>2, <1>3

LEMMA Leads ==
  ASSUME NEW g \in AnyStage, NEW x \in Matches(g)
  PROVE  \/ /\ WinnerTo(g)[x] = NoPointer
            /\ \/ g.format = SingleElim /\ x[1] = W(g)
               \/ g.format = DoubleElim /\ x[1] = W(g) + 1 /\ g.gfReset = FALSE
               \/ g.format = DoubleElim /\ x[1] = W(g) + 2
         \/ \E y \in Matches(g) : \E s \in Slot :
              /\ WinnerTo(g)[x] = [match |-> y, slot |-> s]
              /\ \/ x[1] \in 1..W(g) - 1 /\ y[1] = x[1] + 1
                 \/ x[1] = W(g) /\ y[1] = W(g) + 1 /\ s = 1 /\ g.format = DoubleElim
                 \/ x[1] < 0 /\ x[1] = -(2 * W(g) - 2) /\ y[1] = W(g) + 1 /\ s = 2
                 \/ x[1] < 0 /\ y[1] = x[1] - 1
                 \/ x[1] = W(g) + 1 /\ y[1] = W(g) + 2 /\ s = 1 /\ g.gfReset = TRUE /\ g.format = DoubleElim
<1>1. PICK r \in Int : \E q \in Nat : /\ x = <<r, q>> /\ x[1] = r /\ x[2] = q /\ Place(g, r, q)
                                      /\ WinnerTo(g)[x] = Onward(g, r, q)
                                      /\ LoserTo(g)[x] = Aside(g, r, q)
  BY MatchIs
<1>2. PICK q \in Nat : /\ x = <<r, q>> /\ x[1] = r /\ x[2] = q /\ Place(g, r, q)
                       /\ WinnerTo(g)[x] = Onward(g, r, q)
                       /\ LoserTo(g)[x] = Aside(g, r, q)
  BY <1>1
<1>3. CASE \E a \in Int : \E b \in Nat : \E s \in Slot :
              /\ Onward(g, r, q) = To(a, b, s) /\ Place(g, a, b)
              /\ \/ r \in 1..W(g) - 1 /\ a = r + 1
                 \/ r = W(g) /\ a = W(g) + 1 /\ s = 1 /\ g.format = DoubleElim
                 \/ r < 0 /\ r = -(2 * W(g) - 2) /\ a = W(g) + 1 /\ s = 2
                 \/ r < 0 /\ a = r - 1
                 \/ r = W(g) + 1 /\ a = W(g) + 2 /\ s = 1 /\ g.gfReset = TRUE /\ g.format = DoubleElim
  <2>1. PICK a \in Int : \E b \in Nat : \E s \in Slot :
              /\ Onward(g, r, q) = To(a, b, s) /\ Place(g, a, b)
              /\ \/ r \in 1..W(g) - 1 /\ a = r + 1
                 \/ r = W(g) /\ a = W(g) + 1 /\ s = 1 /\ g.format = DoubleElim
                 \/ r < 0 /\ r = -(2 * W(g) - 2) /\ a = W(g) + 1 /\ s = 2
                 \/ r < 0 /\ a = r - 1
                 \/ r = W(g) + 1 /\ a = W(g) + 2 /\ s = 1 /\ g.gfReset = TRUE /\ g.format = DoubleElim
    BY <1>3
  <2>2. PICK b \in Nat : \E s \in Slot :
              /\ Onward(g, r, q) = To(a, b, s) /\ Place(g, a, b)
              /\ \/ r \in 1..W(g) - 1 /\ a = r + 1
                 \/ r = W(g) /\ a = W(g) + 1 /\ s = 1 /\ g.format = DoubleElim
                 \/ r < 0 /\ r = -(2 * W(g) - 2) /\ a = W(g) + 1 /\ s = 2
                 \/ r < 0 /\ a = r - 1
                 \/ r = W(g) + 1 /\ a = W(g) + 2 /\ s = 1 /\ g.gfReset = TRUE /\ g.format = DoubleElim
    BY <2>1
  <2>3. PICK y : y = <<a, b>>
    OBVIOUS
  <2>4. y \in Matches(g) /\ y[1] = a
    BY <2>2, <2>3, MatchesAre
  <2>5. \A s : To(a, b, s) = [match |-> y, slot |-> s]
    BY <2>3 DEF To
  <2> QED
    BY <1>2, <2>2, <2>4, <2>5
<1>4. CASE /\ Onward(g, r, q) = NoPointer
           /\ \/ g.format = SingleElim /\ r = W(g)
              \/ g.format = DoubleElim /\ r = W(g) + 1 /\ g.gfReset = FALSE
              \/ g.format = DoubleElim /\ r = W(g) + 2
  BY <1>2, <1>4
<1> QED
  BY <1>2, <1>3, <1>4, OnwardTo

LEMMA Drops ==
  ASSUME NEW g \in AnyStage, NEW x \in Matches(g)
  PROVE  \/ /\ LoserTo(g)[x] = NoPointer
            /\ \/ g.format = SingleElim
               \/ x[1] < 0
               \/ g.format = DoubleElim /\ x[1] = W(g) + 1 /\ g.gfReset = FALSE
               \/ g.format = DoubleElim /\ x[1] = W(g) + 2
         \/ \E y \in Matches(g) : \E s \in Slot :
              /\ LoserTo(g)[x] = [match |-> y, slot |-> s] /\ g.format = DoubleElim
              /\ \/ x[1] = 1 /\ W(g) = 1 /\ y[1] = 2 /\ s = 2
                 \/ x[1] = 1 /\ W(g) > 1 /\ y[1] = -1
                 \/ x[1] \in 2..W(g) /\ y[1] = -(2 * x[1] - 2) /\ y[2] = x[2] /\ s = 2
                 \/ x[1] = W(g) + 1 /\ y[1] = W(g) + 2 /\ s = 2 /\ g.gfReset = TRUE
<1>1. PICK r \in Int : \E q \in Nat : /\ x = <<r, q>> /\ x[1] = r /\ x[2] = q /\ Place(g, r, q)
                                      /\ WinnerTo(g)[x] = Onward(g, r, q)
                                      /\ LoserTo(g)[x] = Aside(g, r, q)
  BY MatchIs
<1>2. PICK q \in Nat : /\ x = <<r, q>> /\ x[1] = r /\ x[2] = q /\ Place(g, r, q)
                       /\ WinnerTo(g)[x] = Onward(g, r, q)
                       /\ LoserTo(g)[x] = Aside(g, r, q)
  BY <1>1
<1>3. CASE \E a \in Int : \E b \in Nat : \E s \in Slot :
              /\ Aside(g, r, q) = To(a, b, s) /\ Place(g, a, b) /\ g.format = DoubleElim
              /\ \/ r = 1 /\ W(g) = 1 /\ a = 2 /\ s = 2
                 \/ r = 1 /\ W(g) > 1 /\ a = -1
                 \/ r \in 2..W(g) /\ a = -(2 * r - 2) /\ b = q /\ s = 2
                 \/ r = W(g) + 1 /\ a = W(g) + 2 /\ s = 2 /\ g.gfReset = TRUE
  <2>1. PICK a \in Int : \E b \in Nat : \E s \in Slot :
              /\ Aside(g, r, q) = To(a, b, s) /\ Place(g, a, b) /\ g.format = DoubleElim
              /\ \/ r = 1 /\ W(g) = 1 /\ a = 2 /\ s = 2
                 \/ r = 1 /\ W(g) > 1 /\ a = -1
                 \/ r \in 2..W(g) /\ a = -(2 * r - 2) /\ b = q /\ s = 2
                 \/ r = W(g) + 1 /\ a = W(g) + 2 /\ s = 2 /\ g.gfReset = TRUE
    BY <1>3
  <2>2. PICK b \in Nat : \E s \in Slot :
              /\ Aside(g, r, q) = To(a, b, s) /\ Place(g, a, b) /\ g.format = DoubleElim
              /\ \/ r = 1 /\ W(g) = 1 /\ a = 2 /\ s = 2
                 \/ r = 1 /\ W(g) > 1 /\ a = -1
                 \/ r \in 2..W(g) /\ a = -(2 * r - 2) /\ b = q /\ s = 2
                 \/ r = W(g) + 1 /\ a = W(g) + 2 /\ s = 2 /\ g.gfReset = TRUE
    BY <2>1
  <2>3. PICK y : y = <<a, b>>
    OBVIOUS
  <2>4. y \in Matches(g) /\ y[1] = a /\ y[2] = b
    BY <2>2, <2>3, MatchesAre
  <2>5. \A s : To(a, b, s) = [match |-> y, slot |-> s]
    BY <2>3 DEF To
  <2> QED
    BY <1>2, <2>2, <2>4, <2>5
<1>4. CASE /\ Aside(g, r, q) = NoPointer
           /\ \/ g.format = SingleElim
              \/ r < 0
              \/ g.format = DoubleElim /\ r = W(g) + 1 /\ g.gfReset = FALSE
              \/ g.format = DoubleElim /\ r = W(g) + 2
  BY <1>2, <1>4
<1> QED
  BY <1>2, <1>3, <1>4, AsideTo

LEMMA MatchesFinite == ASSUME NEW g \in AnyStage PROVE IsFiniteSet(Matches(g))
<1> DEFINE w == W(g)
           box == (-(2 * w)..w + 2) \X (1..2^w)
<1>0. w \in Nat /\ w >= 1
  BY StageIs
<1>1. 2^w \in Nat /\ 2^w >= 1
  BY <1>0, PowerPositive
<1> HIDE DEF w
<1>2. IsFiniteSet(-(2 * w)..w + 2) /\ IsFiniteSet(1..2^w)
  <2>1. -(2 * w) \in Int /\ w + 2 \in Int
    BY <1>0
  <2>2. IsFiniteSet(-(2 * w)..w + 2)
    BY <2>1, FS_Interval
  <2>3. IsFiniteSet(1..2^w)
    BY <1>1, FS_Interval
  <2> QED
    BY <2>2, <2>3
<1>3. IsFiniteSet(box)
  BY <1>2, FS_Product
<1>4. Matches(g) \subseteq box
  <2> SUFFICES ASSUME NEW x \in Matches(g) PROVE x \in box
    OBVIOUS
  <2>1. PICK r \in Int : \E q \in Nat : x = <<r, q>> /\ Place(g, r, q)
    BY MatchesAre
  <2>2. PICK q \in Nat : x = <<r, q>> /\ Place(g, r, q)
    BY <2>1
  <2>3. r \in -(2 * w)..w + 2
    <3>1. (r < 0 => -r \in 1..2 * w - 2) /\ (r > 0 \/ r < 0) /\ (r = w + 1 \/ r = w + 2 \/ r <= w)
      BY <2>2, PlaceIs DEF w
    <3> QED
      BY <1>0, <3>1
  <2>4. q \in 1..2^w
    <3>1. CASE r \in 1..w \/ -r \in 1..2 * w - 2
      <4>1. Size(w, r) \in Nat /\ Size(w, r) <= 2^w
        BY <1>0, <3>1, SizeIs
      <4>2. r # w + 1 /\ r # w + 2
        BY <1>0, <3>1
      <4>3. q \in 1..Size(w, r)
        BY <2>2, <4>2 DEF Place, w
      <4> QED
        BY <1>1, <4>1, <4>3
    <3>2. CASE ~(r \in 1..w \/ -r \in 1..2 * w - 2)
      <4>1. q = 1
        BY <2>2, <3>2 DEF Place, w
      <4> QED
        BY <1>1, <4>1
    <3> QED
      BY <3>1, <3>2
  <2> QED
    BY <2>2, <2>3, <2>4
<1> QED
  BY <1>3, <1>4, FS_Subset

LEMMA NowhereIsNoSlot ==
  ASSUME NEW g \in AnyStage
  PROVE  NoPointer \notin Pointers(Graph(g)) /\ \A y \in Matches(g), s \in Slot : NoPointer # [match |-> y, slot |-> s]
<1>1. Matches(g) \subseteq Int \X Int
  <2> SUFFICES ASSUME NEW x \in Matches(g) PROVE x \in Int \X Int
    OBVIOUS
  <2>1. PICK r \in Int : \E q \in Nat : x = <<r, q>> /\ Place(g, r, q)
    BY MatchesAre
  <2> QED
    BY <2>1
<1>2. Graph(g).matches = Matches(g)
  BY GraphIs
<1> QED
  BY <1>1, <1>2, PointerAssumption DEF Pointers

LEMMA GraphWellFormed == ASSUME NEW g \in AnyStage PROVE WellFormed(Graph(g))
<1>0. /\ Graph(g).matches = Matches(g) /\ Graph(g).winnerTo = WinnerTo(g)
      /\ Graph(g).loserTo = LoserTo(g) /\ Graph(g).seeds = Seeds(g)
      /\ Graph(g).round = [m \in Matches(g) |-> m[1]] /\ Graph(g).field = 1..g.n
  BY GraphIs
<1>1. IsFiniteSet(Matches(g))
  BY MatchesFinite
<1>2. \A y \in Matches(g), s \in Slot : [match |-> y, slot |-> s] \in Pointers(Graph(g))
  BY <1>0 DEF Pointers
<1>3. WinnerTo(g) \in [Matches(g) -> Pointers(Graph(g)) \cup {NoPointer}]
  <2>1. WinnerTo(g) = [m \in Matches(g) |-> WinnerTo(g)[m]]
    BY DEF WinnerTo, GraphWinnerTo, Matches
  <2>2. \A m \in Matches(g) : WinnerTo(g)[m] \in Pointers(Graph(g)) \cup {NoPointer}
    BY <1>2, Leads
  <2> QED
    BY <2>1, <2>2
<1>4. LoserTo(g) \in [Matches(g) -> Pointers(Graph(g)) \cup {NoPointer}]
  <2>1. LoserTo(g) = [m \in Matches(g) |-> LoserTo(g)[m]]
    BY DEF LoserTo, GraphLoserTo, Matches
  <2>2. \A m \in Matches(g) : LoserTo(g)[m] \in Pointers(Graph(g)) \cup {NoPointer}
    BY <1>2, Drops
  <2> QED
    BY <2>1, <2>2
<1>5. Seeds(g) \in [Matches(g) -> [Slot -> 1..g.n \cup {None}]]
  BY SeedsAre
<1>6. [m \in Matches(g) |-> m[1]] \in [Matches(g) -> Int]
  <2>1. \A m \in Matches(g) : m[1] \in Int
    BY MatchIs
  <2> QED
    BY <2>1
<1> QED
  BY <1>0, <1>1, <1>3, <1>4, <1>5, <1>6 DEF WellFormed

(* No two results reach one slot. *)
LEMMA ResultsApart ==
  ASSUME NEW g \in AnyStage, NEW x \in Matches(g), NEW y \in Matches(g)
  PROVE  /\ WinnerTo(g)[x] # NoPointer /\ WinnerTo(g)[x] = WinnerTo(g)[y] => x = y
         /\ LoserTo(g)[x] # NoPointer /\ LoserTo(g)[x] = LoserTo(g)[y] => x = y
         /\ WinnerTo(g)[x] # NoPointer => WinnerTo(g)[x] # LoserTo(g)[y]
<1>1. ASSUME NEW z \in Matches(g), NEW s \in Slot
      PROVE  \E a \in Int : \E b \in Int : [match |-> z, slot |-> s] = To(a, b, s)
  <2>1. PICK a \in Int : \E b \in Nat : z = <<a, b>> /\ Place(g, a, b)
    BY MatchesAre
  <2>2. PICK b \in Nat : z = <<a, b>>
    BY <2>1
  <2> QED
    BY <2>2 DEF To
<1>2. ASSUME NEW z \in Matches(g), NEW s \in Slot, NEW p, p = [match |-> z, slot |-> s]
      PROVE  /\ WinnerTo(g)[x] = p /\ WinnerTo(g)[y] = p => x = y
             /\ LoserTo(g)[x] = p /\ LoserTo(g)[y] = p => x = y
             /\ ~(WinnerTo(g)[x] = p /\ LoserTo(g)[y] = p)
  <2>1. PICK a \in Int, b \in Int : p = To(a, b, s)
    BY <1>1, <1>2
  <2>2. /\ WinnerTo(g)[x] = To(a, b, s) =>
              x = Source(g, a, b, s) /\ SourceResult(g, a, s) = "winner"
        /\ LoserTo(g)[x] = To(a, b, s) =>
              x = Source(g, a, b, s) /\ SourceResult(g, a, s) = "loser"
    BY LeadsFrom
  <2>3. /\ WinnerTo(g)[y] = To(a, b, s) =>
              y = Source(g, a, b, s) /\ SourceResult(g, a, s) = "winner"
        /\ LoserTo(g)[y] = To(a, b, s) =>
              y = Source(g, a, b, s) /\ SourceResult(g, a, s) = "loser"
    BY LeadsFrom
  <2>4. "winner" # "loser"
    OBVIOUS
  <2> QED
    BY <2>1, <2>2, <2>3, <2>4
<1>3. WinnerTo(g)[x] # NoPointer => \E z \in Matches(g) : \E s \in Slot : WinnerTo(g)[x] = [match |-> z, slot |-> s]
  BY Leads
<1>4. LoserTo(g)[x] # NoPointer => \E z \in Matches(g) : \E s \in Slot : LoserTo(g)[x] = [match |-> z, slot |-> s]
  BY Drops
<1> QED
  BY <1>2, <1>3, <1>4

LEMMA OpeningPair ==
  ASSUME NEW g \in AnyStage, NEW m \in Matches(g), m[1] = 1
  PROVE  \E a \in 1..g.n : \E f \in Nat :
           /\ f = 2^W(g) /\ Seeds(g)[m][1] = a
           /\ Seeds(g)[m][2] = (IF f + 1 - a <= g.n THEN f + 1 - a ELSE None)
<1>1. PICK order : Orders(order, W(g)) /\ standard_seeding(W(g)) = order[W(g)]
  BY StageIs, SeedingOrders
<1>2. PICK r \in Int : \E b \in Nat : m = <<r, b>> /\ Place(g, r, b)
  BY MatchesAre
<1>3. PICK b \in Nat : m = <<r, b>> /\ Place(g, r, b)
  BY <1>2
<1>4. m = <<1, b>> /\ Place(g, 1, b)
  BY <1>3
<1>5. PICK a : a = order[W(g) - 1][b]
  OBVIOUS
<1>6. /\ b \in 1..2^(W(g) - 1) /\ a \in 1..g.n
      /\ Seeds(g)[m][1] = a
      /\ Seeds(g)[m][2] = (IF 2^W(g) + 1 - a <= g.n THEN 2^W(g) + 1 - a ELSE None)
  BY <1>1, <1>4, <1>5, OpeningSeeded
<1>7. 2^W(g) \in Nat
  BY StageIs, PowerNat
<1> QED
  BY <1>6, <1>7

LEMMA FieldOfTwo ==
  ASSUME NEW g \in AnyStage, W(g) = 1
  PROVE  /\ g.n = 2
         /\ \A m \in Matches(g) : m[1] = 1 => Seeds(g)[m][1] # None /\ Seeds(g)[m][2] # None
<1>1. g.n = 2
  <2>1. 2^W(g) = 2
    BY PowerZero
  <2>2. g.n \in Nat /\ g.n >= 2 /\ g.n <= 2^W(g)
    BY StageIs
  <2> QED
    BY <2>1, <2>2
<1>2. ASSUME NEW m \in Matches(g), m[1] = 1 PROVE Seeds(g)[m][1] # None /\ Seeds(g)[m][2] # None
  <2>1. PICK a \in 1..g.n : \E f \in Nat :
           /\ f = 2^W(g) /\ Seeds(g)[m][1] = a
           /\ Seeds(g)[m][2] = (IF f + 1 - a <= g.n THEN f + 1 - a ELSE None)
    BY <1>2, OpeningPair
  <2>2. PICK f \in Nat :
           /\ f = 2^W(g) /\ Seeds(g)[m][1] = a
           /\ Seeds(g)[m][2] = (IF f + 1 - a <= g.n THEN f + 1 - a ELSE None)
    BY <2>1
  <2>3. f = 2
    BY <2>2, PowerZero
  <2>4. f + 1 - a \in 1..2 /\ a \in 1..2
    BY <1>1, <2>3
  <2> QED
    BY <1>1, <2>2, <2>4, NoneAssumption
<1> QED
  BY <1>1, <1>2

LEMMA GraphOneSource == ASSUME NEW g \in AnyStage PROVE OneSource(Graph(g))
<1>0. /\ Graph(g).matches = Matches(g) /\ Graph(g).winnerTo = WinnerTo(g)
      /\ Graph(g).loserTo = LoserTo(g) /\ Graph(g).seeds = Seeds(g)
  BY GraphIs
<1>w. /\ W(g) \in Nat /\ W(g) >= 1 /\ g.format \in {SingleElim, DoubleElim} /\ SingleElim # DoubleElim
      /\ g.gfReset \in BOOLEAN
  BY StageIs
<1> SUFFICES ASSUME NEW x \in Matches(g), NEW y \in Matches(g)
    PROVE  /\ \A p \in {WinnerTo(g)[x], LoserTo(g)[y]} \ {NoPointer} :
                \A s \in Slot : Seeds(g)[p.match][s] = None
           /\ \/ WinnerTo(g)[x] = NoPointer /\ LoserTo(g)[x] = NoPointer
              \/ /\ NoPointer \notin {WinnerTo(g)[x], LoserTo(g)[x]}
                 /\ WinnerTo(g)[x].match = LoserTo(g)[x].match
              => (Seeds(g)[x][1] = None <=> Seeds(g)[x][2] = None)
  <2>1. ASSUME NEW x \in Matches(g), NEW y \in Matches(g)
        PROVE  /\ WinnerTo(g)[x] # NoPointer /\ WinnerTo(g)[x] = WinnerTo(g)[y] => x = y
               /\ LoserTo(g)[x] # NoPointer /\ LoserTo(g)[x] = LoserTo(g)[y] => x = y
               /\ WinnerTo(g)[x] # NoPointer => WinnerTo(g)[x] # LoserTo(g)[y]
    BY ResultsApart
  <2> QED
    BY <1>0, <2>1 DEF OneSource
<1>i. x[1] \in Int /\ y[1] \in Int
  BY MatchIs
<1>1. ASSUME NEW z \in Matches(g), z[1] # 1 PROVE \A s \in Slot : Seeds(g)[z][s] = None
  BY <1>1, LaterUnseeded
<1>2. ASSUME WinnerTo(g)[x] # NoPointer
      PROVE  \A s \in Slot : Seeds(g)[WinnerTo(g)[x].match][s] = None
  <2>1. PICK z \in Matches(g) : \E s \in Slot :
              /\ WinnerTo(g)[x] = [match |-> z, slot |-> s]
              /\ \/ x[1] \in 1..W(g) - 1 /\ z[1] = x[1] + 1
                 \/ x[1] = W(g) /\ z[1] = W(g) + 1 /\ s = 1 /\ g.format = DoubleElim
                 \/ x[1] < 0 /\ x[1] = -(2 * W(g) - 2) /\ z[1] = W(g) + 1 /\ s = 2
                 \/ x[1] < 0 /\ z[1] = x[1] - 1
                 \/ x[1] = W(g) + 1 /\ z[1] = W(g) + 2 /\ s = 1 /\ g.gfReset = TRUE /\ g.format = DoubleElim
    BY <1>2, Leads
  <2>2. z[1] # 1 /\ WinnerTo(g)[x].match = z
    BY <1>i, <1>w, <2>1
  <2> QED
    BY <1>1, <2>2
<1>3. ASSUME LoserTo(g)[y] # NoPointer
      PROVE  \A s \in Slot : Seeds(g)[LoserTo(g)[y].match][s] = None
  <2>1. PICK z \in Matches(g) : \E s \in Slot :
              /\ LoserTo(g)[y] = [match |-> z, slot |-> s] /\ g.format = DoubleElim
              /\ \/ y[1] = 1 /\ W(g) = 1 /\ z[1] = 2 /\ s = 2
                 \/ y[1] = 1 /\ W(g) > 1 /\ z[1] = -1
                 \/ y[1] \in 2..W(g) /\ z[1] = -(2 * y[1] - 2) /\ z[2] = y[2] /\ s = 2
                 \/ y[1] = W(g) + 1 /\ z[1] = W(g) + 2 /\ s = 2 /\ g.gfReset = TRUE
    BY <1>3, Drops
  <2>2. z[1] # 1 /\ LoserTo(g)[y].match = z
    BY <1>i, <1>w, <2>1
  <2> QED
    BY <1>1, <2>2
<1>4. ASSUME \/ WinnerTo(g)[x] = NoPointer /\ LoserTo(g)[x] = NoPointer
             \/ /\ NoPointer \notin {WinnerTo(g)[x], LoserTo(g)[x]}
                /\ WinnerTo(g)[x].match = LoserTo(g)[x].match
      PROVE  Seeds(g)[x][1] = None <=> Seeds(g)[x][2] = None
  <2>s. 1 \in Slot /\ 2 \in Slot
    BY DEF Slot
  <2>1. CASE x[1] # 1
    BY <1>1, <2>1, <2>s
  <2>2. CASE x[1] = 1 /\ W(g) = 1
    BY <2>2, FieldOfTwo
  <2>3. CASE x[1] = 1 /\ W(g) # 1
    <3>1. WinnerTo(g)[x] # NoPointer
      <4>1. ~\/ g.format = SingleElim /\ x[1] = W(g)
             \/ g.format = DoubleElim /\ x[1] = W(g) + 1 /\ g.gfReset = FALSE
             \/ g.format = DoubleElim /\ x[1] = W(g) + 2
        BY <1>w, <2>3
      <4>2. \E z \in Matches(g) : \E s \in Slot : WinnerTo(g)[x] = [match |-> z, slot |-> s]
        BY <4>1, Leads
      <4> QED
        BY <4>2, NowhereIsNoSlot
    <3>2. /\ NoPointer \notin {WinnerTo(g)[x], LoserTo(g)[x]}
          /\ WinnerTo(g)[x].match = LoserTo(g)[x].match
      BY <1>4, <3>1
    <3>3. PICK z \in Matches(g) : \E s \in Slot :
              /\ WinnerTo(g)[x] = [match |-> z, slot |-> s]
              /\ \/ x[1] \in 1..W(g) - 1 /\ z[1] = x[1] + 1
                 \/ x[1] = W(g) /\ z[1] = W(g) + 1 /\ s = 1 /\ g.format = DoubleElim
                 \/ x[1] < 0 /\ x[1] = -(2 * W(g) - 2) /\ z[1] = W(g) + 1 /\ s = 2
                 \/ x[1] < 0 /\ z[1] = x[1] - 1
                 \/ x[1] = W(g) + 1 /\ z[1] = W(g) + 2 /\ s = 1 /\ g.gfReset = TRUE /\ g.format = DoubleElim
      BY <3>1, Leads
    <3>4. PICK v \in Matches(g) : \E s \in Slot :
              /\ LoserTo(g)[x] = [match |-> v, slot |-> s] /\ g.format = DoubleElim
              /\ \/ x[1] = 1 /\ W(g) = 1 /\ v[1] = 2 /\ s = 2
                 \/ x[1] = 1 /\ W(g) > 1 /\ v[1] = -1
                 \/ x[1] \in 2..W(g) /\ v[1] = -(2 * x[1] - 2) /\ v[2] = x[2] /\ s = 2
                 \/ x[1] = W(g) + 1 /\ v[1] = W(g) + 2 /\ s = 2 /\ g.gfReset = TRUE
      BY <3>2, Drops
    <3>5. z[1] = 2
      BY <1>w, <2>3, <3>3
    <3>6. v[1] = -1
      BY <1>w, <2>3, <3>4
    <3>7. z = v
      BY <3>2, <3>3, <3>4
    <3> QED
      BY <3>5, <3>6, <3>7
  <2> QED
    BY <2>1, <2>2, <2>3
<1> QED
  BY <1>2, <1>3, <1>4

LEMMA GraphSeededOnce == ASSUME NEW g \in AnyStage PROVE SeededOnce(Graph(g))
<1>1. Graph(g).matches = Matches(g) /\ Graph(g).seeds = Seeds(g)
  BY GraphIs
<1>2. \A x, y \in Matches(g) : \A s, t \in Slot :
        Seeds(g)[x][s] # None /\ Seeds(g)[x][s] = Seeds(g)[y][t] => x = y /\ s = t
  BY SeedsAre
<1> QED
  BY <1>1, <1>2 DEF SeededOnce

(* The winners bracket is that of the engines, and so is the losers one. *)
LEMMA UpperIs ==
  ASSUME NEW g \in AnyStage
  PROVE  /\ \A x : x \in Upper(Graph(g)) <=> x \in Matches(g) /\ x[1] \in 1..W(g)
         /\ \A x : x \in Lower(Graph(g)) <=> x \in Matches(g) /\ x[1] < 0
<1>0. /\ Graph(g).matches = Matches(g) /\ Graph(g).winnerTo = WinnerTo(g)
      /\ Graph(g).loserTo = LoserTo(g)
      /\ \A m \in Matches(g) : Graph(g).round[m] = m[1]
  BY GraphIs
<1>w. /\ W(g) \in Nat /\ W(g) >= 1 /\ g.format \in {SingleElim, DoubleElim} /\ SingleElim # DoubleElim
      /\ g.gfReset \in BOOLEAN
  BY StageIs
<1>1. \A x : x \in Upper(Graph(g)) <=>
        /\ x \in Matches(g) /\ x[1] > 0
        /\ \A y \in Matches(g) :
             /\ LoserTo(g)[y] # NoPointer => LoserTo(g)[y].match # x
             /\ WinnerTo(g)[y] # NoPointer /\ WinnerTo(g)[y].match = x => y[1] > 0
  BY <1>0 DEF Upper
<1>2. \A x : x \in Lower(Graph(g)) <=> x \in Matches(g) /\ x[1] < 0
  BY <1>0 DEF Lower
<1>3. ASSUME NEW x \in Matches(g), x[1] \in 1..W(g), NEW y \in Matches(g)
      PROVE  /\ LoserTo(g)[y] # NoPointer => LoserTo(g)[y].match # x
             /\ WinnerTo(g)[y] # NoPointer /\ WinnerTo(g)[y].match = x => y[1] > 0
  <2>i. y[1] \in Int
    BY MatchIs
  <2>1. ASSUME LoserTo(g)[y] # NoPointer, LoserTo(g)[y].match = x PROVE FALSE
    <3>1. PICK z \in Matches(g) : \E s \in Slot :
              /\ LoserTo(g)[y] = [match |-> z, slot |-> s] /\ g.format = DoubleElim
              /\ \/ y[1] = 1 /\ W(g) = 1 /\ z[1] = 2 /\ s = 2
                 \/ y[1] = 1 /\ W(g) > 1 /\ z[1] = -1
                 \/ y[1] \in 2..W(g) /\ z[1] = -(2 * y[1] - 2) /\ z[2] = y[2] /\ s = 2
                 \/ y[1] = W(g) + 1 /\ z[1] = W(g) + 2 /\ s = 2 /\ g.gfReset = TRUE
      BY <2>1, Drops
    <3>2. z = x
      BY <2>1, <3>1
    <3> QED
      BY <1>3, <1>w, <2>i, <3>1, <3>2
  <2>2. ASSUME WinnerTo(g)[y] # NoPointer, WinnerTo(g)[y].match = x PROVE y[1] > 0
    <3>1. PICK z \in Matches(g) : \E s \in Slot :
              /\ WinnerTo(g)[y] = [match |-> z, slot |-> s]
              /\ \/ y[1] \in 1..W(g) - 1 /\ z[1] = y[1] + 1
                 \/ y[1] = W(g) /\ z[1] = W(g) + 1 /\ s = 1 /\ g.format = DoubleElim
                 \/ y[1] < 0 /\ y[1] = -(2 * W(g) - 2) /\ z[1] = W(g) + 1 /\ s = 2
                 \/ y[1] < 0 /\ z[1] = y[1] - 1
                 \/ y[1] = W(g) + 1 /\ z[1] = W(g) + 2 /\ s = 1 /\ g.gfReset = TRUE /\ g.format = DoubleElim
      BY <2>2, Leads
    <3>2. z = x
      BY <2>2, <3>1
    <3> QED
      BY <1>3, <1>w, <2>i, <3>1, <3>2
  <2> QED
    BY <2>1, <2>2
<1>4. ASSUME NEW x \in Matches(g), x[1] > 0, x[1] \notin 1..W(g)
      PROVE  \E y \in Matches(g) :
               \/ LoserTo(g)[y] # NoPointer /\ LoserTo(g)[y].match = x
               \/ WinnerTo(g)[y] # NoPointer /\ WinnerTo(g)[y].match = x /\ ~(y[1] > 0)
  <2>1. PICK a \in Int : \E b \in Nat : x = <<a, b>> /\ Place(g, a, b)
    BY MatchesAre
  <2>2. PICK b \in Nat : x = <<a, b>> /\ Place(g, a, b)
    BY <2>1
  <2>3. a = x[1] /\ a # 1 /\ 2 \in Slot /\ (a = W(g) + 1 \/ a = W(g) + 2)
    <3>1. a = x[1] /\ (a = W(g) + 1 \/ a = W(g) + 2 \/ a <= W(g))
      BY <2>2, PlaceIs
    <3> QED
      BY <1>4, <1>w, <3>1 DEF Slot
  <2>y. PICK y : y = Source(g, a, b, 2)
    OBVIOUS
  <2>4. /\ y \in Matches(g)
        /\ SourceResult(g, a, 2) = "winner" => WinnerTo(g)[y] = To(a, b, 2)
        /\ SourceResult(g, a, 2) = "loser" => LoserTo(g)[y] = To(a, b, 2)
    BY <2>2, <2>3, <2>y, SlotFed DEF Source
  <2>5. To(a, b, 2) # NoPointer /\ To(a, b, 2).match = x
    BY <2>2, <2>3, ToNowhere DEF To
  <2>6. CASE SourceResult(g, a, 2) = "loser"
    BY <2>4, <2>5, <2>6
  <2>7. CASE SourceResult(g, a, 2) # "loser"
    <3>1. SourceResult(g, a, 2) = "winner"
      BY <2>7 DEF SourceResult
    <3>2. a = W(g) + 1 /\ W(g) # 1
      BY <2>3, <2>7 DEF SourceResult
    <3>3. SourceRound(g, a, 2) = -(2 * W(g) - 2)
      BY <1>w, <3>2 DEF SourceRound
    <3>4. y[1] = SourceRound(g, a, 2)
      BY <2>y DEF Source
    <3>5. ~(y[1] > 0)
      BY <1>w, <3>2, <3>3, <3>4
    <3> QED
      BY <2>4, <2>5, <3>1, <3>5
  <2> QED
    BY <2>6, <2>7
<1>5. \A x \in Matches(g) : x[1] \in 1..W(g) => x[1] > 0
  BY <1>w
<1> QED
  BY <1>1, <1>2, <1>3, <1>4, <1>5

(* The matches there is one of: the last of each bracket, the grand final  *)
(* and the reset.                                                          *)
LEMMA TheOnly ==
  ASSUME NEW g \in AnyStage
  PROVE  /\ <<W(g), 1>> \in Matches(g)
         /\ g.format = DoubleElim => <<W(g) + 1, 1>> \in Matches(g)
         /\ g.format = DoubleElim /\ g.gfReset => <<W(g) + 2, 1>> \in Matches(g)
         /\ g.format = DoubleElim /\ W(g) > 1 => <<-(2 * W(g) - 2), 1>> \in Matches(g)
         /\ \A x \in Matches(g) : (x[1] >= W(g) \/ x[1] = -(2 * W(g) - 2)) => x = <<x[1], 1>>
<1> DEFINE w == W(g)
<1>w. w \in Nat /\ w >= 1
  BY StageIs
<1>l. Size(w, w) = 1 /\ (w >= 2 => Size(w, -(2 * w - 2)) = 1)
  BY <1>w, LastSizes
<1>1. Place(g, w, 1) /\ w \in Int
  BY <1>w, <1>l DEF Place
<1>2. g.format = DoubleElim => Place(g, w + 1, 1) /\ w + 1 \in Int
  BY <1>w DEF Place
<1>3. g.format = DoubleElim /\ g.gfReset => Place(g, w + 2, 1) /\ w + 2 \in Int
  BY <1>w DEF Place
<1>4. g.format = DoubleElim /\ w > 1 => Place(g, -(2 * w - 2), 1) /\ -(2 * w - 2) \in Int
  <2>1. PICK l \in Int : l = -(2 * w - 2)
    BY <1>w
  <2>2. w > 1 => -l \in 1..2 * w - 2 /\ Size(w, l) = 1
    BY <1>w, <1>l, <2>1
  <2> QED
    BY <2>1, <2>2 DEF Place
<1>5. ASSUME NEW x \in Matches(g), x[1] >= w \/ x[1] = -(2 * w - 2) PROVE x = <<x[1], 1>>
  <2>1. PICK r \in Int : \E q \in Nat : x = <<r, q>> /\ Place(g, r, q)
    BY MatchesAre
  <2>2. PICK q \in Nat : x = <<r, q>> /\ Place(g, r, q)
    BY <2>1
  <2>3. (r = w => q = 1) /\ (r > w => q = 1) /\ (r = -(2 * w - 2) => q = 1)
    BY <2>2, PlaceIs
  <2>4. r >= w \/ r = -(2 * w - 2)
    BY <1>5, <2>2
  <2> QED
    BY <1>w, <2>2, <2>3, <2>4
<1> HIDE DEF w
<1>6. /\ <<w, 1>> \in Matches(g)
      /\ g.format = DoubleElim => <<w + 1, 1>> \in Matches(g)
      /\ g.format = DoubleElim /\ g.gfReset => <<w + 2, 1>> \in Matches(g)
      /\ g.format = DoubleElim /\ w > 1 => <<-(2 * w - 2), 1>> \in Matches(g)
  BY <1>1, <1>2, <1>3, <1>4, MatchesAre
<1> QED
  BY <1>5, <1>6 DEF w

(* Where those lead. *)
LEMMA FinalsLead ==
  ASSUME NEW g \in AnyStage, NEW x \in Matches(g)
  PROVE  /\ x[1] = W(g) /\ g.format = DoubleElim =>
              /\ WinnerTo(g)[x] = To(W(g) + 1, 1, 1)
              /\ LoserTo(g)[x] = IF W(g) = 1 THEN To(2, 1, 2) ELSE To(-(2 * W(g) - 2), 1, 2)
         /\ x[1] = -(2 * W(g) - 2) /\ x[1] < 0 => WinnerTo(g)[x] = To(W(g) + 1, 1, 2)
         /\ x[1] = W(g) + 1 /\ g.gfReset => WinnerTo(g)[x] = To(W(g) + 2, 1, 1) /\ LoserTo(g)[x] = To(W(g) + 2, 1, 2)
<1> DEFINE w == W(g)
<1>w. /\ w \in Nat /\ w >= 1 /\ g.format \in {SingleElim, DoubleElim} /\ SingleElim # DoubleElim
  BY StageIs
<1>1. PICK r \in Int : \E q \in Nat : /\ x = <<r, q>> /\ x[1] = r /\ x[2] = q /\ Place(g, r, q)
                                      /\ WinnerTo(g)[x] = Onward(g, r, q)
                                      /\ LoserTo(g)[x] = Aside(g, r, q)
  BY MatchIs
<1>2. PICK q \in Nat : /\ x = <<r, q>> /\ x[1] = r /\ x[2] = q /\ Place(g, r, q)
                       /\ WinnerTo(g)[x] = Onward(g, r, q)
                       /\ LoserTo(g)[x] = Aside(g, r, q)
  BY <1>1
<1>p. (r < 0 \/ r > w => g.format = DoubleElim) /\ (r = w => q = 1)
  BY <1>2, PlaceIs
<1> HIDE DEF w
<1>3. CASE r = w /\ g.format = DoubleElim
  <2>1. Onward(g, r, q) = To(w + 1, 1, 1)
    BY <1>w, <1>3 DEF Onward, w
  <2>2. CASE w = 1
    <3>1. Aside(g, r, q) = To(2, 1, 2)
      BY <1>w, <1>3, <2>2 DEF Aside, w
    <3> QED
      BY <1>2, <1>3, <1>w, <2>1, <2>2, <3>1 DEF w
  <2>3. CASE w # 1
    <3>1. Aside(g, r, q) = To(-(2 * w - 2), 1, 2)
      BY <1>w, <1>p, <1>3, <2>3 DEF Aside, w
    <3>2. r # w + 1 /\ ~(r < 0)
      BY <1>w, <1>3
    <3> QED
      BY <1>2, <1>3, <1>w, <2>1, <2>3, <3>1, <3>2 DEF w
  <2> QED
    BY <2>2, <2>3
<1>4. CASE r = -(2 * w - 2) /\ r < 0
  <2>0. r \notin 1..w - 1 /\ r # w /\ g.format = DoubleElim /\ r # w + 1
    BY <1>w, <1>p, <1>4
  <2>1. Onward(g, r, q) = To(w + 1, 1, 2)
    BY <1>w, <1>4, <2>0 DEF Onward, w
  <2> QED
    BY <1>2, <1>4, <2>0, <2>1 DEF w
<1>5. CASE r = w + 1 /\ g.gfReset
  <2>0. r \notin 1..w - 1 /\ r # w /\ ~(r < 0) /\ r # -(2 * w - 2) /\ g.format = DoubleElim /\ r # 1 /\ r \notin 2..w
    BY <1>w, <1>p, <1>5
  <2>1. Onward(g, r, q) = To(w + 2, 1, 1) /\ Aside(g, r, q) = To(w + 2, 1, 2)
    BY <1>w, <1>5, <2>0 DEF Onward, Aside, w
  <2> QED
    BY <1>2, <1>5, <2>0, <2>1 DEF w
<1> QED
  BY <1>2, <1>3, <1>4, <1>5 DEF w

(* In the losers bracket, who wins goes on. *)
LEMMA LowerLeads ==
  ASSUME NEW g \in AnyStage, NEW x \in Matches(g), x[1] \in Int, x[1] < 0
  PROVE  WinnerTo(g)[x] # NoPointer
<1>1. ~(x[1] = W(g)) /\ ~(x[1] = W(g) + 1) /\ ~(x[1] = W(g) + 2)
  BY StageIs
<1>2. \E z \in Matches(g) : \E s \in Slot : WinnerTo(g)[x] = [match |-> z, slot |-> s]
  <2>1. \/ /\ WinnerTo(g)[x] = NoPointer
           /\ x[1] = W(g) \/ x[1] = W(g) + 1 \/ x[1] = W(g) + 2
        \/ \E z \in Matches(g) : \E s \in Slot : WinnerTo(g)[x] = [match |-> z, slot |-> s]
    BY Leads
  <2> QED
    BY <1>1, <2>1
<1> QED
  BY <1>2, NowhereIsNoSlot

LEMMA GraphTwoBrackets == ASSUME NEW g \in AnyStage PROVE TwoBrackets(Graph(g))
<1> DEFINE h == Graph(g)
           w == W(g)
           slot(x, s) == [match |-> x, slot |-> s]
           leads(x, y) == h.winnerTo[x] # NoPointer /\ h.winnerTo[x].match = y
           drops(x, y) == h.loserTo[x] # NoPointer /\ h.loserTo[x].match = y
           reset(x) == /\ h.winnerTo[x] = NoPointer /\ h.loserTo[x] = NoPointer
                       /\ \E y \in h.matches : leads(y, x) /\ drops(y, x)
           seeded(x) == h.seeds[x][1] # None \/ h.seeds[x][2] # None
<1>0. /\ h.matches = Matches(g) /\ h.winnerTo = WinnerTo(g)
      /\ h.loserTo = LoserTo(g) /\ h.seeds = Seeds(g)
      /\ \A m \in Matches(g) : h.round[m] = m[1]
  BY GraphIs
<1>w. /\ w \in Nat /\ w >= 1 /\ g.format \in {SingleElim, DoubleElim} /\ SingleElim # DoubleElim
      /\ g.gfReset \in BOOLEAN
  BY StageIs
<1>u. /\ \A x : x \in Upper(h) <=> x \in Matches(g) /\ x[1] \in 1..w
      /\ \A x : x \in Lower(h) <=> x \in Matches(g) /\ x[1] < 0
  BY UpperIs
<1>i. \A x \in Matches(g) : x[1] \in Int
  BY MatchIs
<1>n. \A y \in Matches(g), s \in Slot : NoPointer # slot(y, s)
  BY NowhereIsNoSlot
<1> HIDE DEF h, w
<1>l. ASSUME NEW x \in Matches(g), NEW y \in Matches(g), leads(x, y)
      PROVE  \/ x[1] \in 1..w - 1 /\ y[1] = x[1] + 1
             \/ x[1] = w /\ y[1] = w + 1
             \/ x[1] < 0 /\ y[1] = w + 1
             \/ x[1] < 0 /\ y[1] = x[1] - 1
             \/ x[1] = w + 1 /\ y[1] = w + 2
  <2>1. WinnerTo(g)[x] # NoPointer /\ WinnerTo(g)[x].match = y
    BY <1>0, <1>l
  <2>2. PICK z \in Matches(g) : \E s \in Slot :
              /\ WinnerTo(g)[x] = [match |-> z, slot |-> s]
              /\ \/ x[1] \in 1..W(g) - 1 /\ z[1] = x[1] + 1
                 \/ x[1] = W(g) /\ z[1] = W(g) + 1 /\ s = 1 /\ g.format = DoubleElim
                 \/ x[1] < 0 /\ x[1] = -(2 * W(g) - 2) /\ z[1] = W(g) + 1 /\ s = 2
                 \/ x[1] < 0 /\ z[1] = x[1] - 1
                 \/ x[1] = W(g) + 1 /\ z[1] = W(g) + 2 /\ s = 1 /\ g.gfReset = TRUE /\ g.format = DoubleElim
    BY <2>1, Leads
  <2>3. z = y
    BY <2>1, <2>2
  <2> QED
    BY <2>2, <2>3 DEF w
<1>d. ASSUME NEW x \in Matches(g), NEW y \in Matches(g), drops(x, y)
      PROVE  \/ x[1] = 1 /\ w = 1 /\ y[1] = 2
             \/ x[1] = 1 /\ w > 1 /\ y[1] = -1
             \/ x[1] \in 2..w /\ y[1] = -(2 * x[1] - 2)
             \/ x[1] = w + 1 /\ y[1] = w + 2
  <2>1. LoserTo(g)[x] # NoPointer /\ LoserTo(g)[x].match = y
    BY <1>0, <1>d
  <2>2. PICK z \in Matches(g) : \E s \in Slot :
              /\ LoserTo(g)[x] = [match |-> z, slot |-> s] /\ g.format = DoubleElim
              /\ \/ x[1] = 1 /\ W(g) = 1 /\ z[1] = 2 /\ s = 2
                 \/ x[1] = 1 /\ W(g) > 1 /\ z[1] = -1
                 \/ x[1] \in 2..W(g) /\ z[1] = -(2 * x[1] - 2) /\ z[2] = x[2] /\ s = 2
                 \/ x[1] = W(g) + 1 /\ z[1] = W(g) + 2 /\ s = 2 /\ g.gfReset = TRUE
    BY <2>1, Drops
  <2>3. z = y
    BY <2>1, <2>2
  <2> QED
    BY <2>2, <2>3 DEF w
<1>1. ASSUME NEW x \in Matches(g), NEW y \in Upper(h), leads(x, y)
      PROVE  x \in Upper(h) /\ h.round[x] < h.round[y]
  <2>1. y \in Matches(g) /\ y[1] \in 1..w /\ x[1] \in Int
    BY <1>u, <1>i
  <2>2. x[1] \in 1..w - 1 /\ y[1] = x[1] + 1
    BY <1>1, <1>l, <1>w, <2>1
  <2>3. x[1] \in 1..w /\ x[1] < y[1]
    BY <1>w, <2>2
  <2> QED
    BY <1>0, <1>u, <2>1, <2>3
<1>2. ASSUME NEW x \in Matches(g), NEW y \in Lower(h)
      PROVE  /\ leads(x, y) => x \in Lower(h) /\ h.round[y] < h.round[x]
             /\ drops(x, y) => x \in Upper(h)
  <2>1. y \in Matches(g) /\ y[1] < 0 /\ y[1] \in Int /\ x[1] \in Int
    BY <1>u, <1>i
  <2>2. ASSUME leads(x, y) PROVE x \in Lower(h) /\ h.round[y] < h.round[x]
    <3>1. x[1] < 0 /\ y[1] = x[1] - 1
      BY <1>l, <1>w, <2>1, <2>2
    <3>2. y[1] < x[1]
      BY <2>1, <3>1
    <3> QED
      BY <1>0, <1>u, <2>1, <3>1, <3>2
  <2>3. ASSUME drops(x, y) PROVE x \in Upper(h)
    <3>1. x[1] \in 1..w
      BY <1>d, <1>w, <2>1, <2>3
    <3> QED
      BY <1>u, <3>1
  <2> QED
    BY <2>2, <2>3
<1>3. ASSUME NEW y \in Upper(h), NEW s \in Slot
      PROVE  seeded(y) \/ \E x \in Matches(g) : WinnerTo(g)[x] = slot(y, s)
  <2>1. y \in Matches(g) /\ y[1] \in 1..w
    BY <1>u
  <2>2. CASE y[1] = 1
    <3>1. Seeds(g)[y][1] \in 1..g.n
      BY <2>1, <2>2, SeedsAre
    <3>2. Seeds(g)[y][1] # None
      BY <3>1, NoneAssumption
    <3> QED
      BY <1>0, <3>2
  <2>3. CASE y[1] # 1
    <3>1. PICK a \in Int : \E b \in Nat : y = <<a, b>> /\ Place(g, a, b)
      BY <2>1, MatchesAre
    <3>2. PICK b \in Nat : y = <<a, b>> /\ Place(g, a, b)
      BY <3>1
    <3>3. a # 1 /\ a \in 1..w
      BY <2>1, <2>3, <3>2
    <3>x. PICK x : x = Source(g, a, b, s)
      OBVIOUS
    <3>4. /\ x \in Matches(g)
          /\ SourceResult(g, a, s) = "winner" => WinnerTo(g)[x] = To(a, b, s)
      BY <3>2, <3>3, <3>x, SlotFed DEF Source
    <3>5. SourceResult(g, a, s) = "winner"
      BY <1>w, <3>3 DEF SourceResult, w
    <3>6. To(a, b, s) = slot(y, s)
      BY <3>2 DEF To
    <3> QED
      BY <3>4, <3>5, <3>6
  <2> QED
    BY <2>2, <2>3
<1>s. ASSUME NEW y \in Matches(g), y[1] # 1 PROVE ~seeded(y)
  <2>1. 1 \in Slot /\ 2 \in Slot
    BY DEF Slot
  <2>2. Seeds(g)[y] = [s \in Slot |-> None]
    BY <1>s, LaterUnseeded
  <2> QED
    BY <1>0, <2>1, <2>2
<1>4. ASSUME NEW y \in Lower(h) PROVE ~seeded(y) /\ WinnerTo(g)[y] # NoPointer /\ LoserTo(g)[y] = NoPointer
  <2>1. y \in Matches(g) /\ y[1] < 0 /\ y[1] \in Int
    BY <1>u, <1>i
  <2>2. ~seeded(y)
    BY <1>s, <2>1
  <2>3. LoserTo(g)[y] = NoPointer
    <3>1. ~(y[1] = 1) /\ ~(y[1] \in 2..W(g)) /\ ~(y[1] = W(g) + 1)
      BY <1>w, <2>1 DEF w
    <3> QED
      BY <2>1, <3>1, Drops
  <2>4. WinnerTo(g)[y] # NoPointer
    BY <2>1, LowerLeads
  <2> QED
    BY <2>2, <2>3, <2>4
<1>5. ASSUME NEW f \in Matches(g), f \notin Upper(h) \cup Lower(h)
      PROVE  \/ reset(f)
             \/ \E x \in Upper(h) :
                  /\ h.winnerTo[x] = slot(f, 1)
                  /\ h.loserTo[f] # NoPointer => \E y \in h.matches : reset(y) /\ leads(f, y) /\ drops(f, y)
                  /\ \/ h.loserTo[x] = slot(f, 2)
                     \/ /\ ~seeded(x)
                        /\ \E y \in Lower(h) : h.winnerTo[y] = slot(f, 2) /\ h.loserTo[x] = slot(y, 2)
  <2>1. f[1] \in Int /\ f[1] \notin 1..w /\ ~(f[1] < 0)
    BY <1>5, <1>u, <1>i
  <2>2. f[1] = w + 1 \/ f[1] = w + 2
    <3>1. PICK a \in Int : \E b \in Nat : f = <<a, b>> /\ Place(g, a, b)
      BY MatchesAre
    <3>2. PICK b \in Nat : f = <<a, b>> /\ Place(g, a, b)
      BY <3>1
    <3>3. (a > 0 \/ a < 0) /\ (a = w + 1 \/ a = w + 2 \/ a <= w)
      BY <3>2, PlaceIs DEF w
    <3> QED
      BY <1>w, <2>1, <3>2, <3>3
  <2>3. f = <<f[1], 1>> /\ g.format = DoubleElim /\ (f[1] = w + 2 => g.gfReset)
    <3>1. f[1] >= W(g)
      BY <1>w, <2>2 DEF w
    <3>2. f = <<f[1], 1>>
      BY <3>1, TheOnly
    <3>3. PICK b \in Nat : Place(g, f[1], b)
      <4>1. PICK a \in Int : \E b \in Nat : f = <<a, b>> /\ Place(g, a, b)
        BY MatchesAre
      <4> QED
        BY <4>1
    <3>4. f[1] > w
      BY <1>w, <2>2
    <3> QED
      BY <2>1, <3>2, <3>3, <3>4, PlaceIs DEF w
  <2>a. ASSUME NEW y \in Matches(g), y[1] = w + 2, g.gfReset PROVE reset(y)
    <3>1. PICK z : z = <<w + 1, 1>>
      OBVIOUS
    <3>2. z \in Matches(g) /\ z[1] = W(g) + 1
      BY <2>3, <3>1, TheOnly DEF w
    <3>3. WinnerTo(g)[z] = To(W(g) + 2, 1, 1) /\ LoserTo(g)[z] = To(W(g) + 2, 1, 2)
      BY <2>a, <3>2, FinalsLead
    <3>4. y = <<w + 2, 1>>
      <4>1. y[1] >= W(g)
        BY <1>w, <2>a DEF w
      <4> QED
        BY <2>a, <4>1, TheOnly
    <3>5. To(W(g) + 2, 1, 1) = slot(y, 1) /\ To(W(g) + 2, 1, 2) = slot(y, 2) /\ 1 \in Slot /\ 2 \in Slot
      BY <3>4 DEF To, w, Slot
    <3>6. leads(z, y) /\ drops(z, y)
      BY <1>0, <1>n, <3>3, <3>5
    <3>7. WinnerTo(g)[y] = NoPointer
      <4>1. y[1] \notin 1..W(g) - 1 /\ y[1] # W(g) /\ ~(y[1] < 0) /\ y[1] # W(g) + 1
        BY <1>w, <2>a DEF w
      <4> QED
        BY <4>1, Leads
    <3>8. LoserTo(g)[y] = NoPointer
      <4>1. y[1] \notin 2..W(g) /\ y[1] # 1 /\ y[1] # W(g) + 1
        BY <1>w, <2>a DEF w
      <4> QED
        BY <4>1, Drops
    <3> QED
      BY <1>0, <3>2, <3>6, <3>7, <3>8
  <2>4. CASE f[1] = w + 2
    BY <2>3, <2>4, <2>a
  <2>5. CASE f[1] = w + 1
    <3>x. PICK x : x = <<w, 1>>
      OBVIOUS
    <3>1. x \in Matches(g) /\ x[1] = W(g) /\ x \in Upper(h)
      <4>1. x \in Matches(g) /\ x[1] = w
        BY <3>x, TheOnly DEF w
      <4> QED
        BY <1>u, <1>w, <4>1 DEF w
    <3>2. f = <<w + 1, 1>>
      BY <2>3, <2>5
    <3>3. /\ WinnerTo(g)[x] = To(w + 1, 1, 1)
          /\ LoserTo(g)[x] = IF w = 1 THEN To(2, 1, 2) ELSE To(-(2 * w - 2), 1, 2)
      BY <2>3, <3>1, FinalsLead DEF w
    <3>4. h.winnerTo[x] = slot(f, 1)
      BY <1>0, <3>2, <3>3 DEF To
    <3>5. ASSUME h.loserTo[f] # NoPointer
          PROVE  \E y \in h.matches : reset(y) /\ leads(f, y) /\ drops(f, y)
      <4>0. LoserTo(g)[f] # NoPointer
        BY <1>0, <3>5
      <4>1. PICK y \in Matches(g) : \E s \in Slot :
              /\ LoserTo(g)[f] = [match |-> y, slot |-> s] /\ g.format = DoubleElim
              /\ \/ f[1] = 1 /\ W(g) = 1 /\ y[1] = 2 /\ s = 2
                 \/ f[1] = 1 /\ W(g) > 1 /\ y[1] = -1
                 \/ f[1] \in 2..W(g) /\ y[1] = -(2 * f[1] - 2) /\ y[2] = f[2] /\ s = 2
                 \/ f[1] = W(g) + 1 /\ y[1] = W(g) + 2 /\ s = 2 /\ g.gfReset = TRUE
        BY <4>0, Drops
      <4>2. y[1] = w + 2 /\ g.gfReset
        BY <1>w, <2>5, <4>1 DEF w
      <4>3. reset(y)
        BY <2>a, <4>2
      <4>4. y = <<w + 2, 1>>
        <5>1. y[1] >= W(g)
          BY <1>w, <4>2 DEF w
        <5> QED
          BY <4>2, <5>1, TheOnly
      <4>5. WinnerTo(g)[f] = To(w + 2, 1, 1) /\ LoserTo(g)[f] = To(w + 2, 1, 2)
        BY <2>5, <4>2, FinalsLead DEF w
      <4>6. To(w + 2, 1, 1) = slot(y, 1) /\ To(w + 2, 1, 2) = slot(y, 2) /\ 1 \in Slot /\ 2 \in Slot
        BY <4>4 DEF To, Slot
      <4>7. leads(f, y) /\ drops(f, y)
        BY <1>0, <1>n, <4>5, <4>6
      <4> QED
        BY <1>0, <4>3, <4>7
    <3>6. CASE w = 1
      <4>1. h.loserTo[x] = slot(f, 2)
        BY <1>0, <3>2, <3>3, <3>6 DEF To
      <4> QED
        BY <3>1, <3>4, <3>5, <4>1
    <3>7. CASE w # 1
      <4>y. PICK y : y = <<-(2 * w - 2), 1>>
        OBVIOUS
      <4>0. w > 1 /\ -(2 * w - 2) < 0
        BY <1>w, <3>7
      <4>1. y \in Matches(g) /\ y[1] = -(2 * w - 2)
        BY <2>3, <4>0, <4>y, TheOnly DEF w
      <4>2. y \in Lower(h)
        BY <1>u, <4>0, <4>1
      <4>3. h.winnerTo[y] = slot(f, 2)
        <5>1. WinnerTo(g)[y] = To(w + 1, 1, 2)
          BY <4>0, <4>1, FinalsLead DEF w
        <5> QED
          BY <1>0, <3>2, <5>1 DEF To
      <4>4. h.loserTo[x] = slot(y, 2)
        BY <1>0, <3>3, <3>7, <4>y DEF To
      <4>5. ~seeded(x)
        <5>1. x[1] # 1
          BY <3>1, <3>7 DEF w
        <5> QED
          BY <1>s, <3>1, <5>1
      <4> QED
        BY <3>1, <3>4, <3>5, <4>2, <4>3, <4>4, <4>5
    <3> QED
      BY <3>6, <3>7
  <2> QED
    BY <2>2, <2>4, <2>5
<1>6. /\ \A x \in h.matches, y \in Upper(h) : leads(x, y) => x \in Upper(h) /\ h.round[x] < h.round[y]
      /\ \A x \in h.matches, y \in Lower(h) :
           /\ leads(x, y) => x \in Lower(h) /\ h.round[y] < h.round[x]
           /\ drops(x, y) => x \in Upper(h)
      /\ \A y \in Upper(h) : seeded(y) \/ \A s \in Slot : \E x \in h.matches : h.winnerTo[x] = slot(y, s)
      /\ \A y \in Lower(h) : ~seeded(y) /\ h.winnerTo[y] # NoPointer /\ h.loserTo[y] = NoPointer
      /\ \A f \in h.matches \ (Upper(h) \cup Lower(h)) :
           \/ reset(f)
           \/ \E x \in Upper(h) :
                /\ h.winnerTo[x] = slot(f, 1)
                /\ h.loserTo[f] # NoPointer => \E y \in h.matches : reset(y) /\ leads(f, y) /\ drops(f, y)
                /\ \/ h.loserTo[x] = slot(f, 2)
                   \/ /\ ~seeded(x)
                      /\ \E y \in Lower(h) : h.winnerTo[y] = slot(f, 2) /\ h.loserTo[x] = slot(y, 2)
  <2> HIDE DEF leads, drops, reset, seeded, slot
  <2>1. h.matches = Matches(g) /\ h.winnerTo = WinnerTo(g) /\ h.loserTo = LoserTo(g)
    BY <1>0
  <2>2. \A y \in Upper(h) : seeded(y) \/ \A s \in Slot : \E x \in h.matches : h.winnerTo[x] = slot(y, s)
    BY <1>3, <2>1
  <2>3. \A y \in Lower(h) : ~seeded(y) /\ h.winnerTo[y] # NoPointer /\ h.loserTo[y] = NoPointer
    BY <1>4, <2>1
  <2>4. \A x \in h.matches, y \in Upper(h) : leads(x, y) => x \in Upper(h) /\ h.round[x] < h.round[y]
    BY <1>1, <2>1
  <2>5. \A x \in h.matches, y \in Lower(h) :
           /\ leads(x, y) => x \in Lower(h) /\ h.round[y] < h.round[x]
           /\ drops(x, y) => x \in Upper(h)
    BY <1>2, <2>1
  <2>6. \A f \in h.matches \ (Upper(h) \cup Lower(h)) :
           \/ reset(f)
           \/ \E x \in Upper(h) :
                /\ h.winnerTo[x] = slot(f, 1)
                /\ h.loserTo[f] # NoPointer => \E y \in h.matches : reset(y) /\ leads(f, y) /\ drops(f, y)
                /\ \/ h.loserTo[x] = slot(f, 2)
                   \/ /\ ~seeded(x)
                      /\ \E y \in Lower(h) : h.winnerTo[y] = slot(f, 2) /\ h.loserTo[x] = slot(y, 2)
    BY <1>5, <2>1
  <2> QED
    BY <2>2, <2>3, <2>4, <2>5, <2>6
<1>7. h = Graph(g)
  BY DEF h
<1> QED
  BY <1>6, <1>7 DEF TwoBrackets

LEMMA GraphOneTitle == ASSUME NEW g \in AnyStage PROVE OneTitle(Graph(g))
<1>0. Graph(g).matches = Matches(g) /\ Graph(g).winnerTo = WinnerTo(g) /\ Graph(g).loserTo = LoserTo(g)
  BY GraphIs
<1>w. /\ W(g) \in Nat /\ W(g) >= 1 /\ g.format \in {SingleElim, DoubleElim} /\ SingleElim # DoubleElim
      /\ g.gfReset \in BOOLEAN
  BY StageIs
<1> DEFINE last == IF g.format = SingleElim THEN W(g) ELSE IF g.gfReset THEN W(g) + 2 ELSE W(g) + 1
<1>1. PICK l \in Int : l = last
  BY <1>w
<1>2. PICK f : f = <<l, 1>>
  OBVIOUS
<1>3. f \in Matches(g) /\ f[1] = l
  <2>1. CASE g.format = SingleElim
    BY <1>1, <1>2, <2>1, TheOnly
  <2>2. CASE g.format = DoubleElim /\ g.gfReset
    BY <1>1, <1>2, <1>w, <2>2, TheOnly
  <2>3. CASE g.format = DoubleElim /\ ~g.gfReset
    BY <1>1, <1>2, <1>w, <2>3, TheOnly
  <2> QED
    BY <1>w, <2>1, <2>2, <2>3
<1>g. g.gfReset = TRUE \/ g.gfReset = FALSE
  BY <1>w
<1>p. \A m \in Matches(g) : /\ m[1] \in Int /\ (m[1] > W(g) => g.format = DoubleElim)
                            /\ (m[1] = W(g) + 2 => g.gfReset)
  <2> SUFFICES ASSUME NEW m \in Matches(g)
               PROVE  /\ m[1] \in Int /\ (m[1] > W(g) => g.format = DoubleElim)
                      /\ (m[1] = W(g) + 2 => g.gfReset)
    OBVIOUS
  <2>1. PICK a \in Int : \E b \in Nat : m = <<a, b>> /\ Place(g, a, b)
    BY MatchesAre
  <2>2. PICK b \in Nat : m = <<a, b>> /\ Place(g, a, b)
    BY <2>1
  <2> QED
    BY <2>2, PlaceIs
<1>4. WinnerTo(g)[f] = NoPointer /\ LoserTo(g)[f] = NoPointer
  <2>1. CASE g.format = SingleElim
    <3>1. l = W(g) /\ f[1] \notin 1..W(g) - 1 /\ ~(f[1] < 0) /\ f[1] # W(g) + 1
      BY <1>1, <1>3, <1>w, <2>1
    <3>2. WinnerTo(g)[f] = NoPointer
      BY <1>3, <1>w, <2>1, <3>1, Leads
    <3>3. LoserTo(g)[f] = NoPointer
      BY <1>3, <1>w, <2>1, Drops
    <3> QED
      BY <3>2, <3>3
  <2>2. CASE g.format = DoubleElim
    <3>1. /\ f[1] \notin 1..W(g) - 1 /\ f[1] # W(g) /\ ~(f[1] < 0) /\ f[1] # 1 /\ f[1] \notin 2..W(g)
          /\ ~(f[1] = W(g) + 1 /\ g.gfReset = TRUE)
      BY <1>1, <1>3, <1>w, <1>g, <2>2
    <3>2. WinnerTo(g)[f] = NoPointer
      BY <1>3, <3>1, Leads
    <3>3. LoserTo(g)[f] = NoPointer
      BY <1>3, <3>1, Drops
    <3> QED
      BY <3>2, <3>3
  <2> QED
    BY <1>w, <2>1, <2>2
<1>5. ASSUME NEW m \in Matches(g), WinnerTo(g)[m] = NoPointer, LoserTo(g)[m] = NoPointer PROVE m = f
  <2>1. \A z \in Matches(g), s \in Slot : WinnerTo(g)[m] # [match |-> z, slot |-> s]
    BY <1>5, NowhereIsNoSlot
  <2>2. \/ g.format = SingleElim /\ m[1] = W(g)
        \/ g.format = DoubleElim /\ m[1] = W(g) + 1 /\ g.gfReset = FALSE
        \/ g.format = DoubleElim /\ m[1] = W(g) + 2
    BY <2>1, Leads
  <2>3. m[1] = l /\ m[1] >= W(g)
    BY <1>1, <1>w, <1>g, <1>p, <2>2
  <2>4. m = <<m[1], 1>>
    BY <2>3, TheOnly
  <2> QED
    BY <1>2, <2>3, <2>4
<1>6. {m \in Matches(g) : WinnerTo(g)[m] = NoPointer /\ LoserTo(g)[m] = NoPointer} = {f}
  BY <1>3, <1>4, <1>5
<1> QED
  BY <1>0, <1>3, <1>6 DEF OneTitle

(* Whatever the size of the field, a stage can be played on the graph that *)
(* the engines generate for it: this is all BracketAdvance assumes of one. *)
THEOREM EnginesPlayable ==
  ASSUME NEW format \in {SingleElim, DoubleElim}, NEW n \in Nat \ {0, 1}, NEW gfReset \in BOOLEAN
  PROVE  Playable(StageGraph(format, n, gfReset))
<1>1. PICK g \in AnyStage : g.format = format /\ g.n = n /\ g.gfReset = gfReset
  <2>1. [format |-> format, n |-> n, gfReset |-> gfReset] \in AnyStage
    BY DEF AnyStage
  <2> QED
    BY <2>1
<1>2. StageGraph(format, n, gfReset) = Graph(g)
  BY <1>1 DEF Graph
<1> QED
  BY <1>2, GraphWellFormed, GraphOneSource, GraphSeededOnce, GraphTwoBrackets, GraphOneTitle,
     NowhereIsNoSlot DEF Playable

-----------------------------------------------------------------------------
(* When the better of two always wins.  Round by round, who is left is     *)
(* half the order of the seeds: in match p of round r sit the p-th of the  *)
(* order of those left after it and its reflection.                        *)

Better(a, b) == IF b = None \/ (a # None /\ a < b) THEN a ELSE b

InRound(g, r) == {x \in WinnersMatches(g.n) : x[1] = r}

Feeder(g, m, slot) ==
  CHOOSE x \in WinnersMatches(g.n) : WinnerTo(g)[x] = [match |-> m, slot |-> slot]

Favourites(g, f) ==
  f = [r \in 1..W(g) |->
        [m \in InRound(g, r) |->
          [slot \in {1, 2} |->
            IF r = 1 THEN Seeds(g)[m][slot]
            ELSE LET x == Feeder(g, m, slot)
                 IN  Better(f[r - 1][x][1], f[r - 1][x][2])]]]

Fair(g, r, pair) ==
  LET field == 2^(W(g) - r + 1)
      a == pair[1]
      b == pair[2]
  IN  IF a = None \/ b = None
      THEN field + 1 - Better(a, b) > g.n
      ELSE a + b = field + 1

LEMMA FavouritesAre ==
  ASSUME \A r \in 1..W(stage) : \A m \in DOMAIN (CHOOSE f : Favourites(stage, f))[r] :
           Fair(stage, r, (CHOOSE f : Favourites(stage, f))[r][m])
  PROVE  FavouritesMeetLast
BY DEF FavouritesMeetLast, Favourites, InRound, Feeder, Better, Fair, W

Sits(g, order, r, p, s) ==
  IF s = 1 THEN order[W(g) - r][p]
  ELSE IF 2^(W(g) - r + 1) + 1 - order[W(g) - r][p] <= g.n
       THEN 2^(W(g) - r + 1) + 1 - order[W(g) - r][p] ELSE None

Chart(g, order) ==
  [r \in 1..W(g) |-> [m \in InRound(g, r) |-> [slot \in {1, 2} |-> Sits(g, order, r, m[2], slot)]]]

LEMMA InRoundIs ==
  ASSUME NEW g \in AnyStage, NEW r \in 1..W(g)
  PROVE  \A m : m \in InRound(g, r) <=> \E p \in 1..2^(W(g) - r) : m = <<r, p>>
<1>1. \A m : m \in WinnersMatches(g.n) <=> \E i \in 1..W(g) : \E p \in 1..Size(W(g), i) : m = <<i, p>>
  BY StageIs, WinnersAre DEF W
<1>2. Size(W(g), r) = 2^(W(g) - r)
  BY DEF Size
<1>3. ASSUME NEW m \in InRound(g, r) PROVE \E p \in 1..2^(W(g) - r) : m = <<r, p>>
  <2>1. PICK i \in 1..W(g) : \E p \in 1..Size(W(g), i) : m = <<i, p>>
    BY <1>1, <1>3 DEF InRound
  <2>2. PICK p \in 1..Size(W(g), i) : m = <<i, p>>
    BY <2>1
  <2>3. i = r
    BY <1>3, <2>2 DEF InRound
  <2> QED
    BY <1>2, <2>2, <2>3
<1>4. ASSUME NEW p \in 1..2^(W(g) - r) PROVE <<r, p>> \in InRound(g, r)
  <2>1. <<r, p>> \in WinnersMatches(g.n)
    BY <1>1, <1>2
  <2> QED
    BY <2>1 DEF InRound
<1> QED
  BY <1>3, <1>4

(* The better of the two comes first, and its opponent is its reflection.  *)
LEMMA ChartFair ==
  ASSUME NEW g \in AnyStage, NEW order, Orders(order, W(g)),
         NEW r \in 1..W(g), NEW p \in 1..2^(W(g) - r),
         NEW pair, pair[1] = Sits(g, order, r, p, 1), pair[2] = Sits(g, order, r, p, 2)
  PROVE  /\ Better(pair[1], pair[2]) = order[W(g) - r][p]
         /\ Fair(g, r, pair)
<1>w. W(g) \in Nat /\ g.n \in Nat
  BY StageIs
<1>1. PICK k \in Nat : k = W(g) - r /\ k \in 0..W(g)
  BY <1>w
<1>2. PICK h \in Nat : h = 2^k /\ 2^(k + 1) = 2 * h
  BY PowerNat, PowerStep
<1>3. PICK a : a = order[k][p]
  OBVIOUS
<1>4. a \in 1..h
  <2>1. Arranged(order, k)
    BY <1>1, <1>w, OrdersArranged
  <2> QED
    BY <1>1, <1>2, <1>3, <2>1 DEF Arranged
<1>5. pair[1] = a /\ pair[2] = IF 2 * h + 1 - a <= g.n THEN 2 * h + 1 - a ELSE None
  BY <1>1, <1>2, <1>3 DEF Sits
<1>6. a # None /\ 2 * h + 1 - a \in Nat /\ 2 * h + 1 - a # None /\ a < 2 * h + 1 - a
  <2>1. 2 * h + 1 - a \in Nat /\ a \in Nat /\ a < 2 * h + 1 - a
    BY <1>4
  <2> QED
    BY <2>1, NoneAssumption
<1>7. Better(pair[1], pair[2]) = a
  BY <1>5, <1>6 DEF Better
<1>8. Fair(g, r, pair)
  <2>1. W(g) - r + 1 = k + 1
    BY <1>1
  <2>2. 2^(W(g) - r + 1) = 2 * h
    BY <1>2, <2>1
  <2>3. CASE 2 * h + 1 - a <= g.n
    <3>1. pair[2] = 2 * h + 1 - a /\ pair[2] # None
      BY <1>5, <1>6, <2>3
    <3>2. pair[1] + pair[2] = 2 * h + 1
      BY <1>4, <1>5, <3>1
    <3> QED
      BY <1>5, <1>6, <2>2, <3>1, <3>2 DEF Fair
  <2>4. CASE ~(2 * h + 1 - a <= g.n)
    <3>1. pair[2] = None
      BY <1>5, <2>4
    <3>2. 2 * h + 1 - a > g.n
      BY <1>w, <1>6, <2>4
    <3> QED
      BY <1>7, <2>2, <3>1, <3>2 DEF Fair
  <2> QED
    BY <2>3, <2>4
<1> QED
  BY <1>1, <1>3, <1>7, <1>8

(* What one round makes of the round before it. *)
Sorted(g, f, r) ==
  [m \in InRound(g, r) |->
    [slot \in {1, 2} |->
      IF r = 1 THEN Seeds(g)[m][slot]
      ELSE LET x == Feeder(g, m, slot)
           IN  Better(f[r - 1][x][1], f[r - 1][x][2])]]

LEMMA ChartIs ==
  ASSUME NEW g \in AnyStage, NEW order, NEW r \in 1..W(g), NEW p \in 1..2^(W(g) - r),
         NEW m, m = <<r, p>>
  PROVE  /\ m \in InRound(g, r) /\ DOMAIN Chart(g, order)[r] = InRound(g, r)
         /\ \A slot \in {1, 2} : Chart(g, order)[r][m][slot] = Sits(g, order, r, p, slot)
<1>1. m \in InRound(g, r) /\ m[2] = p
  BY InRoundIs
<1>2. Chart(g, order)[r] = [x \in InRound(g, r) |-> [slot \in {1, 2} |-> Sits(g, order, r, x[2], slot)]]
  BY DEF Chart
<1>3. Chart(g, order)[r][m] = [slot \in {1, 2} |-> Sits(g, order, r, p, slot)]
  BY <1>1, <1>2
<1> QED
  BY <1>1, <1>2, <1>3

(* The opening round is the chart's. *)
LEMMA OpeningCharted ==
  ASSUME NEW g \in AnyStage, NEW order, Orders(order, W(g)), standard_seeding(W(g)) = order[W(g)],
         NEW m \in InRound(g, 1), NEW slot \in {1, 2}
  PROVE  Seeds(g)[m][slot] = Sits(g, order, 1, m[2], slot)
<1>w. W(g) \in Nat /\ W(g) >= 1 /\ 1 \in 1..W(g) /\ W(g) - 1 + 1 = W(g)
  BY StageIs
<1>1. PICK p \in 1..2^(W(g) - 1) : m = <<1, p>>
  BY <1>w, InRoundIs
<1>2. p \in Nat /\ Place(g, 1, p)
  <2>1. 2^(W(g) - 1) \in Nat
    BY <1>w, PowerDown, PowerNat
  <2> QED
    BY <1>w, <2>1 DEF Place, Size
<1>3. PICK a : a = order[W(g) - 1][p]
  OBVIOUS
<1>4. /\ Seeds(g)[m][1] = a
      /\ Seeds(g)[m][2] = (IF 2^W(g) + 1 - a <= g.n THEN 2^W(g) + 1 - a ELSE None)
  BY <1>1, <1>2, <1>3, OpeningSeeded
<1>5. Sits(g, order, 1, p, 1) = a
  BY <1>3 DEF Sits
<1>6. Sits(g, order, 1, p, 2) = IF 2^W(g) + 1 - a <= g.n THEN 2^W(g) + 1 - a ELSE None
  BY <1>w, <1>3 DEF Sits
<1>7. m[2] = p
  BY <1>1
<1> QED
  BY <1>4, <1>5, <1>6, <1>7

(* The match that leads to a slot of the winners bracket. *)
LEMMA ComesFrom ==
  ASSUME NEW g \in AnyStage, NEW r \in 2..W(g), NEW p \in 1..2^(W(g) - r), NEW slot \in {1, 2},
         NEW m, m = <<r, p>>
  PROVE  /\ 2 * p - 2 + slot \in 1..2^(W(g) - (r - 1))
         /\ Feeder(g, m, slot) = <<r - 1, 2 * p - 2 + slot>>
<1>w. W(g) \in Nat /\ W(g) >= 1 /\ r - 1 \in 1..W(g) /\ r \in 1..W(g)
  BY StageIs
<1>0. slot \in Slot /\ (slot = 1 \/ slot = 2)
  BY DEF Slot
<1>1. PICK k \in Nat : k = W(g) - r
  BY <1>w
<1>2. PICK h \in Nat : h = 2^k /\ 2^(k + 1) = 2 * h
  BY PowerNat, PowerStep
<1>3. 2^(W(g) - (r - 1)) = 2 * h
  <2>1. W(g) - (r - 1) = k + 1
    BY <1>1, <1>w
  <2> QED
    BY <1>2, <2>1
<1>4. 2 * p - 2 + slot \in 1..2 * h /\ p \in Nat /\ p \in Int
  BY <1>0, <1>1, <1>2
<1>5. PICK x : x = <<r - 1, 2 * p - 2 + slot>>
  OBVIOUS
<1>6. x \in WinnersMatches(g.n)
  BY <1>w, <1>3, <1>4, <1>5, InRoundIs DEF InRound
<1>7. Place(g, r, p) /\ r # 1 /\ r \in Int
  BY <1>w, <1>1, <1>2 DEF Place, Size
<1>8. Source(g, r, p, slot) = x
  BY <1>w, <1>5 DEF Source, SourceRound, SourcePosition
<1>9. SourceResult(g, r, slot) = "winner"
  BY <1>w DEF SourceResult
<1>10. WinnerTo(g)[x] = To(r, p, slot)
  BY <1>0, <1>4, <1>7, <1>8, <1>9, SlotFed
<1>11. To(r, p, slot) = [match |-> m, slot |-> slot]
  BY DEF To
<1>12. ASSUME NEW y \in WinnersMatches(g.n), WinnerTo(g)[y] = [match |-> m, slot |-> slot]
       PROVE  y = x
  <2>1. y \in Matches(g)
    BY DEF Matches, GraphMatches
  <2>2. WinnerTo(g)[y] = To(r, p, slot)
    BY <1>11, <1>12
  <2> QED
    BY <1>0, <1>4, <1>7, <1>8, <2>1, <2>2, LeadsFrom
<1>13. WinnerTo(g)[x] = [match |-> m, slot |-> slot]
  BY <1>10, <1>11
<1>14. Feeder(g, m, slot) = x
  BY <1>6, <1>12, <1>13 DEF Feeder
<1> QED
  BY <1>3, <1>4, <1>5, <1>14

(* Each round of the chart is what the one before it makes.                *)
LEMMA ChartSorted ==
  ASSUME NEW g \in AnyStage, NEW order, Orders(order, W(g)), standard_seeding(W(g)) = order[W(g)],
         NEW r \in 1..W(g), NEW f, r # 1 => f[r - 1] = Chart(g, order)[r - 1]
  PROVE  Sorted(g, f, r) = Chart(g, order)[r]
<1>w. W(g) \in Nat /\ W(g) >= 1 /\ g.n \in Nat /\ 2^(W(g) - 1) < g.n
  BY StageIs
<1>1. ASSUME NEW m \in InRound(g, r), NEW slot \in {1, 2}, r # 1
      PROVE  LET x == Feeder(g, m, slot)
             IN  Better(f[r - 1][x][1], f[r - 1][x][2]) = Sits(g, order, r, m[2], slot)
  <2>0. r - 1 \in 1..W(g) /\ r \in 2..W(g) /\ (slot = 1 \/ slot = 2)
    BY <1>1, <1>w
  <2>1. PICK p \in 1..2^(W(g) - r) : m = <<r, p>>
    BY InRoundIs
  <2>2. PICK k \in Nat : k = W(g) - (r - 1) /\ k >= 1 /\ k \in 1..W(g) /\ k - 1 = W(g) - r
                         /\ W(g) - r + 1 = k
    BY <2>0, <1>w
  <2>3. PICK q : q = 2 * p - 2 + slot
    OBVIOUS
  <2>4. PICK x : x = <<r - 1, q>>
    OBVIOUS
  <2>5. /\ q \in 1..2^(W(g) - (r - 1))
        /\ Feeder(g, m, slot) = x
    BY <2>0, <2>1, <2>3, <2>4, ComesFrom
  <2>6. f[r - 1][x][1] = Sits(g, order, r - 1, q, 1) /\ f[r - 1][x][2] = Sits(g, order, r - 1, q, 2)
    BY <1>1, <2>0, <2>4, <2>5, ChartIs
  <2>7. Better(f[r - 1][x][1], f[r - 1][x][2]) = order[k][q]
    <3>1. PICK pair : pair = f[r - 1][x]
      OBVIOUS
    <3>2. pair[1] = Sits(g, order, r - 1, q, 1) /\ pair[2] = Sits(g, order, r - 1, q, 2)
      BY <2>6, <3>1
    <3>3. Better(pair[1], pair[2]) = order[W(g) - (r - 1)][q]
      BY <2>0, <2>5, <3>2, ChartFair
    <3> QED
      BY <2>2, <3>1, <3>3
  <2>8. order[k][q] = Sits(g, order, r, p, slot)
    <3>1. p \in 1..2^(k - 1) /\ k \in Nat
      BY <2>2
    <3>2. /\ order[k][2 * p - 1] = order[k - 1][p]
          /\ order[k][2 * p] = 2^k + 1 - order[k - 1][p]
      BY <1>w, <2>2, <3>1, Neighbours
    <3>3. CASE slot = 1
      <4>1. q = 2 * p - 1
        BY <2>3, <3>3
      <4> QED
        BY <2>2, <3>2, <3>3, <4>1 DEF Sits
    <3>4. CASE slot = 2
      <4>1. q = 2 * p
        BY <2>3, <3>4
      <4>2. order[k - 1][p] \in 1..2^(k - 1)
        <5>1. Arranged(order, k - 1)
          BY <1>w, <2>2, OrdersArranged
        <5> QED
          BY <3>1, <5>1 DEF Arranged
      <4>3. 2^k <= 2^(W(g) - 1)
        <5>1. k = W(g) - 1 \/ (k < W(g) - 1 /\ W(g) - 1 \in Nat)
          BY <1>w, <2>0, <2>2
        <5>2. ASSUME k < W(g) - 1, W(g) - 1 \in Nat PROVE 2^k <= 2^(W(g) - 1)
          <6>1. PICK u \in Nat, v \in Nat : u = 2^k /\ v = 2^(W(g) - 1)
            BY <5>2, PowerNat
          <6>2. 2 * u <= v
            BY <5>2, <6>1, PowerGrows
          <6> QED
            BY <6>1, <6>2
        <5>3. 2^k \in Nat
          BY PowerNat
        <5> QED
          BY <5>1, <5>2, <5>3
      <4>4. 2^k + 1 - order[k - 1][p] <= g.n
        <5>1. PICK u \in Nat, v \in Nat, t \in Nat : /\ u = 2^k /\ v = 2^(W(g) - 1) /\ t = 2^(k - 1)
                                                     /\ u <= v /\ v < g.n
          <6>1. W(g) - 1 \in Nat /\ k - 1 \in Nat
            BY <1>w, <2>2
          <6> QED
            BY <1>w, <4>3, <6>1, PowerNat
        <5>2. PICK a \in Nat : a = order[k - 1][p] /\ a >= 1
          BY <4>2, <5>1
        <5> QED
          BY <1>w, <5>1, <5>2
      <4>5. Sits(g, order, r, p, 2) = 2^k + 1 - order[k - 1][p]
        BY <2>2, <4>4 DEF Sits
      <4> QED
        BY <3>2, <3>4, <4>1, <4>5
    <3> QED
      BY <2>0, <3>3, <3>4
  <2>9. m[2] = p
    BY <2>1
  <2> QED
    BY <2>5, <2>7, <2>8, <2>9
<1>2. ASSUME NEW m \in InRound(g, r), NEW slot \in {1, 2}, r = 1
      PROVE  Seeds(g)[m][slot] = Sits(g, order, r, m[2], slot)
  BY <1>2, OpeningCharted
<1>3. Sorted(g, f, r) = [m \in InRound(g, r) |-> [slot \in {1, 2} |-> Sits(g, order, r, m[2], slot)]]
  BY <1>1, <1>2 DEF Sorted
<1> QED
  BY <1>3 DEF Chart

(* So the chart is how the favourites play, and there is no other way.     *)
LEMMA FavouritesCharted ==
  ASSUME NEW g \in AnyStage, NEW order, Orders(order, W(g)), standard_seeding(W(g)) = order[W(g)]
  PROVE  (CHOOSE f : Favourites(g, f)) = Chart(g, order)
<1> DEFINE c == Chart(g, order)
<1>w. W(g) \in Nat
  BY StageIs
<1>f. \A f : Favourites(g, f) <=> f = [r \in 1..W(g) |-> Sorted(g, f, r)]
  BY DEF Favourites, Sorted
<1>1. Favourites(g, c)
  <2>1. \A r \in 1..W(g) : Sorted(g, c, r) = c[r]
    BY ChartSorted
  <2>2. c = [r \in 1..W(g) |-> c[r]]
    BY DEF Chart
  <2> HIDE DEF c
  <2>3. c = [r \in 1..W(g) |-> Sorted(g, c, r)]
    BY <2>1, <2>2
  <2> QED
    BY <1>f, <2>3
<1>2. ASSUME NEW f, Favourites(g, f) PROVE f = c
  <2>1. f = [r \in 1..W(g) |-> Sorted(g, f, r)]
    BY <1>2, <1>f
  <2> DEFINE T == {r \in Nat : r \in 1..W(g) /\ f[r] # c[r]}
  <2>2. CASE T = {}
    <3>1. \A r \in 1..W(g) : f[r] = c[r]
      BY <1>w, <2>2
    <3>2. c = [r \in 1..W(g) |-> c[r]]
      BY DEF Chart
    <3> HIDE DEF c
    <3> QED
      BY <2>1, <3>1, <3>2
  <2>3. CASE T # {}
    <3>1. T \in SUBSET Nat
      OBVIOUS
    <3>2. PICK m \in T : \A r \in T : m <= r
      <4> HIDE DEF T
      <4> QED
        BY <2>3, <3>1, LeastNat
    <3>3. m \in Nat /\ m \in 1..W(g) /\ f[m] # c[m]
      OBVIOUS
    <3>4. m # 1 => f[m - 1] = c[m - 1]
      <4> SUFFICES ASSUME m # 1 PROVE f[m - 1] = c[m - 1]
        OBVIOUS
      <4>1. m - 1 \in Nat /\ m - 1 \in 1..W(g) /\ m - 1 < m
        BY <1>w, <3>3
      <4>2. m - 1 \notin T
        <5> HIDE DEF T
        <5> QED
          BY <3>2, <3>3, <4>1
      <4> QED
        BY <4>1, <4>2
    <3>5. Sorted(g, f, m) = c[m]
      BY <3>3, <3>4, ChartSorted
    <3>6. f[m] = Sorted(g, f, m)
      BY <2>1, <3>3
    <3> QED
      BY <3>3, <3>5, <3>6
  <2> QED
    BY <2>2, <2>3
<1> HIDE DEF c
<1>3. (CHOOSE f : Favourites(g, f)) = c
  BY <1>1, <1>2
<1> QED
  BY <1>3 DEF c

(* With the standard seeding, for every size of the field: if the better   *)
(* seed always wins, each round pairs the best of those left with the      *)
(* worst, so the two best meet last, and only the best have a bye.         *)
THEOREM TheBestMeetLast == Spec => []FavouritesMeetLast
<1>1. ASSUME stage \in Stages PROVE FavouritesMeetLast
  <2>1. stage \in AnyStage
    BY <1>1, MaxFieldAssumption DEF Stages, AnyStage
  <2>2. PICK order : Orders(order, W(stage)) /\ standard_seeding(W(stage)) = order[W(stage)]
    BY <2>1, StageIs, SeedingOrders
  <2>3. PICK f : f = CHOOSE h : Favourites(stage, h)
    OBVIOUS
  <2>4. f = Chart(stage, order)
    BY <2>1, <2>2, <2>3, FavouritesCharted
  <2>5. ASSUME NEW r \in 1..W(stage), NEW m \in DOMAIN f[r] PROVE Fair(stage, r, f[r][m])
    <3>1. DOMAIN f[r] = InRound(stage, r)
      BY <2>4 DEF Chart
    <3>2. PICK p \in 1..2^(W(stage) - r) : m = <<r, p>>
      BY <2>1, <2>5, <3>1, InRoundIs
    <3>3. \A slot \in {1, 2} : f[r][m][slot] = Sits(stage, order, r, p, slot)
      BY <2>1, <2>4, <3>2, ChartIs
    <3>4. PICK pair : pair = f[r][m]
      OBVIOUS
    <3>5. pair[1] = Sits(stage, order, r, p, 1) /\ pair[2] = Sits(stage, order, r, p, 2)
      BY <3>3, <3>4
    <3>6. Fair(stage, r, pair)
      BY <2>1, <2>2, <3>5, ChartFair
    <3> QED
      BY <3>4, <3>6
  <2>6. \A r \in 1..W(stage) : \A m \in DOMAIN (CHOOSE h : Favourites(stage, h))[r] :
           Fair(stage, r, (CHOOSE h : Favourites(stage, h))[r][m])
    BY <2>3, <2>5
  <2> QED
    BY <2>6, FavouritesAre
<1>2. Spec => [](stage \in Stages)
  BY StageKept
<1> QED
  BY <1>1, <1>2, PTL

-----------------------------------------------------------------------------
(* Seating the groups.  It comes down to dealing: the seats are given out  *)
(* in a fixed order (SeatedAt), and to each group in turn (Turned).        *)

Byes(k) == 2^Rounds(k) - k
Pairs(k) == k - 2^(Rounds(k) - 1)

LEMMA ByesAre ==
  ASSUME NEW k \in Nat, k >= 2
  PROVE  /\ Byes(k) \in Nat /\ Pairs(k) \in Nat /\ Pairs(k) >= 1
         /\ Byes(k) + 2 * Pairs(k) = k
         /\ Opening!next_power_of_two(k) - k = Byes(k)
         /\ (k - Byes(k)) \div 2 = Pairs(k)
<1>1. /\ Rounds(k) \in Nat /\ Rounds(k) >= 1 /\ k <= 2^Rounds(k) /\ 2^(Rounds(k) - 1) < k
  BY RoundsAre
<1>2. PICK h \in Nat : h = 2^(Rounds(k) - 1) /\ 2^Rounds(k) = 2 * h
  BY <1>1, PowerDown, PowerNat
<1>3. Byes(k) = 2 * h - k /\ Pairs(k) = k - h /\ k <= 2 * h /\ h < k
  BY <1>1, <1>2 DEF Byes, Pairs
<1>4. (k - (2 * h - k)) \div 2 = k - h
  <2>1. PICK p \in Nat : p = k - h
    BY <1>3
  <2>2. k - (2 * h - k) = 2 * p /\ (2 * p) \div 2 = p
    BY <2>1
  <2> QED
    BY <2>1, <2>2
<1>5. Opening!next_power_of_two(k) = 2^Rounds(k)
  BY DEF Opening!next_power_of_two, Opening!Rounds, Rounds
<1> QED
  BY <1>2, <1>3, <1>4, <1>5

(* How many seats are taken before seed s is seated: the two of a pair are *)
(* seated together, in turns the stronger first, and the byes last.        *)
SeatedAt(k, s) ==
  IF s <= Byes(k) THEN 2 * Pairs(k) + s - 1
  ELSE IF s <= Byes(k) + Pairs(k)
       THEN 2 * (s - Byes(k) - 1) + (IF (s - Byes(k)) % 2 = 1 THEN 0 ELSE 1)
       ELSE 2 * (k - s) + (IF (k + 1 - s) % 2 = 1 THEN 1 ELSE 0)

LEMMA SeatedApart ==
  ASSUME NEW k \in Nat, k >= 2
  PROVE  /\ \A s \in 1..k : SeatedAt(k, s) \in 0..k - 1
         /\ \A s, t \in 1..k : SeatedAt(k, s) = SeatedAt(k, t) => s = t
<1>1. PICK b \in Nat : b = Byes(k)
  BY ByesAre
<1>2. PICK p \in Nat : p = Pairs(k) /\ p >= 1 /\ b + 2 * p = k
  BY <1>1, ByesAre
<1> DEFINE odd(c) == IF c % 2 = 1 THEN 0 ELSE 1
<1>3. ASSUME NEW s \in 1..k
      PROVE  \/ s \in 1..b /\ SeatedAt(k, s) = 2 * p + s - 1
             \/ \E c \in 1..p : s = b + c /\ SeatedAt(k, s) = 2 * (c - 1) + odd(c)
             \/ \E c \in 1..p : s = k + 1 - c /\ SeatedAt(k, s) = 2 * (c - 1) + 1 - odd(c)
  <2>1. CASE s <= b
    BY <1>1, <1>2, <2>1 DEF SeatedAt
  <2>2. CASE ~(s <= b) /\ s <= b + p
    <3>1. PICK c \in 1..p : c = s - b
      BY <1>2, <2>2
    <3>2. SeatedAt(k, s) = 2 * (s - b - 1) + (IF (s - b) % 2 = 1 THEN 0 ELSE 1)
      BY <1>1, <1>2, <2>2 DEF SeatedAt
    <3>3. s - b = c /\ s - b - 1 = c - 1 /\ s = b + c
      BY <3>1
    <3> QED
      BY <3>2, <3>3
  <2>3. CASE ~(s <= b + p)
    <3>1. PICK c \in 1..p : c = k + 1 - s
      BY <1>2, <2>3
    <3>2. SeatedAt(k, s) = 2 * (k - s) + (IF (k + 1 - s) % 2 = 1 THEN 1 ELSE 0)
      BY <1>1, <1>2, <2>3 DEF SeatedAt
    <3>3. k + 1 - s = c /\ k - s = c - 1 /\ s = k + 1 - c
      BY <3>1
    <3>4. (IF c % 2 = 1 THEN 1 ELSE 0) = 1 - odd(c)
      OBVIOUS
    <3> HIDE DEF odd
    <3>5. SeatedAt(k, s) = 2 * (c - 1) + (IF c % 2 = 1 THEN 1 ELSE 0)
      BY <3>2, <3>3
    <3>6. odd(c) = 0 \/ odd(c) = 1
      BY DEF odd
    <3> QED
      BY <3>3, <3>4, <3>5, <3>6
  <2> QED
    BY <2>1, <2>2, <2>3
<1>4. \A c : odd(c) = 0 \/ odd(c) = 1
  OBVIOUS
<1> HIDE DEF odd
<1>5. ASSUME NEW s \in 1..k PROVE SeatedAt(k, s) \in 0..k - 1
  <2>1. CASE s \in 1..b /\ SeatedAt(k, s) = 2 * p + s - 1
    BY <1>2, <2>1
  <2>2. ASSUME NEW c \in 1..p, SeatedAt(k, s) = 2 * (c - 1) + odd(c) \/ SeatedAt(k, s) = 2 * (c - 1) + 1 - odd(c)
        PROVE  SeatedAt(k, s) \in 0..k - 1
    BY <1>2, <1>4, <2>2
  <2> QED
    BY <1>3, <2>1, <2>2
<1>6. ASSUME NEW s \in 1..k, NEW t \in 1..k, SeatedAt(k, s) = SeatedAt(k, t) PROVE s = t
  <2>1. ASSUME NEW c \in 1..p, NEW d \in 1..p,
               NEW x \in {0, 1}, NEW y \in {0, 1}, 2 * (c - 1) + x = 2 * (d - 1) + y
        PROVE  c = d /\ x = y
    BY <2>1
  <2>2. ASSUME NEW c \in 1..p PROVE odd(c) \in {0, 1} /\ 1 - odd(c) \in {0, 1} /\ odd(c) # 1 - odd(c)
                                    /\ 2 * (c - 1) + 1 - odd(c) = 2 * (c - 1) + (1 - odd(c))
    BY <1>4
  <2>3. ASSUME NEW c \in 1..p, NEW i \in 1..b, NEW x \in {0, 1} PROVE 2 * (c - 1) + x # 2 * p + i - 1
    BY <2>3
  <2>4. \/ s \in 1..b /\ SeatedAt(k, s) = 2 * p + s - 1
        \/ \E c \in 1..p : s = b + c /\ SeatedAt(k, s) = 2 * (c - 1) + odd(c)
        \/ \E c \in 1..p : s = k + 1 - c /\ SeatedAt(k, s) = 2 * (c - 1) + (1 - odd(c))
    BY <1>3, <2>2
  <2>5. \/ t \in 1..b /\ SeatedAt(k, t) = 2 * p + t - 1
        \/ \E c \in 1..p : t = b + c /\ SeatedAt(k, t) = 2 * (c - 1) + odd(c)
        \/ \E c \in 1..p : t = k + 1 - c /\ SeatedAt(k, t) = 2 * (c - 1) + (1 - odd(c))
    BY <1>3, <2>2
  <2>6. CASE s \in 1..b /\ SeatedAt(k, s) = 2 * p + s - 1
    <3>1. t \in 1..b /\ SeatedAt(k, t) = 2 * p + t - 1
      BY <1>6, <2>2, <2>3, <2>5, <2>6
    <3>2. 2 * p + s - 1 = 2 * p + t - 1
      BY <1>6, <2>6, <3>1
    <3> QED
      BY <2>6, <3>1, <3>2
  <2>7. ASSUME NEW c \in 1..p, s = b + c, SeatedAt(k, s) = 2 * (c - 1) + odd(c) PROVE s = t
    <3>1. \/ \E d \in 1..p : t = b + d /\ SeatedAt(k, t) = 2 * (d - 1) + odd(d)
          \/ \E d \in 1..p : t = k + 1 - d /\ SeatedAt(k, t) = 2 * (d - 1) + (1 - odd(d))
      BY <1>6, <2>2, <2>3, <2>5, <2>7
    <3> QED
      BY <1>6, <2>1, <2>2, <2>7, <3>1
  <2>8. ASSUME NEW c \in 1..p, s = k + 1 - c, SeatedAt(k, s) = 2 * (c - 1) + (1 - odd(c)) PROVE s = t
    <3>1. \/ \E d \in 1..p : t = b + d /\ SeatedAt(k, t) = 2 * (d - 1) + odd(d)
          \/ \E d \in 1..p : t = k + 1 - d /\ SeatedAt(k, t) = 2 * (d - 1) + (1 - odd(d))
      BY <1>6, <2>2, <2>3, <2>5, <2>8
    <3> QED
      BY <1>6, <2>1, <2>2, <2>8, <3>1
  <2> QED
    BY <2>4, <2>6, <2>7, <2>8
<1> QED
  BY <1>5, <1>6

(* The group whose turn it is, and what each has left, once d seats are    *)
(* taken.                                                                  *)
Turned(groups, d) == 1 + (d % groups)

Left(groups, tiers, d) ==
  [g \in 1..groups |-> tiers - (d \div groups) - (IF g <= d % groups THEN 1 ELSE 0)]

LEMMA TurnedIs ==
  ASSUME NEW groups \in Nat, groups >= 2, NEW d \in Nat
  PROVE  /\ Turned(groups, d) \in 1..groups /\ Turned(groups, d + 1) \in 1..groups
         /\ Turned(groups, d) # Turned(groups, d + 1)
         /\ (d % groups) \in 0..groups - 1 /\ d \div groups \in Nat
         /\ \/ /\ (d + 1) % groups = (d % groups) + 1 /\ (d + 1) \div groups = d \div groups
               /\ (d % groups) + 1 < groups
            \/ /\ (d + 1) % groups = 0 /\ (d + 1) \div groups = d \div groups + 1
               /\ (d % groups) + 1 = groups
<1>1. PICK q \in Nat : q = d \div groups
  BY DivMod
<1>2. PICK r \in 0..groups - 1 : r = d % groups /\ d = q * groups + r
  BY <1>1, DivMod
<1>3. CASE r + 1 < groups
  <2>1. r + 1 \in 0..groups - 1 /\ d + 1 = q * groups + (r + 1)
    BY <1>2, <1>3
  <2>2. (q * groups + (r + 1)) \div groups = q /\ (q * groups + (r + 1)) % groups = r + 1
    BY <2>1, DivIs
  <2>3. (d + 1) \div groups = q /\ (d + 1) % groups = r + 1
    BY <2>1, <2>2
  <2> QED
    BY <1>1, <1>2, <1>3, <2>3 DEF Turned
<1>4. CASE r + 1 = groups
  <2>1. d + 1 = q * groups + groups /\ q * groups + groups = (q + 1) * groups + 0 /\ q + 1 \in Nat
    BY <1>2, <1>4
  <2>2. ((q + 1) * groups + 0) \div groups = q + 1 /\ ((q + 1) * groups + 0) % groups = 0
    <3>1. 0 \in 0..groups - 1
      OBVIOUS
    <3> QED
      BY <2>1, <3>1, DivIs
  <2>3. (d + 1) \div groups = q + 1 /\ (d + 1) % groups = 0
    BY <2>1, <2>2
  <2> QED
    BY <1>1, <1>2, <1>4, <2>3 DEF Turned
<1> QED
  BY <1>2, <1>3, <1>4

(* A turn takes one from what that group has left. *)
LEMMA LeftNext ==
  ASSUME NEW groups \in Nat, groups >= 2, NEW tiers \in Nat, NEW d \in Nat
  PROVE  Left(groups, tiers, d + 1) = [Left(groups, tiers, d) EXCEPT ![Turned(groups, d)] = @ - 1]
<1>1. PICK q \in Nat : q = d \div groups
  BY DivMod
<1>2. PICK r \in 0..groups - 1 : r = d % groups
  BY DivMod
<1>t. \/ /\ (d + 1) % groups = (d % groups) + 1 /\ (d + 1) \div groups = d \div groups
         /\ (d % groups) + 1 < groups
      \/ /\ (d + 1) % groups = 0 /\ (d + 1) \div groups = d \div groups + 1
         /\ (d % groups) + 1 = groups
  BY TurnedIs
<1>3. PICK r1 \in Nat, q1 \in Nat : /\ r1 = (d + 1) % groups /\ q1 = (d + 1) \div groups
                                    /\ \/ r1 = r + 1 /\ q1 = q /\ r + 1 < groups
                                       \/ r1 = 0 /\ q1 = q + 1 /\ r + 1 = groups
  BY <1>1, <1>2, <1>t
<1>4. Turned(groups, d) = r + 1
  BY <1>2 DEF Turned
<1>5. ASSUME NEW g \in 1..groups
      PROVE  tiers - q1 - (IF g <= r1 THEN 1 ELSE 0)
               = IF g = r + 1 THEN tiers - q - (IF g <= r THEN 1 ELSE 0) - 1
                              ELSE tiers - q - (IF g <= r THEN 1 ELSE 0)
  BY <1>3
<1>6. Left(groups, tiers, d) = [g \in 1..groups |-> tiers - q - (IF g <= r THEN 1 ELSE 0)]
  BY <1>1, <1>2 DEF Left
<1>7. Left(groups, tiers, d + 1) = [g \in 1..groups |-> tiers - q1 - (IF g <= r1 THEN 1 ELSE 0)]
  BY <1>3 DEF Left
<1>8. [Left(groups, tiers, d) EXCEPT ![r + 1] = @ - 1]
        = [g \in 1..groups |-> IF g = r + 1 THEN tiers - q - (IF g <= r THEN 1 ELSE 0) - 1
                               ELSE tiers - q - (IF g <= r THEN 1 ELSE 0)]
  BY <1>6
<1> QED
  BY <1>4, <1>5, <1>7, <1>8

(* Who comes first and who second in a ranking. *)
Ahead(entries, rank, e) == {f \in entries : rank[f] < rank[e] \/ (rank[f] = rank[e] /\ f < e)}

LEMMA RankedIs ==
  ASSUME NEW entries, IsFiniteSet(entries), NEW rank, NEW i \in 1..Cardinality(entries),
         NEW e \in entries, Cardinality(Ahead(entries, rank, e)) = i - 1,
         \A f \in entries : f # e => Cardinality(Ahead(entries, rank, f)) # i - 1
  PROVE  Ranked(entries, rank)[i] = e
<1>1. Ranked(entries, rank) =
        [j \in 1..Cardinality(entries) |->
          CHOOSE f \in entries : Cardinality(Ahead(entries, rank, f)) = j - 1]
  BY DEF Ranked, Ahead
<1>2. Ranked(entries, rank)[i] = CHOOSE f \in entries : Cardinality(Ahead(entries, rank, f)) = i - 1
  BY <1>1
<1> QED
  BY <1>2

Top(entries, rank, a, b) ==
  /\ \A e \in entries : rank[e] \in Int
  /\ \A e \in entries : e # a => rank[a] < rank[e] \/ (rank[a] = rank[e] /\ a < e)
  /\ \A e \in entries : e # a /\ e # b => rank[b] < rank[e] \/ (rank[b] = rank[e] /\ b < e)

LEMMA TopTwo ==
  ASSUME NEW n \in Nat, n >= 2, NEW S, S = 1..n, NEW rank, NEW a \in S, NEW b \in S, a # b,
         Top(S, rank, a, b)
  PROVE  Ranked(S, rank)[1] = a /\ Ranked(S, rank)[2] = b
<1> DEFINE A(e) == Ahead(S, rank, e)
<1>0. /\ \A e \in S : rank[e] \in Int
      /\ \A e \in S : e # a => rank[a] < rank[e] \/ (rank[a] = rank[e] /\ a < e)
      /\ \A e \in S : e # a /\ e # b => rank[b] < rank[e] \/ (rank[b] = rank[e] /\ b < e)
  BY DEF Top
<1>1. IsFiniteSet(S) /\ Cardinality(S) = n /\ 1 \in 1..n /\ 2 \in 1..n
  BY Interval
<1>2. \A e \in S : IsFiniteSet(A(e)) /\ Cardinality(A(e)) \in Nat
  <2>1. \A e \in S : A(e) \subseteq S
    BY DEF Ahead
  <2> QED
    BY <1>1, <2>1, FS_Subset, FS_CardinalityType
<1>3. A(a) = {}
  BY <1>0 DEF Ahead
<1>4. A(b) = {a}
  BY <1>0 DEF Ahead
<1>5. \A e \in S : e # a => a \in A(e)
  BY <1>0 DEF Ahead
<1>6. \A e \in S : e # a /\ e # b => a \in A(e) /\ b \in A(e)
  BY <1>0 DEF Ahead
<1>7. Cardinality(A(a)) = 0 /\ Cardinality(A(b)) = 1
  BY <1>3, <1>4, FS_EmptySet, FS_Singleton
<1>8. ASSUME NEW e \in S, e # a PROVE Cardinality(A(e)) # 0
  <2>1. A(e) # {}
    BY <1>5, <1>8
  <2> HIDE DEF A
  <2> QED
    BY <1>2, <2>1, FS_EmptySet
<1>9. ASSUME NEW e \in S, e # a, e # b PROVE Cardinality(A(e)) # 1
  <2>1. a \in A(e) /\ b \in A(e)
    BY <1>6, <1>9
  <2> HIDE DEF A
  <2>2. ASSUME Cardinality(A(e)) = 1 PROVE FALSE
    <3>1. \E x : A(e) = {x}
      BY <1>2, <2>2, FS_Singleton
    <3> QED
      BY <2>1, <3>1
  <2> QED
    BY <2>2
<1>a. Ranked(S, rank)[1] = a
  <2>1. Cardinality(A(a)) = 1 - 1 /\ \A f \in S : f # a => Cardinality(A(f)) # 1 - 1
    BY <1>7, <1>8
  <2> QED
    BY <1>1, <2>1, RankedIs
<1>b. Ranked(S, rank)[2] = b
  <2>1. Cardinality(A(b)) = 2 - 1 /\ \A f \in S : f # b => Cardinality(A(f)) # 2 - 1
    BY <1>7, <1>9
  <2> QED
    BY <1>1, <2>1, RankedIs
<1> QED
  BY <1>a, <1>b

Most(groups, left) == Ranked(1..groups, [g \in 1..groups |-> -left[g]])

(* The two with most left are those whose turn it is. *)
LEMMA MostLeft ==
  ASSUME NEW groups \in Nat, groups >= 2, NEW tiers \in Nat, NEW d \in Nat
  PROVE  /\ Most(groups, Left(groups, tiers, d))[1] = Turned(groups, d)
         /\ Most(groups, Left(groups, tiers, d))[2] = Turned(groups, d + 1)
<1>0. PICK left : left = Left(groups, tiers, d)
  OBVIOUS
<1>1. PICK q \in Nat : q = d \div groups
  BY DivMod
<1>2. PICK r \in 0..groups - 1 : r = d % groups
  BY DivMod
<1>3. PICK a \in 1..groups : a = Turned(groups, d) /\ a = r + 1
  <2>1. Turned(groups, d) \in 1..groups
    BY TurnedIs
  <2>2. Turned(groups, d) = r + 1
    BY <1>2 DEF Turned
  <2> QED
    BY <2>1, <2>2
<1>4. PICK b \in 1..groups : b = Turned(groups, d + 1) /\ b = (IF r + 1 = groups THEN 1 ELSE r + 2) /\ a # b
  <2>1. Turned(groups, d + 1) \in 1..groups /\ Turned(groups, d) # Turned(groups, d + 1)
    BY TurnedIs
  <2>t. \/ (d + 1) % groups = (d % groups) + 1 /\ (d % groups) + 1 < groups
        \/ (d + 1) % groups = 0 /\ (d % groups) + 1 = groups
    BY TurnedIs
  <2>2. Turned(groups, d + 1) = IF r + 1 = groups THEN 1 ELSE r + 2
    BY <1>2, <2>t DEF Turned
  <2> QED
    BY <1>3, <2>1, <2>2
<1>5. PICK rank : rank = [g \in 1..groups |-> -left[g]]
  OBVIOUS
<1>6. \A g \in 1..groups : rank[g] = q - tiers + (IF g <= r THEN 1 ELSE 0)
  <2>1. \A g \in 1..groups : left[g] = tiers - q - (IF g <= r THEN 1 ELSE 0)
    BY <1>0, <1>1, <1>2 DEF Left
  <2>2. \A g \in 1..groups : rank[g] = -left[g]
    BY <1>5
  <2> QED
    BY <2>1, <2>2
<1>7. \A e \in 1..groups : rank[e] \in Int
  BY <1>6
<1>8. \A e \in 1..groups : e # a => rank[a] < rank[e] \/ (rank[a] = rank[e] /\ a < e)
  BY <1>3, <1>6
<1>9. \A e \in 1..groups : e # a /\ e # b => rank[b] < rank[e] \/ (rank[b] = rank[e] /\ b < e)
  BY <1>3, <1>4, <1>6
<1>10. Ranked(1..groups, rank)[1] = a /\ Ranked(1..groups, rank)[2] = b
  <2>1. a \in 1..groups /\ b \in 1..groups /\ a # b /\ groups \in Nat /\ groups >= 2
    BY <1>3, <1>4
  <2>2. PICK S : S = 1..groups
    OBVIOUS
  <2>3. Top(S, rank, a, b)
    BY <1>7, <1>8, <1>9, <2>2 DEF Top
  <2>4. Ranked(S, rank)[1] = a /\ Ranked(S, rank)[2] = b
    BY <2>1, <2>2, <2>3, TopTwo
  <2> QED
    BY <2>2, <2>4
<1> QED
  BY <1>0, <1>3, <1>4, <1>5, <1>10 DEF Most

-----------------------------------------------------------------------------
(* The seating once d seats are taken. *)
OfAt(groups, k, d) ==
  [s \in 1..k |-> IF SeatedAt(k, s) < d THEN Turned(groups, SeatedAt(k, s)) ELSE 0]

StateAt(groups, tiers, k, d) == [of |-> OfAt(groups, k, d), left |-> Left(groups, tiers, d)]

Seat(t, s, g) == [of |-> [t.of EXCEPT ![s] = g], left |-> [t.left EXCEPT ![g] = @ - 1]]

LEMMA OfNext ==
  ASSUME NEW groups \in Nat, groups >= 2, NEW k \in Nat, k >= 2, NEW s \in 1..k, NEW d \in Nat,
         SeatedAt(k, s) = d
  PROVE  OfAt(groups, k, d + 1) = [OfAt(groups, k, d) EXCEPT ![s] = Turned(groups, d)]
<1>1. \A q \in 1..k : SeatedAt(k, q) \in Nat /\ (SeatedAt(k, q) = d => q = s)
  BY SeatedApart
<1>2. ASSUME NEW q \in 1..k
      PROVE  (IF SeatedAt(k, q) < d + 1 THEN Turned(groups, SeatedAt(k, q)) ELSE 0)
               = IF q = s THEN Turned(groups, d)
                 ELSE IF SeatedAt(k, q) < d THEN Turned(groups, SeatedAt(k, q)) ELSE 0
  BY <1>1
<1>3. OfAt(groups, k, d + 1) = [q \in 1..k |-> IF SeatedAt(k, q) < d + 1 THEN Turned(groups, SeatedAt(k, q)) ELSE 0]
  BY DEF OfAt
<1>4. [OfAt(groups, k, d) EXCEPT ![s] = Turned(groups, d)]
        = [q \in 1..k |-> IF q = s THEN Turned(groups, d)
                          ELSE IF SeatedAt(k, q) < d THEN Turned(groups, SeatedAt(k, q)) ELSE 0]
  BY DEF OfAt
<1> QED
  BY <1>2, <1>3, <1>4

LEMMA SeatNext ==
  ASSUME NEW groups \in Nat, groups >= 2, NEW tiers \in Nat, NEW k \in Nat, k >= 2,
         NEW s \in 1..k, NEW d \in Nat, SeatedAt(k, s) = d
  PROVE  Seat(StateAt(groups, tiers, k, d), s, Turned(groups, d)) = StateAt(groups, tiers, k, d + 1)
<1>1. StateAt(groups, tiers, k, d).of = OfAt(groups, k, d)
      /\ StateAt(groups, tiers, k, d).left = Left(groups, tiers, d)
  BY DEF StateAt
<1>2. OfAt(groups, k, d + 1) = [OfAt(groups, k, d) EXCEPT ![s] = Turned(groups, d)]
  BY OfNext
<1>3. Left(groups, tiers, d + 1) = [Left(groups, tiers, d) EXCEPT ![Turned(groups, d)] = @ - 1]
  BY LeftNext
<1>4. Seat(StateAt(groups, tiers, k, d), s, Turned(groups, d))
        = [of |-> OfAt(groups, k, d + 1), left |-> Left(groups, tiers, d + 1)]
  BY <1>1, <1>2, <1>3 DEF Seat
<1> QED
  BY <1>4 DEF StateAt

(* Seats of different groups can be given out in either order. *)
LEMMA SeatSwap ==
  ASSUME NEW t, NEW a, NEW b, a # b, NEW g, NEW h, g # h
  PROVE  Seat(Seat(t, a, g), b, h) = Seat(Seat(t, b, h), a, g)
<1>1. Seat(Seat(t, a, g), b, h) =
        [of |-> [[t.of EXCEPT ![a] = g] EXCEPT ![b] = h],
         left |-> [[t.left EXCEPT ![g] = @ - 1] EXCEPT ![h] = @ - 1]]
  BY DEF Seat
<1>2. Seat(Seat(t, b, h), a, g) =
        [of |-> [[t.of EXCEPT ![b] = h] EXCEPT ![a] = g],
         left |-> [[t.left EXCEPT ![h] = @ - 1] EXCEPT ![g] = @ - 1]]
  BY DEF Seat
<1>3. [[t.of EXCEPT ![a] = g] EXCEPT ![b] = h] = [[t.of EXCEPT ![b] = h] EXCEPT ![a] = g]
  OBVIOUS
<1>4. [[t.left EXCEPT ![g] = @ - 1] EXCEPT ![h] = @ - 1] = [[t.left EXCEPT ![h] = @ - 1] EXCEPT ![g] = @ - 1]
  OBVIOUS
<1> QED
  BY <1>1, <1>2, <1>3, <1>4

LEMMA SeatTwo ==
  ASSUME NEW groups \in Nat, groups >= 2, NEW tiers \in Nat, NEW k \in Nat, k >= 2,
         NEW a \in 1..k, NEW b \in 1..k, NEW d \in Nat, SeatedAt(k, a) = d, SeatedAt(k, b) = d + 1,
         NEW t, t = StateAt(groups, tiers, k, d)
  PROVE  /\ Seat(Seat(t, a, Turned(groups, d)), b, Turned(groups, d + 1)) = StateAt(groups, tiers, k, d + 2)
         /\ Seat(Seat(t, b, Turned(groups, d + 1)), a, Turned(groups, d)) = StateAt(groups, tiers, k, d + 2)
<1>1. Seat(t, a, Turned(groups, d)) = StateAt(groups, tiers, k, d + 1)
  BY SeatNext
<1>2. Seat(StateAt(groups, tiers, k, d + 1), b, Turned(groups, d + 1)) = StateAt(groups, tiers, k, (d + 1) + 1)
  <2>1. PICK e \in Nat : e = d + 1
    OBVIOUS
  <2>2. Seat(StateAt(groups, tiers, k, e), b, Turned(groups, e)) = StateAt(groups, tiers, k, e + 1)
    BY <2>1, SeatNext
  <2> QED
    BY <2>1, <2>2
<1>3. (d + 1) + 1 = d + 2
  OBVIOUS
<1>4. a # b /\ Turned(groups, d) # Turned(groups, d + 1)
  BY TurnedIs
<1>5. Seat(Seat(t, a, Turned(groups, d)), b, Turned(groups, d + 1))
        = Seat(Seat(t, b, Turned(groups, d + 1)), a, Turned(groups, d))
  <2>1. PICK g, h : g = Turned(groups, d) /\ h = Turned(groups, d + 1) /\ g # h
    BY <1>4
  <2>2. Seat(Seat(t, a, g), b, h) = Seat(Seat(t, b, h), a, g)
    BY <1>4, <2>1, SeatSwap
  <2> QED
    BY <2>1, <2>2
<1> QED
  BY <1>1, <1>2, <1>3, <1>5

(* The pairs, from the strongest. *)
PairSeated(groups, k, byes, c, t) ==
  IF c % 2 = 1 THEN Seat(Seat(t, byes + c, Most(groups, t.left)[1]), k + 1 - c, Most(groups, t.left)[2])
  ELSE Seat(Seat(t, byes + c, Most(groups, t.left)[2]), k + 1 - c, Most(groups, t.left)[1])

LEMMA PairTurns ==
  ASSUME NEW k \in Nat, k >= 2, NEW c \in 1..Pairs(k)
  PROVE  /\ Byes(k) + c \in 1..k /\ k + 1 - c \in 1..k
         /\ SeatedAt(k, Byes(k) + c) = 2 * (c - 1) + (IF c % 2 = 1 THEN 0 ELSE 1)
         /\ SeatedAt(k, k + 1 - c) = 2 * (c - 1) + (IF c % 2 = 1 THEN 1 ELSE 0)
<1>1. PICK b \in Nat : b = Byes(k)
  BY ByesAre
<1>2. PICK p \in Nat : p = Pairs(k) /\ p >= 1 /\ b + 2 * p = k
  BY <1>1, ByesAre
<1>3. c \in 1..p
  BY <1>2
<1>4. b + c \in 1..k /\ k + 1 - c \in 1..k
  BY <1>2, <1>3
<1>5. SeatedAt(k, b + c) = 2 * (c - 1) + (IF c % 2 = 1 THEN 0 ELSE 1)
  <2>1. ~(b + c <= b) /\ b + c <= b + p /\ (b + c) - b = c /\ (b + c) - b - 1 = c - 1
    BY <1>3
  <2>2. SeatedAt(k, b + c) = 2 * ((b + c) - b - 1) + (IF ((b + c) - b) % 2 = 1 THEN 0 ELSE 1)
    BY <1>1, <1>2, <2>1 DEF SeatedAt
  <2> QED
    BY <2>1, <2>2
<1>6. SeatedAt(k, k + 1 - c) = 2 * (c - 1) + (IF c % 2 = 1 THEN 1 ELSE 0)
  <2>1. ~(k + 1 - c <= b) /\ ~(k + 1 - c <= b + p) /\ k - (k + 1 - c) = c - 1 /\ k + 1 - (k + 1 - c) = c
    BY <1>2, <1>3
  <2>2. SeatedAt(k, k + 1 - c) = 2 * (k - (k + 1 - c)) + (IF (k + 1 - (k + 1 - c)) % 2 = 1 THEN 1 ELSE 0)
    BY <1>1, <1>2, <2>1 DEF SeatedAt
  <2> QED
    BY <2>1, <2>2
<1> QED
  BY <1>1, <1>4, <1>5, <1>6

LEMMA PairSeatedIs ==
  ASSUME NEW groups \in Nat, groups >= 2, NEW tiers \in Nat, NEW k \in Nat, k >= 2, NEW c \in 1..Pairs(k)
  PROVE  PairSeated(groups, k, Byes(k), c, StateAt(groups, tiers, k, 2 * (c - 1))) = StateAt(groups, tiers, k, 2 * c)
<1>0. Pairs(k) \in Nat
  BY ByesAre
<1>1. PICK d \in Nat : d = 2 * (c - 1) /\ d + 2 = 2 * c
  BY <1>0
<1>2. PICK t : t = StateAt(groups, tiers, k, d)
  OBVIOUS
<1>3. t.left = Left(groups, tiers, d)
  BY <1>2 DEF StateAt
<1>4. Most(groups, t.left)[1] = Turned(groups, d) /\ Most(groups, t.left)[2] = Turned(groups, d + 1)
  <2>1. /\ Most(groups, Left(groups, tiers, d))[1] = Turned(groups, d)
        /\ Most(groups, Left(groups, tiers, d))[2] = Turned(groups, d + 1)
    BY MostLeft
  <2> QED
    BY <1>3, <2>1
<1>5. PICK a \in 1..k : a = Byes(k) + c
  BY PairTurns
<1>6. PICK b \in 1..k : b = k + 1 - c
  BY PairTurns
<1>7. CASE c % 2 = 1
  <2>1. SeatedAt(k, a) = d /\ SeatedAt(k, b) = d + 1
    BY <1>1, <1>5, <1>6, <1>7, PairTurns
  <2>2. Seat(Seat(t, a, Turned(groups, d)), b, Turned(groups, d + 1)) = StateAt(groups, tiers, k, d + 2)
    BY <1>2, <2>1, SeatTwo
  <2> QED
    BY <1>1, <1>2, <1>4, <1>5, <1>6, <1>7, <2>2 DEF PairSeated
<1>8. CASE c % 2 # 1
  <2>1. SeatedAt(k, b) = d /\ SeatedAt(k, a) = d + 1
    BY <1>1, <1>5, <1>6, <1>8, PairTurns
  <2>2. Seat(Seat(t, a, Turned(groups, d + 1)), b, Turned(groups, d)) = StateAt(groups, tiers, k, d + 2)
    BY <1>2, <2>1, SeatTwo
  <2> QED
    BY <1>1, <1>2, <1>4, <1>5, <1>6, <1>8, <2>2 DEF PairSeated
<1> QED
  BY <1>7, <1>8

Unseated(groups, tiers, k) == [of |-> [s \in 1..k |-> 0], left |-> [g \in 1..groups |-> tiers]]

LEMMA UnseatedIs ==
  ASSUME NEW groups \in Nat, groups >= 2, NEW tiers \in Nat, NEW k \in Nat, k >= 2
  PROVE  Unseated(groups, tiers, k) = StateAt(groups, tiers, k, 0)
<1>1. \A s \in 1..k : ~(SeatedAt(k, s) < 0)
  BY SeatedApart
<1>2. OfAt(groups, k, 0) = [s \in 1..k |-> 0]
  BY <1>1 DEF OfAt
<1>3. 0 \div groups = 0 /\ 0 % groups = 0
  <2>1. 0 \in 0..groups - 1 /\ 0 * groups + 0 = 0
    OBVIOUS
  <2>2. (0 * groups + 0) \div groups = 0 /\ (0 * groups + 0) % groups = 0
    BY <2>1, DivIs
  <2> QED
    BY <2>1, <2>2
<1>4. Left(groups, tiers, 0) = [g \in 1..groups |-> tiers]
  BY <1>3 DEF Left
<1> QED
  BY <1>2, <1>4 DEF Unseated, StateAt

(* How the two recursive functions of SeatGroups run. *)
IsPaired(groups, tiers, k, byes, pairs, f) ==
  f = [c \in 0..pairs |->
        IF c = 0 THEN Unseated(groups, tiers, k) ELSE PairSeated(groups, k, byes, c, f[c - 1])]

ByeSeated(groups, first, f, s) ==
  IF s = 0 THEN first ELSE Seat(f[s - 1], s, Most(groups, f[s - 1].left)[1])

IsSeated(groups, byes, first, f) == f = [s \in 0..byes |-> ByeSeated(groups, first, f, s)]

AllSeated(groups, tiers, k, byes, pairs) ==
  CHOOSE h : IsSeated(groups, byes, (CHOOSE f : IsPaired(groups, tiers, k, byes, pairs, f))[pairs], h)

SeatsOf(groups, tiers, k, byes) == AllSeated(groups, tiers, k, byes, (k - byes) \div 2)[byes].of

LEMMA SeatGroupsAre ==
  ASSUME NEW groups, NEW tiers
  PROVE  SeatGroups(groups, tiers)
           = SeatsOf(groups, tiers, groups * tiers,
                     Opening!next_power_of_two(groups * tiers) - groups * tiers)
BY DEF SeatGroups, SeatsOf, AllSeated, IsSeated, ByeSeated, IsPaired, Unseated, PairSeated, Most, Seat

PairChart(groups, tiers, k) == [c \in 0..Pairs(k) |-> StateAt(groups, tiers, k, 2 * c)]

PairStep(groups, tiers, k, f, c) ==
  IF c = 0 THEN Unseated(groups, tiers, k) ELSE PairSeated(groups, k, Byes(k), c, f[c - 1])

LEMMA PairedIs ==
  ASSUME NEW groups \in Nat, groups >= 2, NEW tiers \in Nat, NEW k \in Nat, k >= 2
  PROVE  (CHOOSE f : IsPaired(groups, tiers, k, Byes(k), Pairs(k), f)) = PairChart(groups, tiers, k)
<1> DEFINE chart == PairChart(groups, tiers, k)
<1>p. Pairs(k) \in Nat
  BY ByesAre
<1>f. \A f : IsPaired(groups, tiers, k, Byes(k), Pairs(k), f)
               <=> f = [c \in 0..Pairs(k) |-> PairStep(groups, tiers, k, f, c)]
  BY DEF IsPaired, PairStep
<1>c. \A c \in 0..Pairs(k) : chart[c] = StateAt(groups, tiers, k, 2 * c)
  BY DEF PairChart
<1>d. chart = [c \in 0..Pairs(k) |-> chart[c]]
  BY DEF PairChart
<1> HIDE DEF chart
<1>s. ASSUME NEW c \in 0..Pairs(k), NEW f, c # 0 => f[c - 1] = chart[c - 1]
      PROVE  PairStep(groups, tiers, k, f, c) = chart[c]
  <2>1. CASE c = 0
    <3>1. chart[c] = StateAt(groups, tiers, k, 0)
      BY <1>c, <2>1
    <3> QED
      BY <2>1, <3>1, UnseatedIs DEF PairStep
  <2>2. CASE c # 0
    <3>1. c \in 1..Pairs(k) /\ c - 1 \in 0..Pairs(k)
      BY <1>p, <2>2
    <3>2. f[c - 1] = StateAt(groups, tiers, k, 2 * (c - 1))
      BY <1>c, <1>s, <2>2, <3>1
    <3>3. PairSeated(groups, k, Byes(k), c, StateAt(groups, tiers, k, 2 * (c - 1))) = StateAt(groups, tiers, k, 2 * c)
      BY <3>1, PairSeatedIs
    <3> QED
      BY <1>c, <2>2, <3>2, <3>3 DEF PairStep
  <2> QED
    BY <2>1, <2>2
<1>1. IsPaired(groups, tiers, k, Byes(k), Pairs(k), chart)
  <2>1. \A c \in 0..Pairs(k) : PairStep(groups, tiers, k, chart, c) = chart[c]
    BY <1>s
  <2>2. chart = [c \in 0..Pairs(k) |-> PairStep(groups, tiers, k, chart, c)]
    BY <1>d, <2>1
  <2> QED
    BY <1>f, <2>2
<1>2. ASSUME NEW f, IsPaired(groups, tiers, k, Byes(k), Pairs(k), f) PROVE f = chart
  <2>1. f = [c \in 0..Pairs(k) |-> PairStep(groups, tiers, k, f, c)]
    BY <1>2, <1>f
  <2> DEFINE T == {c \in Nat : c \in 0..Pairs(k) /\ f[c] # chart[c]}
  <2>2. CASE T = {}
    <3>1. \A c \in 0..Pairs(k) : f[c] = chart[c]
      BY <1>p, <2>2
    <3> QED
      BY <1>d, <2>1, <3>1
  <2>3. CASE T # {}
    <3>1. T \in SUBSET Nat
      OBVIOUS
    <3>2. PICK m \in T : \A c \in T : m <= c
      <4> HIDE DEF T
      <4> QED
        BY <2>3, <3>1, LeastNat
    <3>3. m \in Nat /\ m \in 0..Pairs(k) /\ f[m] # chart[m]
      OBVIOUS
    <3>4. ASSUME m # 0 PROVE f[m - 1] = chart[m - 1]
      <4>1. m - 1 \in Nat /\ m - 1 \in 0..Pairs(k) /\ m - 1 < m
        BY <1>p, <3>3, <3>4
      <4>2. m - 1 \notin T
        <5> HIDE DEF T
        <5> QED
          BY <3>2, <3>3, <4>1
      <4> QED
        BY <4>1, <4>2
    <3>5. PairStep(groups, tiers, k, f, m) = chart[m]
      BY <1>s, <3>3, <3>4
    <3>6. f[m] = PairStep(groups, tiers, k, f, m)
      BY <2>1, <3>3
    <3> QED
      BY <3>3, <3>5, <3>6
  <2> QED
    BY <2>2, <2>3
<1>3. (CHOOSE f : IsPaired(groups, tiers, k, Byes(k), Pairs(k), f)) = chart
  BY <1>1, <1>2
<1> QED
  BY <1>3 DEF chart

ByeChart(groups, tiers, k) == [s \in 0..Byes(k) |-> StateAt(groups, tiers, k, 2 * Pairs(k) + s)]

LEMMA SeatedIs ==
  ASSUME NEW groups \in Nat, groups >= 2, NEW tiers \in Nat, NEW k \in Nat, k >= 2,
         NEW first, first = StateAt(groups, tiers, k, 2 * Pairs(k))
  PROVE  (CHOOSE f : IsSeated(groups, Byes(k), first, f)) = ByeChart(groups, tiers, k)
<1> DEFINE chart == ByeChart(groups, tiers, k)
<1>p. Byes(k) \in Nat /\ Pairs(k) \in Nat /\ Byes(k) + 2 * Pairs(k) = k
  BY ByesAre
<1>f. \A f : IsSeated(groups, Byes(k), first, f)
               <=> f = [s \in 0..Byes(k) |-> ByeSeated(groups, first, f, s)]
  BY DEF IsSeated
<1>c. \A s \in 0..Byes(k) : chart[s] = StateAt(groups, tiers, k, 2 * Pairs(k) + s)
  BY DEF ByeChart
<1>d. chart = [s \in 0..Byes(k) |-> chart[s]]
  BY DEF ByeChart
<1> HIDE DEF chart
<1>s. ASSUME NEW s \in 0..Byes(k), NEW f, s # 0 => f[s - 1] = chart[s - 1]
      PROVE  ByeSeated(groups, first, f, s) = chart[s]
  <2>1. CASE s = 0
    <3>1. 2 * Pairs(k) + s = 2 * Pairs(k)
      BY <1>p, <2>1
    <3>2. chart[s] = first
      BY <1>c, <3>1
    <3> QED
      BY <2>1, <3>2 DEF ByeSeated
  <2>2. CASE s # 0
    <3>1. s \in 1..Byes(k) /\ s - 1 \in 0..Byes(k) /\ s \in 1..k
      BY <1>p, <2>2
    <3>2. PICK d \in Nat : d = 2 * Pairs(k) + (s - 1) /\ d + 1 = 2 * Pairs(k) + s /\ d = 2 * Pairs(k) + s - 1
      BY <1>p, <3>1
    <3>3. f[s - 1] = StateAt(groups, tiers, k, d)
      BY <1>c, <1>s, <2>2, <3>1, <3>2
    <3>4. SeatedAt(k, s) = d
      BY <3>1, <3>2 DEF SeatedAt
    <3>5. Seat(StateAt(groups, tiers, k, d), s, Turned(groups, d)) = StateAt(groups, tiers, k, d + 1)
      BY <3>1, <3>4, SeatNext
    <3>6. Most(groups, f[s - 1].left)[1] = Turned(groups, d)
      <4>1. f[s - 1].left = Left(groups, tiers, d)
        BY <3>3 DEF StateAt
      <4>2. Most(groups, Left(groups, tiers, d))[1] = Turned(groups, d)
        BY MostLeft
      <4> QED
        BY <4>1, <4>2
    <3> QED
      BY <1>c, <2>2, <3>2, <3>3, <3>5, <3>6 DEF ByeSeated
  <2> QED
    BY <2>1, <2>2
<1>1. IsSeated(groups, Byes(k), first, chart)
  <2>1. \A s \in 0..Byes(k) : ByeSeated(groups, first, chart, s) = chart[s]
    BY <1>s
  <2>2. chart = [s \in 0..Byes(k) |-> ByeSeated(groups, first, chart, s)]
    BY <1>d, <2>1
  <2> QED
    BY <1>f, <2>2
<1>2. ASSUME NEW f, IsSeated(groups, Byes(k), first, f) PROVE f = chart
  <2>1. f = [s \in 0..Byes(k) |-> ByeSeated(groups, first, f, s)]
    BY <1>2, <1>f
  <2> DEFINE T == {s \in Nat : s \in 0..Byes(k) /\ f[s] # chart[s]}
  <2>2. CASE T = {}
    <3>1. \A s \in 0..Byes(k) : f[s] = chart[s]
      BY <1>p, <2>2
    <3> QED
      BY <1>d, <2>1, <3>1
  <2>3. CASE T # {}
    <3>1. T \in SUBSET Nat
      OBVIOUS
    <3>2. PICK m \in T : \A s \in T : m <= s
      <4> HIDE DEF T
      <4> QED
        BY <2>3, <3>1, LeastNat
    <3>3. m \in Nat /\ m \in 0..Byes(k) /\ f[m] # chart[m]
      OBVIOUS
    <3>4. ASSUME m # 0 PROVE f[m - 1] = chart[m - 1]
      <4>1. m - 1 \in Nat /\ m - 1 \in 0..Byes(k) /\ m - 1 < m
        BY <1>p, <3>3, <3>4
      <4>2. m - 1 \notin T
        <5> HIDE DEF T
        <5> QED
          BY <3>2, <3>3, <4>1
      <4> QED
        BY <4>1, <4>2
    <3>5. ByeSeated(groups, first, f, m) = chart[m]
      BY <1>s, <3>3, <3>4
    <3>6. f[m] = ByeSeated(groups, first, f, m)
      BY <2>1, <3>3
    <3> QED
      BY <3>3, <3>5, <3>6
  <2> QED
    BY <2>2, <2>3
<1>3. (CHOOSE f : IsSeated(groups, Byes(k), first, f)) = chart
  BY <1>1, <1>2
<1> QED
  BY <1>3 DEF chart

(* Every seed goes to the group whose turn it is when it is seated. *)
LEMMA SeatGroupsDealt ==
  ASSUME NEW groups \in Nat, groups >= 2, NEW tiers \in Nat, NEW k \in Nat, k >= 2, k = groups * tiers
  PROVE  SeatGroups(groups, tiers) = [s \in 1..k |-> Turned(groups, SeatedAt(k, s))]
<1>b. /\ Byes(k) \in Nat /\ Pairs(k) \in Nat /\ Byes(k) + 2 * Pairs(k) = k
      /\ Opening!next_power_of_two(k) - k = Byes(k)
      /\ (k - Byes(k)) \div 2 = Pairs(k)
  BY ByesAre
<1>1. SeatGroups(groups, tiers) = AllSeated(groups, tiers, k, Byes(k), Pairs(k))[Byes(k)].of
  <2>1. SeatGroups(groups, tiers)
           = SeatsOf(groups, tiers, groups * tiers,
                     Opening!next_power_of_two(groups * tiers) - groups * tiers)
    BY SeatGroupsAre
  <2>2. SeatGroups(groups, tiers) = SeatsOf(groups, tiers, k, Byes(k))
    BY <1>b, <2>1
  <2> QED
    BY <1>b, <2>2 DEF SeatsOf
<1>2. PICK paired : paired = CHOOSE f : IsPaired(groups, tiers, k, Byes(k), Pairs(k), f)
  OBVIOUS
<1>3. paired = PairChart(groups, tiers, k)
  BY <1>2, PairedIs
<1>4. PICK first : first = paired[Pairs(k)]
  OBVIOUS
<1>5. first = StateAt(groups, tiers, k, 2 * Pairs(k))
  <2>1. Pairs(k) \in 0..Pairs(k)
    BY <1>b
  <2> QED
    BY <1>3, <1>4, <2>1 DEF PairChart
<1>6. AllSeated(groups, tiers, k, Byes(k), Pairs(k)) = CHOOSE f : IsSeated(groups, Byes(k), first, f)
  BY <1>2, <1>4 DEF AllSeated
<1>7. (CHOOSE f : IsSeated(groups, Byes(k), first, f)) = ByeChart(groups, tiers, k)
  BY <1>5, SeatedIs
<1>8. ByeChart(groups, tiers, k)[Byes(k)] = StateAt(groups, tiers, k, k)
  <2>1. Byes(k) \in 0..Byes(k) /\ 2 * Pairs(k) + Byes(k) = k
    BY <1>b
  <2> QED
    BY <2>1 DEF ByeChart
<1>9. SeatGroups(groups, tiers) = OfAt(groups, k, k)
  <2>1. AllSeated(groups, tiers, k, Byes(k), Pairs(k))[Byes(k)] = StateAt(groups, tiers, k, k)
    BY <1>6, <1>7, <1>8
  <2>2. StateAt(groups, tiers, k, k).of = OfAt(groups, k, k)
    BY DEF StateAt
  <2> QED
    BY <1>1, <2>1, <2>2
<1>10. \A s \in 1..k : SeatedAt(k, s) < k
  BY SeatedApart
<1> QED
  BY <1>9, <1>10 DEF OfAt

-----------------------------------------------------------------------------
(* A group has a seat in each of its turns, so as many as there are tiers, *)
(* and the two of an opening match are seated in turns that follow one     *)
(* another, so for different groups.                                       *)

Round(groups, k, s) == SeatedAt(k, s) \div groups

LEMMA RoundIs ==
  ASSUME NEW groups \in Nat, groups >= 2, NEW tiers \in Nat, NEW k \in Nat, k >= 2, k = groups * tiers
  PROVE  /\ \A s \in 1..k : Round(groups, k, s) \in 0..tiers - 1
         /\ \A s, q \in 1..k : Turned(groups, SeatedAt(k, s)) = Turned(groups, SeatedAt(k, q))
                               /\ Round(groups, k, s) = Round(groups, k, q) => s = q
         /\ \A s \in 1..k : Turned(groups, SeatedAt(k, s)) \in 1..groups
<1>1. ASSUME NEW d \in 0..k - 1 PROVE d \div groups \in 0..tiers - 1
  <2>1. PICK q \in Nat, r \in 0..groups - 1 : q = d \div groups /\ r = d % groups /\ d = q * groups + r
    BY <1>1, DivMod
  <2>2. PICK x \in Nat : x = q * groups
    OBVIOUS
  <2>3. k = tiers * groups /\ x < k
    BY <1>1, <2>1, <2>2
  <2>4. ~(tiers < q)
    <3>1. tiers < q => tiers * groups + groups <= q * groups
      BY Larger
    <3> QED
      BY <2>2, <2>3, <3>1
  <2>5. tiers # q
    BY <2>2, <2>3
  <2> QED
    BY <2>1, <2>4, <2>5
<1>2. ASSUME NEW d \in 0..k - 1, NEW e \in 0..k - 1, Turned(groups, d) = Turned(groups, e),
             d \div groups = e \div groups
      PROVE  d = e
  <2>1. d % groups \in 0..groups - 1 /\ e % groups \in 0..groups - 1
        /\ d = (d \div groups) * groups + (d % groups)
        /\ e = (e \div groups) * groups + (e % groups)
    BY <1>2, DivMod
  <2>2. d % groups = e % groups
    BY <1>2, <2>1 DEF Turned
  <2> QED
    BY <1>2, <2>1, <2>2
<1>3. \A s \in 1..k : SeatedAt(k, s) \in 0..k - 1
  BY SeatedApart
<1>4. \A s, t \in 1..k : SeatedAt(k, s) = SeatedAt(k, t) => s = t
  BY SeatedApart
<1>5. \A s \in 1..k : Round(groups, k, s) \in 0..tiers - 1
  BY <1>1, <1>3 DEF Round
<1>6. \A s, q \in 1..k : Turned(groups, SeatedAt(k, s)) = Turned(groups, SeatedAt(k, q))
                         /\ Round(groups, k, s) = Round(groups, k, q) => s = q
  BY <1>2, <1>3, <1>4 DEF Round
<1>7. ASSUME NEW d \in 0..k - 1 PROVE Turned(groups, d) \in 1..groups
  BY <1>7, TurnedIs
<1> QED
  BY <1>3, <1>5, <1>6, <1>7

Fellows(seats, s) == {q \in 1..s : seats[q] = seats[s]}

LEMMA TierIs ==
  ASSUME NEW groups \in Nat, groups >= 2, NEW tiers \in Nat, NEW k \in Nat, k >= 2, k = groups * tiers,
         NEW seats, seats = [s \in 1..k |-> Turned(groups, SeatedAt(k, s))]
  PROVE  /\ \A s \in 1..k : TierAt(seats, s) \in 1..tiers
         /\ \A a, b \in 1..k : a < b /\ seats[a] = seats[b] => TierAt(seats, a) < TierAt(seats, b)
<1>0. \A s : TierAt(seats, s) = Cardinality(Fellows(seats, s))
  BY DEF TierAt, Fellows
<1>1. ASSUME NEW s \in 1..k
      PROVE  /\ IsFiniteSet(Fellows(seats, s)) /\ Cardinality(Fellows(seats, s)) \in Nat
             /\ Cardinality(Fellows(seats, s)) \in 1..tiers
  <2>1. IsFiniteSet(1..s) /\ Cardinality(1..s) = s
    BY Interval
  <2>2. Fellows(seats, s) \subseteq 1..s /\ s \in Fellows(seats, s)
    BY DEF Fellows
  <2>3. IsFiniteSet(Fellows(seats, s)) /\ Cardinality(Fellows(seats, s)) \in Nat
    BY <2>1, <2>2, FS_Subset, FS_CardinalityType
  <2>4. Cardinality(Fellows(seats, s)) # 0
    BY <2>2, <2>3, FS_EmptySet
  <2>5. PICK T : T = 0..tiers - 1
    OBVIOUS
  <2>6. IsFiniteSet(T) /\ Cardinality(T) = tiers
    <3>1. 0 \in Int /\ tiers - 1 \in Int
      OBVIOUS
    <3>2. IsFiniteSet(0..tiers - 1) /\ Cardinality(0..tiers - 1) = IF 0 > tiers - 1 THEN 0 ELSE tiers - 1 - 0 + 1
      BY <3>1, FS_Interval
    <3> QED
      BY <2>5, <3>2
  <2>7. PICK S : S = Fellows(seats, s)
    OBVIOUS
  <2>8. \A q \in S : q \in 1..k /\ seats[q] = seats[s]
    BY <2>7 DEF Fellows
  <2>9. PICK f : f = [q \in S |-> Round(groups, k, q)]
    OBVIOUS
  <2>10. \A q \in 1..k : Round(groups, k, q) \in T
    BY <2>5, RoundIs
  <2>11. f \in [S -> T]
    BY <2>8, <2>9, <2>10
  <2>12. ASSUME NEW p \in S, NEW q \in S, f[p] = f[q] PROVE p = q
    <3>1. p \in 1..k /\ q \in 1..k /\ seats[p] = seats[q]
      BY <2>8
    <3>2. Turned(groups, SeatedAt(k, p)) = Turned(groups, SeatedAt(k, q))
      BY <3>1
    <3>3. Round(groups, k, p) = Round(groups, k, q)
      BY <2>9, <2>12
    <3>4. Turned(groups, SeatedAt(k, p)) = Turned(groups, SeatedAt(k, q))
            /\ Round(groups, k, p) = Round(groups, k, q) => p = q
      BY <3>1, RoundIs
    <3> QED
      BY <3>2, <3>3, <3>4
  <2>13. f \in Injection(S, T)
    BY <2>11, <2>12 DEF Injection, IsInjective
  <2>14. Cardinality(S) <= Cardinality(T)
    BY <2>6, <2>13, FS_Injection
  <2> QED
    BY <2>3, <2>4, <2>6, <2>7, <2>14
<1>2. ASSUME NEW a \in 1..k, NEW b \in 1..k, a < b, seats[a] = seats[b]
      PROVE  Cardinality(Fellows(seats, a)) < Cardinality(Fellows(seats, b))
  <2>1. /\ IsFiniteSet(Fellows(seats, b)) /\ Cardinality(Fellows(seats, b)) \in Nat
        /\ Cardinality(Fellows(seats, a)) \in Nat
    BY <1>1
  <2>2. Fellows(seats, a) \subseteq Fellows(seats, b) /\ b \in Fellows(seats, b) /\ b \notin Fellows(seats, a)
    BY <1>2 DEF Fellows
  <2>3. Cardinality(Fellows(seats, a)) <= Cardinality(Fellows(seats, b))
        /\ (Cardinality(Fellows(seats, b)) = Cardinality(Fellows(seats, a)) => Fellows(seats, b) = Fellows(seats, a))
    BY <2>1, <2>2, FS_Subset
  <2> QED
    BY <2>1, <2>2, <2>3
<1> QED
  BY <1>0, <1>1, <1>2

LEMMA PairApart ==
  ASSUME NEW groups \in Nat, groups >= 2, NEW k \in Nat, k >= 2, NEW c \in 1..Pairs(k)
  PROVE  Turned(groups, SeatedAt(k, Byes(k) + c)) # Turned(groups, SeatedAt(k, k + 1 - c))
<1>1. PICK d \in Nat : d = 2 * (c - 1)
  <2>1. Pairs(k) \in Nat
    BY ByesAre
  <2> QED
    BY <2>1
<1>2. Turned(groups, d) # Turned(groups, d + 1)
  BY TurnedIs
<1>3. /\ SeatedAt(k, Byes(k) + c) = d + (IF c % 2 = 1 THEN 0 ELSE 1)
      /\ SeatedAt(k, k + 1 - c) = d + (IF c % 2 = 1 THEN 1 ELSE 0)
  BY <1>1, PairTurns
<1> QED
  BY <1>2, <1>3

(* Who sits where in the seeding that multistage lays out. *)
Seating(groups, n) == [s \in 1..n |-> Turned(groups, SeatedAt(n, s))]

Drawn(groups, n) ==
  [i \in 1..n |-> [tier |-> 1 + ((i - 1) \div groups), group |-> 1 + ((i - 1) % groups)]]

Split(n, groups, tiers) == n = groups * tiers

SeatedSo(groups, tiers, n, seats) ==
  /\ SnakeOrder(Drawn(groups, n), groups, tiers)
       = [s \in 1..n |-> Drawn(groups, n)[(TierAt(seats, s) - 1) * groups + seats[s]]]
  /\ \A s \in 1..n : TierAt(seats, s) \in 1..tiers /\ seats[s] \in 1..groups
  /\ \A a, b \in 1..n : a < b /\ seats[a] = seats[b] => TierAt(seats, a) < TierAt(seats, b)

LEMMA DrawnSeat ==
  ASSUME NEW groups \in Nat, groups >= 2, NEW tiers \in Nat, NEW n \in Nat, n >= 2, Split(n, groups, tiers),
         NEW seats, seats = Seating(groups, n)
  PROVE  SeatedSo(groups, tiers, n, seats)
<1>0. n = groups * tiers
  BY DEF Split
<1>1. SeatGroups(groups, tiers) = [s \in 1..n |-> Turned(groups, SeatedAt(n, s))]
  BY <1>0, SeatGroupsDealt
<1>2. SeatGroups(groups, tiers) = seats /\ seats = [s \in 1..n |-> Turned(groups, SeatedAt(n, s))]
  BY <1>1 DEF Seating
<1>3. /\ \A q \in 1..n : TierAt(seats, q) \in 1..tiers
      /\ \A a, b \in 1..n : a < b /\ seats[a] = seats[b] => TierAt(seats, a) < TierAt(seats, b)
  BY <1>0, <1>2, TierIs
<1>4. \A s \in 1..n : Turned(groups, SeatedAt(n, s)) \in 1..groups
  BY <1>0, RoundIs
<1>5. DOMAIN Drawn(groups, n) = 1..n /\ ~(groups < 2)
  BY DEF Drawn
<1>6. SnakeOrder(Drawn(groups, n), groups, tiers)
        = [s \in 1..n |-> Drawn(groups, n)[(TierAt(seats, s) - 1) * groups + seats[s]]]
  BY <1>2, <1>5 DEF SnakeOrder
<1> QED
  BY <1>2, <1>3, <1>4, <1>6 DEF SeatedSo

IsDrawn(groups, n, t, g) ==
  Drawn(groups, n)[(t - 1) * groups + g] = [tier |-> t, group |-> g]

LEMMA DrawnIs ==
  ASSUME NEW groups \in Nat, groups >= 2, NEW tiers \in Nat, NEW n \in Nat, Split(n, groups, tiers),
         NEW t \in 1..tiers, NEW g \in 1..groups
  PROVE  IsDrawn(groups, n, t, g)
<1>0. n = groups * tiers
  BY DEF Split
<1>1. PICK u \in Nat, h \in 0..groups - 1 : u = t - 1 /\ h = g - 1
  OBVIOUS
<1>2. PICK x \in Nat : x = u * groups
  OBVIOUS
<1>3. (u * groups + h) \div groups = u /\ (u * groups + h) % groups = h
  BY DivIs
<1>4. PICK i \in Int : i = (t - 1) * groups + g /\ i = x + g
  BY <1>1, <1>2
<1>5. i - 1 = u * groups + h
  BY <1>1, <1>2, <1>4
<1>6. x + groups <= n
  <2>1. u < tiers /\ n = tiers * groups
    BY <1>0, <1>1
  <2>2. u * groups + groups <= tiers * groups
    BY <2>1, Larger
  <2> QED
    BY <1>2, <2>1, <2>2
<1>7. i \in 1..n /\ (i - 1) \div groups = u /\ (i - 1) % groups = h
  BY <1>2, <1>3, <1>4, <1>5, <1>6
<1>8. Drawn(groups, n)[i] = [tier |-> 1 + ((i - 1) \div groups), group |-> 1 + ((i - 1) % groups)]
  BY <1>7 DEF Drawn
<1>9. 1 + u = t /\ 1 + h = g
  BY <1>1
<1> QED
  BY <1>4, <1>7, <1>8, <1>9 DEF IsDrawn

LEMMA SnakedIs ==
  ASSUME stage.n \in Nat, stage.n >= 2, NEW groups \in GroupCounts,
         NEW seats, seats = Seating(groups, stage.n)
  PROVE  /\ groups \in Nat /\ groups >= 2
         /\ \A s \in 1..stage.n : Snaked(groups)[s] = [tier |-> TierAt(seats, s), group |-> seats[s]]
         /\ \A s \in 1..stage.n : TierAt(seats, s) \in Nat
         /\ \A a, b \in 1..stage.n : a < b /\ seats[a] = seats[b] => TierAt(seats, a) < TierAt(seats, b)
<1>1. PICK n \in Nat : n = stage.n /\ n >= 2
  OBVIOUS
<1>2. PICK h \in Nat : h = groups /\ h >= 2 /\ n % h = 0
  BY <1>1 DEF GroupCounts
<1>3. PICK tiers \in Nat : tiers = n \div h /\ n = h * tiers
  <2>1. n \div h \in Nat /\ n = (n \div h) * h + (n % h)
    BY <1>2, DivMod
  <2> QED
    BY <1>2, <2>1
<1>4. seats = Seating(h, n) /\ Split(n, h, tiers)
  BY <1>1, <1>2, <1>3 DEF Split
<1>5. /\ SnakeOrder(Drawn(h, n), h, tiers)
           = [s \in 1..n |-> Drawn(h, n)[(TierAt(seats, s) - 1) * h + seats[s]]]
      /\ \A s \in 1..n : TierAt(seats, s) \in 1..tiers /\ seats[s] \in 1..h
      /\ \A a, b \in 1..n : a < b /\ seats[a] = seats[b] => TierAt(seats, a) < TierAt(seats, b)
  <2>1. SeatedSo(h, tiers, n, seats)
    BY <1>1, <1>2, <1>3, <1>4, DrawnSeat
  <2> QED
    BY <2>1 DEF SeatedSo
<1>6. Snaked(groups) = SnakeOrder(Drawn(h, n), h, tiers)
  BY <1>1, <1>2, <1>3 DEF Snaked, Drawn
<1>7. ASSUME NEW s \in 1..n PROVE Snaked(groups)[s] = [tier |-> TierAt(seats, s), group |-> seats[s]]
  <2>1. PICK t \in 1..tiers, g \in 1..h : t = TierAt(seats, s) /\ g = seats[s]
    BY <1>5, <1>7
  <2>2. IsDrawn(h, n, t, g)
    BY <1>2, <1>3, <1>4, DrawnIs
  <2>3. Drawn(h, n)[(t - 1) * h + g] = [tier |-> t, group |-> g]
    BY <2>2 DEF IsDrawn
  <2> QED
    BY <1>5, <1>6, <1>7, <2>1, <2>3
<1> QED
  BY <1>1, <1>2, <1>5, <1>7

(* Who meets in the opening round of single elimination. *)
LEMMA OpeningPairs ==
  ASSUME NEW g \in AnyStage, NEW m \in Matches(g), m[1] = 1, Seeds(g)[m][2] # None
  PROVE  \E c \in 1..Pairs(g.n) : Seeds(g)[m][1] = Byes(g.n) + c /\ Seeds(g)[m][2] = g.n + 1 - c
<1>1. PICK order : Orders(order, W(g)) /\ standard_seeding(W(g)) = order[W(g)]
  BY StageIs, SeedingOrders
<1>2. PICK b \in Nat : m = <<1, b>> /\ Place(g, 1, b)
  <2>1. PICK r \in Int : \E b \in Nat : m = <<r, b>> /\ Place(g, r, b)
    BY MatchesAre
  <2>2. PICK b \in Nat : m = <<r, b>> /\ Place(g, r, b)
    BY <2>1
  <2>3. r = 1
    BY <2>2
  <2> QED
    BY <2>2, <2>3
<1>w. /\ W(g) \in Nat /\ W(g) >= 1 /\ g.n \in Nat /\ g.n >= 2 /\ g.n <= 2^W(g) /\ 2^(W(g) - 1) < g.n
      /\ W(g) = Rounds(g.n)
  BY StageIs DEF W
<1>3. PICK h \in Nat : h = 2^(W(g) - 1) /\ 2^W(g) = 2 * h
  BY <1>w, PowerDown, PowerNat
<1>4. PICK a : a = order[W(g) - 1][b]
  OBVIOUS
<1>5. /\ b \in 1..h /\ Seeds(g)[m][1] = a
      /\ Seeds(g)[m][2] = (IF 2 * h + 1 - a <= g.n THEN 2 * h + 1 - a ELSE None)
  BY <1>1, <1>2, <1>3, <1>4, OpeningSeeded
<1>6. a \in 1..h
  <2>1. W(g) - 1 \in 0..W(g)
    BY <1>w
  <2>2. Arranged(order, W(g) - 1)
    BY <1>1, <1>w, <2>1, OrdersArranged
  <2> QED
    BY <1>3, <1>4, <1>5, <2>2 DEF Arranged
<1>7. Byes(g.n) = 2 * h - g.n /\ Pairs(g.n) = g.n - h
  BY <1>w, <1>3 DEF Byes, Pairs
<1>8. 2 * h + 1 - a <= g.n /\ Seeds(g)[m][2] = 2 * h + 1 - a
  BY <1>5
<1>9. PICK c \in Int : c = g.n + a - 2 * h
  BY <1>w, <1>6
<1>10. c \in 1..(g.n - h) /\ a = (2 * h - g.n) + c /\ 2 * h + 1 - a = g.n + 1 - c
  BY <1>w, <1>3, <1>6, <1>8, <1>9
<1> QED
  BY <1>5, <1>7, <1>8, <1>10

(* For every field and every number of groups it can be drawn from: no     *)
(* opening match of single elimination is between two of the same group,   *)
(* nobody is left out, and a group's seeds are in the order of its ranks.  *)
THEOREM GroupsMeetLater == Spec => []GroupsApart
<1>1. ASSUME stage \in Stages PROVE GroupsApart
  <2>1. stage \in AnyStage /\ stage.n \in Nat /\ stage.n >= 2
    BY <1>1, MaxFieldAssumption DEF Stages, AnyStage
  <2>2. ASSUME NEW groups \in GroupCounts, NEW m \in Matches(stage), m[1] = 1,
               Seeds(stage)[m][1] # None, Seeds(stage)[m][2] # None
        PROVE  Snaked(groups)[Seeds(stage)[m][1]].group # Snaked(groups)[Seeds(stage)[m][2]].group
    <3>1. PICK c \in 1..Pairs(stage.n) : /\ Seeds(stage)[m][1] = Byes(stage.n) + c
                                         /\ Seeds(stage)[m][2] = stage.n + 1 - c
      BY <2>1, <2>2, OpeningPairs
    <3>2. PICK a \in 1..stage.n : a = Byes(stage.n) + c
      BY <2>1, PairTurns
    <3>3. PICK b \in 1..stage.n : b = stage.n + 1 - c
      BY <2>1, PairTurns
    <3>4. PICK seats : seats = Seating(groups, stage.n)
      OBVIOUS
    <3>5. /\ groups \in Nat /\ groups >= 2
          /\ \A s \in 1..stage.n : Snaked(groups)[s] = [tier |-> TierAt(seats, s), group |-> seats[s]]
      BY <2>1, <3>4, SnakedIs
    <3>6. Turned(groups, SeatedAt(stage.n, a)) # Turned(groups, SeatedAt(stage.n, b))
      BY <2>1, <3>2, <3>3, <3>5, PairApart
    <3>7. seats[a] # seats[b]
      BY <3>4, <3>6 DEF Seating
    <3>8. Snaked(groups)[a].group = seats[a] /\ Snaked(groups)[b].group = seats[b]
      <4>1. /\ Snaked(groups)[a] = [tier |-> TierAt(seats, a), group |-> seats[a]]
            /\ Snaked(groups)[b] = [tier |-> TierAt(seats, b), group |-> seats[b]]
        BY <3>5
      <4> QED
        BY <4>1
    <3> QED
      BY <3>1, <3>2, <3>3, <3>7, <3>8
  <2>3. ASSUME NEW groups \in GroupCounts, NEW a \in 1..stage.n, NEW b \in 1..stage.n, a < b
        PROVE  /\ Snaked(groups)[a] # Snaked(groups)[b]
               /\ Snaked(groups)[a].group = Snaked(groups)[b].group
                    => Snaked(groups)[a].tier < Snaked(groups)[b].tier
    <3>1. PICK seats : seats = Seating(groups, stage.n)
      OBVIOUS
    <3>2. Snaked(groups)[a] = [tier |-> TierAt(seats, a), group |-> seats[a]]
      BY <2>1, <3>1, SnakedIs
    <3>3. Snaked(groups)[b] = [tier |-> TierAt(seats, b), group |-> seats[b]]
      BY <2>1, <3>1, SnakedIs
    <3>4. seats[a] = seats[b] => TierAt(seats, a) < TierAt(seats, b)
      BY <2>1, <2>3, <3>1, SnakedIs
    <3>5. TierAt(seats, a) \in Nat /\ TierAt(seats, b) \in Nat
      BY <2>1, <3>1, SnakedIs
    <3> QED
      BY <3>2, <3>3, <3>4, <3>5
  <2> QED
    BY <2>2, <2>3 DEF GroupsApart
<1>2. Spec => [](stage \in Stages)
  BY StageKept
<1> QED
  BY <1>1, <1>2, PTL

(* The place of the draw that a seed takes: each takes one of its own.     *)
Placing(seats, groups, s) == (TierAt(seats, s) - 1) * groups + seats[s]

Shuffled(seats, groups, n) ==
  /\ \A s \in 1..n : Placing(seats, groups, s) \in 1..n
  /\ \A s, q \in 1..n : Placing(seats, groups, s) = Placing(seats, groups, q) => s = q
  /\ \A i \in 1..n : \E s \in 1..n : Placing(seats, groups, s) = i

SeatAt(n, groups, t, g) ==
  /\ (t - 1) * groups + g \in 1..n
  /\ ((t - 1) * groups + g - 1) \div groups = t - 1
  /\ ((t - 1) * groups + g - 1) % groups = g - 1

LEMMA SeatPlace ==
  ASSUME NEW groups \in Nat, groups >= 1, NEW tiers \in Nat, NEW n \in Nat, Split(n, groups, tiers),
         NEW t \in 1..tiers, NEW g \in 1..groups
  PROVE  SeatAt(n, groups, t, g)
<1>0. n = groups * tiers
  BY DEF Split
<1>1. PICK u \in Nat, h \in 0..groups - 1 : u = t - 1 /\ h = g - 1
  OBVIOUS
<1>2. PICK x \in Nat : x = u * groups
  OBVIOUS
<1>3. (u * groups + h) \div groups = u /\ (u * groups + h) % groups = h
  BY DivIs
<1>4. x + groups <= n
  <2>1. u < tiers /\ n = tiers * groups
    BY <1>0, <1>1
  <2>2. u * groups + groups <= tiers * groups
    BY <2>1, Larger
  <2> QED
    BY <1>2, <2>1, <2>2
<1>5. (t - 1) * groups + g - 1 = u * groups + h
  BY <1>1, <1>2
<1>6. (t - 1) * groups + g = x + g
  BY <1>1, <1>2
<1>7. x + g \in 1..n
  BY <1>4
<1>8. (t - 1) * groups + g \in 1..n
  BY <1>6, <1>7
<1>9. ((t - 1) * groups + g - 1) \div groups = u /\ ((t - 1) * groups + g - 1) % groups = h
  BY ONLY <1>3, <1>5
<1> QED
  BY <1>1, <1>8, <1>9 DEF SeatAt

LEMMA SeatsShuffled ==
  ASSUME NEW groups \in Nat, groups >= 2, NEW tiers \in Nat, NEW n \in Nat, n >= 2, Split(n, groups, tiers)
  PROVE  Shuffled(SeatGroups(groups, tiers), groups, n)
<1>1. PICK seats : seats = Seating(groups, n)
  OBVIOUS
<1>2. SeatGroups(groups, tiers) = seats
  <2>1. n = groups * tiers
    BY DEF Split
  <2>2. SeatGroups(groups, tiers) = [s \in 1..n |-> Turned(groups, SeatedAt(n, s))]
    BY <2>1, SeatGroupsDealt
  <2> QED
    BY <1>1, <2>2 DEF Seating
<1>3. /\ \A s \in 1..n : TierAt(seats, s) \in 1..tiers /\ seats[s] \in 1..groups
      /\ \A a, b \in 1..n : a < b /\ seats[a] = seats[b] => TierAt(seats, a) < TierAt(seats, b)
  <2>1. SeatedSo(groups, tiers, n, seats)
    BY <1>1, DrawnSeat
  <2> QED
    BY <2>1 DEF SeatedSo
<1>4. ASSUME NEW s \in 1..n
      PROVE  /\ Placing(seats, groups, s) \in 1..n
             /\ (Placing(seats, groups, s) - 1) \div groups = TierAt(seats, s) - 1
             /\ (Placing(seats, groups, s) - 1) % groups = seats[s] - 1
  <2>1. PICK t \in 1..tiers, g \in 1..groups : t = TierAt(seats, s) /\ g = seats[s]
    BY <1>3, <1>4
  <2>2. /\ (t - 1) * groups + g \in 1..n
        /\ ((t - 1) * groups + g - 1) \div groups = t - 1
        /\ ((t - 1) * groups + g - 1) % groups = g - 1
    <3>1. SeatAt(n, groups, t, g)
      BY SeatPlace
    <3> QED
      BY <3>1 DEF SeatAt
  <2>3. Placing(seats, groups, s) = (t - 1) * groups + g
    BY <2>1 DEF Placing
  <2> QED
    BY <2>1, <2>2, <2>3
<1>5. ASSUME NEW s \in 1..n, NEW q \in 1..n, Placing(seats, groups, s) = Placing(seats, groups, q)
      PROVE  s = q
  <2>1. TierAt(seats, s) - 1 = TierAt(seats, q) - 1 /\ seats[s] - 1 = seats[q] - 1
    BY <1>4, <1>5
  <2>2. TierAt(seats, s) = TierAt(seats, q) /\ seats[s] = seats[q]
    BY <1>3, <2>1
  <2>3. TierAt(seats, s) \in Nat
    BY <1>3
  <2> QED
    BY <1>3, <2>2, <2>3
<1>6. ASSUME NEW i \in 1..n PROVE \E s \in 1..n : Placing(seats, groups, s) = i
  <2>1. PICK S : S = 1..n
    OBVIOUS
  <2>2. IsFiniteSet(S) /\ Cardinality(S) = n
    BY <2>1, Interval
  <2>3. PICK f : f = [s \in S |-> Placing(seats, groups, s)]
    OBVIOUS
  <2>4. f \in Injection(S, S)
    <3>1. f \in [S -> S]
      BY <1>4, <2>1, <2>3
    <3>2. \A s, q \in S : f[s] = f[q] => s = q
      BY <1>5, <2>1, <2>3
    <3> QED
      BY <3>1, <3>2 DEF Injection, IsInjective
  <2>5. f \in Surjection(S, S)
    BY <2>2, <2>4, FS_Injection
  <2> QED
    BY <2>1, <2>3, <2>5 DEF Surjection
<1> QED
  BY <1>2, <1>4, <1>5, <1>6 DEF Shuffled
=============================================================================
