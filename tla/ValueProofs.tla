---------------------------- MODULE ValueProofs ----------------------------
(***************************************************************************)
(* Proofs about DmnRdr, for any number of variables with any number of     *)
(* dimensions, every list of -a and every format of the output: the        *)
(* dimensions of each variable are arranged as -a asks, and the output has *)
(* one record dimension, which leads the variables that have it.           *)
(*                                                                         *)
(* Then about nco_newdate() in CalTimes and CalClock, for every date of    *)
(* the calendar and every number of days: the new date is as many days     *)
(* away.                                                                   *)
(*                                                                         *)
(* Last about the conversions of Calendar, in every calendar: a number of  *)
(* seconds since the year 0 is the count of exactly one time, a tick of    *)
(* the clock adds the seconds of its period, and a value converted to      *)
(* other units stands for the same instant.  The time stamps and the times *)
(* and bounds of climatologies are therefore those the clock shows.        *)
(*                                                                         *)
(* And about the elements ncpdq moves: what a fold along a sequence        *)
(* computes, the subscripts that an offset in an array stands for, and     *)
(* that every element of every variable is written at the offset of its    *)
(* own subscripts, counted from the end along the dimensions reversed.     *)
(***************************************************************************)
EXTENDS DmnRdr, CalClock, FiniteSetTheorems, FunctionTheorems, SequenceTheorems,
        WellFoundedInduction, TLAPS

-----------------------------------------------------------------------------
(* Sets of numbers in ascending order, and chosen elements of a sequence.  *)

\* The numbers of a set up to x.
Upto(S, x) == {y \in S : y <= x}

\* There are at most as many as the set has, and more up to a greater one.
LEMMA RankFacts ==
  ASSUME NEW S, S \subseteq Int, IsFiniteSet(S)
  PROVE  /\ Cardinality(S) \in Nat
         /\ \A x \in S : Cardinality(Upto(S, x)) \in 1..Cardinality(S)
         /\ \A x, y \in S : x < y => Cardinality(Upto(S, x)) < Cardinality(Upto(S, y))
<1>1. Cardinality(S) \in Nat
  BY FS_CardinalityType
<1>2. ASSUME NEW x \in S
      PROVE  /\ IsFiniteSet(Upto(S, x)) /\ Cardinality(Upto(S, x)) \in Nat
             /\ Cardinality(Upto(S, x)) \in 1..Cardinality(S)
  <2>1. Upto(S, x) \in SUBSET S /\ x \in Upto(S, x)
    BY DEF Upto
  <2>2. IsFiniteSet(Upto(S, x)) /\ Cardinality(Upto(S, x)) <= Cardinality(S)
    BY <2>1, FS_Subset
  <2>3. Cardinality(Upto(S, x)) \in Nat
    BY <2>2, FS_CardinalityType
  <2>4. Cardinality(Upto(S, x)) # 0
    BY <2>1, <2>2, FS_EmptySet
  <2>5. QED
    BY <1>1, <2>2, <2>3, <2>4
<1>3. ASSUME NEW x \in S, NEW y \in S, x < y
      PROVE  Cardinality(Upto(S, x)) < Cardinality(Upto(S, y))
  <2>1. Upto(S, x) \in SUBSET (Upto(S, y) \ {y}) /\ y \in Upto(S, y)
    <3>1. x \in Int /\ y \in Int /\ y <= y
      OBVIOUS
    <3>2. \A z \in S : z <= x => z <= y /\ z # y
      BY <1>3, <3>1
    <3>3. QED
      BY <3>1, <3>2 DEF Upto
  <2>2. /\ IsFiniteSet(Upto(S, y) \ {y})
        /\ Cardinality(Upto(S, y) \ {y}) = Cardinality(Upto(S, y)) - 1
    BY <1>2, <2>1, FS_RemoveElement
  <2>3. Cardinality(Upto(S, x)) <= Cardinality(Upto(S, y) \ {y})
    BY <2>1, <2>2, FS_Subset
  <2>4. QED
    BY <1>2, <2>2, <2>3
<1>4. QED
  BY <1>1, <1>2, <1>3

\* Ascending(S) lists S, once each, from below.
LEMMA AscendingFacts ==
  ASSUME NEW S, S \subseteq Int, IsFiniteSet(S)
  PROVE  LET n == Cardinality(S)
             a == Ascending(S)
         IN  /\ n \in Nat /\ a \in [1..n -> S]
             /\ \A i, j \in 1..n : i < j => a[i] < a[j]
             /\ \A x \in S : \E i \in 1..n : a[i] = x
<1> DEFINE n == Cardinality(S)
           a == Ascending(S)
           r == [x \in S |-> Cardinality(Upto(S, x))]
<1>1. n \in Nat /\ r \in [S -> 1..n] /\ \A x, y \in S : x < y => r[x] < r[y]
  BY RankFacts
<1>2. \A x \in S : r[x] \in Nat
  BY <1>1
<1>3. IsFiniteSet(1..n) /\ Cardinality(1..n) = n
  BY <1>1, FS_Interval
<1>4. a = [k \in 1..n |-> CHOOSE i \in S : Cardinality({j \in S : j <= i}) = k]
  BY DEF Ascending
<1>5. \A x \in S : r[x] = Cardinality({j \in S : j <= x})
  BY DEF Upto
<1> HIDE DEF n, a, r
<1>6. \A x, y \in S : r[x] = r[y] => x = y
  <2>1. SUFFICES ASSUME NEW x \in S, NEW y \in S, r[x] = r[y] PROVE x = y
    OBVIOUS
  <2>2. x \in Int /\ y \in Int /\ (x < y \/ y < x \/ x = y)
    OBVIOUS
  <2>3. QED
    BY <1>1, <1>2, <2>1, <2>2
<1>7. r \in Injection(S, 1..n)
  BY <1>1, <1>6, Zenon DEF Injection, IsInjective
<1>8. r \in Surjection(S, 1..n)
  BY <1>3, <1>7, FS_Injection DEF n
<1>9. \A k \in 1..n : \E x \in S : r[x] = k
  BY <1>8, Zenon DEF Surjection
<1>10. \A k \in 1..n : a[k] \in S /\ r[a[k]] = k
  <2>1. SUFFICES ASSUME NEW k \in 1..n PROVE a[k] \in S /\ r[a[k]] = k
    OBVIOUS
  <2>2. \E x \in S : Cardinality({j \in S : j <= x}) = k
    BY <1>9, <1>5
  <2>3. a[k] \in S /\ Cardinality({j \in S : j <= a[k]}) = k
    BY <1>4, <2>2
  <2>4. QED
    BY <1>5, <2>3
<1>11. a \in [1..n -> S]
  BY <1>4, <1>10
<1>12. \A i, j \in 1..n : i < j => a[i] < a[j]
  <2>1. SUFFICES ASSUME NEW i \in 1..n, NEW j \in 1..n, i < j PROVE a[i] < a[j]
    OBVIOUS
  <2>2. a[i] \in Int /\ a[j] \in Int /\ i \in Int /\ j \in Int
    <3>1. a[i] \in S /\ a[j] \in S
      BY <1>10, Zenon
    <3>2. i \in Int /\ j \in Int
      BY <1>1
    <3>3. QED
      BY <3>1, <3>2
  <2>3. CASE a[j] = a[i]
    BY <1>10, <2>1, <2>2, <2>3
  <2>4. CASE a[j] < a[i]
    BY <1>1, <1>10, <2>1, <2>2, <2>4
  <2>5. QED
    BY <2>2, <2>3, <2>4
<1>13. \A x \in S : \E i \in 1..n : a[i] = x
  BY <1>1, <1>6, <1>10
<1>14. QED
  BY <1>1, <1>11, <1>12, <1>13 DEF n, a

\* Chosen(s, S) has the elements of s that are in S, and begins with the one
\* that comes first in s.
LEMMA ChosenFacts ==
  ASSUME NEW T, NEW s \in Seq(T), IsInjective(s), NEW S
  PROVE  LET c == Chosen(s, S)
             n == Len(c)
         IN  /\ n \in Nat /\ DOMAIN c = 1..n
             /\ \A k \in 1..n : c[k] \in S /\ \E i \in DOMAIN s : c[k] = s[i]
             /\ \A i \in DOMAIN s : s[i] \in S => \E k \in 1..n : c[k] = s[i]
             /\ \A k, l \in 1..n : c[k] = c[l] => k = l
             /\ \A i \in DOMAIN s :
                  s[i] \in S => \E j \in DOMAIN s : j <= i /\ 1 \in 1..n /\ c[1] = s[j]
<1> DEFINE P == {i \in DOMAIN s : s[i] \in S}
           a == Ascending(P)
           m == Cardinality(P)
           c == Chosen(s, S)
<1>1. P \subseteq Int /\ IsFiniteSet(P)
  <2>1. DOMAIN s = 1..Len(s) /\ Len(s) \in Nat
    OBVIOUS
  <2>2. IsFiniteSet(1..Len(s)) /\ P \in SUBSET (1..Len(s))
    BY <2>1, FS_Interval
  <2>3. QED
    BY <2>2, FS_Subset
<1>2. /\ m \in Nat /\ a \in [1..m -> P]
      /\ \A i, j \in 1..m : i < j => a[i] < a[j]
      /\ \A x \in P : \E i \in 1..m : a[i] = x
  <2> HIDE DEF P
  <2>1. QED
    BY <1>1, AscendingFacts
<1>3. c = [k \in 1..m |-> s[a[k]]]
  BY <1>2 DEF Chosen
<1>4. Len(c) = m /\ DOMAIN c = 1..m
  BY <1>2, <1>3
<1>5. \A k \in 1..m : a[k] \in DOMAIN s /\ s[a[k]] \in S /\ c[k] = s[a[k]]
  BY <1>2, <1>3
<1>6. \A i \in DOMAIN s : s[i] \in S => \E k \in 1..m : a[k] = i
  BY <1>2
<1>7. \A k \in 1..m : a[k] \in Int
  BY <1>1, <1>2
<1> HIDE DEF P, a, m, c
<1>8. \A k, l \in 1..m : c[k] = c[l] => k = l
  <2>1. SUFFICES ASSUME NEW k \in 1..m, NEW l \in 1..m, c[k] = c[l] PROVE k = l
    OBVIOUS
  <2>2. a[k] = a[l]
    BY <1>5, <2>1 DEF IsInjective
  <2>3. QED
    BY <1>2, <1>7, <2>2
<1>9. ASSUME NEW i \in DOMAIN s, s[i] \in S
      PROVE  \E j \in DOMAIN s : j <= i /\ 1 \in 1..m /\ c[1] = s[j]
  <2>1. PICK k \in 1..m : a[k] = i
    BY <1>6, <1>9
  <2>2. 1 \in 1..m
    BY <1>2
  <2>3. a[1] <= a[k]
    BY <1>2, <1>7, <2>2
  <2>4. QED
    BY <1>5, <2>1, <2>2, <2>3
<1>10. QED
  BY <1>2, <1>4, <1>5, <1>6, <1>8, <1>9 DEF c

-----------------------------------------------------------------------------
(* Where -a moves the dimensions of a variable.                            *)

\* At(s, d) is the place of d.
LEMMA AtFacts ==
  ASSUME NEW s, IsInjective(s), NEW i \in DOMAIN s
  PROVE  At(s, s[i]) = i
<1>1. At(s, s[i]) \in DOMAIN s /\ s[At(s, s[i])] = s[i]
  BY DEF At
<1>2. QED
  BY <1>1 DEF IsInjective

\* The places of dimensions that -a names.
Moved(rdr, dmn) == {i \in DOMAIN dmn : dmn[i] \in ToSet(rdr)}

\* The dimensions shared with -a: as many places in the input as there are
\* names, and the same places in ascending order.
LEMMA ShrFacts ==
  ASSUME NEW U, NEW rdr \in Seq(U), IsInjective(rdr),
         NEW T, NEW dmn \in Seq(T), IsInjective(dmn)
  PROVE  LET shr == Shr(rdr, dmn)
             n == Len(shr)
             in == ShrIn(rdr, dmn)
             out == ShrOut(rdr, dmn)
             P == Moved(rdr, dmn)
         IN  /\ n \in Nat /\ DOMAIN shr = 1..n /\ IsInjective(shr)
             /\ in \in [1..n -> P] /\ \A k \in 1..n : dmn[in[k]] = shr[k]
             /\ \A i \in P : \E k \in 1..n : in[k] = i
             /\ \A k, l \in 1..n : in[k] = in[l] => k = l
             /\ Cardinality(P) = n /\ IsFiniteSet(P) /\ P \subseteq Int /\ out = Ascending(P)
<1> DEFINE shr == Shr(rdr, dmn)
           n == Len(shr)
           in == ShrIn(rdr, dmn)
           P == {i \in DOMAIN dmn : dmn[i] \in ToSet(rdr)}
<1>1. /\ n \in Nat /\ DOMAIN shr = 1..n
      /\ \A k \in 1..n : shr[k] \in ToSet(dmn) /\ \E i \in DOMAIN rdr : shr[k] = rdr[i]
      /\ \A i \in DOMAIN rdr : rdr[i] \in ToSet(dmn) => \E k \in 1..n : shr[k] = rdr[i]
      /\ \A k, l \in 1..n : shr[k] = shr[l] => k = l
  BY ChosenFacts DEF Shr
<1>2. in = [k \in 1..n |-> At(dmn, shr[k])]
  BY <1>1 DEF ShrIn
<1> HIDE DEF shr, n, in
<1>3. ASSUME NEW k \in 1..n PROVE in[k] \in P /\ dmn[in[k]] = shr[k]
  <2>1. PICK i \in DOMAIN dmn : dmn[i] = shr[k]
    BY <1>1 DEF ToSet
  <2>2. in[k] = i
    BY <1>2, <2>1, AtFacts
  <2>3. shr[k] \in ToSet(rdr)
    BY <1>1 DEF ToSet
  <2>4. QED
    BY <2>1, <2>2, <2>3
<1>4. in \in [1..n -> P]
  BY <1>2, <1>3
<1>5. ASSUME NEW i \in P PROVE \E k \in 1..n : in[k] = i
  <2>1. PICK j \in DOMAIN rdr : rdr[j] = dmn[i]
    BY DEF ToSet
  <2>2. rdr[j] \in ToSet(dmn)
    BY <2>1 DEF ToSet
  <2>3. PICK k \in 1..n : shr[k] = dmn[i]
    BY <1>1, <2>1, <2>2
  <2>4. in[k] = i
    BY <1>2, <2>3, AtFacts
  <2>5. QED
    BY <2>4
<1>6. \A k, l \in 1..n : in[k] = in[l] => k = l
  BY <1>1, <1>3
<1>7. P \subseteq Int
  OBVIOUS
<1>8. ToSet(in) = P
  BY <1>2, <1>3, <1>5 DEF ToSet
<1>9. Cardinality(P) = n /\ IsFiniteSet(P)
  <2> HIDE DEF P
  <2>1. in \in Bijection(1..n, P)
    <3>1. in \in Injection(1..n, P)
      BY <1>4, <1>6, Zenon DEF Injection, IsInjective
    <3>2. in \in Surjection(1..n, P)
      BY <1>4, <1>5, Zenon DEF Surjection
    <3>3. QED
      BY <3>1, <3>2 DEF Bijection
  <2>2. ExistsBijection(1..n, P)
    BY <2>1 DEF ExistsBijection
  <2>3. IsFiniteSet(1..n) /\ Cardinality(1..n) = n
    BY <1>1, FS_Interval
  <2>4. QED
    BY <2>2, <2>3, FS_Bijection
<1>10. ShrOut(rdr, dmn) = Ascending(P)
  BY <1>8 DEF ShrOut, in
<1>11. IsInjective(shr)
  BY <1>1 DEF IsInjective
<1>12. P = Moved(rdr, dmn)
  BY DEF Moved
<1> HIDE DEF P
<1>13. QED
  BY <1>12, <1>1, <1>3, <1>4, <1>5, <1>6, <1>7, <1>9, <1>10, <1>11 DEF shr, n, in

\* The map from input to output: the k-th of the shared dimensions goes to
\* the k-th of their places, the others stay, and no two meet.
LEMMA InOutFacts ==
  ASSUME NEW U, NEW rdr \in Seq(U), IsInjective(rdr),
         NEW T, NEW dmn \in Seq(T), IsInjective(dmn)
  PROVE  LET D == DOMAIN dmn
             io == InOut(rdr, dmn)
             P == Moved(rdr, dmn)
         IN  /\ io \in [D -> D]
             /\ \A k \in 1..Len(Shr(rdr, dmn)) : io[ShrIn(rdr, dmn)[k]] = ShrOut(rdr, dmn)[k]
             /\ \A i \in D \ P : io[i] = i
             /\ \A i, j \in D : io[i] = io[j] => i = j
             /\ \A o \in D : \E i \in D : io[i] = o
<1> DEFINE shr == Shr(rdr, dmn)
           n == Len(shr)
           in == ShrIn(rdr, dmn)
           out == ShrOut(rdr, dmn)
           D == DOMAIN dmn
           P == Moved(rdr, dmn)
           io == InOut(rdr, dmn)
<1>1. /\ n \in Nat /\ DOMAIN shr = 1..n /\ IsInjective(shr)
      /\ in \in [1..n -> P] /\ \A k \in 1..n : dmn[in[k]] = shr[k]
      /\ \A i \in P : \E k \in 1..n : in[k] = i
      /\ \A k, l \in 1..n : in[k] = in[l] => k = l
      /\ Cardinality(P) = n /\ IsFiniteSet(P) /\ P \subseteq Int /\ out = Ascending(P)
  BY ShrFacts
<1>2. P \subseteq D
  BY DEF Moved
<1> HIDE DEF P, Moved
<1>3. /\ out \in [1..n -> P]
      /\ \A i, j \in 1..n : i < j => out[i] < out[j]
      /\ \A x \in P : \E i \in 1..n : out[i] = x
  <2> HIDE DEF n, out, in, shr
  <2>1. P \subseteq Int /\ IsFiniteSet(P) /\ Cardinality(P) = n /\ out = Ascending(P)
    BY <1>1
  <2>2. QED
    BY <2>1, AscendingFacts
<1>4. \A k, l \in 1..n : out[k] = out[l] => k = l
  <2>1. SUFFICES ASSUME NEW k \in 1..n, NEW l \in 1..n, out[k] = out[l] PROVE k = l
    OBVIOUS
  <2> HIDE DEF n, out, shr
  <2>2. out[k] \in P /\ out[l] \in P
    BY <1>3
  <2>3. out[k] \in Int /\ out[l] \in Int
    BY <1>1, <2>2
  <2>4. k \in Int /\ l \in Int
    BY <1>1
  <2>5. QED
    BY <1>3, <2>1, <2>3, <2>4
<1>5. io = [i \in D |-> IF Contains(shr, dmn[i]) THEN out[At(shr, dmn[i])] ELSE i]
  BY DEF InOut
<1> HIDE DEF shr, n, in, out, io
<1>6. \A k \in 1..n : in[k] \in P /\ in[k] \in D /\ io[in[k]] = out[k]
  <2>1. SUFFICES ASSUME NEW k \in 1..n PROVE in[k] \in P /\ in[k] \in D /\ io[in[k]] = out[k]
    OBVIOUS
  <2>2. in[k] \in P /\ in[k] \in D /\ dmn[in[k]] = shr[k]
    BY <1>1, <1>2
  <2>3. At(shr, shr[k]) = k
    BY <1>1, AtFacts
  <2>4. Contains(shr, shr[k])
    BY <1>1 DEF Contains, n
  <2>5. QED
    BY <1>5, <2>2, <2>3, <2>4
<1>7. \A i \in D \ P : io[i] = i
  <2>1. SUFFICES ASSUME NEW i \in D \ P PROVE ~Contains(shr, dmn[i])
    BY <1>5
  <2>2. SUFFICES ASSUME NEW k \in 1..n, shr[k] = dmn[i] PROVE FALSE
    BY DEF Contains, n
  <2>3. in[k] \in P /\ dmn[in[k]] = dmn[i] /\ in[k] \in D
    BY <1>1, <1>2, <2>2
  <2>4. QED
    BY <2>3 DEF IsInjective
<1>8. \A i \in P : \E k \in 1..n : in[k] = i /\ io[i] = out[k] /\ out[k] \in P
  <2>1. SUFFICES ASSUME NEW i \in P
                 PROVE  \E k \in 1..n : in[k] = i /\ io[i] = out[k] /\ out[k] \in P
    OBVIOUS
  <2>2. PICK k \in 1..n : in[k] = i
    BY <1>1, Zenon
  <2>3. io[i] = out[k] /\ out[k] \in P
    BY <1>3, <1>6, <2>2
  <2>4. QED
    BY <2>2, <2>3
<1>9. io \in [D -> D]
  BY <1>2, <1>5, <1>7, <1>8
<1>10. \A i, j \in D : io[i] = io[j] => i = j
  <2>1. SUFFICES ASSUME NEW i \in D, NEW j \in D, io[i] = io[j] PROVE i = j
    OBVIOUS
  <2>2. CASE i \in P /\ j \in P
    BY <1>4, <1>8, <2>1, <2>2
  <2>3. CASE i \notin P \/ j \notin P
    BY <1>7, <1>8, <2>1, <2>3
  <2>4. QED
    BY <2>2, <2>3
<1>11. \A o \in D : \E i \in D : io[i] = o
  <2>1. SUFFICES ASSUME NEW o \in D PROVE \E i \in D : io[i] = o
    OBVIOUS
  <2>2. CASE o \in P
    <3>1. PICK k \in 1..n : out[k] = o
      BY <1>3, <2>2
    <3>2. QED
      BY <1>6, <3>1
  <2>3. CASE o \notin P
    BY <1>7, <2>3
  <2>4. QED
    BY <2>2, <2>3
<1>12. QED
  BY <1>6, <1>7, <1>9, <1>10, <1>11 DEF P, shr, n, in, out, io

\* The dimensions of the output: those of the input on other places, those
\* without -a on their own, the others in the order of -a.
LEMMA OutFacts ==
  ASSUME NEW U, NEW rdr \in Seq(U), IsInjective(rdr),
         NEW T, NEW dmn \in Seq(T), IsInjective(dmn)
  PROVE  LET D == DOMAIN dmn
             map == OutIn(rdr, dmn)
             out == OutDim(rdr, dmn)
         IN  /\ map \in [D -> D] /\ IsInjective(map) /\ \A i \in D : \E o \in D : map[o] = i
             /\ out = [o \in D |-> dmn[map[o]]]
             /\ \A i \in D : dmn[i] \notin ToSet(rdr) => out[i] = dmn[i]
             /\ Chosen(out, ToSet(rdr)) = Shr(rdr, dmn)
             /\ Len(dmn) < 2 => map = [i \in D |-> i]
<1> DEFINE shr == Shr(rdr, dmn)
           n == Len(shr)
           in == ShrIn(rdr, dmn)
           so == ShrOut(rdr, dmn)
           D == DOMAIN dmn
           P == Moved(rdr, dmn)
           io == InOut(rdr, dmn)
           map == OutIn(rdr, dmn)
           out == OutDim(rdr, dmn)
           Q == {o \in D : out[o] \in ToSet(rdr)}
<1>1. /\ n \in Nat /\ DOMAIN shr = 1..n /\ IsInjective(shr)
      /\ in \in [1..n -> P] /\ \A k \in 1..n : dmn[in[k]] = shr[k]
      /\ \A i \in P : \E k \in 1..n : in[k] = i
      /\ \A k, l \in 1..n : in[k] = in[l] => k = l
      /\ Cardinality(P) = n /\ IsFiniteSet(P) /\ P \subseteq Int /\ so = Ascending(P)
  BY ShrFacts
<1>2. /\ io \in [D -> D]
      /\ \A k \in 1..n : io[in[k]] = so[k]
      /\ \A i \in D \ P : io[i] = i
      /\ \A i, j \in D : io[i] = io[j] => i = j
      /\ \A o \in D : \E i \in D : io[i] = o
  BY InOutFacts
<1>3. P \subseteq D /\ Len(dmn) \in Nat /\ D = 1..Len(dmn)
  BY DEF Moved
<1>4. /\ so \in [1..n -> P]
      /\ \A x \in P : \E i \in 1..n : so[i] = x
  <2> HIDE DEF n, so, P, in, shr
  <2>1. P \subseteq Int /\ IsFiniteSet(P) /\ Cardinality(P) = n /\ so = Ascending(P)
    BY <1>1
  <2>2. QED
    BY <2>1, AscendingFacts
<1>5. out = [o \in D |-> dmn[map[o]]]
  BY DEF OutDim
<1>6. map = IF n < 2 THEN [i \in D |-> i] ELSE [o \in D |-> CHOOSE i \in D : io[i] = o]
  BY DEF OutIn
<1>10. Chosen(out, ToSet(rdr)) =
         [k \in DOMAIN Ascending(Q) |-> out[Ascending(Q)[k]]]
  <2>1. {o \in DOMAIN out : out[o] \in ToSet(rdr)} = Q
    BY <1>5
  <2> HIDE DEF out, Q
  <2>2. QED
    BY <2>1 DEF Chosen
<1> HIDE DEF shr, n, in, so, P, io, map, out, Q, D
<1>7. CASE n < 2
  <2>1. map = [i \in D |-> i]
    BY <1>6, <1>7
  <2>2. \A i \in D : map[i] = i /\ out[i] = dmn[i]
    BY <1>5, <2>1
  <2>3. Q = P
    BY <2>2 DEF Q, P, D, Moved
  <2>4. Chosen(out, ToSet(rdr)) = [k \in DOMAIN so |-> out[so[k]]]
    BY <1>1, <1>10, <2>3
  <2>5. n = 0 \/ n = 1
    BY <1>1, <1>7
  <2>6. \A k \in 1..n : out[so[k]] = shr[k]
    <3>1. SUFFICES ASSUME NEW k \in 1..n PROVE out[so[k]] = shr[k]
      OBVIOUS
    <3>2. k = 1 /\ n = 1
      BY <2>5
    <3>3. so[1] \in P /\ in[1] \in P
      BY <1>1, <1>4, <3>2
    <3>4. PICK l \in 1..n : in[l] = so[1]
      BY <1>1, <3>3
    <3>5. l = 1
      BY <3>2
    <3>6. in[1] = so[1] /\ dmn[in[1]] = shr[1]
      BY <1>1, <3>2, <3>4, <3>5
    <3>7. out[so[1]] = dmn[so[1]]
      BY <1>3, <2>2, <3>3
    <3>8. QED
      BY <3>2, <3>6, <3>7
  <2>7. Chosen(out, ToSet(rdr)) = [k \in 1..n |-> shr[k]]
    BY <1>4, <2>4, <2>6
  <2>8. shr = [k \in 1..n |-> shr[k]]
    BY <1>1 DEF shr, Shr, Chosen
  <2>9. /\ map \in [D -> D] /\ IsInjective(map) /\ \A i \in D : \E o \in D : map[o] = i
    BY <2>1 DEF IsInjective
  <2>10. QED
    BY <1>5, <2>1, <2>2, <2>7, <2>8, <2>9 DEF shr, n, map, out, D
<1>8. CASE ~(n < 2)
  <2>1. \A o \in D : map[o] \in D /\ io[map[o]] = o
    BY <1>2, <1>6, <1>8
  <2>2. \A i \in D : map[io[i]] = i /\ io[i] \in D
    BY <1>2, <2>1
  <2>3. map \in [D -> D]
    BY <1>6, <1>8, <2>1
  <2>4. IsInjective(map)
    BY <2>1, <2>3 DEF IsInjective
  <2>5. \A i \in D : \E o \in D : map[o] = i
    BY <2>2
  <2>6. \A k \in 1..n : so[k] \in P /\ map[so[k]] = in[k] /\ out[so[k]] = shr[k]
    <3>1. SUFFICES ASSUME NEW k \in 1..n
                   PROVE  so[k] \in P /\ map[so[k]] = in[k] /\ out[so[k]] = shr[k]
      OBVIOUS
    <3>2. so[k] \in P /\ in[k] \in P /\ so[k] \in D /\ in[k] \in D
      BY <1>1, <1>3, <1>4
    <3>3. map[so[k]] = in[k]
      BY <1>2, <2>2, <3>2
    <3>4. dmn[in[k]] = shr[k]
      BY <1>1
    <3>5. QED
      BY <1>5, <3>2, <3>3, <3>4
  <2>7. \A o \in D \ P : map[o] = o /\ out[o] = dmn[o]
    BY <1>2, <1>5, <2>2
  <2>8. Q = P
    <3>1. ASSUME NEW o \in D, o \in P PROVE out[o] \in ToSet(rdr)
      <4>1. PICK k \in 1..n : so[k] = o
        BY <1>4, <3>1
      <4>2. out[o] = dmn[in[k]] /\ in[k] \in P
        BY <1>1, <2>6, <4>1
      <4>3. QED
        BY <4>2 DEF P, Moved
    <3>2. ASSUME NEW o \in D, o \notin P PROVE out[o] \notin ToSet(rdr)
      <4>1. dmn[o] \notin ToSet(rdr)
        BY <3>2 DEF P, Moved, D
      <4>2. QED
        BY <2>7, <3>2, <4>1
    <3>3. QED
      BY <1>3, <1>5, <3>1, <3>2 DEF Q
  <2>9. Chosen(out, ToSet(rdr)) = [k \in DOMAIN so |-> out[so[k]]]
    BY <1>1, <1>10, <2>8
  <2>10. Chosen(out, ToSet(rdr)) = [k \in 1..n |-> shr[k]]
    BY <1>4, <2>6, <2>9
  <2>11. shr = [k \in 1..n |-> shr[k]]
    BY <1>1 DEF shr, Shr, Chosen
  <2>12. \A i \in D : dmn[i] \notin ToSet(rdr) => out[i] = dmn[i]
    BY <2>7 DEF P, Moved
  <2>13. ~(Len(dmn) < 2)
    <3>1. 1 \in 1..n /\ 2 \in 1..n
      BY <1>1, <1>8
    <3>2. in[1] \in P /\ in[2] \in P /\ in[1] # in[2]
      BY <1>1, <3>1
    <3>3. in[1] \in 1..Len(dmn) /\ in[2] \in 1..Len(dmn)
      BY <1>3, <3>2
    <3>4. QED
      BY <1>3, <3>2, <3>3
  <2>14. QED
    BY <1>5, <2>3, <2>4, <2>5, <2>10, <2>11, <2>12, <2>13 DEF shr, n, map, out, D
<1>9. QED
  BY <1>7, <1>8

-----------------------------------------------------------------------------
(* One variable.                                                           *)

Var(v) == dr_rqs.vars[v]
Map(v) == OutIn(dr_rqs.rdr, Var(v))
Out(v) == OutDim(dr_rqs.rdr, Var(v))
Lead(v) == Out(v)[1]

\* What is known of a variable of the input.
LEMMA VarFacts ==
  ASSUME IsRequest(dr_rqs), NEW v \in VarIdx
  PROVE  /\ Var(v) \in Seq(ToSet(Var(v))) /\ IsInjective(Var(v))
         /\ Len(Var(v)) \in Nat /\ DOMAIN Var(v) = 1..Len(Var(v))
         /\ NoDmn \notin ToSet(Var(v))
         /\ \A i \in DOMAIN Var(v) : Var(v)[i] = dr_rqs.rec => i = 1
         /\ \A d : Has(v, d) <=> d \in ToSet(Var(v))
<1>1. /\ Var(v) \in Seq(ToSet(Var(v))) /\ IsInjective(Var(v))
      /\ NoDmn \notin ToSet(Var(v))
      /\ \A i \in DOMAIN Var(v) : Var(v)[i] = dr_rqs.rec => i = 1
  BY DEF IsRequest, VarIdx, Var
<1>2. Len(Var(v)) \in Nat /\ DOMAIN Var(v) = 1..Len(Var(v))
  BY <1>1
<1>3. \A d : Has(v, d) <=> d \in ToSet(Var(v))
  BY <1>2 DEF Has, Contains, ToSet, Var
<1>4. QED
  BY <1>1, <1>2, <1>3

\* The dimensions of the output are those of the input.
LEMMA OutVar ==
  ASSUME IsRequest(dr_rqs), NEW v \in VarIdx
  PROVE  /\ Map(v) \in [DOMAIN Var(v) -> DOMAIN Var(v)] /\ IsInjective(Map(v))
         /\ \A i \in DOMAIN Var(v) : \E o \in DOMAIN Var(v) : Map(v)[o] = i
         /\ Out(v) = [o \in DOMAIN Var(v) |-> Var(v)[Map(v)[o]]]
         /\ Len(Out(v)) = Len(Var(v)) /\ IsInjective(Out(v))
         /\ ToSet(Out(v)) = ToSet(Var(v))
         /\ Len(Var(v)) < 2 => Map(v) = [i \in DOMAIN Var(v) |-> i]
         /\ Arranged(v, Out(v))
<1> DEFINE dmn == Var(v)
           D == DOMAIN dmn
           map == Map(v)
           out == Out(v)
<1>1. /\ dmn \in Seq(ToSet(dmn)) /\ IsInjective(dmn)
      /\ Len(dmn) \in Nat /\ D = 1..Len(dmn)
  BY VarFacts
<1>2. /\ map \in [D -> D] /\ IsInjective(map) /\ \A i \in D : \E o \in D : map[o] = i
      /\ out = [o \in D |-> dmn[map[o]]]
      /\ \A i \in D : dmn[i] \notin ToSet(dr_rqs.rdr) => out[i] = dmn[i]
      /\ Chosen(out, ToSet(dr_rqs.rdr)) = Shr(dr_rqs.rdr, dmn)
      /\ Len(dmn) < 2 => map = [i \in D |-> i]
  <2>1. dr_rqs.rdr \in Seq(ToSet(dr_rqs.rdr)) /\ IsInjective(dr_rqs.rdr)
    BY DEF IsRequest
  <2> HIDE DEF dmn
  <2>2. QED
    BY <1>1, <2>1, OutFacts DEF Map, Out, dmn
<1> HIDE DEF dmn, map, out
<1>3. Len(out) = Len(dmn)
  BY <1>1, <1>2
<1>4. IsInjective(out)
  BY <1>1, <1>2 DEF IsInjective
<1>5. ToSet(out) = ToSet(dmn)
  <2>1. \A o \in D : out[o] = dmn[map[o]] /\ map[o] \in D
    BY <1>2
  <2>2. \A i \in D : \E o \in D : out[o] = dmn[i]
    BY <1>2, <2>1
  <2>3. DOMAIN out = D
    BY <1>2
  <2>4. QED
    BY <2>1, <2>2, <2>3 DEF ToSet
<1>6. Arranged(v, out)
  <2>1. \A i \in D : ~Contains(dr_rqs.rdr, dmn[i]) => dmn[i] \notin ToSet(dr_rqs.rdr)
    <3>1. dr_rqs.rdr \in Seq(ToSet(dr_rqs.rdr))
      BY DEF IsRequest
    <3>2. QED
      BY <3>1 DEF Contains, ToSet
  <2>2. DOMAIN out = D
    BY <1>2
  <2>3. Chosen(out, ToSet(dr_rqs.rdr)) = Asked(v)
    BY <1>2 DEF Asked, Shr, dmn, Var
  <2>4. QED
    BY <1>2, <2>1, <2>2, <2>3 DEF Arranged, dmn, Var
<1>7. QED
  BY <1>1, <1>2, <1>3, <1>4, <1>5, <1>6 DEF dmn, map, out

\* A record variable requires what leads its output.
LEMMA RequiresFacts ==
  ASSUME IsRequest(dr_rqs), NEW v \in VarIdx, Has(v, dr_rqs.rec)
  PROVE  /\ Requires(v) = {Lead(v)} \ {dr_rqs.rec}
         /\ 1 \in DOMAIN Var(v) /\ Var(v)[1] = dr_rqs.rec
         /\ Lead(v) # dr_rqs.rec =>
              /\ 1 < Len(Var(v)) /\ Lead(v) \in ToSet(Var(v))
              /\ Contains(dr_rqs.rdr, dr_rqs.rec)
<1> DEFINE dmn == Var(v)
           rdr == dr_rqs.rdr
<1>1. /\ dmn \in Seq(ToSet(dmn)) /\ IsInjective(dmn)
      /\ Len(dmn) \in Nat /\ DOMAIN dmn = 1..Len(dmn)
      /\ \A i \in DOMAIN dmn : dmn[i] = dr_rqs.rec => i = 1
  BY VarFacts
<1>2. rdr \in Seq(ToSet(rdr)) /\ IsInjective(rdr)
  BY DEF IsRequest
<1>3. 1 \in DOMAIN dmn /\ dmn[1] = dr_rqs.rec /\ 1 \in 1..Len(dmn)
  <2>1. PICK i \in DOMAIN dmn : dmn[i] = dr_rqs.rec
    BY <1>1, VarFacts DEF ToSet
  <2>2. QED
    BY <1>1, <2>1
<1>4. /\ Map(v) \in [DOMAIN dmn -> DOMAIN dmn]
      /\ Out(v) = [o \in DOMAIN dmn |-> dmn[Map(v)[o]]]
      /\ Len(dmn) < 2 => Map(v) = [i \in DOMAIN dmn |-> i]
      /\ Arranged(v, Out(v)) /\ IsInjective(Out(v))
  BY OutVar
<1> HIDE DEF dmn, rdr
<1>5. Lead(v) = Out(v)[1] /\ Out(v)[1] \in ToSet(dmn)
  BY <1>1, <1>3, <1>4 DEF Lead, dmn, ToSet
<1>6. Out(v)[1] # dr_rqs.rec => 1 < Len(dmn)
  BY <1>1, <1>3, <1>4
<1>7. CASE ~Contains(rdr, dr_rqs.rec)
  <2>1. Out(v)[1] = dmn[1]
    BY <1>3, <1>4, <1>7 DEF Arranged, dmn, Var, rdr
  <2>2. Requires(v) = {}
    BY <1>7 DEF Requires, rdr
  <2>3. QED
    BY <1>3, <1>5, <2>1, <2>2 DEF dmn
<1>8. CASE Contains(rdr, dr_rqs.rec)
  <2>1. Requires(v) = {Asked(v)[1]} \ {dr_rqs.rec}
    BY <1>8 DEF Requires, rdr
  <2>2. Chosen(Out(v), ToSet(rdr)) = Asked(v)
    BY <1>4 DEF Arranged, rdr
  <2>3. Asked(v)[1] = Out(v)[1]
    <3> DEFINE out == Out(v)
    <3>1. out \in Seq(ToSet(dmn)) /\ DOMAIN out = DOMAIN dmn /\ IsInjective(out)
      BY <1>1, <1>4 DEF ToSet
    <3>2. out[1] \in ToSet(rdr)
      <4>1. SUFFICES ASSUME out[1] \notin ToSet(rdr) PROVE FALSE
        OBVIOUS
      <4>2. PICK i \in DOMAIN dmn : out[1] = dmn[i]
        BY <1>3, <1>4
      <4>3. ~Contains(rdr, dmn[i])
        BY <1>2, <4>1, <4>2 DEF Contains, ToSet
      <4>4. out[i] = dmn[i]
        BY <1>4, <3>1, <4>2, <4>3 DEF Arranged, dmn, Var, rdr
      <4>5. i = 1
        BY <1>3, <1>4, <3>1, <4>2, <4>4 DEF IsInjective
      <4>6. QED
        BY <1>3, <1>8, <4>3, <4>5
    <3>3. PICK j \in DOMAIN out : j <= 1 /\ Chosen(out, ToSet(rdr))[1] = out[j]
      <4> HIDE DEF out
      <4>1. QED
        BY <1>3, <3>1, <3>2, ChosenFacts
    <3>4. j = 1
      BY <1>1, <3>1, <3>3
    <3>5. QED
      BY <2>2, <3>3, <3>4
  <2>4. QED
    BY <1>3, <1>5, <1>6, <1>8, <2>1, <2>3 DEF dmn, rdr
<1>9. QED
  BY <1>7, <1>8

\* It is the first of -a among its dimensions.
LEMMA LeadIsFirst ==
  ASSUME IsRequest(dr_rqs), NEW v \in VarIdx, Has(v, dr_rqs.rec),
         Contains(dr_rqs.rdr, dr_rqs.rec)
  PROVE  \E j \in DOMAIN dr_rqs.rdr :
           /\ dr_rqs.rdr[j] = Lead(v)
           /\ \A i \in DOMAIN dr_rqs.rdr : Has(v, dr_rqs.rdr[i]) => j <= i
<1> DEFINE rdr == dr_rqs.rdr
           S == ToSet(Var(v))
<1>1. rdr \in Seq(ToSet(rdr)) /\ IsInjective(rdr) /\ DOMAIN rdr = 1..Len(rdr)
  BY DEF IsRequest
<1>2. Requires(v) = {Lead(v)} \ {dr_rqs.rec}
  BY RequiresFacts
<1>3. Requires(v) = {Chosen(rdr, S)[1]} \ {dr_rqs.rec}
  BY DEF Requires, Asked, Var
<1>4. Lead(v) = Chosen(rdr, S)[1]
  BY <1>2, <1>3
<1>5. \A d : Has(v, d) <=> d \in S
  BY VarFacts
<1> HIDE DEF rdr, S
<1>6. \A i \in DOMAIN rdr :
        rdr[i] \in S => \E j \in DOMAIN rdr : j <= i /\ Chosen(rdr, S)[1] = rdr[j]
  <2>1. SUFFICES ASSUME NEW i \in DOMAIN rdr, rdr[i] \in S
                 PROVE  \E j \in DOMAIN rdr : j <= i /\ Chosen(rdr, S)[1] = rdr[j]
    OBVIOUS
  <2>2. rdr \in Seq(ToSet(rdr)) /\ IsInjective(rdr)
    BY <1>1
  <2>3. QED
    BY <2>1, <2>2, ChosenFacts
<1>7. PICK i \in DOMAIN rdr : rdr[i] = dr_rqs.rec
  BY <1>1 DEF Contains, rdr
<1>8. PICK j \in DOMAIN rdr : Lead(v) = rdr[j]
  BY <1>4, <1>5, <1>6, <1>7
<1>9. \A k \in DOMAIN rdr : rdr[k] \in S => j <= k
  BY <1>1, <1>4, <1>6, <1>8 DEF IsInjective
<1>10. QED
  BY <1>5, <1>8, <1>9 DEF rdr

Wants(v) == Has(v, dr_rqs.rec) /\ Lead(v) # dr_rqs.rec

\* What the variables require together.
LEMMA Wishes ==
  ASSUME IsRequest(dr_rqs)
  PROVE  \A x : x \in UNION {Requires(v) : v \in VarIdx} <=>
               \E v \in VarIdx : Wants(v) /\ x = Lead(v)
<1>1. \A u \in VarIdx : Requires(u) = IF Wants(u) THEN {Lead(u)} ELSE {}
  <2>1. SUFFICES ASSUME NEW u \in VarIdx
                 PROVE  Requires(u) = IF Wants(u) THEN {Lead(u)} ELSE {}
    OBVIOUS
  <2>2. CASE Has(u, dr_rqs.rec)
    <3>1. Requires(u) = {Lead(u)} \ {dr_rqs.rec}
      BY <2>2, RequiresFacts
    <3>2. QED
      BY <2>2, <3>1 DEF Wants
  <2>3. CASE ~Has(u, dr_rqs.rec)
    BY <2>3 DEF Wants, Requires
  <2>4. QED
    BY <2>2, <2>3
<1>2. QED
  BY <1>1

\* All record variables that require another record dimension require the
\* same.
Agree == \A v, w \in VarIdx : Wants(v) /\ Wants(w) => Lead(v) = Lead(w)

\* So it is without a conflict.
LEMMA OneWish ==
  ASSUME IsRequest(dr_rqs), ~Conflict
  PROVE  Agree
<1> DEFINE W == {u \in VarIdx : Wants(u)}
           U == UNION {Requires(u) : u \in VarIdx}
           f == [u \in W |-> Lead(u)]
<1>1. \A x : x \in U <=> \E u \in W : x = Lead(u)
  BY Wishes
<1>2. IsFiniteSet(W)
  <2>1. dr_rqs.vars \in Seq(ToSet(dr_rqs.vars))
    BY DEF IsRequest
  <2>2. VarIdx = 1..Len(dr_rqs.vars) /\ Len(dr_rqs.vars) \in Nat
    BY <2>1 DEF VarIdx
  <2>3. IsFiniteSet(VarIdx)
    BY <2>2, FS_Interval
  <2>4. W \in SUBSET VarIdx
    OBVIOUS
  <2>5. QED
    BY <2>3, <2>4, FS_Subset
<1>3. \A v \in VarIdx : Wants(v) => v \in W
  OBVIOUS
<1> HIDE DEF W, U
<1>4. IsFiniteSet(U)
  <2>1. f \in Surjection(W, U)
    BY <1>1 DEF Surjection
  <2>2. QED
    BY <1>2, <2>1, FS_Surjection
<1>5. ASSUME NEW x \in U, NEW y \in U PROVE x = y
  <2>1. SUFFICES ASSUME x # y PROVE FALSE
    OBVIOUS
  <2>2. IsFiniteSet({x}) /\ Cardinality({x}) = 1
    BY FS_Singleton
  <2>3. Cardinality({x} \cup {y}) = 2
    BY <2>1, <2>2, FS_AddElement
  <2>4. ({x} \cup {y}) \in SUBSET U
    BY <1>5
  <2>5. Cardinality({x} \cup {y}) <= Cardinality(U)
    BY <1>4, <2>4, FS_Subset
  <2>6. Cardinality(U) \in Nat
    BY <1>4, FS_CardinalityType
  <2>7. Cardinality(U) > 1
    BY <2>3, <2>5, <2>6
  <2>8. QED
    BY <2>7 DEF Conflict, U
<1>6. QED
  BY <1>1, <1>3, <1>5 DEF Agree

-----------------------------------------------------------------------------
(* The map of a variable after the new record dimension n has moved to its *)
(* head, and the dimensions that result.                                   *)

NamOK(n) ==
  IF n = NoDmn THEN \A v \in VarIdx : ~Wants(v)
  ELSE \E v \in VarIdx : Wants(v) /\ Lead(v) = n
Joins(v, n) == n # NoDmn /\ ~Has(v, dr_rqs.rec) /\ Has(v, n)
Final(v, n) ==
  LET map == Map(v)
      p == At(Out(v), n)
  IN  IF Joins(v, n) THEN [[map EXCEPT ![1] = p] EXCEPT ![p] = map[1]] ELSE map
FinalDim(v, n) == [o \in DOMAIN Var(v) |-> Var(v)[Final(v, n)[o]]]
Top(n) == IF n = NoDmn THEN dr_rqs.rec ELSE n
Unl(d, n) ==
  IF n = NoDmn THEN d = dr_rqs.rec
  ELSE d = n \/ (d = dr_rqs.rec /\ dr_rqs.nc4 /\ dr_rqs.mrd)

\* If the map is still one-to-one after that, the two have changed places.
LEMMA JoinFacts ==
  ASSUME IsRequest(dr_rqs), NEW v \in VarIdx, NEW n, Joins(v, n), IsInjective(Final(v, n))
  PROVE  LET out == Out(v)
             p == At(out, n)
         IN  /\ p \in DOMAIN Var(v) /\ 1 \in DOMAIN Var(v) /\ out[p] = n
             /\ FinalDim(v, n) = [i \in DOMAIN Var(v) |-> IF i = 1 THEN out[p]
                                                          ELSE IF i = p THEN out[1] ELSE out[i]]
<1> DEFINE dmn == Var(v)
           D == DOMAIN dmn
           map == Map(v)
           out == Out(v)
           p == At(out, n)
           fin == Final(v, n)
<1>1. /\ map \in [D -> D] /\ IsInjective(map) /\ \A i \in D : \E o \in D : map[o] = i
      /\ out = [o \in D |-> dmn[map[o]]] /\ IsInjective(out)
      /\ ToSet(out) = ToSet(dmn)
  BY OutVar
<1>2. D = 1..Len(dmn) /\ Len(dmn) \in Nat /\ IsInjective(dmn)
  BY VarFacts
<1>3. n \in ToSet(out)
  BY <1>1, VarFacts DEF Joins
<1>4. fin = [[map EXCEPT ![1] = p] EXCEPT ![p] = map[1]]
  BY DEF Final
<1>5. FinalDim(v, n) = [o \in D |-> dmn[fin[o]]]
  BY DEF FinalDim
<1>6. IsInjective(fin)
  OBVIOUS
<1> HIDE DEF dmn, D, map, out, fin
<1>7. PICK q \in D : out[q] = n
  BY <1>1, <1>3 DEF ToSet
<1>8. p = q /\ p \in D /\ out[p] = n
  <2>1. DOMAIN out = D
    BY <1>1
  <2>2. At(out, out[q]) = q
    BY <1>1, <2>1, AtFacts
  <2>3. QED
    BY <1>7, <2>2
<1>9. 1 \in D
  BY <1>2, <1>8
<1> HIDE DEF p
<1>10. DOMAIN fin = D /\ fin[p] = map[1] /\ \A o \in D : o # 1 /\ o # p => fin[o] = map[o]
  BY <1>1, <1>4, <1>8, <1>9
<1>11. p # 1 => fin[1] = p
  BY <1>1, <1>4, <1>8, <1>9
<1>12. p # 1 => map[p] = p
  <2>1. SUFFICES ASSUME p # 1 PROVE map[p] = p
    OBVIOUS
  <2>2. PICK k \in D : map[k] = p
    BY <1>1, <1>8
  <2>3. k = 1 => fin[p] = fin[1]
    BY <1>10, <1>11, <2>1, <2>2
  <2>4. k # 1
    BY <1>6, <1>8, <1>9, <1>10, <2>1, <2>3 DEF IsInjective
  <2>5. k # p => fin[k] = fin[1]
    BY <1>10, <1>11, <2>1, <2>2, <2>4
  <2>6. k = p
    BY <1>6, <1>9, <1>10, <2>4, <2>5 DEF IsInjective
  <2>7. QED
    BY <2>2, <2>6
<1>13. \A i \in D : dmn[fin[i]] = IF i = 1 THEN out[p] ELSE IF i = p THEN out[1] ELSE out[i]
  <2>1. SUFFICES ASSUME NEW i \in D
                 PROVE  dmn[fin[i]] = IF i = 1 THEN out[p] ELSE IF i = p THEN out[1] ELSE out[i]
    OBVIOUS
  <2>2. \A o \in D : out[o] = dmn[map[o]]
    BY <1>1
  <2>3. CASE i = 1
    BY <1>8, <1>9, <1>10, <1>11, <1>12, <2>2, <2>3
  <2>4. CASE i # 1
    BY <1>8, <1>9, <1>10, <2>2, <2>4
  <2>5. QED
    BY <2>3, <2>4
<1>14. QED
  BY <1>5, <1>8, <1>9, <1>13 DEF dmn, D, out, p

\* The record dimension is nowhere but at the head.
LEMMA TopFirst ==
  ASSUME IsRequest(dr_rqs), Agree, NEW n, NamOK(n), NEW v \in VarIdx,
         IsInjective(Final(v, n)), NEW o \in DOMAIN Var(v), FinalDim(v, n)[o] = Top(n)
  PROVE  o = 1
<1> DEFINE dmn == Var(v)
           D == DOMAIN dmn
           out == Out(v)
<1>1. /\ Map(v) \in [D -> D] /\ out = [i \in D |-> dmn[Map(v)[i]]]
      /\ IsInjective(out) /\ ToSet(out) = ToSet(dmn)
  BY OutVar
<1>2. \A d : Has(v, d) <=> d \in ToSet(dmn)
  BY VarFacts
<1>3. Has(v, dr_rqs.rec) => 1 \in D
  BY RequiresFacts
<1>4. CASE Joins(v, n)
  <2> DEFINE p == At(out, n)
  <2>1. /\ p \in D /\ 1 \in D /\ out[p] = n
        /\ FinalDim(v, n) = [i \in D |-> IF i = 1 THEN out[p]
                                         ELSE IF i = p THEN out[1] ELSE out[i]]
    BY <1>4, JoinFacts
  <2>2. Top(n) = n
    BY <1>4 DEF Top, Joins
  <2> HIDE DEF out, p, D
  <2>3. o \in D /\ FinalDim(v, n)[o] = n
    BY <2>2 DEF D
  <2>4. SUFFICES ASSUME o # 1 PROVE FALSE
    OBVIOUS
  <2>5. DOMAIN out = D
    BY <1>1 DEF out, D
  <2>6. CASE o = p
    BY <1>1, <2>1, <2>3, <2>4, <2>5, <2>6 DEF IsInjective
  <2>7. CASE o # p
    BY <1>1, <2>1, <2>3, <2>4, <2>5, <2>7 DEF IsInjective
  <2>8. QED
    BY <2>6, <2>7
<1>5. CASE ~Joins(v, n)
  <2>1. Final(v, n) = Map(v) /\ FinalDim(v, n) = out
    BY <1>1, <1>5 DEF Final, FinalDim
  <2>2. out[o] = Top(n) /\ DOMAIN out = D
    BY <1>1, <2>1
  <2>3. Has(v, Top(n))
    BY <1>1, <1>2, <2>2 DEF ToSet
  <2>4. Has(v, dr_rqs.rec)
    BY <1>5, <2>3 DEF Joins, Top
  <2>5. Lead(v) = Top(n)
    <3>1. CASE n = NoDmn
      BY <2>4, <3>1 DEF NamOK, Wants, Top
    <3>2. CASE n # NoDmn
      <4>1. PICK w \in VarIdx : Wants(w) /\ Lead(w) = n
        BY <3>2 DEF NamOK
      <4>2. Top(n) = n
        BY <3>2 DEF Top
      <4>3. CASE Wants(v)
        BY <4>1, <4>2, <4>3 DEF Agree
      <4>4. CASE ~Wants(v)
        <5>1. Lead(v) = dr_rqs.rec
          BY <2>4, <4>4 DEF Wants
        <5>2. Contains(dr_rqs.rdr, dr_rqs.rec) /\ Has(w, dr_rqs.rec)
          BY <4>1, RequiresFacts DEF Wants
        <5>3. PICK j \in DOMAIN dr_rqs.rdr :
                /\ dr_rqs.rdr[j] = n
                /\ \A i \in DOMAIN dr_rqs.rdr : Has(w, dr_rqs.rdr[i]) => j <= i
          BY <4>1, <5>2, LeadIsFirst
        <5>4. PICK k \in DOMAIN dr_rqs.rdr :
                /\ dr_rqs.rdr[k] = dr_rqs.rec
                /\ \A i \in DOMAIN dr_rqs.rdr : Has(v, dr_rqs.rdr[i]) => k <= i
          BY <2>4, <5>1, <5>2, LeadIsFirst
        <5>5. j <= k /\ k <= j
          BY <2>3, <4>2, <5>2, <5>3, <5>4
        <5>6. DOMAIN dr_rqs.rdr = 1..Len(dr_rqs.rdr)
          BY DEF IsRequest
        <5>7. j = k
          BY <5>5, <5>6
        <5>8. QED
          BY <4>1, <5>3, <5>4, <5>7 DEF Wants
      <4>5. QED
        BY <4>3, <4>4
    <3>3. QED
      BY <3>1, <3>2
  <2>6. out[1] = out[o] /\ 1 \in D
    BY <1>3, <2>2, <2>4, <2>5 DEF Lead
  <2>7. QED
    BY <1>1, <2>2, <2>6 DEF IsInjective
<1>6. QED
  BY <1>4, <1>5

-----------------------------------------------------------------------------
(* The invariant.                                                          *)

\* The new record dimension, once it is chosen.
Nam == IF Redefined THEN RecDmn ELSE NoDmn
NamInv ==
  \A v, w \in VarIdx :
    rec_dmn_nm_out[v] # NoDmn /\ rec_dmn_nm_out[w] # NoDmn =>
      rec_dmn_nm_out[v] = rec_dmn_nm_out[w]

\* Variables are visited in their order; nothing is defined before the loops
\* over the metadata are done.
LoopInv ==
  /\ dr_rqs \in RdrRequests
  /\ dr_pc \in {"mtd", "mrk", "prp", "dfn", "val", "done", "error", "undefined"}
  /\ dr_idx \in VarIdx
  /\ DOMAIN dr_dim = VarIdx /\ DOMAIN is_rec_var = VarIdx
  /\ DOMAIN dmn_idx_out_in = VarIdx /\ DOMAIN rec_dmn_nm_out = VarIdx
  /\ dr_pc \in {"mtd", "mrk", "prp"} => udm = <<>> /\ dr_fl = <<>>
  /\ dr_pc = "prp" => dr_idx = 1

\* The variables before dr_idx have been asked which record dimension they
\* require.
MtdInv ==
  dr_pc = "mtd" =>
    /\ \A v \in VarIdx : is_rec_var[v] = Has(v, dr_rqs.rec)
    /\ \A v \in VarIdx : v < dr_idx => dr_dim[v] = Out(v) /\ dmn_idx_out_in[v] = Map(v)
    /\ \A v \in VarIdx :
         rec_dmn_nm_out[v] # NoDmn => Wants(v) /\ rec_dmn_nm_out[v] = Lead(v)
    /\ Redefined \/ \A v \in VarIdx : v < dr_idx => ~Wants(v)

\* Those before dr_idx have the new record dimension at their head.
MrkInv ==
  dr_pc = "mrk" =>
    /\ NamOK(Nam) /\ \A v \in VarIdx : rec_dmn_nm_out[v] # NoDmn => Wants(v)
    /\ \A v \in VarIdx : v >= dr_idx => /\ is_rec_var[v] = Has(v, dr_rqs.rec)
                                        /\ dr_dim[v] = Out(v) /\ dmn_idx_out_in[v] = Map(v)
    /\ \A v \in VarIdx : v < dr_idx => dmn_idx_out_in[v] = Final(v, Nam)
PrpInv ==
  dr_pc = "prp" =>
    /\ NamOK(Nam) /\ \A v \in VarIdx : rec_dmn_nm_out[v] # NoDmn => Wants(v)
    /\ \A v \in VarIdx : dmn_idx_out_in[v] = Final(v, Nam)

\* Those before dr_idx, or all, are defined.
Dfnd == IF dr_pc = "dfn" THEN dr_idx - 1 ELSE Len(dr_rqs.vars)
FlOK(v, n) ==
  "dmn" \in DOMAIN dr_fl[v] /\ dr_fl[v].dmn = FinalDim(v, n) /\ IsInjective(Final(v, n))
DfnInv ==
  dr_pc \in {"dfn", "val", "done"} =>
    /\ NamOK(Nam)
    /\ \A v \in VarIdx :
         /\ dmn_idx_out_in[v] = Final(v, Nam)
         /\ rec_dmn_nm_out[v] = IF Nam # NoDmn /\ (Has(v, Nam) \/ Has(v, dr_rqs.rec))
                                THEN Nam ELSE NoDmn
    /\ dr_fl = [v \in 1..Dfnd |-> dr_fl[v]] /\ \A v \in 1..Dfnd : FlOK(v, Nam)
    /\ \A d : d \in DOMAIN udm <=> \E v \in 1..Dfnd : Has(v, d)
    /\ \A d \in DOMAIN udm : udm[d] = Unl(d, Nam)
ErrorInv == dr_pc = "error" => ~Agree

RdrInv ==
  LoopInv /\ NamInv /\ MtdInv /\ MrkInv /\ PrpInv /\ DfnInv /\ ErrorInv

-----------------------------------------------------------------------------
(* Every step keeps it.                                                    *)

\* What depends on the request only does not change.
LEMMA Static ==
  ASSUME dr_rqs' = dr_rqs
  PROVE  /\ VarIdx' = VarIdx
         /\ \A v : /\ Map(v)' = Map(v) /\ Out(v)' = Out(v) /\ Lead(v)' = Lead(v)
                   /\ Wants(v)' = Wants(v)
         /\ \A v, d : Has(v, d)' = Has(v, d)
         /\ \A v, n : Final(v, n)' = Final(v, n) /\ FinalDim(v, n)' = FinalDim(v, n)
         /\ \A n : NamOK(n)' = NamOK(n)
         /\ \A d, n : Unl(d, n)' = Unl(d, n)
         /\ Agree' = Agree
<1>1. VarIdx' = VarIdx
  BY DEF VarIdx
<1>2. \A v : Var(v)' = Var(v)
  BY DEF Var
<1>3. \A v : Map(v)' = Map(v) /\ Out(v)' = Out(v)
  BY DEF Map, Out, Var
<1>4. \A v : Lead(v)' = Lead(v)
  BY DEF Lead, Out, Var
<1>5. \A v, d : Has(v, d)' = Has(v, d)
  BY DEF Has
<1>6. \A v : Wants(v)' = Wants(v)
  BY DEF Wants, Has, Lead, Out, Var
<1>7. \A v, n : Final(v, n)' = Final(v, n)
  BY DEF Final, Map, Out, Var, Joins, Has
<1>8. \A v, n : FinalDim(v, n)' = FinalDim(v, n)
  BY DEF FinalDim, Final, Map, Out, Var, Joins, Has
<1>9. \A n : NamOK(n)' = NamOK(n)
  BY <1>1 DEF NamOK, Wants, Has, Lead, Out, Var
<1>10. \A d, n : Unl(d, n)' = Unl(d, n)
  BY DEF Unl
<1>11. Agree' = Agree
  BY <1>1 DEF Agree, Wants, Has, Lead, Out, Var
<1>12. QED
  BY <1>1, <1>3, <1>4, <1>5, <1>6, <1>7, <1>8, <1>9, <1>10, <1>11

\* Variables are numbered from 1.
LEMMA VarIdxFacts ==
  ASSUME IsRequest(dr_rqs)
  PROVE  Len(dr_rqs.vars) \in Nat /\ VarIdx = 1..Len(dr_rqs.vars) /\ 1 \in VarIdx
<1>1. dr_rqs.vars \in Seq(ToSet(dr_rqs.vars)) /\ dr_rqs.vars # <<>>
  BY DEF IsRequest
<1>2. Len(dr_rqs.vars) \in Nat /\ VarIdx = 1..Len(dr_rqs.vars)
  BY <1>1 DEF VarIdx
<1>3. QED
  BY <1>1, <1>2

\* The next variable, or the end of the loop.
LEMMA OnwardFacts ==
  ASSUME IsRequest(dr_rqs), dr_rqs' = dr_rqs, dr_idx \in VarIdx, NEW next, Onward(next)
  PROVE  /\ dr_idx' \in VarIdx
         /\ \/ /\ dr_idx' = dr_idx + 1 /\ dr_pc' = dr_pc
               /\ \A v \in VarIdx : v < dr_idx' <=> v <= dr_idx
            \/ dr_idx' = 1 /\ dr_pc' = next /\ \A v \in VarIdx : v <= dr_idx
BY VarIdxFacts DEF Onward

\* The record dimension that variables have been told is the new one.
Named == \A v \in VarIdx : rec_dmn_nm_out[v] # NoDmn => Redefined /\ rec_dmn_nm_out[v] = Nam

\* It is one.
LEMMA NamFacts == NamInv => Named
<1>1. SUFFICES ASSUME NamInv, NEW v \in VarIdx, rec_dmn_nm_out[v] # NoDmn
               PROVE  Redefined /\ rec_dmn_nm_out[v] = Nam
  BY DEF Named
<1>2. Redefined
  BY <1>1 DEF Redefined
<1> DEFINE w == CHOOSE u \in VarIdx : rec_dmn_nm_out[u] # NoDmn
<1>3. w \in VarIdx /\ rec_dmn_nm_out[w] # NoDmn
  BY <1>1
<1>4. Nam = rec_dmn_nm_out[w]
  BY <1>2 DEF Nam, RecDmn
<1> HIDE DEF w
<1>5. QED
  BY <1>1, <1>2, <1>3, <1>4 DEF NamInv

\* The same in the next state.
LEMMA NamPrime == NamInv' => Named'
  BY NamFacts, PTL

\* It is kept by steps that leave rec_dmn_nm_out alone.
LEMMA NamSame ==
  ASSUME dr_rqs' = dr_rqs, rec_dmn_nm_out' = rec_dmn_nm_out
  PROVE  Nam' = Nam /\ Redefined' = Redefined /\ (NamInv => NamInv')
<1>1. Redefined' = Redefined
  BY Static DEF Redefined
<1>2. RecDmn' = RecDmn
  BY Static DEF RecDmn
<1>3. NamInv => NamInv'
  BY Static DEF NamInv
<1>4. QED
  BY <1>1, <1>2, <1>3 DEF Nam

\* The invariant holds in the beginning.
LEMMA RdrInit == DrInit => RdrInv
<1>1. SUFFICES ASSUME DrInit PROVE RdrInv
  OBVIOUS
<1>2. IsRequest(dr_rqs)
  BY <1>1, RdrAssumption DEF DrInit
<1>3. 1 \in VarIdx /\ \A v \in VarIdx : v >= 1
  BY <1>2, VarIdxFacts
<1>4. \A v \in VarIdx : rec_dmn_nm_out[v] = NoDmn
  BY <1>1 DEF DrInit
<1>5. LoopInv
  BY <1>1, <1>3 DEF DrInit, LoopInv, VarIdx
<1>6. NamInv
  BY <1>4 DEF NamInv
<1>7. MtdInv
  BY <1>1, <1>2, <1>3, <1>4, VarIdxFacts DEF DrInit, MtdInv
<1>8. dr_pc = "mtd"
  BY <1>1 DEF DrInit
<1>9. QED
  BY <1>5, <1>6, <1>7, <1>8 DEF RdrInv, MrkInv, PrpInv, DfnInv, ErrorInv

\* The first loop keeps it: the first variable that requires a new record
\* dimension is the one that is asked.
LEMMA MtdStep ==
  ASSUME RdrInv, Mtd, IsRequest(dr_rqs)
  PROVE  RdrInv'
<1> DEFINE i == dr_idx
           dmn == dr_rqs.vars[i]
<1>1. /\ dr_pc = "mtd" /\ dr_rqs' = dr_rqs /\ udm' = udm /\ dr_fl' = dr_fl
      /\ is_rec_var' = is_rec_var
      /\ dr_dim' = [dr_dim EXCEPT ![i] = Out(i)]
      /\ dmn_idx_out_in' = [dmn_idx_out_in EXCEPT ![i] = Map(i)]
      /\ rec_dmn_nm_out' =
           IF is_rec_var[i] /\ Len(dmn) > 1 /\ Lead(i) # dr_rqs.rec /\ ~Redefined
           THEN [rec_dmn_nm_out EXCEPT ![i] = Lead(i)] ELSE rec_dmn_nm_out
      /\ Onward("mrk")
  BY DEF Mtd, Out, Map, Lead, Var
<1>2. /\ LoopInv /\ NamInv /\ i \in VarIdx
      /\ \A v \in VarIdx : is_rec_var[v] = Has(v, dr_rqs.rec)
      /\ \A v \in VarIdx : v < i => dr_dim[v] = Out(v) /\ dmn_idx_out_in[v] = Map(v)
      /\ \A v \in VarIdx :
           rec_dmn_nm_out[v] # NoDmn => Wants(v) /\ rec_dmn_nm_out[v] = Lead(v)
      /\ Redefined \/ \A v \in VarIdx : v < i => ~Wants(v)
  BY <1>1 DEF RdrInv, MtdInv, LoopInv
<1>3. /\ VarIdx' = VarIdx
      /\ \A v : Map(v)' = Map(v) /\ Out(v)' = Out(v) /\ Lead(v)' = Lead(v) /\ Wants(v)' = Wants(v)
      /\ \A v, d : Has(v, d)' = Has(v, d)
      /\ \A v, n : Final(v, n)' = Final(v, n)
      /\ \A n : NamOK(n)' = NamOK(n)
  BY <1>1, Static
<1>4. /\ i' \in VarIdx
      /\ \/ i' = i + 1 /\ dr_pc' = "mtd" /\ \A v \in VarIdx : v < i' <=> v <= i
         \/ i' = 1 /\ dr_pc' = "mrk" /\ \A v \in VarIdx : v <= i
  BY <1>1, <1>2, OnwardFacts
<1>5. i \in Int /\ \A v \in VarIdx : v \in Int /\ v >= 1
  BY <1>2, VarIdxFacts
<1>6. Wants(i) => Len(dmn) > 1 /\ Lead(i) # NoDmn /\ Lead(i) # dr_rqs.rec /\ Has(i, dr_rqs.rec)
  BY <1>2, RequiresFacts, VarFacts DEF Wants, Var
<1>7. rec_dmn_nm_out' = IF Wants(i) /\ ~Redefined
                        THEN [rec_dmn_nm_out EXCEPT ![i] = Lead(i)] ELSE rec_dmn_nm_out
  BY <1>1, <1>2, <1>6 DEF Wants
<1>8. DOMAIN rec_dmn_nm_out = VarIdx /\ DOMAIN dr_dim = VarIdx /\ DOMAIN dmn_idx_out_in = VarIdx
  BY <1>2 DEF LoopInv
<1>9. LoopInv'
  BY <1>1, <1>2, <1>3, <1>4, <1>7 DEF LoopInv
<1>10. NamInv' /\ \A v \in VarIdx :
         rec_dmn_nm_out'[v] # NoDmn => Wants(v) /\ rec_dmn_nm_out'[v] = Lead(v)
  <2>1. CASE Wants(i) /\ ~Redefined
    <3>1. \A v \in VarIdx : rec_dmn_nm_out[v] = NoDmn
      BY <2>1 DEF Redefined
    <3>2. \A v \in VarIdx : rec_dmn_nm_out'[v] = IF v = i THEN Lead(i) ELSE NoDmn
      BY <1>7, <1>8, <2>1, <3>1
    <3>3. QED
      BY <1>3, <2>1, <3>2 DEF NamInv
  <2>2. CASE ~(Wants(i) /\ ~Redefined)
    BY <1>2, <1>3, <1>7, <2>2 DEF NamInv
  <2>3. QED
    BY <2>1, <2>2
<1>11. Redefined' <=> Redefined \/ Wants(i)
  <2>1. CASE Wants(i) /\ ~Redefined
    <3>1. rec_dmn_nm_out'[i] = Lead(i)
      BY <1>2, <1>7, <1>8, <2>1
    <3>2. QED
      BY <1>2, <1>3, <1>6, <2>1, <3>1 DEF Redefined
  <2>2. CASE ~(Wants(i) /\ ~Redefined)
    BY <1>3, <1>7, <2>2 DEF Redefined
  <2>3. QED
    BY <2>1, <2>2
<1>12. \A v \in VarIdx : v <= i => dr_dim'[v] = Out(v) /\ dmn_idx_out_in'[v] = Map(v)
  BY <1>1, <1>2, <1>5, <1>8
<1>13. Redefined' \/ \A v \in VarIdx : v <= i => ~Wants(v)
  BY <1>2, <1>5, <1>11
<1> HIDE DEF i, dmn
<1>14. MtdInv'
  BY <1>1, <1>2, <1>3, <1>4, <1>10, <1>12, <1>13 DEF MtdInv, i
<1>15. MrkInv'
  <2>1. SUFFICES ASSUME dr_pc' = "mrk" PROVE MrkInv'
    BY DEF MrkInv
  <2>2. i' = 1 /\ \A v \in VarIdx : v <= i
    BY <1>4, <2>1
  <2>3. NamOK(Nam')
    <3>1. CASE Redefined'
      <4>1. PICK v \in VarIdx : rec_dmn_nm_out'[v] # NoDmn
        BY <1>3, <3>1 DEF Redefined
      <4>2. Nam' = rec_dmn_nm_out'[v]
        BY <1>3, <1>10, <4>1, NamPrime DEF Named
      <4>3. QED
        BY <1>10, <4>1, <4>2 DEF NamOK
    <3>2. CASE ~Redefined'
      <4>1. Nam' = NoDmn
        BY <3>2 DEF Nam
      <4>2. QED
        BY <1>13, <2>2, <3>2, <4>1 DEF NamOK
    <3>3. QED
      BY <3>1, <3>2
  <2>4. NamOK(Nam)'
    BY <1>3, <2>3
  <2>5. dr_idx' = 1 /\ \A v \in VarIdx : ~(v < 1)
    BY <1>5, <2>2 DEF i
  <2>6. \A v \in VarIdx : (rec_dmn_nm_out[v] # NoDmn)' => Wants(v)'
    BY <1>3, <1>10
  <2>7. \A v \in VarIdx : /\ is_rec_var'[v] = Has(v, dr_rqs.rec)'
                          /\ dr_dim'[v] = Out(v)' /\ dmn_idx_out_in'[v] = Map(v)'
    BY <1>1, <1>2, <1>3, <1>12, <2>2
  <2>8. QED
    BY <1>3, <2>4, <2>5, <2>6, <2>7 DEF MrkInv
<1>16. dr_pc' \in {"mtd", "mrk"}
  BY <1>4
<1>17. QED
  BY <1>9, <1>10, <1>14, <1>15, <1>16 DEF RdrInv, PrpInv, DfnInv, ErrorInv

\* The second loop keeps it: the new record dimension moves to the head.
LEMMA MrkStep ==
  ASSUME RdrInv, Mrk, IsRequest(dr_rqs)
  PROVE  RdrInv'
<1> DEFINE i == dr_idx
           map == dmn_idx_out_in[i]
           p == At(dr_dim[i], RecDmn)
           joins == /\ Redefined /\ rec_dmn_nm_out[i] = NoDmn /\ Len(dr_dim[i]) > 1
                    /\ Has(i, RecDmn) /\ ~is_rec_var[i]
<1>1. /\ dr_pc = "mrk" /\ dr_rqs' = dr_rqs /\ udm' = udm /\ dr_fl' = dr_fl
      /\ rec_dmn_nm_out' = rec_dmn_nm_out /\ Onward("prp")
  BY DEF Mrk
<1>2. /\ LoopInv /\ NamInv /\ i \in VarIdx
      /\ NamOK(Nam) /\ \A v \in VarIdx : rec_dmn_nm_out[v] # NoDmn => Wants(v)
      /\ \A v \in VarIdx : v >= i => /\ is_rec_var[v] = Has(v, dr_rqs.rec)
                                     /\ dr_dim[v] = Out(v) /\ dmn_idx_out_in[v] = Map(v)
      /\ \A v \in VarIdx : v < i => dmn_idx_out_in[v] = Final(v, Nam)
  BY <1>1 DEF RdrInv, MrkInv, LoopInv
<1>3. /\ VarIdx' = VarIdx
      /\ \A v : Map(v)' = Map(v) /\ Out(v)' = Out(v) /\ Lead(v)' = Lead(v) /\ Wants(v)' = Wants(v)
      /\ \A v, d : Has(v, d)' = Has(v, d)
      /\ \A v, n : Final(v, n)' = Final(v, n)
      /\ \A n : NamOK(n)' = NamOK(n)
  BY <1>1, Static
<1>4. /\ i' \in VarIdx
      /\ \/ i' = i + 1 /\ dr_pc' = "mrk" /\ \A v \in VarIdx : v < i' <=> v <= i
         \/ i' = 1 /\ dr_pc' = "prp" /\ \A v \in VarIdx : v <= i
  BY <1>1, <1>2, OnwardFacts
<1>5. i \in Int /\ \A v \in VarIdx : v \in Int /\ v >= 1
  BY <1>2, VarIdxFacts
<1>6. Nam' = Nam /\ NamInv'
  BY <1>1, <1>2, NamSame
<1>7. /\ DOMAIN dmn_idx_out_in = VarIdx /\ DOMAIN is_rec_var = VarIdx /\ DOMAIN dr_dim = VarIdx
      /\ is_rec_var[i] = Has(i, dr_rqs.rec) /\ dr_dim[i] = Out(i) /\ map = Map(i)
  BY <1>2, <1>5 DEF LoopInv
<1>8. /\ DOMAIN dmn_idx_out_in' = VarIdx /\ DOMAIN is_rec_var' = VarIdx
      /\ DOMAIN dr_dim' = VarIdx
      /\ \A v \in VarIdx \ {i} : /\ dmn_idx_out_in'[v] = dmn_idx_out_in[v]
                                 /\ is_rec_var'[v] = is_rec_var[v] /\ dr_dim'[v] = dr_dim[v]
      /\ dmn_idx_out_in'[i] = IF joins THEN [[map EXCEPT ![1] = p] EXCEPT ![p] = map[1]] ELSE map
  BY <1>2, <1>7 DEF Mrk
<1>9. LoopInv'
  BY <1>1, <1>2, <1>3, <1>4, <1>8 DEF LoopInv
<1>10. dmn_idx_out_in'[i] = Final(i, Nam)
  <2>1. CASE joins
    <3>1. Nam = RecDmn /\ p = At(Out(i), Nam)
      BY <1>7, <2>1 DEF Nam
    <3>2. Nam # NoDmn
      <4>1. PICK v \in VarIdx : rec_dmn_nm_out[v] # NoDmn
        BY <2>1 DEF Redefined
      <4>2. QED
        BY <1>2, <4>1, NamFacts DEF Named
    <3>3. Joins(i, Nam)
      BY <1>7, <2>1, <3>1, <3>2 DEF Joins
    <3> HIDE DEF joins, map, p
    <3>4. dmn_idx_out_in'[i] = [[Map(i) EXCEPT ![1] = At(Out(i), Nam)]
                                       EXCEPT ![At(Out(i), Nam)] = Map(i)[1]]
      BY <1>7, <1>8, <2>1, <3>1
    <3>5. QED
      BY <3>3, <3>4 DEF Final
  <2>2. CASE ~joins /\ Joins(i, Nam)
    <3>1. Redefined /\ Nam = RecDmn /\ ~Has(i, dr_rqs.rec) /\ Has(i, Nam)
      BY <2>2 DEF Joins, Nam
    <3>2. rec_dmn_nm_out[i] = NoDmn
      BY <1>2, <3>1 DEF Wants
    <3>3. ~(Len(Out(i)) > 1)
      BY <1>7, <2>2, <3>1, <3>2
    <3>4. /\ Map(i) \in [DOMAIN Var(i) -> DOMAIN Var(i)] /\ IsInjective(Out(i))
          /\ Len(Out(i)) = Len(Var(i)) /\ ToSet(Out(i)) = ToSet(Var(i))
          /\ Len(Var(i)) < 2 => Map(i) = [o \in DOMAIN Var(i) |-> o]
          /\ DOMAIN Out(i) = DOMAIN Var(i)
      BY <1>2, OutVar
    <3>5. Len(Var(i)) \in Nat /\ DOMAIN Var(i) = 1..Len(Var(i)) /\ Nam \in ToSet(Var(i))
      BY <1>2, <3>1, VarFacts
    <3>6. PICK q \in DOMAIN Var(i) : Out(i)[q] = Nam
      BY <3>4, <3>5 DEF ToSet
    <3>7. At(Out(i), Nam) = q
      BY <3>4, <3>6, AtFacts
    <3>8. q = 1 /\ Map(i) = [o \in DOMAIN Var(i) |-> o]
      BY <3>3, <3>4, <3>5, <3>6
    <3>9. Final(i, Nam) = [[Map(i) EXCEPT ![1] = 1] EXCEPT ![1] = Map(i)[1]]
      BY <2>2, <3>7, <3>8 DEF Final
    <3>10. Final(i, Nam) = Map(i)
      BY <3>6, <3>8, <3>9
    <3>11. QED
      BY <1>7, <1>8, <2>2, <3>10
  <2>3. CASE ~joins /\ ~Joins(i, Nam)
    BY <1>7, <1>8, <2>3 DEF Final
  <2>4. QED
    BY <2>1, <2>2, <2>3
<1>11. \A v \in VarIdx : v <= i => dmn_idx_out_in'[v] = Final(v, Nam)
  BY <1>2, <1>5, <1>8, <1>10
<1>12. \A v \in VarIdx : (rec_dmn_nm_out[v] # NoDmn)' => Wants(v)'
  BY <1>1, <1>2, <1>3
<1>13. NamOK(Nam)'
  BY <1>2, <1>3, <1>6
<1>14. \A v \in VarIdx : v > i => /\ is_rec_var'[v] = Has(v, dr_rqs.rec)'
                                  /\ dr_dim'[v] = Out(v)' /\ dmn_idx_out_in'[v] = Map(v)'
  BY <1>1, <1>2, <1>3, <1>5, <1>8
<1> HIDE DEF i
<1>15. MrkInv'
  <2>1. SUFFICES ASSUME dr_pc' = "mrk" PROVE MrkInv'
    BY DEF MrkInv
  <2>2. /\ \A v \in VarIdx : v < dr_idx' <=> v <= i
        /\ \A v \in VarIdx : v >= dr_idx' => v > i
    BY <1>4, <1>5, <2>1 DEF i
  <2>3. \A v \in VarIdx : v < dr_idx' => dmn_idx_out_in'[v] = Final(v, Nam)'
    BY <1>3, <1>6, <1>11, <2>2
  <2>4. QED
    BY <1>3, <1>12, <1>13, <1>14, <2>2, <2>3 DEF MrkInv
<1>16. PrpInv'
  <2>1. SUFFICES ASSUME dr_pc' = "prp" PROVE PrpInv'
    BY DEF PrpInv
  <2>2. \A v \in VarIdx : dmn_idx_out_in'[v] = Final(v, Nam)'
    BY <1>3, <1>4, <1>6, <1>11, <2>1
  <2>3. QED
    BY <1>3, <1>12, <1>13, <2>2 DEF PrpInv
<1>17. dr_pc' \in {"mrk", "prp"}
  BY <1>4
<1>18. QED
  BY <1>6, <1>9, <1>15, <1>16, <1>17 DEF RdrInv, MtdInv, DfnInv, ErrorInv

\* The third loop keeps it: all variables concerned know the new one.
LEMMA PrpStep ==
  ASSUME RdrInv, Prp, IsRequest(dr_rqs)
  PROVE  RdrInv'
<1>1. /\ dr_pc = "prp" /\ dr_pc' = "dfn" /\ dr_rqs' = dr_rqs /\ udm' = udm /\ dr_fl' = dr_fl
      /\ dr_idx' = dr_idx /\ dr_dim' = dr_dim /\ is_rec_var' = is_rec_var
      /\ dmn_idx_out_in' = dmn_idx_out_in
      /\ rec_dmn_nm_out' =
           [v \in VarIdx |-> IF ~Redefined THEN NoDmn
                             ELSE IF Concerned(v) THEN RecDmn ELSE rec_dmn_nm_out[v]]
  BY DEF Prp
<1>2. /\ LoopInv /\ NamInv /\ NamOK(Nam) /\ dr_idx = 1 /\ udm = <<>> /\ dr_fl = <<>>
      /\ \A v \in VarIdx : rec_dmn_nm_out[v] # NoDmn => Wants(v)
      /\ \A v \in VarIdx : dmn_idx_out_in[v] = Final(v, Nam)
  BY <1>1 DEF RdrInv, PrpInv, LoopInv
<1>3. /\ VarIdx' = VarIdx
      /\ \A v, d : Has(v, d)' = Has(v, d)
      /\ \A v, n : Final(v, n)' = Final(v, n)
      /\ \A n : NamOK(n)' = NamOK(n)
  BY <1>1, Static
<1>4. /\ Redefined => Nam = RecDmn /\ Nam # NoDmn
      /\ ~Redefined => Nam = NoDmn
  <2>1. CASE Redefined
    <3>1. PICK v \in VarIdx : rec_dmn_nm_out[v] # NoDmn
      BY <2>1 DEF Redefined
    <3>2. QED
      BY <1>2, <2>1, <3>1, NamFacts DEF Named, Nam
  <2>2. CASE ~Redefined
    BY <2>2 DEF Nam
  <2>3. QED
    BY <2>1, <2>2
<1>5. \A v \in VarIdx :
        rec_dmn_nm_out'[v] = IF Nam # NoDmn /\ (Has(v, Nam) \/ Has(v, dr_rqs.rec))
                             THEN Nam ELSE NoDmn
  <2>1. SUFFICES ASSUME NEW v \in VarIdx
                 PROVE  rec_dmn_nm_out'[v] = IF Nam # NoDmn /\ (Has(v, Nam) \/ Has(v, dr_rqs.rec))
                                             THEN Nam ELSE NoDmn
    OBVIOUS
  <2>2. CASE ~Redefined
    BY <1>1, <1>4, <2>2
  <2>3. CASE Redefined /\ Concerned(v)
    BY <1>1, <1>4, <2>3 DEF Concerned
  <2>4. CASE Redefined /\ ~Concerned(v)
    <3>1. rec_dmn_nm_out[v] = NoDmn
      BY <1>2, <2>4 DEF Wants, Concerned
    <3>2. QED
      BY <1>1, <1>4, <2>4, <3>1 DEF Concerned
  <2>5. QED
    BY <2>2, <2>3, <2>4
<1>6. NamInv'
  BY <1>3, <1>5 DEF NamInv
<1>7. Nam' = Nam
  <2>1. CASE ~Redefined
    <3>1. \A v \in VarIdx : rec_dmn_nm_out'[v] = NoDmn
      BY <1>1, <2>1
    <3>2. ~Redefined'
      BY <1>3, <3>1 DEF Redefined
    <3>3. QED
      BY <2>1, <3>2 DEF Nam
  <2>2. CASE Redefined
    <3>1. PICK v \in VarIdx : rec_dmn_nm_out[v] # NoDmn
      BY <2>2 DEF Redefined
    <3>2. Has(v, dr_rqs.rec)
      BY <1>2, <3>1 DEF Wants
    <3>3. rec_dmn_nm_out'[v] = Nam /\ Nam # NoDmn
      BY <1>4, <1>5, <2>2, <3>2
    <3>4. rec_dmn_nm_out'[v] = Nam'
      BY <1>3, <1>6, <3>3, NamPrime DEF Named
    <3>5. QED
      BY <3>3, <3>4
  <2>3. QED
    BY <2>1, <2>2
<1>8. LoopInv'
  BY <1>1, <1>2, <1>3 DEF LoopInv
<1>9. Dfnd' = 0
  BY <1>1, <1>2 DEF Dfnd
<1>10. /\ NamOK(Nam)'
       /\ \A v \in VarIdx : dmn_idx_out_in'[v] = Final(v, Nam)'
       /\ \A v \in VarIdx :
            rec_dmn_nm_out'[v] = IF Nam' # NoDmn /\ (Has(v, Nam)' \/ Has(v, dr_rqs.rec)')
                                 THEN Nam' ELSE NoDmn
  BY <1>1, <1>2, <1>3, <1>5, <1>7
<1>11. DfnInv'
  <2>1. dr_fl' = <<>> /\ DOMAIN udm' = 1..0 /\ 1..0 = {}
    BY <1>1, <1>2
  <2>4. dr_fl' = [v \in 1..Dfnd' |-> dr_fl'[v]]
    BY <1>9, <2>1
  <2>2. /\ \A v \in 1..Dfnd' : FlOK(v, Nam)'
        /\ \A d : d \in DOMAIN udm' <=> \E v \in 1..Dfnd' : Has(v, d)'
        /\ \A d \in DOMAIN udm' : udm'[d] = Unl(d, Nam)'
    BY <1>9, <2>1
  <2>3. QED
    BY <1>3, <1>9, <1>10, <2>2, <2>4 DEF DfnInv
<1>12. QED
  BY <1>1, <1>6, <1>8, <1>11 DEF RdrInv, MtdInv, MrkInv, PrpInv, ErrorInv

\* The dimensions a variable has after the second loop are those it had.
LEMMA FinalIn ==
  ASSUME IsRequest(dr_rqs), NEW v \in VarIdx, NEW n, IsInjective(Final(v, n)),
         NEW o \in DOMAIN Var(v)
  PROVE  FinalDim(v, n)[o] \in ToSet(Var(v))
<1>1. /\ Map(v) \in [DOMAIN Var(v) -> DOMAIN Var(v)]
      /\ Out(v) = [i \in DOMAIN Var(v) |-> Var(v)[Map(v)[i]]]
  BY OutVar
<1>2. \A i \in DOMAIN Var(v) : Out(v)[i] \in ToSet(Var(v))
  BY <1>1 DEF ToSet
<1>3. CASE Joins(v, n)
  <2>1. LET p == At(Out(v), n)
        IN  /\ p \in DOMAIN Var(v) /\ 1 \in DOMAIN Var(v)
            /\ FinalDim(v, n) = [i \in DOMAIN Var(v) |-> IF i = 1 THEN Out(v)[p]
                                                         ELSE IF i = p THEN Out(v)[1] ELSE Out(v)[i]]
    BY <1>3, JoinFacts
  <2>2. QED
    BY <1>2, <2>1
<1>4. CASE ~Joins(v, n)
  <2>1. FinalDim(v, n)[o] = Var(v)[Map(v)[o]]
    BY <1>4 DEF FinalDim, Final
  <2>2. QED
    BY <1>1, <2>1 DEF ToSet
<1>5. QED
  BY <1>3, <1>4

\* Whether a dimension is defined as a record dimension does not depend on
\* the variable that defines it.
LEMMA SameForAll ==
  ASSUME NEW v \in VarIdx, NEW n,
         rec_dmn_nm_out[v] = IF n # NoDmn /\ (Has(v, n) \/ Has(v, dr_rqs.rec)) THEN n ELSE NoDmn,
         NEW d, Has(v, d)
  PROVE  DfnAsRec(v, d) = Unl(d, n)
<1>1. CASE n = NoDmn
  BY <1>1 DEF DfnAsRec, Unl
<1>2. CASE n # NoDmn /\ (Has(v, n) \/ Has(v, dr_rqs.rec))
  BY <1>2 DEF DfnAsRec, Unl
<1>3. CASE n # NoDmn /\ ~(Has(v, n) \/ Has(v, dr_rqs.rec))
  BY <1>3 DEF DfnAsRec, Unl
<1>4. QED
  BY <1>1, <1>2, <1>3

\* Defining a variable keeps it, and fails only if variables disagree.
LEMMA DfnStep ==
  ASSUME RdrInv, Dfn, IsRequest(dr_rqs)
  PROVE  RdrInv'
<1> DEFINE i == dr_idx
           dmn == dr_rqs.vars[i]
           map == dmn_idx_out_in[i]
           ids == [d \in ToSet(dmn) \union DOMAIN udm |->
                     IF d \in DOMAIN udm THEN udm[d] ELSE DfnAsRec(i, d)]
           dfn == [o \in DOMAIN dmn |-> dmn[map[o]]]
           U == {d \in DOMAIN ids : ids[d]}
           one == Cardinality(U) <= 1
           leads == \A o \in DOMAIN dmn \ {1} : ~ids[dfn[o]]
<1>1. /\ dr_pc = "dfn" /\ dr_rqs' = dr_rqs /\ dr_dim' = dr_dim /\ is_rec_var' = is_rec_var
      /\ dmn_idx_out_in' = dmn_idx_out_in /\ rec_dmn_nm_out' = rec_dmn_nm_out
      /\ \/ ~IsInjective(map) /\ dr_pc' = "undefined" /\ UNCHANGED <<dr_idx, udm, dr_fl>>
         \/ /\ IsInjective(map) /\ ~dr_rqs.nc4 /\ ~(one /\ leads)
            /\ dr_pc' = "error" /\ UNCHANGED <<dr_idx, udm, dr_fl>>
         \/ /\ IsInjective(map) /\ udm' = ids
            /\ dr_fl' = Append(dr_fl, [dmn |-> dfn, slot |-> <<>>]) /\ Onward("val")
  BY DEF Dfn
<1>2. /\ LoopInv /\ NamInv /\ NamOK(Nam) /\ i \in VarIdx /\ Dfnd = i - 1
      /\ \A v \in VarIdx :
           /\ dmn_idx_out_in[v] = Final(v, Nam)
           /\ rec_dmn_nm_out[v] = IF Nam # NoDmn /\ (Has(v, Nam) \/ Has(v, dr_rqs.rec))
                                  THEN Nam ELSE NoDmn
      /\ dr_fl = [v \in 1..(i - 1) |-> dr_fl[v]] /\ \A v \in 1..(i - 1) : FlOK(v, Nam)
      /\ \A d : d \in DOMAIN udm <=> \E v \in 1..(i - 1) : Has(v, d)
      /\ \A d \in DOMAIN udm : udm[d] = Unl(d, Nam)
  BY <1>1 DEF RdrInv, DfnInv, LoopInv, Dfnd
<1>3. /\ VarIdx' = VarIdx
      /\ \A v, d : Has(v, d)' = Has(v, d)
      /\ \A v, n : Final(v, n)' = Final(v, n) /\ FinalDim(v, n)' = FinalDim(v, n)
      /\ \A n : NamOK(n)' = NamOK(n)
      /\ \A d, n : Unl(d, n)' = Unl(d, n)
      /\ Agree' = Agree
  BY <1>1, Static
<1>4. Nam' = Nam /\ NamInv'
  BY <1>1, <1>2, NamSame
<1>5. Len(dr_rqs.vars) \in Nat /\ VarIdx = 1..Len(dr_rqs.vars)
  BY VarIdxFacts
<1>6. dmn = Var(i) /\ map = Final(i, Nam) /\ dfn = FinalDim(i, Nam)
  BY <1>2 DEF Var, FinalDim
<1>7. \A d : d \in ToSet(dmn) <=> Has(i, d)
  BY <1>2, <1>6, VarFacts
<1>8. \A d \in DOMAIN ids : ids[d] = Unl(d, Nam)
  <2>1. \A d : Has(i, d) => DfnAsRec(i, d) = Unl(d, Nam)
    BY <1>2, SameForAll
  <2>2. QED
    BY <1>2, <1>7, <2>1
<1>9. ASSUME dr_pc' \in {"undefined", "error"}
      PROVE  LoopInv'
  <2>1. ~Onward("val")
    BY <1>1, <1>9 DEF Onward
  <2>2. dr_idx' = dr_idx
    BY <1>1, <2>1
  <2>3. QED
    BY <1>1, <1>2, <1>3, <1>9, <2>2 DEF LoopInv
<1> HIDE DEF i, dmn, map, ids, dfn
<1>10. CASE dr_pc' = "undefined"
  BY <1>4, <1>9, <1>10 DEF RdrInv, MtdInv, MrkInv, PrpInv, DfnInv, ErrorInv
<1>11. CASE dr_pc' = "error"
  <2>1. IsInjective(Final(i, Nam)) /\ ~dr_rqs.nc4 /\ ~(one /\ leads)
    <3>1. dr_pc' # dr_pc /\ "error" # "val" /\ "error" # "undefined"
      BY <1>1, <1>11
    <3>2. QED
      BY <1>1, <1>6, <1>11, <3>1 DEF Onward
  <2>2. \A d \in DOMAIN ids : ids[d] => d = Top(Nam)
    BY <1>8, <2>1 DEF Unl, Top
  <2>3. one
    <3>1. U \subseteq {Top(Nam)} /\ IsFiniteSet({Top(Nam)}) /\ Cardinality({Top(Nam)}) = 1
      BY <2>2, FS_Singleton
    <3> HIDE DEF U
    <3>2. Cardinality(U) <= 1
      BY <3>1, FS_Subset
    <3>3. QED
      BY <3>2
  <2>4. Agree => leads
    <3>1. SUFFICES ASSUME Agree, NEW o \in DOMAIN dmn \ {1}, ids[dfn[o]] PROVE FALSE
      OBVIOUS
    <3>2. dfn[o] \in ToSet(dmn)
      BY <1>2, <1>6, <2>1, FinalIn
    <3>3. dfn[o] = Top(Nam)
      BY <2>2, <3>1, <3>2 DEF ids
    <3>4. QED
      BY <1>2, <1>6, <2>1, <3>1, <3>3, TopFirst
  <2>5. ErrorInv'
    BY <1>3, <2>1, <2>3, <2>4 DEF ErrorInv
  <2>6. QED
    BY <1>4, <1>9, <1>11, <2>5 DEF RdrInv, MtdInv, MrkInv, PrpInv, DfnInv
<1>12. CASE dr_pc' \notin {"undefined", "error"}
  <2>1. /\ IsInjective(Final(i, Nam)) /\ udm' = ids
        /\ dr_fl' = Append(dr_fl, [dmn |-> dfn, slot |-> <<>>]) /\ Onward("val")
    BY <1>1, <1>6, <1>12
  <2>2. /\ dr_idx' \in VarIdx
        /\ \/ dr_idx' = i + 1 /\ dr_pc' = "dfn"
           \/ dr_idx' = 1 /\ dr_pc' = "val" /\ \A v \in VarIdx : v <= i
    BY <1>1, <1>2, <2>1, OnwardFacts DEF i
  <2>3. i \in Nat /\ i >= 1 /\ i <= Len(dr_rqs.vars) /\ 1..i \subseteq VarIdx
    BY <1>2, <1>5
  <2>4. Dfnd' = i
    <3>1. CASE dr_pc' = "dfn"
      BY <2>2, <2>3, <3>1 DEF Dfnd
    <3>2. CASE dr_pc' = "val"
      <4>1. Len(dr_rqs.vars) \in VarIdx
        BY <1>5, <2>3
      <4>2. QED
        BY <1>1, <1>5, <2>2, <2>3, <3>2, <4>1 DEF Dfnd
    <3>3. QED
      BY <2>2, <3>1, <3>2
  <2> DEFINE new == [dmn |-> dfn, slot |-> <<>>]
  <2>5. /\ dr_fl' = [v \in 1..i |-> dr_fl'[v]] /\ dr_fl'[i] = new
        /\ \A v \in 1..(i - 1) : dr_fl'[v] = dr_fl[v]
    <3> DEFINE S == {dr_fl[v] : v \in 1..(i - 1)} \union {new}
    <3>1. dr_fl \in [1..(i - 1) -> S]
      BY <1>2
    <3>2. dr_fl \in Seq(S) /\ Len(dr_fl) = i - 1 /\ new \in S
      BY <2>3, <3>1
    <3> HIDE DEF S, new
    <3>3. dr_fl' = Append(dr_fl, new)
      BY <2>1 DEF new
    <3>4. dr_fl' \in Seq(S) /\ Len(dr_fl') = i
      BY <2>3, <3>2, <3>3
    <3>5. dr_fl'[i] = new
      BY <2>3, <3>2, <3>3
    <3>6. \A v \in 1..(i - 1) : dr_fl'[v] = dr_fl[v]
      BY <2>3, <3>2, <3>3
    <3>7. dr_fl' \in [1..i -> S]
      BY <2>3, <3>4
    <3>8. dr_fl' = [v \in 1..i |-> dr_fl'[v]]
      BY <3>7
    <3>9. QED
      BY <3>5, <3>6, <3>8
  <2>6. \A v \in 1..i : FlOK(v, Nam)'
    <3>1. SUFFICES ASSUME NEW v \in 1..i PROVE FlOK(v, Nam)'
      OBVIOUS
    <3>2. v \in 1..(i - 1) \/ v = i
      BY <2>3
    <3>3. CASE v = i
      BY <1>3, <1>4, <1>6, <2>1, <2>5, <3>3 DEF FlOK
    <3>4. CASE v \in 1..(i - 1)
      BY <1>2, <1>3, <1>4, <2>5, <3>4 DEF FlOK
    <3>5. QED
      BY <3>2, <3>3, <3>4
  <2>7. \A d : d \in DOMAIN udm' <=> \E v \in 1..i : Has(v, d)'
    <3>1. DOMAIN udm' = ToSet(dmn) \union DOMAIN udm
      BY <2>1 DEF ids
    <3>2. \A v : v \in 1..i <=> v \in 1..(i - 1) \/ v = i
      BY <2>3
    <3>3. QED
      BY <1>2, <1>3, <1>7, <3>1, <3>2
  <2>8. \A d \in DOMAIN udm' : udm'[d] = Unl(d, Nam)'
    BY <1>3, <1>4, <1>8, <2>1
  <2>9. \A v \in VarIdx :
          /\ dmn_idx_out_in'[v] = Final(v, Nam)'
          /\ rec_dmn_nm_out'[v] = IF Nam' # NoDmn /\ (Has(v, Nam)' \/ Has(v, dr_rqs.rec)')
                                  THEN Nam' ELSE NoDmn
    BY <1>1, <1>2, <1>3, <1>4
  <2>10. NamOK(Nam)'
    BY <1>2, <1>3, <1>4
  <2>11. DfnInv'
    BY <1>3, <2>4, <2>5, <2>6, <2>7, <2>8, <2>9, <2>10 DEF DfnInv
  <2>12. LoopInv'
    BY <1>1, <1>2, <1>3, <2>2 DEF LoopInv
  <2>13. QED
    BY <1>4, <2>2, <2>11, <2>12 DEF RdrInv, MtdInv, MrkInv, PrpInv, ErrorInv
<1>13. QED
  BY <1>10, <1>11, <1>12

\* So does writing a variable, which leaves the definitions alone,
LEMMA PutStep ==
  ASSUME RdrInv, Put, IsRequest(dr_rqs)
  PROVE  RdrInv'
<1> DEFINE i == dr_idx
           n == Len(dr_rqs.vars)
           new == [lmn \in 0..(Size(dr_rqs.vars[i], dr_rqs.cnt) - 1) |-> Slot(i, lmn)]
<1>1. /\ dr_pc = "val" /\ dr_rqs' = dr_rqs /\ dr_dim' = dr_dim /\ is_rec_var' = is_rec_var
      /\ dmn_idx_out_in' = dmn_idx_out_in /\ rec_dmn_nm_out' = rec_dmn_nm_out /\ udm' = udm
      /\ dr_fl' = [dr_fl EXCEPT ![i].slot = new] /\ Onward("done")
  BY DEF Put
<1>2. /\ LoopInv /\ NamInv /\ NamOK(Nam) /\ i \in VarIdx /\ Dfnd = n
      /\ \A v \in VarIdx :
           /\ dmn_idx_out_in[v] = Final(v, Nam)
           /\ rec_dmn_nm_out[v] = IF Nam # NoDmn /\ (Has(v, Nam) \/ Has(v, dr_rqs.rec))
                                  THEN Nam ELSE NoDmn
      /\ dr_fl = [v \in 1..n |-> dr_fl[v]] /\ \A v \in 1..n : FlOK(v, Nam)
      /\ \A d : d \in DOMAIN udm <=> \E v \in 1..n : Has(v, d)
      /\ \A d \in DOMAIN udm : udm[d] = Unl(d, Nam)
  BY <1>1 DEF RdrInv, DfnInv, LoopInv, Dfnd
<1>3. /\ VarIdx' = VarIdx
      /\ \A v, d : Has(v, d)' = Has(v, d)
      /\ \A v, m : Final(v, m)' = Final(v, m) /\ FinalDim(v, m)' = FinalDim(v, m)
      /\ \A m : NamOK(m)' = NamOK(m)
      /\ \A d, m : Unl(d, m)' = Unl(d, m)
  BY <1>1, Static
<1>4. Nam' = Nam /\ NamInv'
  BY <1>1, <1>2, NamSame
<1>5. n \in Nat /\ VarIdx = 1..n
  BY VarIdxFacts
<1>6. dr_idx' \in VarIdx /\ dr_pc' \in {"val", "done"}
  BY <1>1, <1>2, OnwardFacts
<1>7. Dfnd' = n
  BY <1>1, <1>6 DEF Dfnd
<1> HIDE DEF new
<1>8. /\ DOMAIN dr_fl' = 1..n /\ dr_fl' = [v \in 1..n |-> dr_fl'[v]]
      /\ \A v \in 1..n : v # i => dr_fl'[v] = dr_fl[v]
      /\ dr_fl'[i] = [dr_fl[i] EXCEPT !.slot = new]
  BY <1>1, <1>2, <1>5
<1>9. \A v \in 1..n : "dmn" \in DOMAIN dr_fl'[v] /\ dr_fl'[v].dmn = dr_fl[v].dmn
  <2>1. SUFFICES ASSUME NEW v \in 1..n
                 PROVE  "dmn" \in DOMAIN dr_fl'[v] /\ dr_fl'[v].dmn = dr_fl[v].dmn
    OBVIOUS
  <2>2. "dmn" \in DOMAIN dr_fl[v]
    BY <1>2 DEF FlOK
  <2>3. CASE v = i
    <3>1. DOMAIN [dr_fl[i] EXCEPT !.slot = new] = DOMAIN dr_fl[i] /\ "dmn" # "slot"
      OBVIOUS
    <3>2. QED
      BY <1>8, <2>2, <2>3, <3>1
  <2>4. CASE v # i
    BY <1>8, <2>2, <2>4
  <2>5. QED
    BY <2>3, <2>4
<1>10. \A v \in 1..n : FlOK(v, Nam)'
  BY <1>2, <1>3, <1>4, <1>9 DEF FlOK
<1>11. \A v \in VarIdx :
         /\ dmn_idx_out_in'[v] = Final(v, Nam)'
         /\ rec_dmn_nm_out'[v] = IF Nam' # NoDmn /\ (Has(v, Nam)' \/ Has(v, dr_rqs.rec)')
                                 THEN Nam' ELSE NoDmn
  BY <1>1, <1>2, <1>3, <1>4
<1>12. NamOK(Nam)'
  BY <1>2, <1>3, <1>4
<1>13. /\ \A d : d \in DOMAIN udm' <=> \E v \in 1..n : Has(v, d)'
       /\ \A d \in DOMAIN udm' : udm'[d] = Unl(d, Nam)'
  BY <1>1, <1>2, <1>3, <1>4
<1> HIDE DEF n
<1>14. DfnInv'
  BY <1>3, <1>7, <1>8, <1>10, <1>11, <1>12, <1>13 DEF DfnInv
<1>15. LoopInv'
  BY <1>1, <1>2, <1>3, <1>6, <1>8 DEF LoopInv
<1>16. QED
  BY <1>4, <1>6, <1>14, <1>15 DEF RdrInv, MtdInv, MrkInv, PrpInv, ErrorInv

\* a step that changes nothing,
LEMMA RdrStutter ==
  ASSUME RdrInv, UNCHANGED dr_vars
  PROVE  RdrInv'
<1>1. /\ dr_rqs' = dr_rqs /\ dr_pc' = dr_pc /\ dr_idx' = dr_idx /\ dr_dim' = dr_dim
      /\ is_rec_var' = is_rec_var /\ dmn_idx_out_in' = dmn_idx_out_in
      /\ rec_dmn_nm_out' = rec_dmn_nm_out /\ udm' = udm /\ dr_fl' = dr_fl
  BY DEF dr_vars
<1>2. /\ VarIdx' = VarIdx
      /\ \A v : Map(v)' = Map(v) /\ Out(v)' = Out(v) /\ Lead(v)' = Lead(v) /\ Wants(v)' = Wants(v)
      /\ \A v, d : Has(v, d)' = Has(v, d)
      /\ \A v, n : Final(v, n)' = Final(v, n) /\ FinalDim(v, n)' = FinalDim(v, n)
      /\ \A n : NamOK(n)' = NamOK(n)
      /\ \A d, n : Unl(d, n)' = Unl(d, n)
      /\ Agree' = Agree
  BY <1>1, Static
<1>3. Nam' = Nam /\ Redefined' = Redefined /\ (NamInv => NamInv')
  BY <1>1, NamSame
<1>4. LoopInv => LoopInv'
  BY <1>1, <1>2 DEF LoopInv
<1>5. MtdInv => MtdInv'
  BY <1>1, <1>2, <1>3 DEF MtdInv
<1>6. MrkInv => MrkInv'
  BY <1>1, <1>2, <1>3 DEF MrkInv
<1>7. PrpInv => PrpInv'
  BY <1>1, <1>2, <1>3 DEF PrpInv
<1>8. Dfnd' = Dfnd /\ \A v, n : FlOK(v, n)' = FlOK(v, n)
  BY <1>1, <1>2 DEF Dfnd, FlOK
<1>9. DfnInv => DfnInv'
  BY <1>1, <1>2, <1>3, <1>8 DEF DfnInv
<1>10. ErrorInv => ErrorInv'
  BY <1>1, <1>2 DEF ErrorInv
<1>11. QED
  BY <1>3, <1>4, <1>5, <1>6, <1>7, <1>9, <1>10 DEF RdrInv

\* and hence every step.
LEMMA RdrStep == RdrInv /\ [DrNext]_dr_vars => RdrInv'
<1>1. SUFFICES ASSUME RdrInv, [DrNext]_dr_vars PROVE RdrInv'
  OBVIOUS
<1>2. IsRequest(dr_rqs)
  BY <1>1, RdrAssumption DEF RdrInv, LoopInv
<1>3. CASE Mtd
  BY <1>1, <1>2, <1>3, MtdStep
<1>4. CASE Mrk
  BY <1>1, <1>2, <1>4, MrkStep
<1>5. CASE Prp
  BY <1>1, <1>2, <1>5, PrpStep
<1>6. CASE Dfn
  BY <1>1, <1>2, <1>6, DfnStep
<1>7. CASE Put
  BY <1>1, <1>2, <1>7, PutStep
<1>8. CASE UNCHANGED dr_vars
  BY <1>1, <1>8, RdrStutter
<1>9. QED
  BY <1>1, <1>3, <1>4, <1>5, <1>6, <1>7, <1>8 DEF DrNext

\* The invariant holds in all states of the re-ordering.
THEOREM RdrInvariant == DrSpec => []RdrInv
BY RdrInit, RdrStep, PTL DEF DrSpec

-----------------------------------------------------------------------------
(* What the manual promises.                                               *)

\* What the output file holds once all is written, for a variable v.
LEMMA FlFacts ==
  ASSUME RdrInv, IsRequest(dr_rqs), dr_pc = "done", NEW v \in VarIdx
  PROVE  /\ dr_fl[v].dmn = FinalDim(v, Nam) /\ IsInjective(Final(v, Nam)) /\ NamOK(Nam)
         /\ DOMAIN dr_fl[v].dmn = DOMAIN Var(v) /\ ToSet(dr_fl[v].dmn) \subseteq ToSet(Var(v))
         /\ \A d : d \in DOMAIN udm <=> \E w \in VarIdx : Has(w, d)
         /\ \A d \in DOMAIN udm : udm[d] = Unl(d, Nam)
<1>1. Dfnd = Len(dr_rqs.vars) /\ VarIdx = 1..Dfnd
  BY VarIdxFacts DEF Dfnd
<1>2. /\ NamOK(Nam) /\ FlOK(v, Nam)
      /\ \A d : d \in DOMAIN udm <=> \E w \in VarIdx : Has(w, d)
      /\ \A d \in DOMAIN udm : udm[d] = Unl(d, Nam)
  BY <1>1 DEF RdrInv, DfnInv
<1>3. dr_fl[v].dmn = FinalDim(v, Nam) /\ IsInjective(Final(v, Nam))
  BY <1>2 DEF FlOK
<1>4. DOMAIN FinalDim(v, Nam) = DOMAIN Var(v)
  BY DEF FinalDim
<1>5. \A o \in DOMAIN Var(v) : FinalDim(v, Nam)[o] \in ToSet(Var(v))
  BY <1>3, FinalIn
<1>6. ToSet(dr_fl[v].dmn) \subseteq ToSet(Var(v))
  BY <1>3, <1>4, <1>5 DEF ToSet
<1>7. QED
  BY <1>2, <1>3, <1>4, <1>6

\* Without conflict the output has the record dimensions that its variables
\* require, or the old one, and they lead the variables that have them; no
\* error occurs (OneRecordDimension).
THEOREM OneRecordDimensionHolds == DrSpec => []OneRecordDimension
<1>1. RdrInv => OneRecordDimension
  <2>1. SUFFICES ASSUME RdrInv, ~Conflict PROVE OneRecordDimension
    BY DEF OneRecordDimension
  <2>2. IsRequest(dr_rqs)
    BY <2>1, RdrAssumption DEF RdrInv, LoopInv
  <2>3. Agree
    BY <2>1, <2>2, OneWish
  <2>4. dr_pc # "error"
    BY <2>1, <2>3 DEF RdrInv, ErrorInv
  <2> DEFINE new == UNION {Requires(v) : v \in VarIdx}
             old == {d \in DOMAIN udm : d = dr_rqs.rec}
             rec == IF new = {} \/ (dr_rqs.nc4 /\ dr_rqs.mrd) THEN new \union old ELSE new
             right == /\ {d \in DOMAIN udm : udm[d]} = rec
                      /\ \A v \in VarIdx : \A i \in DOMAIN dr_fl[v].dmn :
                           dr_fl[v].dmn[i] \in (IF new = {} THEN old ELSE new) => i = 1
  <2>5. ASSUME dr_pc = "done"
        PROVE  right
    <3>1. \A x : x \in new <=> \E v \in VarIdx : Wants(v) /\ x = Lead(v)
      BY <2>2, Wishes
    <3>2. 1 \in VarIdx
      BY <2>2, VarIdxFacts
    <3>3. /\ NamOK(Nam) /\ \A d : d \in DOMAIN udm <=> \E w \in VarIdx : Has(w, d)
          /\ \A d \in DOMAIN udm : udm[d] = Unl(d, Nam)
      BY <2>1, <2>2, <2>5, <3>2, FlFacts
    <3> HIDE DEF new
    <3>4. CASE Nam = NoDmn
      <4>1. new = {}
        BY <3>1, <3>3, <3>4 DEF NamOK
      <4>2. \A d \in DOMAIN udm : udm[d] <=> d = dr_rqs.rec
        BY <3>3, <3>4 DEF Unl
      <4>3. {d \in DOMAIN udm : udm[d]} = rec
        BY <4>1, <4>2
      <4>4. \A x \in old : x = Top(Nam)
        BY <3>4 DEF Top
      <4>5. \A v \in VarIdx : \A i \in DOMAIN dr_fl[v].dmn : dr_fl[v].dmn[i] \in old => i = 1
        BY <2>1, <2>2, <2>3, <2>5, <4>4, FlFacts, TopFirst
      <4>6. QED
        BY <4>1, <4>3, <4>5
    <3>5. CASE Nam # NoDmn
      <4>1. PICK v \in VarIdx : Wants(v) /\ Lead(v) = Nam
        BY <3>3, <3>5 DEF NamOK
      <4>2. \A x : x \in new <=> x = Nam
        BY <2>3, <3>1, <4>1 DEF Agree
      <4>3. Nam \in DOMAIN udm
        <5>1. Lead(v) \in ToSet(Var(v))
          BY <2>2, <4>1, RequiresFacts DEF Wants
        <5>2. Has(v, Nam)
          BY <2>2, <4>1, <5>1, VarFacts
        <5>3. QED
          BY <3>3, <5>2
      <4>4. \A d \in DOMAIN udm :
              udm[d] <=> d = Nam \/ (d = dr_rqs.rec /\ dr_rqs.nc4 /\ dr_rqs.mrd)
        BY <3>3, <3>5 DEF Unl
      <4>5. {d \in DOMAIN udm : udm[d]} = rec
        <5>1. CASE dr_rqs.nc4 /\ dr_rqs.mrd
          BY <4>2, <4>3, <4>4, <5>1
        <5>2. CASE ~(dr_rqs.nc4 /\ dr_rqs.mrd)
          BY <4>2, <4>3, <4>4, <5>2
        <5>3. QED
          BY <5>1, <5>2
      <4>6. \A x \in new : x = Top(Nam)
        BY <3>5, <4>2 DEF Top
      <4>7. \A u \in VarIdx : \A i \in DOMAIN dr_fl[u].dmn : dr_fl[u].dmn[i] \in new => i = 1
        BY <2>1, <2>2, <2>3, <2>5, <4>6, FlFacts, TopFirst
      <4>8. new # {}
        BY <4>2
      <4>9. QED
        BY <4>5, <4>7, <4>8
    <3>6. QED
      BY <3>4, <3>5
  <2>6. QED
    BY <2>4, <2>5 DEF OneRecordDimension
<1>2. QED
  BY <1>1, RdrInvariant, PTL

\* The dimensions of each variable in the output are in the order of -a, but
\* for the exchange of a new record dimension with the first
\* (OrderedAsAsked).
THEOREM OrderHolds == DrSpec => []OrderedAsAsked
<1>1. RdrInv => OrderedAsAsked
  <2>1. SUFFICES ASSUME RdrInv, dr_pc = "done", NEW v \in VarIdx
                 PROVE  LET out == dr_fl[v].dmn
                            new == {d \in ToSet(out) \ {dr_rqs.rec} :
                                      udm[d] /\ ~Has(v, dr_rqs.rec)}
                            swapped(p) == [i \in DOMAIN out |-> IF i = 1 THEN out[p]
                                                                ELSE IF i = p THEN out[1] ELSE out[i]]
                        IN IF new = {} THEN Arranged(v, out)
                           ELSE out[1] \in new /\ \E p \in DOMAIN out : Arranged(v, swapped(p))
    BY DEF OrderedAsAsked
  <2> DEFINE out == dr_fl[v].dmn
             new == {d \in ToSet(out) \ {dr_rqs.rec} : udm[d] /\ ~Has(v, dr_rqs.rec)}
             swapped(p) == [i \in DOMAIN out |-> IF i = 1 THEN out[p]
                                                 ELSE IF i = p THEN out[1] ELSE out[i]]
  <2>2. IsRequest(dr_rqs)
    BY <2>1, RdrAssumption DEF RdrInv, LoopInv
  <2>3. /\ out = FinalDim(v, Nam) /\ IsInjective(Final(v, Nam))
        /\ DOMAIN out = DOMAIN Var(v) /\ ToSet(out) \subseteq ToSet(Var(v))
        /\ \A d : d \in DOMAIN udm <=> \E w \in VarIdx : Has(w, d)
        /\ \A d \in DOMAIN udm : udm[d] = Unl(d, Nam)
    BY <2>1, <2>2, FlFacts
  <2>4. \A d : Has(v, d) <=> d \in ToSet(Var(v))
    BY <2>2, VarFacts
  <2>5. /\ Out(v) = [o \in DOMAIN Var(v) |-> Var(v)[Map(v)[o]]]
        /\ Arranged(v, Out(v))
    BY <2>2, OutVar
  <2>6. \A d : d \in new <=> d \in ToSet(out) /\ d = Nam /\ Joins(v, Nam)
    <3>1. \A d \in ToSet(out) : Has(v, d) /\ udm[d] = Unl(d, Nam)
      BY <2>3, <2>4
    <3>2. \A d \in ToSet(out) \ {dr_rqs.rec} : udm[d] <=> Nam # NoDmn /\ d = Nam
      BY <3>1 DEF Unl
    <3>3. \A d \in ToSet(out) : d = Nam /\ Joins(v, Nam) => d # dr_rqs.rec
      BY DEF Joins
    <3>4. QED
      BY <3>1, <3>2, <3>3 DEF Joins
  <2>7. CASE Joins(v, Nam)
    <3> DEFINE p == At(Out(v), Nam)
    <3>1. /\ p \in DOMAIN out /\ 1 \in DOMAIN out /\ Out(v)[p] = Nam
          /\ out = [i \in DOMAIN Var(v) |-> IF i = 1 THEN Out(v)[p]
                                            ELSE IF i = p THEN Out(v)[1] ELSE Out(v)[i]]
      BY <2>2, <2>3, <2>7, JoinFacts
    <3> HIDE DEF p
    <3>2. out[1] = Nam /\ Nam \in ToSet(out)
      BY <3>1 DEF ToSet
    <3>3. out[1] \in new
      BY <2>6, <2>7, <3>2
    <3>4. swapped(p) = Out(v)
      <4>1. \A i \in DOMAIN Var(v) : swapped(p)[i] = Out(v)[i]
        BY <2>3, <3>1
      <4>2. DOMAIN swapped(p) = DOMAIN Var(v) /\ DOMAIN Out(v) = DOMAIN Var(v)
        BY <2>3, <2>5
      <4>3. swapped(p) = [i \in DOMAIN Var(v) |-> swapped(p)[i]]
        BY <2>3
      <4> HIDE DEF swapped
      <4>4. QED
        BY <2>5, <4>1, <4>3
    <3>5. Arranged(v, swapped(p))
      BY <2>5, <3>4
    <3>6. QED
      BY <3>1, <3>3, <3>5
  <2>8. CASE ~Joins(v, Nam)
    <3>1. new = {}
      BY <2>6, <2>8
    <3>2. out = Out(v)
      BY <2>3, <2>5, <2>8 DEF FinalDim, Final
    <3>3. QED
      BY <2>5, <3>1, <3>2
  <2>9. QED
    BY <2>7, <2>8
<1>2. QED
  BY <1>1, RdrInvariant, PTL

-----------------------------------------------------------------------------
(* Days of the year.                                                       *)

\* Days of each month, and of all before it.
Days == <<31, 28, 31, 30, 31, 30, 31, 31, 30, 31, 30, 31>>
Before == <<0, 31, 59, 90, 120, 151, 181, 212, 243, 273, 304, 334>>

\* The table is that of the code, and one month follows the other.
LEMMA DaysFacts ==
  /\ DaysPerMonth("365") = Days
  /\ \A m \in 1..12 : /\ Days[m] \in Int /\ 28 <= Days[m] /\ Days[m] <= 31
                      /\ Before[m] \in Int /\ 0 <= Before[m] /\ Before[m] <= 334
  /\ \A m \in 1..11 : Before[m + 1] = Before[m] + Days[m]
  /\ Before[1] = 0 /\ Before[12] + Days[12] = 365
<1>1. DaysPerMonth("365") = Days
  BY DEF DaysPerMonth, Days
<1>2. \A m \in 1..12 : m = 1 \/ m = 2 \/ m = 3 \/ m = 4 \/ m = 5 \/ m = 6 \/ m = 7 \/ m = 8
                       \/ m = 9 \/ m = 10 \/ m = 11 \/ m = 12
  OBVIOUS
<1>3. \A m \in 1..12 : Days[m] \in Int /\ 28 <= Days[m] /\ Days[m] <= 31
  BY <1>2 DEF Days
<1>4. \A m \in 1..12 : Before[m] \in Int /\ 0 <= Before[m] /\ Before[m] <= 334
  BY <1>2 DEF Before
<1>5. \A m \in 1..11 : Before[m + 1] = Before[m] + Days[m]
  <2>1. SUFFICES ASSUME NEW m \in 1..11 PROVE Before[m + 1] = Before[m] + Days[m]
    OBVIOUS
  <2>2. m = 1 \/ m = 2 \/ m = 3 \/ m = 4 \/ m = 5 \/ m = 6 \/ m = 7 \/ m = 8
        \/ m = 9 \/ m = 10 \/ m = 11
    OBVIOUS
  <2>3. QED
    BY <2>2 DEF Before, Days
<1>6. Before[1] = 0 /\ Before[12] + Days[12] = 365
  BY DEF Before, Days
<1>7. QED
  BY <1>1, <1>3, <1>4, <1>5, <1>6

\* A month ends before all later ones begin.
LEMMA InOrder ==
  ASSUME NEW m \in 1..12, NEW n \in 1..12, m < n
  PROVE  Before[m] + Days[m] <= Before[n]
<1>1. \A k \in 1..12 : k = 1 \/ k = 2 \/ k = 3 \/ k = 4 \/ k = 5 \/ k = 6 \/ k = 7 \/ k = 8
                       \/ k = 9 \/ k = 10 \/ k = 11 \/ k = 12
  OBVIOUS
<1>2. m = 1 \/ m = 2 \/ m = 3 \/ m = 4 \/ m = 5 \/ m = 6 \/ m = 7 \/ m = 8
      \/ m = 9 \/ m = 10 \/ m = 11
  OBVIOUS
<1>3. /\ Before[1] = 0 /\ Before[2] = 31 /\ Before[3] = 59 /\ Before[4] = 90
      /\ Before[5] = 120 /\ Before[6] = 151 /\ Before[7] = 181 /\ Before[8] = 212
      /\ Before[9] = 243 /\ Before[10] = 273 /\ Before[11] = 304 /\ Before[12] = 334
  BY DEF Before
<1>4. /\ Days[1] = 31 /\ Days[2] = 28 /\ Days[3] = 31 /\ Days[4] = 30 /\ Days[5] = 31
      /\ Days[6] = 30 /\ Days[7] = 31 /\ Days[8] = 31 /\ Days[9] = 30 /\ Days[10] = 31
      /\ Days[11] = 30 /\ Days[12] = 31
  BY DEF Days
<1>5. QED
  BY <1>1, <1>2, <1>3, <1>4

\* Every day of the year is in a month.
LEMMA InMonth ==
  ASSUME NEW n \in 1..365
  PROVE  \E m \in 1..12 : Before[m] < n /\ n <= Before[m] + Days[m]
<1>1. /\ Before[1] = 0 /\ Before[2] = 31 /\ Before[3] = 59 /\ Before[4] = 90
      /\ Before[5] = 120 /\ Before[6] = 151 /\ Before[7] = 181 /\ Before[8] = 212
      /\ Before[9] = 243 /\ Before[10] = 273 /\ Before[11] = 304 /\ Before[12] = 334
  BY DEF Before
<1>2. /\ Days[1] = 31 /\ Days[2] = 28 /\ Days[3] = 31 /\ Days[4] = 30 /\ Days[5] = 31
      /\ Days[6] = 30 /\ Days[7] = 31 /\ Days[8] = 31 /\ Days[9] = 30 /\ Days[10] = 31
      /\ Days[11] = 30 /\ Days[12] = 31
  BY DEF Days
<1>3. CASE n <= 151
  <2>1. n \in 1..31 \/ n \in 32..59 \/ n \in 60..90 \/ n \in 91..120 \/ n \in 121..151
    BY <1>3
  <2>2. 1 \in 1..12 /\ 2 \in 1..12 /\ 3 \in 1..12 /\ 4 \in 1..12 /\ 5 \in 1..12
    OBVIOUS
  <2>3. QED
    BY <1>1, <1>2, <2>1, <2>2
<1>4. CASE n > 151
  <2>1. n \in 152..181 \/ n \in 182..212 \/ n \in 213..243 \/ n \in 244..273 \/ n \in 274..304
        \/ n \in 305..334 \/ n \in 335..365
    BY <1>4
  <2>2. /\ 6 \in 1..12 /\ 7 \in 1..12 /\ 8 \in 1..12 /\ 9 \in 1..12 /\ 10 \in 1..12
        /\ 11 \in 1..12 /\ 12 \in 1..12
    OBVIOUS
  <2>3. QED
    BY <1>1, <1>2, <2>1, <2>2
<1>5. QED
  BY <1>3, <1>4

\* The days before the d-th of month m.
LEMMA DaysBefore ==
  ASSUME NEW m \in 1..12, NEW d \in Int, 1 <= d, d <= Days[m]
  PROVE  Cardinality({x \in YearDays : x[1] < m \/ (x[1] = m /\ x[2] < d)}) = Before[m] + d - 1
<1> DEFINE S == {x \in YearDays : x[1] < m \/ (x[1] = m /\ x[2] < d)}
           k == Before[m] + d - 1
           f == [x \in S |-> Before[x[1]] + x[2]]
<1>1. /\ \A i \in 1..12 : /\ Days[i] \in Int /\ 28 <= Days[i] /\ Days[i] <= 31
                         /\ Before[i] \in Int /\ 0 <= Before[i] /\ Before[i] <= 334
      /\ DaysPerMonth("365") = Days
  BY DaysFacts
<1>2. k \in Nat /\ d \in Nat
  BY <1>1
<1>3. \A x : x \in S <=> /\ x \in (1..12) \X (1..31) /\ x[2] <= Days[x[1]]
                         /\ x[1] < m \/ (x[1] = m /\ x[2] < d)
  BY <1>1 DEF YearDays
<1> HIDE DEF S
<1>4. ASSUME NEW x \in S
      PROVE  x[1] \in 1..12 /\ x[2] \in 1..31 /\ x = <<x[1], x[2]>> /\ f[x] \in 1..k
  <2>1. x[1] \in 1..12 /\ x[2] \in 1..31 /\ x = <<x[1], x[2]>> /\ x[2] <= Days[x[1]]
    BY <1>3
  <2>2. CASE x[1] < m
    BY <1>1, <1>2, <2>1, <2>2, InOrder
  <2>3. CASE x[1] = m /\ x[2] < d
    BY <1>1, <1>2, <2>1, <2>3
  <2>4. QED
    BY <1>3, <2>1, <2>2, <2>3
<1>5. ASSUME NEW x \in S, NEW y \in S, f[x] = f[y]
      PROVE  x = y
  <2>1. /\ x[1] \in 1..12 /\ x[2] \in 1..31 /\ x[2] <= Days[x[1]]
        /\ y[1] \in 1..12 /\ y[2] \in 1..31 /\ y[2] <= Days[y[1]]
        /\ x = <<x[1], x[2]>> /\ y = <<y[1], y[2]>>
    BY <1>3
  <2>2. /\ Before[x[1]] \in Int /\ Before[y[1]] \in Int /\ Days[x[1]] \in Int /\ Days[y[1]] \in Int
    BY <1>1, <2>1
  <2>3. ~(x[1] < y[1])
    <3>1. ASSUME x[1] < y[1] PROVE FALSE
      <4>1. Before[x[1]] + Days[x[1]] <= Before[y[1]]
        BY <2>1, <3>1, InOrder
      <4>2. Before[x[1]] + x[2] = Before[y[1]] + y[2]
        BY <1>5
      <4>3. x[2] \in Int /\ y[2] \in Int /\ y[2] >= 1 /\ x[2] <= Days[x[1]]
        BY <2>1
      <4>4. QED
        BY <2>2, <4>1, <4>2, <4>3
    <3>2. QED
      BY <3>1
  <2>4. ~(y[1] < x[1])
    <3>1. ASSUME y[1] < x[1] PROVE FALSE
      <4>1. Before[y[1]] + Days[y[1]] <= Before[x[1]]
        BY <2>1, <3>1, InOrder
      <4>2. Before[x[1]] + x[2] = Before[y[1]] + y[2]
        BY <1>5
      <4>3. y[2] \in Int /\ x[2] \in Int /\ x[2] >= 1 /\ y[2] <= Days[y[1]]
        BY <2>1
      <4>4. QED
        BY <2>2, <4>1, <4>2, <4>3
    <3>2. QED
      BY <3>1
  <2>5. x[1] = y[1]
    BY <2>1, <2>3, <2>4
  <2>6. x[2] = y[2]
    BY <1>5, <2>1, <2>2, <2>5
  <2>7. QED
    BY <2>1, <2>5, <2>6
<1>6. ASSUME NEW n \in 1..k
      PROVE  \E x \in S : f[x] = n
  <2>1. n \in 1..365
    <3>1. Before[m] + Days[m] <= 365
      <4>1. CASE m = 12
        BY <4>1, DaysFacts
      <4>2. CASE m # 12
        <5>1. m < 12 /\ 12 \in 1..12
          BY <4>2
        <5>2. QED
          BY <1>1, <5>1, InOrder
      <4>3. QED
        BY <4>1, <4>2
    <3>2. QED
      BY <1>1, <1>2, <3>1
  <2>2. PICK i \in 1..12 : Before[i] < n /\ n <= Before[i] + Days[i]
    BY <2>1, InMonth
  <2> DEFINE x == <<i, n - Before[i]>>
  <2>3. n - Before[i] \in 1..31 /\ n - Before[i] <= Days[i]
    BY <1>1, <2>2
  <2>4. ~(m < i)
    <3>1. ASSUME m < i PROVE FALSE
      <4>1. Before[m] + Days[m] <= Before[i]
        BY <3>1, InOrder
      <4>2. QED
        BY <1>1, <2>2, <4>1
    <3>2. QED
      BY <3>1
  <2>5. i < m \/ (i = m /\ n - Before[i] < d)
    BY <1>1, <2>2, <2>4
  <2>6. x \in S
    BY <1>3, <2>3, <2>5
  <2>7. f[x] = n
    BY <1>1, <2>6
  <2>8. QED
    BY <2>6, <2>7
<1> HIDE DEF f, k
<1>7. f \in Bijection(S, 1..k)
  <2>1. f \in [S -> 1..k]
    BY <1>4 DEF f
  <2>2. QED
    <3>1. f \in Injection(S, 1..k)
      BY <1>5, <2>1, Zenon DEF Injection, IsInjective
    <3>2. f \in Surjection(S, 1..k)
      BY <1>6, <2>1, Zenon DEF Surjection
    <3>3. QED
      BY <3>1, <3>2 DEF Bijection
<1>8. IsFiniteSet(1..k) /\ Cardinality(1..k) = k
  BY <1>2, FS_Interval
<1>9. QED
  <2>1. ExistsBijection(1..k, S)
    BY <1>7, Fun_ExistsBijSymmetric DEF ExistsBijection
  <2>2. Cardinality(S) = k
    BY <1>8, <2>1, FS_Bijection
  <2>3. QED
    BY <2>2 DEF S, k

-----------------------------------------------------------------------------
(* Dates as numbers YYMMDD.                                                *)

MonthOf(date) == (Abs(date) % 10000) \div 100
DayOf(date) == Abs(date) % 100

\* Days from the first of the year 0 to a date.
Number(y, m, d) == y * 365 + Before[m] + d - 1

\* The parts of a date, and its number.
LEMMA Decode ==
  ASSUME NEW date \in Int, InYear(date)
  PROVE  /\ MonthOf(date) \in 1..12 /\ DayOf(date) \in Int
         /\ 1 <= DayOf(date) /\ DayOf(date) <= Days[MonthOf(date)]
         /\ Quot(date, 10000) \in Int
         /\ DayNumber(date) = Number(Quot(date, 10000), MonthOf(date), DayOf(date))
<1> DEFINE m == MonthOf(date)
           d == DayOf(date)
<1>1. <<m, d>> \in YearDays
  BY DEF InYear, MonthOf, DayOf
<1>2. DaysPerMonth("365") = Days /\ \A i \in 1..12 : Before[i] \in Int
  BY DaysFacts
<1> HIDE DEF m, d
<1>3. m \in 1..12 /\ d \in Int /\ 1 <= d /\ d <= Days[m]
  BY <1>1, <1>2 DEF YearDays
<1>4. Quot(date, 10000) \in Int
  BY DEF Quot
<1>5. DayNumber(date) = Quot(date, 10000) * 365
        + Cardinality({x \in YearDays : x[1] < m \/ (x[1] = m /\ x[2] < d)})
  BY DEF DayNumber, m, d, MonthOf, DayOf
<1>6. Cardinality({x \in YearDays : x[1] < m \/ (x[1] = m /\ x[2] < d)}) = Before[m] + d - 1
  BY <1>3, DaysBefore
<1>7. DayNumber(date) = Number(Quot(date, 10000), m, d)
  BY <1>2, <1>3, <1>4, <1>5, <1>6 DEF Number
<1>8. QED
  BY <1>3, <1>4, <1>7 DEF m, d

\* The number of a date, as nco_newdate() makes it.
Encoded(y, m, d) ==
  IF y >= 0 THEN y * 10000 + (m * 100 + d) ELSE -(-y * 10000 + (m * 100 + d))

\* A number put together from its parts has these parts.
LEMMA Encode ==
  ASSUME NEW y \in Int, NEW m \in 1..12, NEW d \in 1..31
  PROVE  /\ Quot(Encoded(y, m, d), 10000) = y
         /\ MonthOf(Encoded(y, m, d)) = m /\ DayOf(Encoded(y, m, d)) = d
<1> DEFINE v == Encoded(y, m, d)
           q == IF y >= 0 THEN y ELSE -y
           w == q * 10000 + (m * 100 + d)
<1>1. q \in Nat /\ w \in Nat /\ w > 0
  OBVIOUS
<1>2. v \in Int /\ v = IF y >= 0 THEN w ELSE -w
  BY DEF Encoded
<1> HIDE DEF v
<1>3. Abs(v) = w
  BY <1>1, <1>2 DEF Abs
<1>4. w \div 10000 = q /\ w % 10000 = m * 100 + d
  BY <1>1
<1>5. (m * 100 + d) \div 100 = m
  OBVIOUS
<1>6. w % 100 = d
  BY <1>1
<1>7. Quot(v, 10000) = y
  <2>1. CASE y >= 0
    BY <1>1, <1>2, <1>4, <2>1 DEF Quot
  <2>2. CASE y < 0
    <3>1. v < 0 /\ -v = w
      BY <1>1, <1>2, <2>2
    <3>2. Quot(v, 10000) = -(w \div 10000)
      BY <3>1 DEF Quot
    <3>3. QED
      BY <1>4, <2>2, <3>2
  <2>3. QED
    BY <2>1, <2>2
<1>8. QED
  BY <1>2, <1>3, <1>4, <1>5, <1>6, <1>7 DEF MonthOf, DayOf, v

-----------------------------------------------------------------------------
(* The loop over months.                                                   *)

\* Where the loop starts, and the day it is to reach.
SrtYear == Quot(cl_rqs.date, 10000) + Quot(cl_rqs.day, 365)
Srt == Number(SrtYear, MonthOf(cl_rqs.date), DayOf(cl_rqs.date))
Target == DayNumber(cl_rqs.date) + cl_rqs.day

Here == Number(cl_dt.year, cl_dt.month, cl_dt.day)
Months == 12 * (cl_dt.year - SrtYear) + cl_dt.month - MonthOf(cl_rqs.date)
AtStart == /\ cl_dt.year = SrtYear /\ cl_dt.month = MonthOf(cl_rqs.date)
           /\ cl_dt.day = DayOf(cl_rqs.date)

\* The loop is at a day of the year; what it has still to go leads to the
\* target, which is less than a year from where it started; and after the
\* first round, it is at the edge of a month, as many months away as rounds.
DayInv ==
  /\ cl_dt.year \in Int /\ cl_dt.month \in 1..12 /\ cl_dt.day \in Int
  /\ 1 <= cl_dt.day /\ cl_dt.day <= Days[cl_dt.month]
AheadInv ==
  /\ DayInv /\ cl_dt.ncr \in Nat /\ cl_dt.round \in 0..12
  /\ Here + cl_dt.ncr = Target /\ Target <= Srt + 364
  /\ IF cl_dt.round = 0 THEN AtStart
     ELSE cl_dt.day = 1 /\ Months = cl_dt.round
BackInv ==
  /\ DayInv /\ cl_dt.ncr \in Nat /\ cl_dt.round \in 0..12
  /\ Here - cl_dt.ncr = Target /\ Target >= Srt - 364
  /\ IF cl_dt.round = 0 THEN AtStart
     ELSE cl_dt.day = Days[cl_dt.month] /\ Months = -cl_dt.round
Fields == cl_dt \in [year : Int, month : Int, day : Int, ncr : Int, round : Int]
DateInv ==
  /\ cl_rqs \in CalRequests
  /\ cl_rqs.fnc = "date" =>
       /\ cl_pc \in {"date", "ahead", "back", "done"}
       /\ cl_pc # "date" => Fields
       /\ cl_pc = "ahead" => AheadInv
       /\ cl_pc = "back" => BackInv
       /\ cl_pc = "done" => DayInv /\ Here = Target

\* What the request gives.
LEMMA RequestFacts ==
  ASSUME cl_rqs \in CalRequests, cl_rqs.fnc = "date"
  PROVE  /\ cl_rqs.date \in Int /\ cl_rqs.day \in Int /\ InYear(cl_rqs.date)
         /\ MonthOf(cl_rqs.date) \in 1..12 /\ DayOf(cl_rqs.date) \in Int
         /\ 1 <= DayOf(cl_rqs.date) /\ DayOf(cl_rqs.date) <= Days[MonthOf(cl_rqs.date)]
         /\ Quot(cl_rqs.date, 10000) \in Int /\ Quot(cl_rqs.day, 365) \in Int
         /\ SrtYear \in Int /\ Srt \in Int /\ Target \in Int
         /\ Target = Number(Quot(cl_rqs.date, 10000), MonthOf(cl_rqs.date), DayOf(cl_rqs.date))
                     + cl_rqs.day
<1>1. cl_rqs.date \in Int /\ cl_rqs.day \in Int /\ InYear(cl_rqs.date)
  BY DatesAssumption
<1>2. Quot(cl_rqs.day, 365) \in Int
  BY <1>1 DEF Quot
<1>3. \A m \in 1..12 : Before[m] \in Int
  BY DaysFacts
<1>4. QED
  BY <1>1, <1>2, <1>3, Decode DEF SrtYear, Srt, Target, Number

\* Where a day is in the year.
LEMMA DayFacts ==
  ASSUME DayInv
  PROVE  /\ DaysPerMonth("365") = Days /\ Days[cl_dt.month] \in Int /\ Here \in Int
         /\ Before[cl_dt.month] \in Int /\ Days[cl_dt.month] <= 31
         /\ Here = cl_dt.year * 365 + Before[cl_dt.month] + cl_dt.day - 1
BY DaysFacts DEF DayInv, Here, Number

\* The remainder is less than a year.
LEMMA YearFacts ==
  ASSUME NEW a \in Nat
  PROVE  a \div 365 \in Nat /\ a % 365 \in 0..364 /\ a = 365 * (a \div 365) + (a % 365)
<1>1. a \div 365 \in Int /\ a % 365 \in 0..364
  OBVIOUS
<1>2. a = 365 * (a \div 365) + (a % 365)
  OBVIOUS
<1>3. a \div 365 \in Nat
  BY <1>1, <1>2
<1>4. QED
  BY <1>1, <1>2, <1>3

\* The whole years are added at once, and less than a year is to go.
LEMMA StartStep ==
  ASSUME cl_rqs \in CalRequests, cl_rqs.fnc = "date", StartDate
  PROVE  DateInv'
<1> DEFINE y == Quot(cl_rqs.date, 10000)
           q == Quot(cl_rqs.day, 365)
           m == MonthOf(cl_rqs.date)
           d == DayOf(cl_rqs.date)
           n == cl_rqs.day
           r == Abs(n) % 365
<1>1. /\ cl_rqs' = cl_rqs
      /\ cl_pc' = IF n = 0 THEN "done" ELSE IF n > 0 THEN "ahead" ELSE "back"
      /\ cl_dt' = [year |-> IF n = 0 THEN y ELSE y + q, month |-> m, day |-> d,
                   ncr |-> r, round |-> 0]
  BY DEF StartDate, MonthOf, DayOf
<1>2. /\ y \in Int /\ q \in Int /\ n \in Int /\ m \in 1..12 /\ d \in Int
      /\ 1 <= d /\ d <= Days[m] /\ Srt \in Int /\ Target \in Int
      /\ SrtYear = y + q /\ Target = Number(y, m, d) + n /\ Srt = Number(y + q, m, d)
  BY RequestFacts DEF SrtYear, Srt
<1>3. Before[m] \in Int /\ Days[m] \in Int
  BY <1>2, DaysFacts
<1>4. r \in Nat /\ r <= 364 /\ n = IF n < 0 THEN 365 * q - r ELSE 365 * q + r
  <2> HIDE DEF n
  <2>1. CASE n < 0
    <3>1. q = -((-n) \div 365) /\ r = (-n) % 365
      BY <2>1 DEF Quot, Abs, q, r, n
    <3>2. -n \in Nat
      BY <1>2, <2>1
    <3>4. /\ (-n) \div 365 \in Nat /\ (-n) % 365 \in 0..364
          /\ -n = 365 * ((-n) \div 365) + ((-n) % 365)
      BY <3>2, YearFacts
    <3> HIDE DEF q, r
    <3>3. QED
      BY <1>2, <2>1, <3>1, <3>2, <3>4
  <2>2. CASE ~(n < 0)
    <3>1. q = n \div 365 /\ r = n % 365
      BY <2>2 DEF Quot, Abs, q, r, n
    <3>2. n \in Nat
      BY <1>2, <2>2
    <3>4. n \div 365 \in Nat /\ n % 365 \in 0..364 /\ n = 365 * (n \div 365) + (n % 365)
      BY <3>2, YearFacts
    <3> HIDE DEF q, r
    <3>3. QED
      BY <1>2, <2>2, <3>1, <3>2, <3>4
  <2>3. QED
    BY <2>1, <2>2
<1>5. SrtYear' = SrtYear /\ Srt' = Srt /\ Target' = Target
  BY <1>1 DEF SrtYear, Srt, Target
<1> HIDE DEF y, q, m, d, r
<1>6. Fields' /\ cl_dt'.round = 0 /\ cl_dt'.ncr = r /\ cl_dt'.month = m /\ cl_dt'.day = d
  BY <1>1, <1>2, <1>4 DEF Fields
<1>7. DayInv'
  BY <1>1, <1>2 DEF DayInv
<1>8. CASE n = 0
  <2>1. Here' = Target' /\ cl_pc' = "done"
    BY <1>1, <1>2, <1>3, <1>5, <1>6, <1>8 DEF Here, Number
  <2>2. QED
    BY <1>1, <1>6, <1>7, <2>1 DEF DateInv
<1>9. CASE n # 0
  <2>1. cl_dt'.year = SrtYear /\ Here' = Srt
    BY <1>1, <1>2, <1>6, <1>9 DEF Here
  <2>2. AtStart'
    BY <1>1, <1>5, <1>6, <2>1 DEF AtStart, m, d
  <2>3. Srt = y * 365 + q * 365 + Before[m] + d - 1 /\ Target = y * 365 + Before[m] + d - 1 + n
    BY <1>2, <1>3 DEF Number
  <2>4. CASE n > 0
    <3>1. Here' + r = Target /\ Target <= Srt + 364
      BY <1>2, <1>3, <1>4, <2>1, <2>3, <2>4
    <3>2. AheadInv'
      BY <1>4, <1>5, <1>6, <1>7, <2>2, <3>1 DEF AheadInv
    <3>3. QED
      BY <1>1, <1>6, <2>4, <3>2 DEF DateInv
  <2>5. CASE n < 0
    <3>1. Here' - r = Target /\ Target >= Srt - 364
      BY <1>2, <1>3, <1>4, <2>1, <2>3, <2>5
    <3>2. BackInv'
      BY <1>4, <1>5, <1>6, <1>7, <2>2, <3>1 DEF BackInv
    <3>3. QED
      BY <1>1, <1>2, <1>6, <2>5, <3>2 DEF DateInv
  <2>6. QED
    BY <1>2, <1>9, <2>4, <2>5
<1>10. QED
  BY <1>8, <1>9

\* A round ahead, to the first day of the next month, or to the day sought.
LEMMA AheadStep ==
  ASSUME DateInv, cl_rqs.fnc = "date", Ahead
  PROVE  DateInv'
<1> DEFINE y == cl_dt.year
           m == cl_dt.month
           d == cl_dt.day
           n == cl_dt.ncr
           left == Nd2Endm(m, d)
           next == NextMonth
<1>1. /\ cl_pc = "ahead" /\ cl_rqs' = cl_rqs /\ cl_rqs \in CalRequests
      /\ AheadInv /\ Fields /\ DayInv
  BY DEF Ahead, DateInv, AheadInv
<1>2. /\ y \in Int /\ m \in 1..12 /\ d \in Int /\ 1 <= d /\ d <= Days[m]
      /\ n \in Nat /\ cl_dt.round \in 0..12
      /\ Here + n = Target /\ Target <= Srt + 364
  BY <1>1 DEF AheadInv, DayInv
<1>3. /\ Days[m] \in Int /\ Before[m] \in Int /\ Here = y * 365 + Before[m] + d - 1
      /\ left = Days[m] - d /\ Here \in Int
  BY <1>1, DayFacts DEF Nd2Endm
<1>4. /\ MonthOf(cl_rqs.date) \in 1..12 /\ DayOf(cl_rqs.date) \in Int
      /\ DayOf(cl_rqs.date) <= Days[MonthOf(cl_rqs.date)]
      /\ SrtYear \in Int /\ Srt \in Int /\ Target \in Int
  BY <1>1, RequestFacts
<1>5. SrtYear' = SrtYear /\ Srt' = Srt /\ Target' = Target
  BY <1>1 DEF SrtYear, Srt, Target
<1>6. CASE n > left
  <2>1. cl_dt.round # 12
    <3>1. SUFFICES ASSUME cl_dt.round = 12 PROVE FALSE
      OBVIOUS
    <3>2. d = 1 /\ 12 * (y - SrtYear) + m - MonthOf(cl_rqs.date) = 12
      BY <1>1, <3>1 DEF AheadInv, Months
    <3>3. y = SrtYear + 1 /\ m = MonthOf(cl_rqs.date)
      <4> DEFINE k == MonthOf(cl_rqs.date)
                 z == y - SrtYear
      <4>1. k \in 1..12 /\ m \in 1..12 /\ z \in Int /\ 12 * z + m - k = 12
        BY <1>2, <1>4, <3>2
      <4> HIDE DEF k, z, m
      <4>2. z = 1 /\ m = k
        BY <4>1
      <4>3. QED
        BY <1>2, <1>4, <4>2 DEF z, k
    <3>4. Srt = SrtYear * 365 + Before[m] + DayOf(cl_rqs.date) - 1
      BY <3>3 DEF Srt, Number
    <3>5. QED
      BY <1>2, <1>3, <1>4, <1>6, <3>2, <3>3, <3>4
  <2>2. /\ cl_dt' = [year |-> next.year, month |-> next.month, day |-> 1,
                     ncr |-> n - (left + 1), round |-> cl_dt.round + 1]
        /\ cl_pc' = IF n - (left + 1) = 0 THEN "done" ELSE "ahead"
    BY <1>1, <1>6, <2>1 DEF Ahead, RoundDone, NewMonth
  <2>3. /\ next.month = IF m = 12 THEN 1 ELSE m + 1
        /\ next.year = IF m = 12 THEN y + 1 ELSE y
    BY <1>2 DEF NextMonth
  <2>4. /\ next.month \in 1..12 /\ next.year \in Int
        /\ 12 * next.year + next.month = 12 * y + m + 1
        /\ Days[next.month] \in Int /\ 1 <= Days[next.month] /\ Before[next.month] \in Int
    BY <1>2, <2>3, DaysFacts
  <2>5. next.year * 365 + Before[next.month] = y * 365 + Before[m] + Days[m]
    <3>1. CASE m = 12
      BY <1>2, <2>3, <3>1, DaysFacts
    <3>2. CASE m # 12
      <4>1. m \in 1..11
        BY <1>2, <3>2
      <4>2. QED
        BY <1>2, <2>3, <3>2, <4>1, DaysFacts
    <3>3. QED
      BY <3>1, <3>2
  <2> HIDE DEF next, left, y, m, d, n
  <2>6. /\ cl_dt'.year = next.year /\ cl_dt'.month = next.month /\ cl_dt'.day = 1
        /\ cl_dt'.ncr = n - (left + 1) /\ cl_dt'.round = cl_dt.round + 1 /\ Fields'
    <3>1. /\ next.year \in Int /\ next.month \in Int /\ 1 \in Int
          /\ n - (left + 1) \in Int /\ cl_dt.round + 1 \in Int
      BY <1>2, <1>3, <2>4
    <3>2. /\ cl_dt'.year = next.year /\ cl_dt'.month = next.month /\ cl_dt'.day = 1
          /\ cl_dt'.ncr = n - (left + 1) /\ cl_dt'.round = cl_dt.round + 1
      BY <2>2
    <3>3. Fields'
      BY <2>2, <3>1 DEF Fields
    <3>4. QED
      BY <3>2, <3>3
  <2>7. DayInv'
    BY <2>4, <2>6 DEF DayInv
  <2>8. cl_dt'.ncr \in Nat /\ cl_dt'.round \in 1..12
    BY <1>2, <1>3, <1>6, <2>1, <2>6
  <2>9. Here' = next.year * 365 + Before[next.month]
    BY <2>4, <2>6 DEF Here, Number
  <2>10. Here' + cl_dt'.ncr = Target
    BY <1>2, <1>3, <2>4, <2>5, <2>6, <2>9
  <2>11. Months' = cl_dt'.round
    <3>1. 12 * (y - SrtYear) + m - MonthOf(cl_rqs.date) = cl_dt.round
      <4>1. CASE cl_dt.round = 0
        <5>1. y = SrtYear /\ m = MonthOf(cl_rqs.date)
          BY <1>1, <4>1 DEF AheadInv, AtStart, y, m
        <5>2. QED
          BY <1>2, <1>4, <4>1, <5>1
      <4>2. CASE cl_dt.round # 0
        BY <1>1, <4>2 DEF AheadInv, Months, y, m
      <4>3. QED
        BY <4>1, <4>2
    <3>2. Months' = 12 * (next.year - SrtYear) + next.month - MonthOf(cl_rqs.date)
      BY <1>1, <1>5, <2>6 DEF Months
    <3>3. QED
      BY <1>2, <1>4, <2>4, <2>6, <3>1, <3>2
  <2>12. AheadInv'
    BY <1>2, <1>5, <2>6, <2>7, <2>8, <2>10, <2>11 DEF AheadInv
  <2>13. CASE cl_pc' = "done"
    <3>1. cl_dt'.ncr = 0
      BY <2>2, <2>6, <2>13
    <3>2. Here' = Target'
      BY <1>5, <2>4, <2>9, <2>10, <3>1
    <3>3. QED
      BY <1>1, <2>6, <2>7, <2>13, <3>2 DEF DateInv
  <2>14. CASE cl_pc' = "ahead"
    BY <1>1, <2>6, <2>12, <2>14 DEF DateInv
  <2>15. QED
    BY <2>2, <2>13, <2>14
<1>7. CASE ~(n > left)
  <2>1. cl_dt' = [cl_dt EXCEPT !.day = @ + n, !.ncr = 0] /\ cl_pc' = "done"
    BY <1>7 DEF Ahead
  <2>2. Fields
    BY <1>1
  <2> HIDE DEF n
  <2>3. n \in Int
    BY <1>2
  <2>8. cl_dt' \in [year : Int, month : Int, day : Int, ncr : Int, round : Int]
    <3> DEFINE e == d + n
    <3>1. e \in Int /\ cl_dt' = [cl_dt EXCEPT !.day = e, !.ncr = 0]
      BY <1>2, <2>1, <2>3
    <3> HIDE DEF e
    <3>2. cl_dt \in [year : Int, month : Int, day : Int, ncr : Int, round : Int]
      BY <2>2 DEF Fields
    <3> DEFINE dt == [cl_dt EXCEPT !.day = e]
    <3>3. dt \in [year : Int, month : Int, day : Int, ncr : Int, round : Int]
      BY <3>1, <3>2
    <3>4. cl_dt' = [dt EXCEPT !.ncr = 0]
      BY <3>1
    <3> HIDE DEF dt
    <3>5. QED
      BY <3>3, <3>4
  <2>9. cl_dt'.year = y /\ cl_dt'.month = m /\ cl_dt'.day = d + n
    BY <2>1, <2>2 DEF Fields
  <2>4. Fields' /\ cl_dt'.year = y /\ cl_dt'.month = m /\ cl_dt'.day = d + n
    BY <2>8, <2>9 DEF Fields
  <2> HIDE DEF y, m, d
  <2>5. DayInv'
    BY <1>2, <1>3, <1>7, <2>4 DEF DayInv
  <2>6. Here' = Target'
    BY <1>2, <1>3, <1>5, <2>4 DEF Here, Number
  <2>7. QED
    BY <1>1, <2>1, <2>4, <2>5, <2>6 DEF DateInv
<1>8. QED
  BY <1>6, <1>7

\* A round back, to the last day of the month before, or to the day sought.
LEMMA BackStep ==
  ASSUME DateInv, cl_rqs.fnc = "date", Back
  PROVE  DateInv'
<1> DEFINE y == cl_dt.year
           m == cl_dt.month
           d == cl_dt.day
           n == cl_dt.ncr
           prior == PriorMonth
<1>1. /\ cl_pc = "back" /\ cl_rqs' = cl_rqs /\ cl_rqs \in CalRequests
      /\ BackInv /\ Fields /\ DayInv
  BY DEF Back, DateInv, BackInv
<1>2. /\ y \in Int /\ m \in 1..12 /\ d \in Int /\ 1 <= d /\ d <= Days[m]
      /\ n \in Nat /\ cl_dt.round \in 0..12
      /\ Here - n = Target /\ Target >= Srt - 364
  BY <1>1 DEF BackInv, DayInv
<1>3. /\ Days[m] \in Int /\ Before[m] \in Int /\ Here = y * 365 + Before[m] + d - 1
      /\ Here \in Int /\ DaysPerMonth("365") = Days
  BY <1>1, DayFacts
<1>4. /\ MonthOf(cl_rqs.date) \in 1..12 /\ DayOf(cl_rqs.date) \in Int
      /\ 1 <= DayOf(cl_rqs.date)
      /\ SrtYear \in Int /\ Srt \in Int /\ Target \in Int
  BY <1>1, RequestFacts
<1>5. SrtYear' = SrtYear /\ Srt' = Srt /\ Target' = Target
  BY <1>1 DEF SrtYear, Srt, Target
<1>6. CASE n >= d
  <2>1. cl_dt.round # 12
    <3>1. SUFFICES ASSUME cl_dt.round = 12 PROVE FALSE
      OBVIOUS
    <3>2. d = Days[m] /\ 12 * (y - SrtYear) + m - MonthOf(cl_rqs.date) = -12
      BY <1>1, <3>1 DEF BackInv, Months
    <3>3. y = SrtYear - 1 /\ m = MonthOf(cl_rqs.date)
      <4> DEFINE k == MonthOf(cl_rqs.date)
                 z == y - SrtYear
      <4>1. k \in 1..12 /\ m \in 1..12 /\ z \in Int /\ 12 * z + m - k = -12
        BY <1>2, <1>4, <3>2
      <4> HIDE DEF k, z, m
      <4>2. z = -1 /\ m = k
        BY <4>1
      <4>3. QED
        BY <1>2, <1>4, <4>2 DEF z, k
    <3>4. Srt = SrtYear * 365 + Before[m] + DayOf(cl_rqs.date) - 1
      BY <3>3 DEF Srt, Number
    <3>5. QED
      BY <1>2, <1>3, <1>4, <1>6, <3>2, <3>3, <3>4
  <2>2. /\ cl_dt' = [year |-> prior.year, month |-> prior.month, day |-> Days[prior.month],
                     ncr |-> n - d, round |-> cl_dt.round + 1]
        /\ cl_pc' = IF n - d = 0 THEN "done" ELSE "back"
    BY <1>1, <1>3, <1>6, <2>1 DEF Back, RoundDone
  <2>3. /\ prior.month = IF m = 1 THEN 12 ELSE m - 1
        /\ prior.year = IF m = 1 THEN y - 1 ELSE y
    BY <1>2 DEF PriorMonth
  <2>4. /\ prior.month \in 1..12 /\ prior.year \in Int
        /\ 12 * prior.year + prior.month = 12 * y + m - 1
        /\ Days[prior.month] \in Int /\ 1 <= Days[prior.month] /\ Before[prior.month] \in Int
    BY <1>2, <2>3, DaysFacts
  <2>5. prior.year * 365 + Before[prior.month] + Days[prior.month] = y * 365 + Before[m]
    <3>1. CASE m = 1
      BY <1>2, <2>3, <3>1, DaysFacts
    <3>2. CASE m # 1
      <4>1. m - 1 \in 1..11 /\ (m - 1) + 1 = m
        BY <1>2, <3>2
      <4>2. prior.month = m - 1 /\ prior.year = y
        BY <2>3, <3>2
      <4>3. Before[(m - 1) + 1] = Before[m - 1] + Days[m - 1]
        BY <4>1, DaysFacts
      <4>4. Before[m - 1] \in Int /\ Days[m - 1] \in Int
        BY <4>1, DaysFacts
      <4> HIDE DEF prior, y, m
      <4>5. QED
        BY <1>2, <4>1, <4>2, <4>3, <4>4
    <3>3. QED
      BY <3>1, <3>2
  <2> HIDE DEF prior, y, m, d, n
  <2>6. /\ cl_dt'.year = prior.year /\ cl_dt'.month = prior.month
        /\ cl_dt'.day = Days[prior.month]
        /\ cl_dt'.ncr = n - d /\ cl_dt'.round = cl_dt.round + 1 /\ Fields'
    <3>1. /\ prior.year \in Int /\ prior.month \in Int /\ Days[prior.month] \in Int
          /\ n - d \in Int /\ cl_dt.round + 1 \in Int
      BY <1>2, <1>3, <2>4
    <3>2. /\ cl_dt'.year = prior.year /\ cl_dt'.month = prior.month
          /\ cl_dt'.day = Days[prior.month] /\ cl_dt'.ncr = n - d /\ cl_dt'.round = cl_dt.round + 1
      BY <2>2
    <3>3. Fields'
      BY <2>2, <3>1 DEF Fields
    <3>4. QED
      BY <3>2, <3>3
  <2>7. DayInv'
    BY <2>4, <2>6 DEF DayInv
  <2>8. cl_dt'.ncr \in Nat /\ cl_dt'.round \in 1..12
    BY <1>2, <1>3, <1>6, <2>1, <2>6
  <2>9. Here' = prior.year * 365 + Before[prior.month] + Days[prior.month] - 1
    BY <2>4, <2>6 DEF Here, Number
  <2>10. Here' - cl_dt'.ncr = Target
    BY <1>2, <1>3, <2>4, <2>5, <2>6, <2>9
  <2>11. Months' = -cl_dt'.round
    <3>1. 12 * (y - SrtYear) + m - MonthOf(cl_rqs.date) = -cl_dt.round
      <4>1. CASE cl_dt.round = 0
        <5>1. y = SrtYear /\ m = MonthOf(cl_rqs.date)
          BY <1>1, <4>1 DEF BackInv, AtStart, y, m
        <5>2. QED
          BY <1>2, <1>4, <4>1, <5>1
      <4>2. CASE cl_dt.round # 0
        BY <1>1, <4>2 DEF BackInv, Months, y, m
      <4>3. QED
        BY <4>1, <4>2
    <3>2. Months' = 12 * (prior.year - SrtYear) + prior.month - MonthOf(cl_rqs.date)
      BY <1>1, <1>5, <2>6 DEF Months
    <3>3. Months' = -(cl_dt.round + 1)
      <4> DEFINE r == cl_dt.round
      <4>1. r \in 0..12 /\ 12 * (y - SrtYear) + m - MonthOf(cl_rqs.date) = -r
        BY <1>2, <3>1
      <4> HIDE DEF r
      <4>2. Months' = -(r + 1)
        BY <1>2, <1>4, <2>4, <3>2, <4>1
      <4>3. QED
        BY <4>2 DEF r
    <3>4. QED
      BY <2>6, <3>3
  <2>12. BackInv'
    BY <1>2, <1>5, <2>6, <2>7, <2>8, <2>10, <2>11 DEF BackInv
  <2>13. CASE cl_pc' = "done"
    <3>1. cl_dt'.ncr = 0
      BY <2>2, <2>6, <2>13
    <3>2. Here' = Target'
      BY <1>5, <2>4, <2>9, <2>10, <3>1
    <3>3. QED
      BY <1>1, <2>6, <2>7, <2>13, <3>2 DEF DateInv
  <2>14. CASE cl_pc' = "back"
    BY <1>1, <2>6, <2>12, <2>14 DEF DateInv
  <2>15. QED
    BY <2>2, <2>13, <2>14
<1>7. CASE ~(n >= d)
  <2>1. cl_dt' = [cl_dt EXCEPT !.day = @ - n, !.ncr = 0] /\ cl_pc' = "done"
    BY <1>7 DEF Back
  <2>2. Fields
    BY <1>1
  <2> HIDE DEF n
  <2>3. n \in Int
    BY <1>2
  <2>8. cl_dt' \in [year : Int, month : Int, day : Int, ncr : Int, round : Int]
    <3> DEFINE e == d - n
    <3>1. e \in Int /\ cl_dt' = [cl_dt EXCEPT !.day = e, !.ncr = 0]
      BY <1>2, <2>1, <2>3
    <3> HIDE DEF e
    <3>2. cl_dt \in [year : Int, month : Int, day : Int, ncr : Int, round : Int]
      BY <2>2 DEF Fields
    <3> DEFINE dt == [cl_dt EXCEPT !.day = e]
    <3>3. dt \in [year : Int, month : Int, day : Int, ncr : Int, round : Int]
      BY <3>1, <3>2
    <3>4. cl_dt' = [dt EXCEPT !.ncr = 0]
      BY <3>1
    <3> HIDE DEF dt
    <3>5. QED
      BY <3>3, <3>4
  <2>9. cl_dt'.year = y /\ cl_dt'.month = m /\ cl_dt'.day = d - n
    BY <2>1, <2>2 DEF Fields
  <2>4. Fields' /\ cl_dt'.year = y /\ cl_dt'.month = m /\ cl_dt'.day = d - n
    BY <2>8, <2>9 DEF Fields
  <2> HIDE DEF y, m, d
  <2>5. DayInv'
    BY <1>2, <1>3, <1>7, <2>4 DEF DayInv
  <2>6. Here' = Target'
    BY <1>2, <1>3, <1>5, <2>4 DEF Here, Number
  <2>7. QED
    BY <1>1, <2>1, <2>4, <2>5, <2>6 DEF DateInv
<1>8. QED
  BY <1>6, <1>7

\* The invariant holds when nco_newdate() is called,
LEMMA DateInit == ClInit => DateInv
BY DEF ClInit, DateInv

\* and no step, its own or of another call, breaks it.
LEMMA DateStep == DateInv /\ [ClNext]_cl_vars => DateInv'
<1> SUFFICES ASSUME DateInv, [ClNext]_cl_vars PROVE DateInv'
  OBVIOUS
<1>1. CASE cl_rqs.fnc = "date"
  <2>1. cl_pc \in {"date", "ahead", "back", "done"} /\ cl_rqs \in CalRequests
    BY <1>1 DEF DateInv
  <2>2. CASE StartDate
    BY <1>1, <2>1, <2>2, StartStep
  <2>3. CASE Ahead
    BY <1>1, <2>3, AheadStep
  <2>4. CASE Back
    BY <1>1, <2>4, BackStep
  <2>5. CASE Rebase \/ ToBase \/ Stamp \/ ClmMonth \/ ClmTimes \/ ClmBounds
    <3>1. cl_pc \in {"print", "base", "stamp", "climo", "bounds"}
      BY <2>5 DEF Rebase, ToBase, Stamp, ClmMonth, ClmTimes, ClmBounds
    <3>2. QED
      BY <2>1, <3>1
  <2>6. CASE UNCHANGED cl_vars
    <3>1. cl_rqs' = cl_rqs /\ cl_pc' = cl_pc /\ cl_dt' = cl_dt
      BY <2>6 DEF cl_vars
    <3>2. DayInv' = DayInv /\ Here' = Here /\ Target' = Target /\ Srt' = Srt
          /\ Months' = Months /\ AtStart' = AtStart /\ Fields' = Fields
      BY <3>1 DEF DayInv, Here, Target, Srt, SrtYear, Months, AtStart, Fields
    <3>3. AheadInv' = AheadInv /\ BackInv' = BackInv
      BY <3>1, <3>2 DEF AheadInv, BackInv
    <3>4. QED
      BY <1>1, <3>1, <3>2, <3>3 DEF DateInv
  <2>7. QED
    BY <2>2, <2>3, <2>4, <2>5, <2>6 DEF ClNext
<1>2. CASE cl_rqs.fnc # "date"
  <2>1. cl_rqs' = cl_rqs
    BY DEF ClNext, cl_vars, Rebase, ToBase, Stamp, ClmMonth, ClmTimes, ClmBounds, StartDate,
           Ahead, Back
  <2>2. QED
    BY <1>2, <2>1 DEF DateInv
<1>3. QED
  BY <1>1, <1>2

\* In each round of nco_newdate(), the day reached and those to go make the
\* day asked for, and it is reached within thirteen rounds, as the rounds
\* count the months passed and less than a year is to go.
THEOREM DateInvariant == ClSpec => []DateInv
<1>1. QED
  BY DateInit, DateStep, PTL DEF ClSpec

\* The date nco_newdate() returns is a day of the year, as many days from
\* the date it was given as it was asked for.
THEOREM DateIsAdvanced == ClSpec => []DateAdvanced
<1>1. DateInv => DateAdvanced
  <2> SUFFICES ASSUME DateInv, cl_rqs.fnc = "date", cl_pc = "done" PROVE
        InYear(NewDate) /\ DayNumber(NewDate) = DayNumber(cl_rqs.date) + cl_rqs.day
    BY DEF DateAdvanced
  <2> DEFINE y == cl_dt.year
             m == cl_dt.month
             d == cl_dt.day
             v == NewDate
  <2>1. DayInv /\ Here = Target
    BY DEF DateInv
  <2>2. y \in Int /\ m \in 1..12 /\ d \in Int /\ 1 <= d /\ d <= Days[m] /\ d <= 31
    BY <2>1, DayFacts DEF DayInv
  <2>3. v = Encoded(y, m, d)
    BY DEF NewDate, Encoded
  <2> HIDE DEF y, m, d, v
  <2>4. v \in Int /\ Quot(v, 10000) = y /\ MonthOf(v) = m /\ DayOf(v) = d
    <3>1. y \in Int /\ m \in 1..12 /\ d \in 1..31
      BY <2>2
    <3>2. Encoded(y, m, d) \in Int
      BY <3>1 DEF Encoded
    <3>3. Quot(Encoded(y, m, d), 10000) = y
      BY <3>1, Encode
    <3>4. MonthOf(Encoded(y, m, d)) = m
      BY <3>1, Encode
    <3>5. DayOf(Encoded(y, m, d)) = d
      BY <3>1, Encode
    <3>6. QED
      BY <2>3, <3>2, <3>3, <3>4, <3>5
  <2>5. <<m, d>> \in YearDays
    BY <2>2, DaysFacts DEF YearDays
  <2>6. InYear(v)
    BY <2>4, <2>5 DEF InYear, MonthOf, DayOf
  <2>7. DayNumber(v) = Number(y, m, d)
    BY <2>4, <2>6, Decode
  <2>8. Number(y, m, d) = DayNumber(cl_rqs.date) + cl_rqs.day
    BY <2>1 DEF Here, Target, y, m, d
  <2>9. QED
    BY <2>6, <2>7, <2>8 DEF v
<1>2. QED
  BY <1>1, DateInvariant, PTL
-----------------------------------------------------------------------------
(* The tables of Calendar: months follow each other to the end of a year.  *)

\* Days of a year, and of its first m months.
DaysOf(cln) == CASE cln = "360" -> 360 [] cln = "365" -> 365 [] cln = "366" -> 366
Thru(cln) ==
  CASE cln = "360" -> [m \in 0..12 |-> 30 * m]
    [] cln = "365" -> [m \in 0..12 |->
         <<0, 31, 59, 90, 120, 151, 181, 212, 243, 273, 304, 334, 365>>[m + 1]]
    [] cln = "366" -> [m \in 0..12 |->
         <<0, 31, 60, 91, 121, 152, 182, 213, 244, 274, 305, 335, 366>>[m + 1]]

\* The loop over the months adds up.
Sums(cln, f) == f = [m \in 0..12 |-> IF m = 0 THEN 0 ELSE f[m - 1] + DaysPerMonth(cln)[m]]
\* It adds up to this table.
LEMMA ThruSums ==
  ASSUME NEW cln \in Calendars
  PROVE  DaysSum(cln) = Thru(cln)
<1> DEFINE D == DaysPerMonth(cln)
           P == Thru(cln)
<1>1. /\ P[0] = 0 /\ P[1] = P[0] + D[1] /\ P[2] = P[1] + D[2] /\ P[3] = P[2] + D[3]
      /\ P[4] = P[3] + D[4] /\ P[5] = P[4] + D[5] /\ P[6] = P[5] + D[6]
  BY DEF Calendars, Thru, DaysPerMonth
<1>2. /\ P[7] = P[6] + D[7] /\ P[8] = P[7] + D[8] /\ P[9] = P[8] + D[9]
      /\ P[10] = P[9] + D[10] /\ P[11] = P[10] + D[11] /\ P[12] = P[11] + D[12]
  BY DEF Calendars, Thru, DaysPerMonth
<1>3. P = [m \in 0..12 |-> P[m]]
  BY DEF Calendars, Thru
<1> HIDE DEF P, D
<1>4. \A m \in 0..12 : m = 0 \/ m = 1 \/ m = 2 \/ m = 3 \/ m = 4 \/ m = 5 \/ m = 6 \/ m = 7
                       \/ m = 8 \/ m = 9 \/ m = 10 \/ m = 11 \/ m = 12
  OBVIOUS
<1>5. \A m \in 0..12 : P[m] = IF m = 0 THEN 0 ELSE P[m - 1] + D[m]
  BY <1>1, <1>2, <1>4
<1>6. Sums(cln, P)
  BY <1>3, <1>5 DEF Sums, D
<1>7. ASSUME NEW f, Sums(cln, f) PROVE f = P
  <2>1. f = [m \in 0..12 |-> f[m]]
    BY <1>7 DEF Sums
  <2>2. \A m \in 0..12 : f[m] = IF m = 0 THEN 0 ELSE f[m - 1] + D[m]
    BY <1>7 DEF Sums, D
  <2>3. /\ f[0] = P[0] /\ f[1] = f[0] + D[1] /\ f[2] = f[1] + D[2] /\ f[3] = f[2] + D[3]
        /\ f[4] = f[3] + D[4] /\ f[5] = f[4] + D[5] /\ f[6] = f[5] + D[6]
    BY <1>1, <2>2
  <2>4. /\ f[7] = f[6] + D[7] /\ f[8] = f[7] + D[8] /\ f[9] = f[8] + D[9]
        /\ f[10] = f[9] + D[10] /\ f[11] = f[10] + D[11] /\ f[12] = f[11] + D[12]
    BY <2>2
  <2>5. /\ f[0] = P[0] /\ f[1] = P[1] /\ f[2] = P[2] /\ f[3] = P[3] /\ f[4] = P[4]
        /\ f[5] = P[5] /\ f[6] = P[6]
    BY <1>1, <2>3
  <2>6. /\ f[7] = P[7] /\ f[8] = P[8] /\ f[9] = P[9] /\ f[10] = P[10] /\ f[11] = P[11]
        /\ f[12] = P[12]
    BY <1>2, <2>4, <2>5
  <2>7. \A m \in 0..12 : f[m] = P[m]
    BY <1>4, <2>5, <2>6
  <2>8. QED
    BY <1>3, <2>1, <2>7
<1>8. DaysSum(cln) = CHOOSE f : Sums(cln, f)
  BY DEF DaysSum, Sums
<1>9. QED
  BY <1>6, <1>7, <1>8 DEF P

\* How the months lie in the year.
LEMMA TableFacts ==
  ASSUME NEW cln \in Calendars
  PROVE  /\ DaysOf(cln) \in {360, 365, 366} /\ Thru(cln)[0] = 0 /\ Thru(cln)[12] = DaysOf(cln)
         /\ \A m \in 1..12 : /\ DaysPerMonth(cln)[m] \in 28..31
                             /\ Thru(cln)[m] \in Nat /\ Thru(cln)[m - 1] \in Nat
                             /\ Thru(cln)[m] = Thru(cln)[m - 1] + DaysPerMonth(cln)[m]
                             /\ Thru(cln)[m] <= DaysOf(cln)
         /\ cln = "360" => \A m \in 1..12 : /\ Thru(cln)[m - 1] = 30 * (m - 1)
                                            /\ DaysPerMonth(cln)[m] = 30
<1> DEFINE D == DaysPerMonth(cln)
           P == Thru(cln)
<1>1. /\ P[0] = 0 /\ P[1] = P[0] + D[1] /\ P[2] = P[1] + D[2] /\ P[3] = P[2] + D[3]
      /\ P[4] = P[3] + D[4] /\ P[5] = P[4] + D[5] /\ P[6] = P[5] + D[6]
  BY DEF Calendars, Thru, DaysPerMonth
<1>2. /\ P[7] = P[6] + D[7] /\ P[8] = P[7] + D[8] /\ P[9] = P[8] + D[9]
      /\ P[10] = P[9] + D[10] /\ P[11] = P[10] + D[11] /\ P[12] = P[11] + D[12]
  BY DEF Calendars, Thru, DaysPerMonth
<1>3. DaysOf(cln) \in {360, 365, 366} /\ P[12] = DaysOf(cln)
  BY DEF Calendars, Thru, DaysOf
<1>4. /\ D[1] \in 28..31 /\ D[2] \in 28..31 /\ D[3] \in 28..31 /\ D[4] \in 28..31
      /\ D[5] \in 28..31 /\ D[6] \in 28..31 /\ D[7] \in 28..31 /\ D[8] \in 28..31
      /\ D[9] \in 28..31 /\ D[10] \in 28..31 /\ D[11] \in 28..31 /\ D[12] \in 28..31
  BY DEF Calendars, DaysPerMonth
<1>5. cln = "360" => \A m \in 1..12 : P[m - 1] = 30 * (m - 1) /\ D[m] = 30
  BY DEF Thru, DaysPerMonth
<1> HIDE DEF P, D
<1>6. \A m \in 1..12 : m = 1 \/ m = 2 \/ m = 3 \/ m = 4 \/ m = 5 \/ m = 6 \/ m = 7
                       \/ m = 8 \/ m = 9 \/ m = 10 \/ m = 11 \/ m = 12
  OBVIOUS
<1>7. \A m \in 1..12 : D[m] \in 28..31
  BY <1>4, <1>6
<1>8. /\ P[0] \in Nat /\ P[1] \in Nat /\ P[2] \in Nat /\ P[3] \in Nat /\ P[4] \in Nat
      /\ P[5] \in Nat /\ P[6] \in Nat /\ P[7] \in Nat /\ P[8] \in Nat /\ P[9] \in Nat
      /\ P[10] \in Nat /\ P[11] \in Nat /\ P[12] \in Nat
  BY DEF P, Thru, Calendars
<1>9. \A m \in 1..12 : /\ P[m] \in Nat /\ P[m - 1] \in Nat /\ P[m] = P[m - 1] + D[m]
  BY <1>1, <1>2, <1>6, <1>8
<1>10. \A m \in 1..12 : P[m] <= P[12]
  BY <1>1, <1>2, <1>4, <1>6, <1>8
<1>11. QED
  BY <1>1, <1>3, <1>5, <1>7, <1>9, <1>10 DEF P, D

\* A month ends before all later ones begin.
LEMMA MonthsInOrder ==
  ASSUME NEW cln \in Calendars, NEW m \in 1..12, NEW n \in 1..12, m < n
  PROVE  Thru(cln)[m] <= Thru(cln)[n - 1]
<1> DEFINE P == Thru(cln)
<1>1. /\ P[1] \in Nat /\ P[2] \in Nat /\ P[3] \in Nat /\ P[4] \in Nat /\ P[5] \in Nat
      /\ P[6] \in Nat /\ P[7] \in Nat /\ P[8] \in Nat /\ P[9] \in Nat /\ P[10] \in Nat
      /\ P[11] \in Nat
      /\ P[1] <= P[2] /\ P[2] <= P[3] /\ P[3] <= P[4] /\ P[4] <= P[5] /\ P[5] <= P[6]
      /\ P[6] <= P[7] /\ P[7] <= P[8] /\ P[8] <= P[9] /\ P[9] <= P[10] /\ P[10] <= P[11]
  BY DEF Thru, Calendars
<1> HIDE DEF P
<1>2. \A k \in 1..11 : k = 1 \/ k = 2 \/ k = 3 \/ k = 4 \/ k = 5 \/ k = 6 \/ k = 7
                       \/ k = 8 \/ k = 9 \/ k = 10 \/ k = 11
  OBVIOUS
<1>3. m \in 1..11 /\ n - 1 \in 1..11 /\ m <= n - 1
  OBVIOUS
<1>4. QED
  BY <1>1, <1>2, <1>3 DEF P

\* Every day of a year is in a month.
LEMMA InSomeMonth ==
  ASSUME NEW cln \in Calendars, NEW n \in 1..DaysOf(cln)
  PROVE  \E m \in 1..12 : Thru(cln)[m - 1] < n /\ n <= Thru(cln)[m]
<1> DEFINE P == Thru(cln)
<1>1. /\ P[1] \in Nat /\ P[2] \in Nat /\ P[3] \in Nat /\ P[4] \in Nat /\ P[5] \in Nat
      /\ P[6] \in Nat /\ P[7] \in Nat /\ P[8] \in Nat /\ P[9] \in Nat /\ P[10] \in Nat
      /\ P[11] \in Nat /\ P[0] = 0 /\ P[12] = DaysOf(cln) /\ n \in Nat /\ n > 0
  BY DEF Thru, Calendars, DaysOf
<1> HIDE DEF P
<1>2. \/ P[0] < n /\ n <= P[1]
      \/ P[1] < n /\ n <= P[2]
      \/ P[2] < n /\ n <= P[3]
      \/ P[3] < n /\ n <= P[4]
      \/ P[4] < n /\ n <= P[5]
      \/ P[5] < n /\ n <= P[6]
      \/ P[6] < n /\ n <= P[7]
      \/ P[7] < n /\ n <= P[8]
      \/ P[8] < n /\ n <= P[9]
      \/ P[9] < n /\ n <= P[10]
      \/ P[10] < n /\ n <= P[11]
      \/ P[11] < n /\ n <= P[12]
  BY <1>1
<1>3. /\ 1 - 1 = 0 /\ 2 - 1 = 1 /\ 3 - 1 = 2 /\ 4 - 1 = 3 /\ 5 - 1 = 4 /\ 6 - 1 = 5
      /\ 7 - 1 = 6 /\ 8 - 1 = 7 /\ 9 - 1 = 8 /\ 10 - 1 = 9 /\ 11 - 1 = 10 /\ 12 - 1 = 11
  OBVIOUS
<1>4. QED
  BY <1>2, <1>3 DEF P

-----------------------------------------------------------------------------
(* A time as the seconds since the year 0, as PopVal() counts them and     *)
(* PopTm() takes them apart.                                               *)

\* The fields of a time, and the seconds from the beginning of the year 0 to it.
TimeFields == [year : Int, month : Int, day : Int, hour : Int, min : Int, sec : Int]
Count(cln, tm) ==
  86400 * (DaysOf(cln) * tm.year + Thru(cln)[tm.month - 1] + tm.day - 1)
  + 3600 * tm.hour + 60 * tm.min + tm.sec

\* A year is as many seconds as its days.
LEMMA YearSeconds ==
  ASSUME NEW cln \in Calendars
  PROVE  Seconds(cln, "year") = 86400 * DaysOf(cln) /\ Seconds(cln, "year") \in Nat \ {0}
<1>1. cln = "360" \/ cln = "365" \/ cln = "366"
  BY SMT DEF Calendars
<1>2. QED
  BY SMT, <1>1 DEF Seconds, DaysOf

\* The fields of a time; it lies in its year.
LEMMA TimeFacts ==
  ASSUME NEW cln \in Calendars, NEW tm, IsTime(cln, tm)
  PROVE  /\ tm \in TimeFields /\ 0 <= tm.year /\ 1 <= tm.month /\ tm.month <= 12 /\ 1 <= tm.day
         /\ tm.day <= 31 /\ 0 <= tm.hour /\ tm.hour <= 23 /\ 0 <= tm.min /\ tm.min <= 59
         /\ 0 <= tm.sec /\ tm.sec <= 59 /\ tm.day <= DaysPerMonth(cln)[tm.month]
         /\ Thru(cln)[tm.month - 1] \in Nat
         /\ Thru(cln)[tm.month - 1] + tm.day - 1 < DaysOf(cln)
         /\ Count(cln, tm) \in Nat
<1>1. /\ tm \in TimeFields /\ 0 <= tm.year /\ 1 <= tm.month /\ tm.month <= 12 /\ 1 <= tm.day
      /\ tm.day <= 31 /\ 0 <= tm.hour /\ tm.hour <= 23 /\ 0 <= tm.min /\ tm.min <= 59
      /\ 0 <= tm.sec /\ tm.sec <= 59 /\ tm.day <= DaysPerMonth(cln)[tm.month]
  BY SMT DEF IsTime, TimeFields
<1>2. PICK m \in 1..12 : m = tm.month
  BY SMT, <1>1 DEF TimeFields
<1>3. /\ DaysOf(cln) \in {360, 365, 366} /\ DaysPerMonth(cln)[m] \in 28..31
      /\ Thru(cln)[m] \in Nat /\ Thru(cln)[m - 1] \in Nat
      /\ Thru(cln)[m] = Thru(cln)[m - 1] + DaysPerMonth(cln)[m]
      /\ Thru(cln)[m] <= DaysOf(cln)
  BY TableFacts
<1> DEFINE p == Thru(cln)[tm.month - 1]
           l == DaysOf(cln)
<1>4. p \in Nat /\ p + tm.day - 1 < l /\ l \in Nat
  BY SMT, <1>1, <1>2, <1>3 DEF TimeFields
<1>5. Count(cln, tm) =
        86400 * (l * tm.year + p + tm.day - 1) + 3600 * tm.hour + 60 * tm.min + tm.sec
  BY DEF Count
<1> HIDE DEF p, l
<1>6. l * tm.year \in Nat
  BY SMT, <1>1, <1>4 DEF TimeFields
<1>7. Count(cln, tm) \in Nat
  BY SMT, <1>1, <1>4, <1>5, <1>6 DEF TimeFields
<1>8. QED
  BY <1>1, <1>4, <1>7 DEF p, l

\* nco_cln_pop_val() counts from the first of January of the year after the
\* origin.
LEMMA PopValCounts ==
  ASSUME NEW cln \in Calendars, NEW tm, IsTime(cln, tm)
  PROVE  PopVal(cln, tm) = Count(cln, tm) - Seconds(cln, "year") * (1 + OriginYear)
<1> DEFINE p == Thru(cln)[tm.month - 1]
           l == DaysOf(cln)
           Y == Seconds(cln, "year")
           o == OriginYear
<1>1. /\ tm \in TimeFields /\ 1 <= tm.month /\ tm.month <= 12 /\ p \in Nat
  BY TimeFacts
<1>2. l \in Int /\ Y = 86400 * l /\ Y \in Int /\ o \in Int
  BY YearSeconds, TableFacts, OriginYearAssumption
<1>3. DaysPrior(cln, tm.month) = p /\ (cln = "360" => p = 30 * (tm.month - 1))
  <2>1. PICK m \in 1..12 : m = tm.month
    BY SMT, <1>1 DEF TimeFields
  <2>2. QED
    BY <2>1, TableFacts, ThruSums DEF DaysPrior
<1> DEFINE s == IF cln = "360" THEN Seconds(cln, "month") * (tm.month - 1)
                ELSE Seconds(cln, "day") * DaysPrior(cln, tm.month)
<1>4. s = 86400 * p
  <2>1. CASE cln = "360"
    <3>1. Seconds(cln, "month") = 2592000
      BY SMT, <2>1 DEF Seconds
    <3>2. QED
      BY SMT, <1>1, <1>3, <2>1, <3>1 DEF TimeFields
  <2>2. CASE cln # "360"
    BY SMT, <1>3, <2>2 DEF Seconds
  <2>3. QED
    BY <2>1, <2>2
<1>5. Seconds(cln, "day") = 86400 /\ Seconds(cln, "hour") = 3600 /\ Seconds(cln, "min") = 60
  BY SMT DEF Seconds
<1>6. PopVal(cln, tm) = Y * (tm.year - 1 - o) + s + 86400 * (tm.day - 1) + 3600 * tm.hour
                        + 60 * tm.min + tm.sec
  BY SMT, <1>5 DEF PopVal
<1>7. Count(cln, tm) =
        86400 * (l * tm.year + p + tm.day - 1) + 3600 * tm.hour + 60 * tm.min + tm.sec
  BY DEF Count
<1> HIDE DEF p, l, Y, o, s
<1>8. Y * (tm.year - 1 - o) = 86400 * (l * tm.year) - Y * (1 + o)
  BY SMT, <1>1, <1>2 DEF TimeFields
<1>9. l * tm.year \in Int /\ Y * (1 + o) \in Int
  BY SMT, <1>1, <1>2 DEF TimeFields
<1>10. PopVal(cln, tm) = Count(cln, tm) - Y * (1 + o)
  BY SMT, <1>1, <1>4, <1>6, <1>7, <1>8, <1>9 DEF TimeFields
<1>11. QED
  BY <1>10 DEF Y, o

\* Days and seconds of the day, put together and taken apart.
LEMMA SecondsOfDay ==
  ASSUME NEW h \in 0..23, NEW m \in 0..59, NEW s \in 0..59
  PROVE  /\ 3600 * h + 60 * m + s \in Nat /\ 3600 * h + 60 * m + s < 86400
         /\ (3600 * h + 60 * m + s) \div 3600 = h
         /\ ((3600 * h + 60 * m + s) % 3600) \div 60 = m
         /\ (3600 * h + 60 * m + s) % 60 = s
  BY SMT

\* So many days and a part of a day, taken apart.
LEMMA DaysAndSeconds ==
  ASSUME NEW k \in Int, NEW t \in Nat, t < 86400
  PROVE  /\ (86400 * k + t) \div 86400 = k /\ (86400 * k + t) % 86400 = t
         /\ (86400 * k + t) % 3600 = t % 3600 /\ (86400 * k + t) % 60 = t % 60
<1>1. (86400 * k + t) \div 86400 = k /\ (86400 * k + t) % 86400 = t
  BY SMT
<1>2. (86400 * k + t) % 3600 = t % 3600
  <2>1. PICK a \in Int, b \in Int : t = 3600 * a + b /\ 0 <= b /\ b < 3600 /\ t % 3600 = b
    <3>1. t = 3600 * (t \div 3600) + (t % 3600) /\ t \div 3600 \in Int /\ t % 3600 \in Int
          /\ 0 <= t % 3600 /\ t % 3600 < 3600
      BY SMT
    <3>2. QED
      BY <3>1
  <2>2. 86400 * k + t = 3600 * (24 * k + a) + b
    BY SMT, <2>1
  <2>3. \A c \in Int : (3600 * c + b) % 3600 = b
    BY SMT, <2>1
  <2>4. 24 * k + a \in Int
    BY SMT
  <2>5. QED
    BY SMT, <2>1, <2>2, <2>3, <2>4
<1>3. (86400 * k + t) % 60 = t % 60
  <2>1. PICK a \in Int, b \in Int : t = 60 * a + b /\ 0 <= b /\ b < 60 /\ t % 60 = b
    <3>1. t = 60 * (t \div 60) + (t % 60) /\ t \div 60 \in Int /\ t % 60 \in Int
          /\ 0 <= t % 60 /\ t % 60 < 60
      BY SMT
    <3>2. QED
      BY <3>1
  <2>2. 86400 * k + t = 60 * (1440 * k + a) + b
    BY SMT, <2>1
  <2>3. \A c \in Int : (60 * c + b) % 60 = b
    BY SMT, <2>1
  <2>4. 1440 * k + a \in Int
    BY SMT
  <2>5. QED
    BY SMT, <2>1, <2>2, <2>3, <2>4
<1>4. QED
  BY <1>1, <1>2, <1>3

\* So many years and a part of a year, taken apart.
LEMMA YearsAndDays ==
  ASSUME NEW cln \in Calendars, NEW y \in Nat, NEW d \in Nat, d < DaysOf(cln),
         NEW t \in Nat, t < 86400
  PROVE  /\ (86400 * (DaysOf(cln) * y + d) + t) \div Seconds(cln, "year") = y
         /\ (86400 * (DaysOf(cln) * y + d) + t) % Seconds(cln, "year") = 86400 * d + t
<1>1. cln = "360" \/ cln = "365" \/ cln = "366"
  BY DEF Calendars
<1>2. CASE cln = "360"
  <2>1. DaysOf(cln) = 360 /\ Seconds(cln, "year") = 31104000
    BY SMT, <1>2 DEF DaysOf, Seconds
  <2>2. QED
    BY SMT, <2>1
<1>3. CASE cln = "365"
  <2>1. DaysOf(cln) = 365 /\ Seconds(cln, "year") = 31536000
    BY SMT, <1>3 DEF DaysOf, Seconds
  <2>2. QED
    BY SMT, <2>1
<1>4. CASE cln = "366"
  <2>1. DaysOf(cln) = 366 /\ Seconds(cln, "year") = 31622400
    BY SMT, <1>4 DEF DaysOf, Seconds
  <2>2. QED
    BY SMT, <2>1
<1>5. QED
  BY <1>1, <1>2, <1>3, <1>4

\* The month of a day of the year, as nco_cln_pop_tm() looks for it.
LEMMA MonthFound ==
  ASSUME NEW cln \in Calendars, NEW m \in 1..12, NEW n \in Nat,
         Thru(cln)[m - 1] < n, n <= Thru(cln)[m]
  PROVE  Min({k \in 1..12 : n <= DaysPrior(cln, k) + DaysPerMonth(cln)[k]}) = m
<1> DEFINE S == {k \in 1..12 : n <= DaysPrior(cln, k) + DaysPerMonth(cln)[k]}
<1>1. \A k \in 1..12 : /\ DaysPrior(cln, k) + DaysPerMonth(cln)[k] = Thru(cln)[k]
                       /\ Thru(cln)[k] \in Nat /\ Thru(cln)[k - 1] \in Nat
  BY TableFacts, ThruSums DEF DaysPrior
<1>2. S = {k \in 1..12 : n <= Thru(cln)[k]}
  BY <1>1
<1>3. ASSUME NEW k \in 1..12, k < m PROVE ~(n <= Thru(cln)[k])
  BY <1>1, <1>3, MonthsInOrder
<1>4. m \in S /\ \A k \in S : m <= k
  BY <1>2, <1>3
<1>5. \A x \in S : (\A k \in S : x <= k) => x = m
  BY <1>2, <1>4
<1> HIDE DEF S
<1>6. Min(S) = m
  BY <1>4, <1>5 DEF Min
<1>7. QED
  BY <1>6 DEF S

\* nco_cln_pop_tm() takes the count of a time apart into this time.
LEMMA PopTmInverts ==
  ASSUME NEW cln \in Calendars, NEW tm, IsTime(cln, tm), NEW v,
         (v[1] \div v[2]) + OriginYear * Seconds(cln, "year") = Count(cln, tm)
  PROVE  PopTm(cln, v) = tm
<1> DEFINE n == Count(cln, tm)
           Y == Seconds(cln, "year")
<1>1. PICK y \in Nat, m \in 1..12, d \in 1..31, h \in 0..23, i \in 0..59, s \in 0..59 :
        tm = Time(y, m, d, h, i, s)
  <2>1. tm = Time(tm.year, tm.month, tm.day, tm.hour, tm.min, tm.sec)
    BY SMT DEF IsTime, Time
  <2>2. /\ tm.year \in Nat /\ tm.month \in 1..12 /\ tm.day \in 1..31 /\ tm.hour \in 0..23
        /\ tm.min \in 0..59 /\ tm.sec \in 0..59
    BY DEF IsTime
  <2>3. QED
    BY <2>1, <2>2, Zenon
<1>2. /\ tm.year = y /\ tm.month = m /\ tm.day = d /\ tm.hour = h /\ tm.min = i /\ tm.sec = s
  BY <1>1 DEF Time
<1> DEFINE p == Thru(cln)[m - 1]
           e == p + d - 1
           t == 3600 * h + 60 * i + s
<1>3. p \in Nat /\ d <= DaysPerMonth(cln)[m] /\ e < DaysOf(cln) /\ e \in Nat
  <2>1. p \in Nat /\ d <= DaysPerMonth(cln)[m] /\ e < DaysOf(cln)
    BY <1>2, TimeFacts
  <2>2. QED
    BY <2>1
<1>4. t \in Nat /\ t < 86400 /\ t \div 3600 = h /\ (t % 3600) \div 60 = i /\ t % 60 = s
  BY SMT, SecondsOfDay
<1>5. n = 86400 * (DaysOf(cln) * y + e) + t
  <2>1. n = 86400 * (DaysOf(cln) * y + p + d - 1) + 3600 * h + 60 * i + s
    BY <1>2 DEF Count
  <2>2. DaysOf(cln) * y \in Nat
    BY TableFacts
  <2> DEFINE a == DaysOf(cln) * y
  <2> HIDE DEF a, n, p
  <2>3. n = 86400 * (a + p + d - 1) + 3600 * h + 60 * i + s
    BY <2>1 DEF a
  <2>4. n = 86400 * (a + e) + t
    BY SMT, <1>3, <2>2, <2>3 DEF a
  <2>5. QED
    BY <2>4 DEF a
<1>13. (v[1] \div v[2]) + OriginYear * Y = n
  OBVIOUS
<1> HIDE DEF n, Y, t
<1>6. n \div Y = y /\ n % Y = 86400 * e + t
  BY <1>3, <1>4, <1>5, YearsAndDays DEF Y
<1>7. (n % Y) \div 86400 = e
  BY <1>3, <1>4, <1>6, DaysAndSeconds
<1>8. n % 86400 = t /\ n % 3600 = t % 3600 /\ n % 60 = t % 60
  <2> DEFINE k == DaysOf(cln) * y + e
  <2>1. k \in Int
    BY <1>3, TableFacts
  <2> HIDE DEF k
  <2>2. n = 86400 * k + t
    BY <1>5 DEF k
  <2>3. QED
    BY <1>4, <2>1, <2>2, DaysAndSeconds
<1> DEFINE days == (n % Y) \div 86400 + 1
           mths == {k \in 1..12 : days <= DaysPrior(cln, k) + DaysPerMonth(cln)[k]}
<1>9. days = p + d
  BY <1>3, <1>7
<1>10. Min(mths) = m
  <2>1. Thru(cln)[m] = p + DaysPerMonth(cln)[m] /\ DaysPerMonth(cln)[m] \in Nat
    BY TableFacts
  <2>2. p < days /\ days <= Thru(cln)[m] /\ days \in Nat
    BY <1>3, <1>9, <2>1
  <2> HIDE DEF days
  <2>3. QED
    BY <2>2, MonthFound
<1>11. days - DaysPrior(cln, m) = d
  <2>1. DaysPrior(cln, m) = p
    BY ThruSums DEF DaysPrior
  <2>2. QED
    BY <1>3, <1>9, <2>1
<1>12. Seconds(cln, "day") = 86400 /\ Seconds(cln, "hour") = 3600 /\ Seconds(cln, "min") = 60
  BY SMT DEF Seconds
<1>14. PopTm(cln, v) =
         Time(n \div Y, Min(mths), days - DaysPrior(cln, Min(mths)), (n % 86400) \div 3600,
              (n % 3600) \div 60, n % 60)
  BY SMT, <1>12, <1>13 DEF PopTm, Y
<1> HIDE DEF days, mths
<1>15. QED
  BY SMT, <1>1, <1>4, <1>6, <1>8, <1>10, <1>11, <1>14

\* Quotient and rest.
LEMMA Divided ==
  ASSUME NEW a \in Nat, NEW b \in Nat \ {0}
  PROVE  /\ a \div b \in Nat /\ a - b * (a \div b) \in Nat
         /\ a - b * (a \div b) < b /\ b * (a \div b) \in Nat
<1> DEFINE q == a \div b
<1>1. q \in Nat /\ b * q <= a /\ a < b * q + b
  BY SMT
<1> HIDE DEF q
<1>2. b * q \in Nat
  BY <1>1
<1>3. a - b * q \in Nat /\ a - b * q < b
  BY <1>1, <1>2
<1>4. QED
  BY <1>1, <1>2, <1>3 DEF q

\* Second t of a day is that of the hour h, the minute m and the second s.
Shows(t, h, m, s) ==
  h \in 0..23 /\ m \in 0..59 /\ s \in 0..59 /\ t = 3600 * h + 60 * m + s
\* Every second of a day is one of some hour and minute.
LEMMA SecondsDivided ==
  ASSUME NEW t \in Nat, t < 86400
  PROVE  \E h, m, s : Shows(t, h, m, s)
<1> DEFINE h == t \div 3600
           u == t - 3600 * h
<1>1. h \in Nat /\ u \in Nat /\ u < 3600
  BY SMT, Divided
<1> HIDE DEF h
<1>2. t = 3600 * h + u
  BY SMT, <1>1
<1> HIDE DEF u
<1> DEFINE m == u \div 60
           s == u - 60 * m
<1>3. m \in Nat /\ s \in Nat /\ s < 60
  BY SMT, <1>1, Divided
<1> HIDE DEF m
<1>4. u = 60 * m + s
  BY SMT, <1>1, <1>3
<1> HIDE DEF s
<1>5. Shows(t, h, m, s)
  BY SMT, <1>1, <1>2, <1>3, <1>4 DEF Shows
<1>6. QED
  BY SMT, <1>5

\* Every number of seconds is the count of a time.
LEMMA CountsAll ==
  ASSUME NEW cln \in Calendars, NEW n \in Nat
  PROVE  \E tm : IsTime(cln, tm) /\ Count(cln, tm) = n
<1> DEFINE k == n \div 86400
           t == n % 86400
           l == DaysOf(cln)
<1>1. k \in Nat /\ t \in Nat /\ t < 86400 /\ n = 86400 * k + t
  BY SMT
<1>2. l = 360 \/ l = 365 \/ l = 366
  BY TableFacts
<1> HIDE DEF k, t, l
<1>3. PICK y \in Nat, d \in Nat : k = l * y + d /\ d < l
  <2>1. l \in Nat \ {0}
    BY SMT, <1>2
  <2> DEFINE q == k \div l
  <2>2. q \in Nat /\ l * q \in Nat /\ k - l * q \in Nat /\ k - l * q < l
    BY SMT, <1>1, <2>1, Divided
  <2> HIDE DEF q
  <2>3. k = l * q + (k - l * q)
    BY SMT, <1>1, <2>2
  <2>4. QED
    BY SMT, <2>2, <2>3
<1>4. d + 1 \in 1..l
  BY <1>2, <1>3
<1>5. PICK m \in 1..12 : Thru(cln)[m - 1] < d + 1 /\ d + 1 <= Thru(cln)[m]
  BY <1>4, InSomeMonth DEF l
<1>6. PICK h, i, s : Shows(t, h, i, s)
  BY SMT, <1>1, SecondsDivided
<1>12. h \in 0..23 /\ i \in 0..59 /\ s \in 0..59
  BY SMT, <1>6 DEF Shows
<1> DEFINE p == Thru(cln)[m - 1]
           e == d + 1 - p
           tm == Time(y, m, e, h, i, s)
<1>7. p \in Nat /\ e \in 1..31 /\ e <= DaysPerMonth(cln)[m]
  <2>1. /\ DaysPerMonth(cln)[m] \in 28..31 /\ p \in Nat
        /\ Thru(cln)[m] = p + DaysPerMonth(cln)[m] /\ p < d + 1 /\ d + 1 <= Thru(cln)[m]
    BY <1>5, TableFacts
  <2> HIDE DEF p
  <2>2. QED
    BY SMT, <2>1
<1>8. IsTime(cln, tm)
  BY SMT, <1>12, <1>7 DEF IsTime, Time
<1>9. Count(cln, tm) = 86400 * (l * y + p + e - 1) + 3600 * h + 60 * i + s
  BY DEF Count, Time, l
<1>10. Count(cln, tm) = n
  <2>1. p + e - 1 = d /\ l * y \in Nat
    BY <1>2, <1>7
  <2> DEFINE a == l * y
  <2> HIDE DEF a, p, e, tm
  <2>2. Count(cln, tm) = 86400 * (a + p + e - 1) + 3600 * h + 60 * i + s /\ k = a + d
        /\ p + e - 1 = d /\ a \in Nat
    BY <1>3, <1>9, <2>1 DEF a, e
  <2>3. QED
    BY SMT, <1>1, <1>6, <1>12, <1>7, <2>2 DEF Shows
<1>11. QED
  BY <1>8, <1>10

-----------------------------------------------------------------------------
(* The clock of CalClock: its next time is one period further.             *)

\* nxt is a time, sec seconds after tm.
Moves(cln, tm, nxt, sec) == IsTime(cln, nxt) /\ Count(cln, nxt) = Count(cln, tm) + sec

\* One hand of the clock is set.
SetHour(tm, g) == [tm EXCEPT !.hour = g]
SetMin(tm, g) == [tm EXCEPT !.min = g]
SetSec(tm, g) == [tm EXCEPT !.sec = g]
\* Its time moves by as much as the hand.
LEMMA HandSet ==
  ASSUME NEW cln \in Calendars, NEW tm, IsTime(cln, tm), NEW g \in Int, 0 <= g
  PROVE  /\ g <= 23 => Moves(cln, tm, SetHour(tm, g), 3600 * (g - tm.hour))
         /\ g <= 59 => Moves(cln, tm, SetMin(tm, g), 60 * (g - tm.min))
         /\ g <= 59 => Moves(cln, tm, SetSec(tm, g), g - tm.sec)
<1> DEFINE c == 86400 * (DaysOf(cln) * tm.year + Thru(cln)[tm.month - 1] + tm.day - 1)
<1>1. tm \in TimeFields /\ Thru(cln)[tm.month - 1] \in Nat
  BY TimeFacts
<1>2. c \in Int
  <2>1. DaysOf(cln) * tm.year \in Int
    BY SMT, <1>1, TableFacts DEF TimeFields
  <2>2. QED
    BY SMT, <1>1, <2>1 DEF TimeFields
<1>3. Count(cln, tm) = c + 3600 * tm.hour + 60 * tm.min + tm.sec
  BY DEF Count
<1>4. ASSUME g <= 23 PROVE Moves(cln, tm, SetHour(tm, g), 3600 * (g - tm.hour))
  <2> DEFINE n == [tm EXCEPT !.hour = g]
  <2>1. /\ n.year = tm.year /\ n.month = tm.month /\ n.day = tm.day /\ n.hour = g /\ n.min = tm.min
        /\ n.sec = tm.sec
    BY SMT, <1>1 DEF TimeFields
  <2>2. IsTime(cln, n)
    BY SMT, <1>4 DEF IsTime
  <2> HIDE DEF n
  <2>3. Count(cln, n) = c + 3600 * g + 60 * tm.min + tm.sec
    BY SMT, <2>1 DEF Count
  <2> HIDE DEF c
  <2>4. Count(cln, n) = Count(cln, tm) + 3600 * (g - tm.hour)
    BY SMT, <1>1, <1>2, <1>3, <2>3 DEF TimeFields
  <2>5. QED
    BY <2>2, <2>4, SMT DEF Moves, n, SetHour, SetMin, SetSec
<1>5. ASSUME g <= 59 PROVE Moves(cln, tm, SetMin(tm, g), 60 * (g - tm.min))
  <2> DEFINE n == [tm EXCEPT !.min = g]
  <2>1. /\ n.year = tm.year /\ n.month = tm.month /\ n.day = tm.day /\ n.hour = tm.hour /\ n.min = g
        /\ n.sec = tm.sec
    BY SMT, <1>1 DEF TimeFields
  <2>2. IsTime(cln, n)
    BY SMT, <1>5 DEF IsTime
  <2> HIDE DEF n
  <2>3. Count(cln, n) = c + 3600 * tm.hour + 60 * g + tm.sec
    BY SMT, <2>1 DEF Count
  <2> HIDE DEF c
  <2>4. Count(cln, n) = Count(cln, tm) + 60 * (g - tm.min)
    BY SMT, <1>1, <1>2, <1>3, <2>3 DEF TimeFields
  <2>5. QED
    BY <2>2, <2>4, SMT DEF Moves, n, SetHour, SetMin, SetSec
<1>6. ASSUME g <= 59 PROVE Moves(cln, tm, SetSec(tm, g), g - tm.sec)
  <2> DEFINE n == [tm EXCEPT !.sec = g]
  <2>1. /\ n.year = tm.year /\ n.month = tm.month /\ n.day = tm.day /\ n.hour = tm.hour
        /\ n.min = tm.min /\ n.sec = g
    BY SMT, <1>1 DEF TimeFields
  <2>2. IsTime(cln, n)
    BY SMT, <1>6 DEF IsTime
  <2> HIDE DEF n
  <2>3. Count(cln, n) = c + 3600 * tm.hour + 60 * tm.min + g
    BY SMT, <2>1 DEF Count
  <2> HIDE DEF c
  <2>4. Count(cln, n) = Count(cln, tm) + g - tm.sec
    BY SMT, <1>1, <1>2, <1>3, <2>3 DEF TimeFields
  <2>5. QED
    BY <2>2, <2>4, <1>1, <1>2, <1>3, SMT DEF Moves, n, TimeFields, SetSec
<1>7. QED
  BY <1>4, <1>5, <1>6

\* The date is set.
LEMMA DateSet ==
  ASSUME NEW cln \in Calendars, NEW tm, IsTime(cln, tm), NEW nxt \in TimeFields,
         nxt.year \in Nat, nxt.month \in 1..12, nxt.day \in 1..31,
         nxt.day <= DaysPerMonth(cln)[nxt.month],
         nxt.hour = tm.hour, nxt.min = tm.min, nxt.sec = tm.sec
  PROVE  Moves(cln, tm, nxt,
               86400 * (DaysOf(cln) * (nxt.year - tm.year) + Thru(cln)[nxt.month - 1]
                        - Thru(cln)[tm.month - 1] + nxt.day - tm.day))
<1> DEFINE l == DaysOf(cln)
           p == Thru(cln)[tm.month - 1]
           q == Thru(cln)[nxt.month - 1]
<1>1. tm \in TimeFields /\ p \in Nat /\ q \in Nat /\ l \in Int
  BY TimeFacts, TableFacts
<1>2. IsTime(cln, nxt)
  <2>1. tm.hour \in 0..23 /\ tm.min \in 0..59 /\ tm.sec \in 0..59
    BY DEF IsTime
  <2>2. QED
    BY SMT, <2>1 DEF IsTime, TimeFields
<1>3. Count(cln, tm) =
        86400 * (l * tm.year + p + tm.day - 1) + 3600 * tm.hour + 60 * tm.min + tm.sec
  BY DEF Count
<1>4. Count(cln, nxt) =
        86400 * (l * nxt.year + q + nxt.day - 1) + 3600 * tm.hour + 60 * tm.min + tm.sec
  BY SMT DEF Count
<1> HIDE DEF l, p, q
<1>5. l * (nxt.year - tm.year) = l * nxt.year - l * tm.year /\ l * tm.year \in Int
      /\ l * nxt.year \in Int
  BY SMT, <1>1 DEF TimeFields
<1>6. Count(cln, nxt) =
        Count(cln, tm) + 86400 * (l * (nxt.year - tm.year) + q - p + nxt.day - tm.day)
  BY SMT, <1>1, <1>3, <1>4, <1>5 DEF TimeFields
<1>7. QED
  BY <1>2, <1>6, SMT DEF Moves, l, p, q

\* Several hands at once.
LEMMA TwoSet ==
  ASSUME NEW tm \in TimeFields, NEW a \in Int, NEW b \in Int, NEW c \in Int
  PROVE  /\ [tm EXCEPT !.month = b, !.day = c] \in TimeFields
         /\ [tm EXCEPT !.year = a, !.month = b] \in TimeFields
         /\ [tm EXCEPT !.year = a, !.month = b, !.day = c] \in TimeFields
  BY Zenon DEF TimeFields

\* The next day is 86400 seconds later, at the same hour.
LEMMA DayMoves ==
  ASSUME NEW cln \in Calendars, NEW tm, IsTime(cln, tm)
  PROVE  /\ Moves(cln, tm, NextDay(cln, tm), 86400)
         /\ NextDay(cln, tm).hour = tm.hour /\ NextDay(cln, tm).min = tm.min
         /\ NextDay(cln, tm).sec = tm.sec
<1> DEFINE n == NextDay(cln, tm)
           D == DaysPerMonth(cln)
           P == Thru(cln)
           l == DaysOf(cln)
<1>1. /\ tm \in TimeFields /\ 0 <= tm.year /\ 1 <= tm.month /\ tm.month <= 12 /\ 1 <= tm.day
      /\ tm.day <= 31 /\ tm.day <= D[tm.month]
  BY TimeFacts
<1>2. /\ l \in Int /\ P[0] = 0 /\ P[12] = l
      /\ \A m \in 1..12 : /\ D[m] \in 28..31 /\ P[m] \in Nat /\ P[m - 1] \in Nat
                          /\ P[m] = P[m - 1] + D[m]
  BY TableFacts
<1>3. tm.month \in 1..12
  BY SMT, <1>1 DEF TimeFields
<1>4. /\ n \in TimeFields /\ n.hour = tm.hour /\ n.min = tm.min /\ n.sec = tm.sec
      /\ n.year \in Nat /\ n.month \in 1..12 /\ n.day \in 1..31 /\ n.day <= D[n.month]
      /\ l * (n.year - tm.year) + P[n.month - 1] - P[tm.month - 1] + n.day - tm.day = 1
  <2> HIDE DEF D, P, l
  <2>1. /\ D[tm.month] \in 28..31 /\ P[tm.month] \in Nat /\ P[tm.month - 1] \in Nat
        /\ P[tm.month] = P[tm.month - 1] + D[tm.month]
    BY <1>2, <1>3
  <2>2. CASE tm.day < D[tm.month]
    <3>1. n = [tm EXCEPT !.day = tm.day + 1]
      BY SMT, <2>2 DEF NextDay, D
    <3> HIDE DEF n
    <3>2. /\ n \in TimeFields /\ n.hour = tm.hour /\ n.min = tm.min /\ n.sec = tm.sec
          /\ n.year = tm.year /\ n.month = tm.month /\ n.day = tm.day + 1
      BY SMT, <1>1, <3>1 DEF TimeFields
    <3>3. n.year \in Nat /\ n.month \in 1..12 /\ n.day \in 1..31 /\ n.day <= D[n.month]
      BY SMT, <1>1, <2>1, <2>2, <3>2 DEF TimeFields
    <3>4. l * (n.year - tm.year) = 0 /\ P[n.month - 1] = P[tm.month - 1]
      BY SMT, <1>1, <1>2, <3>2 DEF TimeFields
    <3>5. QED
      BY SMT, <1>1, <2>1, <3>2, <3>3, <3>4 DEF TimeFields
  <2>3. CASE ~(tm.day < D[tm.month]) /\ tm.month < 12
    <3>1. n = [tm EXCEPT !.month = tm.month + 1, !.day = 1]
      BY SMT, <2>3 DEF NextDay, D
    <3> HIDE DEF n
    <3>2. /\ n \in TimeFields /\ n.hour = tm.hour /\ n.min = tm.min /\ n.sec = tm.sec
          /\ n.year = tm.year /\ n.month = tm.month + 1 /\ n.day = 1
      <4>1. tm.month + 1 \in Int /\ 1 \in Int /\ tm \in TimeFields
        BY SMT, <1>1 DEF TimeFields
      <4>2. n \in TimeFields
        BY <3>1, <4>1, TwoSet, Zenon
      <4>3. QED
        BY SMT, <1>1, <3>1, <4>2 DEF TimeFields
    <3>3. n.year \in Nat /\ n.month \in 1..12 /\ n.day \in 1..31
      BY SMT, <1>1, <2>1, <2>3, <3>2 DEF TimeFields
    <3>4. D[n.month] \in 28..31
      BY <1>2, <3>3
    <3>5. l * (n.year - tm.year) = 0 /\ P[n.month - 1] = P[tm.month] /\ tm.day = D[tm.month]
      BY SMT, <1>1, <1>2, <2>1, <2>3, <3>2 DEF TimeFields
    <3>6. n.day <= D[n.month]
      BY SMT, <3>2, <3>4 DEF TimeFields
    <3>7. QED
      BY SMT, <1>1, <2>1, <3>2, <3>3, <3>5, <3>6 DEF TimeFields
  <2>4. CASE ~(tm.day < D[tm.month]) /\ ~(tm.month < 12)
    <3>1. n = [tm EXCEPT !.year = tm.year + 1, !.month = 1, !.day = 1]
      BY SMT, <2>4 DEF NextDay, D
    <3> HIDE DEF n
    <3>2. /\ n \in TimeFields /\ n.hour = tm.hour /\ n.min = tm.min /\ n.sec = tm.sec
          /\ n.year = tm.year + 1 /\ n.month = 1 /\ n.day = 1
      <4>1. tm.year + 1 \in Int /\ 1 \in Int /\ tm \in TimeFields
        BY SMT, <1>1 DEF TimeFields
      <4>2. n \in TimeFields
        BY <3>1, <4>1, TwoSet, Zenon
      <4>3. QED
        BY SMT, <1>1, <3>1, <4>2 DEF TimeFields
    <3>3. n.year \in Nat /\ n.month \in 1..12 /\ n.day \in 1..31
      BY SMT, <1>1, <3>2 DEF TimeFields
    <3>4. D[n.month] \in 28..31
      BY <1>2, <3>3
    <3>5. tm.month = 12 /\ tm.day = D[tm.month]
      BY SMT, <1>1, <2>1, <2>4 DEF TimeFields
    <3>6. l * (n.year - tm.year) = l /\ P[n.month - 1] = 0 /\ P[tm.month] = l
      BY SMT, <1>1, <1>2, <3>2, <3>5 DEF TimeFields
    <3>7. n.day <= D[n.month]
      BY SMT, <3>2, <3>4 DEF TimeFields
    <3>8. QED
      BY SMT, <1>1, <1>2, <2>1, <3>2, <3>3, <3>5, <3>6, <3>7 DEF TimeFields
  <2>5. QED
    BY <2>2, <2>3, <2>4
<1> HIDE DEF n
<1>5. Moves(cln, tm, n,
            86400 * (l * (n.year - tm.year) + P[n.month - 1] - P[tm.month - 1] + n.day - tm.day))
  BY SMT, <1>4, DateSet
<1>6. Moves(cln, tm, n, 86400)
  BY SMT, <1>4, <1>5
<1>7. QED
  BY <1>4, <1>6 DEF n

\* The next hour is 3600 seconds later, at the same minute.
LEMMA HourMoves ==
  ASSUME NEW cln \in Calendars, NEW tm, IsTime(cln, tm)
  PROVE  /\ Moves(cln, tm, NextHour(cln, tm), 3600)
         /\ NextHour(cln, tm).min = tm.min /\ NextHour(cln, tm).sec = tm.sec
<1> DEFINE d == NextDay(cln, tm)
           n == NextHour(cln, tm)
<1>1. /\ tm \in TimeFields /\ 0 <= tm.hour /\ tm.hour <= 23 /\ Count(cln, tm) \in Nat
  BY TimeFacts
<1>2. CASE tm.hour < 23
  <2>1. /\ n = [tm EXCEPT !.hour = tm.hour + 1] /\ n = SetHour(tm, tm.hour + 1)
        /\ tm.hour + 1 \in Int /\ 0 <= tm.hour + 1 /\ tm.hour + 1 <= 23
    BY SMT, <1>1, <1>2 DEF NextHour, TimeFields, SetHour
  <2>2. Moves(cln, tm, n, 3600 * ((tm.hour + 1) - tm.hour))
    BY SMT, <2>1, HandSet
  <2>3. 3600 * ((tm.hour + 1) - tm.hour) = 3600 /\ n.min = tm.min /\ n.sec = tm.sec
    BY SMT, <1>1, <2>1 DEF TimeFields
  <2>4. QED
    BY SMT, <2>2, <2>3
<1>3. CASE ~(tm.hour < 23)
  <2>1. Moves(cln, tm, d, 86400) /\ d.hour = tm.hour /\ d.min = tm.min /\ d.sec = tm.sec
    BY SMT, DayMoves
  <2>2. n = [d EXCEPT !.hour = 0] /\ n = SetHour(d, 0) /\ d.hour = 23
    BY SMT, <1>1, <1>3, <2>1 DEF NextHour, TimeFields, SetHour
  <2> HIDE DEF d, n
  <2>3. IsTime(cln, d) /\ Count(cln, d) = Count(cln, tm) + 86400
    BY <2>1, SMT DEF Moves
  <2>4. d \in TimeFields /\ Moves(cln, d, n, 3600 * (0 - d.hour))
    BY SMT, <2>2, <2>3, HandSet, TimeFacts
  <2>5. Moves(cln, tm, n, 3600)
    BY SMT, <1>1, <2>2, <2>3, <2>4 DEF Moves
  <2>6. n.min = d.min /\ n.sec = d.sec
    BY SMT, <2>2, <2>4 DEF TimeFields
  <2>7. QED
    BY SMT, <2>1, <2>5, <2>6 DEF n
<1>4. QED
  BY SMT, <1>2, <1>3

\* The next minute is 60 seconds later, at the same second.
LEMMA MinMoves ==
  ASSUME NEW cln \in Calendars, NEW tm, IsTime(cln, tm)
  PROVE  Moves(cln, tm, NextMin(cln, tm), 60) /\ NextMin(cln, tm).sec = tm.sec
<1> DEFINE d == NextHour(cln, tm)
           n == NextMin(cln, tm)
<1>1. /\ tm \in TimeFields /\ 0 <= tm.min /\ tm.min <= 59 /\ Count(cln, tm) \in Nat
  BY TimeFacts
<1>2. CASE tm.min < 59
  <2>1. /\ n = [tm EXCEPT !.min = tm.min + 1] /\ n = SetMin(tm, tm.min + 1)
        /\ tm.min + 1 \in Int /\ 0 <= tm.min + 1 /\ tm.min + 1 <= 59
    BY SMT, <1>1, <1>2 DEF NextMin, TimeFields, SetMin
  <2>2. Moves(cln, tm, n, 60 * ((tm.min + 1) - tm.min))
    BY SMT, <2>1, HandSet
  <2>3. 60 * ((tm.min + 1) - tm.min) = 60 /\ n.sec = tm.sec
    BY SMT, <1>1, <2>1 DEF TimeFields
  <2>4. QED
    BY SMT, <2>2, <2>3
<1>3. CASE ~(tm.min < 59)
  <2>1. Moves(cln, tm, d, 3600) /\ d.min = tm.min /\ d.sec = tm.sec
    BY SMT, HourMoves
  <2>2. n = [d EXCEPT !.min = 0] /\ n = SetMin(d, 0) /\ d.min = 59
    BY SMT, <1>1, <1>3, <2>1 DEF NextMin, TimeFields, SetMin
  <2> HIDE DEF d, n
  <2>3. IsTime(cln, d) /\ Count(cln, d) = Count(cln, tm) + 3600
    BY <2>1, SMT DEF Moves
  <2>4. d \in TimeFields /\ Moves(cln, d, n, 60 * (0 - d.min))
    BY SMT, <2>2, <2>3, HandSet, TimeFacts
  <2>5. Moves(cln, tm, n, 60)
    BY SMT, <1>1, <2>2, <2>3, <2>4 DEF Moves
  <2>6. n.sec = d.sec
    BY SMT, <2>2, <2>4 DEF TimeFields
  <2>7. QED
    BY SMT, <2>1, <2>5, <2>6 DEF n
<1>4. QED
  BY SMT, <1>2, <1>3

\* The next second is one later.
LEMMA SecMoves ==
  ASSUME NEW cln \in Calendars, NEW tm, IsTime(cln, tm)
  PROVE  Moves(cln, tm, NextSec(cln, tm), 1)
<1> DEFINE d == NextMin(cln, tm)
           n == NextSec(cln, tm)
<1>1. /\ tm \in TimeFields /\ 0 <= tm.sec /\ tm.sec <= 59 /\ Count(cln, tm) \in Nat
  BY TimeFacts
<1>2. CASE tm.sec < 59
  <2>1. /\ n = [tm EXCEPT !.sec = tm.sec + 1] /\ n = SetSec(tm, tm.sec + 1)
        /\ tm.sec + 1 \in Int /\ 0 <= tm.sec + 1 /\ tm.sec + 1 <= 59
    BY SMT, <1>1, <1>2 DEF NextSec, TimeFields, SetSec
  <2>2. Moves(cln, tm, n, (tm.sec + 1) - tm.sec)
    BY SMT, <2>1, HandSet
  <2>3. (tm.sec + 1) - tm.sec = 1
    BY SMT, <1>1 DEF TimeFields
  <2>4. QED
    BY SMT, <2>2, <2>3
<1>3. CASE ~(tm.sec < 59)
  <2>1. Moves(cln, tm, d, 60) /\ d.sec = tm.sec
    BY SMT, MinMoves
  <2>2. n = [d EXCEPT !.sec = 0] /\ n = SetSec(d, 0) /\ d.sec = 59
    BY SMT, <1>1, <1>3, <2>1 DEF NextSec, TimeFields, SetSec
  <2> HIDE DEF d, n
  <2>3. IsTime(cln, d) /\ Count(cln, d) = Count(cln, tm) + 60
    BY <2>1, SMT DEF Moves
  <2>4. d \in TimeFields /\ Moves(cln, d, n, 0 - d.sec)
    BY SMT, <2>2, <2>3, HandSet, TimeFacts
  <2>5. Moves(cln, tm, n, 1)
    BY SMT, <1>1, <2>2, <2>3, <2>4 DEF Moves
  <2>6. QED
    BY SMT, <2>5 DEF n
<1>4. QED
  BY SMT, <1>2, <1>3

\* The same date a year later.
LEMMA YearMoves ==
  ASSUME NEW cln \in Calendars, NEW tm, IsTime(cln, tm)
  PROVE  Moves(cln, tm, [tm EXCEPT !.year = @ + 1], Seconds(cln, "year"))
<1> DEFINE n == [tm EXCEPT !.year = tm.year + 1]
           l == DaysOf(cln)
           p == Thru(cln)[tm.month - 1]
<1>1. /\ tm \in TimeFields /\ 0 <= tm.year /\ 1 <= tm.month /\ tm.month <= 12 /\ 1 <= tm.day
      /\ tm.day <= 31 /\ tm.day <= DaysPerMonth(cln)[tm.month] /\ p \in Nat /\ l \in Int
  BY TimeFacts, TableFacts
<1>2. /\ n \in TimeFields /\ n.year = tm.year + 1 /\ n.month = tm.month /\ n.day = tm.day
      /\ n.hour = tm.hour /\ n.min = tm.min /\ n.sec = tm.sec
  BY SMT, <1>1 DEF TimeFields
<1> HIDE DEF n
<1>3. n.year \in Nat /\ n.month \in 1..12 /\ n.day \in 1..31 /\ n.day <= DaysPerMonth(cln)[n.month]
  BY SMT, <1>1, <1>2 DEF TimeFields
<1>4. Moves(cln, tm, n, 86400 * (l * (n.year - tm.year) + p - p + n.day - tm.day))
  BY SMT, <1>2, <1>3, DateSet
<1> HIDE DEF l, p
<1>5. l * (n.year - tm.year) = l
  BY SMT, <1>1, <1>2 DEF TimeFields
<1>6. 86400 * (l * (n.year - tm.year) + p - p + n.day - tm.day) = 86400 * l
  BY SMT, <1>1, <1>2, <1>5 DEF TimeFields
<1>7. Moves(cln, tm, n, Seconds(cln, "year"))
  BY SMT, <1>4, <1>6, YearSeconds DEF l
<1>8. QED
  BY <1>7 DEF n

\* The same date a month later, where all are as long.
LEMMA MonthMoves ==
  ASSUME NEW tm, IsTime("360", tm)
  PROVE  Moves("360", tm, Tick("360", "month", tm), Seconds("360", "month"))
<1> DEFINE n == Tick("360", "month", tm)
           D == DaysPerMonth("360")
           P == Thru("360")
<1>1. "360" \in Calendars
  BY DEF Calendars
<1>2. /\ tm \in TimeFields /\ 0 <= tm.year /\ 1 <= tm.month /\ tm.month <= 12 /\ 1 <= tm.day
      /\ tm.day <= 31 /\ tm.day <= D[tm.month]
  BY <1>1, TimeFacts
<1>3. \A m \in 1..12 : P[m - 1] = 30 * (m - 1) /\ D[m] = 30
  BY <1>1, TableFacts
<1>4. tm.month \in 1..12
  BY SMT, <1>2 DEF TimeFields
<1>5. D[tm.month] = 30 /\ P[tm.month - 1] = 30 * (tm.month - 1)
  BY <1>3, <1>4
<1>6. /\ n \in TimeFields /\ n.day = tm.day /\ n.hour = tm.hour /\ n.min = tm.min /\ n.sec = tm.sec
      /\ n.year \in Nat /\ n.month \in 1..12
      /\ 360 * (n.year - tm.year) + 30 * (n.month - tm.month) = 30
  <2> HIDE DEF D, P
  <2>1. CASE tm.month < 12
    <3>1. n = [tm EXCEPT !.month = tm.month + 1]
      BY SMT, <2>1 DEF Tick
    <3> HIDE DEF n
    <3>2. QED
      BY SMT, <1>2, <2>1, <3>1 DEF TimeFields
  <2>2. CASE ~(tm.month < 12)
    <3>1. n = [tm EXCEPT !.year = tm.year + 1, !.month = 1]
      BY SMT, <2>2 DEF Tick
    <3> HIDE DEF n
    <3>2. tm.year + 1 \in Int /\ 1 \in Int /\ tm \in TimeFields
      BY SMT, <1>2 DEF TimeFields
    <3>3. n \in TimeFields
      BY <3>1, <3>2, TwoSet, Zenon
    <3>4. QED
      BY SMT, <1>2, <2>2, <3>1, <3>3 DEF TimeFields
  <2>3. QED
    BY <2>1, <2>2
<1> HIDE DEF n
<1>7. D[n.month] = 30 /\ P[n.month - 1] = 30 * (n.month - 1)
  BY <1>3, <1>6
<1>8. n.day \in 1..31 /\ n.day <= D[n.month]
  <2> HIDE DEF D, P
  <2>1. tm.day \in Int /\ 1 <= tm.day /\ tm.day <= 30
    BY SMT, <1>2, <1>5 DEF TimeFields
  <2>2. n.day = tm.day /\ D[n.month] = 30
    BY <1>6, <1>7
  <2>3. QED
    BY SMT, <2>1, <2>2
<1>9. Moves("360", tm, n, 86400 * (DaysOf("360") * (n.year - tm.year) + P[n.month - 1]
                                   - P[tm.month - 1] + n.day - tm.day))
  BY SMT, <1>1, <1>6, <1>8, DateSet
<1>10. 86400 * (DaysOf("360") * (n.year - tm.year) + P[n.month - 1] - P[tm.month - 1]
                + n.day - tm.day) = 2592000
  <2> HIDE DEF P, D
  <2>1. DaysOf("360") = 360
    BY DEF DaysOf
  <2>2. QED
    BY SMT, <1>2, <1>5, <1>6, <1>7, <2>1 DEF TimeFields
<1>11. Seconds("360", "month") = 2592000
  BY SMT DEF Seconds
<1>12. QED
  BY SMT, <1>9, <1>10, <1>11 DEF n

\* One tick of the clock is one period.
LEMMA TickMoves ==
  ASSUME NEW cln \in Calendars, NEW tm, IsTime(cln, tm), NEW prd \in Periods,
         prd = "month" => cln = "360"
  PROVE  Moves(cln, tm, Tick(cln, prd, tm), Seconds(cln, prd))
<1>1. CASE prd = "year"
  <2>1. Tick(cln, prd, tm) = [tm EXCEPT !.year = @ + 1]
    BY SMT, <1>1 DEF Tick
  <2>2. QED
    BY SMT, <1>1, <2>1, YearMoves
<1>2. CASE prd = "month"
  BY SMT, <1>2, MonthMoves
<1>3. CASE prd = "day"
  <2>1. Tick(cln, prd, tm) = NextDay(cln, tm) /\ Seconds(cln, prd) = 86400
    BY SMT, <1>3 DEF Tick, Seconds
  <2>2. QED
    BY SMT, <2>1, DayMoves
<1>4. CASE prd = "hour"
  <2>1. Tick(cln, prd, tm) = NextHour(cln, tm) /\ Seconds(cln, prd) = 3600
    BY SMT, <1>4 DEF Tick, Seconds
  <2>2. QED
    BY SMT, <2>1, HourMoves
<1>5. CASE prd = "min"
  <2>1. Tick(cln, prd, tm) = NextMin(cln, tm) /\ Seconds(cln, prd) = 60
    BY SMT, <1>5 DEF Tick, Seconds
  <2>2. QED
    BY SMT, <2>1, MinMoves
<1>6. CASE prd = "sec"
  <2>1. Tick(cln, prd, tm) = NextSec(cln, tm) /\ Seconds(cln, prd) = 1
    BY SMT, <1>6 DEF Tick, Seconds
  <2>2. QED
    BY SMT, <2>1, SecMoves
<1>7. QED
  BY <1>1, <1>2, <1>3, <1>4, <1>5, <1>6 DEF Periods

-----------------------------------------------------------------------------
(* Values in units: whatever the conversions, the same instant.            *)

\* Values of a coordinate.
Fractions == Int \X (Nat \ {0})

\* An instant is as many seconds since the year 0, as a fraction.
LEMMA SecondsPositive ==
  ASSUME NEW cln \in Calendars, NEW prd \in Periods
  PROVE  Seconds(cln, prd) \in Nat \ {0}
<1>1. Seconds(cln, "year") \in Nat \ {0}
  BY YearSeconds
<1>2. Seconds(cln, "month") \in Nat \ {0}
  BY SMT DEF Seconds, Calendars
<1>3. /\ Seconds(cln, "day") \in Nat \ {0} /\ Seconds(cln, "hour") \in Nat \ {0}
      /\ Seconds(cln, "min") \in Nat \ {0} /\ Seconds(cln, "sec") \in Nat \ {0}
  BY SMT DEF Seconds
<1>4. QED
  BY <1>1, <1>2, <1>3 DEF Periods

\* What ClcTm() computes, and why it is the same instant: a/b is in units of u
\* seconds since x, c/d in units of z seconds since y.
LEMMA SameProducts ==
  ASSUME NEW a \in Int, NEW b \in Int, NEW u \in Int, NEW x \in Int, NEW y \in Int, NEW z \in Int,
         NEW s \in Int, NEW t \in Int, (s + x * t) * b = (a * u + x * b) * t
  PROVE  ((s + (x - y) * t) * z + y * (t * z)) * b = (a * u + x * b) * (t * z)
<1>1. (s + (x - y) * t) * z + y * (t * z) = (s + x * t) * z
  <2>1. (x - y) * t = x * t - y * t
    BY SMT
  <2>2. y * (t * z) = (y * t) * z
    BY SMT
  <2> DEFINE p == x * t
             q == y * t
  <2>3. p \in Int /\ q \in Int
    BY SMT
  <2> HIDE DEF p, q
  <2>4. (s + (p - q)) * z + q * z = (s + p) * z
    BY SMT, <2>3
  <2>5. QED
    BY <2>1, <2>2, <2>4 DEF p, q
<1> DEFINE e == s + x * t
           f == a * u + x * b
<1>2. e \in Int /\ f \in Int /\ e * b = f * t
  BY SMT
<1> HIDE DEF e, f
<1>3. (e * z) * b = (e * b) * z
  BY SMT, <1>2
<1>4. (f * t) * z = f * (t * z)
  BY SMT, <1>2
<1>5. (e * z) * b = f * (t * z)
  BY <1>2, <1>3, <1>4
<1>6. QED
  BY <1>1, <1>5 DEF e, f

\* The instant a value stands for, times the denominator of the value; two
\* values in their units stand for the same.
Instant(cln, v, unt) == v[1] * Seconds(cln, unt.prd) + Count(cln, unt.ref) * v[2]
SameInstant(cln, v, unt, w, bs) == Instant(cln, w, bs) * v[2] = Instant(cln, v, unt) * w[2]
\* A value converted to other units stands for the same instant.
LEMMA Converts ==
  ASSUME NEW cln \in Calendars, NEW unt, IsUnit(cln, unt), NEW bs, IsUnit(cln, bs),
         NEW v \in Fractions
  PROVE  /\ ClcTm(cln, v, unt, bs) \in Fractions
         /\ SameInstant(cln, v, unt, ClcTm(cln, v, unt, bs), bs)
<1> DEFINE w == ClcTm(cln, v, unt, bs)
           x == Count(cln, unt.ref)
           y == Count(cln, bs.ref)
           u == Seconds(cln, unt.prd)
           z == Seconds(cln, bs.prd)
           k == Seconds(cln, "year") * (1 + OriginYear)
<1>1. PICK a \in Int, b \in Nat \ {0} : v = <<a, b>>
  BY DEF Fractions
<1>2. x \in Nat /\ y \in Nat /\ u \in Nat \ {0} /\ z \in Nat \ {0} /\ k \in Int
  BY TimeFacts, SecondsPositive, YearSeconds, OriginYearAssumption DEF IsUnit
<1>3. PopVal(cln, unt.ref) = x - k /\ PopVal(cln, bs.ref) = y - k
  BY PopValCounts DEF IsUnit
<1>4. /\ v[1] = a /\ v[2] = b
  BY <1>1
<1>5. CASE unt = bs
  <2>1. w = v
    BY <1>5 DEF ClcTm
  <2>2. QED
    BY <1>5, <2>1 DEF SameInstant
<1>6. CASE unt # bs
  <2> DEFINE sec == InSeconds(v, u)
             off == PopVal(cln, unt.ref) - PopVal(cln, bs.ref)
  <2>1. off = x - y
    <3> HIDE DEF x, y, k
    <3>1. QED
      BY <1>2, <1>3
  <2>2. w = <<sec[1] + off * sec[2], sec[2] * z>>
    BY <1>6 DEF ClcTm
  <2> HIDE DEF x, y, u, z, k, w, off
  <2>3. PICK s \in Int, t \in Nat \ {0} : sec = <<s, t>> /\ (s + x * t) * b = (a * u + x * b) * t
    <3>1. CASE b = u
      <4>1. sec = <<a, 1>>
        BY <1>4, <3>1 DEF InSeconds, Val
      <4>2. (a + x * 1) * b = (a * u + x * b) * 1
        BY SMT, <1>2, <3>1
      <4>3. QED
        BY <4>1, <4>2
    <3>2. CASE b # u
      <4>1. sec = <<a * u, b * 1>>
        BY <1>4, <3>2 DEF InSeconds, Times, Val
      <4>2. a * u \in Int /\ b * 1 = b
        BY <1>2
      <4>3. QED
        BY <4>1, <4>2
    <3>3. QED
      BY <3>1, <3>2
  <2> HIDE DEF sec
  <2>4. w = <<s + (x - y) * t, t * z>>
    BY <2>1, <2>2, <2>3
  <2>5. s + (x - y) * t \in Int /\ t * z \in Nat \ {0}
    BY <1>2, <2>3
  <2>6. ((s + (x - y) * t) * z + y * (t * z)) * b = (a * u + x * b) * (t * z)
    BY <1>2, <2>3, SameProducts
  <2>7. w \in Fractions
    BY <2>4, <2>5 DEF Fractions
  <2>8. w[1] = s + (x - y) * t /\ w[2] = t * z
    BY <2>4
  <2>9. Instant(cln, w, bs) = w[1] * z + y * w[2] /\ Instant(cln, v, unt) = a * u + x * b
    BY <1>4 DEF Instant, x, y, u, z
  <2>10. SameInstant(cln, v, unt, w, bs)
    BY <1>4, <2>6, <2>8, <2>9 DEF SameInstant
  <2>11. QED
    BY <2>7, <2>10 DEF w
<1>7. QED
  BY <1>5, <1>6

\* A positive factor keeps the order.
LEMMA Factor ==
  ASSUME NEW p \in Int, NEW q \in Int, NEW b \in Nat \ {0}
  PROVE  (p * b <= q * b => p <= q) /\ (p * b < q * b => p < q)
  BY SMT

\* The quotient is where the multiples of the divisor enclose the number.
LEMMA WholePart ==
  ASSUME NEW a \in Int, NEW b \in Nat \ {0}, NEW q \in Int
  PROVE  (b * q <= a /\ a < b * q + b) => a \div b = q
  BY SMT

\* As the quotient does.
LEMMA PartOf ==
  ASSUME NEW a \in Int, NEW b \in Nat \ {0}
  PROVE  a \div b \in Int /\ b * (a \div b) <= a /\ a < b * (a \div b) + b
  BY SMT

\* Equal fractions have equal quotients.
LEMMA SameWhole ==
  ASSUME NEW a \in Int, NEW b \in Nat \ {0}, NEW c \in Int, NEW d \in Nat \ {0}, c * b = a * d
  PROVE  a \div b = c \div d
<1> DEFINE q == a \div b
<1>1. q \in Int /\ b * q <= a /\ a < b * q + b
  BY PartOf
<1> HIDE DEF q
<1>2. d * q <= c
  <2>1. (b * q) * d <= a * d
    BY SMT, <1>1
  <2>2. (b * q) * d = (d * q) * b
    BY SMT, <1>1
  <2>3. d * q \in Int /\ (d * q) * b <= c * b
    BY SMT, <1>1, <2>1, <2>2
  <2>4. QED
    BY <2>3, Factor
<1>3. c < d * q + d
  <2>1. a * d < (b * q + b) * d
    BY SMT, <1>1
  <2>2. (b * q + b) * d = (d * q + d) * b
    BY SMT, <1>1
  <2>3. d * q + d \in Int /\ c * b < (d * q + d) * b
    BY SMT, <1>1, <2>1, <2>2
  <2>4. QED
    BY <2>3, Factor
<1>4. c \div d = q
  BY <1>1, <1>2, <1>3, WholePart
<1>5. QED
  BY <1>4 DEF q

\* So many wholes more, a quotient greater by as much.
LEMMA WholePlus ==
  ASSUME NEW a \in Int, NEW b \in Nat \ {0}, NEW k \in Int
  PROVE  (a + k * b) \div b = (a \div b) + k
<1> DEFINE q == a \div b
<1>1. q \in Int /\ b * q <= a /\ a < b * q + b
  BY PartOf
<1> HIDE DEF q
<1>2. b * (q + k) = b * q + k * b /\ k * b \in Int /\ b * q \in Int
  BY SMT, <1>1
<1>3. a + k * b \in Int /\ q + k \in Int /\ b * (q + k) <= a + k * b /\ a + k * b < b * (q + k) + b
  BY SMT, <1>1, <1>2
<1>4. (a + k * b) \div b = q + k
  BY <1>3, WholePart
<1>5. QED
  BY <1>4 DEF q

\* Fractions equal to the same fraction are equal.
LEMMA SecondTransitive ==
  ASSUME NEW a \in Int, NEW b \in Nat \ {0}, NEW c \in Int, NEW d \in Nat \ {0},
         NEW e \in Int, NEW f \in Nat \ {0}, c * b = a * d, e * d = c * f
  PROVE  e * b = a * f
<1>1. (e * b) * d = (e * d) * b
  BY SMT
<1>2. (c * f) * b = (c * b) * f
  BY SMT
<1>3. (a * d) * f = (a * f) * d
  BY SMT
<1>4. (e * b) * d = (a * f) * d
  BY <1>1, <1>2, <1>3
<1>5. e * b \in Int /\ a * f \in Int
  BY SMT
<1>6. e * b <= a * f /\ a * f <= e * b
  <2>1. (e * b) * d <= (a * f) * d /\ (a * f) * d <= (e * b) * d
    BY SMT, <1>4, <1>5
  <2>2. QED
    BY <1>5, <2>1, Factor
<1>7. QED
  BY <1>5, <1>6

\* The second since the year 0 in which the instant falls.
WholeSeconds(cln, v, unt) == Instant(cln, v, unt) \div v[2]

\* The units values are taken apart in count seconds from the year of origin,
\* which nco_cln_pop_tm() adds again.
LEMMA BaseUnit ==
  ASSUME NEW cln \in Calendars
  PROVE  /\ IsUnit(cln, BsUnit) /\ BsUnit.prd = "sec"
         /\ Count(cln, BsUnit.ref) = OriginYear * Seconds(cln, "year")
<1>1. BsUnit.prd = "sec" /\ BsUnit.ref = Time(OriginYear, 1, 1, 0, 0, 0)
  BY DEF BsUnit, Unit
<1> DEFINE t == Time(OriginYear, 1, 1, 0, 0, 0)
<1>2. OriginYear \in Nat
  BY OriginYearAssumption
<1>3. DaysPerMonth(cln)[1] \in 28..31 /\ Thru(cln)[1 - 1] = 0
  <2>1. 1 \in 1..12 /\ 1 - 1 = 0
    OBVIOUS
  <2>2. QED
    BY <2>1, TableFacts
<1>4. IsTime(cln, t)
  BY SMT, <1>2, <1>3 DEF IsTime, Time
<1>5. Count(cln, t) = 86400 * (DaysOf(cln) * OriginYear + 0 + 1 - 1) + 3600 * 0 + 60 * 0 + 0
  BY SMT, <1>3 DEF Count, Time
<1>6. Seconds(cln, "year") = 86400 * DaysOf(cln) /\ DaysOf(cln) \in Nat
  BY YearSeconds, TableFacts
<1>7. Count(cln, t) = OriginYear * Seconds(cln, "year")
  <2> DEFINE l == DaysOf(cln)
             c == Count(cln, t)
             Y == Seconds(cln, "year")
  <2> HIDE DEF t, l, c, Y
  <2>1. /\ l * OriginYear \in Nat /\ Y * OriginYear = 86400 * (l * OriginYear)
        /\ Y * OriginYear = OriginYear * Y
    BY SMT, <1>2, <1>6 DEF l, Y
  <2>2. c = 86400 * (l * OriginYear + 0 + 1 - 1) + 3600 * 0 + 60 * 0 + 0
    BY <1>5, SMT DEF l, c
  <2>3. c = OriginYear * Y
    BY SMT, <2>1, <2>2
  <2>4. QED
    BY <2>3 DEF c, Y
<1>8. QED
  BY <1>1, <1>4, <1>7, SMT DEF IsUnit, Periods

\* In those units, the same second.
LEMMA InBase ==
  ASSUME NEW cln \in Calendars, NEW v \in Fractions, NEW unt, IsUnit(cln, unt), NEW w \in Fractions,
         SameInstant(cln, v, unt, w, BsUnit)
  PROVE  (w[1] \div w[2]) + OriginYear * Seconds(cln, "year") = WholeSeconds(cln, v, unt)
<1> DEFINE k == OriginYear * Seconds(cln, "year")
           x == Count(cln, unt.ref)
           u == Seconds(cln, unt.prd)
<1>1. PICK a \in Int, b \in Nat \ {0} : v = <<a, b>>
  BY DEF Fractions
<1>2. PICK c \in Int, d \in Nat \ {0} : w = <<c, d>>
  BY DEF Fractions
<1>3. k \in Int /\ x \in Int /\ u \in Int
  BY YearSeconds, OriginYearAssumption, TimeFacts, SecondsPositive DEF IsUnit
<1>4. Count(cln, BsUnit.ref) = k /\ Seconds(cln, BsUnit.prd) = 1
  <2>1. Seconds(cln, "sec") = 1
    BY SMT DEF Seconds
  <2>2. QED
    BY <2>1, BaseUnit
<1> DEFINE i == a * u + x * b
<1>5. Instant(cln, w, BsUnit) = c * 1 + k * d /\ Instant(cln, v, unt) = i
  BY <1>1, <1>2, <1>4 DEF Instant
<1>6. (c * 1 + k * d) * b = i * d
  BY <1>1, <1>2, <1>5 DEF SameInstant
<1>7. i \in Int
  <2> HIDE DEF x, u
  <2>1. QED
    BY SMT, <1>3
<1> HIDE DEF k, x, u, i
<1>8. c * 1 + k * d = c + k * d /\ c + k * d \in Int
  BY <1>3
<1>9. i \div b = (c + k * d) \div d
  <2> DEFINE e == c + k * d
  <2>1. e \in Int /\ e * b = i * d
    BY <1>6, <1>8
  <2> HIDE DEF e
  <2>2. i \div b = e \div d
    BY <1>7, <2>1, SameWhole
  <2>3. QED
    BY <2>2 DEF e
<1>10. (c + k * d) \div d = (c \div d) + k
  BY <1>3, WholePlus
<1>11. WholeSeconds(cln, v, unt) = i \div b
  BY <1>1, <1>5 DEF WholeSeconds
<1>12. QED
  BY <1>2, <1>9, <1>10, <1>11 DEF k

\* Converted twice, still the same instant.
LEMMA ThroughUnits ==
  ASSUME NEW cln \in Calendars, NEW v \in Fractions, NEW unt, IsUnit(cln, unt),
         NEW u \in Fractions, NEW rbs, IsUnit(cln, rbs), SameInstant(cln, v, unt, u, rbs),
         NEW w \in Fractions, NEW bs, IsUnit(cln, bs), SameInstant(cln, u, rbs, w, bs)
  PROVE  SameInstant(cln, v, unt, w, bs)
<1> DEFINE a == Instant(cln, v, unt)
           c == Instant(cln, u, rbs)
           e == Instant(cln, w, bs)
<1>1. /\ v[1] \in Int /\ v[2] \in Nat \ {0} /\ u[1] \in Int /\ u[2] \in Nat \ {0}
      /\ w[1] \in Int /\ w[2] \in Nat \ {0}
  BY DEF Fractions
<1>2. ASSUME NEW x \in Fractions, NEW s, IsUnit(cln, s) PROVE Instant(cln, x, s) \in Int
  <2>1. Seconds(cln, s.prd) \in Int /\ Count(cln, s.ref) \in Int
    BY <1>2, TimeFacts, SecondsPositive DEF IsUnit
  <2>2. PICK p \in Int, q \in Int : x[1] = p /\ x[2] = q
    BY DEF Fractions
  <2>3. QED
    BY <2>1, <2>2 DEF Instant
<1>3. a \in Int /\ c \in Int /\ e \in Int
  BY <1>2
<1>4. c * v[2] = a * u[2] /\ e * u[2] = c * w[2]
  BY DEF SameInstant
<1> HIDE DEF a, c, e
<1>5. e * v[2] = a * w[2]
  <2> DEFINE b == v[2]
             d == u[2]
             f == w[2]
  <2>1. b \in Nat \ {0} /\ d \in Nat \ {0} /\ f \in Nat \ {0} /\ c * b = a * d /\ e * d = c * f
    BY <1>1, <1>4
  <2> HIDE DEF b, d, f
  <2>2. e * b = a * f
    BY <1>3, <2>1, SecondTransitive
  <2>3. QED
    BY <2>2 DEF b, f
<1>6. QED
  BY <1>5 DEF SameInstant, a, e

\* A number between two multiples is none.
LEMMA NotWhole ==
  ASSUME NEW n \in Int, NEW m \in Nat \ {0}, NEW k \in Int, NEW b \in Int,
         0 < b, b < m, n = m * k + b
  PROVE  n % m # 0
  BY SMT

\* lrint() of a whole number is this number.
LEMMA RintExact ==
  ASSUME NEW cln \in Calendars, NEW bs, IsUnit(cln, bs), NEW u \in Fractions, u[1] % u[2] = 0
  PROVE  Rint(u) \in Fractions /\ SameInstant(cln, u, bs, Rint(u), bs)
<1>1. PICK a \in Int, b \in Nat \ {0} : u = <<a, b>>
  BY DEF Fractions
<1>2. u[1] = a /\ u[2] = b /\ a % b = 0
  BY <1>1
<1> DEFINE k == a \div b
<1>3. k \in Int /\ a = b * k
  BY SMT, <1>2
<1> HIDE DEF k
<1> DEFINE n == 2 * a + b
           m == 2 * b
<1>4. n \in Int /\ m \in Nat \ {0} /\ n = m * k + b
  BY SMT, <1>3
<1>5. m * k \in Int /\ m * k <= n /\ n < m * k + m
  BY SMT, <1>3, <1>4
<1>6. n \div m = k
  <2> HIDE DEF n, m
  <2>1. QED
    BY <1>3, <1>4, <1>5, WholePart
<1>7. n % m # 0
  <2>1. 0 < b /\ b < m
    BY SMT
  <2> HIDE DEF n, m
  <2>2. QED
    BY <1>3, <1>4, <2>1, NotWhole
<1>8. Rint(u) = <<k, 1>>
  <2>1. Rint(u) = Val(IF n % m = 0 /\ (n \div m) % 2 = 1 THEN (n \div m) - 1 ELSE n \div m)
    BY <1>2, Zenon DEF Rint
  <2> HIDE DEF n, m
  <2>2. QED
    BY <1>6, <1>7, <2>1 DEF Val
<1> DEFINE s == Seconds(cln, bs.prd)
           c == Count(cln, bs.ref)
<1>9. s \in Int /\ c \in Int
  BY TimeFacts, SecondsPositive DEF IsUnit
<1>10. Instant(cln, Rint(u), bs) = k * s + c * 1 /\ Instant(cln, u, bs) = a * s + c * b
  BY <1>2, <1>8 DEF Instant
<1> HIDE DEF s, c
<1>11. (k * s + c * 1) * b = (a * s + c * b) * 1
  BY SMT, <1>3, <1>9
<1>12. SameInstant(cln, u, bs, Rint(u), bs)
  BY <1>2, <1>8, <1>10, <1>11 DEF SameInstant
<1>13. QED
  BY <1>3, <1>8, <1>12 DEF Fractions

-----------------------------------------------------------------------------
(* The time stamps.                                                        *)

\* The i-th value in the units of the first file, in seconds, and its stamp.
NewVal(r, i) == OfType(ClcTm(r.cln, r.val[i], r.unt, r.rbs), r.typ)
SecVal(r, i) == ClcTm(r.cln, NewVal(r, i), r.rbs, BsUnit)
IsThere(r, i) == ~Missing(r.val[i], r.mss)
StampOf(r, i) == IF IsThere(r, i) THEN PopTm(r.cln, SecVal(r, i)) ELSE <<>>

\* The stamp of a value is the time that lies as many seconds after the year
\* 0 as the value says in the units of its file.
LEMMA StampRight ==
  ASSUME NEW r \in CalRequests, r.fnc = "print", Exact(r), NEW i \in DOMAIN r.val, IsThere(r, i)
  PROVE  /\ r.val[i] \in Fractions /\ WholeSeconds(r.cln, r.val[i], r.unt) \in Nat
         /\ \A tm : IsTime(r.cln, tm) /\ Count(r.cln, tm) = WholeSeconds(r.cln, r.val[i], r.unt)
                      => StampOf(r, i) = tm
<1> DEFINE cln == r.cln
           v == r.val[i]
           u == ClcTm(cln, v, r.unt, r.rbs)
           w == NewVal(r, i)
           s == SecVal(r, i)
<1>1. /\ cln \in Calendars /\ IsUnit(cln, r.unt) /\ IsUnit(cln, r.rbs) /\ r.typ \in {"dbl", "int"}
      /\ r.val \in Seq(Fractions)
  BY PrintsAssumption DEF Fractions
<1>2. v \in Fractions
  BY <1>1
<1>3. IsUnit(cln, BsUnit)
  BY <1>1, BaseUnit
<1>4. /\ r.typ = "int" => u[1] % u[2] = 0
      /\ (s[1] \div s[2]) + OriginYear * Seconds(cln, "year") >= 0
  BY DEF Exact, IsThere, SecVal, NewVal
<1>5. w = OfType(u, r.typ) /\ s = ClcTm(cln, w, r.rbs, BsUnit) /\ StampOf(r, i) = PopTm(cln, s)
  BY DEF NewVal, SecVal, StampOf
<1> HIDE DEF cln, v, u, w, s
<1>6. u \in Fractions /\ SameInstant(cln, v, r.unt, u, r.rbs)
  BY <1>1, <1>2, Converts DEF u
<1>7. w \in Fractions /\ SameInstant(cln, v, r.unt, w, r.rbs)
  <2>1. CASE r.typ = "int"
    <3>1. w = Rint(u)
      BY <1>5, <2>1 DEF OfType
    <3>2. w \in Fractions /\ SameInstant(cln, u, r.rbs, w, r.rbs)
      BY <1>1, <1>4, <1>6, <2>1, <3>1, RintExact
    <3>3. QED
      BY <1>1, <1>2, <1>6, <3>2, ThroughUnits
  <2>2. CASE r.typ = "dbl"
    BY <1>5, <1>6, <2>2 DEF OfType
  <2>3. QED
    BY <1>1, <2>1, <2>2
<1>8. s \in Fractions /\ SameInstant(cln, w, r.rbs, s, BsUnit)
  BY <1>1, <1>3, <1>5, <1>7, Converts
<1>9. SameInstant(cln, v, r.unt, s, BsUnit)
  BY <1>1, <1>2, <1>3, <1>7, <1>8, ThroughUnits
<1>10. (s[1] \div s[2]) + OriginYear * Seconds(cln, "year") = WholeSeconds(cln, v, r.unt)
  BY <1>1, <1>2, <1>8, <1>9, InBase
<1>11. WholeSeconds(cln, v, r.unt) \in Int
  <2>1. PICK c \in Int, d \in Nat \ {0} : s = <<c, d>>
    BY <1>8 DEF Fractions
  <2>2. (c \div d) \in Int /\ OriginYear * Seconds(cln, "year") \in Int
    BY <1>1, PartOf, YearSeconds, OriginYearAssumption
  <2> DEFINE k == OriginYear * Seconds(cln, "year")
             q == c \div d
  <2>3. WholeSeconds(cln, v, r.unt) = q + k
    BY <1>10, <2>1
  <2> HIDE DEF q, k
  <2>4. QED
    BY <2>2, <2>3 DEF q, k
<1>12. ASSUME NEW tm, IsTime(cln, tm), Count(cln, tm) = WholeSeconds(cln, v, r.unt)
       PROVE PopTm(cln, s) = tm
  BY <1>1, <1>10, <1>12, PopTmInverts
<1>13. QED
  BY <1>2, <1>4, <1>5, <1>10, <1>11, <1>12 DEF cln, v

\* What the conversions have come to.
Kept(r, i, v) == IF IsThere(r, i) THEN v ELSE r.val[i]
Stamps(r, n) == [i \in 1..n |-> StampOf(r, i)]
\* The invariant: each conversion applies to the values that are not missing,
\* and the stamps made are those of the first values.
StampInv ==
  cl_rqs.fnc = "print" /\ Exact(cl_rqs) =>
    /\ cl_rqs \in CalRequests /\ cl_pc \in {"print", "base", "stamp", "done"}
    /\ cl_pc = "print" => cl_val = cl_rqs.val /\ cl_tms = <<>>
    /\ cl_pc = "base" =>
         /\ cl_val = [i \in DOMAIN cl_rqs.val |-> Kept(cl_rqs, i, NewVal(cl_rqs, i))]
         /\ cl_tms = <<>>
    /\ cl_pc \in {"stamp", "done"} =>
         /\ cl_val = [i \in DOMAIN cl_rqs.val |-> Kept(cl_rqs, i, SecVal(cl_rqs, i))]
         /\ \E n \in 0..Len(cl_rqs.val) :
              /\ cl_tms = Stamps(cl_rqs, n)
              /\ cl_pc = "stamp" => n < Len(cl_rqs.val)

\* To the units of the first file, missing values excepted.
LEMMA RebaseStep ==
  ASSUME StampInv, Rebase
  PROVE  StampInv'
<1> DEFINE r == cl_rqs
<1>1. r' = r /\ cl_pc = "print" /\ cl_pc' = "base" /\ cl_tms' = cl_tms
      /\ cl_val' = Converted(r.unt, r.rbs, r.typ)
  BY DEF Rebase
<1>2. SUFFICES ASSUME r.fnc = "print", Exact(r)
      PROVE /\ r \in CalRequests /\ cl_tms = <<>>
            /\ cl_val' = [i \in DOMAIN r.val |-> Kept(r, i, NewVal(r, i))]
  BY <1>1 DEF StampInv
<1>3. r \in CalRequests /\ cl_val = r.val /\ cl_tms = <<>>
  BY <1>1, <1>2 DEF StampInv
<1>4. cl_val' = [i \in DOMAIN r.val |-> Kept(r, i, NewVal(r, i))]
  BY <1>1, <1>3, Zenon DEF Converted, Kept, NewVal, IsThere
<1>5. QED
  BY <1>3, <1>4

\* To seconds, the same values being there.
LEMMA ToBaseStep ==
  ASSUME StampInv, ToBase
  PROVE  StampInv'
<1> DEFINE r == cl_rqs
<1>1. r' = r /\ cl_pc = "base" /\ cl_pc' = "stamp" /\ cl_tms' = cl_tms
      /\ cl_val' = Converted(r.rbs, BsUnit, "dbl")
  BY DEF ToBase
<1>2. SUFFICES ASSUME r.fnc = "print", Exact(r)
      PROVE /\ r \in CalRequests
            /\ cl_val' = [i \in DOMAIN r.val |-> Kept(r, i, SecVal(r, i))]
            /\ \E n \in 0..Len(r.val) : cl_tms = Stamps(r, n) /\ n < Len(r.val)
  BY <1>1 DEF StampInv
<1>3. /\ r \in CalRequests /\ cl_tms = <<>>
      /\ cl_val = [i \in DOMAIN r.val |-> Kept(r, i, NewVal(r, i))]
  BY <1>1, <1>2 DEF StampInv
<1>4. \A i \in DOMAIN r.val : IsThere(r, i) => ~Missing(NewVal(r, i), r.mss)
  BY <1>2 DEF Exact, IsThere, NewVal
<1>5. cl_val' = [i \in DOMAIN r.val |-> Kept(r, i, SecVal(r, i))]
  <2>1. cl_val' = [i \in DOMAIN cl_val |->
          IF Missing(cl_val[i], r.mss) THEN cl_val[i] ELSE ClcTm(r.cln, cl_val[i], r.rbs, BsUnit)]
    BY <1>1, Zenon DEF Converted, OfType
  <2>2. DOMAIN cl_val = DOMAIN r.val
    BY <1>3
  <2>3. ASSUME NEW i \in DOMAIN r.val
        PROVE (IF Missing(cl_val[i], r.mss) THEN cl_val[i]
               ELSE ClcTm(r.cln, cl_val[i], r.rbs, BsUnit)) = Kept(r, i, SecVal(r, i))
    <3>1. cl_val[i] = Kept(r, i, NewVal(r, i))
      BY <1>3
    <3>2. QED
      BY <1>4, <3>1, Zenon DEF Kept, SecVal, IsThere
  <2>4. QED
    BY <2>1, <2>2, <2>3, Zenon
<1>6. r.val # <<>> /\ r.val \in Seq(Fractions)
  BY <1>2, <1>3, PrintsAssumption DEF Fractions
<1>7. Len(r.val) \in Nat /\ 0 < Len(r.val)
  <2> DEFINE v == r.val
  <2>1. v # <<>> /\ v \in Seq(Fractions)
    BY <1>6
  <2> HIDE DEF v
  <2>2. Len(v) \in Nat /\ 0 < Len(v)
    BY SMT, <2>1
  <2>3. QED
    BY <2>2 DEF v
<1>8. Stamps(r, 0) = <<>>
  BY DEF Stamps
<1>9. 0 \in 0..Len(r.val)
  BY SMT, <1>7
<1>10. QED
  BY <1>3, <1>5, <1>7, <1>8, <1>9, Zenon

\* A sequence and one more element.
LEMMA Longer ==
  ASSUME NEW T, NEW s \in Seq(T), NEW e \in T, NEW n \in Nat, Len(s) = n
  PROVE  Append(s, e) = [i \in 1..(n + 1) |-> IF i = n + 1 THEN e ELSE s[i]]
<1> DEFINE a == Append(s, e)
<1>1. a \in Seq(T) /\ Len(a) = n + 1
  BY AppendProperties
<1>2. ASSUME NEW i \in 1..(n + 1) PROVE a[i] = IF i = n + 1 THEN e ELSE s[i]
  BY AppendProperties
<1> HIDE DEF a
<1>3. a \in [1..(n + 1) -> T]
  BY <1>1
<1>4. a = [i \in 1..(n + 1) |-> IF i = n + 1 THEN e ELSE s[i]]
  BY <1>2, <1>3
<1>5. QED
  BY <1>4 DEF a

\* One stamp more, that of the next value.
LEMMA StampStep ==
  ASSUME StampInv, Stamp
  PROVE  StampInv'
<1> DEFINE r == cl_rqs
           k == Len(cl_tms) + 1
           st == IF Missing(cl_val[k], r.mss) THEN <<>> ELSE PopTm(r.cln, cl_val[k])
<1>1. /\ r' = r /\ cl_pc = "stamp" /\ cl_val' = cl_val
      /\ cl_pc' = IF k = Len(cl_val) THEN "done" ELSE "stamp"
      /\ cl_tms' = Append(cl_tms, st)
  BY DEF Stamp
<1>2. SUFFICES ASSUME r.fnc = "print", Exact(r)
      PROVE /\ r \in CalRequests /\ cl_pc' \in {"stamp", "done"}
            /\ cl_val = [i \in DOMAIN r.val |-> Kept(r, i, SecVal(r, i))]
            /\ \E n \in 0..Len(r.val) :
                 cl_tms' = Stamps(r, n) /\ (cl_pc' = "stamp" => n < Len(r.val))
  BY <1>1 DEF StampInv
<1>3. /\ r \in CalRequests
      /\ cl_val = [i \in DOMAIN r.val |-> Kept(r, i, SecVal(r, i))]
  BY <1>1, <1>2 DEF StampInv
<1>4. PICK n \in 0..Len(r.val) : cl_tms = Stamps(r, n) /\ n < Len(r.val)
  BY <1>1, <1>2 DEF StampInv
<1>5. r.val \in Seq(Fractions) /\ Len(r.val) \in Nat /\ DOMAIN r.val = 1..Len(r.val)
  <2>1. r.val \in Seq(Fractions)
    BY <1>2, <1>3, PrintsAssumption DEF Fractions
  <2>2. QED
    BY <2>1
<1>6. n \in Nat /\ n + 1 \in DOMAIN r.val /\ n + 1 \in 0..Len(r.val)
  BY <1>4, <1>5
<1>7. Len(cl_tms) = n
  BY <1>4, <1>6 DEF Stamps
<1>8. Len(cl_val) = Len(r.val)
  BY <1>3, <1>5
<1>9. st = StampOf(r, n + 1)
  <2>1. cl_val[k] = Kept(r, n + 1, SecVal(r, n + 1)) /\ k = n + 1
    BY <1>3, <1>6, <1>7
  <2>2. IsThere(r, n + 1) => ~Missing(SecVal(r, n + 1), r.mss)
    BY <1>2, <1>6 DEF Exact, IsThere, SecVal, NewVal
  <2>3. CASE IsThere(r, n + 1)
    BY <2>1, <2>2, <2>3 DEF Kept, StampOf
  <2>4. CASE ~IsThere(r, n + 1)
    BY <2>1, <2>4 DEF Kept, StampOf, IsThere
  <2>5. QED
    BY <2>3, <2>4
<1> HIDE DEF st
<1>10. cl_tms' = Stamps(r, n + 1)
  <2>1. Append(cl_tms, st) = [i \in 1..(n + 1) |-> IF i = n + 1 THEN st ELSE cl_tms[i]]
    <3> DEFINE S == {StampOf(r, i) : i \in 1..n}
    <3>1. cl_tms \in Seq(S \union {st})
      BY <1>4, <1>6 DEF Stamps
    <3> DEFINE T == S \union {st}
    <3>2. st \in T
      OBVIOUS
    <3>3. cl_tms \in Seq(T)
      BY <3>1
    <3> HIDE DEF T
    <3>4. QED
      BY <1>6, <1>7, <3>2, <3>3, Longer
  <2>2. ASSUME NEW i \in 1..(n + 1) PROVE (IF i = n + 1 THEN st ELSE cl_tms[i]) = StampOf(r, i)
    <3>1. CASE i = n + 1
      BY <1>9, <3>1
    <3>2. CASE i # n + 1
      <4>1. i \in 1..n
        BY <1>6, <3>2
      <4>2. QED
        BY <1>4, <3>2, <4>1 DEF Stamps
    <3>3. QED
      BY <3>1, <3>2
  <2>3. QED
    BY <1>1, <2>1, <2>2, Zenon DEF Stamps
<1>11. cl_pc' = "stamp" => n + 1 < Len(r.val)
  BY <1>1, <1>5, <1>6, <1>7, <1>8
<1>12. cl_pc' \in {"stamp", "done"}
  BY <1>1
<1>13. QED
  BY <1>3, <1>6, <1>10, <1>11, <1>12, Zenon

\* The invariant of print holds from the beginning.
LEMMA StampInit == ClInit => StampInv
  BY DEF ClInit, StampInv

\* And every step keeps it.
LEMMA StampNext == StampInv /\ [ClNext]_cl_vars => StampInv'
<1> SUFFICES ASSUME StampInv, [ClNext]_cl_vars PROVE StampInv'
  OBVIOUS
<1>1. CASE Rebase
  BY <1>1, RebaseStep
<1>2. CASE ToBase
  BY <1>2, ToBaseStep
<1>3. CASE Stamp
  BY <1>3, StampStep
<1>4. CASE ClmMonth \/ ClmTimes \/ ClmBounds
  <2>1. cl_pc \in {"climo", "bounds"} /\ cl_rqs' = cl_rqs
    BY <1>4 DEF ClmMonth, ClmTimes, ClmBounds
  <2>2. QED
    BY <2>1 DEF StampInv
<1>5. CASE StartDate \/ Ahead \/ Back
  <2>1. cl_pc \in {"date", "ahead", "back"} /\ cl_rqs' = cl_rqs
    BY <1>5 DEF StartDate, Ahead, Back
  <2>2. QED
    BY <2>1 DEF StampInv
<1>6. CASE UNCHANGED cl_vars
  BY <1>6 DEF cl_vars, StampInv
<1>7. QED
  BY <1>1, <1>2, <1>3, <1>4, <1>5, <1>6 DEF ClNext

\* The stamps of two values that are 1 apart are one tick apart.
LEMMA OneApart ==
  ASSUME NEW cln \in Calendars, NEW unt, IsUnit(cln, unt), NEW v \in Fractions, NEW w \in Fractions,
         Same(w, Plus(v, Val(1)))
  PROVE  WholeSeconds(cln, w, unt) = WholeSeconds(cln, v, unt) + Seconds(cln, unt.prd)
<1> DEFINE u == Seconds(cln, unt.prd)
           x == Count(cln, unt.ref)
<1>1. PICK a \in Int, b \in Nat \ {0} : v = <<a, b>>
  BY DEF Fractions
<1>2. PICK c \in Int, d \in Nat \ {0} : w = <<c, d>>
  BY DEF Fractions
<1>3. x \in Int /\ u \in Int
  BY TimeFacts, SecondsPositive DEF IsUnit
<1>4. Plus(v, Val(1)) = <<a + b, b>>
  BY <1>1 DEF Plus, Val
<1>5. c * b = (a + b) * d
  <2>1. w[1] = c /\ w[2] = d /\ <<a + b, b>>[1] = a + b /\ <<a + b, b>>[2] = b
    BY <1>2
  <2>2. w[2] # 0 => w[1] * <<a + b, b>>[2] = <<a + b, b>>[1] * w[2]
    BY <1>4 DEF Same
  <2>3. QED
    BY <2>1, <2>2
<1> DEFINE i == a * u + x * b
           j == c * u + x * d
           h == i + u * b
<1>6. WholeSeconds(cln, v, unt) = i \div b /\ WholeSeconds(cln, w, unt) = j \div d
  BY <1>1, <1>2 DEF WholeSeconds, Instant
<1> HIDE DEF u, x
<1>7. i \in Int /\ j \in Int /\ h \in Int
  BY SMT, <1>3
<1>8. j * b = h * d
  <2>1. j * b = u * (c * b) + (x * d) * b
    BY SMT, <1>3
  <2>2. h * d = u * ((a + b) * d) + (x * b) * d
    BY SMT, <1>3
  <2>3. (x * d) * b = (x * b) * d
    BY SMT, <1>3
  <2>4. QED
    BY <1>5, <2>1, <2>2, <2>3
<1>9. h \div b = (i \div b) + u
  <2> HIDE DEF i
  <2>1. QED
    BY <1>3, <1>7, WholePlus
<1>10. h \div b = j \div d
  <2> HIDE DEF i, j, h
  <2>1. QED
    BY <1>7, <1>8, SameWhole
<1>11. QED
  BY <1>6, <1>9, <1>10 DEF u

\* A value of 0 is the time its units count from.
LEMMA AtZero ==
  ASSUME NEW cln \in Calendars, NEW unt, IsUnit(cln, unt), NEW v \in Fractions, Same(v, Zero)
  PROVE  WholeSeconds(cln, v, unt) = Count(cln, unt.ref)
<1> DEFINE u == Seconds(cln, unt.prd)
           x == Count(cln, unt.ref)
<1>1. PICK a \in Int, b \in Nat \ {0} : v = <<a, b>>
  BY DEF Fractions
<1>2. a = 0
  <2>1. v[2] # 0 => v[1] * Zero[2] = Zero[1] * v[2]
    BY DEF Same
  <2>2. Zero[1] = 0 /\ Zero[2] = 1 /\ v[1] = a /\ v[2] = b
    BY <1>1 DEF Zero, Val
  <2>3. QED
    BY <2>1, <2>2
<1>3. x \in Int /\ u \in Int
  BY TimeFacts, SecondsPositive DEF IsUnit
<1>4. WholeSeconds(cln, v, unt) = (a * u + x * b) \div b
  BY <1>1 DEF WholeSeconds, Instant
<1> HIDE DEF u, x
<1>5. a * u + x * b = x * b /\ x * b \in Int /\ b * x = x * b
  BY SMT, <1>2, <1>3
<1>6. (x * b) \div b = x
  BY <1>3, <1>5, WholePart
<1>7. QED
  BY <1>4, <1>5, <1>6 DEF x

\* No time is mistaken for the stamp of a missing value.
LEMMA TimeIsRecord ==
  ASSUME NEW cln \in Calendars, NEW tm, IsTime(cln, tm)
  PROVE  tm # <<>>
<1>1. tm \in [year : Nat, month : 1..12, day : 1..31, hour : 0..23, min : 0..59, sec : 0..59]
  BY DEF IsTime
<1>2. "year" \in DOMAIN tm
  BY <1>1
<1>3. DOMAIN <<>> = {}
  OBVIOUS
<1>4. QED
  BY <1>2, <1>3

\* Through whichever units the values of a time coordinate are converted, the
\* clock shows the stamps of any coordinate that survives the conversions.
THEOREM StampsFollowClock == ClSpec => [](Exact(cl_rqs) => StampsTick)
<1>1. ASSUME StampInv, Exact(cl_rqs) PROVE StampsTick
  <2> DEFINE r == cl_rqs
             n == Len(cl_tms)
             there(i) == IsThere(r, i)
  <2>1. SUFFICES ASSUME r.fnc = "print", n > 0
        PROVE  /\ there(n) <=> cl_tms[n] # <<>>
               /\ there(n) /\ Same(r.val[n], Zero) => cl_tms[n] = r.unt.ref
               /\ \A i \in {n - 1} \ {0} :
                    there(i) /\ there(n) /\ Same(r.val[n], Plus(r.val[i], Val(1))) =>
                      cl_tms[n] = Tick(r.cln, r.unt.prd, cl_tms[i])
    BY Zenon DEF StampsTick, IsThere
  <2>2. r \in CalRequests
    BY <1>1, <2>1 DEF StampInv
  <2>3. /\ r.cln \in Calendars /\ IsUnit(r.cln, r.unt) /\ r.val \in Seq(Fractions)
        /\ r.unt.prd = "month" => r.cln = "360"
    BY <2>1, <2>2, PrintsAssumption DEF Fractions
  <2>4. PICK m \in 0..Len(r.val) : cl_tms = Stamps(r, m)
    <3>1. cl_tms # <<>>
      BY <2>1
    <3>2. cl_pc \in {"stamp", "done"}
      BY <1>1, <2>1, <3>1 DEF StampInv
    <3>3. QED
      BY <1>1, <2>1, <3>2 DEF StampInv
  <2>5. m \in Nat /\ DOMAIN r.val = 1..Len(r.val) /\ Len(r.val) \in Nat
    BY <2>3, <2>4
  <2>6. n = m
    BY <2>4, <2>5 DEF Stamps
  <2>7. n \in DOMAIN r.val /\ \A i \in 1..n : i \in DOMAIN r.val /\ cl_tms[i] = StampOf(r, i)
    BY <2>1, <2>4, <2>5, <2>6 DEF Stamps
  <2> HIDE DEF r, n, there
  <2>8. ASSUME NEW i \in DOMAIN r.val, there(i)
        PROVE  /\ r.val[i] \in Fractions /\ WholeSeconds(r.cln, r.val[i], r.unt) \in Nat
               /\ \A tm : IsTime(r.cln, tm)
                            /\ Count(r.cln, tm) = WholeSeconds(r.cln, r.val[i], r.unt)
                            => StampOf(r, i) = tm
    BY <1>1, <2>1, <2>2, <2>8, StampRight DEF there, r
  <2>9. there(n) <=> cl_tms[n] # <<>>
    <3>1. CASE there(n)
      <4>1. PICK tm : IsTime(r.cln, tm) /\ Count(r.cln, tm) = WholeSeconds(r.cln, r.val[n], r.unt)
        BY <2>3, <2>7, <2>8, <3>1, CountsAll
      <4>2. cl_tms[n] = tm
        BY <2>1, <2>5, <2>6, <2>7, <2>8, <3>1, <4>1
      <4>3. QED
        BY <2>3, <3>1, <4>1, <4>2, TimeIsRecord
    <3>2. CASE ~there(n)
      BY <2>1, <2>5, <2>6, <2>7, <3>2 DEF StampOf, there
    <3>3. QED
      BY <3>1, <3>2
  <2>10. ASSUME there(n), Same(r.val[n], Zero) PROVE cl_tms[n] = r.unt.ref
    <3>1. WholeSeconds(r.cln, r.val[n], r.unt) = Count(r.cln, r.unt.ref) /\ IsTime(r.cln, r.unt.ref)
      BY <2>3, <2>7, <2>8, <2>10, AtZero DEF IsUnit
    <3>2. StampOf(r, n) = r.unt.ref
      BY <2>7, <2>8, <2>10, <3>1
    <3>3. QED
      BY <2>1, <2>5, <2>6, <2>7, <3>2
  <2>11. ASSUME NEW i \in {n - 1} \ {0}, there(i), there(n), Same(r.val[n], Plus(r.val[i], Val(1)))
         PROVE cl_tms[n] = Tick(r.cln, r.unt.prd, cl_tms[i])
    <3>1. i \in 1..n /\ n \in 1..n
      BY <2>1, <2>5, <2>6
    <3>2. PICK tm : IsTime(r.cln, tm) /\ Count(r.cln, tm) = WholeSeconds(r.cln, r.val[i], r.unt)
      BY <2>3, <2>7, <2>8, <2>11, <3>1, CountsAll
    <3>3. cl_tms[i] = tm
      BY <2>7, <2>8, <2>11, <3>1, <3>2
    <3>4. Moves(r.cln, tm, Tick(r.cln, r.unt.prd, tm), Seconds(r.cln, r.unt.prd))
      BY <2>3, <3>2, TickMoves DEF IsUnit
    <3>5. WholeSeconds(r.cln, r.val[n], r.unt) =
            WholeSeconds(r.cln, r.val[i], r.unt) + Seconds(r.cln, r.unt.prd)
      BY <2>3, <2>7, <2>8, <2>11, <3>1, OneApart
    <3>6. StampOf(r, n) = Tick(r.cln, r.unt.prd, tm)
      BY <2>7, <2>8, <2>11, <3>2, <3>4, <3>5 DEF Moves
    <3>7. QED
      BY <2>7, <3>1, <3>3, <3>6
  <2>12. QED
    BY <2>9, <2>10, <2>11
<1>2. StampInv => (Exact(cl_rqs) => StampsTick)
  BY <1>1
<1>3. QED
  BY <1>2, StampInit, StampNext, PTL DEF ClSpec

-----------------------------------------------------------------------------
(* The times and bounds of a climatology.                                  *)

\* So many seconds after ref, in any units, are as many after it in those the
\* time is told of.
LEMMA InSecondsOf ==
  ASSUME NEW cln \in Calendars, NEW unt, IsUnit(cln, unt), NEW ref, IsTime(cln, ref), NEW k \in Int
  PROVE  LET w == ClcTm(cln, ClcTm(cln, Val(k), Since(ref), unt), unt, BsUnit)
         IN /\ w \in Fractions
            /\ (w[1] \div w[2]) + OriginYear * Seconds(cln, "year") = Count(cln, ref) + k
<1> DEFINE su == Since(ref)
           v == Val(k)
           u == ClcTm(cln, v, su, unt)
           w == ClcTm(cln, u, unt, BsUnit)
           x == Count(cln, ref)
<1>1. v = <<k, 1>> /\ v \in Fractions /\ v[1] = k /\ v[2] = 1
  BY DEF Val, Fractions
<1>2. su.prd = "sec" /\ su.ref = ref
  BY DEF Since, Unit
<1>3. IsUnit(cln, su) /\ IsUnit(cln, BsUnit)
  BY <1>2, BaseUnit DEF IsUnit, Periods
<1>4. x \in Int
  BY TimeFacts
<1>5. WholeSeconds(cln, v, su) = x + k
  <2>1. Seconds(cln, su.prd) = 1
    BY SMT, <1>2 DEF Seconds
  <2>2. WholeSeconds(cln, v, su) = (k * 1 + x * 1) \div 1
    BY <1>1, <1>2, <2>1 DEF WholeSeconds, Instant
  <2> HIDE DEF x
  <2>3. (k * 1 + x * 1) \div 1 = x + k
    BY SMT, <1>4
  <2>4. QED
    BY <2>2, <2>3
<1> HIDE DEF su, v, u, w
<1>6. u \in Fractions /\ SameInstant(cln, v, su, u, unt)
  BY <1>1, <1>3, Converts DEF u
<1>7. w \in Fractions /\ SameInstant(cln, u, unt, w, BsUnit)
  BY <1>3, <1>6, Converts DEF w
<1>8. SameInstant(cln, v, su, w, BsUnit)
  BY <1>1, <1>3, <1>6, <1>7, ThroughUnits
<1>9. (w[1] \div w[2]) + OriginYear * Seconds(cln, "year") = x + k
  BY <1>1, <1>3, <1>5, <1>7, <1>8, InBase
<1>10. QED
  BY <1>7, <1>9 DEF w, u, v, su, x

\* They are shown as the time that much later.
LEMMA StampedOf ==
  ASSUME NEW cln \in Calendars, NEW unt, IsUnit(cln, unt), NEW ref, IsTime(cln, ref),
         NEW k \in Int, NEW tm, Moves(cln, ref, tm, k)
  PROVE  PopTm(cln, ClcTm(cln, ClcTm(cln, Val(k), Since(ref), unt), unt, BsUnit)) = tm
<1> DEFINE w == ClcTm(cln, ClcTm(cln, Val(k), Since(ref), unt), unt, BsUnit)
<1>1. (w[1] \div w[2]) + OriginYear * Seconds(cln, "year") = Count(cln, ref) + k
  BY InSecondsOf
<1> HIDE DEF w
<1>2. PopTm(cln, w) = tm
  BY <1>1, PopTmInverts DEF Moves
<1>3. QED
  BY <1>2 DEF w

\* Whole seconds taken off a fraction are taken off its whole.
LEMMA WholeMinus ==
  ASSUME NEW w \in Fractions, NEW j \in Int
  PROVE  Minus(w, Val(j))[1] \div Minus(w, Val(j))[2] = (w[1] \div w[2]) - j
<1> DEFINE z == Minus(w, Val(j))
<1>1. PICK a \in Int, b \in Nat \ {0} : w = <<a, b>>
  BY DEF Fractions
<1>2. w[1] = a /\ w[2] = b
  BY <1>1
<1>3. Val(j)[1] = j /\ Val(j)[2] = 1
  BY DEF Val
<1>4. z = Plus(w, <<-j, 1>>)
  BY <1>3 DEF Minus
<1>5. z = IF b = 1 THEN <<a + (-j), b>> ELSE <<a * 1 + (-j) * b, b * 1>>
  <2> DEFINE y == <<-j, 1>>
  <2>1. y[1] = -j /\ y[2] = 1
    OBVIOUS
  <2> HIDE DEF y
  <2>2. Plus(w, y) = IF b = 1 THEN <<a + (-j), b>> ELSE <<a * 1 + (-j) * b, b * 1>>
    BY <1>2, <2>1 DEF Plus
  <2>3. QED
    BY <1>4, <2>2 DEF y
<1> HIDE DEF z
<1>6. z[1] = a + (-j) * b /\ z[2] = b
  <2>1. CASE b = 1
    <3>1. z[1] = a + (-j) /\ z[2] = b
      BY <1>5, <2>1
    <3>2. a + (-j) = a + (-j) * b
      BY SMT, <2>1
    <3>3. QED
      BY <3>1, <3>2
  <2>2. CASE b # 1
    <3>1. z[1] = a * 1 + (-j) * b /\ z[2] = b * 1
      BY <1>5, <2>2
    <3>2. a * 1 = a /\ b * 1 = b
      BY SMT
    <3>3. QED
      BY <3>1, <3>2
  <2>3. QED
    BY <2>1, <2>2
<1>7. -j \in Int /\ a \div b \in Int /\ (a + (-j) * b) \div b = (a \div b) + (-j)
  <2> DEFINE h == -j
  <2>1. h \in Int
    OBVIOUS
  <2> HIDE DEF h
  <2>2. (a + h * b) \div b = (a \div b) + h
    BY <2>1, WholePlus
  <2>3. a \div b \in Int
    BY PartOf
  <2>4. QED
    BY <2>1, <2>2, <2>3 DEF h
<1>8. z[1] \div z[2] = (a \div b) - j
  <2> DEFINE q == a \div b
  <2>1. z[1] \div z[2] = q + (-j) /\ q \in Int
    BY <1>6, <1>7
  <2> HIDE DEF q
  <2>2. z[1] \div z[2] = q - j
    BY <2>1
  <2>3. QED
    BY <2>2 DEF q
<1>9. QED
  BY <1>2, <1>8 DEF z

\* And j seconds before a time that is as much too late.
LEMMA StampedBeforeOf ==
  ASSUME NEW cln \in Calendars, NEW unt, IsUnit(cln, unt), NEW ref, IsTime(cln, ref),
         NEW k \in Int, NEW j \in Int, NEW tm, Moves(cln, ref, tm, k)
  PROVE  PopTm(cln, Minus(ClcTm(cln, ClcTm(cln, Val(k + j), Since(ref), unt), unt, BsUnit), Val(j))) = tm
<1> DEFINE w == ClcTm(cln, ClcTm(cln, Val(k + j), Since(ref), unt), unt, BsUnit)
           x == Count(cln, ref)
           y == OriginYear * Seconds(cln, "year")
           p == Minus(w, Val(j))
<1>1. k + j \in Int /\ x \in Int /\ y \in Int
  <2>1. x \in Int
    BY TimeFacts
  <2>2. y \in Int
    BY YearSeconds, OriginYearAssumption
  <2>3. QED
    BY <2>1, <2>2
<1>2. w \in Fractions /\ (w[1] \div w[2]) + y = x + (k + j)
  BY <1>1, InSecondsOf
<1> HIDE DEF w
<1>3. p[1] \div p[2] = (w[1] \div w[2]) - j
  BY <1>2, WholeMinus
<1>4. w[1] \div w[2] \in Int
  <2>1. w[1] \in Int /\ w[2] \in Nat \ {0}
    BY <1>2 DEF Fractions
  <2>2. QED
    BY <2>1, PartOf
<1>5. (p[1] \div p[2]) + y = x + k
  <2> DEFINE m == w[1] \div w[2]
             n == p[1] \div p[2]
  <2>1. m \in Int /\ m + y = x + (k + j) /\ n = m - j
    BY <1>2, <1>3, <1>4
  <2> HIDE DEF m, n, x, y
  <2>2. n + y = x + k
    BY SMT, <1>1, <2>1
  <2>3. QED
    BY <2>2 DEF n
<1>6. PopTm(cln, p) = tm
  BY <1>5, PopTmInverts DEF Moves
<1>7. QED
  BY <1>6 DEF w

\* The hands, from the second of the day.
LEMMA HandsOf ==
  ASSUME NEW t, NEW h, NEW m, NEW s, Shows(t, h, m, s)
  PROVE  t \div 3600 = h /\ (t \div 60) % 60 = m /\ t % 60 = s
  BY SMT DEF Shows

\* The clock set to an hour, a minute and a second.
Hands(tm, h, m, s) == [tm EXCEPT !.hour = h, !.min = m, !.sec = s]
\* They are set one after the other.
LEMMA HandsInTurn ==
  ASSUME NEW tm \in TimeFields, NEW h, NEW m, NEW s
  PROVE  Hands(tm, h, m, s) = SetSec(SetMin(SetHour(tm, h), m), s)
  BY Zenon DEF Hands, SetHour, SetMin, SetSec

\* Midnight, and t seconds after it.
AtMidnight(tm) == tm.hour = 0 /\ tm.min = 0 /\ tm.sec = 0
Later(tm, t) == Hands(tm, t \div 3600, (t \div 60) % 60, t % 60)
\* The clock shows the second of the day it is set to.
LEMMA LaterMoves ==
  ASSUME NEW cln \in Calendars, NEW day, IsTime(cln, day), AtMidnight(day), NEW t \in Nat, t < 86400
  PROVE  Moves(cln, day, Later(day, t), t)
<1>1. PICK h, m, s : Shows(t, h, m, s)
  BY SMT, SecondsDivided
<1>2. h \in 0..23 /\ m \in 0..59 /\ s \in 0..59 /\ t = 3600 * h + 60 * m + s
  BY SMT, <1>1 DEF Shows
<1>3. t \div 3600 = h /\ (t \div 60) % 60 = m /\ t % 60 = s
  BY SMT, <1>1, HandsOf
<1> DEFINE a == SetHour(day, h)
           b == SetMin(a, m)
           c == SetSec(b, s)
<1>4. day \in TimeFields /\ Count(cln, day) \in Int
  BY SMT, TimeFacts
<1>5. Later(day, t) = c
  <2>1. Later(day, t) = Hands(day, h, m, s)
    BY SMT, <1>3 DEF Later
  <2>2. QED
    BY SMT, <1>4, <2>1, HandsInTurn
<1>6. Moves(cln, day, a, 3600 * (h - day.hour)) /\ a.min = 0 /\ a.sec = 0
  BY SMT, <1>2, <1>4, HandSet DEF SetHour, TimeFields, AtMidnight
<1>7. Moves(cln, a, b, 60 * (m - a.min)) /\ b.sec = 0
  <2>1. IsTime(cln, a) /\ a \in TimeFields
    BY SMT, <1>6, TimeFacts DEF Moves
  <2>2. m \in Int /\ 0 <= m /\ m <= 59
    BY SMT, <1>2
  <2> HIDE DEF a
  <2>3. Moves(cln, a, b, 60 * (m - a.min))
    BY SMT, <2>1, <2>2, HandSet
  <2>4. b.sec = a.sec
    BY SMT, <2>1 DEF SetMin, TimeFields
  <2>5. QED
    BY SMT, <1>6, <2>3, <2>4
<1>8. Moves(cln, b, c, s - b.sec)
  <2>1. IsTime(cln, b)
    BY SMT, <1>7 DEF Moves
  <2>2. s \in Int /\ 0 <= s /\ s <= 59
    BY SMT, <1>2
  <2> HIDE DEF b
  <2>3. QED
    BY SMT, <2>1, <2>2, HandSet
<1>9. Moves(cln, day, c, t)
  <2> HIDE DEF a, b, c
  <2>1. /\ Count(cln, a) = Count(cln, day) + 3600 * (h - 0)
        /\ Count(cln, b) = Count(cln, a) + 60 * (m - 0) /\ Count(cln, c) = Count(cln, b) + (s - 0)
        /\ IsTime(cln, c)
    BY SMT, <1>6, <1>7, <1>8 DEF Moves, AtMidnight
  <2>2. Count(cln, c) = Count(cln, day) + t
    BY SMT, <1>2, <1>4, <2>1
  <2>3. QED
    BY SMT, <2>1, <2>2 DEF Moves
<1>10. QED
  BY SMT, <1>5, <1>9

\* What a day is divided into.
Portion(n, s) == s = 86400 \div n
\* The steps of a day do not exceed it, nor does half a step after any but the
\* last.
LEMMA StepFacts ==
  ASSUME NEW n \in Nat \ {0}, NEW s, Portion(n, s), NEW k \in Int, 1 <= k, k <= n
  PROVE  /\ s \in Nat /\ s * k \in Nat /\ s * (k - 1) \in Nat /\ s * k <= 86400
         /\ s * k = s * (k - 1) + s
         /\ s \div 2 \in Nat /\ s * (k - 1) + (s \div 2) < 86400
<1>1. s \in Int /\ n * s <= 86400 /\ 86400 < n * s + n
  BY SMT, PartOf DEF Portion
<1>2. s \in Nat
  <2>1. ASSUME s < 0 PROVE n * s + n <= 0
    <3>1. s + 1 <= 0
      BY SMT, <1>1, <2>1
    <3>2. n * (s + 1) <= n * 0
      BY SMT, <1>1, <3>1
    <3>3. QED
      BY SMT, <1>1, <3>2
  <2>2. QED
    BY SMT, <1>1, <2>1
<1>3. s * (k - 1) \in Nat /\ s * k = s * (k - 1) + s
  <2>1. k - 1 \in Nat /\ k = (k - 1) + 1
    OBVIOUS
  <2> DEFINE j == k - 1
  <2> HIDE DEF j
  <2>2. j \in Nat /\ k = j + 1
    BY <2>1 DEF j
  <2>3. s * j \in Nat /\ s * (j + 1) = s * j + s
    BY SMT, <1>2, <2>2
  <2>4. QED
    BY <2>2, <2>3 DEF j
<1>4. s * k <= n * s
  <2>1. s * k <= s * n
    BY SMT, <1>2
  <2>2. QED
    BY SMT, <1>2, <2>1
<1>5. s \div 2 \in Nat /\ s \div 2 <= s /\ (s # 0 => s \div 2 < s)
  BY SMT, <1>2
<1>6. s = 0 => s * (k - 1) = 0
  BY SMT
<1>7. QED
  BY SMT, <1>1, <1>2, <1>3, <1>4, <1>5, <1>6

\* What a climatology asks for.
LEMMA ClimoFacts ==
  ASSUME cl_rqs \in CalRequests, cl_rqs.fnc = "climo"
  PROVE  /\ cl_rqs.cln \in Calendars /\ IsUnit(cl_rqs.cln, cl_rqs.unt)
         /\ cl_rqs.tpd \in Nat /\ cl_rqs.lcn \in {"ctr", "rhs", "lhs"}
         /\ IsTime(cl_rqs.cln, FirstDay) /\ AtMidnight(FirstDay)
         /\ IsTime(cl_rqs.cln, LastDay) /\ AtMidnight(LastDay)
         /\ IsTime(cl_rqs.cln, Midnight(cl_rqs.yr_srt, cl_rqs.mth_srt, 15))
         /\ Midnight(End.year, End.month, 1) = NextDay(cl_rqs.cln, LastDay)
<1> DEFINE r == cl_rqs
           D == DaysPerMonth(r.cln)
<1>1. /\ r.cln \in Calendars /\ IsUnit(r.cln, r.unt)
      /\ r.yr_srt \in Nat /\ r.yr_end \in Nat /\ r.mth_srt \in 1..12 /\ r.mth_end \in 1..12
      /\ r.tpd \in Nat /\ r.lcn \in {"ctr", "rhs", "lhs"}
  BY ClimosAssumption
<1>2. \A m \in 1..12 : D[m] \in 28..31
  BY <1>1, TableFacts
<1> HIDE DEF D
<1>3. ASSUME NEW y \in Nat, NEW m \in 1..12, NEW d \in 1..31, d <= D[m]
      PROVE IsTime(r.cln, Midnight(y, m, d)) /\ AtMidnight(Midnight(y, m, d))
  BY <1>3 DEF IsTime, AtMidnight, Midnight, Time, D
<1>4. ASSUME NEW m \in 1..12 PROVE /\ D[m] \in 1..31 /\ D[m] <= D[m] /\ 1 \in 1..31 /\ 1 <= D[m]
                                   /\ 15 \in 1..31 /\ 15 <= D[m]
  <2>1. D[m] \in 28..31
    BY <1>2
  <2>2. QED
    BY <2>1
<1>5. /\ FirstDay = Midnight(r.yr_srt, r.mth_srt, 1)
      /\ LastDay = Midnight(r.yr_end, r.mth_end, D[r.mth_end])
  BY DEF FirstDay, LastDay, D
<1>6. /\ IsTime(r.cln, FirstDay) /\ AtMidnight(FirstDay)
      /\ IsTime(r.cln, Midnight(r.yr_srt, r.mth_srt, 15))
      /\ IsTime(r.cln, LastDay) /\ AtMidnight(LastDay)
  BY <1>1, <1>3, <1>4, <1>5
<1>7. Midnight(End.year, End.month, 1) = NextDay(r.cln, LastDay)
  <2>1. LastDay.day = D[r.mth_end] /\ LastDay.month = r.mth_end /\ LastDay.year = r.yr_end
    BY <1>5 DEF Midnight, Time
  <2>2. ~(LastDay.day < D[LastDay.month])
    BY <1>1, <1>4, <2>1
  <2>3. CASE r.mth_end = 12
    <3>1. NextDay(r.cln, LastDay) = [LastDay EXCEPT !.year = @ + 1, !.month = 1, !.day = 1]
      BY <1>1, <2>1, <2>2, <2>3 DEF NextDay, D
    <3>2. End.year = r.yr_end + 1 /\ End.month = 1
      BY <2>3 DEF End
    <3>3. QED
      BY <1>1, <1>5, <3>1, <3>2 DEF Midnight, Time
  <2>4. CASE r.mth_end # 12
    <3>1. NextDay(r.cln, LastDay) = [LastDay EXCEPT !.month = @ + 1, !.day = 1]
      BY <1>1, <2>1, <2>2, <2>4 DEF NextDay, D
    <3>2. End.year = r.yr_end /\ End.month = r.mth_end + 1
      BY <2>4 DEF End
    <3>3. QED
      BY <1>1, <1>5, <3>1, <3>2 DEF Midnight, Time
  <2>5. QED
    BY <2>3, <2>4
<1>8. QED
  BY <1>1, <1>6, <1>7

\* The clock shows the steps of a day.
LEMMA StepMoves ==
  ASSUME NEW day, cl_rqs.cln \in Calendars, IsTime(cl_rqs.cln, day), AtMidnight(day),
         NEW k, k * Step \in Nat
  PROVE  /\ k * Step <= 86400 => Moves(cl_rqs.cln, day, StepOf(day, k), k * Step)
         /\ k * Step + (Step \div 2) \in Nat /\ k * Step + (Step \div 2) < 86400 =>
              Moves(cl_rqs.cln, day, HalfStepOf(day, k), k * Step + (Step \div 2))
<1> DEFINE t == k * Step
           u == t + (Step \div 2)
<1>1. ASSUME t <= 86400 PROVE Moves(cl_rqs.cln, day, StepOf(day, k), t)
  <2>1. CASE t = 86400
    <3>1. StepOf(day, k) = NextDay(cl_rqs.cln, day)
      BY SMT, <2>1 DEF StepOf
    <3>2. QED
      BY SMT, <2>1, <3>1, DayMoves
  <2>2. CASE t # 86400
    <3>1. StepOf(day, k) = Later(day, t)
      BY SMT, <2>2 DEF StepOf, Later, Hands
    <3> HIDE DEF t
    <3>2. t \in Nat /\ t < 86400
      BY SMT, <1>1, <2>2 DEF t
    <3>3. QED
      BY SMT, <3>1, <3>2, LaterMoves
  <2>3. QED
    BY SMT, <2>1, <2>2
<1>2. ASSUME u \in Nat, u < 86400 PROVE Moves(cl_rqs.cln, day, HalfStepOf(day, k), u)
  <2>1. HalfStepOf(day, k) = Later(day, u)
    BY SMT DEF HalfStepOf, Later, Hands
  <2> HIDE DEF u
  <2>2. QED
    BY SMT, <1>2, <2>1, LaterMoves
<1>3. QED
  BY SMT, <1>1, <1>2

\* A value in seconds since ref.
LEMMA UntShown ==
  ASSUME cl_rqs \in CalRequests, cl_rqs.fnc = "climo", NEW ref, IsTime(cl_rqs.cln, ref),
         NEW k \in Int, NEW tm, Moves(cl_rqs.cln, ref, tm, k)
  PROVE  Stamped(ToUnt(Val(k), Since(ref))) = tm
<1>1. cl_rqs.cln \in Calendars /\ IsUnit(cl_rqs.cln, cl_rqs.unt)
  BY ClimoFacts
<1>2. QED
  BY <1>1, StampedOf DEF Stamped, ToUnt

\* And j seconds before it.
LEMMA UntShownBefore ==
  ASSUME cl_rqs \in CalRequests, cl_rqs.fnc = "climo", NEW ref, IsTime(cl_rqs.cln, ref),
         NEW k \in Int, NEW j \in Int, NEW tm, Moves(cl_rqs.cln, ref, tm, k)
  PROVE  StampedBefore(ToUnt(Val(k + j), Since(ref)), j) = tm
<1>1. cl_rqs.cln \in Calendars /\ IsUnit(cl_rqs.cln, cl_rqs.unt)
  BY ClimoFacts
<1>2. QED
  BY <1>1, StampedBeforeOf DEF StampedBefore, ToUnt

\* The times.
TimeSec(i) == CASE cl_rqs.lcn = "ctr" -> Step \div 2 + Step * i
                [] cl_rqs.lcn = "rhs" -> Step * (i + 1)
                [] cl_rqs.lcn = "lhs" -> Step * i
\* The time of the k-th step is shown where it was asked for.
LEMMA TimesShown ==
  ASSUME cl_rqs \in CalRequests, cl_rqs.fnc = "climo", cl_rqs.tpd > 0, NEW k \in 1..cl_rqs.tpd
  PROVE  Stamped(ToUnt(Val(TimeSec(k - 1)), SrtUnt)) = TimeShown(k)
<1>1. /\ cl_rqs.cln \in Calendars /\ IsTime(cl_rqs.cln, FirstDay) /\ AtMidnight(FirstDay)
      /\ cl_rqs.tpd \in Nat \ {0} /\ cl_rqs.lcn \in {"ctr", "rhs", "lhs"}
  BY ClimoFacts
<1> DEFINE s == Step
<1>2. /\ s \in Nat /\ s * k \in Nat /\ s * (k - 1) \in Nat /\ s * k <= 86400
      /\ s * k = s * (k - 1) + s
      /\ s \div 2 \in Nat /\ s * (k - 1) + (s \div 2) < 86400
  <2> DEFINE n == cl_rqs.tpd
  <2>1. n \in Nat \ {0} /\ Portion(n, s) /\ k \in Int /\ 1 <= k /\ k <= n
    BY SMT, <1>1 DEF Step, Portion
  <2> HIDE DEF n, s
  <2>2. QED
    BY SMT, <2>1, StepFacts
<1>3. SrtUnt = Since(FirstDay)
  BY DEF SrtUnt, FirstDay
<1>4. k \in Nat /\ k - 1 \in Int /\ k - 1 + 1 = k
  BY <1>1
<1> HIDE DEF s
<1>5. k * s = s * k /\ (k - 1) * s = s * (k - 1)
  BY SMT, <1>2, <1>4
<1>6. CASE cl_rqs.lcn = "ctr"
  <2> DEFINE t == (k - 1) * s + (s \div 2)
  <2>1. TimeSec(k - 1) = (s \div 2) + s * (k - 1)
    BY SMT, <1>6 DEF TimeSec, s
  <2>2. TimeSec(k - 1) = t /\ t \in Nat /\ t < 86400 /\ (k - 1) * s \in Nat
    BY SMT, <1>2, <1>5, <2>1
  <2>3. Moves(cl_rqs.cln, FirstDay, HalfStepOf(FirstDay, k - 1), t)
    BY SMT, <1>1, <2>2, StepMoves DEF s
  <2>4. TimeShown(k) = HalfStepOf(FirstDay, k - 1)
    BY SMT, <1>6 DEF TimeShown
  <2> HIDE DEF t
  <2>5. QED
    BY SMT, <1>1, <1>3, <2>2, <2>3, <2>4, UntShown
<1>7. CASE cl_rqs.lcn = "rhs"
  <2>1. TimeSec(k - 1) = s * (k - 1 + 1)
    BY SMT, <1>7 DEF TimeSec, s
  <2>2. TimeSec(k - 1) = k * s /\ k * s \in Nat /\ k * s <= 86400
    BY SMT, <1>2, <1>4, <1>5, <2>1
  <2>3. Moves(cl_rqs.cln, FirstDay, StepOf(FirstDay, k), k * s)
    BY SMT, <1>1, <2>2, StepMoves DEF s
  <2>4. TimeShown(k) = StepOf(FirstDay, k)
    BY SMT, <1>7 DEF TimeShown, FromIdx
  <2>5. QED
    BY SMT, <1>1, <1>3, <2>2, <2>3, <2>4, UntShown
<1>8. CASE cl_rqs.lcn = "lhs"
  <2>1. TimeSec(k - 1) = s * (k - 1)
    BY SMT, <1>8 DEF TimeSec, s
  <2>2. TimeSec(k - 1) = (k - 1) * s /\ (k - 1) * s \in Nat /\ (k - 1) * s <= 86400
    BY SMT, <1>2, <1>5, <2>1
  <2>3. Moves(cl_rqs.cln, FirstDay, StepOf(FirstDay, k - 1), (k - 1) * s)
    BY SMT, <1>1, <2>2, StepMoves DEF s
  <2>4. TimeShown(k) = StepOf(FirstDay, k - 1)
    BY SMT, <1>8 DEF TimeShown, FromIdx
  <2>5. QED
    BY SMT, <1>1, <1>3, <2>2, <2>3, <2>4, UntShown
<1>9. QED
  BY SMT, <1>1, <1>6, <1>7, <1>8

\* The bounds, if memory holds j where the difference of days is computed.
BndDays(j) == ClcTm(cl_rqs.cln, Val(j), EndUnt, SrtUnt)[1]
BndDff(j) == BndDays(j) - (86400 - Step)
BndFrom(i) == IF cl_rqs.lcn = "rhs" THEN Step * (i + 1) ELSE Step * i
BndTo(i, j) == BndFrom(i) + BndDff(j) - (IF cl_rqs.lcn = "ctr" THEN 0 ELSE Step)
\* Then the difference is that of the first day and the last, a step, and j.
LEMMA DffCounts ==
  ASSUME cl_rqs \in CalRequests, cl_rqs.fnc = "climo", cl_rqs.tpd > 0, NEW j \in Int
  PROVE  /\ Count(cl_rqs.cln, FirstDay) \in Int /\ Count(cl_rqs.cln, LastDay) \in Int
         /\ BndDff(j) = Count(cl_rqs.cln, LastDay) - Count(cl_rqs.cln, FirstDay) + Step + j
<1> DEFINE cln == cl_rqs.cln
           last == NextDay(cln, LastDay)
           x == Count(cln, FirstDay)
           y == Count(cln, LastDay)
           z == Count(cln, last)
           k == Seconds(cln, "year") * (1 + OriginYear)
           w == ClcTm(cln, Val(j), EndUnt, SrtUnt)
<1>1. /\ cln \in Calendars /\ IsTime(cln, FirstDay) /\ IsTime(cln, LastDay)
      /\ SrtUnt = Since(FirstDay) /\ EndUnt = Since(last)
  BY ClimoFacts DEF SrtUnt, EndUnt, FirstDay
<1>2. IsTime(cln, last) /\ z = y + 86400
  BY SMT, <1>1, DayMoves DEF Moves
<1>3. x \in Int /\ y \in Int /\ k \in Int
  <2>1. Seconds(cln, "year") \in Int /\ OriginYear \in Int
    BY <1>1, YearSeconds, OriginYearAssumption
  <2>2. k \in Int
    BY <2>1
  <2>3. QED
    BY <1>1, <2>2, TimeFacts
<1>4. /\ SrtUnt.ref = FirstDay /\ EndUnt.ref = last /\ SrtUnt.prd = "sec" /\ EndUnt.prd = "sec"
      /\ Seconds(cln, "sec") = 1
  BY SMT, <1>1 DEF Since, Unit, Seconds
<1>5. PopVal(cln, FirstDay) = x - k /\ PopVal(cln, last) = z - k
  BY <1>1, <1>2, PopValCounts
<1>6. w[1] = z - x + j
  <2>1. CASE EndUnt = SrtUnt
    <3>1. w = <<j, 1>> /\ last = FirstDay
      BY <1>4, <2>1 DEF ClcTm, Val
    <3>2. w[1] = j /\ z = x
      BY <3>1
    <3> HIDE DEF w, x, z
    <3>3. QED
      BY SMT, <1>3, <3>2
  <2>2. CASE EndUnt # SrtUnt
    <3> DEFINE off == PopVal(cln, last) - PopVal(cln, FirstDay)
    <3>1. InSeconds(Val(j), 1) = <<j, 1>>
      BY DEF InSeconds, Val
    <3>2. w = <<j + off * 1, 1 * 1>>
      BY <1>4, <2>2, <3>1 DEF ClcTm
    <3>3. w[1] = j + off * 1
      BY <3>2
    <3>4. off = z - x
      <4> HIDE DEF x, z, k
      <4>1. QED
        BY SMT, <1>2, <1>3, <1>5
    <3> HIDE DEF w, x, z, off
    <3>5. QED
      BY SMT, <1>2, <1>3, <3>3, <3>4
  <2>3. QED
    BY <2>1, <2>2
<1>7. Step \in Int
  <2> DEFINE n == cl_rqs.tpd
  <2>1. n \in Nat \ {0} /\ Step = 86400 \div n
    BY SMT, ClimoFacts DEF Step
  <2> HIDE DEF n
  <2>2. QED
    BY SMT, <2>1, PartOf
<1>8. BndDff(j) = w[1] - (86400 - Step)
  BY SMT DEF BndDff, BndDays
<1> HIDE DEF w, x, y, z
<1>9. BndDff(j) = y - x + Step + j
  BY SMT, <1>2, <1>3, <1>6, <1>7, <1>8
<1>10. QED
  BY <1>3, <1>9 DEF x, y

\* The bounds of the k-th step are shown on the first day and, but for j
\* seconds, on the last.
LEMMA BoundsShown ==
  ASSUME cl_rqs \in CalRequests, cl_rqs.fnc = "climo", cl_rqs.tpd > 0, NEW k \in 1..cl_rqs.tpd,
         NEW j \in Int
  PROVE  /\ Stamped(ToUnt(Val(BndFrom(k - 1)), SrtUnt)) = StepOf(FirstDay, FromIdx(k))
         /\ StampedBefore(ToUnt(Val(BndTo(k - 1, j)), SrtUnt), j) = StepOf(LastDay, ToIdx(k))
<1>1. /\ cl_rqs.cln \in Calendars /\ IsTime(cl_rqs.cln, FirstDay) /\ AtMidnight(FirstDay)
      /\ IsTime(cl_rqs.cln, LastDay) /\ AtMidnight(LastDay)
      /\ cl_rqs.tpd \in Nat \ {0} /\ cl_rqs.lcn \in {"ctr", "rhs", "lhs"}
  BY ClimoFacts
<1> DEFINE s == Step
           x == Count(cl_rqs.cln, FirstDay)
           y == Count(cl_rqs.cln, LastDay)
<1>2. /\ s \in Nat /\ s * k \in Nat /\ s * (k - 1) \in Nat /\ s * k <= 86400
      /\ s * k = s * (k - 1) + s
  <2> DEFINE n == cl_rqs.tpd
  <2>1. n \in Nat \ {0} /\ Portion(n, s) /\ k \in Int /\ 1 <= k /\ k <= n
    BY SMT, <1>1 DEF Step, Portion
  <2> HIDE DEF n, s
  <2>2. QED
    BY SMT, <2>1, StepFacts
<1>3. SrtUnt = Since(FirstDay)
  BY DEF SrtUnt, FirstDay
<1>4. k \in Nat /\ k - 1 \in Int /\ k - 1 + 1 = k
  BY <1>1
<1>5. x \in Int /\ y \in Int /\ BndDff(j) = y - x + s + j
  BY DffCounts
<1> HIDE DEF s
<1>6. k * s = s * k /\ (k - 1) * s = s * (k - 1)
  BY SMT, <1>2, <1>4
<1> DEFINE f == FromIdx(k)
           t == ToIdx(k)
<1>7. /\ BndFrom(k - 1) = f * s /\ BndTo(k - 1, j) = (y - x) + t * s + j
      /\ f * s \in Nat /\ f * s <= 86400 /\ t * s \in Nat /\ t * s <= 86400
  <2>1. CASE cl_rqs.lcn = "ctr"
    <3>1. /\ BndFrom(k - 1) = s * (k - 1) /\ BndTo(k - 1, j) = BndFrom(k - 1) + BndDff(j) - 0
          /\ f = k - 1 /\ t = k
      BY SMT, <2>1 DEF BndFrom, BndTo, FromIdx, ToIdx, s
    <3> HIDE DEF f, t, x, y
    <3>2. QED
      BY SMT, <1>2, <1>5, <1>6, <3>1
  <2>2. CASE cl_rqs.lcn = "rhs"
    <3>1. /\ BndFrom(k - 1) = s * (k - 1 + 1) /\ BndTo(k - 1, j) = BndFrom(k - 1) + BndDff(j) - s
          /\ f = k /\ t = k
      BY SMT, <2>2 DEF BndFrom, BndTo, FromIdx, ToIdx, s
    <3> HIDE DEF f, t, x, y
    <3>2. QED
      BY SMT, <1>2, <1>4, <1>5, <1>6, <3>1
  <2>3. CASE cl_rqs.lcn = "lhs"
    <3>1. /\ BndFrom(k - 1) = s * (k - 1) /\ BndTo(k - 1, j) = BndFrom(k - 1) + BndDff(j) - s
          /\ f = k - 1 /\ t = k - 1
      BY SMT, <2>3 DEF BndFrom, BndTo, FromIdx, ToIdx, s
    <3> HIDE DEF f, t, x, y
    <3>2. QED
      BY SMT, <1>2, <1>5, <1>6, <3>1
  <2>4. QED
    BY SMT, <1>1, <2>1, <2>2, <2>3
<1>8. /\ Moves(cl_rqs.cln, FirstDay, StepOf(FirstDay, f), f * s)
      /\ Moves(cl_rqs.cln, LastDay, StepOf(LastDay, t), t * s)
  BY SMT, <1>1, <1>7, StepMoves DEF s
<1> HIDE DEF f, t
<1>9. Moves(cl_rqs.cln, FirstDay, StepOf(LastDay, t), (y - x) + t * s)
  <2>1. /\ IsTime(cl_rqs.cln, StepOf(LastDay, t))
        /\ Count(cl_rqs.cln, StepOf(LastDay, t)) = y + t * s
    BY SMT, <1>8 DEF Moves
  <2>2. x + ((y - x) + t * s) = y + t * s
    <3> HIDE DEF x, y
    <3>1. QED
      BY SMT, <1>5, <1>7
  <2>3. QED
    BY SMT, <2>1, <2>2 DEF Moves
<1>10. f * s \in Int /\ (y - x) + t * s \in Int
  <2> HIDE DEF x, y
  <2>1. QED
    BY SMT, <1>5, <1>7
<1>11. Stamped(ToUnt(Val(BndFrom(k - 1)), SrtUnt)) = StepOf(FirstDay, f)
  BY SMT, <1>1, <1>3, <1>7, <1>8, <1>10, UntShown
<1>12. StampedBefore(ToUnt(Val(BndTo(k - 1, j)), SrtUnt), j) = StepOf(LastDay, t)
  <2> HIDE DEF x, y
  <2>1. QED
    BY <1>1, <1>3, <1>7, <1>9, <1>10, UntShownBefore
<1>13. QED
  BY SMT, <1>11, <1>12 DEF f, t

\* What the steps of a climatology have come to.
ClimoInv ==
  cl_rqs.fnc = "climo" =>
    /\ cl_rqs \in CalRequests /\ cl_pc \in {"climo", "bounds", "done"}
    /\ cl_pc = "bounds" =>
         cl_rqs.tpd > 0 /\ \A k \in 1..cl_rqs.tpd : Stamped(cl_val[k]) = TimeShown(k)
    /\ BoundsSpan

\* The request stays what it is.
LEMMA RequestKept ==
  ASSUME cl_rqs' = cl_rqs
  PROVE  /\ FirstDay' = FirstDay /\ LastDay' = LastDay
         /\ \A day, k : StepOf(day, k)' = StepOf(day, k)
         /\ \A k : TimeShown(k)' = TimeShown(k) /\ FromIdx(k)' = FromIdx(k) /\ ToIdx(k)' = ToIdx(k)
         /\ \A v : Stamped(v)' = Stamped(v)
         /\ \A v, sec : StampedBefore(v, sec)' = StampedBefore(v, sec)
<1>1. FirstDay' = FirstDay /\ LastDay' = LastDay /\ Step' = Step
  BY DEF FirstDay, LastDay, Step
<1>2. \A day, k : StepOf(day, k)' = StepOf(day, k) /\ HalfStepOf(day, k)' = HalfStepOf(day, k)
  BY SMT, <1>1 DEF StepOf, HalfStepOf
<1>3. \A k : TimeShown(k)' = TimeShown(k)
  <2>1. \A k : FromIdx(k)' = FromIdx(k)
    BY DEF FromIdx
  <2>2. QED
    BY SMT, <1>1, <1>2, <2>1 DEF TimeShown
<1>4. /\ \A v : Stamped(v)' = Stamped(v)
      /\ \A v, sec : StampedBefore(v, sec)' = StampedBefore(v, sec)
  BY DEF Stamped, StampedBefore
<1>5. \A k : FromIdx(k)' = FromIdx(k) /\ ToIdx(k)' = ToIdx(k)
  BY DEF FromIdx, ToIdx
<1>6. QED
  BY <1>1, <1>2, <1>3, <1>4, <1>5

\* It suffices to look at the values and the bounds after the step.
LEMMA SpanKept ==
  ASSUME cl_rqs' = cl_rqs,
         IF cl_rqs.tpd = 0
         THEN /\ Stamped(cl_val'[1]) = Midnight(cl_rqs.yr_srt, cl_rqs.mth_srt, 15)
              /\ Stamped(cl_bnd'[1][1]) = FirstDay
              /\ Stamped(cl_bnd'[1][2]) = NextDay(cl_rqs.cln, LastDay)
         ELSE /\ \A k \in 1..cl_rqs.tpd :
                   /\ Stamped(cl_bnd'[k][1]) = StepOf(FirstDay, FromIdx(k))
                   /\ Stamped(cl_val'[k]) = TimeShown(k)
              /\ \E junk \in Junk : \A k \in 1..cl_rqs.tpd :
                   StampedBefore(cl_bnd'[k][2], junk) = StepOf(LastDay, ToIdx(k))
  PROVE  BoundsSpan'
<1>1. CASE cl_rqs.tpd = 0
  BY <1>1 DEF BoundsSpan, Stamped, FirstDay, LastDay
<1>2. CASE cl_rqs.tpd # 0
  <2>1. ASSUME NEW k \in 1..cl_rqs.tpd
        PROVE  (Stamped(cl_bnd[k][1]) = StepOf(FirstDay, FromIdx(k)))'
    BY <1>2, RequestKept
  <2>2. ASSUME NEW k \in 1..cl_rqs.tpd
        PROVE  (Stamped(cl_val[k]) = TimeShown(k))'
    BY <1>2, RequestKept
  <2>3. PICK junk \in Junk : \A k \in 1..cl_rqs.tpd :
          StampedBefore(cl_bnd'[k][2], junk) = StepOf(LastDay, ToIdx(k))
    BY <1>2
  <2>4. ASSUME NEW k \in 1..cl_rqs.tpd
        PROVE  (StampedBefore(cl_bnd[k][2], junk) = StepOf(LastDay, ToIdx(k)))'
    BY <2>3, RequestKept
  <2>5. QED
    BY <1>2, <2>1, <2>2, <2>4 DEF BoundsSpan
<1>3. QED
  BY <1>1, <1>2

\* Monthly: times and bounds at midnight of their days.
LEMMA MonthStep ==
  ASSUME ClimoInv, ClmMonth, cl_rqs.fnc = "climo"
  PROVE  ClimoInv'
<1> DEFINE mid == Midnight(cl_rqs.yr_srt, cl_rqs.mth_srt, 15)
           last == NextDay(cl_rqs.cln, LastDay)
<1>1. /\ cl_rqs' = cl_rqs /\ cl_rqs.tpd = 0 /\ cl_pc' = "done"
      /\ cl_val' = <<ToUnt(Zero, Since(mid))>>
      /\ cl_bnd' = <<<<ToUnt(Zero, SrtUnt), ToUnt(Zero, EndUnt)>>>>
  BY DEF ClmMonth
<1>2. cl_rqs \in CalRequests
  BY DEF ClimoInv
<1>3. /\ IsTime(cl_rqs.cln, mid) /\ IsTime(cl_rqs.cln, FirstDay) /\ IsTime(cl_rqs.cln, last)
      /\ SrtUnt = Since(FirstDay) /\ EndUnt = Since(last) /\ cl_rqs.cln \in Calendars
  <2>1. IsTime(cl_rqs.cln, last)
    BY SMT, <1>2, ClimoFacts, DayMoves DEF Moves
  <2>2. QED
    BY <1>2, <2>1, ClimoFacts DEF SrtUnt, EndUnt, FirstDay
<1>4. ASSUME NEW tm, IsTime(cl_rqs.cln, tm) PROVE Stamped(ToUnt(Zero, Since(tm))) = tm
  <2>1. Moves(cl_rqs.cln, tm, tm, 0)
    <3>1. Count(cl_rqs.cln, tm) \in Int
      BY <1>3, <1>4, TimeFacts
    <3>2. Count(cl_rqs.cln, tm) + 0 = Count(cl_rqs.cln, tm)
      BY <3>1
    <3>3. QED
      BY <1>4, <3>2 DEF Moves
  <2>2. Zero = Val(0) /\ 0 \in Int
    BY DEF Zero
  <2>3. QED
    BY <1>2, <1>4, <2>1, <2>2, UntShown
<1>5. /\ Stamped(cl_val'[1]) = mid /\ Stamped(cl_bnd'[1][1]) = FirstDay
      /\ Stamped(cl_bnd'[1][2]) = last
  BY <1>1, <1>3, <1>4
<1>6. BoundsSpan'
  BY <1>1, <1>5, SpanKept
<1>7. QED
  BY <1>1, <1>2, <1>6 DEF ClimoInv

\* The times of the first day.
LEMMA TimesStep ==
  ASSUME ClimoInv, ClmTimes, cl_rqs.fnc = "climo"
  PROVE  ClimoInv'
<1>1. /\ cl_rqs' = cl_rqs /\ cl_rqs.tpd > 0 /\ cl_pc' = "bounds"
      /\ cl_val' = [i \in 1..cl_rqs.tpd |-> ToUnt(Val(TimeSec(i - 1)), SrtUnt)]
  BY SMT DEF ClmTimes, TimeSec
<1>2. cl_rqs \in CalRequests
  BY DEF ClimoInv
<1>3. ASSUME NEW k \in 1..cl_rqs.tpd PROVE Stamped(cl_val'[k]) = TimeShown(k)
  BY <1>1, <1>2, <1>3, TimesShown
<1>4. \A k \in 1..cl_rqs.tpd : (Stamped(cl_val[k]) = TimeShown(k))'
  BY <1>1, <1>3, RequestKept
<1>5. QED
  BY <1>1, <1>2, <1>4 DEF ClimoInv, BoundsSpan

\* The bounds, from the first day to the last.
LEMMA BoundsStep ==
  ASSUME ClimoInv, ClmBounds, cl_rqs.fnc = "climo"
  PROVE  ClimoInv'
<1>1. /\ cl_rqs' = cl_rqs /\ cl_val' = cl_val /\ cl_pc = "bounds" /\ cl_pc' = "done"
      /\ \E junk \in Junk :
           cl_bnd' = [i \in 1..cl_rqs.tpd |-> <<ToUnt(Val(BndFrom(i - 1)), SrtUnt),
                                                ToUnt(Val(BndTo(i - 1, junk)), SrtUnt)>>]
  BY SMT DEF ClmBounds, BndFrom, BndTo, BndDff, BndDays
<1>2. PICK junk \in Junk :
        cl_bnd' = [i \in 1..cl_rqs.tpd |-> <<ToUnt(Val(BndFrom(i - 1)), SrtUnt),
                                             ToUnt(Val(BndTo(i - 1, junk)), SrtUnt)>>]
  BY <1>1
<1>3. /\ cl_rqs \in CalRequests /\ cl_rqs.tpd > 0
      /\ \A k \in 1..cl_rqs.tpd : Stamped(cl_val[k]) = TimeShown(k)
  BY <1>1 DEF ClimoInv
<1>4. ASSUME NEW k \in 1..cl_rqs.tpd
      PROVE  /\ Stamped(cl_bnd'[k][1]) = StepOf(FirstDay, FromIdx(k))
             /\ StampedBefore(cl_bnd'[k][2], junk) = StepOf(LastDay, ToIdx(k))
             /\ Stamped(cl_val'[k]) = TimeShown(k)
  <2>1. junk \in Int
    BY <1>2, JunkAssumption
  <2>2. /\ cl_bnd'[k][1] = ToUnt(Val(BndFrom(k - 1)), SrtUnt)
        /\ cl_bnd'[k][2] = ToUnt(Val(BndTo(k - 1, junk)), SrtUnt)
    BY <1>4, <1>2
  <2>3. QED
    BY <1>1, <1>3, <1>4, <2>1, <2>2, BoundsShown
<1>5. BoundsSpan'
  <2>1. \A k \in 1..cl_rqs.tpd :
          Stamped(cl_bnd'[k][1]) = StepOf(FirstDay, FromIdx(k)) /\ Stamped(cl_val'[k]) = TimeShown(k)
    BY <1>4
  <2>2. \A k \in 1..cl_rqs.tpd : StampedBefore(cl_bnd'[k][2], junk) = StepOf(LastDay, ToIdx(k))
    BY <1>4
  <2>3. junk \in Junk /\ cl_rqs.tpd # 0
    BY <1>2, <1>3
  <2>4. QED
    BY <1>1, <2>1, <2>2, <2>3, SpanKept
<1>6. QED
  BY <1>1, <1>3, <1>5 DEF ClimoInv

\* The invariant of climo holds from the beginning.
LEMMA ClimoInit == ClInit => ClimoInv
  BY DEF ClInit, ClimoInv, BoundsSpan

\* And every step keeps it.
LEMMA ClimoNext ==
  ASSUME ClimoInv, [ClNext]_cl_vars
  PROVE  ClimoInv'
<1>1. CASE cl_rqs.fnc = "climo" /\ ClmMonth
  BY <1>1, MonthStep
<1>2. CASE cl_rqs.fnc = "climo" /\ ClmTimes
  BY <1>2, TimesStep
<1>3. CASE cl_rqs.fnc = "climo" /\ ClmBounds
  BY <1>3, BoundsStep
<1>4. CASE cl_rqs.fnc = "climo" /\ (Rebase \/ ToBase \/ Stamp \/ StartDate \/ Ahead \/ Back)
  <2>1. cl_pc \in {"print", "base", "stamp", "date", "ahead", "back"}
    BY <1>4 DEF Rebase, ToBase, Stamp, StartDate, Ahead, Back
  <2>2. QED
    BY <1>4, <2>1 DEF ClimoInv
<1>5. CASE cl_rqs.fnc # "climo" /\ ClNext
  <2>1. cl_rqs' = cl_rqs
    BY <1>5 DEF ClNext, Rebase, ToBase, Stamp, ClmMonth, ClmTimes, ClmBounds, StartDate, Ahead, Back
  <2>2. QED
    BY <1>5, <2>1 DEF ClimoInv
<1>6. CASE UNCHANGED cl_vars
  <2>1. /\ cl_rqs' = cl_rqs /\ cl_pc' = cl_pc /\ cl_val' = cl_val /\ cl_bnd' = cl_bnd
    BY <1>6 DEF cl_vars
  <2>2. BoundsSpan'
    <3>1. CASE cl_rqs.fnc = "climo" /\ cl_pc = "done"
      <4>1. BoundsSpan
        BY <3>1 DEF ClimoInv
      <4>2. QED
        BY <2>1, <3>1, <4>1, SpanKept DEF BoundsSpan, FromIdx, ToIdx, TimeShown
    <3>2. CASE ~(cl_rqs.fnc = "climo" /\ cl_pc = "done")
      BY <2>1, <3>2 DEF BoundsSpan
    <3>3. QED
      BY <3>1, <3>2
  <2>3. cl_rqs.fnc = "climo" /\ cl_pc = "bounds" =>
          cl_rqs.tpd > 0 /\ \A k \in 1..cl_rqs.tpd : (Stamped(cl_val[k]) = TimeShown(k))'
    BY <2>1, RequestKept DEF ClimoInv
  <2>4. QED
    BY <2>1, <2>2, <2>3 DEF ClimoInv
<1>7. QED
  BY <1>1, <1>2, <1>3, <1>4, <1>5, <1>6 DEF ClNext

\* The times of a climatology are where they are asked for, its bounds begin
\* on the first day and end on the last, but for the number of seconds that
\* memory held, whichever it is: in every calendar, over any number of years
\* and for any number of steps of the day, in whatever units.
THEOREM BoundsFollowClock == ClSpec => []BoundsSpan
<1>1. ClimoInv => BoundsSpan
  BY DEF ClimoInv, BoundsSpan
<1>2. ClimoInv /\ [ClNext]_cl_vars => ClimoInv'
  BY ClimoNext
<1>3. QED
  BY <1>1, <1>2, ClimoInit, PTL DEF ClSpec

-----------------------------------------------------------------------------
(* Folds along a sequence, and offsets in an array.                        *)

\* Every non-empty set of natural numbers has a smallest element.
LEMMA NatMin ==
  ASSUME NEW T, T \subseteq Nat, T # {}
  PROVE  \E x \in T : \A y \in T : x <= y
<1>1. {ss \in Nat \X Nat : ss[1] < ss[2]} = OpToRel(<, Nat)
  BY DEF OpToRel
<1>2. IsWellFoundedOn({ss \in Nat \X Nat : ss[1] < ss[2]}, Nat)
  BY <1>1, NatLessThanWellFounded, Zenon
<1>3. PICK x \in T : \A y \in T : ~(<<y, x>> \in {ss \in Nat \X Nat : ss[1] < ss[2]})
  BY <1>2, WFMin, Zenon
<1>4. ASSUME NEW y \in T PROVE ~(y < x)
  <2>1. y \in Nat /\ x \in Nat
    BY <1>3
  <2>2. ASSUME y < x PROVE <<y, x>> \in {ss \in Nat \X Nat : ss[1] < ss[2]}
    BY <2>1, <2>2
  <2>3. QED
    BY <1>3, <2>2, Zenon
<1>5. QED
  <2>1. \A y \in T : x <= y
    BY <1>4
  <2>2. QED
    BY <2>1

\* What holds of 0 and goes on holds up to n.
LEMMA UpTo ==
  ASSUME NEW n \in Nat, NEW T, 0 \in T, \A i \in 1..n : i - 1 \in T => i \in T
  PROVE  \A i \in 0..n : i \in T
<1> DEFINE bad == {i \in 0..n : i \notin T}
<1>1. CASE bad = {}
  BY <1>1
<1>2. CASE bad # {}
  <2>1. bad \subseteq Nat
    OBVIOUS
  <2>2. PICK x \in bad : \A y \in bad : x <= y
    BY <1>2, <2>1, NatMin
  <2>3. x \in 1..n /\ x - 1 \in 0..n /\ x - 1 \notin bad
    BY <2>2
  <2>4. QED
    BY <2>2, <2>3
<1>3. QED
  BY <1>1, <1>2

\* A function that starts with b and goes on with F, and that there is one.
Walks(f, n, b, F) == f[0] = b /\ \A i \in 1..n : f[i] = F[i][f[i - 1]]

\* Such a function exists for every length.
LEMMA Along ==
  ASSUME NEW n \in Nat, NEW S, NEW b \in S, NEW F \in [1..n -> [S -> S]]
  PROVE  \E f \in [0..n -> S] : Walks(f, n, b, F)
<1> DEFINE Going(f, m) == f[0] = b /\ \A i \in 1..m : f[i] = F[i][f[i - 1]]
           T == {m \in 0..n : \E f \in [0..n -> S] : Going(f, m)}
<1>1. 0 \in T
  <2>1. [i \in 0..n |-> b] \in [0..n -> S] /\ Going([i \in 0..n |-> b], 0)
    OBVIOUS
  <2>2. 0 \in 0..n
    OBVIOUS
  <2>3. QED
    BY <2>1, <2>2, Zenon
<1>2. ASSUME NEW m \in 1..n, m - 1 \in T PROVE m \in T
  <2>1. PICK f \in [0..n -> S] : Going(f, m - 1)
    BY <1>2
  <2> DEFINE g == [f EXCEPT ![m] = F[m][f[m - 1]]]
  <2>2. f[m - 1] \in S /\ F[m][f[m - 1]] \in S
    OBVIOUS
  <2>3. g \in [0..n -> S]
    BY <2>2
  <2>4. \A i \in 0..n : i # m => g[i] = f[i]
    OBVIOUS
  <2>5. Going(g, m)
    <3>1. g[0] = b
      BY <2>1, <2>4
    <3>2. ASSUME NEW i \in 1..m PROVE g[i] = F[i][g[i - 1]]
      <4>1. CASE i = m
        BY <2>4, <4>1
      <4>2. CASE i # m
        BY <2>1, <2>4, <4>2
      <4>3. QED
        BY <4>1, <4>2
    <3>3. QED
      BY <3>1, <3>2
  <2>6. m \in 0..n
    OBVIOUS
  <2>7. QED
    BY <2>3, <2>5, <2>6, Zenon
<1>3. n \in T
  <2> HIDE DEF T
  <2>1. \A i \in 0..n : i \in T
    BY <1>1, <1>2, UpTo
  <2>2. QED
    BY <2>1
<1>4. QED
  BY <1>3 DEF Walks

\* The largest of a set of places.
LEMMA MaxPlace ==
  ASSUME NEW n \in Nat, NEW s \in SUBSET (1..n), s # {}
  PROVE  Max(s) \in s /\ \A y \in s : Max(s) >= y
<1> DEFINE T == {k \in 0..n : \A t \in SUBSET (1..k) : t # {} => \E x \in t : \A y \in t : x >= y}
<1>1. 0 \in T
  <2>1. 1..0 = {} /\ 0 \in 0..n
    OBVIOUS
  <2>2. QED
    BY <2>1
<1>2. ASSUME NEW k \in 1..n, k - 1 \in T PROVE k \in T
  <2>1. SUFFICES ASSUME NEW t \in SUBSET (1..k), t # {} PROVE \E x \in t : \A y \in t : x >= y
    OBVIOUS
  <2>2. CASE k \in t
    BY <2>2
  <2>3. CASE k \notin t
    <3>1. t \in SUBSET (1..(k - 1))
      BY <2>3
    <3>2. QED
      BY <1>2, <2>1, <3>1
  <2>4. QED
    BY <2>2, <2>3
<1> HIDE DEF T
<1>3. n \in T
  BY <1>1, <1>2, UpTo
<1>4. \E x \in s : \A y \in s : x >= y
  BY <1>3 DEF T
<1>5. QED
  BY <1>4 DEF Max

\* A function on the sets of places that goes from the smallest to the
\* largest, and that there is one.
Covers(f, n, b, F) ==
  \A s \in SUBSET (1..n) : f[s] = IF s = {} THEN b ELSE F[Max(s)][f[s \ {Max(s)}]]

\* Such a function exists too: it is what MapThenFoldSet chooses.
LEMMA OverPlaces ==
  ASSUME NEW n \in Nat, NEW S, NEW b \in S, NEW F \in [1..n -> [S -> S]]
  PROVE  \E f \in [SUBSET (1..n) -> S] : Covers(f, n, b, F)
<1> DEFINE P == SUBSET (1..n)
           H == [P -> S]
           K(i, h) == [s \in P |-> IF i \in s THEN F[i][h[s \ {i}]] ELSE h[s]]
           G == [i \in 1..n |-> [h \in H |-> K(i, h)]]
           first == [s \in P |-> b]
<1>1. \A i \in 1..n : \A h \in H : K(i, h) \in H
  <2>1. SUFFICES ASSUME NEW i \in 1..n, NEW h \in H, NEW s \in P
                 PROVE  (IF i \in s THEN F[i][h[s \ {i}]] ELSE h[s]) \in S
    OBVIOUS
  <2>2. s \ {i} \in P
    OBVIOUS
  <2>3. h[s] \in S /\ h[s \ {i}] \in S
    BY <2>2
  <2>4. QED
    BY <2>3
<1>2. G \in [1..n -> [H -> H]]
  <2> HIDE DEF H, K
  <2>1. QED
    BY <1>1
<1>3. first \in H
  OBVIOUS
<1>4. PICK g \in [0..n -> H] : g[0] = first /\ \A i \in 1..n : g[i] = G[i][g[i - 1]]
  <2> HIDE DEF G, H, first
  <2>1. PICK g \in [0..n -> H] : Walks(g, n, first, G)
    BY <1>2, <1>3, Along
  <2>2. QED
    BY <2>1 DEF Walks
<1>5. \A i \in 1..n : g[i] = K(i, g[i - 1])
  <2>1. SUFFICES ASSUME NEW i \in 1..n PROVE g[i] = K(i, g[i - 1])
    OBVIOUS
  <2> HIDE DEF H, K
  <2>2. i - 1 \in 0..n
    OBVIOUS
  <2>3. g[i - 1] \in H
    BY <2>2
  <2>4. QED
    BY <1>4, <2>3
<1>6. \A i \in 1..n : \A s \in P :
        g[i][s] = IF i \in s THEN F[i][g[i - 1][s \ {i}]] ELSE g[i - 1][s]
  <2>1. SUFFICES ASSUME NEW i \in 1..n, NEW s \in P
                 PROVE  g[i][s] = IF i \in s THEN F[i][g[i - 1][s \ {i}]] ELSE g[i - 1][s]
    OBVIOUS
  <2>2. g[i] = K(i, g[i - 1])
    BY <1>5
  <2> HIDE DEF H, P
  <2>3. QED
    BY <2>2
<1> DEFINE Right(h, s) == h[s] = IF s = {} THEN b ELSE F[Max(s)][h[s \ {Max(s)}]]
           T == {k \in 0..n : \A s \in SUBSET (1..k) : Right(g[k], s)}
<1>7. 0 \in T
  <2>1. 1..0 = {} /\ 0 \in 0..n /\ {} \in P
    OBVIOUS
  <2>2. g[0][{}] = b
    BY <1>4, <2>1
  <2>3. QED
    BY <2>1, <2>2
<1> HIDE DEF K, G, H, first
<1>8. ASSUME NEW k \in 1..n, k - 1 \in T PROVE k \in T
  <2>0. k \in 0..n
    OBVIOUS
  <2>1. SUFFICES ASSUME NEW s \in SUBSET (1..k) PROVE Right(g[k], s)
    BY <2>0
  <2>2. s \in P /\ s \ {k} \in P /\ s \ {k} \in SUBSET (1..(k - 1))
    OBVIOUS
  <2>3. CASE k \in s
    <3>1. Max(s) = k
      <4>1. s # {}
        BY <2>3
      <4>2. Max(s) \in s /\ Max(s) >= k
        BY <2>2, <2>3, <4>1, MaxPlace
      <4>3. Max(s) \in 1..k
        BY <4>2
      <4>4. QED
        BY <4>2, <4>3
    <3>2. g[k][s] = F[k][g[k - 1][s \ {k}]]
      BY <1>6, <2>2, <2>3
    <3>3. g[k][s \ {k}] = g[k - 1][s \ {k}]
      BY <1>6, <2>2
    <3>4. s # {}
      BY <2>3
    <3>5. QED
      BY <3>1, <3>2, <3>3, <3>4
  <2>4. CASE k \notin s
    <3>1. s \in SUBSET (1..(k - 1))
      BY <2>4
    <3>2. Right(g[k - 1], s)
      BY <1>8, <3>1
    <3>3. g[k][s] = g[k - 1][s]
      BY <1>6, <2>2, <2>4
    <3>4. CASE s = {}
      BY <3>2, <3>3, <3>4
    <3>5. CASE s # {}
      <4>1. s \ {Max(s)} \in P /\ k \notin s \ {Max(s)}
        BY <2>2, <2>4
      <4>2. g[k][s \ {Max(s)}] = g[k - 1][s \ {Max(s)}]
        BY <1>6, <4>1
      <4>3. QED
        BY <3>2, <3>3, <3>5, <4>2
    <3>6. QED
      BY <3>4, <3>5
  <2>5. QED
    BY <2>3, <2>4
<1>9. n \in T
  <2> HIDE DEF T
  <2>1. \A i \in 0..n : i \in T
    BY <1>7, <1>8, UpTo
  <2>2. QED
    BY <2>1
<1>10. g[n] \in [SUBSET (1..n) -> S]
  <2>1. n \in 0..n
    OBVIOUS
  <2>2. g[n] \in H
    BY <2>1
  <2>3. QED
    BY <2>2 DEF H
<1>11. \A s \in SUBSET (1..n) : Right(g[n], s)
  BY <1>9
<1>12. QED
  BY <1>10, <1>11 DEF Covers

\* The places before the last.
LEMMA ButLast ==
  ASSUME NEW k \in Nat \ {0}
  PROVE  (1..k) \ {k} = 1..(k - 1)
OBVIOUS

\* The number of elements is the product of the sizes of the dimensions.
LEMMA SizeIs ==
  ASSUME NEW n \in Nat, NEW dims, DOMAIN dims = 1..n, NEW cnt,
         \A i \in 1..n : cnt[dims[i]] \in Nat,
         NEW g \in [0..n -> Nat], g[0] = 1, \A i \in 1..n : g[i] = g[i - 1] * cnt[dims[i]]
  PROVE  Size(dims, cnt) = g[n]
<1> DEFINE iter[s \in SUBSET DOMAIN dims] ==
             IF s = {} THEN 1 ELSE iter[s \ {Max(s)}] * cnt[dims[Max(s)]]
           F == [i \in 1..n |-> [a \in Nat |-> a * cnt[dims[i]]]]
           Eq(f) == f = [s \in SUBSET (1..n) |->
                           IF s = {} THEN 1 ELSE f[s \ {Max(s)}] * cnt[dims[Max(s)]]]
<1>1. Size(dims, cnt) = iter[DOMAIN dims]
  BY DEF Size, FoldLeft, MapThenFoldSet
<1>2. F \in [1..n -> [Nat -> Nat]]
  OBVIOUS
<1>3. \E f : Eq(f)
  <2> DEFINE N == Nat
             b == 1
  <2>1. b \in N /\ F \in [1..n -> [N -> N]]
    BY <1>2
  <2> HIDE DEF F, N, b
  <2>2. PICK f \in [SUBSET (1..n) -> N] : Covers(f, n, b, F)
    BY <2>1, OverPlaces
  <2>3. \A s \in SUBSET (1..n) : s # {} =>
          F[Max(s)][f[s \ {Max(s)}]] = f[s \ {Max(s)}] * cnt[dims[Max(s)]]
    <3>1. SUFFICES ASSUME NEW s \in SUBSET (1..n), s # {}
                   PROVE  F[Max(s)][f[s \ {Max(s)}]] = f[s \ {Max(s)}] * cnt[dims[Max(s)]]
      OBVIOUS
    <3>2. Max(s) \in 1..n /\ s \ {Max(s)} \in SUBSET (1..n)
      BY <3>1, MaxPlace
    <3>3. f[s \ {Max(s)}] \in Nat
      BY <3>2 DEF N
    <3>4. QED
      BY <3>2, <3>3 DEF F
  <2>4. Eq(f)
    BY <2>2, <2>3 DEF Covers, b
  <2>5. QED
    BY <2>4
<1>4. Eq(iter)
  BY <1>3
<1> HIDE DEF iter
<1>5. \A s \in SUBSET (1..n) :
        iter[s] = IF s = {} THEN 1 ELSE iter[s \ {Max(s)}] * cnt[dims[Max(s)]]
  BY <1>4
<1> DEFINE T == {k \in 0..n : iter[1..k] = g[k]}
<1>6. 0 \in T
  <2>1. 1..0 = {} /\ 0 \in 0..n /\ {} \in SUBSET (1..n)
    OBVIOUS
  <2>2. QED
    BY <1>5, <2>1
<1>7. ASSUME NEW k \in 1..n, k - 1 \in T PROVE k \in T
  <2>1. 1..k \in SUBSET (1..n) /\ k \in 1..k /\ k \in 0..n
    OBVIOUS
  <2>2. (1..k) \ {k} = 1..(k - 1)
    <3>1. k \in Nat \ {0}
      OBVIOUS
    <3>2. QED
      BY <3>1, ButLast
  <2>3. Max(1..k) = k
    <3> DEFINE s == 1..k
    <3>1. s \in SUBSET (1..n) /\ k \in s
      BY <2>1
    <3> HIDE DEF s
    <3>2. Max(s) \in s /\ Max(s) >= k
      BY <3>1, MaxPlace
    <3>3. QED
      BY <3>2 DEF s
  <2>4. iter[1..k] = iter[1..(k - 1)] * cnt[dims[k]]
    BY <1>5, <2>1, <2>2, <2>3
  <2>5. QED
    BY <1>7, <2>1, <2>4
<1>8. n \in T
  <2> HIDE DEF T
  <2>1. \A i \in 0..n : i \in T
    BY <1>6, <1>7, UpTo
  <2>2. QED
    BY <2>1
<1>9. QED
  BY <1>1, <1>8

\* The offset is the sum of what each dimension adds.
LEMMA SumIs ==
  ASSUME NEW n \in Nat, NEW x \in [1..n -> Int],
         NEW g \in [0..n -> Int], g[0] = 0, \A i \in 1..n : g[i] = g[i - 1] + x[i]
  PROVE  FoldLeft(LAMBDA a, b : a + b, 0, x) = g[n]
<1> DEFINE iter[s \in SUBSET DOMAIN x] ==
             IF s = {} THEN 0 ELSE iter[s \ {Max(s)}] + x[Max(s)]
           F == [i \in 1..n |-> [a \in Int |-> a + x[i]]]
           Eq(f) == f = [s \in SUBSET (1..n) |->
                           IF s = {} THEN 0 ELSE f[s \ {Max(s)}] + x[Max(s)]]
<1>1. FoldLeft(LAMBDA a, b : a + b, 0, x) = iter[DOMAIN x] /\ DOMAIN x = 1..n
  BY DEF FoldLeft, MapThenFoldSet
<1>2. F \in [1..n -> [Int -> Int]]
  OBVIOUS
<1>3. \E f : Eq(f)
  <2> DEFINE N == Int
             b == 0
  <2>1. b \in N /\ F \in [1..n -> [N -> N]]
    BY <1>2
  <2> HIDE DEF F, N, b
  <2>2. PICK f \in [SUBSET (1..n) -> N] : Covers(f, n, b, F)
    BY <2>1, OverPlaces
  <2>3. \A s \in SUBSET (1..n) : s # {} =>
          F[Max(s)][f[s \ {Max(s)}]] = f[s \ {Max(s)}] + x[Max(s)]
    <3>1. SUFFICES ASSUME NEW s \in SUBSET (1..n), s # {}
                   PROVE  F[Max(s)][f[s \ {Max(s)}]] = f[s \ {Max(s)}] + x[Max(s)]
      OBVIOUS
    <3>2. Max(s) \in 1..n /\ s \ {Max(s)} \in SUBSET (1..n)
      BY <3>1, MaxPlace
    <3>3. f[s \ {Max(s)}] \in Int
      BY <3>2 DEF N
    <3>4. QED
      BY <3>2, <3>3 DEF F
  <2>4. Eq(f)
    BY <2>2, <2>3 DEF Covers, b
  <2>5. QED
    BY <2>4
<1>4. Eq(iter)
  BY <1>1, <1>3
<1> HIDE DEF iter
<1>5. \A s \in SUBSET (1..n) :
        iter[s] = IF s = {} THEN 0 ELSE iter[s \ {Max(s)}] + x[Max(s)]
  BY <1>4
<1> DEFINE T == {k \in 0..n : iter[1..k] = g[k]}
<1>6. 0 \in T
  <2>1. 1..0 = {} /\ 0 \in 0..n /\ {} \in SUBSET (1..n)
    OBVIOUS
  <2>2. QED
    BY <1>5, <2>1
<1>7. ASSUME NEW k \in 1..n, k - 1 \in T PROVE k \in T
  <2>1. 1..k \in SUBSET (1..n) /\ k \in 1..k /\ k \in 0..n
    OBVIOUS
  <2>2. (1..k) \ {k} = 1..(k - 1)
    <3>1. k \in Nat \ {0}
      OBVIOUS
    <3>2. QED
      BY <3>1, ButLast
  <2>3. Max(1..k) = k
    <3> DEFINE s == 1..k
    <3>1. s \in SUBSET (1..n) /\ k \in s
      BY <2>1
    <3> HIDE DEF s
    <3>2. Max(s) \in s /\ Max(s) >= k
      BY <3>1, MaxPlace
    <3>3. QED
      BY <3>2 DEF s
  <2>4. iter[1..k] = iter[1..(k - 1)] + x[k]
    BY <1>5, <2>1, <2>2, <2>3
  <2>5. QED
    BY <1>7, <2>1, <2>4
<1>8. n \in T
  <2> HIDE DEF T
  <2>1. \A i \in 0..n : i \in T
    BY <1>6, <1>7, UpTo
  <2>2. QED
    BY <2>1
<1>9. QED
  BY <1>1, <1>8

\* What is left over the multiples of a number.
LEMMA LeftOver ==
  ASSUME NEW c \in Nat \ {0}, NEW q \in Int, NEW s \in Nat, s < c
  PROVE  (q * c + s) % c = s
<1>1. (q * c + s) \div c = q
  <2>1. c * q <= q * c + s /\ q * c + s < c * q + c
    OBVIOUS
  <2>2. QED
    BY <2>1, WholePart
<1>2. QED
  BY <1>1, SMT

\* The whole multiples that come before a place, and what comes after it.
LEMMA Carried ==
  ASSUME NEW p \in Int, NEW c \in Nat, NEW m \in Nat, NEW s \in Nat, NEW q \in Int,
         p = q * (c * m)
  PROVE  p + s * m = (q * c + s) * m
  BY SMT

\* A digit and what comes behind it stay below the next weight.
LEMMA Borne ==
  ASSUME NEW c \in Nat, NEW m \in Nat, NEW s \in Nat, s < c, NEW r \in Int, 0 <= r, r < m
  PROVE  0 <= s * m + r /\ s * m + r < c * m
<1>1. s * m >= 0 /\ (s + 1) * m = s * m + m
  BY SMT
<1>2. (c - s - 1) * m >= 0 /\ c * m = (s + 1) * m + (c - s - 1) * m
  BY SMT
<1>3. s * m \in Int /\ c * m \in Int /\ (s + 1) * m \in Int /\ (c - s - 1) * m \in Int
  OBVIOUS
<1>4. QED
  BY <1>1, <1>2, <1>3

\* The factors of a positive product are positive.
LEMMA Positive ==
  ASSUME NEW c \in Nat, NEW m \in Nat, c * m > 0
  PROVE  c > 0 /\ m > 0
  BY SMT

\* Numbers written with digits s in a system of mixed bases c: each is found
\* again, with M the weights and t the sum of the digits so far.
Weighs(n, c, M) ==
  /\ c \in [1..n -> Nat] /\ M \in [0..n -> Nat] /\ M[n] = 1
  /\ \A i \in 1..n : M[i - 1] = c[i] * M[i] /\ c[i] > 0 /\ M[i] > 0
Adds(n, c, M, s, t) ==
  /\ s \in [1..n -> Nat] /\ \A i \in 1..n : s[i] < c[i]
  /\ t \in [0..n -> Int] /\ t[0] = 0
  /\ \A i \in 1..n : t[i] = t[i - 1] + s[i] * M[i]
Yields(n, c, M, s, t, k) == (t[n] \div M[k]) % c[k] = s[k]

\* The digit at a place is what the division and the remainder leave there.
LEMMA Digits ==
  ASSUME NEW n \in Nat, NEW c, NEW M, Weighs(n, c, M), NEW s, NEW t, Adds(n, c, M, s, t),
         NEW k \in 1..n
  PROVE  Yields(n, c, M, s, t, k)
<1>0. /\ \A i \in 0..n : M[i] \in Nat /\ t[i] \in Int
      /\ \A i \in 1..n : c[i] \in Nat /\ c[i] > 0 /\ M[i] > 0 /\ M[i - 1] = c[i] * M[i]
      /\ \A i \in 1..n : s[i] \in Nat /\ s[i] < c[i] /\ t[i] = t[i - 1] + s[i] * M[i]
      /\ M[n] = 1 /\ t[0] = 0
  BY DEF Weighs, Adds
<1>1. \A i \in 1..n : \E q \in Int : t[i - 1] = q * (c[i] * M[i])
  <2> DEFINE T == {i \in 0..n : \E q \in Int : t[i] = q * M[i]}
  <2>1. 0 \in T
    <3>1. 0 \in 0..n /\ M[0] \in Nat
      BY <1>0
    <3>2. 0 \in Int /\ t[0] = 0 * M[0]
      BY <1>0, <3>1
    <3>3. QED
      BY <3>1, <3>2
  <2>2. ASSUME NEW i \in 1..n, i - 1 \in T PROVE i \in T
    <3>1. i \in 0..n /\ i - 1 \in 0..n /\ c[i] \in Nat /\ M[i] \in Nat /\ s[i] \in Nat
          /\ t[i - 1] \in Int
      BY <1>0
    <3>2. PICK q \in Int : t[i - 1] = q * M[i - 1]
      BY <2>2
    <3>3. t[i - 1] = q * (c[i] * M[i])
      BY <1>0, <3>2
    <3>4. t[i - 1] + s[i] * M[i] = (q * c[i] + s[i]) * M[i]
      BY <3>1, <3>3, Carried
    <3>5. t[i] = (q * c[i] + s[i]) * M[i]
      BY <1>0, <3>4
    <3>7. q * c[i] + s[i] \in Int
      BY <3>1
    <3>6. QED
      BY <3>1, <3>5, <3>7
  <2> HIDE DEF T
  <2>3. \A i \in 0..n : i \in T
    BY <2>1, <2>2, UpTo
  <2>4. QED
    <3>1. SUFFICES ASSUME NEW i \in 1..n PROVE \E q \in Int : t[i - 1] = q * (c[i] * M[i])
      OBVIOUS
    <3>2. i - 1 \in T
      BY <2>3
    <3>3. PICK q \in Int : t[i - 1] = q * M[i - 1]
      BY <3>2 DEF T
    <3>4. QED
      BY <1>0, <3>3
<1>2. \A i \in 0..n : 0 <= t[n] - t[i] /\ t[n] - t[i] < M[i]
  <2> DEFINE T == {j \in 0..n : 0 <= t[n] - t[n - j] /\ t[n] - t[n - j] < M[n - j]}
  <2>1. 0 \in T
    <3>1. n - 0 = n /\ 0 \in 0..n /\ n \in 0..n /\ t[n] \in Int /\ t[n] - t[n] = 0
      BY <1>0
    <3>2. QED
      BY <1>0, <3>1
  <2>2. ASSUME NEW j \in 1..n, j - 1 \in T PROVE j \in T
    <3> DEFINE i == n - j + 1
    <3>1. /\ i \in 1..n /\ n - (j - 1) = i /\ n - j = i - 1
          /\ i \in 0..n /\ i - 1 \in 0..n /\ j \in 0..n
          /\ n \in 0..n
      OBVIOUS
    <3>2. 0 <= t[n] - t[i] /\ t[n] - t[i] < M[i]
      BY <2>2, <3>1
    <3> HIDE DEF i
    <3>3. /\ c[i] \in Nat /\ M[i] \in Nat /\ s[i] \in Nat /\ s[i] < c[i] /\ t[i] \in Int
          /\ t[n] \in Int /\ t[i - 1] \in Int
      BY <1>0, <3>1
    <3>4. PICK r \in Int : r = t[n] - t[i]
      BY <3>3
    <3>5. PICK w \in Int : w = s[i] * M[i]
      BY <3>3
    <3>6. 0 <= w + r /\ w + r < c[i] * M[i]
      BY <3>2, <3>3, <3>4, <3>5, Borne
    <3>7. t[i] = t[i - 1] + w /\ M[i - 1] = c[i] * M[i]
      BY <1>0, <3>1, <3>5
    <3>8. t[n] - t[i - 1] = w + r
      BY <3>3, <3>4, <3>7
    <3>9. QED
      BY <3>1, <3>6, <3>7, <3>8
  <2> HIDE DEF T
  <2>3. \A j \in 0..n : j \in T
    BY <2>1, <2>2, UpTo
  <2>4. QED
    <3>1. SUFFICES ASSUME NEW i \in 0..n PROVE 0 <= t[n] - t[i] /\ t[n] - t[i] < M[i]
      OBVIOUS
    <3>2. n - i \in 0..n /\ n - (n - i) = i
      OBVIOUS
    <3>3. n - i \in T
      BY <2>3, <3>2
    <3>4. QED
      BY <3>2, <3>3 DEF T
<1>3. PICK q \in Int : t[k - 1] = q * (c[k] * M[k])
  BY <1>1
<1>4. /\ c[k] \in Nat \ {0} /\ M[k] \in Nat \ {0} /\ s[k] \in Nat /\ s[k] < c[k]
      /\ t[k] \in Int /\ t[n] \in Int /\ t[k - 1] \in Int /\ k \in 0..n
      /\ t[k] = t[k - 1] + s[k] * M[k]
  <2>1. k \in 0..n /\ n \in 0..n /\ k - 1 \in 0..n
    OBVIOUS
  <2>2. QED
    BY <1>0, <2>1
<1>5. t[k] = (q * c[k] + s[k]) * M[k]
  <2>1. t[k - 1] + s[k] * M[k] = (q * c[k] + s[k]) * M[k]
    BY <1>3, <1>4, Carried
  <2>2. QED
    BY <1>4, <2>1
<1>6. t[n] \div M[k] = q * c[k] + s[k]
  <2>1. PICK r \in Int : r = t[n] - t[k]
    BY <1>4
  <2>2. PICK w \in Int : w = q * c[k] + s[k]
    BY <1>4
  <2>3. 0 <= r /\ r < M[k]
    BY <1>2, <1>4, <2>1
  <2>4. PICK p \in Int : p = M[k] * w /\ p = t[k]
    BY <1>4, <1>5, <2>2
  <2>5. p <= t[n] /\ t[n] < p + M[k]
    BY <1>4, <2>1, <2>3, <2>4
  <2>6. M[k] * w <= t[n] /\ t[n] < M[k] * w + M[k]
    BY <2>4, <2>5
  <2>7. t[n] \div M[k] = w
    BY <1>4, <2>6, WholePart
  <2>8. QED
    BY <2>2, <2>7
<1>7. (t[n] \div M[k]) % c[k] = s[k]
  BY <1>4, <1>6, LeftOver
<1>8. QED
  BY <1>7 DEF Yields

\* Dimensions that have sizes, and the products of sizes that lead to the
\* number of elements.
Sized(n, dims, cnt) == DOMAIN dims = 1..n /\ \A i \in 1..n : cnt[dims[i]] \in Nat
Grows(g, n, dims, cnt) ==
  /\ g[0] = 1 /\ \A i \in 1..n : g[i] = g[i - 1] * cnt[dims[i]]
  /\ Size(dims, cnt) = g[n]

\* The size of an array is reached dimension by dimension.
LEMMA SizeWalks ==
  ASSUME NEW n \in Nat, NEW dims, NEW cnt, Sized(n, dims, cnt)
  PROVE  \E g \in [0..n -> Nat] : Grows(g, n, dims, cnt)
<1> DEFINE N == Nat
           F == [i \in 1..n |-> [a \in N |-> a * cnt[dims[i]]]]
           b == 1
<1>1. F \in [1..n -> [N -> N]] /\ b \in N
  BY DEF Sized
<1> HIDE DEF F, N, b
<1>2. PICK g \in [0..n -> N] : Walks(g, n, b, F)
  BY <1>1, Along
<1>3. \A i \in 1..n : g[i] = g[i - 1] * cnt[dims[i]]
  <2>1. SUFFICES ASSUME NEW i \in 1..n PROVE g[i] = g[i - 1] * cnt[dims[i]]
    OBVIOUS
  <2>2. i - 1 \in 0..n
    OBVIOUS
  <2>3. g[i - 1] \in N
    BY <2>2
  <2>4. QED
    BY <1>2, <2>3 DEF F, Walks
<1>4. g \in [0..n -> Nat] /\ g[0] = 1
  BY <1>2 DEF N, b, Walks
<1>5. Size(dims, cnt) = g[n]
  BY <1>3, <1>4, SizeIs DEF Sized
<1>6. QED
  BY <1>3, <1>4, <1>5 DEF Grows

\* The elements between two values of a dimension: those of the dimensions
\* behind it.
LEMMA MapEnd ==
  ASSUME NEW U, NEW dims \in Seq(U), NEW cnt
  PROVE  DmnMap(dims, cnt, Len(dims)) = 1
<1> DEFINE s == SubSeq(dims, Len(dims) + 1, Len(dims))
<1>1. DOMAIN s = 1..0 /\ 1..0 = {}
  OBVIOUS
<1> HIDE DEF s
<1>2. 0 \in Nat /\ Sized(0, s, cnt)
  BY <1>1 DEF Sized
<1>3. PICK g \in [0..0 -> Nat] : Grows(g, 0, s, cnt)
  BY <1>2, SizeWalks
<1>4. QED
  BY <1>3 DEF DmnMap, s, Grows

\* Dropping the first dimension.
Behind(m, s, t) == \A j \in 1..(m - 1) : t[j] = s[j + 1]
Drops(s, t, cnt) == Size(s, cnt) = cnt[s[1]] * Size(t, cnt)

\* A dimension in front multiplies the size by its own.
LEMMA SizeDrop ==
  ASSUME NEW m \in Nat \ {0}, NEW s, NEW t, NEW cnt, Sized(m, s, cnt), Sized(m - 1, t, cnt),
         Behind(m, s, t)
  PROVE  Drops(s, t, cnt)
<1>0. m \in Nat /\ m - 1 \in Nat
  OBVIOUS
<1>1. PICK g \in [0..m -> Nat] : Grows(g, m, s, cnt)
  BY <1>0, SizeWalks
<1>2. \A i \in 1..m : cnt[s[i]] \in Nat
  BY DEF Sized
<1>3. PICK h \in [0..(m - 1) -> Nat] : Grows(h, m - 1, t, cnt)
  BY <1>0, SizeWalks
<1> DEFINE c == cnt[s[1]]
           T == {j \in 0..(m - 1) : g[j + 1] = c * h[j]}
<1>4. c \in Nat
  BY <1>2
<1>5. 0 \in T
  <2>1. 1 \in 1..m /\ 0 \in 0..(m - 1) /\ 0 + 1 = 1 /\ 1 - 1 = 0
    OBVIOUS
  <2>2. g[1] = g[0] * c
    BY <1>1, <2>1 DEF Grows
  <2> HIDE DEF c
  <2>3. g[1] = c * h[0]
    BY <1>1, <1>3, <1>4, <2>2 DEF Grows
  <2>4. QED
    BY <2>1, <2>3
<1>6. ASSUME NEW j \in 1..(m - 1), j - 1 \in T PROVE j \in T
  <2>1. j + 1 \in 1..m /\ j \in 0..(m - 1) /\ (j + 1) - 1 = j /\ j - 1 \in 0..(m - 1)
        /\ (j - 1) + 1 = j
    OBVIOUS
  <2>2. g[j] = c * h[j - 1]
    BY <1>6, <2>1
  <2>3. g[j + 1] = g[j] * cnt[s[j + 1]]
    BY <1>1, <2>1 DEF Grows
  <2>4. h[j] = h[j - 1] * cnt[s[j + 1]]
    BY <1>3 DEF Grows, Behind
  <2>5. PICK a \in Nat : a = cnt[s[j + 1]]
    BY <1>2, <2>1
  <2>6. PICK b \in Nat : b = h[j - 1]
    BY <2>1
  <2> HIDE DEF c
  <2>7. (c * b) * a = c * (b * a)
    BY <1>4, SMT
  <2>8. QED
    BY <2>1, <2>2, <2>3, <2>4, <2>5, <2>6, <2>7
<1>7. m - 1 \in T
  <2> HIDE DEF T
  <2>1. \A j \in 0..(m - 1) : j \in T
    BY <1>0, <1>5, <1>6, UpTo
  <2>2. m - 1 \in 0..(m - 1)
    OBVIOUS
  <2>3. QED
    BY <2>1, <2>2
<1>8. g[m] = c * h[m - 1]
  <2>1. (m - 1) + 1 = m
    OBVIOUS
  <2>2. QED
    BY <1>7, <2>1
<1>9. QED
  BY <1>1, <1>3, <1>8 DEF Grows, Drops

\* The weight of a dimension is that of the next times the size of the next.
LEMMA MapStep ==
  ASSUME NEW U, NEW dims \in Seq(U), NEW cnt,
         \A i \in 1..Len(dims) : cnt[dims[i]] \in Nat, NEW i \in 1..Len(dims)
  PROVE  DmnMap(dims, cnt, i - 1) = cnt[dims[i]] * DmnMap(dims, cnt, i)
<1> DEFINE n == Len(dims)
           s == SubSeq(dims, i, n)
           t == SubSeq(dims, i + 1, n)
<1>1. n \in Nat /\ (i - 1) + 1 = i /\ i \in Nat
  OBVIOUS
<1>2. PICK m \in Nat \ {0} : m = n - i + 1
  <2>1. n - i + 1 \in Nat \ {0}
    BY <1>1
  <2>2. QED
    BY <2>1, Zenon
<1>3. /\ DOMAIN s = 1..m /\ \A j \in 1..m : s[j] = dims[i + j - 1] /\ i + j - 1 \in 1..n
      /\ DOMAIN t = 1..(m - 1) /\ \A j \in 1..(m - 1) : t[j] = dims[i + j]
  BY <1>2
<1>4. DmnMap(dims, cnt, i - 1) = Size(s, cnt) /\ DmnMap(dims, cnt, i) = Size(t, cnt)
  BY <1>1 DEF DmnMap
<1> HIDE DEF s, t
<1>5. s[1] = dims[i]
  BY <1>1, <1>2, <1>3
<1>6. Behind(m, s, t)
  <2>1. SUFFICES ASSUME NEW j \in 1..(m - 1) PROVE t[j] = s[j + 1]
    BY DEF Behind
  <2>2. j + 1 \in 1..m /\ i + (j + 1) - 1 = i + j
    BY <1>1, <1>2
  <2>3. QED
    BY <1>3, <2>2
<1>7. Sized(m, s, cnt)
  BY <1>3 DEF Sized
<1>8. Sized(m - 1, t, cnt)
  <2>1. \A j \in 1..(m - 1) : i + j \in 1..n
    BY <1>1, <1>2
  <2>2. QED
    BY <1>3, <2>1 DEF Sized
<1>9. Drops(s, t, cnt)
  BY <1>6, <1>7, <1>8, SizeDrop
<1>10. QED
  BY <1>4, <1>5, <1>9 DEF Drops

\* All of it.
LEMMA MapAll ==
  ASSUME NEW U, NEW dims \in Seq(U), NEW cnt
  PROVE  DmnMap(dims, cnt, 0) = Size(dims, cnt)
<1>1. SubSeq(dims, 0 + 1, Len(dims)) = dims
  OBVIOUS
<1>2. QED
  BY <1>1 DEF DmnMap

\* It is a number.
LEMMA MapNat ==
  ASSUME NEW U, NEW dims \in Seq(U), NEW cnt, \A i \in 1..Len(dims) : cnt[dims[i]] \in Nat
  PROVE  \A i \in 0..Len(dims) : DmnMap(dims, cnt, i) \in Nat
<1> DEFINE n == Len(dims)
           T == {j \in 0..n : DmnMap(dims, cnt, n - j) \in Nat}
<1>1. n \in Nat
  OBVIOUS
<1>2. 0 \in T
  <2>1. 0 \in 0..n /\ n - 0 = n
    BY <1>1
  <2>2. QED
    BY <2>1, MapEnd
<1>3. ASSUME NEW j \in 1..n, j - 1 \in T PROVE j \in T
  <2>1. n - j + 1 \in 1..n /\ n - (j - 1) = n - j + 1 /\ j \in 0..n /\ (n - j + 1) - 1 = n - j
    BY <1>1
  <2>2. DmnMap(dims, cnt, n - j + 1) \in Nat
    BY <1>3, <2>1
  <2>3. DmnMap(dims, cnt, n - j) = cnt[dims[n - j + 1]] * DmnMap(dims, cnt, n - j + 1)
    BY <2>1, MapStep
  <2>4. cnt[dims[n - j + 1]] \in Nat
    BY <2>1
  <2>5. QED
    BY <2>1, <2>2, <2>3, <2>4
<1> HIDE DEF T
<1>4. \A j \in 0..n : j \in T
  <2> HIDE DEF n
  <2>1. QED
    BY <1>1, <1>2, <1>3, UpTo
<1>5. SUFFICES ASSUME NEW i \in 0..n PROVE DmnMap(dims, cnt, i) \in Nat
  OBVIOUS
<1>6. n - i \in T /\ n - (n - i) = i
  BY <1>1, <1>4
<1>7. QED
  BY <1>6 DEF T

\* An array with elements has values in every dimension.
LEMMA NoneEmpty ==
  ASSUME NEW U, NEW dims \in Seq(U), NEW cnt, \A i \in 1..Len(dims) : cnt[dims[i]] \in Nat,
         Size(dims, cnt) > 0
  PROVE  \A i \in 1..Len(dims) : cnt[dims[i]] > 0
<1> DEFINE n == Len(dims)
           T == {j \in 0..n : DmnMap(dims, cnt, j) > 0}
<1>1. n \in Nat
  OBVIOUS
<1>2. \A i \in 0..n : DmnMap(dims, cnt, i) \in Nat
  BY MapNat
<1>3. ASSUME NEW i \in 1..n, i - 1 \in T PROVE i \in T /\ cnt[dims[i]] > 0
  <2>1. DmnMap(dims, cnt, i - 1) > 0
    BY <1>3
  <2>2. DmnMap(dims, cnt, i - 1) = cnt[dims[i]] * DmnMap(dims, cnt, i)
    BY MapStep
  <2>3. PICK c \in Nat : c = cnt[dims[i]]
    OBVIOUS
  <2>4. i \in 0..n
    BY <1>1
  <2>5. PICK m \in Nat : m = DmnMap(dims, cnt, i)
    BY <1>2, <2>4
  <2>6. c * m > 0
    BY <2>1, <2>2, <2>3, <2>5
  <2>7. c > 0 /\ m > 0
    BY <2>6, Positive
  <2>8. QED
    BY <2>3, <2>4, <2>5, <2>7
<1>4. 0 \in T
  <2>1. 0 \in 0..n
    BY <1>1
  <2>2. QED
    BY <2>1, MapAll
<1> HIDE DEF T
<1>5. \A i \in 0..n : i \in T
  <2> HIDE DEF n
  <2>1. QED
    BY <1>1, <1>3, <1>4, UpTo
<1>6. SUFFICES ASSUME NEW i \in 1..n PROVE cnt[dims[i]] > 0
  OBVIOUS
<1>7. i - 1 \in 0..n
  BY <1>1
<1>8. QED
  BY <1>3, <1>5, <1>7

\* The sizes of the dimensions are the bases of the offset, and the products
\* of those behind them the weights.
Bases(dims, cnt) == [i \in 1..Len(dims) |-> cnt[dims[i]]]
Weights(dims, cnt) == [i \in 0..Len(dims) |-> DmnMap(dims, cnt, i)]
Full(dims, cnt) == \A i \in 1..Len(dims) : cnt[dims[i]] \in Nat \ {0}

\* So the sizes and the weights are a system of mixed bases.
LEMMA SizesWeigh ==
  ASSUME NEW U, NEW dims \in Seq(U), NEW cnt, Full(dims, cnt)
  PROVE  Weighs(Len(dims), Bases(dims, cnt), Weights(dims, cnt))
<1> DEFINE n == Len(dims)
           c == Bases(dims, cnt)
           M == Weights(dims, cnt)
<1>0. \A i \in 1..n : cnt[dims[i]] \in Nat /\ cnt[dims[i]] > 0
  BY DEF Full
<1>1. n \in Nat
  OBVIOUS
<1>2. \A i \in 0..n : DmnMap(dims, cnt, i) \in Nat
  BY <1>0, MapNat
<1>3. /\ c \in [1..n -> Nat] /\ M \in [0..n -> Nat]
      /\ \A i \in 1..n : c[i] = cnt[dims[i]]
      /\ \A i \in 0..n : M[i] = DmnMap(dims, cnt, i)
  BY <1>0, <1>2 DEF Bases, Weights
<1>4. M[n] = 1
  <2>1. n \in 0..n
    BY <1>1
  <2>2. QED
    BY <1>3, <2>1, MapEnd
<1>5. \A i \in 1..n : M[i - 1] = c[i] * M[i]
  <2>1. SUFFICES ASSUME NEW i \in 1..n PROVE M[i - 1] = c[i] * M[i]
    OBVIOUS
  <2>2. i - 1 \in 0..n /\ i \in 0..n
    BY <1>1
  <2>3. DmnMap(dims, cnt, i - 1) = cnt[dims[i]] * DmnMap(dims, cnt, i)
    BY <1>0, MapStep
  <2>4. QED
    BY <1>3, <2>2, <2>3
<1>6. \A i \in 0..n : M[i] > 0
  <2> DEFINE T == {j \in 0..n : M[n - j] > 0}
  <2> HIDE DEF n, M, c
  <2>1. 0 \in T
    <3>1. 0 \in 0..n /\ n - 0 = n
      BY <1>1
    <3>2. QED
      BY <1>4, <3>1
  <2>2. ASSUME NEW j \in 1..n, j - 1 \in T PROVE j \in T
    <3>1. PICK i \in 1..n : i = n - j + 1
      <4>1. n - j + 1 \in 1..n
        BY <1>1
      <4>2. QED
        BY <4>1, Zenon
    <3>2. n - (j - 1) = i /\ n - j = i - 1 /\ j \in 0..n /\ i \in 0..n
      BY <1>1, <3>1
    <3>3. PICK m \in Nat : m = M[i] /\ m > 0
      BY <1>3, <2>2, <3>2
    <3>4. PICK b \in Nat : b = c[i] /\ b > 0
      BY <1>0, <1>3
    <3>5. b * m > 0
      BY <3>3, <3>4, SMT
    <3>6. M[n - j] = b * m
      BY <1>5, <3>2, <3>3, <3>4
    <3>7. QED
      BY <3>2, <3>5, <3>6
  <2> HIDE DEF T
  <2>3. \A j \in 0..n : j \in T
    BY <1>1, <2>1, <2>2, UpTo
  <2>4. SUFFICES ASSUME NEW i \in 0..n PROVE M[i] > 0
    OBVIOUS
  <2>5. n - i \in T /\ n - (n - i) = i
    BY <1>1, <2>3
  <2>6. QED
    BY <2>5 DEF T
<1> HIDE DEF n, c, M
<1>7. \A i \in 1..n : c[i] > 0 /\ M[i] > 0
  <2>1. \A i \in 1..n : i \in 0..n
    BY <1>1
  <2>2. QED
    BY <1>0, <1>3, <1>6, <2>1
<1>8. Weighs(n, c, M)
  BY <1>3, <1>4, <1>5, <1>7 DEF Weighs
<1>9. QED
  BY <1>8 DEF n, c, M

\* The subscripts of an offset are those it was made of.
Subscripts(sb, dims, cnt) ==
  sb \in [1..Len(dims) -> Nat] /\ \A o \in 1..Len(dims) : sb[o] < cnt[dims[o]]
Place(sb, dims, cnt) ==
  FoldLeft(LAMBDA a, b : a + b, 0, [o \in 1..Len(dims) |-> sb[o] * DmnMap(dims, cnt, o)])

\* The division and the remainder of DmnSs return the subscripts.
LEMMA Found ==
  ASSUME NEW U, NEW dims \in Seq(U), NEW cnt, Full(dims, cnt),
         NEW sb, Subscripts(sb, dims, cnt), NEW k \in 1..Len(dims)
  PROVE  (Place(sb, dims, cnt) \div DmnMap(dims, cnt, k)) % cnt[dims[k]] = sb[k]
<1> DEFINE n == Len(dims)
           c == Bases(dims, cnt)
           M == Weights(dims, cnt)
           N == Int
           x == [o \in 1..n |-> sb[o] * DmnMap(dims, cnt, o)]
           F == [i \in 1..n |-> [a \in N |-> a + x[i]]]
           b == 0
<1>1. Weighs(n, c, M) /\ n \in Nat
  BY SizesWeigh
<1>2. \A o \in 1..n : M[o] = DmnMap(dims, cnt, o) /\ c[o] = cnt[dims[o]] /\ M[o] \in Nat
  BY <1>1 DEF Weights, Bases, Weighs
<1>3. \A o \in 1..n : x[o] = sb[o] * M[o] /\ x[o] \in Int
  BY <1>2 DEF Subscripts
<1>4. x \in [1..n -> Int]
  BY <1>3
<1> HIDE DEF x, c, M, n
<1>5. F \in [1..n -> [N -> N]] /\ b \in N
  BY <1>4
<1> HIDE DEF F, N, b
<1>6. PICK t \in [0..n -> N] : Walks(t, n, b, F)
  BY <1>1, <1>5, Along
<1>7. t \in [0..n -> Int] /\ t[0] = 0
  BY <1>6 DEF N, b, Walks
<1>8. \A i \in 1..n : t[i] = t[i - 1] + x[i]
  <2>1. SUFFICES ASSUME NEW i \in 1..n PROVE t[i] = t[i - 1] + x[i]
    OBVIOUS
  <2>2. i - 1 \in 0..n
    BY <1>1
  <2>3. t[i - 1] \in N
    BY <1>6, <2>2
  <2>4. QED
    BY <1>6, <2>3 DEF F, Walks
<1>9. FoldLeft(LAMBDA a1, a2 : a1 + a2, 0, x) = t[n]
  BY <1>1, <1>4, <1>7, <1>8, SumIs
<1>10. Adds(n, c, M, sb, t)
  BY <1>2, <1>3, <1>7, <1>8 DEF Adds, Subscripts, n
<1>11. (t[n] \div M[k]) % c[k] = sb[k]
  <2>1. k \in 1..n
    BY DEF n
  <2>2. Yields(n, c, M, sb, t, k)
    BY <1>1, <1>10, <2>1, Digits
  <2>3. QED
    BY <2>2 DEF Yields
<1>12. Place(sb, dims, cnt) = t[n]
  BY <1>9 DEF Place, x, n
<1>13. QED
  BY <1>2, <1>11, <1>12 DEF n

-----------------------------------------------------------------------------
(* Where ncpdq puts the elements of a variable.                            *)

\* Unless -a moves the new record dimension before, the map stays one-to-one
\* when it changes places with the first.
LEMMA StaysOneToOne ==
  ASSUME IsRequest(dr_rqs), NEW n, NamOK(n), ~MovesTwice(dr_rqs), NEW v \in VarIdx
  PROVE  IsInjective(Final(v, n))
<1> DEFINE dmn == Var(v)
           D == DOMAIN dmn
           map == Map(v)
           out == Out(v)
           p == At(out, n)
<1>1. /\ map \in [D -> D] /\ IsInjective(map)
      /\ out = [o \in D |-> dmn[map[o]]] /\ IsInjective(out) /\ ToSet(out) = ToSet(dmn)
  BY OutVar
<1>2. D = 1..Len(dmn) /\ Len(dmn) \in Nat /\ IsInjective(dmn)
  BY VarFacts
<1>3. CASE ~Joins(v, n)
  BY <1>1, <1>3 DEF Final
<1>4. CASE Joins(v, n)
  <2>1. n \in ToSet(out) /\ ~Has(v, dr_rqs.rec) /\ Has(v, n) /\ n # NoDmn
    BY <1>1, <1>4, VarFacts DEF Joins
  <2>2. PICK w \in VarIdx : Wants(w) /\ Lead(w) = n
    BY <2>1 DEF NamOK
  <2>3. p \in {1, At(dmn, n)}
    <3>1. Has(w, dr_rqs.rec) /\ n # dr_rqs.rec
      BY <2>2 DEF Wants
    <3>2. OutDim(dr_rqs.rdr, dr_rqs.vars[w])[1] = n
      BY <2>2 DEF Lead, Out, Var
    <3>3. Contains(dr_rqs.vars[w], dr_rqs.rec)
      BY <3>1 DEF Has
    <3>4. Contains(dr_rqs.vars[v], n) /\ ~Contains(dr_rqs.vars[v], dr_rqs.rec)
      BY <2>1 DEF Has
    <3>5. v \in DOMAIN dr_rqs.vars /\ w \in DOMAIN dr_rqs.vars
      BY DEF VarIdx
    <3>6. At(OutDim(dr_rqs.rdr, dr_rqs.vars[v]), n) \in {1, At(dr_rqs.vars[v], n)}
      BY <3>1, <3>2, <3>3, <3>4, <3>5 DEF MovesTwice
    <3>7. QED
      BY <3>6 DEF Out, Var
  <2>4. Final(v, n) = [[map EXCEPT ![1] = p] EXCEPT ![p] = map[1]]
    BY <1>4 DEF Final
  <2> HIDE DEF dmn, D, map, out
  <2>5. PICK q \in D : out[q] = n
    BY <1>1, <2>1 DEF ToSet
  <2>6. p = q
    <3>1. DOMAIN out = D
      BY <1>1
    <3>2. At(out, out[q]) = q
      BY <1>1, <3>1, AtFacts
    <3>3. QED
      BY <2>5, <3>2
  <2>7. 1 \in D /\ p \in D /\ out[p] = n
    BY <1>2, <2>5, <2>6
  <2> HIDE DEF p
  <2>8. p # 1 => map[p] = p
    <3>1. dmn[map[p]] = n /\ map[p] \in D
      BY <1>1, <2>7
    <3>2. At(dmn, dmn[map[p]]) = map[p]
      BY <1>2, <3>1, AtFacts DEF D
    <3>3. QED
      BY <2>3, <3>1, <3>2
  <2>9. \A i, j \in D : Final(v, n)[i] = Final(v, n)[j] => i = j
    <3>1. DOMAIN map = D /\ \A i, j \in D : map[i] = map[j] => i = j
      BY <1>1 DEF IsInjective
    <3>2. CASE p = 1
      <4>1. Final(v, n) = [[map EXCEPT ![1] = 1] EXCEPT ![1] = map[1]]
        BY <2>4, <3>2
      <4>2. Final(v, n) = map
        BY <1>1, <2>7, <4>1
      <4>3. QED
        BY <3>1, <4>2
    <3>3. CASE p # 1
      <4>1. /\ Final(v, n)[1] = p /\ Final(v, n)[p] = map[1] /\ map[p] = p
            /\ \A i \in D : i # 1 /\ i # p => Final(v, n)[i] = map[i]
        BY <1>1, <2>4, <2>7, <2>8, <3>3
      <4>2. QED
        BY <2>7, <3>1, <3>3, <4>1
    <3>4. QED
      BY <3>2, <3>3
  <2>10. DOMAIN Final(v, n) = D
    BY <1>1, <2>4
  <2>11. QED
    BY <2>9, <2>10 DEF IsInjective
<1>5. QED
  BY <1>3, <1>4

\* The map leads to places of the input.
LEMMA FinalPlaces ==
  ASSUME IsRequest(dr_rqs), NEW n, NEW v \in VarIdx, IsInjective(Final(v, n))
  PROVE  \A o \in DOMAIN Var(v) : Final(v, n)[o] \in DOMAIN Var(v)
<1>1. Map(v) \in [DOMAIN Var(v) -> DOMAIN Var(v)]
  BY OutVar
<1>2. CASE ~Joins(v, n)
  BY <1>1, <1>2 DEF Final
<1>3. CASE Joins(v, n)
  <2> DEFINE p == At(Out(v), n)
             D == DOMAIN Var(v)
  <2>1. p \in D /\ 1 \in D
    BY <1>3, JoinFacts
  <2>2. Final(v, n) = [[Map(v) EXCEPT ![1] = p] EXCEPT ![p] = Map(v)[1]]
    BY <1>3 DEF Final
  <2> HIDE DEF p, D
  <2>3. Map(v) \in [D -> D]
    BY <1>1 DEF D
  <2>4. \A o \in D : Final(v, n)[o] \in D
    BY <2>1, <2>2, <2>3
  <2>5. QED
    BY <2>4 DEF D
<1>4. QED
  BY <1>2, <1>3

\* The output has the dimensions of the input, each once.
LEMMA FinalDims ==
  ASSUME IsRequest(dr_rqs), NEW n, NEW v \in VarIdx, IsInjective(Final(v, n))
  PROVE  /\ FinalDim(v, n) \in Seq(ToSet(Var(v))) /\ IsInjective(FinalDim(v, n))
         /\ Len(FinalDim(v, n)) = Len(Var(v)) /\ Len(Var(v)) \in Nat
         /\ \A d \in ToSet(Var(v)) : \E o \in 1..Len(Var(v)) : FinalDim(v, n)[o] = d
<1> DEFINE dmn == Var(v)
           L == Len(dmn)
           D == DOMAIN dmn
           fin == Final(v, n)
           out == FinalDim(v, n)
<1>1. D = 1..L /\ L \in Nat /\ IsInjective(dmn)
  BY VarFacts
<1>2. \A o \in D : fin[o] \in D
  BY FinalPlaces
<1>3. out = [o \in D |-> dmn[fin[o]]]
  BY DEF FinalDim
<1>4. /\ Out(v) = [o \in D |-> dmn[Map(v)[o]]] /\ ToSet(Out(v)) = ToSet(dmn)
      /\ Map(v) \in [D -> D]
  BY OutVar
<1>5. DOMAIN fin = D
  <2>1. DOMAIN Map(v) = D
    BY <1>4
  <2>2. QED
    BY <2>1 DEF Final
<1>6. \A d \in ToSet(dmn) : \E o \in D : out[o] = d
  <2>1. SUFFICES ASSUME NEW d \in ToSet(dmn) PROVE \E o \in D : out[o] = d
    OBVIOUS
  <2>2. PICK q \in D : Out(v)[q] = d
    BY <1>4 DEF ToSet
  <2>3. CASE Joins(v, n)
    <3> DEFINE p == At(Out(v), n)
    <3>1. /\ p \in D /\ 1 \in D
          /\ out = [i \in D |-> IF i = 1 THEN Out(v)[p] ELSE IF i = p THEN Out(v)[1] ELSE Out(v)[i]]
      BY <2>3, JoinFacts
    <3> HIDE DEF p, D, out
    <3>2. CASE q = 1
      BY <2>2, <3>1, <3>2
    <3>3. CASE q = p
      BY <2>2, <3>1, <3>3
    <3>4. CASE q # 1 /\ q # p
      BY <2>2, <3>1, <3>4
    <3>5. QED
      BY <3>2, <3>3, <3>4
  <2>4. CASE ~Joins(v, n)
    <3>1. out = Out(v)
      BY <1>4, <2>4 DEF FinalDim, Final
    <3>2. QED
      BY <2>2, <3>1
  <2>5. QED
    BY <2>3, <2>4
<1>7. IsInjective(fin)
  OBVIOUS
<1> HIDE DEF dmn, L, D, fin, out
<1>8. IsInjective(out)
  <2>1. DOMAIN out = D /\ \A o \in D : out[o] = dmn[fin[o]]
    BY <1>3
  <2>2. \A i, j \in D : dmn[i] = dmn[j] => i = j
    BY <1>1 DEF IsInjective, D
  <2>3. \A i, j \in D : fin[i] = fin[j] => i = j
    BY <1>5, <1>7 DEF IsInjective
  <2>4. QED
    BY <1>2, <2>1, <2>2, <2>3 DEF IsInjective
<1>9. \A o \in D : out[o] \in ToSet(dmn)
  <2>1. \A i \in D : dmn[i] \in ToSet(dmn)
    BY DEF D, ToSet
  <2>2. QED
    BY <1>2, <1>3, <2>1
<1>10. out \in Seq(ToSet(dmn)) /\ Len(out) = L
  BY <1>1, <1>3, <1>9
<1>11. QED
  BY <1>1, <1>6, <1>8, <1>10 DEF dmn, L, D, out

\* A digit, and the same counted from the end.
LEMMA Subscript ==
  ASSUME NEW l \in Nat, NEW m \in Nat \ {0}, NEW c \in Nat \ {0}
  PROVE  /\ (l \div m) % c \in Nat /\ (l \div m) % c < c
         /\ c - ((l \div m) % c) - 1 \in Nat /\ c - ((l \div m) % c) - 1 < c
         /\ c - ((l \div m) % c) - 1 = c - 1 - ((l \div m) % c)
<1>1. l \div m \in Nat
  <2>1. l \div m \in Int /\ m * (l \div m) <= l /\ l < m * (l \div m) + m
    BY PartOf
  <2>2. QED
    BY SMT
<1>2. PICK q \in Nat : q = l \div m
  BY <1>1
<1>3. q % c \in Nat /\ q % c < c
  BY SMT
<1>4. QED
  BY <1>2, <1>3

\* A subscript of an element, in the output.
Sub(v, n, lmn) == [o \in 1..Len(Var(v)) |-> Sbs(v, lmn, Final(v, n)[o])]

\* Each element goes to the offset of its subscripts, reversed or not.
LEMMA Landed ==
  ASSUME IsRequest(dr_rqs), NEW n, NEW v \in VarIdx, IsInjective(Final(v, n)),
         dr_dim[v] = FinalDim(v, n), dmn_idx_out_in[v] = Final(v, n),
         dmn_rvr_in[v] = Rvr(Var(v)),
         NEW lmn \in 0..(Size(Var(v), dr_rqs.cnt) - 1), NEW d \in ToSet(Var(v))
  PROVE  LET out == [dmn |-> FinalDim(v, n), cnt |-> dr_rqs.cnt]
             in == [dmn |-> dr_rqs.vars[v], cnt |-> dr_rqs.cnt]
         IN  DmnSs(out, Slot(v, lmn), d) =
               IF d \in dr_rqs.rvr THEN dr_rqs.cnt[d] - 1 - DmnSs(in, lmn, d)
               ELSE DmnSs(in, lmn, d)
<1> DEFINE dmn == Var(v)
           L == Len(dmn)
           U == ToSet(dmn)
           fin == Final(v, n)
           out == FinalDim(v, n)
           cnt == dr_rqs.cnt
           sb == Sub(v, n, lmn)
<1>1. dmn \in Seq(U) /\ IsInjective(dmn) /\ L \in Nat /\ DOMAIN dmn = 1..L
  BY VarFacts
<1>2. /\ out \in Seq(U) /\ IsInjective(out) /\ Len(out) = L
      /\ \E o \in 1..L : out[o] = d
  BY FinalDims
<1>3. \A o \in 1..L : fin[o] \in 1..L /\ out[o] = dmn[fin[o]]
  BY <1>1, FinalPlaces DEF FinalDim
<1>4. \A i \in 1..L : cnt[dmn[i]] \in Nat
  BY <1>1 DEF IsRequest, VarIdx, Var
<1>5. lmn \in Nat /\ Size(dmn, cnt) > 0
  <2>1. DmnMap(dmn, cnt, 0) = Size(dmn, cnt) /\ 0 \in 0..L
    BY <1>1, MapAll
  <2>2. Size(dmn, cnt) \in Nat
    BY <1>1, <1>4, <2>1, MapNat
  <2>3. QED
    BY <2>2
<1> HIDE DEF L, U, fin, out, cnt, dmn, sb
<1>6. \A i \in 1..L : cnt[dmn[i]] \in Nat \ {0}
  <2>1. \A i \in 1..L : cnt[dmn[i]] > 0
    BY <1>1, <1>4, <1>5, NoneEmpty DEF L
  <2>2. QED
    BY <1>4, <2>1
<1>7. Full(dmn, cnt)
  BY <1>6 DEF Full, L
<1>8. Full(out, cnt)
  BY <1>2, <1>3, <1>6 DEF Full
<1>9. \A i \in 1..L : DmnMap(dmn, cnt, i) \in Nat \ {0}
  <2>1. Weighs(L, Bases(dmn, cnt), Weights(dmn, cnt))
    BY <1>1, <1>7, SizesWeigh DEF L
  <2>2. \A i \in 1..L : Weights(dmn, cnt)[i] = DmnMap(dmn, cnt, i)
    BY <1>1 DEF Weights, L
  <2>3. \A i \in 1..L : Weights(dmn, cnt)[i] \in Nat /\ Weights(dmn, cnt)[i] > 0
    BY <1>1, <2>1 DEF Weighs
  <2>4. QED
    BY <2>2, <2>3
<1> DEFINE Ss(i) == (lmn \div DmnMap(dmn, cnt, i)) % cnt[dmn[i]]
           R(x) == x \in dr_rqs.rvr
<1>10. \A i \in 1..L : Sbs(v, lmn, i) = IF R(dmn[i]) THEN cnt[dmn[i]] - Ss(i) - 1 ELSE Ss(i)
  <2>1. SUFFICES ASSUME NEW i \in 1..L
                 PROVE  Sbs(v, lmn, i) = IF R(dmn[i]) THEN cnt[dmn[i]] - Ss(i) - 1 ELSE Ss(i)
    OBVIOUS
  <2>2. dmn[i] \in dmn_rvr_in[v] <=> R(dmn[i])
    <3>1. dr_rqs.rdr \in Seq(ToSet(dr_rqs.rdr)) /\ IsInjective(dr_rqs.rdr)
          /\ dr_rqs.rvr \subseteq ToSet(dr_rqs.rdr)
      BY DEF IsRequest
    <3>2. \A x : x \in ToSet(Shr(dr_rqs.rdr, dmn)) <=> x \in ToSet(dr_rqs.rdr) /\ x \in U
      <4> DEFINE shr == Shr(dr_rqs.rdr, dmn)
                 rdr == dr_rqs.rdr
      <4>1. /\ DOMAIN shr = 1..Len(shr)
            /\ \A j \in 1..Len(shr) : shr[j] \in U /\ \E l \in DOMAIN rdr : shr[j] = rdr[l]
            /\ \A l \in DOMAIN rdr : rdr[l] \in U => \E j \in 1..Len(shr) : shr[j] = rdr[l]
        BY <3>1, ChosenFacts DEF Shr, U
      <4> HIDE DEF shr, rdr
      <4>2. \A x : x \in ToSet(shr) <=> \E j \in 1..Len(shr) : shr[j] = x
        BY <4>1 DEF ToSet
      <4>3. \A x : x \in ToSet(rdr) <=> \E l \in DOMAIN rdr : rdr[l] = x
        BY DEF ToSet
      <4>4. \A x : x \in ToSet(shr) <=> x \in ToSet(rdr) /\ x \in U
        BY <4>1, <4>2, <4>3
      <4>5. QED
        BY <4>4 DEF shr, rdr
    <3>3. dmn[i] \in U
      BY <1>1 DEF U, ToSet
    <3>4. QED
      BY <3>1, <3>2, <3>3 DEF Rvr, dmn
  <2>3. QED
    BY <2>2 DEF Sbs, dmn, Var, cnt
<1>11. \A i \in 1..L : Sbs(v, lmn, i) \in Nat /\ Sbs(v, lmn, i) < cnt[dmn[i]]
  <2>1. SUFFICES ASSUME NEW i \in 1..L
                 PROVE  Sbs(v, lmn, i) \in Nat /\ Sbs(v, lmn, i) < cnt[dmn[i]]
    OBVIOUS
  <2>2. /\ Ss(i) \in Nat /\ Ss(i) < cnt[dmn[i]]
        /\ cnt[dmn[i]] - Ss(i) - 1 \in Nat /\ cnt[dmn[i]] - Ss(i) - 1 < cnt[dmn[i]]
    BY <1>5, <1>6, <1>9, Subscript
  <2> HIDE DEF Ss, R
  <2>3. QED
    BY <1>10, <2>2
<1>12. Subscripts(sb, out, cnt)
  <2>1. sb = [o \in 1..L |-> Sbs(v, lmn, fin[o])]
    BY DEF sb, Sub, L, fin, dmn
  <2>2. \A o \in 1..L : sb[o] \in Nat /\ sb[o] < cnt[out[o]]
    BY <1>3, <1>11, <2>1
  <2>3. QED
    BY <1>2, <2>1, <2>2 DEF Subscripts
<1>13. Slot(v, lmn) = Place(sb, out, cnt)
  <2>1. DOMAIN out = 1..L
    BY <1>2
  <2>2. [o \in DOMAIN dr_dim[v] |->
           Sbs(v, lmn, dmn_idx_out_in[v][o]) * DmnMap(dr_dim[v], dr_rqs.cnt, o)]
          = [o \in 1..Len(out) |-> sb[o] * DmnMap(out, cnt, o)]
    BY <1>2, <2>1 DEF sb, Sub, out, cnt, L, dmn
  <2>3. QED
    BY <2>2 DEF Slot, Place
<1>14. PICK k \in 1..L : out[k] = d
  BY <1>2
<1>15. (Slot(v, lmn) \div DmnMap(out, cnt, k)) % cnt[d] = sb[k]
  BY <1>2, <1>8, <1>12, <1>13, <1>14, Found
<1>16. DmnSs([dmn |-> out, cnt |-> cnt], Slot(v, lmn), d) = sb[k]
  <2>1. (CHOOSE j \in DOMAIN out : out[j] = d) = k
    BY <1>2, <1>14 DEF IsInjective
  <2>2. QED
    BY <1>15, <2>1 DEF DmnSs
<1>17. fin[k] \in 1..L /\ dmn[fin[k]] = d /\ sb[k] = Sbs(v, lmn, fin[k])
  BY <1>3, <1>14 DEF sb, Sub, L, fin, dmn
<1>18. DmnSs([dmn |-> dmn, cnt |-> cnt], lmn, d) = Ss(fin[k])
  <2>1. (CHOOSE j \in DOMAIN dmn : dmn[j] = d) = fin[k]
    BY <1>1, <1>17 DEF IsInjective
  <2>2. QED
    BY <1>17, <2>1 DEF DmnSs
<1>19. cnt[d] - Ss(fin[k]) - 1 = cnt[d] - 1 - Ss(fin[k])
  BY <1>5, <1>6, <1>9, <1>17, Subscript
<1>20. QED
  BY <1>10, <1>16, <1>17, <1>18, <1>19 DEF out, cnt, dmn, Var

\* What is written for a variable.
Slots(v) == [lmn \in 0..(Size(dr_rqs.vars[v], dr_rqs.cnt) - 1) |-> Slot(v, lmn)]
Wrtn == IF dr_pc = "val" THEN dr_idx - 1 ELSE Len(dr_rqs.vars)

\* Dimensions that are reversed, those of the output in their order, and the
\* elements that are written, of all variables the loops have come to.
RvrInv ==
  /\ dr_pc # "undefined" /\ DOMAIN dmn_rvr_in = VarIdx
  /\ \A v \in VarIdx : dr_pc # "mtd" \/ v < dr_idx => dmn_rvr_in[v] = Rvr(Var(v))
DimInv ==
  \A v \in VarIdx :
    (dr_pc = "mrk" /\ v < dr_idx) \/ dr_pc \in {"prp", "dfn", "val", "done"} =>
      dr_dim[v] = FinalDim(v, Nam)
SlotInv ==
  dr_pc \in {"dfn", "val", "done"} =>
    /\ \A v \in 1..Dfnd : "slot" \in DOMAIN dr_fl[v]
    /\ dr_pc # "dfn" => \A v \in VarIdx : v <= Wrtn => dr_fl[v].slot = Slots(v)
PlaceInv == RvrInv /\ DimInv /\ SlotInv

\* What depends on the request and on the maps only does not change.
LEMMA SlotsKept ==
  ASSUME dr_rqs' = dr_rqs, dr_dim' = dr_dim, dmn_idx_out_in' = dmn_idx_out_in,
         dmn_rvr_in' = dmn_rvr_in
  PROVE  \A v : Slots(v)' = Slots(v)
<1>1. \A v, lmn, i : Sbs(v, lmn, i)' = Sbs(v, lmn, i)
  BY DEF Sbs
<1>2. \A v, lmn : Slot(v, lmn)' = Slot(v, lmn)
  <2>1. SUFFICES ASSUME NEW v, NEW lmn PROVE Slot(v, lmn)' = Slot(v, lmn)
    OBVIOUS
  <2> DEFINE x == [o \in DOMAIN dr_dim[v] |->
                     Sbs(v, lmn, dmn_idx_out_in[v][o]) * DmnMap(dr_dim[v], dr_rqs.cnt, o)]
  <2>2. x' = x
    BY <1>1
  <2>3. Slot(v, lmn) = FoldLeft(LAMBDA a, b : a + b, 0, x)
    BY DEF Slot
  <2>4. Slot(v, lmn)' = FoldLeft(LAMBDA a, b : a + b, 0, x')
    BY DEF Slot, FoldLeft, MapThenFoldSet
  <2> HIDE DEF x
  <2>5. QED
    BY <2>2, <2>3, <2>4
<1>3. QED
  BY <1>2 DEF Slots

\* The dimensions a variable is reversed along are those of the request.
LEMMA RvrKept ==
  ASSUME dr_rqs' = dr_rqs
  PROVE  \A v : Rvr(Var(v))' = Rvr(Var(v))
BY DEF Rvr, Var

\* Nothing is placed at the start.
LEMMA PlaceInit == DrInit => PlaceInv
<1>1. SUFFICES ASSUME DrInit PROVE PlaceInv
  OBVIOUS
<1>2. IsRequest(dr_rqs)
  BY <1>1, RdrAssumption DEF DrInit
<1>3. dr_pc = "mtd" /\ dr_idx = 1 /\ DOMAIN dmn_rvr_in = VarIdx
  BY <1>1 DEF DrInit
<1>4. \A v \in VarIdx : ~(v < 1)
  BY <1>2, VarIdxFacts
<1>5. QED
  BY <1>3, <1>4 DEF PlaceInv, RvrInv, DimInv, SlotInv

\* The first loop marks the reversed dimensions and places nothing.
LEMMA MtdPlaces ==
  ASSUME RdrInv, PlaceInv, Mtd, IsRequest(dr_rqs)
  PROVE  PlaceInv'
<1> DEFINE i == dr_idx
<1>1. /\ dr_pc = "mtd" /\ dr_rqs' = dr_rqs /\ Onward("mrk")
      /\ dmn_rvr_in' = [dmn_rvr_in EXCEPT ![i] = Rvr(Var(i))]
  BY DEF Mtd, Var
<1>2. i \in VarIdx
  BY DEF RdrInv, LoopInv
<1>3. VarIdx' = VarIdx /\ \A v : Rvr(Var(v))' = Rvr(Var(v))
  BY <1>1, Static, RvrKept
<1>4. /\ i' \in VarIdx
      /\ \/ i' = i + 1 /\ dr_pc' = "mtd" /\ \A v \in VarIdx : v < i' <=> v <= i
         \/ i' = 1 /\ dr_pc' = "mrk" /\ \A v \in VarIdx : v <= i
  BY <1>1, <1>2, OnwardFacts
<1>5. i \in Int /\ \A v \in VarIdx : v \in Int /\ v >= 1
  BY <1>2, VarIdxFacts
<1>6. /\ DOMAIN dmn_rvr_in = VarIdx
      /\ \A v \in VarIdx : v < i => dmn_rvr_in[v] = Rvr(Var(v))
  BY DEF PlaceInv, RvrInv
<1>7. /\ DOMAIN dmn_rvr_in' = VarIdx
      /\ \A v \in VarIdx : v <= i => dmn_rvr_in'[v] = Rvr(Var(v))
  BY <1>1, <1>2, <1>5, <1>6
<1>8. RvrInv'
  BY <1>3, <1>4, <1>7 DEF RvrInv
<1>9. DimInv' /\ SlotInv'
  <2>1. \A v \in VarIdx : ~(v < 1)
    BY <1>5
  <2>2. QED
    BY <1>3, <1>4, <2>1 DEF DimInv, SlotInv
<1>10. QED
  BY <1>8, <1>9 DEF PlaceInv

\* The loop over the record variables keeps the map of each one-to-one.
LEMMA MrkPlaces ==
  ASSUME RdrInv, RdrInv', PlaceInv, Mrk, IsRequest(dr_rqs), ~MovesTwice(dr_rqs)
  PROVE  PlaceInv'
<1> DEFINE i == dr_idx
           p == At(dr_dim[i], RecDmn)
           joins == /\ Redefined /\ rec_dmn_nm_out[i] = NoDmn /\ Len(dr_dim[i]) > 1
                    /\ Has(i, RecDmn) /\ ~is_rec_var[i]
<1>1. /\ dr_pc = "mrk" /\ dr_rqs' = dr_rqs /\ Onward("prp")
      /\ dmn_rvr_in' = dmn_rvr_in /\ rec_dmn_nm_out' = rec_dmn_nm_out
  BY DEF Mrk
<1>2. /\ LoopInv /\ NamInv /\ NamOK(Nam) /\ i \in VarIdx /\ DOMAIN dr_dim = VarIdx
      /\ DOMAIN dmn_idx_out_in = VarIdx
      /\ \A v \in VarIdx : v >= i => /\ is_rec_var[v] = Has(v, dr_rqs.rec)
                                     /\ dr_dim[v] = Out(v) /\ dmn_idx_out_in[v] = Map(v)
  BY <1>1 DEF RdrInv, MrkInv, LoopInv
<1>3. /\ VarIdx' = VarIdx /\ Nam' = Nam
      /\ \A v : Rvr(Var(v))' = Rvr(Var(v))
      /\ \A v, n : FinalDim(v, n)' = FinalDim(v, n) /\ Final(v, n)' = Final(v, n)
  BY <1>1, <1>2, Static, RvrKept, NamSame
<1>4. /\ i' \in VarIdx
      /\ \/ i' = i + 1 /\ dr_pc' = "mrk" /\ \A v \in VarIdx : v < i' <=> v <= i
         \/ i' = 1 /\ dr_pc' = "prp" /\ \A v \in VarIdx : v <= i
  BY <1>1, <1>2, OnwardFacts
<1>5. i \in Int /\ \A v \in VarIdx : v \in Int /\ v >= 1
  BY <1>2, VarIdxFacts
<1>6. is_rec_var[i] = Has(i, dr_rqs.rec) /\ dr_dim[i] = Out(i) /\ dmn_idx_out_in[i] = Map(i)
  BY <1>2, <1>5
<1>7. \A v \in VarIdx \ {i} : dr_dim'[v] = dr_dim[v]
  BY <1>2 DEF Mrk
<1>8. dr_dim'[i] = FinalDim(i, Nam)
  <2>1. CASE joins
    <3>1. Nam = RecDmn /\ p = At(Out(i), Nam)
      BY <1>6, <2>1 DEF Nam
    <3>2. Nam # NoDmn
      <4>1. PICK v \in VarIdx : rec_dmn_nm_out[v] # NoDmn
        BY <2>1 DEF Redefined
      <4>2. QED
        BY <1>2, <4>1, NamFacts DEF Named
    <3>3. Joins(i, Nam)
      BY <1>6, <2>1, <3>1, <3>2 DEF Joins
    <3>4. IsInjective(Final(i, Nam))
      BY <1>2, StaysOneToOne
    <3> DEFINE out == Out(i)
               D == DOMAIN Var(i)
               q == At(out, Nam)
    <3>5. /\ q \in D /\ 1 \in D /\ out[q] = Nam
          /\ FinalDim(i, Nam) = [j \in D |-> IF j = 1 THEN out[q]
                                             ELSE IF j = q THEN out[1] ELSE out[j]]
      BY <1>2, <3>3, <3>4, JoinFacts
    <3>6. out = [j \in D |-> out[j]]
      <4>1. out = [j \in D |-> Var(i)[Map(i)[j]]]
        BY <1>2, OutVar
      <4>2. QED
        BY <4>1
    <3>7. dr_dim'[i] = [dr_dim[i] EXCEPT ![1] = dr_dim[i][p], ![p] = dr_dim[i][1]]
      BY <1>2, <2>1 DEF Mrk
    <3> HIDE DEF out, D, q, p
    <3>8. dr_dim'[i] = [[out EXCEPT ![1] = out[q]] EXCEPT ![q] = out[1]]
      BY <1>6, <3>1, <3>7 DEF out, q
    <3>9. QED
      BY <3>5, <3>6, <3>8
  <2>2. CASE ~joins
    <3>1. dr_dim' = dr_dim /\ dmn_idx_out_in' = dmn_idx_out_in
      BY <2>2 DEF Mrk
    <3>2. dmn_idx_out_in'[i] = Final(i, Nam)
      <4>1. CASE dr_pc' = "mrk"
        <5>1. i < dr_idx'
          BY <1>2, <1>4, <1>5, <4>1
        <5>2. QED
          BY <1>2, <1>3, <4>1, <5>1 DEF RdrInv, MrkInv
      <4>2. CASE dr_pc' = "prp"
        BY <1>2, <1>3, <4>2 DEF RdrInv, PrpInv
      <4>3. QED
        BY <1>4, <4>1, <4>2
    <3>3. Final(i, Nam) = Map(i)
      BY <1>6, <3>1, <3>2
    <3>4. FinalDim(i, Nam) = Out(i)
      BY <1>2, <3>3, OutVar DEF FinalDim
    <3>5. QED
      BY <1>6, <3>1, <3>4
  <2>3. QED
    BY <2>1, <2>2
<1>9. \A v \in VarIdx : v <= i => dr_dim'[v] = FinalDim(v, Nam)
  <2>1. \A v \in VarIdx : v < i => dr_dim[v] = FinalDim(v, Nam)
    BY <1>1 DEF PlaceInv, DimInv
  <2>2. SUFFICES ASSUME NEW v \in VarIdx, v <= i PROVE dr_dim'[v] = FinalDim(v, Nam)
    OBVIOUS
  <2> HIDE DEF i
  <2>3. CASE v = i
    BY <1>8, <2>3
  <2>4. CASE v # i
    BY <1>5, <1>7, <2>1, <2>2, <2>4
  <2>5. QED
    BY <2>3, <2>4
<1>10. DimInv'
  BY <1>3, <1>4, <1>9 DEF DimInv
<1>11. RvrInv'
  BY <1>1, <1>3, <1>4 DEF PlaceInv, RvrInv
<1>12. SlotInv'
  BY <1>4 DEF SlotInv
<1>13. QED
  BY <1>10, <1>11, <1>12 DEF PlaceInv

\* The step between the loops places nothing.
LEMMA PrpPlaces ==
  ASSUME RdrInv, RdrInv', PlaceInv, Prp
  PROVE  PlaceInv'
<1>1. /\ dr_pc = "prp" /\ dr_pc' = "dfn" /\ dr_rqs' = dr_rqs /\ dr_idx' = dr_idx
      /\ dr_dim' = dr_dim /\ dmn_idx_out_in' = dmn_idx_out_in /\ dmn_rvr_in' = dmn_rvr_in
  BY DEF Prp
<1>2. /\ VarIdx' = VarIdx /\ \A v : Rvr(Var(v))' = Rvr(Var(v)) /\ Var(v)' = Var(v)
      /\ \A v, n : FinalDim(v, n)' = FinalDim(v, n) /\ Final(v, n)' = Final(v, n)
  BY <1>1, Static, RvrKept DEF Var
<1>3. RvrInv'
  BY <1>1, <1>2 DEF PlaceInv, RvrInv
<1>4. \A v \in VarIdx : Final(v, Nam) = Final(v, Nam')
  <2>1. \A v \in VarIdx : dmn_idx_out_in[v] = Final(v, Nam)
    BY <1>1 DEF RdrInv, PrpInv
  <2>2. \A v \in VarIdx : dmn_idx_out_in'[v] = Final(v, Nam')
    <3>1. \A v \in VarIdx' : dmn_idx_out_in'[v] = Final(v, Nam)'
      BY <1>1 DEF RdrInv, DfnInv
    <3>2. QED
      BY <1>2, <3>1
  <2>3. QED
    BY <1>1, <2>1, <2>2
<1>5. \A v \in VarIdx : dr_dim'[v] = FinalDim(v, Nam')
  BY <1>1, <1>4 DEF PlaceInv, DimInv, FinalDim
<1>6. DimInv'
  BY <1>2, <1>5 DEF DimInv
<1>7. SlotInv'
  <2>1. dr_idx = 1
    BY <1>1 DEF RdrInv, LoopInv
  <2>2. Dfnd' = 0
    BY <1>1, <2>1 DEF Dfnd
  <2>3. QED
    BY <1>1, <2>2 DEF SlotInv
<1>8. QED
  BY <1>3, <1>6, <1>7 DEF PlaceInv

\* The definition of a variable settles its map, which stays one-to-one.
LEMMA DfnPlaces ==
  ASSUME RdrInv, RdrInv', PlaceInv, Dfn, IsRequest(dr_rqs), ~MovesTwice(dr_rqs)
  PROVE  PlaceInv'
<1> DEFINE i == dr_idx
           dmn == dr_rqs.vars[i]
           map == dmn_idx_out_in[i]
           dfn == [o \in DOMAIN dmn |-> dmn[map[o]]]
           new == [dmn |-> dfn, slot |-> <<>>]
           n == Len(dr_rqs.vars)
<1>1. /\ dr_pc = "dfn" /\ dr_rqs' = dr_rqs /\ dr_dim' = dr_dim /\ dmn_rvr_in' = dmn_rvr_in
      /\ dmn_idx_out_in' = dmn_idx_out_in /\ rec_dmn_nm_out' = rec_dmn_nm_out
  BY DEF Dfn
<1>2. /\ LoopInv /\ NamInv /\ NamOK(Nam) /\ i \in VarIdx /\ Dfnd = i - 1
      /\ map = Final(i, Nam) /\ dr_fl = [v \in 1..(i - 1) |-> dr_fl[v]]
  BY <1>1 DEF RdrInv, DfnInv, LoopInv, Dfnd
<1>3. /\ VarIdx' = VarIdx /\ Nam' = Nam
      /\ \A v : Rvr(Var(v))' = Rvr(Var(v))
      /\ \A v, m : FinalDim(v, m)' = FinalDim(v, m)
  BY <1>1, <1>2, Static, RvrKept, NamSame
<1>4. IsInjective(map)
  BY <1>2, StaysOneToOne
<1>5. \/ dr_pc' = "error" /\ UNCHANGED <<dr_idx, udm, dr_fl>>
      \/ dr_fl' = Append(dr_fl, new) /\ Onward("val")
  BY <1>4 DEF Dfn
<1>6. n \in Nat /\ VarIdx = 1..n
  BY VarIdxFacts
<1>7. /\ DOMAIN dmn_rvr_in = VarIdx /\ \A v \in VarIdx : dmn_rvr_in[v] = Rvr(Var(v))
      /\ \A v \in VarIdx : dr_dim[v] = FinalDim(v, Nam)
      /\ \A v \in 1..(i - 1) : "slot" \in DOMAIN dr_fl[v]
  BY <1>1, <1>2 DEF PlaceInv, RvrInv, DimInv, SlotInv
<1>8. DimInv'
  BY <1>1, <1>3, <1>7 DEF DimInv
<1>9. CASE dr_pc' = "error"
  <2>1. RvrInv'
    BY <1>1, <1>3, <1>7, <1>9 DEF RvrInv
  <2>2. SlotInv'
    BY <1>9 DEF SlotInv
  <2>3. QED
    BY <1>8, <2>1, <2>2 DEF PlaceInv
<1>10. CASE dr_pc' # "error"
  <2>1. dr_fl' = Append(dr_fl, new) /\ Onward("val")
    BY <1>5, <1>10
  <2>2. /\ dr_idx' \in VarIdx
        /\ \/ dr_idx' = i + 1 /\ dr_pc' = "dfn"
           \/ dr_idx' = 1 /\ dr_pc' = "val" /\ \A v \in VarIdx : v <= i
    BY <1>1, <1>2, <2>1, OnwardFacts
  <2> HIDE DEF new
  <2>3. \A v \in 1..i : "slot" \in DOMAIN dr_fl'[v]
    <3>1. "slot" \in DOMAIN new
      BY DEF new
    <3>2. i \in Nat \ {0}
      BY <1>2, <1>6
    <3> DEFINE S == {dr_fl[v] : v \in 1..(i - 1)}
    <3>3. dr_fl \in Seq(S) /\ Len(dr_fl) = i - 1
      BY <1>2, <3>2
    <3> HIDE DEF S, i
    <3>4. \A v \in 1..i : dr_fl'[v] = IF v = i THEN new ELSE dr_fl[v]
      BY <2>1, <3>2, <3>3
    <3>5. \A v \in 1..i : v # i => v \in 1..(i - 1)
      BY <3>2
    <3>6. QED
      BY <1>7, <3>1, <3>4, <3>5
  <2>4. RvrInv'
    BY <1>1, <1>3, <1>7, <2>2 DEF RvrInv
  <2>5. SlotInv'
    <3>1. Dfnd' = i
      <4>1. CASE dr_pc' = "dfn"
        BY <1>2, <1>6, <2>2, <4>1 DEF Dfnd
      <4>2. CASE dr_pc' = "val"
        <5>1. n = i
          BY <1>2, <1>6, <2>2, <4>2
        <5>2. QED
          BY <1>1, <4>2, <5>1 DEF Dfnd
      <4>3. QED
        BY <2>2, <4>1, <4>2
    <3>2. dr_pc' = "val" => Wrtn' = 0
      BY <2>2 DEF Wrtn
    <3>3. \A v \in VarIdx : ~(v <= 0)
      BY <1>6
    <3>4. dr_pc' \in {"dfn", "val"}
      BY <2>2
    <3> HIDE DEF i
    <3>5. QED
      BY <1>3, <2>3, <3>1, <3>2, <3>3, <3>4 DEF SlotInv
  <2>6. QED
    BY <1>8, <2>4, <2>5 DEF PlaceInv
<1>11. QED
  BY <1>9, <1>10

\* Writing a variable sends each element to the slot its map gives.
LEMMA PutPlaces ==
  ASSUME RdrInv, RdrInv', PlaceInv, Put, IsRequest(dr_rqs)
  PROVE  PlaceInv'
<1> DEFINE i == dr_idx
           n == Len(dr_rqs.vars)
<1>1. /\ dr_pc = "val" /\ dr_rqs' = dr_rqs /\ dr_dim' = dr_dim /\ dmn_rvr_in' = dmn_rvr_in
      /\ dmn_idx_out_in' = dmn_idx_out_in /\ rec_dmn_nm_out' = rec_dmn_nm_out
      /\ dr_fl' = [dr_fl EXCEPT ![i].slot = Slots(i)] /\ Onward("done")
  BY DEF Put, Slots
<1>2. /\ LoopInv /\ NamInv /\ i \in VarIdx /\ Dfnd = n
      /\ dr_fl = [v \in 1..n |-> dr_fl[v]]
  BY <1>1 DEF RdrInv, DfnInv, LoopInv, Dfnd
<1>3. /\ VarIdx' = VarIdx /\ Nam' = Nam
      /\ \A v : Rvr(Var(v))' = Rvr(Var(v)) /\ Slots(v)' = Slots(v)
      /\ \A v, m : FinalDim(v, m)' = FinalDim(v, m)
  BY <1>1, <1>2, Static, RvrKept, NamSame, SlotsKept
<1>4. n \in Nat /\ VarIdx = 1..n
  BY VarIdxFacts
<1>5. /\ dr_idx' \in VarIdx
      /\ \/ /\ dr_idx' = i + 1 /\ dr_pc' = "val"
            /\ \A v \in VarIdx : v < dr_idx' <=> v <= i
         \/ dr_idx' = 1 /\ dr_pc' = "done" /\ \A v \in VarIdx : v <= i
  BY <1>1, <1>2, OnwardFacts
<1>6. /\ DOMAIN dmn_rvr_in = VarIdx /\ \A v \in VarIdx : dmn_rvr_in[v] = Rvr(Var(v))
      /\ \A v \in VarIdx : dr_dim[v] = FinalDim(v, Nam)
      /\ \A v \in VarIdx : "slot" \in DOMAIN dr_fl[v]
      /\ \A v \in VarIdx : v <= i - 1 => dr_fl[v].slot = Slots(v)
  BY <1>1, <1>2, <1>4 DEF PlaceInv, RvrInv, DimInv, SlotInv, Wrtn
<1>7. /\ \A v \in VarIdx : v # i => dr_fl'[v] = dr_fl[v]
      /\ dr_fl'[i] = [dr_fl[i] EXCEPT !.slot = Slots(i)]
  BY <1>1, <1>2, <1>4
<1>8. "slot" \in DOMAIN dr_fl'[i] /\ dr_fl'[i].slot = Slots(i)
  BY <1>2, <1>6, <1>7
<1> HIDE DEF i, n
<1>9. \A v \in VarIdx : "slot" \in DOMAIN dr_fl'[v]
  BY <1>6, <1>7, <1>8
<1>10. \A v \in VarIdx : v <= i => dr_fl'[v].slot = Slots(v)
  <2>1. SUFFICES ASSUME NEW v \in VarIdx, v <= i PROVE dr_fl'[v].slot = Slots(v)
    OBVIOUS
  <2>2. CASE v = i
    BY <1>8, <2>2
  <2>3. CASE v # i
    <3>1. v <= i - 1
      BY <1>2, <1>4, <2>1, <2>3
    <3>2. QED
      BY <1>6, <1>7, <2>3, <3>1
  <2>4. QED
    BY <2>2, <2>3
<1>11. RvrInv' /\ DimInv'
  BY <1>1, <1>3, <1>5, <1>6 DEF RvrInv, DimInv
<1>12. SlotInv'
  <2>1. Dfnd' = n /\ dr_pc' \in {"val", "done"}
    BY <1>1, <1>5 DEF Dfnd, n
  <2>2. \A v \in VarIdx : v <= Wrtn' => v <= i
    BY <1>1, <1>2, <1>4, <1>5 DEF Wrtn, n
  <2>3. \A v \in VarIdx' : v <= Wrtn' => dr_fl'[v].slot = Slots(v)'
    BY <1>3, <1>10, <2>2
  <2>4. \A v \in 1..Dfnd' : "slot" \in DOMAIN dr_fl'[v]
    BY <1>4, <1>9, <2>1
  <2>5. QED
    BY <2>3, <2>4 DEF SlotInv
<1>13. QED
  BY <1>11, <1>12 DEF PlaceInv

\* Nor does a step that changes nothing.
LEMMA PlaceStutter ==
  ASSUME PlaceInv, UNCHANGED dr_vars
  PROVE  PlaceInv'
<1>1. /\ dr_rqs' = dr_rqs /\ dr_pc' = dr_pc /\ dr_idx' = dr_idx /\ dr_dim' = dr_dim
      /\ dmn_idx_out_in' = dmn_idx_out_in /\ dmn_rvr_in' = dmn_rvr_in
      /\ rec_dmn_nm_out' = rec_dmn_nm_out /\ dr_fl' = dr_fl
  BY DEF dr_vars
<1>2. /\ VarIdx' = VarIdx /\ Nam' = Nam
      /\ \A v : Rvr(Var(v))' = Rvr(Var(v)) /\ Slots(v)' = Slots(v)
      /\ \A v, m : FinalDim(v, m)' = FinalDim(v, m)
  BY <1>1, Static, RvrKept, NamSame, SlotsKept
<1>3. RvrInv' /\ DimInv'
  BY <1>1, <1>2 DEF PlaceInv, RvrInv, DimInv
<1>4. Dfnd' = Dfnd /\ Wrtn' = Wrtn
  BY <1>1 DEF Dfnd, Wrtn
<1>5. SlotInv'
  BY <1>1, <1>2, <1>4 DEF PlaceInv, SlotInv
<1>6. QED
  BY <1>3, <1>5 DEF PlaceInv

\* Every step keeps it.
LEMMA PlaceStep ==
  ASSUME RdrInv, RdrInv', ~MovesTwice(dr_rqs) => PlaceInv, [DrNext]_dr_vars
  PROVE  ~MovesTwice(dr_rqs)' => PlaceInv'
<1>1. dr_rqs' = dr_rqs
  BY DEF DrNext, Mtd, Mrk, Prp, Dfn, Put, dr_vars
<1>2. MovesTwice(dr_rqs)' <=> MovesTwice(dr_rqs)
  BY <1>1 DEF MovesTwice
<1>3. SUFFICES ASSUME ~MovesTwice(dr_rqs) PROVE PlaceInv'
  BY <1>2
<1>4. IsRequest(dr_rqs) /\ PlaceInv
  BY <1>3, RdrAssumption DEF RdrInv, LoopInv
<1>5. CASE Mtd
  BY <1>4, <1>5, MtdPlaces
<1>6. CASE Mrk
  BY <1>3, <1>4, <1>6, MrkPlaces
<1>7. CASE Prp
  BY <1>4, <1>7, PrpPlaces
<1>8. CASE Dfn
  BY <1>3, <1>4, <1>8, DfnPlaces
<1>9. CASE Put
  BY <1>4, <1>9, PutPlaces
<1>10. CASE UNCHANGED dr_vars
  BY <1>4, <1>10, PlaceStutter
<1>11. QED
  BY <1>5, <1>6, <1>7, <1>8, <1>9, <1>10 DEF DrNext

\* When all is written, each element is where its subscripts put it.
LEMMA InPlace ==
  ASSUME RdrInv, PlaceInv
  PROVE  ElementsInPlace
<1>1. IsRequest(dr_rqs) /\ dr_pc # "undefined"
  BY RdrAssumption DEF RdrInv, LoopInv, PlaceInv, RvrInv
<1>2. SUFFICES ASSUME dr_pc = "done", NEW v \in VarIdx
               PROVE  LET out == [dmn |-> dr_fl[v].dmn, cnt |-> dr_rqs.cnt]
                          in == [dmn |-> dr_rqs.vars[v], cnt |-> dr_rqs.cnt]
                      IN \A lmn \in DOMAIN dr_fl[v].slot : \A d \in ToSet(dr_rqs.vars[v]) :
                           DmnSs(out, dr_fl[v].slot[lmn], d) =
                             IF d \in dr_rqs.rvr THEN dr_rqs.cnt[d] - 1 - DmnSs(in, lmn, d)
                             ELSE DmnSs(in, lmn, d)
  BY <1>1 DEF ElementsInPlace
<1>3. dr_fl[v].dmn = FinalDim(v, Nam) /\ IsInjective(Final(v, Nam))
  BY <1>1, <1>2, FlFacts
<1>4. dmn_idx_out_in[v] = Final(v, Nam)
  BY <1>2 DEF RdrInv, DfnInv
<1>5. dmn_rvr_in[v] = Rvr(Var(v)) /\ dr_dim[v] = FinalDim(v, Nam)
  BY <1>2 DEF PlaceInv, RvrInv, DimInv
<1>6. dr_fl[v].slot = Slots(v)
  <2>1. v <= Wrtn
    BY <1>1, <1>2, VarIdxFacts DEF Wrtn
  <2>2. QED
    BY <1>2, <2>1 DEF PlaceInv, SlotInv
<1>7. \A lmn \in DOMAIN dr_fl[v].slot :
        lmn \in 0..(Size(Var(v), dr_rqs.cnt) - 1) /\ dr_fl[v].slot[lmn] = Slot(v, lmn)
  BY <1>6 DEF Slots, Var
<1>8. QED
  BY <1>1, <1>3, <1>4, <1>5, <1>7, Landed DEF Var

\* For any variables and any -a that does not move the new record dimension
\* before it becomes that of another variable, the elements are found under
\* their subscripts, reversed where asked (ElementsInPlace).
THEOREM ElementsFollow == DrSpec => [](~MovesTwice(dr_rqs) => ElementsInPlace)
<1>1. DrInit => (~MovesTwice(dr_rqs) => PlaceInv)
  BY PlaceInit
<1>2. RdrInv /\ RdrInv' /\ (~MovesTwice(dr_rqs) => PlaceInv) /\ [DrNext]_dr_vars
      => (~MovesTwice(dr_rqs) => PlaceInv)'
  BY PlaceStep
<1>3. RdrInv /\ (~MovesTwice(dr_rqs) => PlaceInv) => (~MovesTwice(dr_rqs) => ElementsInPlace)
  BY InPlace
<1>4. QED
  BY <1>1, <1>2, <1>3, RdrInvariant, PTL DEF DrSpec

=============================================================================
