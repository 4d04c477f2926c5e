----------------------------- MODULE MsaProofs -----------------------------
(***************************************************************************)
(* Proofs about MsaMerge, for every number of slabs and every start, end   *)
(* and stride: merging delivers the union of the slabs, in ascending order.*)
(*                                                                         *)
(* Then about MsaRead, for every dimension, coordinate and list of -d      *)
(* options: nco_bld_lmt() hands the merge a list of slabs as MsaMerge      *)
(* takes it; what the merge delivers is the union of these slabs, as many  *)
(* elements as were counted; and ncks prints their indices on disk.        *)
(*                                                                         *)
(* Last, that these are the elements the limits ask for, in the promised   *)
(* order: each limit is followed from its text to its slab, through the    *)
(* parts it is split into, to the memory they fill.                        *)
(***************************************************************************)
EXTENDS MsaRead, WellFoundedInduction, FiniteSetTheorems, TLAPS

-----------------------------------------------------------------------------
(* The smallest index.                                                     *)

\* Every non-empty set of natural numbers has a smallest element.
LEMMA NatMin ==
  ASSUME NEW T, T \subseteq Nat, T # {}
  PROVE  \E x \in T : \A y \in T : x <= y
<1>1. {ss \in Nat \X Nat : ss[1] < ss[2]} = OpToRel(<, Nat)
  BY DEF OpToRel
<1>2. IsWellFoundedOn({ss \in Nat \X Nat : ss[1] < ss[2]}, Nat)
  BY <1>1, NatLessThanWellFounded, Zenon
<1>3. PICK x \in T : \A y \in T : ~(<<y, x>> \in {ss \in Nat \X Nat : ss[1] < ss[2]})
  BY <1>2, WFMin, Zenon
<1>4. ASSUME NEW y \in T PROVE ~(y < x)
  <2>1. y \in Nat /\ x \in Nat
    BY <1>3
  <2>2. ASSUME y < x PROVE <<y, x>> \in {ss \in Nat \X Nat : ss[1] < ss[2]}
    BY <2>1, <2>2
  <2>3. QED
    BY <1>3, <2>2, Zenon
<1>5. QED
  <2>1. \A y \in T : x <= y
    BY <1>4
  <2>2. QED
    BY <2>1

\* What a sequence over a set is made of.
LEMMA SeqOver ==
  ASSUME NEW S, NEW s \in Seq(S)
  PROVE  DOMAIN s = 1..Len(s) /\ Len(s) \in Nat /\ \A i \in DOMAIN s : s[i] \in S
OBVIOUS

\* Indices of slabs: a natural number, or -1 for a slab without any left.
IsIndices(ind) == ind \in Seq(Nat \cup {-1})

LEMMA SeqElements ==
  ASSUME NEW ind, IsIndices(ind)
  PROVE  /\ DOMAIN ind = 1..Len(ind) /\ Len(ind) \in Nat
         /\ \A i \in DOMAIN ind : ind[i] = -1 \/ ind[i] \in Nat
BY DEF IsIndices

\* nco_msa_min_idx() returns the smallest index left and marks its slabs.
LEMMA MinIdxFacts ==
  ASSUME NEW ind, IsIndices(ind), Mnm(ind) # {}
  PROVE  /\ MinIdx(ind) \in Nat
         /\ \A i \in DOMAIN ind : ind[i] # -1 => MinIdx(ind) <= ind[i]
         /\ \A i \in Mnm(ind) : i \in DOMAIN ind /\ ind[i] = MinIdx(ind)
<1> DEFINE left == {ind[i] : i \in DOMAIN ind} \ {-1}
<1>1. left \subseteq Nat
  BY SeqElements DEF IsIndices
<1>2. left # {}
  BY DEF Mnm
<1>3. PICK x \in left : \A y \in left : x <= y
  BY <1>1, <1>2, NatMin
<1>4. Min(left) \in left /\ \A y \in left : Min(left) <= y
  BY <1>3 DEF Min
<1>5. MinIdx(ind) = Min(left)
  BY <1>2 DEF MinIdx
<1>6. QED
  BY <1>1, <1>4, <1>5 DEF Mnm

\* No slab has the smallest index only when no slab has one left.
LEMMA NoneLeft ==
  ASSUME NEW ind, IsIndices(ind), Mnm(ind) = {}
  PROVE  \A i \in DOMAIN ind : ind[i] = -1
<1> DEFINE left == {ind[i] : i \in DOMAIN ind} \ {-1}
<1>1. SUFFICES ASSUME left # {} PROVE FALSE
  OBVIOUS
<1>2. left \subseteq Nat
  BY SeqElements DEF IsIndices
<1>3. PICK x \in left : \A y \in left : x <= y
  BY <1>1, <1>2, NatMin
<1>4. Min(left) \in left
  BY <1>3 DEF Min
<1>5. MinIdx(ind) = Min(left)
  BY <1>1 DEF MinIdx
<1>6. QED
  BY <1>4, <1>5 DEF Mnm

-----------------------------------------------------------------------------
(* The elements of one slab.                                               *)

LEMMA PickForm ==
  ASSUME NEW s \in Slab, NEW x \in Picks(s)
  PROVE  /\ x \in Nat /\ x >= s.srt
         /\ \E k \in Nat : x = s.srt + s.srd * k
         /\ x = s.srt \/ x <= s.end
<1>1. CASE x = s.srt
  <2>1. x = s.srt + s.srd * 0
    BY <1>1 DEF Slab
  <2>2. QED
    BY <1>1, <2>1 DEF Slab
<1>2. CASE x # s.srt
  BY <1>2 DEF Picks, Slab
<1>3. QED
  BY <1>1, <1>2

LEMMA PickIntro ==
  ASSUME NEW s \in Slab, NEW x \in s.srt..s.end, NEW k \in 0..(x - s.srt),
         x = s.srt + s.srd * k
  PROVE  x \in Picks(s)
BY DEF Picks

LEMMA Distribute ==
  ASSUME NEW d \in Nat \ {0}, NEW a \in Nat, NEW b \in Nat
  PROVE  /\ d * (a + b) = d * a + d * b
         /\ d * a \in Nat /\ b <= d * b
         /\ (d * a) \div d = a
         /\ b > a => d * b >= d * a + d
         /\ d * (a + 1) = d * a + d
OBVIOUS

\* The next element of a slab is a stride away.
LEMMA PickNext ==
  ASSUME NEW s \in Slab, NEW m \in Picks(s), m + s.srd <= s.end
  PROVE  m + s.srd \in Picks(s)
<1>1. PICK k \in Nat : m = s.srt + s.srd * k
  BY PickForm
<1>2. m + s.srd = s.srt + s.srd * (k + 1)
  BY <1>1, Distribute DEF Slab
<1>3. s.srd * (k + 1) >= k + 1
  BY Distribute DEF Slab
<1>4. PICK n \in Int, j \in Int : n = m + s.srd /\ j = k + 1
  BY PickForm DEF Slab
<1>5. n \in s.srt..s.end /\ j \in 0..(n - s.srt)
  BY <1>1, <1>2, <1>3, <1>4, PickForm DEF Slab
<1>6. n \in Picks(s)
  <2>1. n = s.srt + s.srd * j
    BY <1>2, <1>4
  <2>2. QED
    BY <1>5, <2>1, PickIntro
<1>7. QED
  BY <1>4, <1>6

\* No element of a slab lies between two that are a stride apart.
LEMMA PickGap ==
  ASSUME NEW s \in Slab, NEW m \in Picks(s), NEW x \in Picks(s), x > m
  PROVE  m + s.srd <= x /\ m + s.srd <= s.end
<1>1. PICK k \in Nat : m = s.srt + s.srd * k
  BY PickForm
<1>2. PICK l \in Nat : x = s.srt + s.srd * l
  BY PickForm
<1>3. l > k
  <2>1. SUFFICES ASSUME l <= k PROVE FALSE
    OBVIOUS
  <2>2. k - l \in Nat /\ k = l + (k - l)
    BY <2>1
  <2>3. s.srd * k = s.srd * l + s.srd * (k - l) /\ s.srd * (k - l) \in Nat
    BY <2>2, Distribute DEF Slab
  <2>4. QED
    BY <1>1, <1>2, <2>3, PickForm DEF Slab
<1>4. s.srd * l >= s.srd * k + s.srd
  BY <1>3, Distribute DEF Slab
<1>5. m + s.srd <= x
  BY <1>1, <1>2, <1>4, PickForm DEF Slab
<1>6. QED
  BY <1>5, PickForm DEF Slab

-----------------------------------------------------------------------------
(* One pass of the loop of nco_msa_clc_idx().                              *)

Gone(ind, i, x) == ind[i] = -1 \/ x < ind[i]
OnSlabs(lmt, ind) ==
  /\ IsIndices(ind) /\ DOMAIN ind = DOMAIN lmt
  /\ \A i \in DOMAIN lmt : ind[i] = -1 \/ ind[i] \in Picks(lmt[i])

\* Advancing the slabs that have the smallest index passes that index and
\* nothing else.
LEMMA AdvanceFacts ==
  ASSUME NEW lmt \in Seq(Slab), NEW ind, OnSlabs(lmt, ind), Mnm(ind) # {}
  PROVE  /\ OnSlabs(lmt, Advance(lmt, ind))
         /\ \A i \in DOMAIN lmt : \A x \in Picks(lmt[i]) :
              Gone(Advance(lmt, ind), i, x) <=>
                Gone(ind, i, x) \/ (x = MinIdx(ind) /\ ind[i] = MinIdx(ind))
         /\ \A i \in DOMAIN lmt, x \in Int :
              Gone(ind, i, x) => Gone(Advance(lmt, ind), i, x)
         /\ \A i \in DOMAIN lmt : Gone(Advance(lmt, ind), i, MinIdx(ind))
         /\ \E i \in DOMAIN lmt : ind[i] = MinIdx(ind)
<1> DEFINE nxt == Advance(lmt, ind)
           m == MinIdx(ind)
<1>1. /\ IsIndices(ind) /\ DOMAIN ind = DOMAIN lmt /\ ind \in Seq(Int)
      /\ DOMAIN lmt = 1..Len(lmt) /\ Len(lmt) \in Nat
  BY DEF OnSlabs, IsIndices
<1>2. m \in Nat /\ \A i \in DOMAIN lmt : ind[i] = -1 \/ m <= ind[i]
  BY <1>1, MinIdxFacts
<1>3. \A i \in DOMAIN lmt : i \in Mnm(ind) <=> ind[i] = m
  BY <1>1, <1>2, MinIdxFacts DEF Mnm
<1>0. \E i \in DOMAIN lmt : ind[i] = m
  BY <1>1, MinIdxFacts
<1>4. DOMAIN nxt = DOMAIN lmt
  BY <1>1 DEF Advance
<1>5. ASSUME NEW i \in DOMAIN lmt
      PROVE  /\ lmt[i] \in Slab /\ lmt[i].srd \in Nat \ {0} /\ lmt[i].end \in Int
             /\ ind[i] # m => nxt[i] = ind[i]
             /\ ind[i] = m /\ m + lmt[i].srd > lmt[i].end => nxt[i] = -1
             /\ ind[i] = m /\ m + lmt[i].srd <= lmt[i].end => nxt[i] = m + lmt[i].srd
             /\ ind[i] = m => nxt[i] = -1 \/ (nxt[i] \in Nat /\ nxt[i] > m)
  <2>1. lmt[i] \in Slab
    BY <1>1
  <2>2. nxt[i] = IF ind[i] # m THEN ind[i]
                 ELSE IF m + lmt[i].srd > lmt[i].end THEN -1 ELSE m + lmt[i].srd
    BY <1>1, <1>3 DEF Advance
  <2>3. lmt[i].srd \in Nat \ {0} /\ lmt[i].end \in Int
    BY <2>1 DEF Slab
  <2> HIDE DEF m, nxt
  <2>4. QED
    BY <1>2, <2>1, <2>2, <2>3
<1> HIDE DEF m, nxt
<1>6. ASSUME NEW i \in DOMAIN lmt
      PROVE  nxt[i] = -1 \/ nxt[i] \in Picks(lmt[i])
  <2>1. ind[i] = m => m \in Picks(lmt[i])
    BY <1>2 DEF OnSlabs
  <2>2. ind[i] = m /\ m + lmt[i].srd <= lmt[i].end => m + lmt[i].srd \in Picks(lmt[i])
    BY <1>5, <2>1, PickNext
  <2>3. ind[i] = -1 \/ ind[i] \in Picks(lmt[i])
    BY DEF OnSlabs
  <2>4. ind[i] = m => m + lmt[i].srd > lmt[i].end \/ m + lmt[i].srd <= lmt[i].end
    BY <1>2, <1>5
  <2>5. QED
    BY <1>5, <2>2, <2>3, <2>4
<1>7. IsIndices(nxt)
  <2>1. \A i \in DOMAIN lmt : nxt[i] = -1 \/ nxt[i] \in Nat
    BY <1>1, <1>6, PickForm
  <2>2. \E n \in Nat : DOMAIN nxt = 1..n
    BY <1>1, <1>4
  <2>3. nxt = [i \in DOMAIN nxt |-> nxt[i]]
    BY DEF Advance, nxt
  <2>4. \A i \in DOMAIN nxt : nxt[i] \in Nat \cup {-1}
    BY <1>4, <2>1
  <2>5. PICK n \in Nat : DOMAIN nxt = 1..n
    BY <2>2
  <2>6. nxt \in [1..n -> Nat \cup {-1}]
    BY <2>3, <2>4, <2>5, Zenon
  <2>7. nxt \in Seq(Nat \cup {-1})
    BY <2>6
  <2>8. QED
    BY <1>4, <2>1, <2>7 DEF IsIndices
<1>8. ASSUME NEW i \in DOMAIN lmt, NEW x \in Picks(lmt[i])
      PROVE  Gone(nxt, i, x) <=> Gone(ind, i, x) \/ (x = m /\ ind[i] = m)
  <2>1. x \in Nat
    BY <1>5, PickForm
  <2>2. CASE ind[i] # m
    BY <1>5, <2>2 DEF Gone
  <2>3. CASE ind[i] = m
    <3>1. m \in Picks(lmt[i])
      BY <1>2, <2>3 DEF OnSlabs
    <3>2. x > m => m + lmt[i].srd <= x /\ m + lmt[i].srd <= lmt[i].end
      BY <1>5, <3>1, PickGap
    <3>3. x > m => ~Gone(nxt, i, x)
      BY <1>2, <1>5, <2>1, <2>3, <3>2 DEF Gone
    <3>4. x <= m => Gone(nxt, i, x)
      BY <1>2, <1>5, <2>1, <2>3 DEF Gone
    <3>5. QED
      BY <1>2, <2>1, <2>3, <3>3, <3>4 DEF Gone
  <2>4. QED
    BY <2>2, <2>3
<1>9. ASSUME NEW i \in DOMAIN lmt, NEW x \in Int, Gone(ind, i, x)
      PROVE  Gone(nxt, i, x)
  <2>1. CASE ind[i] # m
    BY <1>5, <1>9, <2>1 DEF Gone
  <2>2. CASE ind[i] = m
    BY <1>2, <1>5, <1>9, <2>2 DEF Gone
  <2>3. QED
    BY <2>1, <2>2
<1>10. ASSUME NEW i \in DOMAIN lmt
       PROVE  Gone(nxt, i, m)
  <2>1. CASE ind[i] # m
    BY <1>1, <1>2, <1>5, <2>1 DEF Gone, IsIndices
  <2>2. CASE ind[i] = m
    BY <1>2, <1>5, <2>2 DEF Gone
  <2>3. QED
    BY <2>1, <2>2
<1>11. OnSlabs(lmt, nxt)
  BY <1>4, <1>6, <1>7 DEF OnSlabs
<1>12. QED
  BY <1>0, <1>8, <1>9, <1>10, <1>11 DEF m, nxt

\* Advancing keeps any indices well-formed, for counting and printing.
LEMMA AdvanceType ==
  ASSUME NEW lmt \in Seq(Slab), NEW ind, IsIndices(ind), Len(ind) = Len(lmt)
  PROVE  IsIndices(Advance(lmt, ind)) /\ Len(Advance(lmt, ind)) = Len(lmt)
<1> DEFINE nxt == Advance(lmt, ind)
<1>1. DOMAIN ind = 1..Len(lmt) /\ DOMAIN lmt = 1..Len(lmt) /\ Len(lmt) \in Nat
  BY SeqElements
<1>2. ASSUME NEW i \in 1..Len(lmt) PROVE nxt[i] \in Nat \cup {-1}
  <2>1. lmt[i].srd \in Nat
    <3>1. lmt[i] \in Slab
      BY <1>1
    <3>2. QED
      BY <3>1 DEF Slab
  <2>2. ind[i] = -1 \/ ind[i] \in Nat
    BY <1>1, SeqElements
  <2>3. nxt[i] = ind[i] \/ nxt[i] = -1 \/ nxt[i] = ind[i] + lmt[i].srd
    BY <1>1 DEF Advance
  <2>4. i \in Mnm(ind) => ind[i] # -1
    BY DEF Mnm
  <2>5. i \notin Mnm(ind) => nxt[i] = ind[i]
    BY <1>1 DEF Advance
  <2>6. QED
    BY <2>1, <2>2, <2>3, <2>4, <2>5
<1>3. nxt = [i \in 1..Len(lmt) |-> nxt[i]]
  BY <1>1 DEF Advance
<1>4. nxt \in [1..Len(lmt) -> Nat \cup {-1}]
  BY <1>2, <1>3, Zenon
<1>5. QED
  BY <1>1, <1>4 DEF IsIndices

\* At the start no element is passed.
LEMMA StartFacts ==
  ASSUME NEW lmt \in Seq(Slab)
  PROVE  /\ OnSlabs(lmt, Start(lmt)) /\ Len(Start(lmt)) = Len(lmt)
         /\ \A i \in DOMAIN lmt : \A x \in Picks(lmt[i]) : ~Gone(Start(lmt), i, x)
<1>1. DOMAIN lmt = 1..Len(lmt) /\ Len(lmt) \in Nat
  OBVIOUS
<1>2. ASSUME NEW i \in DOMAIN lmt
      PROVE  lmt[i] \in Slab /\ Start(lmt)[i] = lmt[i].srt /\ lmt[i].srt \in Nat
  <2>1. lmt[i] \in Slab
    BY <1>1
  <2>2. QED
    BY <2>1 DEF Start, Slab
<1>3. Start(lmt) \in [1..Len(lmt) -> Nat \cup {-1}]
  <2>1. Start(lmt) = [i \in 1..Len(lmt) |-> lmt[i].srt]
    BY <1>1 DEF Start
  <2>2. QED
    BY <1>1, <1>2, <2>1
<1>4. IsIndices(Start(lmt)) /\ Len(Start(lmt)) = Len(lmt)
  BY <1>1, <1>3 DEF IsIndices
<1>5. \A i \in DOMAIN lmt : Start(lmt)[i] \in Picks(lmt[i])
  BY <1>2 DEF Picks
<1>6. ASSUME NEW i \in DOMAIN lmt, NEW x \in Picks(lmt[i])
      PROVE  ~Gone(Start(lmt), i, x)
  <2>1. x \in Nat /\ x >= lmt[i].srt
    BY <1>2, PickForm
  <2>2. QED
    BY <1>2, <2>1 DEF Gone
<1>7. QED
  BY <1>1, <1>3, <1>4, <1>5, <1>6 DEF OnSlabs

\* The slab the next element is taken from has the smallest index.
LEMMA CrrSlbFacts ==
  ASSUME MsaTypeOK, phase = "merge", Mnm(indices) # {}
  PROVE  CrrSlb \in Mnm(indices) /\ CrrSlb \in DOMAIN lmt_dmn /\ CrrSlb \in Nat
<1>1. DOMAIN indices = 1..Len(lmt_dmn) /\ DOMAIN lmt_dmn = 1..Len(lmt_dmn)
  BY DEF MsaTypeOK
<1>2. Mnm(indices) \subseteq Nat /\ Mnm(indices) \subseteq DOMAIN lmt_dmn
  BY <1>1 DEF Mnm
<1>3. PICK x \in Mnm(indices) : \A y \in Mnm(indices) : x <= y
  BY <1>2, NatMin
<1>4. Min(Mnm(indices)) \in Mnm(indices)
  BY <1>3 DEF Min
<1>5. QED
  BY <1>2, <1>4 DEF CrrSlb

-----------------------------------------------------------------------------
(* The invariant.                                                          *)

MsaInv == MsaTypeOK /\ MergeInv

LEMMA MsaTypes ==
  ASSUME MsaTypeOK
  PROVE  /\ lmt_dmn \in Seq(Slab) /\ IsIndices(indices)
         /\ DOMAIN lmt_dmn = 1..Len(lmt_dmn) /\ Len(lmt_dmn) \in Nat
         /\ phase = "merge" => DOMAIN indices = DOMAIN lmt_dmn
         /\ \A i \in DOMAIN lmt_dmn : lmt_dmn[i] \in Slab
         /\ DOMAIN reads = 1..Len(reads) /\ Len(reads) \in Nat
         /\ \A r \in DOMAIN reads :
              reads[r] \in [slb : DOMAIN lmt_dmn, srt : Int, cnt : Nat]
<1>1. lmt_dmn \in Seq(Slab) /\ IsIndices(indices)
  BY DEF MsaTypeOK, IsIndices
<1>2. phase = "merge" => DOMAIN indices = DOMAIN lmt_dmn
  BY <1>1, SeqElements DEF MsaTypeOK
<1>3. reads \in Seq([slb : DOMAIN lmt_dmn, srt : Int, cnt : Nat])
  BY DEF MsaTypeOK
<1>4. /\ DOMAIN reads = 1..Len(reads) /\ Len(reads) \in Nat
      /\ \A r \in DOMAIN reads :
           reads[r] \in [slb : DOMAIN lmt_dmn, srt : Int, cnt : Nat]
  BY <1>3, SeqOver, Zenon
<1>5. QED
  BY <1>1, <1>2, <1>4

\* Collecting an element: it joins the run, and it alone is passed.
LEMMA CollectStep ==
  ASSUME MsaTypeOK, MergeInv, Collect
  PROVE  IndicesInv' /\ CrrInv' /\ TakenInv'
<1> DEFINE m == MinIdx(indices)
           c == CrrSlb
           D == DOMAIN lmt_dmn
<1>1. /\ phase = "merge" /\ Merges /\ IndicesInv /\ CrrInv /\ TakenInv
      /\ Mnm(indices) # {}
  BY DEF Collect, MergeInv
<1>2. /\ indices' = Advance(lmt_dmn, indices) /\ lmt_dmn' = lmt_dmn
      /\ reads' = reads /\ prv_slb' = c
      /\ WRP' = WRP /\ MSA_USR_RDR' = MSA_USR_RDR
      /\ crr' = [srt |-> IF crr.srt = -1 THEN m ELSE crr.srt,
                 end |-> m, cnt |-> crr.cnt + 1]
      /\ crr.srt = -1 \/ c = prv_slb
  BY DEF Collect, prep, slabs
<1>3. OnSlabs(lmt_dmn, indices) /\ lmt_dmn \in Seq(Slab)
  BY <1>1, MsaTypes DEF OnSlabs, IndicesInv
<1>4. /\ m \in Nat
      /\ c \in D /\ c \in Mnm(indices) /\ indices[c] = m
      /\ m \in Picks(lmt_dmn[c]) /\ lmt_dmn[c] \in Slab
  <2>1. m \in Nat /\ c \in D /\ c \in Mnm(indices) /\ indices[c] = m
    BY <1>1, MsaTypes, MinIdxFacts, CrrSlbFacts
  <2>2. QED
    BY <1>3, <2>1, MsaTypes DEF OnSlabs
<1>5. CrrHeld' = CrrHeld \cup {m}
  <2>1. CASE crr.srt = -1
    <3>1. crr = NoSlab
      <4>1. ASSUME prv_slb \in D, crr.srt \in Picks(lmt_dmn[prv_slb]) PROVE FALSE
        BY <2>1, <4>1, MsaTypes, PickForm
      <4>2. QED
        BY <1>1, <4>1 DEF CrrInv
    <3>2. CrrHeld = {}
      BY <3>1 DEF CrrHeld, NoSlab
    <3>3. crr'.srt = m /\ crr'.cnt = 1
      BY <1>2, <2>1, <3>1 DEF NoSlab
    <3>4. CrrHeld' = {m + lmt_dmn[c].srd * k : k \in 0..0}
      BY <1>2, <3>3 DEF CrrHeld
    <3>5. m + lmt_dmn[c].srd * 0 = m
      BY <1>4 DEF Slab
    <3>6. QED
      BY <3>2, <3>4, <3>5
  <2>2. CASE crr.srt # -1
    <3> DEFINE d == lmt_dmn[c].srd
    <3>1. /\ c = prv_slb /\ crr.cnt \in Nat /\ crr.cnt >= 1 /\ crr.srt \in Nat
          /\ crr.end = crr.srt + d * (crr.cnt - 1) /\ m = crr.end + d
      <4>1. crr # NoSlab /\ c = prv_slb
        BY <1>2, <2>2 DEF NoSlab
      <4>2. crr.srt \in Picks(lmt_dmn[c])
        BY <1>1, <4>1 DEF CrrInv
      <4>3. crr.srt \in Nat /\ crr.cnt \in Nat
        BY <1>4, <4>2, PickForm DEF MsaTypeOK
      <4>4. QED
        BY <1>1, <1>4, <4>1, <4>3 DEF CrrInv
    <3>2. m = crr.srt + d * crr.cnt
      <4>1. d \in Nat \ {0} /\ crr.cnt - 1 \in Nat /\ crr.cnt = (crr.cnt - 1) + 1
        BY <1>4, <3>1 DEF Slab
      <4>2. d * ((crr.cnt - 1) + 1) = d * (crr.cnt - 1) + d /\ d * (crr.cnt - 1) \in Nat
        BY <4>1, Distribute
      <4>3. QED
        BY <3>1, <4>1, <4>2
    <3>3. CrrHeld' = {crr.srt + d * k : k \in 0..crr.cnt}
      BY <1>2, <2>2, <3>1 DEF CrrHeld
    <3>4. CrrHeld = {crr.srt + d * k : k \in 0..(crr.cnt - 1)}
      BY <3>1 DEF CrrHeld
    <3>5. 0..crr.cnt = (0..(crr.cnt - 1)) \cup {crr.cnt}
      BY <3>1
    <3>6. QED
      BY <3>2, <3>3, <3>4, <3>5
  <2>3. QED
    BY <2>1, <2>2
<1>6. Taken' = Taken \cup {m}
  <2>1. \A r \in DOMAIN reads : HeldBy(r)' = HeldBy(r)
    BY <1>2 DEF HeldBy
  <2>2. QED
    BY <1>2, <1>5, <2>1 DEF Taken
<1>7. \A i \in D : \A x \in Picks(lmt_dmn[i]) :
        Passed(i, x)' <=> Passed(i, x) \/ (x = m /\ indices[i] = m)
  BY <1>1, <1>2, <1>3, AdvanceFacts DEF Passed, Gone
<1>8. /\ \A i \in D, x \in Int : Passed(i, x) => Passed(i, x)'
      /\ \A i \in D : \A x \in {m} : Passed(i, x)'
  <2>1. \A i \in D, x \in Int :
          Gone(indices, i, x) => Gone(Advance(lmt_dmn, indices), i, x)
    BY <1>1, <1>3, AdvanceFacts
  <2>2. \A i \in D : Gone(Advance(lmt_dmn, indices), i, m)
    BY <1>1, <1>3, AdvanceFacts
  <2> HIDE DEF m
  <2>3. QED
    BY <1>2, <2>1, <2>2 DEF Passed, Gone
<1>9. \A i \in D : Picks(lmt_dmn[i]) \subseteq Nat
  BY MsaTypes, PickForm
<1>10. IndicesInv'
  <2>1. \A i \in D : indices'[i] = -1 \/ indices'[i] \in Picks(lmt_dmn[i])
    BY <1>1, <1>2, <1>3, AdvanceFacts DEF OnSlabs
  <2>2. ASSUME NEW i \in D, NEW x \in Picks(lmt_dmn[i]), Passed(i, x)', NEW j \in D
        PROVE  Passed(j, x)'
    <3>1. CASE x = m
      <4>1. x \in {m}
        BY <3>1
      <4>2. QED
        BY <1>8, <4>1
    <3>2. CASE x # m
      <4>1. Passed(i, x)
        BY <1>7, <2>2, <3>2
      <4>2. Passed(j, x)
        BY <1>1, <4>1 DEF IndicesInv
      <4>3. QED
        BY <1>8, <1>9, <4>2
    <3>3. QED
      BY <3>1, <3>2
  <2>3. QED
    BY <1>2, <2>1, <2>2 DEF IndicesInv
<1>11. CrrInv'
  <2> DEFINE s == lmt_dmn[c]
  <2>1. crr'.cnt >= 1 /\ crr'.end = m /\ prv_slb' = c
    BY <1>2 DEF MsaTypeOK
  <2>2. indices'[c] = m + s.srd \/ (indices'[c] = -1 /\ m + s.srd > s.end)
    <3>1. indices'[c] = IF m + s.srd > s.end THEN -1 ELSE m + s.srd
      BY <1>2, <1>4, MsaTypes, <1>1 DEF Advance
    <3>2. QED
      BY <3>1
  <2>3. crr'.srt \in Picks(s) /\ m = crr'.srt + s.srd * (crr'.cnt - 1)
    <3>1. CASE crr.srt = -1
      <4>1. crr.cnt = 0
        <5>1. ASSUME prv_slb \in D, crr.srt \in Picks(lmt_dmn[prv_slb]) PROVE FALSE
          BY <3>1, <5>1, MsaTypes, PickForm
        <5>2. QED
          BY <1>1, <5>1 DEF CrrInv, NoSlab
      <4>2. crr'.srt = m /\ crr'.cnt - 1 = 0
        BY <1>2, <3>1, <4>1
      <4>3. m + s.srd * 0 = m
        BY <1>4 DEF Slab
      <4>4. QED
        BY <1>4, <4>2, <4>3
    <3>2. CASE crr.srt # -1
      <4>1. crr # NoSlab /\ c = prv_slb
        BY <1>2, <3>2 DEF NoSlab
      <4>2. /\ crr.srt \in Picks(s) /\ crr.cnt >= 1
            /\ crr.end = crr.srt + s.srd * (crr.cnt - 1) /\ m = crr.end + s.srd
        BY <1>1, <1>4, <4>1 DEF CrrInv
      <4>3. crr.srt \in Nat /\ crr.cnt - 1 \in Nat /\ s.srd \in Nat \ {0} /\ crr.cnt \in Nat
        <5>1. crr.srt \in Nat
          BY <1>4, <4>2, PickForm
        <5>2. crr.cnt \in Nat
          BY DEF MsaTypeOK
        <5>3. s.srd \in Nat \ {0}
          BY <1>4 DEF Slab
        <5>4. QED
          BY <4>2, <5>1, <5>2, <5>3
      <4>4. s.srd * ((crr.cnt - 1) + 1) = s.srd * (crr.cnt - 1) + s.srd
            /\ s.srd * (crr.cnt - 1) \in Nat
        BY <4>3, Distribute
      <4>5. crr'.srt = crr.srt /\ crr'.cnt - 1 = (crr.cnt - 1) + 1
        BY <1>2, <3>2, <4>3
      <4>6. m = crr.srt + s.srd * ((crr.cnt - 1) + 1)
        BY <4>2, <4>3, <4>4
      <4>7. QED
        BY <4>2, <4>5, <4>6
    <3>3. QED
      BY <3>1, <3>2
  <2>4. QED
    BY <1>2, <1>4, <2>1, <2>2, <2>3 DEF CrrInv
<1>12. TakenInv'
  <2>1. Taken' = {x \in All : \A i \in D : Passed(i, x)'}
    <3>1. m \in All /\ \A i \in D : \A x \in {m} : Passed(i, x)'
      BY <1>4, <1>8 DEF All
    <3>2. ASSUME NEW x \in All, \A i \in D : Passed(i, x)'
          PROVE  x \in Taken \/ x = m
      <4>1. PICK i \in D : x \in Picks(lmt_dmn[i])
        BY DEF All
      <4>2. Passed(i, x) \/ x = m
        BY <1>7, <3>2, <4>1
      <4>3. Passed(i, x) => \A j \in D : Passed(j, x)
        BY <1>1, <4>1 DEF IndicesInv
      <4>4. QED
        BY <1>1, <4>2, <4>3 DEF TakenInv
    <3>3. ASSUME NEW x \in Taken
          PROVE  x \in All /\ \A i \in D : Passed(i, x)'
      <4>1. x \in All /\ \A i \in D : Passed(i, x)
        BY <1>1 DEF TakenInv
      <4>2. x \in Int
        BY <1>9, <4>1 DEF All
      <4>3. QED
        BY <1>8, <4>1, <4>2
    <3>4. \A x \in Taken' : x \in All /\ \A i \in D : Passed(i, x)'
      BY <1>6, <3>1, <3>3
    <3>5. \A x \in All : (\A i \in D : Passed(i, x)') => x \in Taken'
      BY <1>6, <3>2
    <3>6. QED
      BY <3>4, <3>5
  <2>2. All' = All
    BY <1>2 DEF All
  <2>3. \A r \in DOMAIN reads : HeldBy(r)' = HeldBy(r)
    BY <1>2 DEF HeldBy
  <2>4. MergeAscending'
    BY <1>1, <1>2, <2>3 DEF TakenInv, MergeAscending, Merges
  <2>5. ASSUME NEW r \in DOMAIN reads, NEW x \in HeldBy(r), NEW y \in CrrHeld'
        PROVE  x < y
    <3>1. CASE y \in CrrHeld
      BY <1>1, <3>1 DEF TakenInv
    <3>2. CASE y = m
      <4>1. x \in Taken
        BY DEF Taken
      <4>2. Passed(c, x)
        BY <1>1, <1>4, <4>1 DEF TakenInv
      <4>3. QED
        BY <1>4, <3>2, <4>2 DEF Passed
    <3>3. QED
      BY <1>5, <3>1, <3>2
  <2>6. QED
    BY <1>2, <2>1, <2>2, <2>3, <2>4, <2>5 DEF TakenInv
<1>13. QED
  BY <1>10, <1>11, <1>12

\* Returning a hyperslab: the piece copied is the run that was collected.
LEMMA ReturnStep ==
  ASSUME MsaTypeOK, MergeInv, Return
  PROVE  /\ IndicesInv' /\ CrrInv' /\ TakenInv'
         /\ reads' \in Seq([slb : DOMAIN lmt_dmn, srt : Int, cnt : Nat])
<1> DEFINE s == lmt_dmn[prv_slb]
           srt == (crr.srt - s.srt) \div s.srd
           n == Len(reads) + 1
<1>1. phase = "merge" /\ IndicesInv /\ CrrInv /\ TakenInv
  BY DEF Return, MergeInv
<1>2. /\ indices' = indices /\ lmt_dmn' = lmt_dmn
      /\ reads' = Append(reads, [slb |-> prv_slb, cnt |-> crr.cnt, srt |-> srt])
      /\ WRP' = WRP /\ MSA_USR_RDR' = MSA_USR_RDR
      /\ crr' = NoSlab /\ prv_slb' = 1 /\ crr.srt # -1
  BY DEF Return, prep, slabs
<1>3. /\ prv_slb \in DOMAIN lmt_dmn /\ crr.cnt >= 1 /\ crr.cnt \in Nat
      /\ s \in Slab /\ crr.srt \in Picks(s)
  <2>1. crr # NoSlab
    BY <1>2 DEF NoSlab
  <2>2. crr.cnt \in Nat
    BY DEF MsaTypeOK
  <2>3. QED
    BY <1>1, <2>1, <2>2, MsaTypes DEF CrrInv
<1>4. PICK k \in Nat : crr.srt = s.srt + s.srd * k
  BY <1>3, PickForm
<1>5. srt = k /\ s.srd \in Nat \ {0} /\ s.srt \in Nat
  <2>1. s.srd \in Nat \ {0} /\ s.srt \in Nat
    BY <1>3 DEF Slab
  <2>2. s.srd * k \in Nat /\ (s.srd * k) \div s.srd = k
    BY <2>1, Distribute
  <2>3. crr.srt - s.srt = s.srd * k
    BY <1>4, <2>1, <2>2
  <2>4. QED
    BY <2>1, <2>2, <2>3
<1>6. Held(s, srt, crr.cnt) = CrrHeld
  <2>1. ASSUME NEW j \in 0..(crr.cnt - 1)
        PROVE  s.srt + s.srd * (srt + j) = crr.srt + s.srd * j
    <3>1. s.srd * (k + j) = s.srd * k + s.srd * j
          /\ s.srd * k \in Nat /\ s.srd * j \in Nat
      BY <1>3, <1>5, Distribute
    <3>2. QED
      BY <1>4, <1>5, <3>1
  <2> HIDE DEF s, srt
  <2>2. {s.srt + s.srd * (srt + j) : j \in 0..(crr.cnt - 1)} =
          {crr.srt + s.srd * j : j \in 0..(crr.cnt - 1)}
    BY <2>1
  <2>3. QED
    BY <2>2 DEF Held, CrrHeld, s
<1> HIDE DEF srt
<1>7. /\ n \in Nat /\ DOMAIN reads = 1..Len(reads) /\ Len(reads) \in Nat
      /\ DOMAIN reads' = (DOMAIN reads) \cup {n}
      /\ \A r \in DOMAIN reads : reads'[r] = reads[r]
      /\ reads'[n] = [slb |-> prv_slb, cnt |-> crr.cnt, srt |-> srt]
      /\ reads' \in Seq([slb : DOMAIN lmt_dmn, srt : Int, cnt : Nat])
  <2>1. reads \in Seq([slb : DOMAIN lmt_dmn, srt : Int, cnt : Nat])
    BY DEF MsaTypeOK
  <2>2. [slb |-> prv_slb, cnt |-> crr.cnt, srt |-> srt]
          \in [slb : DOMAIN lmt_dmn, srt : Int, cnt : Nat]
    BY <1>3, <1>5
  <2> DEFINE R == [slb : DOMAIN lmt_dmn, srt : Int, cnt : Nat]
             e == [slb |-> prv_slb, cnt |-> crr.cnt, srt |-> srt]
  <2> HIDE DEF R, e
  <2>3. reads \in Seq(R) /\ e \in R /\ reads' = Append(reads, e)
    BY <1>2, <2>1, <2>2 DEF R, e
  <2>4. /\ DOMAIN reads = 1..Len(reads) /\ Len(reads) \in Nat
        /\ reads' \in Seq(R) /\ Len(reads') = Len(reads) + 1
        /\ \A r \in 1..Len(reads) : reads'[r] = reads[r]
        /\ reads'[Len(reads) + 1] = e
    BY <2>3
  <2>5. DOMAIN reads' = 1..(Len(reads) + 1)
    BY <2>4, SeqOver, Zenon
  <2>6. QED
    BY <2>4, <2>5 DEF R, e
<1> HIDE DEF n, s
<1>8. \A r \in DOMAIN reads : HeldBy(r)' = HeldBy(r)
  BY <1>2, <1>7 DEF HeldBy
<1>9. \A r \in {n} : HeldBy(r)' = CrrHeld
  BY <1>2, <1>6, <1>7 DEF HeldBy, s
<1>10. CrrHeld' = {}
  BY <1>2 DEF CrrHeld, NoSlab
<1>11. Taken' = Taken
  <2>1. (UNION {HeldBy(r) : r \in DOMAIN reads})' =
          (UNION {HeldBy(r) : r \in DOMAIN reads}) \cup CrrHeld
    BY <1>7, <1>8, <1>9
  <2>2. QED
    BY <1>10, <2>1 DEF Taken
<1>12. IndicesInv' /\ CrrInv'
  <2>1. \A i, x : Passed(i, x)' <=> Passed(i, x)
    BY <1>2 DEF Passed
  <2>2. IndicesInv'
    BY <1>1, <1>2, <2>1 DEF IndicesInv
  <2>3. QED
    BY <1>2, <2>2 DEF CrrInv
<1>13. TakenInv'
  <2>1. MergeAscending'
    <3>1. SUFFICES ASSUME Merges, NEW q \in DOMAIN reads', NEW r \in DOMAIN reads',
                          q < r, NEW x \in HeldBy(q)', NEW y \in HeldBy(r)'
                   PROVE  x < y
      BY <1>2 DEF MergeAscending, Merges
    <3>2. q \in DOMAIN reads
      BY <1>7, <3>1 DEF n
    <3>3. CASE r \in DOMAIN reads
      BY <1>1, <1>8, <3>1, <3>2, <3>3 DEF TakenInv, MergeAscending
    <3>4. CASE r = n
      BY <1>1, <1>8, <1>9, <3>1, <3>2, <3>4 DEF TakenInv
    <3>5. QED
      BY <1>7, <3>3, <3>4
  <2>2. Taken' = {x \in All' : \A i \in DOMAIN lmt_dmn : Passed(i, x)'}
    BY <1>1, <1>2, <1>11 DEF TakenInv, All, Passed
  <2>3. QED
    BY <1>2, <1>10, <2>1, <2>2 DEF TakenInv
<1>14. QED
  BY <1>7, <1>12, <1>13

\* The end of the loop: nothing is left, so everything is taken.
LEMMA FinishStep ==
  ASSUME MsaTypeOK, MergeInv, Finish
  PROVE  MergeInv'
<1>1. /\ phase = "merge" /\ Mnm(indices) = {} /\ phase' = "print"
      /\ IndicesInv /\ TakenInv
  BY DEF Finish, MergeInv
<1>2. /\ lmt_dmn' = lmt_dmn /\ reads' = reads /\ crr' = crr /\ prv_slb' = prv_slb
      /\ WRP' = WRP /\ MSA_USR_RDR' = MSA_USR_RDR
  BY DEF Finish, prep, slabs
<1>3. \A i \in DOMAIN lmt_dmn : indices[i] = -1
  BY <1>1, MsaTypes, NoneLeft
<1>4. Taken = All
  BY <1>1, <1>3 DEF TakenInv, Passed
<1>5. \A r \in DOMAIN reads : HeldBy(r)' = HeldBy(r)
  BY <1>2 DEF HeldBy
<1>6. Taken' = Taken /\ All' = All
  BY <1>2, <1>5 DEF Taken, All, CrrHeld
<1>7. MergeAscending'
  BY <1>1, <1>2, <1>5 DEF TakenInv, MergeAscending, Merges
<1>8. QED
  BY <1>1, <1>4, <1>6, <1>7 DEF MergeInv, MergeDelivers

\* Counting ends: the merge starts afresh, with nothing passed or taken.
LEMMA CountStep ==
  ASSUME MsaTypeOK, MergeInv, CountSum \/ CountEnd
  PROVE  MergeInv'
<1>1. /\ phase = "count" /\ phase' = Read
      /\ reads = <<>> /\ crr = NoSlab /\ prv_slb = 1
      /\ reads' = reads /\ crr' = crr /\ prv_slb' = prv_slb
      /\ lmt_dmn' = lmt_dmn /\ WRP' = WRP /\ MSA_USR_RDR' = MSA_USR_RDR
      /\ lmt_dmn # <<>> /\ lmt_dmn \in Seq(Slab)
  BY DEF CountSum, CountEnd, slabs, MergeInv, MsaTypeOK
<1>2. phase' \in {"copy", "merge"} /\ (phase' = "merge" <=> Merges') /\ Merges' = Merges
  <2>1. Len(lmt_dmn) \in Nat /\ Len(lmt_dmn) # 0
    BY <1>1
  <2>2. Merges' = Merges
    BY <1>1 DEF Merges
  <2>3. Read = "copy" \/ Read = "merge"
    BY DEF Read
  <2>4. Read = "merge" <=> Merges
    <3>1. Len(lmt_dmn) # 1 <=> Len(lmt_dmn) > 1
      <4>1. \A n \in Nat : n # 0 => (n # 1 <=> n > 1)
        OBVIOUS
      <4>2. QED
        BY <2>1, <4>1, Zenon
    <3>2. QED
      BY <3>1 DEF Read, Merges
  <2>5. QED
    BY <1>1, <2>2, <2>3, <2>4
<1>3. Merges => indices' = Start(lmt_dmn)
  <2>1. Len(lmt_dmn) \in Nat
    BY <1>1
  <2>2. CASE CountEnd
    BY <2>2 DEF CountEnd
  <2>3. CASE CountSum
    <3>1. \A n \in Nat : n > 1 => n # 1
      OBVIOUS
    <3>2. Len(lmt_dmn) = 1 \/ MSA_USR_RDR
      BY <2>3 DEF CountSum
    <3>3. ~Merges
      BY <2>1, <3>1, <3>2, Zenon DEF Merges
    <3>4. QED
      BY <3>3
  <2>4. QED
    BY <2>2, <2>3
<1>4. CASE phase' = "copy"
  BY <1>1, <1>2, <1>4 DEF MergeInv, MergeDelivers
<1>5. CASE phase' = "merge"
  <2>1. indices' = Start(lmt_dmn) /\ Merges'
    BY <1>2, <1>3, <1>5
  <2>2. /\ OnSlabs(lmt_dmn, indices')
        /\ \A i \in DOMAIN lmt_dmn : \A x \in Picks(lmt_dmn[i]) : ~Passed(i, x)'
    BY <1>1, <2>1, StartFacts DEF Passed, Gone
  <2>3. IndicesInv'
    BY <1>1, <2>2 DEF IndicesInv, OnSlabs
  <2>4. Taken' = {} /\ MergeAscending' /\ DOMAIN reads' = {}
    <3>1. DOMAIN reads' = {}
      BY <1>1
    <3>2. CrrHeld' = {}
      BY <1>1 DEF CrrHeld, NoSlab
    <3>3. QED
      BY <3>1, <3>2 DEF Taken, MergeAscending
  <2>5. {x \in All' : \A i \in DOMAIN lmt_dmn : Passed(i, x)'} = {}
    BY <1>1, <2>2 DEF All
  <2>6. TakenInv'
    BY <1>1, <2>4, <2>5 DEF TakenInv
  <2>7. CrrInv'
    BY <1>1 DEF CrrInv
  <2>8. QED
    BY <1>5, <2>1, <2>3, <2>6, <2>7 DEF MergeInv, MergeDelivers
<1>6. QED
  BY <1>2, <1>4, <1>5

\* What the merge depends on.
MergeState == <<lmt_dmn, WRP, MSA_USR_RDR, crr, prv_slb, reads>>

LEMMA MergeKept ==
  ASSUME UNCHANGED MergeState
  PROVE  /\ Merges' = Merges /\ MergeAscending' = MergeAscending
         /\ Taken' = Taken /\ All' = All
<1>1. \A r \in DOMAIN reads : HeldBy(r)' = HeldBy(r)
  BY DEF MergeState, HeldBy
<1>2. Merges' = Merges /\ All' = All /\ CrrHeld' = CrrHeld
  BY DEF MergeState, Merges, All, CrrHeld
<1>3. MergeAscending' = MergeAscending
  BY <1>1, <1>2 DEF MergeState, MergeAscending
<1>4. Taken' = Taken
  BY <1>1, <1>2 DEF MergeState, Taken
<1>5. QED
  BY <1>2, <1>3, <1>4

LEMMA InvStep ==
  ASSUME MsaTypeOK, MergeInv, [Next]_vars
  PROVE  MergeInv'
<1>1. CASE Prepare
  BY <1>1 DEF Prepare, MergeInv, MergeDelivers
<1>2. CASE GiveUp
  <2>1. DOMAIN reads' = {}
    BY <1>2 DEF GiveUp, MergeInv
  <2>2. QED
    BY <1>2, <2>1 DEF GiveUp, MergeInv, MergeDelivers, MergeAscending
<1>3. CASE CountSum \/ CountEnd
  BY <1>3, CountStep
<1>4. CASE CountMin
  BY <1>4 DEF CountMin, MergeInv, MergeDelivers
<1>5. CASE ReadError
  <2>1. UNCHANGED MergeState /\ phase' = "exit" /\ phase \in {"copy", "merge"}
    BY <1>5 DEF ReadError, prep, slabs, MergeState
  <2>2. MergeAscending
    <3>1. CASE phase = "copy"
      BY <3>1 DEF MergeInv, MergeAscending
    <3>2. CASE phase = "merge"
      BY <3>2 DEF MergeInv, TakenInv
    <3>3. QED
      BY <2>1, <3>1, <3>2
  <2>3. QED
    BY <2>1, <2>2, MergeKept DEF MergeInv, MergeDelivers
<1>6. CASE Copy
  <2>1. ~Merges' /\ phase' = "print"
    BY <1>6 DEF Copy, MergeInv, prep, slabs, Merges
  <2>2. QED
    BY <2>1 DEF MergeInv, MergeDelivers, MergeAscending
<1>7. CASE Collect
  <2>1. phase' = phase /\ phase = "merge" /\ Merges' = Merges
    BY <1>7 DEF Collect, prep, slabs, Merges
  <2>2. QED
    BY <1>7, <2>1, CollectStep DEF MergeInv, MergeDelivers
<1>8. CASE Return
  <2>1. phase' = phase /\ phase = "merge" /\ Merges' = Merges
    BY <1>8 DEF Return, prep, slabs, Merges
  <2>2. QED
    BY <1>8, <2>1, ReturnStep DEF MergeInv, MergeDelivers
<1>9. CASE Finish
  BY <1>9, FinishStep
<1>10. CASE PrnIdx \/ Close \/ UNCHANGED vars
  <2>1. UNCHANGED MergeState
    BY <1>10 DEF PrnIdx, Close, vars, prep, slabs, MergeState
  <2>2. CASE PrnIdx \/ Close
    <3>1. phase = "print" /\ phase' \in {"print", "done"}
      BY <2>2 DEF PrnIdx, Close
    <3>2. QED
      BY <2>1, <3>1, MergeKept DEF MergeInv, MergeDelivers
  <2>3. CASE UNCHANGED vars
    <3>1. phase' = phase /\ indices' = indices
      BY <2>3 DEF vars
    <3>2. CrrHeld' = CrrHeld /\ \A r \in DOMAIN reads : HeldBy(r)' = HeldBy(r)
      BY <2>1 DEF MergeState, CrrHeld, HeldBy
    <3>3. IndicesInv' = IndicesInv /\ CrrInv' = CrrInv
      BY <2>1, <3>1 DEF MergeState, IndicesInv, Passed, CrrInv
    <3>4. TakenInv' = TakenInv
      BY <2>1, <3>1, <3>2, MergeKept DEF MergeState, TakenInv, Passed
    <3>5. MergeDelivers' = MergeDelivers
      BY <2>1, <3>1, MergeKept DEF MergeDelivers
    <3>6. QED
      BY <2>1, <3>1, <3>3, <3>4, <3>5, MergeKept DEF MergeState, MergeInv
  <2>4. QED
    BY <1>10, <2>2, <2>3
<1>11. QED
  BY <1>1, <1>2, <1>3, <1>4, <1>5, <1>6, <1>7, <1>8, <1>9, <1>10
     DEF Next, Work, Stop

-----------------------------------------------------------------------------
(* Types.                                                                  *)

LEMMA MinIdxType ==
  ASSUME NEW ind, IsIndices(ind)
  PROVE  MinIdx(ind) \in Nat \cup {-1}
<1>1. CASE Mnm(ind) # {}
  BY <1>1, MinIdxFacts
<1>2. CASE Mnm(ind) = {}
  BY <1>2, NoneLeft DEF MinIdx
<1>3. QED
  BY <1>1, <1>2

LEMMA SeqIntro ==
  ASSUME NEW S, NEW n \in Nat, NEW s \in [1..n -> S]
  PROVE  s \in Seq(S)
OBVIOUS

LEMMA AppendType ==
  ASSUME NEW S, NEW s \in Seq(S), NEW e \in S
  PROVE  Append(s, e) \in Seq(S)
OBVIOUS

\* An index that moves on within its slab.
LEMMA MoveType ==
  ASSUME NEW ind, IsIndices(ind), NEW i \in DOMAIN ind, NEW d \in Nat \ {0}
  PROVE  LET nxt == [ind EXCEPT ![i] = @ + d]
         IN  IsIndices(nxt) /\ Len(nxt) = Len(ind)
<1> DEFINE nxt == [ind EXCEPT ![i] = @ + d]
<1>1. DOMAIN ind = 1..Len(ind) /\ Len(ind) \in Nat
  BY SeqElements
<1>2. ASSUME NEW j \in 1..Len(ind) PROVE nxt[j] \in Nat \cup {-1}
  BY <1>1, SeqElements
<1>3. nxt = [j \in 1..Len(ind) |-> nxt[j]]
  BY <1>1
<1>4. nxt \in [1..Len(ind) -> Nat \cup {-1}]
  BY <1>2, <1>3, Zenon
<1> HIDE DEF nxt
<1>5. nxt \in Seq(Nat \cup {-1}) /\ Len(nxt) = Len(ind)
  BY <1>1, <1>4
<1>6. QED
  BY <1>5 DEF IsIndices, nxt

LEMMA TypeStep ==
  ASSUME MsaTypeOK, MergeInv, [Next]_vars
  PROVE  MsaTypeOK'
<1> USE DEF MsaTypeOK
<1>1. CASE Prepare
  <2>1. indices' \in Seq(Nat \cup {-1}) /\ Len(indices') = Len(lmt_dmn')
    <3>1. lmt_dmn' \in Seq(Slab) /\ indices' = Start(lmt_dmn')
      BY <1>1 DEF Prepare
    <3>2. QED
      BY <3>1, StartFacts DEF OnSlabs, IsIndices
  <2>2. reads' = <<>>
    BY <1>1 DEF Prepare, MergeInv
  <2>3. reads' \in Seq([slb : DOMAIN lmt_dmn', srt : Int, cnt : Nat])
    BY <2>2
  <2>4. /\ lmt_dmn' \in Seq(Slab) /\ lmt_dmn' # <<>> /\ phase' = "count"
        /\ WRP' \in BOOLEAN /\ (WRP' => Len(lmt_dmn') = 2) /\ MSA_USR_RDR' \in BOOLEAN
        /\ dmn_sz_org' = dmn_sz_org /\ printed' = printed
        /\ crr' = crr /\ prv_slb' = prv_slb
    BY <1>1 DEF Prepare
  <2>5. QED
    BY <2>1, <2>3, <2>4
<1>2. CASE GiveUp
  BY <1>2 DEF GiveUp, prep, slabs
<1>3. CASE CountSum
  BY <1>3 DEF CountSum, slabs, Read
<1>4. CASE CountMin
  <2>1. indices' \in Seq(Nat \cup {-1}) /\ Len(indices') = Len(lmt_dmn)
    BY <1>4, AdvanceType DEF CountMin, IsIndices
  <2>2. QED
    BY <1>4, <2>1 DEF CountMin, slabs
<1>5. CASE CountEnd \/ Finish
  <2>1. indices' \in Seq(Nat \cup {-1}) /\ Len(indices') = Len(lmt_dmn)
    BY <1>5, StartFacts DEF CountEnd, Finish, OnSlabs, IsIndices
  <2>2. /\ UNCHANGED <<slabs, crr, prv_slb, reads, printed>>
        /\ phase' \in {"copy", "merge", "print"} /\ lmt_dmn # <<>>
    BY <1>5 DEF CountEnd, Finish, prep, slabs, Read
  <2>3. QED
    BY <2>1, <2>2 DEF slabs
<1>6. CASE ReadError
  BY <1>6 DEF ReadError, prep, slabs
<1>7. CASE Copy
  <2> DEFINE R == [slb : DOMAIN lmt_dmn, srt : Int, cnt : Nat]
             piece(i) == [slb |-> i, srt |-> 0, cnt |-> lmt_dmn[i].cnt]
  <2>1. reads' = [i \in 1..Len(lmt_dmn) |-> piece(i)] /\ Len(lmt_dmn) \in Nat
    BY <1>7 DEF Copy
  <2>2. \A i \in 1..Len(lmt_dmn) : piece(i) \in R
    <3>1. ASSUME NEW i \in 1..Len(lmt_dmn) PROVE lmt_dmn[i].cnt \in Nat /\ i \in DOMAIN lmt_dmn
      BY MsaTypes DEF Slab
    <3>2. QED
      BY <3>1
  <2> HIDE DEF R, piece
  <2>3. reads' \in [1..Len(lmt_dmn) -> R]
    BY <2>1, <2>2
  <2>4. reads' \in Seq(R)
    BY <2>1, <2>3, SeqIntro, Zenon
  <2>5. indices' \in Seq(Nat \cup {-1}) /\ Len(indices') = Len(lmt_dmn)
    BY <1>7, StartFacts DEF Copy, OnSlabs, IsIndices
  <2>6. /\ UNCHANGED <<slabs, crr, prv_slb, printed>>
        /\ phase' = "print" /\ lmt_dmn # <<>>
    BY <1>7 DEF Copy, prep, slabs
  <2>7. reads' \in Seq([slb : DOMAIN lmt_dmn', srt : Int, cnt : Nat])
    BY <2>4, <2>6 DEF R, slabs
  <2>8. QED
    BY <2>5, <2>6, <2>7 DEF slabs
<1>8. CASE Collect
  <2>1. indices' \in Seq(Nat \cup {-1}) /\ Len(indices') = Len(lmt_dmn)
    BY <1>8, AdvanceType DEF Collect, IsIndices
  <2>2. prv_slb' \in Nat /\ MinIdx(indices) \in Nat
    BY <1>8, CrrSlbFacts, MinIdxFacts DEF Collect, IsIndices
  <2>3. crr' \in [srt : Int, end : Int, cnt : Nat]
    BY <1>8, <2>2 DEF Collect
  <2>4. QED
    BY <1>8, <2>1, <2>2, <2>3 DEF Collect, prep, slabs
<1>9. CASE Return
  <2>1. reads' \in Seq([slb : DOMAIN lmt_dmn, srt : Int, cnt : Nat])
    BY <1>9, ReturnStep
  <2>2. QED
    BY <1>9, <2>1 DEF Return, prep, slabs, NoSlab
<1>10. CASE PrnIdx
  <2>1. /\ indices' \in Seq(Nat \cup {-1}) /\ Len(indices') = Len(lmt_dmn)
        /\ printed' \in Seq(Nat \cup {-1})
    <3>1. IsIndices(indices) /\ Len(indices) = Len(lmt_dmn)
      BY <1>10 DEF PrnIdx, IsIndices
    <3>2. CASE WRP
      <4>1. PICK i \in {1, 2} : /\ indices' = [indices EXCEPT ![i] = @ + lmt_dmn[i].srd]
                                /\ printed' = Append(printed, indices[i])
        BY <1>10, <3>2 DEF PrnIdx
      <4>2. i \in DOMAIN indices /\ i \in DOMAIN lmt_dmn
        <5>1. Len(lmt_dmn) = 2 /\ DOMAIN lmt_dmn = 1..Len(lmt_dmn)
          BY <3>2, MsaTypes
        <5>2. DOMAIN indices = 1..Len(indices)
          BY <3>1, SeqElements
        <5>3. i \in 1..2
          OBVIOUS
        <5>4. QED
          BY <3>1, <5>1, <5>2, <5>3, Zenon
      <4>3. lmt_dmn[i].srd \in Nat \ {0}
        BY <4>2, MsaTypes DEF Slab
      <4>4. indices[i] \in Nat \cup {-1}
        BY <3>1, <4>2, SeqElements
      <4>5. IsIndices(indices') /\ Len(indices') = Len(indices)
        BY <3>1, <4>1, <4>2, <4>3, MoveType, Zenon
      <4>6. printed' \in Seq(Nat \cup {-1})
        BY <4>1, <4>4, AppendType
      <4>7. QED
        BY <3>1, <4>5, <4>6 DEF IsIndices
    <3>3. CASE ~WRP
      <4>1. /\ indices' = Advance(lmt_dmn, indices)
            /\ printed' = Append(printed, MinIdx(indices))
        BY <1>10, <3>3 DEF PrnIdx
      <4>2. printed' \in Seq(Nat \cup {-1})
        BY <3>1, <4>1, MinIdxType, AppendType
      <4>3. QED
        BY <3>1, <4>1, <4>2, AdvanceType DEF IsIndices
    <3>4. QED
      BY <3>2, <3>3
  <2>2. QED
    BY <1>10, <2>1 DEF PrnIdx, prep, slabs
<1>11. CASE Close
  BY <1>11 DEF Close, prep, slabs
<1>12. CASE UNCHANGED vars
  BY <1>12 DEF vars, prep, slabs
<1>13. QED
  BY <1>1, <1>2, <1>3, <1>4, <1>5, <1>6, <1>7, <1>8, <1>9, <1>10, <1>11, <1>12
     DEF Next, Work, Stop

-----------------------------------------------------------------------------
(* The theorems.                                                           *)

LEMMA MsaInit == Init => MsaInv
<1>1. ASSUME Init PROVE MsaTypeOK
  <2>1. \A S : <<>> \in Seq(S)
    OBVIOUS
  <2>2. /\ lmt_dmn \in Seq(Slab) /\ indices \in Seq(Nat \cup {-1})
        /\ printed \in Seq(Nat \cup {-1})
        /\ reads \in Seq([slb : DOMAIN lmt_dmn, srt : Int, cnt : Nat])
    BY <1>1, <2>1, Zenon DEF Init
  <2>3. crr \in [srt : Int, end : Int, cnt : Nat] /\ prv_slb \in Nat
    BY <1>1 DEF Init, NoSlab
  <2>4. /\ dmn_sz_org \in Nat \ {0} /\ phase = "evl"
        /\ WRP = FALSE /\ MSA_USR_RDR = FALSE
    BY <1>1 DEF Init
  <2>5. QED
    BY <2>2, <2>3, <2>4 DEF MsaTypeOK
<1>2. ASSUME Init PROVE MergeInv
  BY <1>2 DEF Init, MergeInv, MergeDelivers
<1>3. QED
  BY <1>1, <1>2 DEF MsaInv

LEMMA MsaInvariant == Spec => []MsaInv
<1>1. MsaInv /\ [Next]_vars => MsaInv'
  BY InvStep, TypeStep DEF MsaInv
<1>2. QED
  BY <1>1, MsaInit, PTL DEF Spec

\* The types of the state of the algorithm, for any list of slabs.
THEOREM MsaTypeCorrect == Spec => []MsaTypeOK
<1>1. MsaInv => MsaTypeOK
  BY DEF MsaInv
<1>2. QED
  BY <1>1, MsaInvariant, PTL

\* When nco_msa_clc_idx() has nothing left to return, the hyperslabs it has
\* returned hold exactly the elements that some slab of the list selects.
THEOREM MergeDeliversAll == Spec => []MergeDelivers
<1>1. MsaInv => MergeDelivers
  BY DEF MsaInv, MergeInv
<1>2. QED
  BY <1>1, MsaInvariant, PTL

\* The hyperslabs it returns are in ascending order and share no element.
THEOREM MergeAscends == Spec => []MergeAscending
<1>1. MsaInv => MergeAscending
  <2>1. ASSUME phase \in {"evl", "count", "copy"}, MergeInv PROVE MergeAscending
    BY <2>1 DEF MergeInv, MergeAscending
  <2>2. ASSUME phase \notin {"evl", "count", "copy"}, MergeInv PROVE MergeAscending
    BY <2>2 DEF MergeInv, TakenInv
  <2>3. QED
    BY <2>1, <2>2 DEF MsaInv
<1>2. QED
  BY <1>1, MsaInvariant, PTL

-----------------------------------------------------------------------------
(* Induction over the places of a sequence, and functions defined along it. *)

\* What holds of 0 and goes on holds up to n.
LEMMA Induct ==
  ASSUME NEW n \in Nat, NEW T, 0 \in T, \A i \in 1..n : i - 1 \in T => i \in T
  PROVE  \A i \in 0..n : i \in T
<1> DEFINE bad == {i \in 0..n : i \notin T}
<1>1. CASE bad = {}
  BY <1>1
<1>2. CASE bad # {}
  <2>1. bad \subseteq Nat
    OBVIOUS
  <2>2. PICK x \in bad : \A y \in bad : x <= y
    BY <1>2, <2>1, NatMin
  <2>3. x \in 1..n /\ x - 1 \in 0..n /\ x - 1 \notin bad
    BY <2>2
  <2>4. QED
    BY <2>2, <2>3
<1>3. QED
  BY <1>1, <1>2

\* There is a function that starts with b and goes on with F.
Follows(f, n, b, F) == f[0] = b /\ \A i \in 1..n : f[i] = F[i][f[i - 1]]
LEMMA Recursion ==
  ASSUME NEW n \in Nat, NEW S, NEW b \in S, NEW F \in [1..n -> [S -> S]]
  PROVE  \E f \in [0..n -> S] : Follows(f, n, b, F)
<1> DEFINE Upto(f, m) == f[0] = b /\ \A i \in 1..m : f[i] = F[i][f[i - 1]]
           T == {m \in 0..n : \E f \in [0..n -> S] : Upto(f, m)}
<1>1. 0 \in T
  <2>1. [i \in 0..n |-> b] \in [0..n -> S] /\ Upto([i \in 0..n |-> b], 0)
    OBVIOUS
  <2>2. 0 \in 0..n
    OBVIOUS
  <2>3. QED
    BY <2>1, <2>2, Zenon
<1>2. ASSUME NEW m \in 1..n, m - 1 \in T PROVE m \in T
  <2>1. PICK f \in [0..n -> S] : Upto(f, m - 1)
    BY <1>2
  <2> DEFINE g == [f EXCEPT ![m] = F[m][f[m - 1]]]
  <2>2. f[m - 1] \in S /\ F[m][f[m - 1]] \in S
    OBVIOUS
  <2>3. g \in [0..n -> S]
    BY <2>2
  <2>4. \A i \in 0..n : i # m => g[i] = f[i]
    OBVIOUS
  <2>5. Upto(g, m)
    <3>1. g[0] = b
      BY <2>1, <2>4
    <3>2. ASSUME NEW i \in 1..m PROVE g[i] = F[i][g[i - 1]]
      <4>1. CASE i = m
        BY <2>4, <4>1
      <4>2. CASE i # m
        BY <2>1, <2>4, <4>2
      <4>3. QED
        BY <4>1, <4>2
    <3>3. QED
      BY <3>1, <3>2
  <2>6. m \in 0..n
    OBVIOUS
  <2>7. QED
    BY <2>3, <2>5, <2>6, Zenon
<1>3. n \in T
  <2> HIDE DEF T
  <2>1. \A i \in 0..n : i \in T
    BY <1>1, <1>2, Induct
  <2>2. QED
    BY <2>1
<1>4. QED
  BY <1>3 DEF Follows

-----------------------------------------------------------------------------
(* One limit.                                                              *)

LEMMA Division ==
  ASSUME NEW a \in Nat, NEW b \in Nat \ {0}
  PROVE  a \div b \in Nat /\ b * (a \div b) <= a /\ a < b * (a \div b) + b
OBVIOUS

\* A slab from srt to end, up to the end of a dimension or around it: what
\* cnt says, and the kludge for an empty second half.
LEMMA SlabOfFacts ==
  ASSUME NEW sz \in Nat \ {0}, NEW srt \in 0..(sz - 1), NEW end \in Nat, NEW srd \in Nat \ {0}
  PROVE  LET s == SlabOf(sz, srt, end, srd) IN
         /\ s.srt = srt /\ s.srd = srd /\ s.end \in Nat /\ s.cnt \in Nat \ {0}
         /\ s = [srt |-> srt, end |-> s.end, cnt |-> s.cnt, srd |-> srd]
         /\ srt <= end => /\ s.end = end
                          /\ srt + srd * (s.cnt - 1) <= end /\ end < srt + srd * s.cnt
         /\ srt > end =>
              /\ srt + srd * (s.cnt - 1) <= sz + end /\ sz + end < srt + srd * s.cnt
              /\ s.end = end \/ (s.end = srt + srd * (s.cnt - 1) /\ s.end < sz)
<1> DEFINE wrp == srt > end
           cnt == IF ~wrp THEN 1 + (end - srt) \div srd
                  ELSE IF srd = 1 THEN sz - srt + end + 1
                  ELSE 1 + ((sz - srt) + end) \div srd
           cnt_1 == 1 + (sz - srt - 1) \div srd
           lst == srt + srd * (cnt_1 - 1)
           dgn == srd # 1 /\ wrp /\ cnt = cnt_1 /\ (lst + srd) % sz > end
           s == SlabOf(sz, srt, end, srd)
<1>1. s = [srt |-> srt, end |-> IF dgn THEN lst ELSE end, cnt |-> cnt, srd |-> srd]
  BY DEF SlabOf
<1>2. ~wrp => cnt \in Nat \ {0} /\ srt + srd * (cnt - 1) <= end /\ end < srt + srd * cnt
  <2>1. CASE wrp
    BY <2>1
  <2>2. CASE ~wrp
    <3>1. end - srt \in Nat
      BY <2>2
    <3> DEFINE q == (end - srt) \div srd
    <3>2. q \in Nat /\ srd * q <= end - srt /\ end - srt < srd * q + srd
      BY <3>1, Division
    <3>3. cnt = 1 + q
      BY <2>2
    <3> HIDE DEF q, cnt
    <3>4. srd * (cnt - 1) = srd * q /\ srd * cnt = srd * q + srd
      BY <3>2, <3>3
    <3>5. srd * q \in Int
      BY <3>2
    <3>6. QED
      BY <3>2, <3>3, <3>4, <3>5
  <2>3. QED
    BY <2>1, <2>2
<1>3. wrp => cnt \in Nat \ {0} /\ srt + srd * (cnt - 1) <= sz + end
             /\ sz + end < srt + srd * cnt
  <2>1. CASE ~wrp
    BY <2>1
  <2>2. CASE wrp /\ srd = 1
    <3>1. cnt = sz - srt + end + 1
      BY <2>2
    <3> HIDE DEF cnt
    <3>2. cnt \in Nat \ {0} /\ srd * (cnt - 1) = cnt - 1 /\ srd * cnt = cnt
      BY <2>2, <3>1
    <3>3. QED
      BY <2>2, <3>1, <3>2
  <2>3. CASE wrp /\ srd # 1
    <3>1. (sz - srt) + end \in Nat
      OBVIOUS
    <3> DEFINE q == ((sz - srt) + end) \div srd
    <3>2. q \in Nat /\ srd * q <= (sz - srt) + end /\ (sz - srt) + end < srd * q + srd
      BY <3>1, Division
    <3>3. cnt = 1 + q
      BY <2>3
    <3> HIDE DEF q, cnt
    <3>4. srd * (cnt - 1) = srd * q /\ srd * cnt = srd * q + srd
      BY <3>2, <3>3
    <3>5. srd * q \in Int
      BY <3>2
    <3>6. QED
      BY <3>2, <3>3, <3>4, <3>5
  <2>4. QED
    BY <2>1, <2>2, <2>3
<1>4. cnt_1 \in Nat \ {0} /\ lst \in Nat /\ lst < sz
  <2>1. sz - srt - 1 \in Nat
    OBVIOUS
  <2> DEFINE q == (sz - srt - 1) \div srd
  <2>2. q \in Nat /\ srd * q <= sz - srt - 1
    BY <2>1, Division
  <2>3. cnt_1 = 1 + q /\ lst = srt + srd * q
    BY <2>2
  <2>4. srd * q \in Nat
    BY <2>2
  <2> HIDE DEF q, cnt_1, lst
  <2>5. QED
    BY <2>2, <2>3, <2>4
<1>5. dgn => lst = srt + srd * (cnt - 1)
  OBVIOUS
<1>6. /\ s.srt = srt /\ s.srd = srd /\ s.cnt = cnt
      /\ s.end = IF dgn THEN lst ELSE end
  BY <1>1
<1>7. dgn => wrp
  OBVIOUS
<1> HIDE DEF dgn, lst, cnt_1, cnt, s
<1>8. QED
  BY <1>1, <1>2, <1>3, <1>4, <1>5, <1>6, <1>7 DEF s

LEMMA MinFacts ==
  ASSUME NEW S, S \subseteq Nat, S # {}
  PROVE  Min(S) \in S /\ \A x \in S : Min(S) <= x
BY NatMin DEF Min

LEMMA MaxFacts ==
  ASSUME NEW n \in Nat, NEW S, S \subseteq 0..n, S # {}
  PROVE  Max(S) \in S /\ \A x \in S : x <= Max(S)
<1> DEFINE T == {n - x : x \in S}
<1>1. T \subseteq Nat /\ T # {}
  OBVIOUS
<1>2. PICK t \in T : \A u \in T : t <= u
  BY <1>1, NatMin
<1>3. PICK x \in S : t = n - x
  BY <1>2
<1>4. ASSUME NEW y \in S PROVE y <= x
  <2>1. n - y \in T
    OBVIOUS
  <2>2. t <= n - y
    BY <1>2, <2>1
  <2>3. QED
    BY <1>3, <2>2
<1>5. \E z \in S : \A y \in S : z >= y
  BY <1>4
<1>6. QED
  BY <1>5 DEF Max

LEMMA NearestFacts ==
  ASSUME NEW crd \in Seq(Int), crd # <<>>, NEW val \in Int
  PROVE  Nearest(crd, val) \in 0..(Len(crd) - 1)
<1> DEFINE dst(i) == IF crd[i + 1] < val THEN val - crd[i + 1] ELSE crd[i + 1] - val
           idx == 0 .. Len(crd) - 1
           nearest == {i \in idx : \A j \in idx : dst(i) <= dst(j)}
           D == {dst(i) : i \in idx}
<1>1. \A i \in idx : crd[i + 1] \in Int
  OBVIOUS
<1>2. 0 \in idx /\ idx \subseteq Nat
  OBVIOUS
<1>3. D \subseteq Nat /\ D # {}
  BY <1>1, <1>2
<1>4. PICK d \in D : \A e \in D : d <= e
  BY <1>3, NatMin
<1>5. PICK i \in idx : d = dst(i)
  BY <1>4
<1>6. i \in nearest
  BY <1>4, <1>5
<1>7. nearest \subseteq Nat
  BY <1>2
<1>8. Min(nearest) \in nearest
  BY <1>6, <1>7, MinFacts
<1>9. Nearest(crd, val) = Min(nearest)
  BY DEF Nearest
<1> HIDE DEF dst
<1>10. QED
  BY <1>8, <1>9

\* A limit given by indices is refused, or is a slab within these.
LEMMA EvlIdxForm ==
  ASSUME NEW sz \in Nat \ {0}, NEW p, NEW l, IsLimit(p, l)
  PROVE  \/ EvlIdx(sz, l) = Refused
         \/ \E srt \in 0..(sz - 1), end \in Nat : EvlIdx(sz, l) = SlabOf(sz, srt, end, l.srd)
<1> DEFINE min_idx == IdxOf(sz, l.fort, l.min, 0)
           max_idx == IdxOf(sz, l.fort, l.max, sz - 1)
<1>1. l.min # <<>> => l.min[1] \in Int
  BY DEF IsLimit
<1>2. l.max # <<>> => l.max[1] \in Int
  BY DEF IsLimit
<1>3. min_idx \in Int /\ max_idx \in Int
  BY <1>1, <1>2 DEF IdxOf
<1> HIDE DEF min_idx, max_idx
<1>4. QED
  BY <1>3 DEF EvlIdx, min_idx, max_idx

\* A limit given by values is refused, or is a slab within the dimension.
LEMMA EvlCrdForm ==
  ASSUME NEW crd \in Seq(Int), crd # <<>>, NEW p, NEW l, IsLimit(p, l)
  PROVE  \/ EvlCrd(crd, l) = Refused
         \/ \E srt, end \in 0..(Len(crd) - 1) : EvlCrd(crd, l) = SlabOf(Len(crd), srt, end, l.srd)
<1> DEFINE sz == Len(crd)
           idx == 0 .. sz - 1
           inc == Increasing(crd)
           lo_idx == IF inc THEN 0 ELSE sz - 1
           hi_idx == sz - 1 - lo_idx
           min_val == IF l.min = <<>> THEN crd[lo_idx + 1] ELSE l.min[1]
           max_val == IF l.max = <<>> THEN crd[hi_idx + 1] ELSE l.max[1]
           out_min == min_val > crd[hi_idx + 1]
           out_max == max_val < crd[lo_idx + 1]
           above == {i \in idx : crd[i + 1] >= min_val}
           below == {i \in idx : crd[i + 1] <= max_val}
           brk_min == IF l.min = <<>> THEN lo_idx
                      ELSE IF inc THEN MinOr(above, -1) ELSE MaxOr(above, -1)
           brk_max == IF l.max = <<>> THEN hi_idx
                      ELSE IF inc THEN MaxOr(below, -1) ELSE MinOr(below, -1)
           found == brk_min # -1 /\ brk_max # -1
           no_data == found /\ IF inc THEN min_val < max_val /\ brk_min > brk_max
                                      ELSE min_val > max_val /\ brk_min < brk_max
           wrapped == min_val > max_val
           min_idx == IF min_val = max_val THEN Nearest(crd, min_val)
                      ELSE IF brk_min = -1 /\ wrapped THEN 0 ELSE brk_min
           max_idx == IF min_val = max_val THEN min_idx
                      ELSE IF brk_max = -1 /\ wrapped THEN sz - 1 ELSE brk_max
           refuses == \/ min_val < max_val /\ (out_min \/ out_max)
                      \/ wrapped /\ out_min /\ out_max
                      \/ min_val # max_val /\ no_data
<1>1. EvlCrd(crd, l) =
        IF refuses THEN Refused
        ELSE IF inc THEN SlabOf(sz, min_idx, max_idx, l.srd)
        ELSE SlabOf(sz, max_idx, min_idx, l.srd)
  BY DEF EvlCrd
<1>2. /\ sz \in Nat \ {0} /\ lo_idx \in idx /\ hi_idx \in idx /\ idx \subseteq Nat
      /\ \A i \in idx : crd[i + 1] \in Int
  OBVIOUS
<1>3. min_val \in Int /\ max_val \in Int
  <2>1. l.min # <<>> => l.min[1] \in Int
    BY DEF IsLimit
  <2>2. l.max # <<>> => l.max[1] \in Int
    BY DEF IsLimit
  <2>3. QED
    BY <1>2, <2>1, <2>2
<1>4. crd[hi_idx + 1] \in Int /\ crd[lo_idx + 1] \in Int
  BY <1>2
<1>5. ~out_min => hi_idx \in above
  BY <1>2, <1>3, <1>4
<1>6. ~out_max => lo_idx \in below
  BY <1>2, <1>3, <1>4
<1> HIDE DEF lo_idx, hi_idx, min_val, max_val, out_min, out_max, above, below
<1>7. above \subseteq idx /\ below \subseteq idx
  BY DEF above, below
<1>8. brk_min \in idx \/ (brk_min = -1 /\ above = {})
  <2>1. CASE above = {}
    BY <1>2, <2>1 DEF MinOr, MaxOr
  <2>2. CASE above # {}
    <3>1. Min(above) \in above
      BY <1>2, <1>7, <2>2, MinFacts
    <3>2. Max(above) \in above
      <4>1. sz - 1 \in Nat /\ above \subseteq 0..(sz - 1)
        BY <1>2, <1>7
      <4>2. QED
        BY <2>2, <4>1, MaxFacts, Zenon
    <3>3. QED
      BY <1>2, <1>7, <2>2, <3>1, <3>2 DEF MinOr, MaxOr
  <2>3. QED
    BY <2>1, <2>2
<1>9. brk_max \in idx \/ (brk_max = -1 /\ below = {})
  <2>1. CASE below = {}
    BY <1>2, <2>1 DEF MinOr, MaxOr
  <2>2. CASE below # {}
    <3>1. Min(below) \in below
      BY <1>2, <1>7, <2>2, MinFacts
    <3>2. Max(below) \in below
      <4>1. sz - 1 \in Nat /\ below \subseteq 0..(sz - 1)
        BY <1>2, <1>7
      <4>2. QED
        BY <2>2, <4>1, MaxFacts, Zenon
    <3>3. QED
      BY <1>2, <1>7, <2>2, <3>1, <3>2 DEF MinOr, MaxOr
  <2>3. QED
    BY <2>1, <2>2
<1>10. Nearest(crd, min_val) \in idx
  BY <1>3, NearestFacts
<1> HIDE DEF brk_min, brk_max, no_data, inc
<1>11. ASSUME ~refuses PROVE min_idx \in idx /\ max_idx \in idx
  <2>1. CASE min_val = max_val
    BY <1>10, <2>1
  <2>2. CASE min_val < max_val
    <3>1. ~out_min /\ ~out_max
      BY <1>11, <2>2
    <3>2. brk_min \in idx /\ brk_max \in idx
      BY <1>5, <1>6, <1>8, <1>9, <3>1
    <3>3. min_val # max_val /\ ~(min_val > max_val)
      BY <1>3, <2>2
    <3>4. QED
      BY <3>2, <3>3
  <2>3. CASE min_val > max_val
    <3>1. 0 \in idx /\ sz - 1 \in idx /\ min_val # max_val
      BY <1>2, <1>3, <2>3
    <3>2. QED
      BY <1>8, <1>9, <2>3, <3>1
  <2>4. QED
    BY <1>3, <2>1, <2>2, <2>3
<1> HIDE DEF refuses, min_idx, max_idx
<1>12. QED
  BY <1>1, <1>11

-----------------------------------------------------------------------------
(* Splitting.                                                              *)

LEMMA CntFirstType ==
  ASSUME NEW sz \in Nat \ {0}, NEW s \in Slab
  PROVE  CntFirst(sz, s) \in 0..s.cnt
<1> DEFINE S == {j \in 0..(s.cnt - 1) : (s.srt + s.srd * j) % sz < s.srt}
<1>1. s.cnt \in Nat
  BY DEF Slab
<1>2. CntFirst(sz, s) = IF S = {} THEN s.cnt ELSE Min(S)
  BY DEF CntFirst, MinOr
<1>4. S \subseteq 0..(s.cnt - 1)
  BY Zenon
<1> HIDE DEF S
<1>3. CASE S = {}
  BY <1>1, <1>2, <1>3
<1> HIDE DEF CntFirst
<1>5. CASE S # {}
  <2>1. S \subseteq Nat
    BY <1>4
  <2>2. Min(S) \in S
    BY <1>5, <2>1, MinFacts, Zenon
  <2>3. Min(S) \in 0..(s.cnt - 1) /\ CntFirst(sz, s) = Min(S)
    BY <1>2, <1>4, <1>5, <2>2
  <2>4. QED
    BY <1>1, <2>3
<1>6. QED
  BY <1>3, <1>5

LEMMA PieceType ==
  ASSUME NEW srt \in Nat, NEW cnt \in Nat, NEW srd \in Nat \ {0}
  PROVE  Piece(srt, cnt, srd) \in Slab
BY DEF Piece, Slab

LEMMA HalvesType ==
  ASSUME NEW sz \in Nat \ {0}, NEW s \in Slab
  PROVE  First(sz, s) \in Slab /\ Second(sz, s) \in Slab
<1> DEFINE n == CntFirst(sz, s)
           j == IF n < s.cnt THEN n ELSE n - 1
<1>1. s.srt \in Nat /\ s.cnt \in Nat /\ s.srd \in Nat \ {0}
  BY DEF Slab
<1>2. n \in Nat /\ s.cnt - n \in Nat
  BY <1>1, CntFirstType
<1>3. First(sz, s) = Piece(s.srt, n, s.srd)
  BY DEF First
<1>4. Second(sz, s) = Piece((s.srt + s.srd * j) % sz, s.cnt - n, s.srd)
  BY DEF Second
<1> HIDE DEF n
<1>5. s.srt + s.srd * j \in Int
  BY <1>1, <1>2
<1>6. (s.srt + s.srd * j) % sz \in Nat
  BY <1>5
<1>7. QED
  BY <1>1, <1>2, <1>3, <1>4, <1>6, PieceType

\* Second halves are collected in the order of their slabs.
Halves(sz, lmt) ==
  CHOOSE h : h = [i \in 0..Len(lmt) |->
                    IF i = 0 THEN <<>>
                    ELSE IF Wraps(lmt[i]) THEN Append(h[i - 1], Second(sz, lmt[i]))
                    ELSE h[i - 1]]

LEMMA HalvesFacts ==
  ASSUME NEW sz \in Nat \ {0}, NEW lmt \in Seq(Slab)
  PROVE  LET h == Halves(sz, lmt) IN
         /\ h[0] = <<>> /\ \A i \in 0..Len(lmt) : h[i] \in Seq(Slab)
         /\ \A i \in 1..Len(lmt) :
              /\ Wraps(lmt[i]) => h[i] = Append(h[i - 1], Second(sz, lmt[i]))
              /\ ~Wraps(lmt[i]) => h[i] = h[i - 1]
<1> DEFINE n == Len(lmt)
           Nxt(i, x) == IF Wraps(lmt[i]) THEN Append(x, Second(sz, lmt[i])) ELSE x
           F == [i \in 1..n |-> [x \in Seq(Slab) |-> Nxt(i, x)]]
           Is(h) == h = [i \in 0..n |-> IF i = 0 THEN <<>> ELSE Nxt(i, h[i - 1])]
<1>1. n \in Nat /\ \A i \in 1..n : lmt[i] \in Slab
  OBVIOUS
<1>2. ASSUME NEW i \in 1..n, NEW x \in Seq(Slab) PROVE Nxt(i, x) \in Seq(Slab)
  <2>1. Second(sz, lmt[i]) \in Slab
    BY <1>1, HalvesType
  <2>2. QED
    BY <2>1
<1>3. F \in [1..n -> [Seq(Slab) -> Seq(Slab)]]
  BY <1>2
<1>4. <<>> \in Seq(Slab)
  OBVIOUS
<1> HIDE DEF Nxt
<1>5. \E f \in [0..n -> Seq(Slab)] : Follows(f, n, <<>>, F)
  <2> DEFINE S == Seq(Slab)
             b == <<>>
  <2>1. n \in Nat /\ b \in S /\ F \in [1..n -> [S -> S]]
    BY <1>1, <1>3, <1>4
  <2> HIDE DEF F, n, S, b
  <2>2. \E f \in [0..n -> S] : Follows(f, n, b, F)
    BY <2>1, Recursion, SMT
  <2>3. QED
    BY <2>2, Zenon DEF S, b
<1>6. PICK f \in [0..n -> Seq(Slab)] : f[0] = <<>> /\ \A i \in 1..n : f[i] = F[i][f[i - 1]]
  BY <1>5, Zenon DEF Follows
<1>7. ASSUME NEW i \in 1..n PROVE f[i - 1] \in Seq(Slab) /\ f[i] = Nxt(i, f[i - 1])
  <2>1. i - 1 \in 0..n
    BY <1>1
  <2>2. f[i - 1] \in Seq(Slab)
    BY <1>6, <2>1
  <2>3. F[i][f[i - 1]] = Nxt(i, f[i - 1])
    BY <2>2
  <2>4. QED
    BY <1>6, <2>2, <2>3, Zenon
<1>8. Is(f)
  BY <1>1, <1>6, <1>7
<1>9. Halves(sz, lmt) = CHOOSE h : Is(h)
  BY DEF Halves, Nxt
<1> DEFINE h == Halves(sz, lmt)
<1>10. Is(h)
  <2> HIDE DEF Is
  <2>1. QED
    BY <1>8, <1>9
<1> HIDE DEF h
<1>11. h[0] = <<>> /\ \A i \in 1..n : h[i] = Nxt(i, h[i - 1])
  BY <1>1, <1>10
<1> DEFINE T == {i \in 0..n : h[i] \in Seq(Slab)}
<1>12. 0 \in T
  <2>1. 0 \in 0..n
    BY <1>1
  <2>2. QED
    BY <1>4, <1>11, <2>1, Zenon
<1>13. ASSUME NEW i \in 1..n, i - 1 \in T PROVE i \in T
  BY <1>2, <1>11, <1>13
<1>14. \A i \in 0..n : i \in T
  <2> HIDE DEF T
  <2>1. QED
    BY <1>1, <1>12, <1>13, Induct
<1>15. QED
  BY <1>11, <1>14 DEF h, Nxt

\* nco_msa_wrp_splt_cpy() makes slabs of slabs.
LEMMA WrpSpltCpyType ==
  ASSUME NEW sz \in Nat \ {0}, NEW lmt \in Seq(Slab), lmt # <<>>
  PROVE  WrpSpltCpy(sz, lmt) \in Seq(Slab) /\ Len(WrpSpltCpy(sz, lmt)) >= Len(lmt)
<1> DEFINE one == [i \in DOMAIN lmt |-> IF Wraps(lmt[i]) THEN First(sz, lmt[i]) ELSE lmt[i]]
           h == Halves(sz, lmt)
<1>1. WrpSpltCpy(sz, lmt) = one \o h[Len(lmt)]
  BY DEF WrpSpltCpy, Halves
<1>2. Len(lmt) \in Nat /\ Len(lmt) \in 0..Len(lmt) /\ DOMAIN lmt = 1..Len(lmt) /\ Len(lmt) # 0
  OBVIOUS
<1>3. \A i \in 1..Len(lmt) : lmt[i] \in Slab /\ First(sz, lmt[i]) \in Slab
  BY HalvesType
<1>4. one \in [1..Len(lmt) -> Slab]
  BY <1>2, <1>3
<1>5. one \in Seq(Slab) /\ Len(one) = Len(lmt)
  BY <1>2, <1>4
<1>6. h[Len(lmt)] \in Seq(Slab)
  BY <1>2, HalvesFacts
<1> HIDE DEF one, h
<1>7. QED
  BY <1>1, <1>2, <1>5, <1>6

\* The steps of nco_msa_wrp_splt_trv() over its slots.
Slot == Slab \cup {Unset}
Slots(n) == [1..(2 * n) -> Slot]
TrvStep(sz, i, s) ==
  IF ~Wraps(s[i]) THEN s
  ELSE [s EXCEPT ![i] = First(sz, s[i]), ![i + 1] = Second(sz, s[i])]
TrvSteps(sz, lmt) ==
  CHOOSE step : step = [i \in 0..Len(lmt) |->
                          IF i = 0 THEN lmt \o [j \in 1..Len(lmt) |-> Unset]
                          ELSE LET s == step[i - 1]
                               IN  IF ~Wraps(s[i]) THEN s
                                   ELSE [s EXCEPT ![i] = First(sz, s[i]),
                                                  ![i + 1] = Second(sz, s[i])]]

LEMMA TrvStepType ==
  ASSUME NEW sz \in Nat \ {0}, NEW n \in Nat, NEW i \in 1..n, NEW s \in Slots(n)
  PROVE  TrvStep(sz, i, s) \in Slots(n)
<1>1. i \in 1..(2 * n) /\ i + 1 \in 1..(2 * n)
  OBVIOUS
<1>2. s[i] \in Slot
  BY <1>1 DEF Slots
<1>3. CASE ~Wraps(s[i])
  BY <1>3 DEF TrvStep
<1>4. CASE Wraps(s[i])
  <2>1. s[i] \in Slab
    BY <1>2, <1>4 DEF Slot, Unset, Wraps
  <2>2. First(sz, s[i]) \in Slot /\ Second(sz, s[i]) \in Slot
    BY <2>1, HalvesType DEF Slot
  <2>3. TrvStep(sz, i, s) = [s EXCEPT ![i] = First(sz, s[i]), ![i + 1] = Second(sz, s[i])]
    BY <1>4 DEF TrvStep
  <2>4. QED
    BY <2>2, <2>3 DEF Slots
<1>5. QED
  BY <1>3, <1>4

LEMMA TrvStepsFacts ==
  ASSUME NEW sz \in Nat \ {0}, NEW lmt \in Seq(Slab)
  PROVE  LET step == TrvSteps(sz, lmt) IN
         /\ step[0] = lmt \o [j \in 1..Len(lmt) |-> Unset]
         /\ \A i \in 0..Len(lmt) : step[i] \in Slots(Len(lmt))
         /\ \A i \in 1..Len(lmt) : step[i] = TrvStep(sz, i, step[i - 1])
<1> DEFINE n == Len(lmt)
           b == lmt \o [j \in 1..n |-> Unset]
           S == Slots(n)
           F == [i \in 1..n |-> [s \in S |-> TrvStep(sz, i, s)]]
           Is(h) == h = [i \in 0..n |-> IF i = 0 THEN b ELSE TrvStep(sz, i, h[i - 1])]
           step == TrvSteps(sz, lmt)
<1>1. n \in Nat /\ \A i \in 1..n : lmt[i] \in Slab
  OBVIOUS
<1>2. b \in S
  <2> DEFINE u == [j \in 1..n |-> Unset]
  <2>1. u \in Seq(Slot) /\ Len(u) = n
    BY <1>1 DEF Slot
  <2>2. lmt \in Seq(Slot)
    BY DEF Slot
  <2> HIDE DEF u
  <2>3. b \in Seq(Slot) /\ Len(b) = 2 * n
    BY <1>1, <2>1, <2>2 DEF u
  <2> HIDE DEF b
  <2>4. DOMAIN b = 1..(2 * n) /\ b \in [1..Len(b) -> Slot]
    BY <2>3, SeqOver
  <2>5. QED
    BY <2>3, <2>4 DEF Slots
<1>3. F \in [1..n -> [S -> S]]
  BY <1>1, TrvStepType
<1>4. \E f \in [0..n -> S] : Follows(f, n, b, F)
  <2> HIDE DEF F, n, S, b
  <2>1. QED
    BY <1>1, <1>2, <1>3, Recursion, SMT
<1>5. PICK f \in [0..n -> S] : f[0] = b /\ \A i \in 1..n : f[i] = F[i][f[i - 1]]
  BY <1>4, Zenon DEF Follows
<1>6. ASSUME NEW i \in 1..n PROVE f[i - 1] \in S /\ f[i] = TrvStep(sz, i, f[i - 1])
  <2>1. i - 1 \in 0..n
    BY <1>1
  <2>2. f[i - 1] \in S
    BY <1>5, <2>1
  <2>3. F[i][f[i - 1]] = TrvStep(sz, i, f[i - 1])
    BY <2>2
  <2>4. QED
    BY <1>5, <2>2, <2>3, Zenon
<1> HIDE DEF b, S
<1>7. Is(f)
  BY <1>1, <1>5, <1>6
<1>8. step = CHOOSE h : Is(h)
  BY DEF TrvSteps, TrvStep, b
<1>9. Is(step)
  <2> HIDE DEF Is, step
  <2>1. QED
    BY <1>7, <1>8
<1> HIDE DEF step
<1>10. step[0] = b /\ \A i \in 1..n : step[i] = TrvStep(sz, i, step[i - 1])
  BY <1>1, <1>9
<1> DEFINE T == {i \in 0..n : step[i] \in S}
<1>11. 0 \in T
  <2>1. 0 \in 0..n
    BY <1>1
  <2>2. QED
    BY <1>2, <1>10, <2>1, Zenon
<1>12. ASSUME NEW i \in 1..n, i - 1 \in T PROVE i \in T
  BY <1>1, <1>10, <1>12, TrvStepType DEF S
<1>13. \A i \in 0..n : i \in T
  <2> HIDE DEF T
  <2>1. QED
    BY <1>1, <1>11, <1>12, Induct
<1>14. QED
  BY <1>10, <1>13 DEF step, b, S

\* nco_msa_wrp_splt_trv() makes slabs of slabs, unless it leaves a slot unset.
LEMMA WrpSpltTrvType ==
  ASSUME NEW sz \in Nat \ {0}, NEW lmt \in Seq(Slab), lmt # <<>>
  PROVE  WrpSpltTrv(sz, lmt) \in Seq(Slot) /\ Len(WrpSpltTrv(sz, lmt)) >= Len(lmt)
<1> DEFINE n == Len(lmt)
           step == TrvSteps(sz, lmt)
           splits == {i \in 1..n : step[i] # step[i - 1]}
<1>1. n \in Nat /\ n # 0 /\ n \in 0..n
  OBVIOUS
<1>2. Cardinality(splits) \in 0..n
  <2>1. IsFiniteSet(1..n) /\ Cardinality(1..n) = n
    BY <1>1, FS_Interval
  <2>2. splits \subseteq 1..n
    OBVIOUS
  <2>3. IsFiniteSet(splits) /\ Cardinality(splits) <= n
    BY <2>1, <2>2, FS_Subset
  <2>4. Cardinality(splits) \in Nat
    BY <2>3, FS_CardinalityType
  <2>5. QED
    BY <1>1, <2>3, <2>4
<1>3. step[n] \in [1..(2 * n) -> Slot]
  BY <1>1, TrvStepsFacts DEF Slots
<1>4. WrpSpltTrv(sz, lmt) = SubSeq(step[n], 1, n + Cardinality(splits))
  BY DEF WrpSpltTrv, TrvSteps
<1> HIDE DEF step, splits
<1> DEFINE m == n + Cardinality(splits)
           s == step[n]
<1>5. m \in 1..(2 * n) /\ m >= n /\ s \in Seq(Slot) /\ Len(s) = 2 * n
  <2>1. PICK k \in Nat, c \in Nat : k = n /\ c = Cardinality(splits) /\ c <= k /\ k # 0
    <3>1. \A j \in Nat : \A i \in 0..j : i \in Nat /\ i <= j
      OBVIOUS
    <3>2. QED
      BY <1>1, <1>2, <3>1, Zenon
  <2>2. k + c \in 1..(2 * k) /\ k + c >= k /\ 2 * k \in Nat
    BY <2>1
  <2>3. \A q \in [1..(2 * k) -> Slot] : q \in Seq(Slot) /\ Len(q) = 2 * k
    BY <2>2
  <2>4. QED
    BY <1>3, <2>1, <2>2, <2>3, Zenon
<1> HIDE DEF m, s
<1>6. SubSeq(s, 1, m) \in Seq(Slot) /\ Len(SubSeq(s, 1, m)) = m
  BY <1>5
<1>7. QED
  BY <1>1, <1>4, <1>5, <1>6 DEF m, s

-----------------------------------------------------------------------------
(* The list nco_bld_lmt() hands over.                                      *)

\* A limit is refused, or is a slab that starts within the dimension.
LEMMA EvlForm ==
  ASSUME NEW p \in Problems, NEW i \in DOMAIN p.lmt
  PROVE  LET l == p.lmt[i]
             s == EvlDmnCrd(p.sz, p.crd, l)
         IN  s = Refused \/ \E srt \in 0..(p.sz - 1), e \in Nat : s = SlabOf(p.sz, srt, e, l.srd)
<1> DEFINE l == p.lmt[i]
           s == EvlDmnCrd(p.sz, p.crd, l)
<1>1. /\ p.sz \in Nat \ {0} /\ p.crd \in Seq(Int) /\ (p.crd # <<>> => Len(p.crd) = p.sz)
      /\ IsLimit(p, l)
  BY ProblemsAssumption
<1>2. l.typ \in {"idx", "crd"} /\ (l.typ = "crd" => p.crd # <<>>)
  BY <1>1 DEF IsLimit
<1> HIDE DEF l
<1>3. s = Refused \/ \E srt \in 0..(p.sz - 1), e \in Nat : s = SlabOf(p.sz, srt, e, l.srd)
  <2>1. CASE l.typ = "idx"
    BY <1>1, <2>1, EvlIdxForm DEF EvlDmnCrd
  <2>2. CASE l.typ = "crd"
    <3>1. s = EvlCrd(p.crd, l)
      BY <2>2 DEF EvlDmnCrd
    <3>2. \/ s = Refused
          \/ \E srt, e \in 0..(Len(p.crd) - 1) : s = SlabOf(Len(p.crd), srt, e, l.srd)
      BY <1>1, <1>2, <2>2, <3>1, EvlCrdForm
    <3>3. QED
      BY <1>1, <1>2, <2>2, <3>2
  <2>3. QED
    BY <1>2, <2>1, <2>2
<1>4. QED
  BY <1>3, Zenon DEF l

LEMMA EvlType ==
  ASSUME NEW p \in Problems, NEW i \in DOMAIN p.lmt
  PROVE  LET s == EvlDmnCrd(p.sz, p.crd, p.lmt[i]) IN s = Refused \/ (s \in Slab /\ s.cnt # 0)
<1> DEFINE l == p.lmt[i]
           s == EvlDmnCrd(p.sz, p.crd, l)
<1>1. p.sz \in Nat \ {0} /\ l.srd \in Nat \ {0}
  BY ProblemsAssumption DEF IsLimit
<1> HIDE DEF l
<1>2. s = Refused \/ \E srt \in 0..(p.sz - 1), e \in Nat : s = SlabOf(p.sz, srt, e, l.srd)
  BY EvlForm DEF l
<1> HIDE DEF s
<1>3. ASSUME s # Refused PROVE s \in Slab /\ s.cnt # 0
  <2>1. PICK srt \in 0..(p.sz - 1), e \in Nat : s = SlabOf(p.sz, srt, e, l.srd)
    BY <1>2, <1>3
  <2>2. /\ s = [srt |-> srt, end |-> s.end, cnt |-> s.cnt, srd |-> l.srd]
        /\ s.end \in Nat /\ s.cnt \in Nat \ {0}
    BY <1>1, <2>1, SlabOfFacts
  <2>3. srt \in Nat /\ s.end \in Int
    BY <1>1, <2>2
  <2>4. s \in Slab
    BY <1>1, <2>2, <2>3 DEF Slab
  <2>5. QED
    BY <2>2, <2>4
<1>4. s = Refused \/ (s \in Slab /\ s.cnt # 0)
  BY <1>3
<1>5. QED
  BY <1>4, Zenon DEF l, s

\* Splitting, whichever routine does it.
LEMMA SpltType ==
  ASSUME NEW p \in Problems, NEW lmt \in Seq(Slab), lmt # <<>>
  PROVE  /\ Splt(p, lmt) # <<>> /\ Splt(p, lmt) \in Seq(Slot)
         /\ Len(Splt(p, lmt)) >= Len(lmt)
         /\ Unset \notin Range(Splt(p, lmt)) => Splt(p, lmt) \in Seq(Slab)
<1> DEFINE s == Splt(p, lmt)
<1>1. p.sz \in Nat \ {0}
  BY ProblemsAssumption
<1>2. s \in Seq(Slot) /\ Len(s) >= Len(lmt)
  <2>1. CASE p.crd # <<>>
    <3>1. s \in Seq(Slab) /\ Len(s) >= Len(lmt)
      BY <1>1, <2>1, WrpSpltCpyType DEF Splt
    <3>2. QED
      BY <3>1 DEF Slot
  <2>2. CASE p.crd = <<>>
    BY <1>1, <2>2, WrpSpltTrvType DEF Splt
  <2>3. QED
    BY <2>1, <2>2
<1> HIDE DEF s
<1>3. ASSUME Unset \notin Range(s) PROVE s \in Seq(Slab)
  <2>1. /\ DOMAIN s = 1..Len(s) /\ Len(s) \in Nat
        /\ \A i \in DOMAIN s : s[i] \in Slot /\ s[i] # Unset
    BY <1>2, <1>3, SeqOver DEF Range
  <2>2. s \in [1..Len(s) -> Slab]
    <3>1. s = [i \in 1..Len(s) |-> s[i]]
      BY <1>2
    <3>2. \A i \in 1..Len(s) : s[i] \in Slab
      BY <2>1 DEF Slot
    <3>3. QED
      BY <3>1, <3>2, Zenon
  <2>3. QED
    BY <2>1, <2>2, SeqIntro, Zenon
<1>4. s # <<>>
  <2>1. Len(lmt) \in Nat /\ Len(lmt) # 0 /\ Len(<<>>) = 0
    OBVIOUS
  <2>2. QED
    BY <1>2, <2>1
<1>5. QED
  BY <1>2, <1>3, <1>4 DEF s

\* Sorting keeps the slabs.
LEMMA SortedType ==
  ASSUME NEW lmt \in Seq(Slab), lmt # <<>>, NEW f \in Sorted(lmt)
  PROVE  f \in Seq(Slab) /\ f # <<>> /\ Len(f) = Len(lmt)
<1>1. f \in [1..Len(lmt) -> Range(lmt)]
  BY DEF Sorted
<1>2. Range(lmt) \subseteq Slab
  BY DEF Range
<1>3. Len(lmt) \in Nat /\ Len(lmt) # 0
  OBVIOUS
<1>4. f \in [1..Len(lmt) -> Slab]
  BY <1>1, <1>2
<1>5. f \in Seq(Slab) /\ Len(f) = Len(lmt)
  BY <1>3, <1>4
<1>6. f # <<>>
  BY <1>3, <1>5
<1>7. QED
  BY <1>5, <1>6

\* Until the list is complete no slab has an index; afterwards each has one.
ReadInv ==
  /\ prb \in Problems
  /\ phase = "evl" =>
       /\ lmt_dmn \in Seq(Slab) /\ indices = <<>>
       /\ Len(lmt_dmn) <= Len(prb.lmt)
  /\ phase \notin {"evl", "exit", "undefined"} =>
       lmt_dmn \in Seq(Slab) /\ lmt_dmn # <<>> /\ DOMAIN indices = DOMAIN lmt_dmn

LEMMA ListDomain ==
  ASSUME NEW lmt \in Seq(Slab), lmt # <<>>, NEW ind, DOMAIN ind = DOMAIN lmt
  PROVE  ind # <<>>
<1>1. 1 \in DOMAIN lmt
  OBVIOUS
<1>2. DOMAIN <<>> = {}
  OBVIOUS
<1>3. QED
  BY <1>1, <1>2

\* The list is handed over: what Prepare of MsaMerge promises of it.
LEMMA OrderFacts ==
  ASSUME ReadInv, Order
  PROVE  \/ phase' = "undefined" /\ indices' = indices
         \/ /\ phase' = "count"
            /\ lmt_dmn' \in Seq(Slab) /\ lmt_dmn' # <<>>
            /\ WRP' \in BOOLEAN /\ (WRP' => Len(lmt_dmn') = 2) /\ MSA_USR_RDR' \in BOOLEAN
            /\ indices' = Start(lmt_dmn')
<1> DEFINE lmt == Splt(prb, lmt_dmn)
           wrp == Len(lmt_dmn) = 1 /\ Len(lmt) = 2
           kept == wrp \/ Len(lmt) = 1 \/ prb.usr
<1>1. CASE Unset \in Range(lmt)
  BY <1>1 DEF Order
<1>2. CASE Unset \notin Range(lmt)
  <2>1. /\ phase' = "count" /\ WRP' = wrp /\ indices' = Start(lmt_dmn')
        /\ kept => lmt_dmn' = lmt /\ MSA_USR_RDR' = (~wrp /\ Len(lmt) > 1)
        /\ ~kept => lmt_dmn' \in Sorted(lmt) /\ MSA_USR_RDR' = (~HasCrd /\ ~Ovl(lmt_dmn'))
    BY <1>2 DEF Order
  <2>2. lmt_dmn \in Seq(Slab) /\ lmt_dmn # <<>> /\ prb \in Problems
    <3>1. phase = "evl" /\ Len(lmt_dmn) = Len(prb.lmt)
      BY DEF Order
    <3>2. lmt_dmn \in Seq(Slab) /\ prb \in Problems
      BY <3>1 DEF ReadInv
    <3>3. Len(prb.lmt) \in Nat /\ Len(prb.lmt) # 0
      <4> DEFINE S == {prb.lmt[i] : i \in DOMAIN prb.lmt}
      <4>1. prb.lmt \in Seq(S) /\ prb.lmt # <<>>
        BY <3>2, ProblemsAssumption
      <4> HIDE DEF S
      <4>2. QED
        BY <4>1
    <3>4. QED
      BY <3>1, <3>2, <3>3
  <2>3. lmt \in Seq(Slab) /\ lmt # <<>>
    BY <1>2, <2>2, SpltType
  <2> HIDE DEF lmt
  <2>4. lmt_dmn' \in Seq(Slab) /\ lmt_dmn' # <<>>
    BY <2>1, <2>3, SortedType
  <2>5. WRP' => Len(lmt_dmn') = 2
    BY <2>1
  <2>6. WRP' \in BOOLEAN /\ MSA_USR_RDR' \in BOOLEAN
    BY <2>1
  <2>7. QED
    BY <2>1, <2>4, <2>5, <2>6
<1>3. QED
  BY <1>1, <1>2

\* The next limit joins the list, or the program exits.
LEMMA EvlFacts ==
  ASSUME ReadInv, Evl
  PROVE  /\ indices' = indices /\ indices = <<>>
         /\ \/ phase' = "exit"
            \/ /\ phase' = "evl"
               /\ lmt_dmn' \in Seq(Slab) /\ Len(lmt_dmn') <= Len(prb.lmt)
<1> DEFINE lmt == EvlDmnCrd(prb.sz, prb.crd, prb.lmt[Len(lmt_dmn) + 1])
<1>1. /\ phase = "evl" /\ Len(lmt_dmn) < Len(prb.lmt) /\ indices' = indices
      /\ IF lmt.cnt = 0 THEN phase' = "exit"
         ELSE lmt_dmn' = Append(lmt_dmn, lmt) /\ phase' = phase
  BY DEF Evl, EvlOr
<1>2. lmt_dmn \in Seq(Slab) /\ indices = <<>> /\ prb \in Problems
  BY <1>1 DEF ReadInv
<1>3. lmt = Refused \/ lmt \in Slab
  <2>1. prb.lmt \in Seq({prb.lmt[i] : i \in DOMAIN prb.lmt})
    BY <1>2, ProblemsAssumption
  <2>2. Len(lmt_dmn) + 1 \in DOMAIN prb.lmt
    BY <1>1, <1>2, <2>1
  <2>3. QED
    BY <1>2, <2>2, EvlType
<1> HIDE DEF lmt
<1>4. CASE lmt.cnt = 0
  BY <1>1, <1>2, <1>4
<1>5. CASE lmt.cnt # 0
  <2>1. lmt \in Slab /\ lmt_dmn' = Append(lmt_dmn, lmt) /\ phase' = "evl"
    BY <1>1, <1>3, <1>5 DEF Refused
  <2>2. Len(prb.lmt) \in Nat
    BY <1>2, ProblemsAssumption
  <2>3. lmt_dmn' \in Seq(Slab) /\ Len(lmt_dmn') = Len(lmt_dmn) + 1
    BY <1>2, <2>1
  <2>4. QED
    BY <1>1, <1>2, <2>1, <2>2, <2>3
<1>6. QED
  BY <1>4, <1>5

\* Counting, reading and printing leave the list alone and every slab its index.
LEMMA WorkFacts ==
  ASSUME Work
  PROVE  /\ phase # "evl" /\ phase' # "evl" /\ slabs' = slabs /\ lmt_dmn' = lmt_dmn
         /\ phase \in {"exit", "undefined"} => indices' = indices /\ phase' = phase
         /\ DOMAIN indices = DOMAIN lmt_dmn => DOMAIN indices' = DOMAIN lmt_dmn
<1>1. CASE CountSum
  BY <1>1 DEF CountSum, slabs, Read
<1>2. CASE CountMin \/ Collect
  BY <1>2 DEF CountMin, Collect, prep, slabs, Advance
<1>3. CASE CountEnd \/ Finish \/ Copy
  BY <1>3 DEF CountEnd, Finish, Copy, prep, slabs, Start, Read
<1>4. CASE ReadError
  BY <1>4 DEF ReadError, prep, slabs
<1>5. CASE Return
  BY <1>5 DEF Return, prep, slabs
<1>6. CASE PrnIdx
  BY <1>6 DEF PrnIdx, prep, slabs, Advance
<1>7. CASE Close
  BY <1>7 DEF Close, prep, slabs
<1>8. CASE Stop
  BY <1>8 DEF Stop, vars, prep, slabs
<1>9. QED
  BY <1>1, <1>2, <1>3, <1>4, <1>5, <1>6, <1>7, <1>8 DEF Work

LEMMA ReadStep ==
  ASSUME ReadInv, [NextRead]_<<vars, prb>>
  PROVE  ReadInv'
<1>1. CASE Evl
  <2>1. prb' = prb
    BY <1>1 DEF Evl, EvlOr
  <2>2. QED
    BY <1>1, <2>1, EvlFacts DEF ReadInv
<1>2. CASE Order
  <2>1. prb' = prb
    BY <1>2 DEF Order
  <2>2. indices' = Start(lmt_dmn') => DOMAIN indices' = DOMAIN lmt_dmn'
    BY DEF Start
  <2>3. QED
    BY <1>2, <2>1, <2>2, OrderFacts DEF ReadInv
<1>3. CASE Work /\ UNCHANGED prb
  BY <1>3, WorkFacts DEF ReadInv
<1>4. CASE UNCHANGED <<vars, prb>>
  BY <1>4 DEF ReadInv, vars, prep, slabs
<1>5. QED
  BY <1>1, <1>2, <1>3, <1>4 DEF NextRead

LEMMA ReadInvariant == SpecRead => []ReadInv
<1>1. InitRead => ReadInv
  <2>1. ASSUME InitRead PROVE ReadInv
    <3>1. prb \in Problems /\ phase = "evl" /\ lmt_dmn = <<>> /\ indices = <<>>
      BY <2>1 DEF InitRead, Init
    <3>2. Len(prb.lmt) \in Nat
      BY <3>1, ProblemsAssumption
    <3>3. Len(<<>>) = 0 /\ <<>> \in Seq(Slab)
      OBVIOUS
    <3>4. QED
      BY <3>1, <3>2, <3>3 DEF ReadInv
  <2>2. QED
    BY <2>1
<1>2. QED
  BY <1>1, ReadStep, PTL DEF SpecRead

-----------------------------------------------------------------------------
(* The refinement.                                                         *)

LEMMA SameOperators ==
  /\ \A S : Merge!Min(S) = Min(S)
  /\ \A ind : Merge!MinIdx(ind) = MinIdx(ind)
  /\ \A ind : Merge!Mnm(ind) = Mnm(ind)
  /\ \A lmt : Merge!Start(lmt) = Start(lmt)
  /\ \A lmt, ind : Merge!Advance(lmt, ind) = Advance(lmt, ind)
  /\ \A lmt : Merge!SumCnt(lmt) = SumCnt(lmt)
  /\ Merge!Slab = Slab /\ Merge!NoSlab = NoSlab
<1>0. \A S : Merge!Min(S) = Min(S)
  BY DEF Min, Merge!Min
<1>1. \A ind : Merge!MinIdx(ind) = MinIdx(ind)
  BY <1>0 DEF MinIdx, Merge!MinIdx
<1>2. \A ind : Merge!Mnm(ind) = Mnm(ind)
  BY <1>1 DEF Mnm, Merge!Mnm
<1>3. \A lmt : Merge!Start(lmt) = Start(lmt)
  BY DEF Start, Merge!Start
<1>4. \A lmt, ind : Merge!Advance(lmt, ind) = Advance(lmt, ind)
  BY <1>2 DEF Advance, Merge!Advance
<1>5. \A lmt : Merge!SumCnt(lmt) = SumCnt(lmt)
  BY DEF SumCnt, Merge!SumCnt
<1>6. Merge!Slab = Slab /\ Merge!NoSlab = NoSlab
  BY DEF Slab, NoSlab, Merge!Slab, Merge!NoSlab
<1>7. QED
  BY <1>0, <1>1, <1>2, <1>3, <1>4, <1>5, <1>6

\* While the list is made, the merge sees none; afterwards it sees the list.
Seen == IF indices = <<>> THEN <<>> ELSE lmt_dmn

LEMMA WorkRefines ==
  ASSUME Work, Seen = lmt_dmn, Seen' = lmt_dmn'
  PROVE  Merge!Work
<1>0. /\ (IF indices = <<>> THEN <<>> ELSE lmt_dmn) = lmt_dmn
      /\ (IF indices' = <<>> THEN <<>> ELSE lmt_dmn') = lmt_dmn'
  BY DEF Seen
<1> USE <1>0, SameOperators DEF Merge!prep, Merge!slabs, prep, slabs
<1>1. CountSum => Merge!CountSum
  BY DEF CountSum, Merge!CountSum, Read, Merge!Read
<1>2. CountMin => Merge!CountMin
  BY DEF CountMin, Merge!CountMin
<1>3. CountEnd => Merge!CountEnd
  BY DEF CountEnd, Merge!CountEnd, Read, Merge!Read
<1>4. Beyond = Merge!Beyond
  BY DEF Beyond, Merge!Beyond, Past, Merge!Past, Range, Merge!Range
<1>5. ReadError => Merge!ReadError
  BY <1>4 DEF ReadError, Merge!ReadError
<1>6. Copy => Merge!Copy
  BY <1>4 DEF Copy, Merge!Copy
<1>7. CrrSlb = Merge!CrrSlb
  BY DEF CrrSlb, Merge!CrrSlb
<1>8. Collect => Merge!Collect
  BY <1>4, <1>7 DEF Collect, Merge!Collect
<1>9. Return => Merge!Return
  BY <1>4, <1>7 DEF Return, Merge!Return
<1>10. Finish => Merge!Finish
  BY <1>4 DEF Finish, Merge!Finish
<1>11. PrnIdx => Merge!PrnIdx
  BY DEF PrnIdx, Merge!PrnIdx
<1>12. Close => Merge!Close
  BY DEF Close, Merge!Close
<1>13. Stop => Merge!Stop
  BY DEF Stop, Merge!Stop, vars, Merge!vars
<1>14. QED
  BY <1>1, <1>2, <1>3, <1>5, <1>6, <1>8, <1>9, <1>10, <1>11, <1>12, <1>13
     DEF Work, Merge!Work

\* The list nco_bld_lmt() makes of the -d options, for every dimension,
\* coordinate and request, is one that MsaMerge takes, and what is done with
\* it is what MsaMerge says: all that is proved of the merge holds of a request.
THEOREM ReadMerges == SpecRead => MergeSpec
<1>1. InitRead => Merge!Init
  <2>1. ASSUME InitRead PROVE Merge!Init
    <3>1. dmn_sz_org = prb.sz /\ prb \in Problems /\ Init
      BY <2>1 DEF InitRead
    <3>2. dmn_sz_org \in Nat \ {0}
      BY <3>1, ProblemsAssumption
    <3>3. QED
      BY <3>1, <3>2, SameOperators DEF Init, Merge!Init
  <2>2. QED
    BY <2>1
<1>2. ReadInv /\ [NextRead]_<<vars, prb>> => [Merge!Next]_Merge!vars
  <2>1. ASSUME ReadInv, [NextRead]_<<vars, prb>> PROVE [Merge!Next]_Merge!vars
    <3>1. CASE Evl
      <4>1. /\ indices = <<>> /\ indices' = <<>> /\ phase = "evl" /\ phase' \in {"evl", "exit"}
            /\ UNCHANGED <<dmn_sz_org, WRP, MSA_USR_RDR, dmn_cnt, crr, prv_slb, reads, printed>>
        BY <2>1, <3>1, EvlFacts DEF Evl, EvlOr
      <4>2. QED
        BY <4>1 DEF Merge!Next, Merge!GiveUp, Merge!vars, Merge!prep, Merge!slabs
    <3>2. CASE Order
      <4>1. /\ indices = <<>> /\ phase = "evl"
            /\ UNCHANGED <<dmn_sz_org, dmn_cnt, crr, prv_slb, reads, printed>>
        BY <2>1, <3>2 DEF Order, ReadInv
      <4>2. CASE phase' = "undefined" /\ indices' = indices
        <5>1. UNCHANGED <<WRP, MSA_USR_RDR>>
          BY <3>2, <4>2 DEF Order
        <5>2. Merge!GiveUp
          BY <4>1, <4>2, <5>1 DEF Merge!GiveUp, Merge!prep, Merge!slabs
        <5>3. QED
          BY <5>2 DEF Merge!Next
      <4>3. CASE /\ phase' = "count" /\ lmt_dmn' \in Seq(Slab) /\ lmt_dmn' # <<>>
                 /\ WRP' \in BOOLEAN /\ (WRP' => Len(lmt_dmn') = 2)
                 /\ MSA_USR_RDR' \in BOOLEAN /\ indices' = Start(lmt_dmn')
        <5>1. indices' # <<>>
          <6>1. DOMAIN indices' = DOMAIN lmt_dmn'
            BY <4>3 DEF Start
          <6>2. QED
            BY <4>3, <6>1, ListDomain
        <5>2. Merge!Prepare
          BY <4>1, <4>3, <5>1, SameOperators DEF Merge!Prepare
        <5>3. QED
          BY <5>2 DEF Merge!Next
      <4>4. QED
        BY <2>1, <3>2, <4>2, <4>3, OrderFacts
    <3>3. CASE Work /\ UNCHANGED prb
      <4>1. CASE phase \in {"exit", "undefined"}
        <5>1. Stop
          BY <3>3, <4>1 DEF Work, CountSum, CountMin, CountEnd, ReadError, Copy, Collect,
                            Return, Finish, PrnIdx, Close
        <5>2. Merge!Stop
          BY <5>1 DEF Stop, Merge!Stop, vars, prep, slabs, Merge!vars, Merge!prep, Merge!slabs
        <5>3. QED
          BY <5>2 DEF Merge!Next, Merge!Work
      <4>2. CASE phase \notin {"exit", "undefined"}
        <5>1. /\ phase # "evl" /\ lmt_dmn' = lmt_dmn
              /\ DOMAIN indices = DOMAIN lmt_dmn => DOMAIN indices' = DOMAIN lmt_dmn
          BY <3>3, WorkFacts
        <5>2. lmt_dmn \in Seq(Slab) /\ lmt_dmn # <<>> /\ DOMAIN indices = DOMAIN lmt_dmn
          BY <2>1, <4>2, <5>1 DEF ReadInv
        <5>3. indices # <<>> /\ indices' # <<>>
          BY <5>1, <5>2, ListDomain
        <5>4. Merge!Work
          BY <3>3, <5>3, WorkRefines DEF Seen
        <5>5. QED
          BY <5>4 DEF Merge!Next
      <4>3. QED
        BY <4>1, <4>2
    <3>4. CASE UNCHANGED <<vars, prb>>
      BY <3>4 DEF vars, prep, slabs, Merge!vars, Merge!prep, Merge!slabs
    <3>5. QED
      BY <2>1, <3>1, <3>2, <3>3, <3>4 DEF NextRead
  <2>2. QED
    BY <2>1
<1>3. QED
  BY <1>1, <1>2, ReadInvariant, PTL DEF SpecRead, MergeSpec, Merge!Spec

-----------------------------------------------------------------------------
(* Ascending sequences.                                                    *)

Asc(s) == \A i, j \in DOMAIN s : i < j => s[i] < s[j]

\* An ascending sequence lists a set of as many elements.
LEMMA AscCardinality ==
  ASSUME NEW s \in Seq(Int), Asc(s)
  PROVE  IsFiniteSet(Range(s)) /\ Cardinality(Range(s)) = Len(s)
<1> DEFINE n == Len(s)
           S == Range(s)
<1>1. n \in Nat /\ DOMAIN s = 1..n /\ s \in [1..n -> S]
  BY DEF Range
<1>2. IsFiniteSet(1..n) /\ Cardinality(1..n) = n
  BY <1>1, FS_Interval
<1>3. \A i, j \in 1..n : s[i] = s[j] => i = j
  BY <1>1 DEF Asc
<1>4. \A x \in S : \E i \in 1..n : s[i] = x
  BY <1>1 DEF Range
<1>5. s \in Bijection(1..n, S)
  <2> HIDE DEF n, S
  <2>1. s \in Injection(1..n, S)
    BY <1>1, <1>3, Zenon DEF Injection, IsInjective
  <2>2. s \in Surjection(1..n, S)
    BY <1>1, <1>4, Zenon DEF Surjection
  <2>3. QED
    BY <2>1, <2>2 DEF Bijection
<1>6. ExistsBijection(1..n, S)
  BY <1>5 DEF ExistsBijection
<1> HIDE DEF n, S
<1>7. QED
  BY <1>2, <1>6, FS_Bijection DEF n, S

\* It stays ascending when a greater element joins it.
LEMMA AscAppend ==
  ASSUME NEW s \in Seq(Int), Asc(s), NEW m \in Int, \A x \in Range(s) : x < m
  PROVE  /\ Append(s, m) \in Seq(Int) /\ Asc(Append(s, m))
         /\ Range(Append(s, m)) = Range(s) \cup {m}
<1> DEFINE t == Append(s, m)
<1>1. /\ t \in Seq(Int) /\ Len(s) \in Nat /\ DOMAIN s = 1..Len(s) /\ DOMAIN t = 1..(Len(s) + 1)
      /\ t[Len(s) + 1] = m /\ \A i \in 1..Len(s) : t[i] = s[i] /\ s[i] \in Int
  OBVIOUS
<1>2. \A i \in 1..Len(s) : s[i] < m
  BY <1>1 DEF Range
<1> HIDE DEF t
<1>3. Asc(t)
  <2>1. SUFFICES ASSUME NEW i \in 1..(Len(s) + 1), NEW j \in 1..(Len(s) + 1), i < j
                 PROVE  t[i] < t[j]
    BY <1>1 DEF Asc
  <2>2. i \in 1..Len(s)
    BY <1>1, <2>1
  <2>3. CASE j = Len(s) + 1
    BY <1>1, <1>2, <2>2, <2>3
  <2>4. CASE j # Len(s) + 1
    <3>1. j \in 1..Len(s)
      BY <1>1, <2>4
    <3>2. s[i] < s[j]
      BY <1>1, <2>1, <2>2, <3>1 DEF Asc
    <3>3. QED
      BY <1>1, <2>2, <3>1, <3>2
  <2>5. QED
    BY <2>3, <2>4
<1>4. Range(t) = Range(s) \cup {m}
  <2>1. DOMAIN t = DOMAIN s \cup {Len(s) + 1}
    BY <1>1
  <2>2. QED
    BY <1>1, <2>1 DEF Range
<1>5. QED
  BY <1>1, <1>3, <1>4 DEF t

\* One after the other, where the second goes on above the first.
LEMMA AscConcat ==
  ASSUME NEW s \in Seq(Int), Asc(s), NEW t \in Seq(Int), Asc(t),
         \A x \in Range(s), y \in Range(t) : x < y
  PROVE  s \o t \in Seq(Int) /\ Asc(s \o t) /\ Range(s \o t) = Range(s) \cup Range(t)
<1> DEFINE u == s \o t
           n == Len(s)
           m == Len(t)
<1>1. n \in Nat /\ m \in Nat /\ DOMAIN s = 1..n /\ DOMAIN t = 1..m
  OBVIOUS
<1>2. u \in Seq(Int) /\ DOMAIN u = 1..(n + m)
  OBVIOUS
<1>3. \A i \in 1..n : u[i] = s[i] /\ s[i] \in Int
  OBVIOUS
<1>4. \A i \in (n + 1)..(n + m) : u[i] = t[i - n] /\ i - n \in 1..m /\ t[i - n] \in Int
  OBVIOUS
<1>5. \A i \in 1..m : n + i \in (n + 1)..(n + m) /\ u[n + i] = t[i]
  BY <1>1, <1>4
<1> HIDE DEF u, n, m
<1>6. ASSUME NEW i \in 1..(n + m), NEW j \in 1..(n + m), i < j PROVE u[i] < u[j]
  <2>1. CASE j \in 1..n
    <3>1. i \in 1..n
      BY <1>1, <1>6, <2>1
    <3>2. QED
      BY <1>1, <1>3, <1>6, <2>1, <3>1 DEF Asc
  <2>2. CASE i \notin 1..n
    <3>1. i \in (n + 1)..(n + m) /\ j \in (n + 1)..(n + m) /\ i - n < j - n
      BY <1>1, <1>6, <2>2
    <3>2. t[i - n] < t[j - n]
      BY <1>1, <1>4, <3>1 DEF Asc
    <3>3. QED
      BY <1>4, <3>1, <3>2
  <2>3. CASE i \in 1..n /\ j \notin 1..n
    <3>1. j \in (n + 1)..(n + m)
      BY <1>1, <2>3
    <3>2. s[i] \in Range(s) /\ t[j - n] \in Range(t)
      BY <1>1, <1>4, <2>3, <3>1 DEF Range
    <3>3. QED
      BY <1>3, <1>4, <2>3, <3>1, <3>2
  <2>4. QED
    BY <2>1, <2>2, <2>3
<1>7. Range(u) = Range(s) \cup Range(t)
  <2>1. ASSUME NEW x \in Range(u) PROVE x \in Range(s) \cup Range(t)
    <3>1. PICK i \in 1..(n + m) : x = u[i]
      BY <1>2 DEF Range
    <3>2. i \in 1..n \/ i \in (n + 1)..(n + m)
      BY <1>1
    <3>3. QED
      BY <1>1, <1>3, <1>4, <3>1, <3>2 DEF Range
  <2>2. Range(s) \subseteq Range(u)
    <3>1. \A i \in 1..n : i \in 1..(n + m)
      BY <1>1
    <3>2. QED
      BY <1>1, <1>2, <1>3, <3>1 DEF Range
  <2>3. Range(t) \subseteq Range(u)
    <3>1. \A i \in 1..m : n + i \in 1..(n + m)
      BY <1>1
    <3>2. QED
      BY <1>1, <1>2, <1>5, <3>1 DEF Range
  <2>4. QED
    BY <2>1, <2>2, <2>3
<1>8. QED
  BY <1>2, <1>6, <1>7 DEF Asc, u

-----------------------------------------------------------------------------
(* Sequences put together.                                                 *)

LEMMA Concat ==
  ASSUME NEW S, NEW s \in Seq(S), NEW t \in Seq(S)
  PROVE  /\ s \o t \in Seq(S) /\ Len(s \o t) = Len(s) + Len(t)
         /\ \A i \in 1..Len(s) : (s \o t)[i] = s[i]
         /\ \A i \in 1..Len(t) : (s \o t)[Len(s) + i] = t[i]
<1>1. s \o t \in Seq(S) /\ Len(s \o t) = Len(s) + Len(t)
  OBVIOUS
<1>2. \A i \in 1..Len(s) : (s \o t)[i] = s[i]
  OBVIOUS
<1>3. \A i \in 1..Len(t) : (s \o t)[Len(s) + i] = t[i]
  OBVIOUS
<1>4. QED
  BY <1>1, <1>2, <1>3

\* f holds what is put together of the first sequences.
Joins(f, ss) == f[0] = <<>> /\ \A i \in 1..Len(ss) : f[i] = f[i - 1] \o ss[i]

LEMMA FlattenForm ==
  ASSUME NEW S, NEW ss \in Seq(Seq(S))
  PROVE  \E f \in [0..Len(ss) -> Seq(S)] : Joins(f, ss) /\ FlattenSeq(ss) = f[Len(ss)]
<1> DEFINE n == Len(ss)
           Q == Seq(S)
           b == <<>>
           F == [i \in 1..n |-> [x \in Q |-> x \o ss[i]]]
           Nxt(i, x) == IF i = 1 THEN ss[i] ELSE x \o ss[i]
           Is(h) == h = [i \in 1..n |-> IF i = 1 THEN ss[i] ELSE h[i - 1] \o ss[i]]
           h == CHOOSE h : Is(h)
<1>1. n \in Nat /\ b \in Q /\ \A i \in 1..n : ss[i] \in Q
  OBVIOUS
<1>2. F \in [1..n -> [Q -> Q]]
  BY <1>1
<1>3. \E f \in [0..n -> Q] : Follows(f, n, b, F)
  <2> HIDE DEF F, n, Q, b
  <2>1. QED
    BY <1>1, <1>2, Recursion, SMT
<1>4. PICK f \in [0..n -> Q] : f[0] = b /\ \A i \in 1..n : f[i] = F[i][f[i - 1]]
  BY <1>3, Zenon DEF Follows
<1>5. ASSUME NEW i \in 1..n PROVE f[i - 1] \in Q /\ f[i] = f[i - 1] \o ss[i]
  <2>1. i - 1 \in 0..n
    BY <1>1
  <2>2. f[i - 1] \in Q
    BY <1>4, <2>1
  <2>3. F[i][f[i - 1]] = f[i - 1] \o ss[i]
    BY <2>2
  <2>4. QED
    BY <1>4, <2>2, <2>3, Zenon
<1>6. Joins(f, ss)
  BY <1>4, <1>5 DEF Joins
<1>0. n # 0 => f[1] = ss[1]
  <2>1. SUFFICES ASSUME n # 0 PROVE f[1] = ss[1]
    OBVIOUS
  <2>2. 1 \in 1..n /\ 1 - 1 = 0
    BY <1>1, <2>1
  <2>3. f[1] = f[0] \o ss[1]
    BY <1>5, <2>2
  <2>4. b \o ss[1] = ss[1]
    BY <2>2
  <2>5. QED
    BY <1>4, <2>3, <2>4
<1>7. CASE n = 0
  <2>1. FlattenSeq(ss) = ss /\ ss = <<>>
    BY <1>7 DEF FlattenSeq
  <2>2. QED
    BY <1>4, <1>6, <1>7, <2>1
<1>8. CASE n # 0
  <2>1. \E g : Is(g)
    <3> DEFINE g == [i \in 1..n |-> f[i]]
    <3>1. ASSUME NEW i \in 1..n
          PROVE  f[i] = IF i = 1 THEN ss[i] ELSE g[i - 1] \o ss[i]
      <4>1. CASE i = 1
        BY <1>0, <1>8, <4>1
      <4>2. CASE i # 1
        <5>1. i - 1 \in 1..n
          BY <1>1, <4>2
        <5>2. QED
          BY <1>5, <4>2, <5>1
      <4>3. QED
        BY <4>1, <4>2
    <3>2. Is(g)
      BY <3>1
    <3>3. QED
      BY <3>2
  <2>2. Is(h)
    <3> HIDE DEF Is
    <3>1. QED
      BY <2>1
  <2>3. FlattenSeq(ss) = h[n]
    BY <1>8 DEF FlattenSeq
  <2> HIDE DEF h
  <2>4. \A i \in 1..n : h[i] = IF i = 1 THEN ss[i] ELSE h[i - 1] \o ss[i]
    BY <2>2
  <2> DEFINE T == {i \in 0..n : i # 0 => h[i] = f[i]}
  <2>5. 0 \in T
    BY <1>1
  <2>6. ASSUME NEW i \in 1..n, i - 1 \in T PROVE i \in T
    <3>1. CASE i = 1
      BY <1>0, <1>8, <2>4, <3>1
    <3>2. CASE i # 1
      <4>1. h[i - 1] = f[i - 1]
        BY <2>6, <3>2
      <4>2. h[i] = h[i - 1] \o ss[i] /\ f[i] = f[i - 1] \o ss[i]
        BY <1>5, <2>4, <3>2, Zenon
      <4>3. i \in 0..n
        BY <1>1
      <4>4. QED
        BY <4>1, <4>2, <4>3, Zenon
    <3>3. QED
      BY <3>1, <3>2
  <2>7. n \in T
    <3> HIDE DEF T
    <3>1. \A i \in 0..n : i \in T
      BY <1>1, <2>5, <2>6, Induct
    <3>2. QED
      BY <1>1, <3>1
  <2>8. QED
    BY <1>6, <1>8, <2>3, <2>7
<1>9. QED
  BY <1>7, <1>8

LEMMA FlattenNone == FlattenSeq(<<>>) = <<>>
BY DEF FlattenSeq

\* What joins last comes last.
LEMMA FlattenAppend ==
  ASSUME NEW S, NEW ss \in Seq(Seq(S)), NEW t \in Seq(S)
  PROVE  /\ FlattenSeq(ss) \in Seq(S)
         /\ FlattenSeq(Append(ss, t)) = FlattenSeq(ss) \o t
<1> DEFINE n == Len(ss)
           tt == Append(ss, t)
<1>1. PICK f \in [0..n -> Seq(S)] : Joins(f, ss) /\ FlattenSeq(ss) = f[n]
  BY FlattenForm
<1>2. tt \in Seq(Seq(S)) /\ Len(tt) = n + 1 /\ tt[n + 1] = t /\ \A i \in 1..n : tt[i] = ss[i]
  OBVIOUS
<1>3. n \in Nat
  OBVIOUS
<1> HIDE DEF tt, n
<1>4. PICK g \in [0..Len(tt) -> Seq(S)] : Joins(g, tt) /\ FlattenSeq(tt) = g[Len(tt)]
  BY <1>2, FlattenForm
<1> DEFINE T == {i \in 0..n : f[i] = g[i]}
<1>5. 0 \in T
  BY <1>1, <1>3, <1>4 DEF Joins
<1>6. ASSUME NEW i \in 1..n, i - 1 \in T PROVE i \in T
  <2>1. f[i] = f[i - 1] \o ss[i]
    BY <1>1, <1>3 DEF Joins, n
  <2>2. i \in 1..Len(tt) /\ i \in 0..n
    BY <1>2, <1>3
  <2>3. g[i] = g[i - 1] \o tt[i]
    BY <1>4, <2>2, Zenon DEF Joins
  <2>4. f[i - 1] = g[i - 1] /\ tt[i] = ss[i]
    BY <1>2, <1>6
  <2>5. QED
    BY <2>1, <2>2, <2>3, <2>4, Zenon
<1>7. f[n] = g[n]
  <2> HIDE DEF T
  <2>1. \A i \in 0..n : i \in T
    BY <1>3, <1>5, <1>6, Induct
  <2>2. n \in T
    BY <1>3, <2>1
  <2>3. QED
    BY <2>2 DEF T
<1>8. g[n + 1] = g[n] \o t
  <2>0. Len(tt) = n + 1 /\ n \in Nat
    BY <1>2, <1>3, Zenon
  <2>1. n + 1 \in 1..Len(tt) /\ (n + 1) - 1 = n
    BY <2>0
  <2>2. g[n + 1] = g[(n + 1) - 1] \o tt[n + 1]
    BY <1>4, <2>1, Zenon DEF Joins
  <2>3. QED
    BY <1>2, <2>1, <2>2
<1>9. f[n] \in Seq(S)
  BY <1>3
<1>10. QED
  BY <1>1, <1>2, <1>4, <1>7, <1>8, <1>9 DEF tt

LEMMA FlattenOne ==
  ASSUME NEW S, NEW t \in Seq(S)
  PROVE  FlattenSeq(<<t>>) = t
<1>1. <<>> \in Seq(Seq(S)) /\ <<t>> = Append(<<>>, t) /\ <<>> \o t = t
  OBVIOUS
<1>2. QED
  BY <1>1, FlattenAppend, FlattenNone

LEMMA FlattenTwo ==
  ASSUME NEW S, NEW s \in Seq(S), NEW t \in Seq(S)
  PROVE  FlattenSeq(<<s, t>>) = s \o t
<1>1. <<s>> \in Seq(Seq(S)) /\ <<s, t>> = Append(<<s>>, t)
  OBVIOUS
<1>2. FlattenSeq(Append(<<s>>, t)) = FlattenSeq(<<s>>) \o t
  BY <1>1, FlattenAppend
<1>3. QED
  BY <1>1, <1>2, FlattenOne

-----------------------------------------------------------------------------
(* What a slab selects.                                                    *)

\* The last element is the last one up to the end.
Consistent(s) == s.srt + s.srd * (s.cnt - 1) <= s.end /\ s.end < s.srt + s.srd * s.cnt

LEMMA Times ==
  ASSUME NEW d \in Nat \ {0}, NEW a \in Nat, NEW b \in Nat
  PROVE  /\ d * a \in Nat /\ (a < b => d * a < d * b /\ d * a + d <= d * b)
         /\ a <= b => d * a <= d * b
OBVIOUS

LEMMA PicksOf ==
  ASSUME NEW s \in Slab, s.cnt # 0, Consistent(s)
  PROVE  Picks(s) = {s.srt + s.srd * k : k \in 0..(s.cnt - 1)}
<1> DEFINE a == s.srt
           d == s.srd
           n == s.cnt
           e == s.end
<1>1. a \in Nat /\ d \in Nat \ {0} /\ n \in Nat \ {0} /\ e \in Int
  BY DEF Slab
<1>2. a + d * (n - 1) <= e /\ e < a + d * n
  BY DEF Consistent
<1>3. ASSUME NEW x \in Picks(s) PROVE \E k \in 0..(n - 1) : x = a + d * k
  <2>1. PICK k \in Nat : x = a + d * k
    BY PickForm
  <2>2. CASE k = 0
    BY <1>1, <2>1, <2>2
  <2>3. CASE k # 0
    <3>1. d * k \in Nat /\ d * k > 0
      BY <1>1, <2>3
    <3>2. x <= e
      BY <1>1, <2>1, <3>1, PickForm
    <3>3. k >= n => d * n <= d * k
      BY <1>1, Times
    <3>4. d * n \in Nat
      BY <1>1
    <3> HIDE DEF a, d, n, e
    <3>5. k < n
      BY <1>1, <1>2, <2>1, <3>1, <3>2, <3>3, <3>4
    <3>6. QED
      BY <1>1, <2>1, <3>5
  <2>4. QED
    BY <2>2, <2>3
<1>4. ASSUME NEW k \in 0..(n - 1) PROVE a + d * k \in Picks(s)
  <2>1. k \in Nat /\ d * k \in Nat /\ d * (n - 1) \in Nat /\ d * k <= d * (n - 1) /\ k <= d * k
    BY <1>1, Times
  <2> DEFINE x == a + d * k
  <2>2. x \in a..e /\ k \in 0..(x - a)
    <3> HIDE DEF a, d, n, e
    <3> DEFINE y == d * k
               z == d * (n - 1)
    <3> HIDE DEF y, z
    <3>1. y \in Nat /\ z \in Nat /\ y <= z /\ k <= y /\ a + z <= e /\ x = a + y
      BY <1>2, <2>1 DEF y, z
    <3>2. QED
      BY <1>1, <2>1, <3>1
  <2>3. QED
    BY <2>2, PickIntro
<1>5. QED
  BY <1>3, <1>4

\* The elements of a slab in order.
Listed(s) == [k \in 1..s.cnt |-> s.srt + s.srd * (k - 1)]

LEMMA ListedFacts ==
  ASSUME NEW s \in Slab
  PROVE  /\ Listed(s) \in Seq(Int) /\ Len(Listed(s)) = s.cnt /\ Asc(Listed(s))
         /\ s.cnt # 0 /\ Consistent(s) => Range(Listed(s)) = Picks(s)
<1> DEFINE a == s.srt
           d == s.srd
           n == s.cnt
           t == Listed(s)
<1>1. a \in Nat /\ d \in Nat \ {0} /\ n \in Nat
  BY DEF Slab
<1>2. \A k \in 1..n : d * (k - 1) \in Nat /\ a + d * (k - 1) \in Int
  BY <1>1, Times
<1>3. t = [k \in 1..n |-> a + d * (k - 1)]
  BY DEF Listed
<1> HIDE DEF a, d, n, t
<1>4. t \in Seq(Int) /\ Len(t) = n /\ DOMAIN t = 1..n
  BY <1>1, <1>2, <1>3
<1>5. Asc(t)
  <2>1. ASSUME NEW i \in 1..n, NEW j \in 1..n, i < j PROVE t[i] < t[j]
    <3>1. i - 1 \in Nat /\ j - 1 \in Nat /\ i - 1 < j - 1
      BY <1>1, <2>1
    <3>2. d * (i - 1) < d * (j - 1)
      BY <1>1, <3>1, Times
    <3>3. t[i] = a + d * (i - 1) /\ t[j] = a + d * (j - 1)
      BY <1>3
    <3>4. QED
      BY <1>1, <1>2, <3>2, <3>3
  <2>2. QED
    BY <1>4, <2>1 DEF Asc
<1>6. ASSUME n # 0, Consistent(s) PROVE Range(t) = Picks(s)
  <2>1. Picks(s) = {a + d * k : k \in 0..(n - 1)}
    BY <1>6, PicksOf DEF a, d, n
  <2>2. Range(t) = {a + d * (k - 1) : k \in 1..n}
    BY <1>3, <1>4 DEF Range
  <2>3. \A k \in 0..(n - 1) : k + 1 \in 1..n /\ (k + 1) - 1 = k
    BY <1>1
  <2>4. \A k \in 1..n : k - 1 \in 0..(n - 1)
    BY <1>1
  <2>5. ASSUME NEW k \in 0..(n - 1) PROVE a + d * k \in Range(t)
    <3>1. a + d * ((k + 1) - 1) \in Range(t)
      BY <2>2, <2>3
    <3>2. QED
      BY <2>3, <3>1
  <2>6. QED
    BY <2>1, <2>2, <2>4, <2>5
<1>7. QED
  BY <1>4, <1>5, <1>6 DEF t, n

-----------------------------------------------------------------------------
(* Merging lists the union of the slabs in ascending order.                *)

Union(lmt) == UNION {Picks(lmt[i]) : i \in DOMAIN lmt}
ByValue(lmt, ind) ==
  \A i \in DOMAIN lmt : \A x \in Picks(lmt[i]) :
    Gone(ind, i, x) => \A j \in DOMAIN lmt : Gone(ind, j, x)
Behind(lmt, ind) == {x \in Union(lmt) : \A i \in DOMAIN lmt : Gone(ind, i, x)}

LEMMA UnionInt ==
  ASSUME NEW lmt \in Seq(Slab)
  PROVE  /\ Union(lmt) \subseteq Nat
         /\ \A x \in Union(lmt) : \E i \in DOMAIN lmt : x \in Picks(lmt[i])
<1>1. \A i \in DOMAIN lmt : lmt[i] \in Slab
  BY SeqOver
<1>2. \A i \in DOMAIN lmt : Picks(lmt[i]) \subseteq Nat
  BY <1>1, PickForm
<1>3. QED
  BY <1>2 DEF Union

\* At the start no element is behind, when no index is left all are.
LEMMA BehindStart ==
  ASSUME NEW lmt \in Seq(Slab)
  PROVE  /\ OnSlabs(lmt, Start(lmt)) /\ ByValue(lmt, Start(lmt))
         /\ lmt # <<>> => Behind(lmt, Start(lmt)) = {}
<1>1. /\ OnSlabs(lmt, Start(lmt))
      /\ \A i \in DOMAIN lmt : \A x \in Picks(lmt[i]) : ~Gone(Start(lmt), i, x)
  BY StartFacts
<1>2. \A x \in Union(lmt) : \E i \in DOMAIN lmt : x \in Picks(lmt[i])
  BY UnionInt
<1>3. QED
  BY <1>1, <1>2 DEF ByValue, Behind

LEMMA BehindEnd ==
  ASSUME NEW lmt \in Seq(Slab), NEW ind, OnSlabs(lmt, ind), Mnm(ind) = {}
  PROVE  Behind(lmt, ind) = Union(lmt)
<1>1. \A i \in DOMAIN lmt : ind[i] = -1
  BY NoneLeft DEF OnSlabs
<1>2. QED
  BY <1>1 DEF Behind, Gone

\* A pass of the loop puts one more element behind, which is above all others.
LEMMA BehindNext ==
  ASSUME NEW lmt \in Seq(Slab), NEW ind, OnSlabs(lmt, ind), ByValue(lmt, ind), Mnm(ind) # {}
  PROVE  LET m == MinIdx(ind)
             nxt == Advance(lmt, ind)
         IN  /\ OnSlabs(lmt, nxt) /\ ByValue(lmt, nxt)
             /\ m \in Union(lmt) /\ m \in Nat
             /\ Behind(lmt, nxt) = Behind(lmt, ind) \cup {m}
             /\ \A x \in Behind(lmt, ind) : x < m
             /\ \A x \in Union(lmt) \ Behind(lmt, ind) : m <= x
<1> DEFINE m == MinIdx(ind)
           nxt == Advance(lmt, ind)
           D == DOMAIN lmt
<1>1. /\ OnSlabs(lmt, nxt)
      /\ \A i \in D : \A x \in Picks(lmt[i]) :
           Gone(nxt, i, x) <=> Gone(ind, i, x) \/ (x = m /\ ind[i] = m)
      /\ \A i \in D, x \in Int : Gone(ind, i, x) => Gone(nxt, i, x)
      /\ \A i \in D : Gone(nxt, i, m)
      /\ \E i \in D : ind[i] = m
  BY AdvanceFacts
<1>2. m \in Nat /\ \A i \in D : ind[i] # -1 => m <= ind[i]
  BY MinIdxFacts DEF OnSlabs
<1>3. PICK c \in D : ind[c] = m
  BY <1>1
<1>4. m \in Picks(lmt[c]) /\ m \in Union(lmt)
  BY <1>2, <1>3 DEF OnSlabs, Union
<1>5. /\ Union(lmt) \subseteq Nat
      /\ \A x \in Union(lmt) : \E i \in D : x \in Picks(lmt[i])
  BY UnionInt
<1>6. \A i \in D : Picks(lmt[i]) \subseteq Union(lmt)
  BY DEF Union
<1> HIDE DEF nxt, m
<1>7. ByValue(lmt, nxt)
  <2>1. SUFFICES ASSUME NEW i \in D, NEW x \in Picks(lmt[i]), Gone(nxt, i, x), NEW j \in D
                 PROVE  Gone(nxt, j, x)
    BY DEF ByValue
  <2>2. x \in Int
    BY <1>5, <1>6
  <2>3. CASE x = m
    BY <1>1, <2>3
  <2>4. CASE x # m
    <3>1. Gone(ind, i, x)
      BY <1>1, <2>1, <2>4
    <3>2. Gone(ind, j, x)
      BY <3>1 DEF ByValue
    <3>3. QED
      BY <1>1, <2>2, <3>2
  <2>5. QED
    BY <2>3, <2>4
<1>8. Behind(lmt, nxt) = Behind(lmt, ind) \cup {m}
  <2>1. ASSUME NEW x \in Behind(lmt, nxt), x # m PROVE x \in Behind(lmt, ind)
    <3>1. PICK i \in D : x \in Picks(lmt[i])
      BY <1>5 DEF Behind
    <3>2. Gone(ind, i, x)
      BY <1>1, <2>1, <3>1 DEF Behind
    <3>3. QED
      BY <3>1, <3>2 DEF Behind, ByValue
  <2>2. Behind(lmt, ind) \subseteq Behind(lmt, nxt)
    BY <1>1, <1>5 DEF Behind
  <2>3. m \in Behind(lmt, nxt)
    BY <1>1, <1>4 DEF Behind
  <2>4. QED
    BY <2>1, <2>2, <2>3
<1>9. ASSUME NEW x \in Behind(lmt, ind) PROVE x < m
  <2>1. Gone(ind, c, x)
    BY DEF Behind
  <2>2. QED
    BY <1>2, <1>3, <2>1 DEF Gone
<1>10. ASSUME NEW x \in Union(lmt), x \notin Behind(lmt, ind) PROVE m <= x
  <2>1. PICK i \in D : x \in Picks(lmt[i])
    BY <1>5
  <2>2. ~Gone(ind, i, x)
    BY <1>10, <2>1 DEF Behind, ByValue
  <2>3. ind[i] \in Nat /\ m <= ind[i] /\ x >= ind[i]
    <3>1. ind[i] # -1 /\ ~(x < ind[i])
      BY <2>2 DEF Gone
    <3>2. ind[i] \in Picks(lmt[i])
      BY <3>1 DEF OnSlabs
    <3>3. QED
      BY <1>2, <1>5, <1>6, <3>1, <3>2
  <2>4. QED
    BY <1>2, <1>5, <2>3
<1>11. QED
  BY <1>1, <1>2, <1>4, <1>7, <1>8, <1>9, <1>10 DEF m, nxt

-----------------------------------------------------------------------------
(* The pieces in memory.                                                   *)

PieceOf(lmt, r) == [k \in 1..r.cnt |-> lmt[r.slb].srt + lmt[r.slb].srd * (r.srt + k - 1)]
Reads(lmt) == [slb : DOMAIN lmt, srt : Int, cnt : Nat]

LEMMA PieceOfType ==
  ASSUME NEW lmt \in Seq(Slab), NEW r \in Reads(lmt)
  PROVE  PieceOf(lmt, r) \in Seq(Int) /\ Len(PieceOf(lmt, r)) = r.cnt
<1>1. lmt[r.slb] \in Slab
  BY SeqOver DEF Reads
<1>2. lmt[r.slb].srt \in Int /\ lmt[r.slb].srd \in Int /\ r.srt \in Int /\ r.cnt \in Nat
  BY <1>1 DEF Slab, Reads
<1>3. \A k \in 1..r.cnt : lmt[r.slb].srt + lmt[r.slb].srd * (r.srt + k - 1) \in Int
  BY <1>2
<1>4. PieceOf(lmt, r) \in [1..r.cnt -> Int]
  BY <1>3 DEF PieceOf
<1>5. QED
  BY <1>2, <1>4

LEMMA ElementsForm ==
  ASSUME NEW lmt \in Seq(Slab), NEW rds \in Seq(Reads(lmt))
  PROVE  /\ [r \in DOMAIN rds |-> PieceOf(lmt, rds[r])] \in Seq(Seq(Int))
         /\ Elements(lmt, rds) = FlattenSeq([r \in DOMAIN rds |-> PieceOf(lmt, rds[r])])
<1>1. /\ DOMAIN rds = 1..Len(rds) /\ Len(rds) \in Nat
      /\ \A r \in DOMAIN rds : rds[r] \in Reads(lmt)
  BY SeqOver
<1>2. \A r \in DOMAIN rds : PieceOf(lmt, rds[r]) \in Seq(Int)
  BY <1>1, PieceOfType
<1>3. [r \in DOMAIN rds |-> PieceOf(lmt, rds[r])] \in [1..Len(rds) -> Seq(Int)]
  BY <1>1, <1>2
<1>4. QED
  BY <1>1, <1>3, SeqIntro DEF Elements, PieceOf

LEMMA ElementsNone == \A lmt : Elements(lmt, <<>>) = <<>>
<1>1. \A lmt : Elements(lmt, <<>>) = FlattenSeq(<<>>)
  BY DEF Elements
<1>2. QED
  BY <1>1, FlattenNone

LEMMA ElementsAppend ==
  ASSUME NEW lmt \in Seq(Slab), NEW rds \in Seq(Reads(lmt)), NEW r \in Reads(lmt)
  PROVE  /\ Elements(lmt, rds) \in Seq(Int)
         /\ Elements(lmt, Append(rds, r)) = Elements(lmt, rds) \o PieceOf(lmt, r)
<1> DEFINE pcs(s) == [q \in DOMAIN s |-> PieceOf(lmt, s[q])]
<1>1. /\ pcs(rds) \in Seq(Seq(Int)) /\ Elements(lmt, rds) = FlattenSeq(pcs(rds))
  BY ElementsForm
<1>2. Append(rds, r) \in Seq(Reads(lmt))
  BY AppendType
<1>3. Elements(lmt, Append(rds, r)) = FlattenSeq(pcs(Append(rds, r)))
  BY <1>2, ElementsForm
<1>4. pcs(Append(rds, r)) = Append(pcs(rds), PieceOf(lmt, r))
  <2> DEFINE n == Len(rds)
  <2>1. /\ n \in Nat /\ DOMAIN rds = 1..n /\ DOMAIN Append(rds, r) = 1..(n + 1)
        /\ Append(rds, r)[n + 1] = r /\ \A i \in 1..n : Append(rds, r)[i] = rds[i]
    OBVIOUS
  <2>2. Len(pcs(rds)) = n
    BY <2>1
  <2>3. Append(pcs(rds), PieceOf(lmt, r)) =
          [i \in 1..(n + 1) |-> IF i = n + 1 THEN PieceOf(lmt, r) ELSE pcs(rds)[i]]
    BY <1>1, <2>2
  <2>4. \A i \in 1..(n + 1) : i = n + 1 \/ i \in 1..n
    BY <2>1
  <2>5. QED
    BY <2>1, <2>3, <2>4
<1>5. PieceOf(lmt, r) \in Seq(Int)
  BY PieceOfType
<1> HIDE DEF pcs
<1>6. QED
  BY <1>1, <1>3, <1>4, <1>5, FlattenAppend

-----------------------------------------------------------------------------
(* Slabs that wrap, and their halves.                                      *)

\* A slab as nco_lmt_evl_dmn_crd() leaves it.
Evaluated(sz, s) ==
  /\ s.cnt # 0 /\ s.srt < sz
  /\ ~Wraps(s) => Consistent(s)
  /\ Wraps(s) => /\ s.end \in Nat
                 /\ s.srt + s.srd * (s.cnt - 1) <= sz + s.end
                 /\ sz + s.end < s.srt + s.srd * s.cnt

LEMMA EvlEvaluated ==
  ASSUME NEW p \in Problems, NEW i \in DOMAIN p.lmt
  PROVE  LET s == EvlDmnCrd(p.sz, p.crd, p.lmt[i]) IN s = Refused \/ Evaluated(p.sz, s)
<1> DEFINE l == p.lmt[i]
           s == EvlDmnCrd(p.sz, p.crd, l)
<1>1. /\ p.sz \in Nat \ {0} /\ p.crd \in Seq(Int) /\ (p.crd # <<>> => Len(p.crd) = p.sz)
      /\ IsLimit(p, l)
  BY ProblemsAssumption
<1>2. l.typ \in {"idx", "crd"} /\ l.srd \in Nat \ {0} /\ (l.typ = "crd" => p.crd # <<>>)
  BY <1>1 DEF IsLimit
<1> HIDE DEF l
<1>3. s = Refused \/ \E srt \in 0..(p.sz - 1), e \in Nat : s = SlabOf(p.sz, srt, e, l.srd)
  BY EvlForm DEF l
<1> HIDE DEF s
<1>4. ASSUME s # Refused PROVE Evaluated(p.sz, s)
  <2>1. PICK srt \in 0..(p.sz - 1), e \in Nat : s = SlabOf(p.sz, srt, e, l.srd)
    BY <1>3, <1>4
  <2>0. l.srd \in Nat \ {0} /\ p.sz \in Nat \ {0}
    BY <1>1, <1>2
  <2> DEFINE n == s.cnt
             d == l.srd
  <2>2. /\ s.srt = srt /\ s.srd = d /\ s.end \in Nat /\ n \in Nat \ {0}
        /\ srt <= e => s.end = e /\ srt + d * (n - 1) <= e /\ e < srt + d * n
        /\ srt > e =>
              /\ srt + d * (n - 1) <= p.sz + e /\ p.sz + e < srt + d * n
              /\ s.end = e \/ (s.end = srt + d * (n - 1) /\ s.end < p.sz)
    BY <2>0, <2>1, SlabOfFacts
  <2>3. d * (n - 1) \in Nat /\ d * (n - 1) < d * n /\ d * n \in Nat
    <3>1. n - 1 \in Nat /\ n \in Nat /\ n - 1 < n
      BY <2>2
    <3>2. QED
      BY <2>0, <3>1, Times
  <2> HIDE DEF n, d
  <2>4. s.end = srt + d * (n - 1) => ~(srt > s.end)
    BY <2>2, <2>3
  <2>5. srt \in Nat /\ srt < p.sz
    BY <1>1
  <2>6. ASSUME ~(srt > s.end) PROVE srt + d * (n - 1) <= s.end /\ s.end < srt + d * n
    BY <2>2, <2>3, <2>5, <2>6
  <2>7. ASSUME srt > s.end PROVE srt + d * (n - 1) <= p.sz + s.end /\ p.sz + s.end < srt + d * n
    BY <2>2, <2>3, <2>4, <2>5, <2>7
  <2>8. QED
    BY <2>2, <2>5, <2>6, <2>7 DEF Evaluated, Wraps, Consistent, n, d
<1>5. s = Refused \/ Evaluated(p.sz, s)
  BY <1>4
<1>6. QED
  BY <1>5, Zenon DEF l, s

LEMMA Mod ==
  ASSUME NEW a \in Nat, NEW b \in Nat \ {0}
  PROVE  (a < b => a % b = a) /\ (b <= a /\ a < 2 * b => a % b = a - b)
OBVIOUS

LEMMA PieceFacts ==
  ASSUME NEW srt \in Nat, NEW cnt \in Nat, NEW srd \in Nat \ {0}
  PROVE  /\ Piece(srt, cnt, srd).srt = srt /\ Piece(srt, cnt, srd).cnt = cnt
         /\ Piece(srt, cnt, srd).end = srt + srd * (cnt - 1)
         /\ Piece(srt, cnt, srd).srd = (IF cnt = 1 THEN 1 ELSE srd)
         /\ cnt # 0 => Consistent(Piece(srt, cnt, srd))
<1> DEFINE p == Piece(srt, cnt, srd)
<1>1. /\ p.srt = srt /\ p.cnt = cnt /\ p.end = srt + srd * (cnt - 1)
      /\ p.srd = (IF cnt = 1 THEN 1 ELSE srd)
  BY DEF Piece
<1> HIDE DEF p
<1>2. ASSUME cnt # 0 PROVE Consistent(p)
  <2>1. cnt - 1 \in Nat /\ cnt - 1 < cnt
    BY <1>2
  <2>2. srd * (cnt - 1) \in Nat /\ srd * cnt \in Nat /\ srd * (cnt - 1) < srd * cnt
    BY <2>1, Times
  <2>3. CASE cnt = 1
    BY <1>1, <2>3 DEF Consistent
  <2>4. CASE cnt # 1
    BY <1>1, <2>2, <2>4 DEF Consistent
  <2>5. QED
    BY <2>3, <2>4
<1>3. QED
  BY <1>1, <1>2 DEF p

LEMMA PieceElement ==
  ASSUME NEW srt \in Nat, NEW cnt \in Nat, NEW srd \in Nat \ {0}, NEW k \in 0..(cnt - 1)
  PROVE  Piece(srt, cnt, srd).srt + Piece(srt, cnt, srd).srd * k = srt + srd * k
<1> DEFINE p == Piece(srt, cnt, srd)
<1>1. p.srt = srt /\ p.srd = (IF cnt = 1 THEN 1 ELSE srd)
  BY DEF Piece
<1> HIDE DEF p
<1>2. p.srt + p.srd * k = srt + srd * k
  <2>1. CASE cnt = 1
    BY <1>1, <2>1
  <2>2. CASE cnt # 1
    BY <1>1, <2>2
  <2>3. QED
    BY <2>1, <2>2
<1>3. QED
  BY <1>2 DEF p

\* Where nco_msa_wrp_splt_trv() cuts: the first half ends at the last element
\* before the end of the dimension, the second goes on around it.
LEMMA SplitFacts ==
  ASSUME NEW sz \in Nat \ {0}, NEW s \in Slab, Evaluated(sz, s), Wraps(s)
  PROVE  LET n == CntFirst(sz, s) IN
         /\ n \in 1..s.cnt
         /\ \A j \in 0..(n - 1) : s.srt + s.srd * j < sz
         /\ \A j \in n..(s.cnt - 1) : /\ sz <= s.srt + s.srd * j
                                      /\ (s.srt + s.srd * j) - sz < s.srt
         /\ First(sz, s) = Piece(s.srt, n, s.srd)
         /\ n < s.cnt => Second(sz, s) = Piece((s.srt + s.srd * n) - sz, s.cnt - n, s.srd)
         /\ n = s.cnt => Second(sz, s) = Piece(s.srt + s.srd * (n - 1), 0, s.srd)
<1> DEFINE n == CntFirst(sz, s)
           a == s.srt
           d == s.srd
           c == s.cnt
           e == s.end
           at(j) == a + d * j
           S == {j \in 0..(c - 1) : at(j) % sz < a}
<1>1. a \in Nat /\ d \in Nat \ {0} /\ c \in Nat \ {0} /\ e \in Nat /\ a < sz /\ a > e
  BY DEF Slab, Evaluated, Wraps
<1>2. at(c - 1) <= sz + e
  BY DEF Evaluated
<1>3. n = IF S = {} THEN c ELSE Min(S)
  BY DEF CntFirst, MinOr
<1>4. First(sz, s) = Piece(a, n, d)
  BY DEF First
<1>5. Second(sz, s) = Piece(at(IF n < c THEN n ELSE n - 1) % sz, c - n, d)
  BY DEF Second
<1>6. \A j \in 0..(c - 1) : at(j) \in Nat /\ at(j) <= at(c - 1) /\ a <= at(j)
  <2>1. ASSUME NEW j \in 0..(c - 1) PROVE at(j) \in Nat /\ at(j) <= at(c - 1) /\ a <= at(j)
    <3>1. d * j \in Nat /\ d * (c - 1) \in Nat /\ d * j <= d * (c - 1)
      BY <1>1, Times
    <3>2. QED
      BY <1>1, <3>1
  <2>2. QED
    BY <2>1
<1>6a. \A i, j \in 0..(c - 1) : i <= j => at(i) <= at(j)
  <2>1. ASSUME NEW i \in 0..(c - 1), NEW j \in 0..(c - 1), i <= j PROVE at(i) <= at(j)
    <3>1. d * j \in Nat /\ d * i \in Nat /\ d * i <= d * j
      BY <1>1, <2>1, Times
    <3>2. QED
      BY <1>1, <3>1
  <2>2. QED
    BY <2>1
<1>6b. at(0) = a
  BY <1>1
<1> HIDE DEF a, d, c, e, at, n
<1>7. \A j \in 0..(c - 1) : at(j) < 2 * sz /\ at(j) - sz < a
  BY <1>1, <1>2, <1>6
<1>8. ASSUME NEW j \in 0..(c - 1) PROVE at(j) % sz < a <=> sz <= at(j)
  <2>1. at(j) < sz => at(j) % sz = at(j)
    BY <1>6, Mod
  <2>2. sz <= at(j) => at(j) % sz = at(j) - sz
    BY <1>6, <1>7, Mod
  <2>3. QED
    BY <1>1, <1>6, <1>7, <2>1, <2>2
<1>9. S = {j \in 0..(c - 1) : sz <= at(j)}
  BY <1>8
<1> HIDE DEF S
<1>10. 0 \notin S
  BY <1>1, <1>6b, <1>9
<1>11. /\ n \in 1..c
       /\ \A j \in 0..(n - 1) : j \in 0..(c - 1) /\ j \notin S
       /\ n < c => n \in S
  <2>1. CASE S = {}
    BY <1>1, <1>3, <2>1
  <2>2. CASE S # {}
    <3>1. S \subseteq Nat /\ S \subseteq 0..(c - 1)
      BY <1>9
    <3>2. Min(S) \in S /\ \A j \in S : Min(S) <= j
      BY <2>2, <3>1, MinFacts, Zenon
    <3>3. n \in S /\ \A j \in S : n <= j
      BY <1>3, <2>2, <3>2
    <3>4. n \in 1..c
      BY <1>1, <1>10, <3>1, <3>3
    <3>5. QED
      BY <1>1, <3>1, <3>3, <3>4
  <2>3. QED
    BY <2>1, <2>2
<1>12. \A j \in 0..(n - 1) : at(j) < sz
  BY <1>6, <1>9, <1>11
<1>13. \A j \in n..(c - 1) : sz <= at(j) /\ at(j) - sz < a
  <2>1. ASSUME NEW j \in n..(c - 1) PROVE sz <= at(j) /\ at(j) - sz < a
    <3>1. n < c /\ n \in 0..(c - 1) /\ j \in 0..(c - 1) /\ n <= j
      BY <1>1, <1>11
    <3>2. sz <= at(n) /\ at(n) <= at(j)
      BY <1>6a, <1>9, <1>11, <3>1
    <3>3. at(n) \in Nat /\ at(j) \in Nat
      BY <1>6, <3>1
    <3>4. QED
      BY <1>7, <3>1, <3>2, <3>3
  <2>2. QED
    BY <2>1
<1>14. ASSUME n < c PROVE Second(sz, s) = Piece(at(n) - sz, c - n, d)
  <2>1. n \in 0..(c - 1) /\ n \in n..(c - 1)
    BY <1>1, <1>11, <1>14
  <2>2. at(n) % sz = at(n) - sz
    BY <1>6, <1>7, <1>13, <2>1, Mod
  <2>3. QED
    BY <1>5, <1>14, <2>2
<1>15. ASSUME n = c PROVE Second(sz, s) = Piece(at(n - 1), 0, d)
  <2>1. n - 1 \in 0..(c - 1) /\ n - 1 \in 0..(n - 1) /\ c - n = 0 /\ ~(n < c)
    BY <1>1, <1>11, <1>15
  <2>2. at(n - 1) % sz = at(n - 1)
    BY <1>6, <1>12, <2>1, Mod
  <2>3. QED
    BY <1>5, <2>1, <2>2
<1>16. n \in 1..c
  BY <1>11
<1>17. /\ n \in 1..c
       /\ \A j \in 0..(n - 1) : at(j) < sz
       /\ \A j \in n..(c - 1) : sz <= at(j) /\ at(j) - sz < a
       /\ First(sz, s) = Piece(a, n, d)
       /\ n < c => Second(sz, s) = Piece(at(n) - sz, c - n, d)
       /\ n = c => Second(sz, s) = Piece(at(n - 1), 0, d)
  BY <1>4, <1>12, <1>13, <1>14, <1>15, <1>16, Zenon
<1>18. QED
  BY <1>17, Zenon DEF n, a, c, d, at

-----------------------------------------------------------------------------
(* The list that is counted, read and printed.                             *)

LEMMA PairCut ==
  ASSUME NEW a, NEW b
  PROVE  SubSeq(<<a, b>>, 1, 2) = <<a, b>> /\ SubSeq(<<a, b>>, 1, 1) = <<a>>
<1> DEFINE t == <<a, b>>
<1>1. t \in Seq({a, b}) /\ Len(t) = 2 /\ t[1] = a /\ t[2] = b
  OBVIOUS
<1>2. SubSeq(t, 1, 2) = [i \in 1..2 |-> t[i]] /\ SubSeq(t, 1, 1) = [i \in 1..1 |-> t[i]]
  <2> HIDE DEF t
  <2>1. QED
    BY <1>1
<1>3. [i \in 1..2 |-> t[i]] = t /\ [i \in 1..1 |-> t[i]] = <<a>>
  BY <1>1
<1>4. QED
  BY <1>2, <1>3

LEMMA PairJoin ==
  ASSUME NEW a, NEW b
  PROVE  <<a>> \o <<b>> = <<a, b>>
<1> DEFINE S == {a, b}
           t == <<a>>
           u == <<b>>
<1>1. t \in Seq(S) /\ u \in Seq(S) /\ Len(t) = 1 /\ Len(u) = 1 /\ t[1] = a /\ u[1] = b
  OBVIOUS
<1> DEFINE v == t \o u
<1>2. v \in Seq(S) /\ Len(v) = 2 /\ v[1] = a /\ v[2] = b
  <2> HIDE DEF t, u, S
  <2>1. /\ v \in Seq(S) /\ Len(v) = Len(t) + Len(u)
        /\ \A i \in 1..Len(t) : v[i] = t[i]
        /\ \A i \in 1..Len(u) : v[Len(t) + i] = u[i]
    BY <1>1, Concat
  <2>2. QED
    BY <1>1, <2>1
<1> HIDE DEF v, S
<1>3. v = <<a, b>>
  BY <1>2
<1>4. QED
  BY <1>3 DEF v

\* A single slab is kept, or becomes its two halves.
LEMMA SpltOne ==
  ASSUME NEW p \in Problems, NEW s \in Slab
  PROVE  Splt(p, <<s>>) = IF Wraps(s) THEN <<First(p.sz, s), Second(p.sz, s)>> ELSE <<s>>
<1> DEFINE lmt == <<s>>
           sz == p.sz
           F == First(sz, s)
           G == Second(sz, s)
<1>1. /\ sz \in Nat \ {0} /\ F \in Slab /\ G \in Slab
      /\ lmt \in Seq(Slab) /\ Len(lmt) = 1 /\ lmt[1] = s
  <2>1. sz \in Nat \ {0}
    BY ProblemsAssumption
  <2>2. F \in Slab /\ G \in Slab
    BY <2>1, HalvesType, Zenon
  <2>3. lmt \in Seq(Slab) /\ Len(lmt) = 1 /\ lmt[1] = s
    OBVIOUS
  <2>4. QED
    BY <2>1, <2>2, <2>3, Zenon
<1>2. CASE p.crd # <<>>
  <2> DEFINE h == Halves(sz, lmt)
             one == [i \in DOMAIN lmt |-> IF Wraps(lmt[i]) THEN First(sz, lmt[i]) ELSE lmt[i]]
  <2>1. Splt(p, lmt) = one \o h[1]
    BY <1>1, <1>2 DEF Splt, WrpSpltCpy, Halves
  <2>2. /\ h[0] = <<>> /\ 1 \in 1..Len(lmt) /\ 1 - 1 = 0
        /\ \A i \in 1..Len(lmt) : /\ Wraps(lmt[i]) => h[i] = Append(h[i - 1], Second(sz, lmt[i]))
                                  /\ ~Wraps(lmt[i]) => h[i] = h[i - 1]
    <3>1. /\ h[0] = <<>>
          /\ \A i \in 1..Len(lmt) : /\ Wraps(lmt[i]) => h[i] = Append(h[i - 1], Second(sz, lmt[i]))
                                    /\ ~Wraps(lmt[i]) => h[i] = h[i - 1]
      <4> HIDE DEF lmt, sz
      <4>1. QED
        BY <1>1, HalvesFacts, Zenon
    <3>2. 1 \in 1..Len(lmt) /\ 1 - 1 = 0
      BY <1>1
    <3>3. QED
      BY <3>1, <3>2, Zenon
  <2>3. h[1] = IF Wraps(s) THEN <<G>> ELSE <<>>
    <3>1. /\ Wraps(lmt[1]) => h[1] = Append(h[1 - 1], Second(sz, lmt[1]))
          /\ ~Wraps(lmt[1]) => h[1] = h[1 - 1]
      BY <2>2
    <3>2. Append(<<>>, G) = <<G>>
      BY <1>1
    <3>3. QED
      BY <1>1, <2>2, <3>1, <3>2
  <2>4. one = IF Wraps(s) THEN <<F>> ELSE <<s>>
    BY <1>1
  <2> HIDE DEF h, one, F, G
  <2>5. QED
    BY <1>1, <2>1, <2>3, <2>4 DEF F, G
<1>3. CASE p.crd = <<>>
  <2> DEFINE step == TrvSteps(sz, lmt)
             splits == {i \in 1..1 : step[i] # step[i - 1]}
             b == <<s, Unset>>
  <2>1. Splt(p, lmt) = SubSeq(step[1], 1, 1 + Cardinality(splits))
    BY <1>1, <1>3 DEF Splt, WrpSpltTrv, TrvSteps
  <2>2. step[0] = b /\ step[1] = TrvStep(sz, 1, step[0])
    <3>1. /\ step[0] = lmt \o [j \in 1..Len(lmt) |-> Unset]
          /\ \A i \in 1..Len(lmt) : step[i] = TrvStep(sz, i, step[i - 1])
      BY <1>1, TrvStepsFacts
    <3>2. 1 \in 1..Len(lmt) /\ 1 - 1 = 0
      BY <1>1
    <3>3. lmt \o [j \in 1..Len(lmt) |-> Unset] = b
      <4>1. 1..1 = {1} /\ [j \in 1..1 |-> Unset] = <<Unset>>
        OBVIOUS
      <4>2. [j \in 1..Len(lmt) |-> Unset] = <<Unset>>
        BY <1>1, <4>1, Zenon
      <4>3. <<s>> \o <<Unset>> = <<s, Unset>>
        BY PairJoin, Zenon
      <4>4. QED
        BY <4>2, <4>3, Zenon
    <3>4. QED
      BY <3>1, <3>2, <3>3
  <2> HIDE DEF step
  <2>3. splits = IF step[1] # b THEN {1} ELSE {}
    <3>1. 1..1 = {1} /\ 1 - 1 = 0
      OBVIOUS
    <3>2. QED
      BY <2>2, <3>1
  <2>4. CASE Wraps(s)
    <3>1. step[1] = <<F, G>>
      <4>1. step[1] = [b EXCEPT ![1] = F, ![1 + 1] = G]
        BY <2>2, <2>4 DEF TrvStep
      <4>2. QED
        BY <4>1
    <3>2. G # Unset
      BY <1>1 DEF Slab, Unset
    <3> HIDE DEF F, G
    <3>3. step[1] # b
      BY <3>1, <3>2
    <3>4. Cardinality(splits) = 1
      BY <2>3, <3>3, FS_Singleton
    <3>5. SubSeq(<<F, G>>, 1, 2) = <<F, G>>
      BY PairCut, Zenon
    <3>6. QED
      BY <2>1, <2>4, <3>1, <3>4, <3>5 DEF F, G
  <2>5. CASE ~Wraps(s)
    <3>1. step[1] = b
      BY <2>2, <2>5 DEF TrvStep
    <3>2. Cardinality(splits) = 0
      BY <2>3, <3>1, FS_EmptySet
    <3>3. SubSeq(b, 1, 1) = <<s>>
      BY PairCut, Zenon
    <3>4. QED
      BY <2>1, <2>5, <3>1, <3>2, <3>3
  <2>6. QED
    BY <2>4, <2>5
<1>4. QED
  BY <1>2, <1>3

\* The halves of a slab that wraps.
Halved(sz, lmt) ==
  \E s \in Slab : Evaluated(sz, s) /\ Wraps(s) /\ lmt = <<First(sz, s), Second(sz, s)>>

\* What the list is, while it is made and when it is handed over.
ListInv ==
  /\ dmn_sz_org = prb.sz
  /\ phase = "evl" => /\ WRP = FALSE /\ dmn_cnt = 0
                      /\ \A i \in DOMAIN lmt_dmn : Evaluated(prb.sz, lmt_dmn[i])
  /\ phase \notin {"evl", "exit", "undefined"} =>
       /\ Len(lmt_dmn) = 1 => lmt_dmn[1].cnt # 0 /\ Consistent(lmt_dmn[1])
       /\ WRP => ~MSA_USR_RDR /\ Halved(prb.sz, lmt_dmn)

LEMMA OrderLists ==
  ASSUME ReadInv, ListInv, Order
  PROVE  ListInv'
<1> DEFINE lmt == Splt(prb, lmt_dmn)
           wrp == Len(lmt_dmn) = 1 /\ Len(lmt) = 2
           kept == wrp \/ Len(lmt) = 1 \/ prb.usr
<1>1. /\ phase = "evl" /\ lmt_dmn \in Seq(Slab) /\ prb \in Problems
      /\ prb' = prb /\ dmn_sz_org' = dmn_sz_org
      /\ \A i \in DOMAIN lmt_dmn : Evaluated(prb.sz, lmt_dmn[i])
  BY DEF Order, ReadInv, ListInv
<1>2. lmt_dmn # <<>>
  <2>1. Len(prb.lmt) \in Nat /\ Len(prb.lmt) # 0 /\ Len(lmt_dmn) = Len(prb.lmt)
    <3> DEFINE S == {prb.lmt[i] : i \in DOMAIN prb.lmt}
    <3>1. prb.lmt \in Seq(S) /\ prb.lmt # <<>>
      BY <1>1, ProblemsAssumption
    <3> HIDE DEF S
    <3>2. QED
      BY <3>1 DEF Order
  <2>2. QED
    BY <1>1, <2>1
<1>3. CASE Unset \in Range(lmt)
  BY <1>1, <1>3 DEF Order, ListInv
<1>4. CASE Unset \notin Range(lmt)
  <2>1. /\ phase' = "count" /\ WRP' = wrp
        /\ kept => lmt_dmn' = lmt /\ MSA_USR_RDR' = (~wrp /\ Len(lmt) > 1)
        /\ ~kept => lmt_dmn' \in Sorted(lmt)
    BY <1>4 DEF Order
  <2>2. lmt \in Seq(Slab) /\ lmt # <<>> /\ Len(lmt) >= Len(lmt_dmn)
    BY <1>1, <1>2, <1>4, SpltType
  <2>3. ASSUME Len(lmt_dmn) = 1
        PROVE  \E s \in Slab : /\ Evaluated(prb.sz, s) /\ lmt_dmn = <<s>>
                               /\ lmt = IF Wraps(s) THEN <<First(prb.sz, s), Second(prb.sz, s)>>
                                        ELSE <<s>>
    <3>1. lmt_dmn = <<lmt_dmn[1]>> /\ lmt_dmn[1] \in Slab /\ 1 \in DOMAIN lmt_dmn
      BY <1>1, <2>3
    <3>2. Evaluated(prb.sz, lmt_dmn[1])
      BY <1>1, <3>1
    <3>3. lmt = IF Wraps(lmt_dmn[1]) THEN <<First(prb.sz, lmt_dmn[1]), Second(prb.sz, lmt_dmn[1])>>
                ELSE <<lmt_dmn[1]>>
      BY <1>1, <3>1, SpltOne
    <3>4. QED
      BY <3>1, <3>2, <3>3
  <2> HIDE DEF lmt
  <2>4. Len(lmt_dmn) \in Nat /\ Len(lmt_dmn) # 0 /\ Len(lmt) \in Nat
    BY <1>1, <1>2, <2>2
  <2>5. ASSUME Len(lmt_dmn') = 1 PROVE lmt_dmn'[1].cnt # 0 /\ Consistent(lmt_dmn'[1])
    <3>1. Len(lmt) = 1
      BY <2>1, <2>2, <2>5, SortedType, Zenon
    <3>2. Len(lmt_dmn) = 1 /\ lmt_dmn' = lmt
      <4>1. Len(lmt_dmn) = 1
        <5>1. \A m, n \in Nat : m >= n /\ n # 0 /\ m = 1 => n = 1
          OBVIOUS
        <5>2. QED
          BY <2>2, <2>4, <3>1, <5>1, Zenon
      <4>2. lmt_dmn' = lmt
        BY <2>1, <3>1, Zenon
      <4>3. QED
        BY <4>1, <4>2
    <3>3. PICK s \in Slab : /\ Evaluated(prb.sz, s)
                            /\ lmt = IF Wraps(s) THEN <<First(prb.sz, s), Second(prb.sz, s)>>
                                     ELSE <<s>>
      BY <2>3, <3>2
    <3>4. ~Wraps(s) /\ lmt = <<s>>
      BY <3>1, <3>3
    <3>5. QED
      BY <3>2, <3>3, <3>4 DEF Evaluated
  <2>6. ASSUME WRP' PROVE ~MSA_USR_RDR' /\ Halved(prb.sz, lmt_dmn')
    <3>1. wrp /\ lmt_dmn' = lmt /\ MSA_USR_RDR' = FALSE
      BY <2>1, <2>6
    <3>2. PICK s \in Slab : /\ Evaluated(prb.sz, s)
                            /\ lmt = IF Wraps(s) THEN <<First(prb.sz, s), Second(prb.sz, s)>>
                                     ELSE <<s>>
      BY <2>3, <3>1
    <3>3. Wraps(s)
      BY <3>1, <3>2
    <3>4. QED
      BY <3>1, <3>2, <3>3 DEF Halved
  <2>7. QED
    BY <1>1, <2>1, <2>5, <2>6 DEF ListInv
<1>5. QED
  BY <1>3, <1>4

LEMMA EvlLists ==
  ASSUME ReadInv, ListInv, Evl
  PROVE  ListInv'
<1> DEFINE lmt == EvlDmnCrd(prb.sz, prb.crd, prb.lmt[Len(lmt_dmn) + 1])
<1>1. /\ phase = "evl" /\ Len(lmt_dmn) < Len(prb.lmt) /\ prb' = prb /\ dmn_sz_org' = dmn_sz_org
      /\ WRP' = WRP /\ dmn_cnt' = dmn_cnt
      /\ IF lmt.cnt = 0 THEN phase' = "exit"
         ELSE lmt_dmn' = Append(lmt_dmn, lmt) /\ phase' = phase
  BY DEF Evl, EvlOr
<1>2. lmt_dmn \in Seq(Slab) /\ prb \in Problems
  BY <1>1 DEF ReadInv
<1>3. lmt = Refused \/ (lmt \in Slab /\ Evaluated(prb.sz, lmt))
  <2>1. prb.lmt \in Seq({prb.lmt[i] : i \in DOMAIN prb.lmt})
    BY <1>2, ProblemsAssumption
  <2>2. Len(lmt_dmn) + 1 \in DOMAIN prb.lmt
    BY <1>1, <1>2, <2>1
  <2>3. QED
    BY <1>2, <2>2, EvlType, EvlEvaluated
<1> HIDE DEF lmt
<1>4. CASE lmt.cnt = 0
  BY <1>1, <1>4 DEF ListInv
<1>5. CASE lmt.cnt # 0
  <2>1. lmt \in Slab /\ Evaluated(prb.sz, lmt) /\ lmt_dmn' = Append(lmt_dmn, lmt) /\ phase' = "evl"
    BY <1>1, <1>3, <1>5 DEF Refused
  <2>2. /\ Len(lmt_dmn) \in Nat /\ DOMAIN lmt_dmn' = (DOMAIN lmt_dmn) \cup {Len(lmt_dmn) + 1}
        /\ lmt_dmn'[Len(lmt_dmn) + 1] = lmt /\ \A i \in DOMAIN lmt_dmn : lmt_dmn'[i] = lmt_dmn[i]
    BY <1>2, <2>1
  <2>3. \A i \in DOMAIN lmt_dmn' : Evaluated(prb.sz, lmt_dmn'[i])
    BY <1>1, <2>1, <2>2 DEF ListInv
  <2>4. QED
    BY <1>1, <2>1, <2>3 DEF ListInv
<1>6. QED
  BY <1>4, <1>5

LEMMA ListInvariant == SpecRead => [](ReadInv /\ ListInv)
<1>1. InitRead => ListInv
  BY DEF InitRead, Init, ListInv
<1>2. ReadInv /\ ListInv /\ [NextRead]_<<vars, prb>> => ListInv'
  <2>1. ASSUME ReadInv, ListInv, Work /\ UNCHANGED prb PROVE ListInv'
    BY <2>1, WorkFacts DEF ListInv, slabs
  <2>2. ASSUME ListInv, UNCHANGED <<vars, prb>> PROVE ListInv'
    BY <2>2 DEF ListInv, vars, prep, slabs
  <2>3. QED
    BY <2>1, <2>2, EvlLists, OrderLists DEF NextRead
<1>3. QED
  BY <1>1, <1>2, ReadInvariant, PTL DEF SpecRead

\* The merge's own invariant holds of requests, too.
LEMMA RequestMergeStep ==
  ASSUME ReadInv, ListInv, MsaInv, [NextRead]_<<vars, prb>>
  PROVE  MsaInv'
<1>1. CASE Evl
  <2>1. /\ indices' = indices /\ indices = <<>> /\ phase = "evl"
        /\ UNCHANGED <<dmn_sz_org, WRP, MSA_USR_RDR, dmn_cnt, crr, prv_slb, reads, printed>>
    BY <1>1, EvlFacts DEF Evl, EvlOr
  <2>2. CASE phase' = "exit"
    <3>1. lmt_dmn' = lmt_dmn
      BY <1>1, <2>1, <2>2 DEF Evl, EvlOr
    <3>2. GiveUp
      BY <2>1, <2>2, <3>1 DEF GiveUp, prep, slabs
    <3>3. QED
      BY <3>2, InvStep, TypeStep DEF MsaInv, Next
  <2>3. CASE phase' = "evl" /\ lmt_dmn' \in Seq(Slab)
    <3>1. reads' = <<>> /\ crr' = NoSlab /\ prv_slb' = 1
      BY <2>1 DEF MsaInv, MergeInv
    <3>2. MsaTypeOK'
      <4>1. \A S : <<>> \in Seq(S)
        OBVIOUS
      <4>2. reads' \in Seq([slb : DOMAIN lmt_dmn', srt : Int, cnt : Nat])
        BY <3>1, <4>1, Zenon
      <4>3. WRP = FALSE
        BY <2>1 DEF ListInv
      <4>4. QED
        BY <2>1, <2>3, <4>2, <4>3 DEF MsaInv, MsaTypeOK
    <3>3. MergeInv'
      BY <2>3, <3>1 DEF MergeInv, MergeDelivers
    <3>4. QED
      BY <3>2, <3>3 DEF MsaInv
  <2>4. QED
    BY <1>1, <2>2, <2>3, EvlFacts
<1>2. CASE Order
  <2>1. phase = "evl" /\ UNCHANGED <<dmn_sz_org, dmn_cnt, crr, prv_slb, reads, printed>>
    BY <1>2 DEF Order
  <2>2. CASE phase' = "undefined" /\ indices' = indices
    <3>1. UNCHANGED <<lmt_dmn, WRP, MSA_USR_RDR>>
      BY <1>2, <2>2 DEF Order
    <3>2. GiveUp
      BY <2>1, <2>2, <3>1 DEF GiveUp, prep, slabs
    <3>3. QED
      BY <3>2, InvStep, TypeStep DEF MsaInv, Next
  <2>3. CASE /\ phase' = "count" /\ lmt_dmn' \in Seq(Slab) /\ lmt_dmn' # <<>>
             /\ WRP' \in BOOLEAN /\ (WRP' => Len(lmt_dmn') = 2)
             /\ MSA_USR_RDR' \in BOOLEAN /\ indices' = Start(lmt_dmn')
    <3>1. Prepare
      BY <2>1, <2>3 DEF Prepare
    <3>2. QED
      BY <3>1, InvStep, TypeStep DEF MsaInv, Next
  <2>4. QED
    BY <1>2, <2>2, <2>3, OrderFacts
<1>3. CASE Work \/ UNCHANGED <<vars, prb>>
  <2>1. [Next]_vars
    BY <1>3 DEF Next
  <2>2. QED
    BY <2>1, InvStep, TypeStep DEF MsaInv
<1>4. QED
  BY <1>1, <1>2, <1>3 DEF NextRead

RequestInv == ReadInv /\ ListInv /\ MsaInv

LEMMA RequestInvariant == SpecRead => []RequestInv
<1>1. InitRead => MsaInv
  <2>1. ASSUME InitRead PROVE Init
    <3>1. dmn_sz_org = prb.sz /\ prb \in Problems /\ Init
      BY <2>1 DEF InitRead
    <3>2. QED
      BY <3>1
  <2>2. QED
    BY <2>1, MsaInit
<1>2. ReadInv /\ ListInv /\ MsaInv /\ [NextRead]_<<vars, prb>> => MsaInv'
  BY RequestMergeStep
<1>3. QED
  BY <1>1, <1>2, ListInvariant, PTL DEF SpecRead, RequestInv

\* A request's slabs, however they overlap, are merged into the union of
\* their elements.
THEOREM RequestDelivers == SpecRead => []MergeDelivers
<1>1. RequestInv => MergeDelivers
  BY DEF RequestInv, MsaInv, MergeInv
<1>2. QED
  BY <1>1, RequestInvariant, PTL

-----------------------------------------------------------------------------
(* Counting and collecting.                                                *)

\* s lists the set S in ascending order.
Lists(s, S) == s \in Seq(Int) /\ Asc(s) /\ Range(s) = S

\* A pass of the loop counts the element it puts behind.
LEMMA CountNext ==
  ASSUME NEW lmt \in Seq(Slab), NEW ind, OnSlabs(lmt, ind), ByValue(lmt, ind), Mnm(ind) # {},
         IsFiniteSet(Behind(lmt, ind))
  PROVE  LET nxt == Advance(lmt, ind)
         IN  /\ OnSlabs(lmt, nxt) /\ ByValue(lmt, nxt)
             /\ IsFiniteSet(Behind(lmt, nxt))
             /\ Cardinality(Behind(lmt, nxt)) = Cardinality(Behind(lmt, ind)) + 1
<1> DEFINE m == MinIdx(ind)
           nxt == Advance(lmt, ind)
           B == Behind(lmt, ind)
<1>1. /\ OnSlabs(lmt, nxt) /\ ByValue(lmt, nxt) /\ m \in Nat
      /\ Behind(lmt, nxt) = B \cup {m} /\ \A x \in B : x < m
  BY BehindNext, Zenon
<1> HIDE DEF m, nxt, B
<1>2. m \notin B
  BY <1>1
<1>3. IsFiniteSet(B \cup {m}) /\ Cardinality(B \cup {m}) = Cardinality(B) + 1
  BY <1>2, FS_AddElement, IsFiniteSet(B) DEF B
<1>4. QED
  BY <1>1, <1>3 DEF B, nxt

\* The sum of the counts, place by place.
LEMMA SumForm ==
  ASSUME NEW lmt \in Seq(Slab)
  PROVE  \E f \in [0..Len(lmt) -> Nat] :
           /\ f[0] = 0 /\ \A i \in 1..Len(lmt) : f[i] = f[i - 1] + lmt[i].cnt
           /\ SumCnt(lmt) = f[Len(lmt)]
<1> DEFINE n == Len(lmt)
           b == 0
           S == Nat
           F == [i \in 1..n |-> [x \in S |-> x + lmt[i].cnt]]
           Is(h) == h = [i \in 0..n |-> IF i = 0 THEN 0 ELSE h[i - 1] + lmt[i].cnt]
           sum == CHOOSE h : Is(h)
<1>1. n \in Nat /\ b \in S /\ \A i \in 1..n : lmt[i].cnt \in Nat
  <2>1. n \in Nat /\ \A i \in 1..n : lmt[i] \in Slab
    OBVIOUS
  <2>2. QED
    BY <2>1 DEF Slab
<1>2. F \in [1..n -> [S -> S]]
  BY <1>1
<1>3. \E f \in [0..n -> S] : Follows(f, n, b, F)
  <2>1. n \in Nat /\ b \in S /\ F \in [1..n -> [S -> S]]
    BY <1>1, <1>2
  <2> HIDE DEF F, n, S, b
  <2>2. QED
    BY <2>1, Recursion, SMT
<1>4. PICK f \in [0..n -> Nat] : f[0] = 0 /\ \A i \in 1..n : f[i] = F[i][f[i - 1]]
  BY <1>3, Zenon DEF Follows
<1>5. ASSUME NEW i \in 1..n PROVE f[i] = f[i - 1] + lmt[i].cnt
  <2>1. i - 1 \in 0..n
    BY <1>1
  <2>2. f[i - 1] \in Nat
    BY <1>4, <2>1
  <2>3. F[i][f[i - 1]] = f[i - 1] + lmt[i].cnt
    BY <2>2
  <2>4. QED
    BY <1>4, <2>3, Zenon
<1>6. Is(f)
  BY <1>1, <1>4, <1>5
<1>7. Is(sum)
  <2> HIDE DEF Is
  <2>1. QED
    BY <1>6
<1>8. SumCnt(lmt) = sum[n]
  BY DEF SumCnt
<1> HIDE DEF sum
<1>9. sum[0] = 0 /\ \A i \in 1..n : sum[i] = sum[i - 1] + lmt[i].cnt
  BY <1>1, <1>7
<1> DEFINE T == {i \in 0..n : sum[i] = f[i]}
<1>10. 0 \in T
  BY <1>1, <1>4, <1>9
<1>11. ASSUME NEW i \in 1..n, i - 1 \in T PROVE i \in T
  BY <1>1, <1>5, <1>9, <1>11
<1>12. \A i \in 0..n : i \in T
  <2> HIDE DEF T
  <2>1. QED
    BY <1>1, <1>10, <1>11, Induct
<1>13. SumCnt(lmt) = f[n]
  <2>1. n \in 0..n
    BY <1>1
  <2>2. QED
    BY <1>8, <1>12, <2>1
<1>14. QED
  BY <1>4, <1>5, <1>13

\* Slabs copied one after the other: all their elements, as many as counted.
LEMMA CopyFacts ==
  ASSUME NEW lmt \in Seq(Slab), NEW rds,
         rds = [i \in DOMAIN lmt |-> [slb |-> i, srt |-> 0, cnt |-> lmt[i].cnt]]
  PROVE  /\ Elements(lmt, rds) = FlattenSeq([i \in DOMAIN lmt |-> Listed(lmt[i])])
         /\ Elements(lmt, rds) \in Seq(Int)
         /\ Len(Elements(lmt, rds)) = SumCnt(lmt)
<1> DEFINE n == Len(lmt)
           ss == [i \in DOMAIN lmt |-> Listed(lmt[i])]
           el == Elements(lmt, rds)
<1>1. n \in Nat /\ DOMAIN lmt = 1..n /\ \A i \in 1..n : lmt[i] \in Slab
  OBVIOUS
<1>2. \A i \in 1..n : Listed(lmt[i]) \in Seq(Int) /\ Len(Listed(lmt[i])) = lmt[i].cnt
  BY <1>1, ListedFacts
<1>3. ss \in Seq(Seq(Int)) /\ Len(ss) = n /\ \A i \in 1..n : ss[i] = Listed(lmt[i])
  <2>1. ss \in [1..n -> Seq(Int)]
    BY <1>1, <1>2
  <2>2. QED
    BY <1>1, <2>1
<1>4. el = FlattenSeq(ss)
  <2>1. DOMAIN rds = DOMAIN lmt
    OBVIOUS
  <2>2. ASSUME NEW i \in DOMAIN lmt
        PROVE  [k \in 1..rds[i].cnt |->
                  lmt[rds[i].slb].srt + lmt[rds[i].slb].srd * (rds[i].srt + k - 1)]
                 = Listed(lmt[i])
    <3>1. rds[i].slb = i /\ rds[i].srt = 0 /\ rds[i].cnt = lmt[i].cnt
      OBVIOUS
    <3>2. \A k \in 1..lmt[i].cnt : 0 + k - 1 = k - 1
      OBVIOUS
    <3>3. QED
      BY <3>1, <3>2 DEF Listed
  <2>3. QED
    BY <2>1, <2>2 DEF Elements
<1> HIDE DEF ss, el, n
<1>5. PICK f \in [0..n -> Seq(Int)] : Joins(f, ss) /\ FlattenSeq(ss) = f[n]
  BY <1>3, FlattenForm
<1>6. PICK g \in [0..n -> Nat] :
        /\ g[0] = 0 /\ \A i \in 1..n : g[i] = g[i - 1] + lmt[i].cnt
        /\ SumCnt(lmt) = g[n]
  BY SumForm DEF n
<1> DEFINE T == {i \in 0..n : Len(f[i]) = g[i]}
<1>7. 0 \in T
  BY <1>1, <1>5, <1>6 DEF Joins
<1>8. ASSUME NEW i \in 1..n, i - 1 \in T PROVE i \in T
  <2>1. i - 1 \in 0..n /\ i \in 0..n
    BY <1>1
  <2>2. f[i] = f[i - 1] \o ss[i] /\ f[i - 1] \in Seq(Int) /\ ss[i] \in Seq(Int)
    BY <1>2, <1>3, <1>5, <2>1 DEF Joins
  <2>3. Len(f[i]) = Len(f[i - 1]) + Len(ss[i])
    BY <2>2, Concat
  <2>4. Len(ss[i]) = lmt[i].cnt /\ Len(f[i - 1]) = g[i - 1]
    BY <1>2, <1>3, <1>8
  <2>5. QED
    BY <1>6, <2>1, <2>3, <2>4
<1>9. \A i \in 0..n : i \in T
  <2> HIDE DEF T
  <2>1. QED
    BY <1>1, <1>7, <1>8, Induct
<1>10. Len(f[n]) = g[n] /\ f[n] \in Seq(Int)
  <2>1. n \in 0..n
    BY <1>1
  <2>2. QED
    BY <1>9, <2>1
<1>11. QED
  BY <1>4, <1>5, <1>6, <1>10 DEF el, ss


\* The two halves: n elements from a, m more from b.
Halves2(sz, lmt, a, n, b, m, d) ==
  /\ n # 0 /\ lmt = <<Piece(a, n, d), Piece(b, m, d)>>
  /\ \A j \in 0..(n - 1) : a + d * j < sz
  /\ m # 0 => /\ b = (a + d * n) - sz
              /\ \A j \in 0..(m - 1) : b + d * j < a
  /\ m = 0 => b = a + d * (n - 1)

LEMMA HalvedForm ==
  ASSUME NEW sz \in Nat \ {0}, NEW lmt, Halved(sz, lmt)
  PROVE  \E a, n, b, m \in Nat, d \in Nat \ {0} : Halves2(sz, lmt, a, n, b, m, d)
<1>1. PICK s \in Slab : Evaluated(sz, s) /\ Wraps(s) /\ lmt = <<First(sz, s), Second(sz, s)>>
  BY DEF Halved
<1> DEFINE F == First(sz, s)
           G == Second(sz, s)
           n == CntFirst(sz, s)
           a == s.srt
           d == s.srd
           c == s.cnt
<1>2. /\ n \in 1..c
      /\ \A j \in 0..(n - 1) : a + d * j < sz
      /\ \A j \in n..(c - 1) : sz <= a + d * j /\ (a + d * j) - sz < a
      /\ F = Piece(a, n, d)
      /\ n < c => G = Piece((a + d * n) - sz, c - n, d)
      /\ n = c => G = Piece(a + d * (n - 1), 0, d)
  BY <1>1, SplitFacts, Zenon
<1>3. a \in Nat /\ d \in Nat \ {0} /\ c \in Nat \ {0}
  BY <1>1 DEF Slab, Evaluated
<1>4. lmt = <<F, G>>
  BY <1>1
<1> HIDE DEF F, G, n, a, d, c
<1>5. n \in Nat /\ n # 0 /\ n - 1 \in Nat /\ c - n \in Nat
  BY <1>2, <1>3
<1>6. CASE n < c
  <2> DEFINE m == c - n
             b == (a + d * n) - sz
  <2>1. m \in Nat /\ m # 0 /\ n \in n..(c - 1)
    BY <1>3, <1>5, <1>6
  <2>2. d * n \in Nat /\ sz <= a + d * n
    BY <1>2, <1>3, <1>5, <2>1, Times
  <2>3. b \in Nat
    BY <1>3, <2>2
  <2>4. ASSUME NEW j \in 0..(m - 1) PROVE b + d * j < a
    <3>1. j \in Nat /\ n + j \in n..(c - 1)
      BY <1>3, <1>5, <2>1
    <3>2. d * (n + j) = d * n + d * j /\ d * j \in Nat
      BY <1>3, <1>5, <3>1, Distribute
    <3>3. (a + d * (n + j)) - sz < a
      BY <1>2, <3>1
    <3>4. QED
      BY <1>3, <2>2, <3>2, <3>3
  <2>5. lmt = <<Piece(a, n, d), Piece(b, m, d)>>
    BY <1>2, <1>4, <1>6
  <2>6. b = (a + d * n) - sz
    OBVIOUS
  <2> HIDE DEF b, m
  <2>7. Halves2(sz, lmt, a, n, b, m, d)
    BY <1>2, <1>5, <2>1, <2>4, <2>5, <2>6 DEF Halves2
  <2>8. QED
    BY <1>3, <1>5, <2>1, <2>3, <2>7
<1>7. CASE n = c
  <2> DEFINE b == a + d * (n - 1)
             m == 0
  <2>1. b \in Nat /\ m \in Nat
    BY <1>3, <1>5, Times
  <2>2. lmt = <<Piece(a, n, d), Piece(b, m, d)>>
    BY <1>2, <1>4, <1>7
  <2>3. Halves2(sz, lmt, a, n, b, m, d)
    BY <1>2, <1>5, <2>2 DEF Halves2
  <2> HIDE DEF b, m
  <2>4. QED
    BY <1>3, <1>5, <2>1, <2>3
<1>8. QED
  BY <1>2, <1>3, <1>5, <1>6, <1>7

\* They share no element.
LEMMA HalvedFacts ==
  ASSUME NEW sz \in Nat \ {0}, NEW lmt,
         NEW a \in Nat, NEW n \in Nat, NEW b \in Nat, NEW m \in Nat, NEW d \in Nat \ {0},
         Halves2(sz, lmt, a, n, b, m, d)
  PROVE  /\ lmt \in Seq(Slab) /\ Len(lmt) = 2
         /\ Listed(lmt[1]) \in Seq(Int) /\ Len(Listed(lmt[1])) = n
         /\ Listed(lmt[2]) \in Seq(Int) /\ Len(Listed(lmt[2])) = m
         /\ IsFiniteSet(Union(lmt)) /\ Cardinality(Union(lmt)) = n + m
<1> DEFINE F == Piece(a, n, d)
           G == Piece(b, m, d)
           f == Listed(F)
           g == Listed(G)
<1>1. n # 0 /\ lmt = <<F, G>>
  BY DEF Halves2
<1>2. F.cnt = n /\ F.srt = a /\ Consistent(F)
      /\ \A k \in 0..(n - 1) : F.srt + F.srd * k = a + d * k
  <2>1. F.cnt = n /\ F.srt = a
    BY PieceFacts
  <2>2. Consistent(F)
    BY <1>1, PieceFacts
  <2>3. \A k \in 0..(n - 1) : F.srt + F.srd * k = a + d * k
    <3>1. ASSUME NEW k \in 0..(n - 1) PROVE F.srt + F.srd * k = a + d * k
      BY PieceElement
    <3>2. QED
      BY <3>1
  <2>4. QED
    BY <2>1, <2>2, <2>3, Zenon
<1>3. G.cnt = m /\ G.srt = b /\ G.end = b + d * (m - 1) /\ (m # 0 => Consistent(G))
      /\ \A k \in 0..(m - 1) : G.srt + G.srd * k = b + d * k
  <2>1. G.cnt = m /\ G.srt = b /\ G.end = b + d * (m - 1)
    BY PieceFacts
  <2>2. m # 0 => Consistent(G)
    BY PieceFacts
  <2>3. \A k \in 0..(m - 1) : G.srt + G.srd * k = b + d * k
    <3>1. ASSUME NEW k \in 0..(m - 1) PROVE G.srt + G.srd * k = b + d * k
      BY PieceElement
    <3>2. QED
      BY <3>1
  <2>4. QED
    BY <2>1, <2>2, <2>3, Zenon
<1>4. F \in Slab /\ G \in Slab
  BY PieceType
<1> HIDE DEF F, G
<1>5. lmt \in Seq(Slab) /\ Len(lmt) = 2 /\ lmt[1] = F /\ lmt[2] = G
  BY <1>1, <1>4
<1>6. Union(lmt) = Picks(F) \cup Picks(G)
  <2>1. DOMAIN lmt = {1, 2}
    BY <1>5
  <2>2. QED
    BY <1>5, <2>1 DEF Union
<1>8. Lists(f, Picks(F)) /\ Len(f) = n
  BY <1>1, <1>2, <1>4, ListedFacts DEF Lists
<1>9. g \in Seq(Int) /\ Len(g) = m /\ Asc(g)
  BY <1>3, <1>4, ListedFacts
<1>10. Picks(F) \subseteq Nat /\ Picks(G) \subseteq Nat /\ \A x \in Picks(F) : x >= a
  BY <1>2, <1>4, PickForm
<1> HIDE DEF f, g
<1>11. CASE m # 0
  <2>1. Picks(G) = {G.srt + G.srd * k : k \in 0..(m - 1)}
    BY <1>3, <1>4, <1>11, PicksOf
  <2>2. \A j \in 0..(m - 1) : b + d * j < a
    BY <1>11 DEF Halves2
  <2>3. \A x \in Picks(G) : x < a
    BY <1>3, <2>1, <2>2
  <2>4. \A y \in Picks(G), x \in Picks(F) : y < x
    BY <1>10, <2>3
  <2>5. Lists(g, Picks(G))
    BY <1>3, <1>4, <1>11, ListedFacts DEF Lists, g
  <2>6. Lists(g \o f, Union(lmt))
    BY <1>6, <1>8, <2>4, <2>5, AscConcat DEF Lists
  <2>7. IsFiniteSet(Union(lmt)) /\ Cardinality(Union(lmt)) = Len(g \o f)
    BY <2>6, AscCardinality DEF Lists
  <2>8. Len(g \o f) = Len(g) + Len(f)
    BY <1>8, <1>9, Concat, Zenon DEF Lists
  <2>9. IsFiniteSet(Union(lmt)) /\ Cardinality(Union(lmt)) = n + m
    BY <1>8, <1>9, <2>7, <2>8
  <2>10. QED
    BY <1>5, <1>8, <1>9, <2>9 DEF Lists, f, g
<1>12. CASE m = 0
  <2>1. b = a + d * (n - 1) /\ n - 1 \in 0..(n - 1)
    BY <1>1, <1>12 DEF Halves2
  <2>2. Picks(G) = {b}
    <3>1. G.end < b
      BY <1>3, <1>12
    <3>2. QED
      BY <1>3, <1>4, <3>1 DEF Picks, Slab
  <2>3. b \in Picks(F)
    <3>1. Picks(F) = {F.srt + F.srd * k : k \in 0..(n - 1)}
      BY <1>1, <1>2, <1>4, PicksOf
    <3>2. F.srt + F.srd * (n - 1) = b
      BY <1>2, <2>1
    <3>3. QED
      BY <2>1, <3>1, <3>2
  <2>4. Union(lmt) = Picks(F)
    BY <1>6, <2>2, <2>3
  <2>5. IsFiniteSet(Union(lmt)) /\ Cardinality(Union(lmt)) = n + m
    BY <1>8, <1>12, <2>4, AscCardinality DEF Lists
  <2>6. QED
    BY <1>5, <1>8, <1>9, <2>5 DEF Lists, f, g
<1>13. QED
  BY <1>11, <1>12

\* The hyperslab being collected, and all elements collected so far.
Run == [k \in 1..crr.cnt |-> crr.srt + lmt_dmn[prv_slb].srd * (k - 1)]
Collected == Delivered \o Run
Multi == Len(lmt_dmn) > 1 /\ ~MSA_USR_RDR

LEMMA AppendByPlace ==
  ASSUME NEW s \in Seq(Int), NEW x \in Int, NEW t, t \in [1..(Len(s) + 1) -> Int],
         t[Len(s) + 1] = x, \A k \in 1..Len(s) : t[k] = s[k]
  PROVE  t = Append(s, x)
<1> DEFINE n == Len(s)
<1>0. n \in Nat
  OBVIOUS
<1>1. /\ Append(s, x) \in Seq(Int) /\ DOMAIN Append(s, x) = 1..(n + 1)
      /\ Append(s, x)[n + 1] = x /\ \A k \in 1..n : Append(s, x)[k] = s[k]
  OBVIOUS
<1> DEFINE u == Append(s, x)
<1>2. u \in [1..(n + 1) -> Int]
  <2>1. \A q \in Seq(Int) : q \in [DOMAIN q -> Int]
    OBVIOUS
  <2>2. u \in [DOMAIN u -> Int] /\ DOMAIN u = 1..(n + 1)
    BY <1>1, <2>1, Zenon
  <2>3. QED
    BY <2>2, Zenon
<1> HIDE DEF u
<1>3. \A k \in 1..(n + 1) : k = n + 1 \/ k \in 1..n
  OBVIOUS
<1>4. \A k \in 1..(n + 1) : t[k] = u[k]
  BY <1>1, <1>3 DEF u
<1>5. t = u
  BY <1>2, <1>4
<1>6. QED
  BY <1>5 DEF u

LEMMA RunAppend ==
  ASSUME NEW a \in Int, NEW d \in Nat \ {0}, NEW n \in Nat,
         NEW run, run = [k \in 1..n |-> a + d * (k - 1)],
         NEW longer, longer = [k \in 1..(n + 1) |-> a + d * (k - 1)]
  PROVE  run \in Seq(Int) /\ longer = Append(run, a + d * n)
<1>1. \A k \in 1..(n + 1) : a + d * (k - 1) \in Int
  BY Times
<1>2. run \in [1..n -> Int] /\ longer \in [1..(n + 1) -> Int]
  <2>1. \A k \in 1..n : k \in 1..(n + 1)
    OBVIOUS
  <2>2. QED
    BY <1>1, <2>1
<1>3. (n + 1) - 1 = n
  OBVIOUS
<1>4. longer[n + 1] = a + d * n /\ \A k \in 1..n : longer[k] = run[k]
  <2>1. n + 1 \in 1..(n + 1) /\ \A k \in 1..n : k \in 1..(n + 1)
    OBVIOUS
  <2>2. QED
    BY <1>3, <2>1
<1>5. run \in Seq(Int) /\ Len(run) = n
  BY <1>2
<1>6. a + d * n \in Int
  BY Times
<1> DEFINE x == a + d * n
<1>7. x \in Int /\ longer[n + 1] = x
  BY <1>4, <1>6
<1> HIDE DEF x
<1>8. longer = Append(run, x)
  <2>1. longer \in [1..(Len(run) + 1) -> Int] /\ longer[Len(run) + 1] = x
        /\ \A k \in 1..Len(run) : longer[k] = run[k]
    BY <1>2, <1>4, <1>5, <1>7
  <2>2. QED
    BY <1>5, <1>7, <2>1, AppendByPlace
<1>9. QED
  BY <1>5, <1>8 DEF x

\* A pass of the loop of nco_msa_clc_idx() adds the smallest index to the run.
LEMMA CollectRun ==
  ASSUME MsaTypeOK, MergeInv, Collect
  PROVE  Run \in Seq(Int) /\ Run' = Append(Run, MinIdx(indices))
<1> DEFINE m == MinIdx(indices)
           c == CrrSlb
           d == lmt_dmn[c].srd
           a == crr.srt'
           n == crr.cnt
<1>1. /\ phase = "merge" /\ Mnm(indices) # {} /\ lmt_dmn' = lmt_dmn /\ prv_slb' = c
      /\ crr' = [srt |-> IF crr.srt = -1 THEN m ELSE crr.srt, end |-> m, cnt |-> crr.cnt + 1]
      /\ crr.srt = -1 \/ c = prv_slb
  BY DEF Collect, prep, slabs
<1>2. CrrInv /\ CrrInv' /\ crr.cnt \in Nat /\ m \in Nat
  BY <1>1, CollectStep, MsaTypes, MinIdxFacts DEF MergeInv, MsaTypeOK
<1>3. /\ c \in DOMAIN lmt_dmn /\ a \in Picks(lmt_dmn[c]) /\ m = a + d * n
  <2>1. crr'.cnt = n + 1 /\ crr'.end = m
    BY <1>1
  <2>2. crr' # NoSlab
    BY <1>2, <2>1 DEF NoSlab
  <2>3. /\ c \in DOMAIN lmt_dmn /\ a \in Picks(lmt_dmn[c])
        /\ crr'.end = a + d * (crr'.cnt - 1)
    BY <1>1, <1>2, <2>2 DEF CrrInv
  <2>4. (n + 1) - 1 = n
    BY <1>2
  <2>5. QED
    BY <2>1, <2>3, <2>4
<1>4. lmt_dmn[c] \in Slab /\ a \in Int /\ d \in Nat \ {0}
  BY <1>3, MsaTypes, PickForm DEF Slab
<1>5. n # 0 => crr.srt = a /\ c = prv_slb
  <2>1. ASSUME n # 0 PROVE crr.srt # -1
    <3>1. prv_slb \in DOMAIN lmt_dmn /\ crr.srt \in Picks(lmt_dmn[prv_slb])
      BY <1>2, <2>1 DEF CrrInv, NoSlab
    <3>2. QED
      BY <3>1, MsaTypes, PickForm
  <2>2. QED
    BY <1>1, <2>1
<1>6. Run = [k \in 1..n |-> a + d * (k - 1)]
  <2>1. CASE n = 0
    <3>1. 1..n = {}
      BY <2>1
    <3>2. QED
      BY <3>1 DEF Run
  <2>2. CASE n # 0
    BY <1>5, <2>2 DEF Run
  <2>3. QED
    BY <2>1, <2>2
<1>7. Run' = [k \in 1..(n + 1) |-> a + d * (k - 1)]
  BY <1>1 DEF Run
<1> HIDE DEF a, c, d, n, m
<1>8. Run \in Seq(Int) /\ Run' = Append(Run, a + d * n)
  <2>1. n \in Nat
    BY <1>2 DEF n
  <2>2. QED
    BY <1>4, <1>6, <1>7, <2>1, RunAppend, Zenon
<1>9. QED
  BY <1>3, <1>8 DEF m

\* nco_msa_clc_idx() returns the run, and nothing is collected anew.
LEMMA ReturnRun ==
  ASSUME MsaTypeOK, MergeInv, Return
  PROVE  /\ Delivered \in Seq(Int) /\ Run \in Seq(Int)
         /\ Delivered' = Delivered \o Run /\ Run' = <<>>
<1> DEFINE s == lmt_dmn[prv_slb]
           q == (crr.srt - s.srt) \div s.srd
           r == [slb |-> prv_slb, cnt |-> crr.cnt, srt |-> q]
<1>1. /\ phase = "merge" /\ lmt_dmn' = lmt_dmn /\ reads' = Append(reads, r)
      /\ crr' = NoSlab /\ crr.srt # -1
  BY DEF Return, prep, slabs
<1>2. /\ prv_slb \in DOMAIN lmt_dmn /\ s \in Slab /\ crr.srt \in Picks(s) /\ crr.cnt \in Nat
  <2>1. crr # NoSlab /\ CrrInv
    BY <1>1 DEF NoSlab, MergeInv
  <2>2. QED
    BY <2>1, MsaTypes DEF CrrInv, MsaTypeOK
<1>3. PICK k \in Nat : crr.srt = s.srt + s.srd * k
  BY <1>2, PickForm
<1>4. q = k /\ s.srd \in Nat \ {0} /\ s.srt \in Nat
  <2>1. s.srd \in Nat \ {0} /\ s.srt \in Nat
    BY <1>2 DEF Slab
  <2>2. s.srd * k \in Nat /\ (s.srd * k) \div s.srd = k
    BY <2>1, Distribute
  <2>3. crr.srt - s.srt = s.srd * k
    BY <1>3, <2>1, <2>2
  <2>4. QED
    BY <2>1, <2>2, <2>3
<1>5. PieceOf(lmt_dmn, r) = Run
  <2>1. r.slb = prv_slb /\ r.cnt = crr.cnt /\ r.srt = k
    BY <1>4
  <2>2. ASSUME NEW j \in 1..crr.cnt
        PROVE  s.srt + s.srd * (k + j - 1) = crr.srt + s.srd * (j - 1)
    <3>1. j - 1 \in Nat /\ k + j - 1 = k + (j - 1)
      BY <1>2
    <3>2. s.srd * (k + (j - 1)) = s.srd * k + s.srd * (j - 1)
          /\ s.srd * k \in Nat /\ s.srd * (j - 1) \in Nat
      BY <1>4, <3>1, Distribute
    <3> DEFINE x == s.srd * k
               y == s.srd * (j - 1)
    <3> HIDE DEF x, y
    <3>3. s.srt + (x + y) = (s.srt + x) + y
      BY <1>4, <3>2 DEF x, y
    <3>4. QED
      BY <1>3, <3>1, <3>2, <3>3 DEF x, y
  <2> HIDE DEF r
  <2>3. PieceOf(lmt_dmn, r) = [j \in 1..crr.cnt |-> s.srt + s.srd * (k + j - 1)]
    BY <2>1 DEF PieceOf
  <2>4. QED
    BY <2>2, <2>3 DEF Run
<1>6. r \in Reads(lmt_dmn) /\ reads \in Seq(Reads(lmt_dmn)) /\ lmt_dmn \in Seq(Slab)
  <2>1. r \in Reads(lmt_dmn)
    BY <1>2, <1>4 DEF Reads
  <2>2. QED
    BY <2>1 DEF MsaTypeOK, Reads
<1> HIDE DEF r
<1>7. Delivered \in Seq(Int) /\ Delivered' = Delivered \o PieceOf(lmt_dmn, r)
  BY <1>1, <1>6, ElementsAppend DEF Delivered
<1>8. PieceOf(lmt_dmn, r) \in Seq(Int)
  BY <1>6, PieceOfType
<1>9. Run' = <<>>
  <2>1. 1..0 = {}
    OBVIOUS
  <2>2. crr'.cnt = 0
    BY <1>1 DEF NoSlab
  <2>3. QED
    BY <2>1, <2>2 DEF Run
<1>10. QED
  BY <1>5, <1>7, <1>8, <1>9

LEMMA RunType ==
  ASSUME MsaTypeOK, MergeInv, phase = "merge"
  PROVE  Run \in Seq(Int)
<1>1. CrrInv /\ crr.cnt \in Nat
  BY DEF MergeInv, MsaTypeOK
<1>2. CASE crr = NoSlab
  <2>1. crr.cnt = 0 /\ 1..0 = {}
    BY <1>2 DEF NoSlab
  <2>2. QED
    BY <2>1 DEF Run
<1>3. CASE crr # NoSlab
  <2>1. prv_slb \in DOMAIN lmt_dmn /\ crr.srt \in Picks(lmt_dmn[prv_slb])
    BY <1>1, <1>3 DEF CrrInv
  <2>2. crr.srt \in Nat /\ lmt_dmn[prv_slb].srd \in Nat \ {0}
    BY <2>1, MsaTypes, PickForm DEF Slab
  <2> DEFINE d == lmt_dmn[prv_slb].srd
  <2> HIDE DEF d
  <2>3. \A k \in 1..crr.cnt : d * (k - 1) \in Nat
    BY <1>1, <2>2, Times DEF d
  <2>4. Run \in [1..crr.cnt -> Int]
    BY <2>2, <2>3 DEF Run, d
  <2>5. QED
    BY <1>1, <2>4
<1>4. QED
  BY <1>2, <1>3

-----------------------------------------------------------------------------
(* What is counted, and what is in memory.                                 *)

Counted ==
  IF Multi THEN IsFiniteSet(Union(lmt_dmn)) /\ dmn_cnt = Cardinality(Union(lmt_dmn))
  ELSE dmn_cnt = SumCnt(lmt_dmn)

\* Both merges go through the union in ascending order: the one that counts has
\* counted what is behind its indices, the one that reads has collected it.
CountInv ==
  /\ dmn_cnt \in Nat
  /\ phase \in {"evl", "exit", "undefined"} => reads = <<>>
  /\ phase = "merge" /\ Beyond => reads = <<>>
  /\ phase = "count" /\ Multi =>
       /\ OnSlabs(lmt_dmn, indices) /\ ByValue(lmt_dmn, indices)
       /\ IsFiniteSet(Behind(lmt_dmn, indices))
       /\ dmn_cnt = Cardinality(Behind(lmt_dmn, indices))
  /\ phase \in {"copy", "merge", "print", "done"} => Counted
  /\ phase = "merge" => Lists(Collected, Behind(lmt_dmn, indices))
  /\ phase \in {"print", "done"} =>
       /\ Delivered \in Seq(Int) /\ Len(Delivered) = dmn_cnt
       /\ ~WRP /\ ~MSA_USR_RDR => Lists(Delivered, Union(lmt_dmn))

LEMMA CountOrder ==
  ASSUME RequestInv, CountInv, Evl \/ Order
  PROVE  CountInv'
<1>1. reads' = <<>> /\ dmn_cnt' = 0
  <2>1. phase = "evl" /\ reads' = reads /\ dmn_cnt' = dmn_cnt
    BY DEF Evl, EvlOr, Order
  <2>2. QED
    BY <2>1 DEF CountInv, RequestInv, ListInv
<1>2. CASE phase' \in {"evl", "exit", "undefined"}
  BY <1>1, <1>2 DEF CountInv
<1>3. CASE phase' = "count" /\ lmt_dmn' \in Seq(Slab) /\ lmt_dmn' # <<>>
           /\ indices' = Start(lmt_dmn')
  <2>1. /\ OnSlabs(lmt_dmn', indices') /\ ByValue(lmt_dmn', indices')
        /\ Behind(lmt_dmn', indices') = {}
    BY <1>3, BehindStart
  <2>2. IsFiniteSet({}) /\ Cardinality({}) = 0
    BY FS_EmptySet
  <2>3. QED
    BY <1>1, <1>3, <2>1, <2>2 DEF CountInv
<1>4. QED
  <2>1. ReadInv
    BY DEF RequestInv
  <2>2. QED
    BY <1>2, <1>3, <2>1, EvlFacts, OrderFacts

\* Counting without a merge.
LEMMA CountSumStep ==
  ASSUME RequestInv, CountInv, CountSum
  PROVE  CountInv'
<1>1. /\ phase = "count" /\ dmn_cnt' = SumCnt(lmt_dmn) /\ phase' \in {"copy", "merge"}
      /\ lmt_dmn' = lmt_dmn /\ MSA_USR_RDR' = MSA_USR_RDR /\ reads' = reads
      /\ Len(lmt_dmn) = 1 \/ MSA_USR_RDR
  BY DEF CountSum, Read, slabs
<1>2. phase' = "copy" /\ ~Multi'
  <2>1. phase' = "copy"
    BY <1>1 DEF CountSum, Read
  <2>2. ASSUME Multi' PROVE FALSE
    <3>1. Len(lmt_dmn) > 1 /\ ~MSA_USR_RDR
      BY <1>1, <2>2, Zenon DEF Multi
    <3>2. Len(lmt_dmn) = 1
      BY <1>1, <3>1, Zenon
    <3>3. QED
      BY <3>1, <3>2
  <2>3. QED
    BY <2>1, <2>2
<1>3. reads' = <<>> /\ lmt_dmn \in Seq(Slab)
  BY <1>1 DEF RequestInv, MsaInv, MergeInv, ReadInv
<1>4. SumCnt(lmt_dmn) \in Nat
  BY <1>3, SumForm
<1>5. QED
  BY <1>1, <1>2, <1>3, <1>4 DEF CountInv, Counted

\* A pass of the counting merge, and its end.
LEMMA CountMinStep ==
  ASSUME RequestInv, CountInv, CountMin
  PROVE  CountInv'
<1>1. /\ phase = "count" /\ phase' = "count" /\ Multi /\ Mnm(indices) # {}
      /\ lmt_dmn' = lmt_dmn /\ MSA_USR_RDR' = MSA_USR_RDR /\ reads' = reads
      /\ indices' = Advance(lmt_dmn, indices) /\ dmn_cnt' = dmn_cnt + 1
  BY DEF CountMin, slabs, Multi
<1>2. /\ OnSlabs(lmt_dmn, indices) /\ ByValue(lmt_dmn, indices)
      /\ IsFiniteSet(Behind(lmt_dmn, indices))
      /\ dmn_cnt = Cardinality(Behind(lmt_dmn, indices)) /\ dmn_cnt \in Nat
  BY <1>1 DEF CountInv
<1>3. lmt_dmn \in Seq(Slab)
  BY <1>1 DEF RequestInv, ReadInv
<1>4. /\ OnSlabs(lmt_dmn, indices') /\ ByValue(lmt_dmn, indices')
      /\ IsFiniteSet(Behind(lmt_dmn, indices'))
      /\ Cardinality(Behind(lmt_dmn, indices')) = dmn_cnt'
  BY <1>1, <1>2, <1>3, CountNext
<1>5. QED
  BY <1>1, <1>2, <1>4 DEF CountInv

LEMMA CountEndStep ==
  ASSUME RequestInv, CountInv, CountEnd
  PROVE  CountInv'
<1>1. /\ phase = "count" /\ phase' \in {"copy", "merge"} /\ Multi /\ Mnm(indices) = {}
      /\ lmt_dmn' = lmt_dmn /\ MSA_USR_RDR' = MSA_USR_RDR /\ dmn_cnt' = dmn_cnt
      /\ indices' = Start(lmt_dmn) /\ crr' = crr /\ reads' = reads
  BY DEF CountEnd, slabs, Multi, Read
<1>2. reads' = <<>> /\ crr = NoSlab /\ lmt_dmn \in Seq(Slab) /\ lmt_dmn # <<>>
  BY <1>1 DEF RequestInv, MsaInv, MergeInv, ReadInv
<1>3. OnSlabs(lmt_dmn, indices) /\ IsFiniteSet(Behind(lmt_dmn, indices))
      /\ dmn_cnt = Cardinality(Behind(lmt_dmn, indices)) /\ dmn_cnt \in Nat
  BY <1>1 DEF CountInv
<1>4. Counted'
  <2>1. Behind(lmt_dmn, indices) = Union(lmt_dmn)
    BY <1>1, <1>2, <1>3, BehindEnd
  <2>2. Multi'
    BY <1>1 DEF Multi
  <2>3. QED
    BY <1>1, <1>3, <2>1, <2>2 DEF Counted
<1>5. Lists(Collected', Behind(lmt_dmn', indices'))
  <2>1. Delivered' = <<>>
    BY <1>2, ElementsNone DEF Delivered
  <2>2. Run' = <<>>
    <3>1. crr'.cnt = 0
      BY <1>1, <1>2 DEF NoSlab
    <3>2. 1..0 = {}
      OBVIOUS
    <3>3. QED
      BY <3>1, <3>2 DEF Run
  <2>3. Collected' = <<>>
    BY <2>1, <2>2 DEF Collected
  <2>4. Behind(lmt_dmn', indices') = {}
    BY <1>1, <1>2, BehindStart
  <2>5. <<>> \in Seq(Int) /\ Asc(<<>>) /\ Range(<<>>) = {}
    BY DEF Asc, Range
  <2>6. QED
    BY <2>3, <2>4, <2>5 DEF Lists
<1>6. QED
  BY <1>1, <1>2, <1>3, <1>4, <1>5 DEF CountInv

LEMMA EmptyInSeq == \A S : <<>> \in Seq(S)
OBVIOUS

LEMMA ElementsType ==
  ASSUME NEW lmt \in Seq(Slab), NEW rds \in Seq(Reads(lmt))
  PROVE  Elements(lmt, rds) \in Seq(Int)
<1> DEFINE ss == [r \in DOMAIN rds |-> PieceOf(lmt, rds[r])]
<1>1. ss \in Seq(Seq(Int)) /\ Elements(lmt, rds) = FlattenSeq(ss)
  BY ElementsForm
<1> HIDE DEF ss
<1>2. FlattenSeq(ss) \in Seq(Int)
  BY <1>1, FlattenAppend, EmptyInSeq
<1>3. QED
  BY <1>1, <1>2

\* The halves of a wrapped slab are in memory one after the other.
LEMMA CopyWrapped ==
  ASSUME RequestInv, Copy, WRP
  PROVE  /\ Delivered' = Listed(lmt_dmn[1]) \o Listed(lmt_dmn[2])
         /\ Len(Delivered') = Cardinality(Union(lmt_dmn))
<1>1. /\ phase = "copy" /\ lmt_dmn' = lmt_dmn
      /\ reads' = [i \in DOMAIN lmt_dmn |-> [slb |-> i, srt |-> 0, cnt |-> lmt_dmn[i].cnt]]
  BY DEF Copy, prep, slabs
<1>2. lmt_dmn \in Seq(Slab) /\ Halved(prb.sz, lmt_dmn) /\ prb.sz \in Nat \ {0}
  BY <1>1, ProblemsAssumption DEF RequestInv, ReadInv, ListInv
<1>3. Delivered' = FlattenSeq([i \in DOMAIN lmt_dmn |-> Listed(lmt_dmn[i])])
  BY <1>1, <1>2, CopyFacts DEF Delivered
<1>4. PICK a \in Nat, n \in Nat, b \in Nat, m \in Nat, d \in Nat \ {0} :
        Halves2(prb.sz, lmt_dmn, a, n, b, m, d)
  BY <1>2, HalvedForm, Zenon
<1>5. /\ Len(lmt_dmn) = 2
      /\ Listed(lmt_dmn[1]) \in Seq(Int) /\ Len(Listed(lmt_dmn[1])) = n
      /\ Listed(lmt_dmn[2]) \in Seq(Int) /\ Len(Listed(lmt_dmn[2])) = m
      /\ Cardinality(Union(lmt_dmn)) = n + m
  BY <1>2, <1>4, HalvedFacts, Zenon
<1>6. [i \in DOMAIN lmt_dmn |-> Listed(lmt_dmn[i])]
        = <<Listed(lmt_dmn[1]), Listed(lmt_dmn[2])>>
  BY <1>2, <1>5
<1>7. Delivered' = Listed(lmt_dmn[1]) \o Listed(lmt_dmn[2])
  BY <1>3, <1>5, <1>6, FlattenTwo
<1>8. Len(Delivered') = n + m
  BY <1>5, <1>7, Concat
<1>9. QED
  BY <1>5, <1>7, <1>8

\* Slabs are copied one after the other.
LEMMA CopyStep ==
  ASSUME RequestInv, CountInv, Copy
  PROVE  CountInv'
<1>1. /\ phase = "copy" /\ phase' = "print" /\ lmt_dmn' = lmt_dmn /\ WRP' = WRP
      /\ MSA_USR_RDR' = MSA_USR_RDR /\ dmn_cnt' = dmn_cnt
      /\ reads' = [i \in DOMAIN lmt_dmn |-> [slb |-> i, srt |-> 0, cnt |-> lmt_dmn[i].cnt]]
  BY DEF Copy, prep, slabs
<1>2. /\ lmt_dmn \in Seq(Slab) /\ lmt_dmn # <<>> /\ ~Merges
      /\ Len(lmt_dmn) = 1 => lmt_dmn[1].cnt # 0 /\ Consistent(lmt_dmn[1])
  BY <1>1 DEF RequestInv, MsaInv, MergeInv, ReadInv, ListInv
<1>3. Counted /\ dmn_cnt \in Nat
  BY <1>1 DEF CountInv
<1>4. /\ Delivered' = FlattenSeq([i \in DOMAIN lmt_dmn |-> Listed(lmt_dmn[i])])
      /\ Delivered' \in Seq(Int) /\ Len(Delivered') = SumCnt(lmt_dmn)
  BY <1>1, <1>2, CopyFacts DEF Delivered
<1>5. Len(Delivered') = dmn_cnt
  <2>1. CASE ~Multi
    BY <1>3, <1>4, <2>1 DEF Counted
  <2>2. CASE Multi
    <3>1. WRP
      BY <1>2, <2>2 DEF Multi, Merges
    <3>2. QED
      BY <1>3, <2>2, <3>1, CopyWrapped DEF Counted
  <2>3. QED
    BY <2>1, <2>2
<1>6. ASSUME ~WRP, ~MSA_USR_RDR PROVE Lists(Delivered', Union(lmt_dmn))
  <2>1. Len(lmt_dmn) = 1
    <3>1. Len(lmt_dmn) \in Nat /\ Len(lmt_dmn) # 0
      BY <1>2
    <3>2. ~(Len(lmt_dmn) > 1)
      BY <1>2, <1>6, Zenon DEF Merges
    <3>3. \A n \in Nat : n # 0 /\ ~(n > 1) => n = 1
      OBVIOUS
    <3>4. QED
      BY <3>1, <3>2, <3>3, Zenon
  <2>2. DOMAIN lmt_dmn = {1} /\ lmt_dmn[1] \in Slab
    BY <1>2, <2>1
  <2>3. [i \in DOMAIN lmt_dmn |-> Listed(lmt_dmn[i])] = <<Listed(lmt_dmn[1])>>
    BY <2>2
  <2>4. /\ Listed(lmt_dmn[1]) \in Seq(Int) /\ Asc(Listed(lmt_dmn[1]))
        /\ Range(Listed(lmt_dmn[1])) = Picks(lmt_dmn[1])
    BY <1>2, <2>1, <2>2, ListedFacts
  <2>5. Delivered' = Listed(lmt_dmn[1])
    BY <1>4, <2>3, <2>4, FlattenOne
  <2>6. Union(lmt_dmn) = Picks(lmt_dmn[1])
    BY <2>2 DEF Union
  <2>7. QED
    BY <2>4, <2>5, <2>6 DEF Lists
<1>7. Counted'
  BY <1>1, <1>3 DEF Counted, Multi
<1>8. QED
  BY <1>1, <1>3, <1>4, <1>5, <1>6, <1>7 DEF CountInv

LEMMA CollectCount ==
  ASSUME RequestInv, CountInv, Collect
  PROVE  CountInv'
<1>1. /\ phase = "merge" /\ phase' = "merge" /\ ~Beyond /\ Mnm(indices) # {}
      /\ lmt_dmn' = lmt_dmn /\ WRP' = WRP /\ MSA_USR_RDR' = MSA_USR_RDR
      /\ dmn_cnt' = dmn_cnt /\ dmn_sz_org' = dmn_sz_org
      /\ indices' = Advance(lmt_dmn, indices) /\ reads' = reads
  BY DEF Collect, prep, slabs
<1>2. /\ MsaTypeOK /\ MergeInv /\ IndicesInv /\ lmt_dmn \in Seq(Slab)
      /\ reads \in Seq(Reads(lmt_dmn))
  BY <1>1 DEF RequestInv, MsaInv, MergeInv, MsaTypeOK, Reads
<1>3. Counted' /\ dmn_cnt \in Nat /\ ~Beyond'
  BY <1>1 DEF CountInv, Counted, Multi, Beyond
<1> DEFINE m == MinIdx(indices)
<1>4. OnSlabs(lmt_dmn, indices) /\ ByValue(lmt_dmn, indices)
  BY <1>1, <1>2, MsaTypes DEF OnSlabs, IndicesInv, ByValue, Passed, Gone
<1>5. /\ m \in Nat /\ \A x \in Behind(lmt_dmn, indices) : x < m
      /\ Behind(lmt_dmn, indices') = Behind(lmt_dmn, indices) \cup {m}
  BY <1>1, <1>2, <1>4, BehindNext
<1>6. Run \in Seq(Int) /\ Run' = Append(Run, m)
  BY <1>2, CollectRun
<1>7. Delivered \in Seq(Int) /\ Delivered' = Delivered
  BY <1>1, <1>2, ElementsType DEF Delivered
<1>8. Lists(Collected, Behind(lmt_dmn, indices))
  BY <1>1 DEF CountInv
<1> HIDE DEF m
<1>9. Collected' = Append(Collected, m)
  <2>1. \A s, t \in Seq(Int), x \in Int : s \o Append(t, x) = Append(s \o t, x)
    OBVIOUS
  <2>2. QED
    BY <1>5, <1>6, <1>7, <2>1 DEF Collected
<1>10. Lists(Collected', Behind(lmt_dmn, indices'))
  <2> DEFINE s == Collected
  <2> HIDE DEF s
  <2>1. s \in Seq(Int) /\ Asc(s) /\ Range(s) = Behind(lmt_dmn, indices)
    BY <1>8 DEF Lists, s
  <2>2. m \in Int /\ \A x \in Range(s) : x < m
    BY <1>5, <2>1
  <2>3. /\ Append(s, m) \in Seq(Int) /\ Asc(Append(s, m))
        /\ Range(Append(s, m)) = Range(s) \cup {m}
    BY <2>1, <2>2, AscAppend, Zenon
  <2>4. QED
    BY <1>5, <1>9, <2>1, <2>3 DEF Lists, s
<1>11. QED
  BY <1>1, <1>3, <1>10 DEF CountInv

LEMMA ReturnCount ==
  ASSUME RequestInv, CountInv, Return
  PROVE  CountInv'
<1>1. /\ phase = "merge" /\ phase' = "merge" /\ ~Beyond
      /\ lmt_dmn' = lmt_dmn /\ WRP' = WRP /\ MSA_USR_RDR' = MSA_USR_RDR
      /\ dmn_cnt' = dmn_cnt /\ dmn_sz_org' = dmn_sz_org /\ indices' = indices
  BY DEF Return, prep, slabs
<1>2. MsaTypeOK /\ MergeInv
  BY DEF RequestInv, MsaInv
<1>3. Counted' /\ dmn_cnt \in Nat /\ ~Beyond'
  BY <1>1 DEF CountInv, Counted, Multi, Beyond
<1>4. /\ Delivered \in Seq(Int) /\ Run \in Seq(Int)
      /\ Delivered' = Delivered \o Run /\ Run' = <<>>
  BY <1>2, ReturnRun
<1>5. Collected' = Collected
  <2>1. \A s, t \in Seq(Int) : (s \o t) \o <<>> = s \o t
    OBVIOUS
  <2>2. QED
    BY <1>4, <2>1 DEF Collected
<1>6. Lists(Collected, Behind(lmt_dmn, indices))
  BY <1>1 DEF CountInv
<1>7. QED
  BY <1>1, <1>3, <1>5, <1>6 DEF CountInv

LEMMA FinishCount ==
  ASSUME RequestInv, CountInv, Finish
  PROVE  CountInv'
<1>1. /\ phase = "merge" /\ phase' = "print" /\ crr.srt = -1 /\ Mnm(indices) = {}
      /\ lmt_dmn' = lmt_dmn /\ WRP' = WRP /\ MSA_USR_RDR' = MSA_USR_RDR
      /\ dmn_cnt' = dmn_cnt /\ reads' = reads
  BY DEF Finish, prep, slabs
<1>2. /\ MsaTypeOK /\ MergeInv /\ IndicesInv /\ CrrInv /\ Merges /\ lmt_dmn \in Seq(Slab)
      /\ reads \in Seq(Reads(lmt_dmn))
  BY <1>1 DEF RequestInv, MsaInv, MergeInv, MsaTypeOK, Reads
<1>3. Counted /\ dmn_cnt \in Nat /\ Lists(Collected, Behind(lmt_dmn, indices))
  BY <1>1 DEF CountInv
<1>4. Behind(lmt_dmn, indices) = Union(lmt_dmn)
  <2>1. OnSlabs(lmt_dmn, indices)
    BY <1>1, <1>2, MsaTypes DEF OnSlabs, IndicesInv
  <2>2. QED
    BY <1>1, <1>2, <2>1, BehindEnd
<1>5. Delivered \in Seq(Int) /\ Delivered' = Delivered
  BY <1>1, <1>2, ElementsType DEF Delivered
<1>6. Collected = Delivered
  <2>1. crr = NoSlab
    <3>1. ASSUME prv_slb \in DOMAIN lmt_dmn, crr.srt \in Picks(lmt_dmn[prv_slb]) PROVE FALSE
      BY <1>1, <1>2, <3>1, MsaTypes, PickForm
    <3>2. QED
      BY <1>2, <3>1 DEF CrrInv
  <2>2. crr.cnt = 0
    BY <2>1 DEF NoSlab
  <2>3. 1..0 = {}
    OBVIOUS
  <2>4. Run = <<>>
    BY <2>2, <2>3 DEF Run
  <2>5. \A s \in Seq(Int) : s \o <<>> = s
    OBVIOUS
  <2>6. QED
    BY <1>5, <2>4, <2>5 DEF Collected
<1>7. Lists(Delivered', Union(lmt_dmn))
  BY <1>3, <1>4, <1>5, <1>6
<1>8. Multi /\ Counted'
  BY <1>1, <1>2, <1>3 DEF Merges, Multi, Counted
<1>9. Len(Delivered') = dmn_cnt
  <2> DEFINE s == Delivered'
  <2>1. s \in Seq(Int) /\ Asc(s) /\ Range(s) = Union(lmt_dmn)
    BY <1>7 DEF Lists
  <2> HIDE DEF s
  <2>2. Cardinality(Range(s)) = Len(s)
    BY <2>1, AscCardinality
  <2>3. dmn_cnt = Cardinality(Union(lmt_dmn))
    BY <1>3, <1>8 DEF Counted
  <2>4. QED
    BY <2>1, <2>2, <2>3 DEF s
<1>10. QED
  BY <1>1, <1>3, <1>5, <1>7, <1>8, <1>9 DEF CountInv

LEMMA StopCount ==
  ASSUME RequestInv, CountInv, ReadError \/ PrnIdx \/ Close \/ Stop \/ UNCHANGED <<vars, prb>>
  PROVE  CountInv'
<1>1. /\ lmt_dmn' = lmt_dmn /\ WRP' = WRP /\ MSA_USR_RDR' = MSA_USR_RDR
      /\ dmn_cnt' = dmn_cnt /\ dmn_sz_org' = dmn_sz_org /\ reads' = reads
      /\ crr' = crr /\ prv_slb' = prv_slb
  BY DEF ReadError, PrnIdx, Close, Stop, vars, prep, slabs
<1>2. /\ (Counted' <=> Counted) /\ Delivered' = Delivered /\ (Beyond' <=> Beyond)
      /\ (Merges' <=> Merges) /\ (Multi' <=> Multi) /\ Union(lmt_dmn') = Union(lmt_dmn)
      /\ Collected' = Collected
  BY <1>1 DEF Counted, Delivered, Beyond, Merges, Multi, Collected, Run
<1>3. CASE ReadError
  <2>1. phase \in {"copy", "merge"} /\ Beyond /\ phase' = "exit"
    BY <1>3 DEF ReadError
  <2>2. reads = <<>>
    BY <2>1 DEF CountInv, RequestInv, MsaInv, MergeInv
  <2>3. QED
    BY <1>1, <2>1, <2>2 DEF CountInv
<1>4. CASE PrnIdx \/ Close
  <2>1. phase = "print" /\ phase' \in {"print", "done"}
    BY <1>4 DEF PrnIdx, Close
  <2>2. QED
    BY <1>1, <1>2, <2>1 DEF CountInv
<1>5. CASE Stop \/ UNCHANGED <<vars, prb>>
  <2>1. phase' = phase /\ indices' = indices
    BY <1>5 DEF Stop, vars
  <2>2. QED
    BY <1>1, <1>2, <2>1 DEF CountInv
<1>6. QED
  BY <1>3, <1>4, <1>5

LEMMA CountInvariant == SpecRead => [](RequestInv /\ CountInv)
<1>1. InitRead => CountInv
  BY DEF InitRead, Init, CountInv
<1>2. RequestInv /\ CountInv /\ [NextRead]_<<vars, prb>> => CountInv'
  BY CountOrder, CountSumStep, CountMinStep, CountEndStep, CopyStep, CollectCount, ReturnCount,
     FinishCount, StopCount DEF NextRead, Work
<1>3. QED
  BY <1>1, <1>2, RequestInvariant, PTL DEF SpecRead

\* The count that sizes the memory is right: what is being read never exceeds
\* it, and in the end it is reached.
THEOREM CountRight == SpecRead => []CountMatches
<1>1. ASSUME RequestInv, CountInv PROVE CountMatches
  <2>1. CASE phase \notin {"merge", "print", "done"}
    <3>1. reads = <<>>
      BY <1>1, <2>1 DEF CountInv, RequestInv, MsaInv, MergeInv, MsaTypeOK
    <3>2. Len(Delivered) = 0
      <4>1. Len(<<>>) = 0
        OBVIOUS
      <4>2. QED
        BY <3>1, <4>1, ElementsNone DEF Delivered
    <3>3. QED
      BY <1>1, <2>1, <3>2 DEF CountInv, CountMatches
  <2>2. CASE phase = "merge"
    <3>1. /\ lmt_dmn \in Seq(Slab) /\ reads \in Seq(Reads(lmt_dmn)) /\ Merges
          /\ crr.cnt \in Nat /\ MsaTypeOK /\ MergeInv
      BY <1>1, <2>2 DEF RequestInv, MsaInv, MergeInv, MsaTypeOK, Reads
    <3>2. /\ IsFiniteSet(Union(lmt_dmn)) /\ dmn_cnt = Cardinality(Union(lmt_dmn))
          /\ Lists(Collected, Behind(lmt_dmn, indices))
      BY <1>1, <2>2, <3>1 DEF CountInv, Counted, Multi, Merges
    <3>3. Delivered \in Seq(Int) /\ Run \in Seq(Int)
      <4>1. Delivered \in Seq(Int)
        BY <3>1, ElementsType DEF Delivered
      <4>2. QED
        BY <2>2, <3>1, <4>1, RunType
    <3>4. Len(Collected) = Cardinality(Behind(lmt_dmn, indices))
      <4> DEFINE s == Collected
      <4>1. s \in Seq(Int) /\ Asc(s) /\ Range(s) = Behind(lmt_dmn, indices)
        BY <3>2 DEF Lists
      <4> HIDE DEF s
      <4>2. Cardinality(Range(s)) = Len(s)
        BY <4>1, AscCardinality
      <4>3. QED
        BY <4>1, <4>2 DEF s
    <3>5. Cardinality(Behind(lmt_dmn, indices)) <= dmn_cnt
      <4>1. Behind(lmt_dmn, indices) \subseteq Union(lmt_dmn)
        BY DEF Behind
      <4>2. QED
        BY <3>2, <4>1, FS_Subset
    <3>6. Len(Delivered) <= Len(Collected)
      <4>1. Len(Collected) = Len(Delivered) + Len(Run)
        BY <3>3, Concat DEF Collected
      <4>2. QED
        BY <3>3, <4>1
    <3>7. QED
      <4>1. \A x, y, z \in Int : x <= y /\ y <= z => x <= z
        OBVIOUS
      <4>2. Len(Delivered) \in Int /\ Len(Collected) \in Int /\ dmn_cnt \in Int
        BY <1>1, <3>2, <3>3 DEF Lists, CountInv
      <4>3. Len(Delivered) <= dmn_cnt
        BY <3>4, <3>5, <3>6, <4>1, <4>2
      <4>4. QED
        BY <2>2, <4>3 DEF CountMatches
  <2>3. CASE phase \in {"print", "done"}
    BY <1>1, <2>3 DEF CountInv, CountMatches
  <2>4. QED
    BY <2>1, <2>2, <2>3
<1>2. QED
  BY <1>1, CountInvariant, PTL

-----------------------------------------------------------------------------
(* What is printed.                                                        *)

Prefix == \A i \in 1..Len(printed) : printed[i] = Delivered[i]

\* Where the indices of the halves of a wrapped slab are: the second one waits
\* until the first one is beyond the dimension.
HalvesAt ==
  LET n == lmt_dmn[1].cnt
      k == Len(printed)
  IN  /\ indices[1] = lmt_dmn[1].srt + lmt_dmn[1].srd * (IF k <= n THEN k ELSE n)
      /\ indices[2] = lmt_dmn[2].srt + lmt_dmn[2].srd * (IF k <= n THEN 0 ELSE k - n)

PrintInv ==
  /\ phase \notin {"print", "done"} => printed = <<>>
  /\ phase \in {"print", "done"} =>
       /\ Len(printed) <= Len(Delivered)
       /\ ~WRP /\ ~MSA_USR_RDR =>
            /\ Prefix /\ OnSlabs(lmt_dmn, indices) /\ ByValue(lmt_dmn, indices)
            /\ Behind(lmt_dmn, indices) = {Delivered[i] : i \in 1..Len(printed)}
       /\ WRP => /\ Delivered = Listed(lmt_dmn[1]) \o Listed(lmt_dmn[2])
                 /\ ~LoneFirst => Prefix /\ HalvesAt

LEMMA HalvesWithin ==
  ASSUME NEW sz \in Nat \ {0}, NEW lmt, Halved(sz, lmt), ~(lmt[1].cnt = 1 /\ lmt[1].srt + 1 < sz)
  PROVE  /\ lmt \in Seq(Slab) /\ Len(lmt) = 2
         /\ \A k \in 0..(lmt[1].cnt - 1) : lmt[1].srt + lmt[1].srd * k < sz
         /\ lmt[2].cnt # 0 => lmt[1].srt + lmt[1].srd * lmt[1].cnt >= sz
<1>1. PICK a \in Nat, n \in Nat, b \in Nat, m \in Nat, d \in Nat \ {0} :
        Halves2(sz, lmt, a, n, b, m, d)
  BY HalvedForm, Zenon
<1>2. lmt \in Seq(Slab) /\ Len(lmt) = 2
  BY <1>1, HalvedFacts, Zenon
<1>3. /\ n # 0 /\ lmt[1] = Piece(a, n, d) /\ lmt[2] = Piece(b, m, d)
      /\ \A j \in 0..(n - 1) : a + d * j < sz
      /\ m # 0 => b = (a + d * n) - sz
  BY <1>1 DEF Halves2
<1>4. /\ lmt[1].cnt = n /\ lmt[1].srt = a /\ lmt[2].cnt = m
      /\ lmt[1].srd = IF n = 1 THEN 1 ELSE d
  BY <1>3 DEF Piece
<1>5. CASE n = 1
  <2>1. ~(a + 1 < sz) /\ lmt[1].srd = 1
    BY <1>4, <1>5
  <2>2. a + d * 0 < sz /\ d * 0 = 0
    BY <1>3, <1>5
  <2>3. \A k \in 0..(n - 1) : a + 1 * k < sz
    BY <1>5, <2>2
  <2>4. a + 1 * n >= sz
    BY <1>5, <2>1
  <2>5. QED
    BY <1>2, <1>4, <2>1, <2>3, <2>4
<1>6. CASE n # 1
  <2>1. d * n \in Nat
    BY Times
  <2>2. ASSUME m # 0 PROVE a + d * n >= sz
    <3> DEFINE x == d * n
    <3> HIDE DEF x
    <3>1. x \in Nat /\ b = (a + x) - sz
      BY <1>3, <2>1, <2>2 DEF x
    <3>2. a + x >= sz
      BY <3>1
    <3>3. QED
      BY <3>2 DEF x
  <2>3. lmt[1].srd = d
    BY <1>4, <1>6
  <2>4. QED
    BY <1>2, <1>3, <1>4, <2>2, <2>3
<1>7. QED
  BY <1>5, <1>6

\* Printing starts with nothing behind.
LEMMA PrintStart ==
  ASSUME RequestInv, CountInv, PrintInv, Copy \/ Finish
  PROVE  PrintInv'
<1>1. /\ phase \in {"copy", "merge"} /\ phase' = "print" /\ printed' = printed
      /\ lmt_dmn' = lmt_dmn /\ WRP' = WRP /\ MSA_USR_RDR' = MSA_USR_RDR
      /\ indices' = Start(lmt_dmn)
  BY DEF Copy, Finish, prep, slabs
<1>2. printed' = <<>> /\ Len(printed') = 0 /\ 1..0 = {}
  <2>1. printed = <<>>
    BY <1>1 DEF PrintInv
  <2>2. Len(<<>>) = 0 /\ 1..0 = {}
    OBVIOUS
  <2>3. QED
    BY <1>1, <2>1, <2>2
<1>3. CountInv'
  BY CopyStep, FinishCount
<1>4. Len(Delivered') \in Nat
  BY <1>1, <1>3 DEF CountInv
<1>5. /\ lmt_dmn \in Seq(Slab) /\ lmt_dmn # <<>>
      /\ WRP => phase = "copy" /\ Len(lmt_dmn) = 2
  BY <1>1 DEF RequestInv, MsaInv, MsaTypeOK, MergeInv, ReadInv, Merges
<1>6. Prefix'
  BY <1>2 DEF Prefix
<1>7. /\ OnSlabs(lmt_dmn, indices') /\ ByValue(lmt_dmn, indices')
      /\ Behind(lmt_dmn, indices') = {}
  BY <1>1, <1>5, BehindStart
<1>8. ASSUME WRP PROVE Delivered' = Listed(lmt_dmn[1]) \o Listed(lmt_dmn[2]) /\ HalvesAt'
  <2>1. Copy
    BY <1>1, <1>5, <1>8 DEF Finish
  <2>2. Delivered' = Listed(lmt_dmn[1]) \o Listed(lmt_dmn[2])
    BY <1>8, <2>1, CopyWrapped
  <2>3. 1 \in DOMAIN lmt_dmn /\ 2 \in DOMAIN lmt_dmn /\ lmt_dmn[1] \in Slab /\ lmt_dmn[2] \in Slab
    BY <1>5, <1>8
  <2>4. indices'[1] = lmt_dmn[1].srt /\ indices'[2] = lmt_dmn[2].srt
    BY <1>1, <2>3 DEF Start
  <2>5. /\ lmt_dmn[1].srt + lmt_dmn[1].srd * 0 = lmt_dmn[1].srt
        /\ lmt_dmn[2].srt + lmt_dmn[2].srd * 0 = lmt_dmn[2].srt
        /\ 0 <= lmt_dmn[1].cnt
    BY <2>3 DEF Slab
  <2>6. HalvesAt'
    BY <1>1, <1>2, <2>4, <2>5 DEF HalvesAt
  <2>7. QED
    BY <2>2, <2>6
<1>9. {Delivered'[i] : i \in 1..Len(printed')} = {}
  BY <1>2
<1>10. QED
  BY <1>1, <1>2, <1>4, <1>6, <1>7, <1>8, <1>9 DEF PrintInv

\* A merge prints the element after those it has printed.
LEMMA PrintMerged ==
  ASSUME RequestInv, CountInv, PrintInv, PrnIdx, ~WRP, ~MSA_USR_RDR
  PROVE  PrintInv'
<1> DEFINE m == MinIdx(indices)
           s == Delivered
           k == Len(printed)
<1>1. /\ phase = "print" /\ phase' = "print" /\ k < dmn_cnt
      /\ lmt_dmn' = lmt_dmn /\ WRP' = WRP /\ MSA_USR_RDR' = MSA_USR_RDR /\ reads' = reads
      /\ printed' = Append(printed, m) /\ indices' = Advance(lmt_dmn, indices)
  BY DEF PrnIdx, prep, slabs
<1>2. lmt_dmn \in Seq(Slab) /\ printed \in Seq(Nat \cup {-1})
  BY <1>1 DEF RequestInv, MsaInv, MsaTypeOK
<1>3. s \in Seq(Int) /\ Len(s) = dmn_cnt /\ Asc(s) /\ Range(s) = Union(lmt_dmn)
  BY <1>1 DEF CountInv, Lists
<1>4. /\ Prefix /\ OnSlabs(lmt_dmn, indices) /\ ByValue(lmt_dmn, indices)
      /\ Behind(lmt_dmn, indices) = {s[i] : i \in 1..k}
  BY <1>1 DEF PrintInv
<1>5. Delivered' = s
  BY <1>1 DEF Delivered
<1>6. k \in Nat /\ k + 1 \in DOMAIN s /\ DOMAIN s = 1..Len(s)
  BY <1>1, <1>2, <1>3
<1>7. s[k + 1] \in Union(lmt_dmn) \ Behind(lmt_dmn, indices)
  <2>1. s[k + 1] \in Union(lmt_dmn)
    BY <1>3, <1>6 DEF Range
  <2>2. ASSUME NEW i \in 1..k PROVE s[i] # s[k + 1]
    <3>1. i \in DOMAIN s /\ i < k + 1 /\ s[i] \in Int
      BY <1>3, <1>6
    <3>2. s[i] < s[k + 1] /\ s[k + 1] \in Int
      BY <1>3, <1>6, <3>1 DEF Asc
    <3>3. QED
      BY <3>1, <3>2
  <2>3. QED
    BY <1>4, <2>1, <2>2
<1>8. Mnm(indices) # {}
  BY <1>2, <1>4, <1>7, BehindEnd
<1>9. /\ OnSlabs(lmt_dmn, indices') /\ ByValue(lmt_dmn, indices')
      /\ m \in Union(lmt_dmn) /\ m \in Nat
      /\ Behind(lmt_dmn, indices') = Behind(lmt_dmn, indices) \cup {m}
      /\ \A x \in Behind(lmt_dmn, indices) : x < m
      /\ \A x \in Union(lmt_dmn) \ Behind(lmt_dmn, indices) : m <= x
  BY <1>1, <1>2, <1>4, <1>8, BehindNext
<1> HIDE DEF m, s, k
<1>10. m = s[k + 1]
  <2>1. PICK j \in DOMAIN s : m = s[j]
    BY <1>3, <1>9 DEF Range
  <2>2. j \notin 1..k
    <3>1. ASSUME j \in 1..k PROVE FALSE
      <4>1. m \in Behind(lmt_dmn, indices)
        BY <1>4, <2>1, <3>1
      <4>2. m < m
        BY <1>9, <4>1
      <4>3. QED
        BY <1>9, <4>2
    <3>2. QED
      BY <3>1
  <2>3. j = k + 1 \/ k + 1 < j
    BY <1>6, <2>1, <2>2
  <2>4. ASSUME k + 1 < j PROVE FALSE
    <3>1. s[k + 1] < s[j] /\ s[k + 1] \in Int /\ s[j] \in Int
      BY <1>3, <1>6, <2>1, <2>4 DEF Asc
    <3>2. s[j] <= s[k + 1]
      BY <1>7, <1>9, <2>1
    <3>3. QED
      BY <3>1, <3>2
  <2>5. QED
    BY <2>1, <2>3, <2>4
<1>11. /\ Len(printed') = k + 1 /\ printed'[k + 1] = m
       /\ \A i \in 1..k : printed'[i] = printed[i]
  BY <1>1, <1>2, <1>6, <1>9 DEF k
<1>12. 1..(k + 1) = (1..k) \cup {k + 1}
  BY <1>6
<1>13. Prefix'
  <2>1. \A i \in 1..k : printed[i] = s[i]
    BY <1>4 DEF Prefix, k, s
  <2>2. \A i \in 1..(k + 1) : printed'[i] = s[i]
    BY <1>10, <1>11, <1>12, <2>1
  <2>3. QED
    BY <1>5, <1>11, <2>2 DEF Prefix
<1>14. Behind(lmt_dmn, indices') = {s[i] : i \in 1..(k + 1)}
  BY <1>4, <1>9, <1>10, <1>12
<1>15. k + 1 <= Len(s)
  BY <1>6
<1>16. QED
  BY <1>1, <1>5, <1>9, <1>11, <1>13, <1>14, <1>15 DEF PrintInv

\* An index that goes on by its stride.
LEMMA GoesOn ==
  ASSUME NEW a \in Nat, NEW d \in Nat \ {0}, NEW k \in Nat
  PROVE  (a + d * k) + d = a + d * (k + 1)
OBVIOUS

\* A wrapped slab prints the elements of its first half, and then of its second.
LEMMA PrintWrapped ==
  ASSUME RequestInv, CountInv, PrintInv, PrnIdx, WRP, ~LoneFirst
  PROVE  Prefix' /\ HalvesAt'
<1> DEFINE F == lmt_dmn[1]
           G == lmt_dmn[2]
           i == IF indices[1] < dmn_sz_org THEN 1 ELSE 2
           x == indices[i]
<1>1. /\ phase = "print" /\ phase' = "print" /\ Len(printed) < dmn_cnt
      /\ lmt_dmn' = lmt_dmn /\ reads' = reads
      /\ printed' = Append(printed, x)
      /\ indices' = [indices EXCEPT ![i] = indices[i] + lmt_dmn[i].srd]
  BY DEF PrnIdx, prep, slabs
<1>2. /\ printed \in Seq(Nat \cup {-1}) /\ indices \in Seq(Nat \cup {-1})
      /\ Len(indices) = Len(lmt_dmn)
      /\ Halved(prb.sz, lmt_dmn) /\ prb.sz \in Nat \ {0} /\ dmn_sz_org = prb.sz
  BY <1>1, ProblemsAssumption DEF RequestInv, MsaInv, MsaTypeOK, ReadInv, ListInv
<1>3. /\ lmt_dmn \in Seq(Slab) /\ Len(lmt_dmn) = 2
      /\ \A j \in 0..(F.cnt - 1) : F.srt + F.srd * j < dmn_sz_org
      /\ G.cnt # 0 => F.srt + F.srd * F.cnt >= dmn_sz_org
  BY <1>2, HalvesWithin DEF LoneFirst
<1>4. F \in Slab /\ G \in Slab /\ 1 \in DOMAIN indices /\ 2 \in DOMAIN indices
  <2>1. F \in Slab /\ G \in Slab
    BY <1>3
  <2>2. DOMAIN indices = 1..2
    BY <1>2, <1>3
  <2>3. QED
    BY <2>1, <2>2
<1>5. PICK a \in Nat, d \in Nat \ {0}, n \in Nat, b \in Nat, e \in Nat \ {0}, m \in Nat, k \in Nat,
           z \in Nat :
        /\ a = F.srt /\ d = F.srd /\ n = F.cnt /\ b = G.srt /\ e = G.srd /\ m = G.cnt
        /\ k = Len(printed) /\ z = dmn_sz_org
  <2>1. /\ F.srt \in Nat /\ F.srd \in Nat \ {0} /\ F.cnt \in Nat
        /\ G.srt \in Nat /\ G.srd \in Nat \ {0} /\ G.cnt \in Nat
    BY <1>4 DEF Slab
  <2>2. Len(printed) \in Nat /\ dmn_sz_org \in Nat
    BY <1>2
  <2>3. QED
    BY <2>1, <2>2, Zenon
<1>6. /\ \A j \in 0..(n - 1) : a + d * j < z
      /\ m # 0 => a + d * n >= z
  BY <1>3, <1>5
<1>7. /\ Prefix
      /\ indices[1] = a + d * (IF k <= n THEN k ELSE n)
      /\ indices[2] = b + e * (IF k <= n THEN 0 ELSE k - n)
      /\ Delivered = Listed(F) \o Listed(G)
  BY <1>1, <1>5 DEF PrintInv, HalvesAt
<1>8. PICK s \in Seq(Int), t \in Seq(Int) :
        s = Listed(F) /\ t = Listed(G) /\ Len(s) = n /\ Len(t) = m
  BY <1>4, <1>5, ListedFacts
<1>9. /\ \A j \in 1..n : s[j] = a + d * (j - 1)
      /\ \A j \in 1..m : t[j] = b + e * (j - 1)
  BY <1>5, <1>8 DEF Listed
<1>10. /\ Len(Delivered) = n + m
       /\ \A j \in 1..n : Delivered[j] = s[j]
       /\ \A j \in 1..m : Delivered[n + j] = t[j]
  <2>1. Delivered = s \o t
    BY <1>7, <1>8
  <2>2. /\ Len(s \o t) = n + m
        /\ \A j \in 1..n : (s \o t)[j] = s[j]
        /\ \A j \in 1..m : (s \o t)[n + j] = t[j]
    <3>1. /\ Len(s \o t) = Len(s) + Len(t)
          /\ \A j \in 1..Len(s) : (s \o t)[j] = s[j]
          /\ \A j \in 1..Len(t) : (s \o t)[Len(s) + j] = t[j]
      BY Concat
    <3>2. Len(s) = n /\ Len(t) = m
      BY <1>8
    <3>3. QED
      BY <3>1, <3>2, Zenon
  <2>3. QED
    BY <2>1, <2>2, Zenon
<1>11. k < n + m
  <2>1. dmn_cnt = Len(Delivered)
    BY <1>1 DEF CountInv
  <2>2. QED
    BY <1>1, <1>5, <1>10, <2>1
<1>12. Delivered' = Delivered
  BY <1>1 DEF Delivered
<1> HIDE DEF F, G
<1>13. \A p, q \in Nat : p * q \in Nat
  OBVIOUS
<1>14. Len(printed') = k + 1
  BY <1>1, <1>2, <1>5
<1>15. x = Delivered[k + 1] /\ HalvesAt' /\ x \in Nat
  <2>1. CASE k < n
    <3>1. k \in 0..(n - 1) /\ k + 1 \in 1..n /\ (k + 1) - 1 = k /\ k <= n /\ k + 1 <= n
      BY <2>1
    <3>2. indices[1] = a + d * k /\ indices[2] = b + e * 0
      BY <1>7, <3>1, Zenon
    <3>3. indices[1] < dmn_sz_org
      BY <1>5, <1>6, <3>1, <3>2, Zenon
    <3>4. i = 1
      BY <3>3
    <3>5. Delivered[k + 1] = a + d * k
      <4>1. Delivered[k + 1] = a + d * ((k + 1) - 1)
        BY <1>9, <1>10, <3>1, Zenon
      <4>2. QED
        BY <3>1, <4>1, Zenon
    <3>6. indices'[1] = indices[1] + F.srd /\ indices'[2] = indices[2]
      BY <1>1, <1>4, <3>4 DEF F
    <3>7. indices'[1] = a + d * (k + 1)
      <4>1. (a + d * k) + d = a + d * (k + 1)
        BY GoesOn
      <4>2. QED
        BY <1>5, <3>2, <3>6, <4>1, Zenon
    <3>8. HalvesAt'
      <4>1. /\ indices'[1] = a + d * (IF k + 1 <= n THEN k + 1 ELSE n)
            /\ indices'[2] = b + e * (IF k + 1 <= n THEN 0 ELSE (k + 1) - n)
        BY <3>1, <3>2, <3>6, <3>7, Zenon
      <4>2. QED
        BY <1>1, <1>5, <1>14, <4>1 DEF HalvesAt, F, G
    <3>9. a + d * k \in Nat
      OBVIOUS
    <3>10. QED
      BY <3>2, <3>4, <3>5, <3>8, <3>9
  <2>2. CASE ~(k < n)
    <3>1. PICK y \in Nat : /\ y = k - n /\ y + 1 \in 1..m /\ m # 0
                           /\ n + (y + 1) = k + 1 /\ (y + 1) - 1 = y
                           /\ ~(k + 1 <= n) /\ (k + 1) - n = y + 1
      BY <1>11, <2>2
    <3>2. indices[1] = a + d * n /\ indices[2] = b + e * y
      <4>1. k = n \/ ~(k <= n)
        BY <2>2
      <4>2. k = n => y = 0 /\ k <= n
        BY <3>1
      <4>3. QED
        BY <1>7, <3>1, <4>1, <4>2, Zenon
    <3>3. i = 2
      <4>1. a + d * n >= z /\ a + d * n \in Nat
        BY <1>6, <3>1
      <4>2. \A p, q \in Nat : p >= q => ~(p < q)
        OBVIOUS
      <4>3. ~(indices[1] < dmn_sz_org)
        BY <1>5, <3>2, <4>1, <4>2, Zenon
      <4>4. QED
        BY <4>3
    <3>4. Delivered[k + 1] = b + e * y
      <4>1. Delivered[n + (y + 1)] = b + e * ((y + 1) - 1)
        BY <1>9, <1>10, <3>1, Zenon
      <4>2. QED
        BY <3>1, <4>1, Zenon
    <3>5. indices'[1] = indices[1] /\ indices'[2] = indices[2] + G.srd
      BY <1>1, <1>4, <3>3 DEF G
    <3>6. indices'[2] = b + e * (y + 1)
      <4>1. (b + e * y) + e = b + e * (y + 1)
        BY GoesOn
      <4>2. QED
        BY <1>5, <3>2, <3>5, <4>1, Zenon
    <3>7. HalvesAt'
      <4>1. /\ indices'[1] = a + d * (IF k + 1 <= n THEN k + 1 ELSE n)
            /\ indices'[2] = b + e * (IF k + 1 <= n THEN 0 ELSE (k + 1) - n)
        BY <3>1, <3>2, <3>5, <3>6, Zenon
      <4>2. QED
        BY <1>1, <1>5, <1>14, <4>1 DEF HalvesAt, F, G
    <3>8. b + e * y \in Nat
      OBVIOUS
    <3>9. QED
      BY <3>2, <3>3, <3>4, <3>7, <3>8
  <2>3. QED
    BY <2>1, <2>2
<1> HIDE DEF x, i
<1>16. printed'[k + 1] = x /\ \A j \in 1..k : printed'[j] = printed[j]
  BY <1>1, <1>2, <1>5, <1>15
<1>17. \A j \in 1..(k + 1) : j = k + 1 \/ j \in 1..k
  OBVIOUS
<1>18. \A j \in 1..(k + 1) : printed'[j] = Delivered[j]
  BY <1>5, <1>7, <1>15, <1>16, <1>17, Zenon DEF Prefix
<1>19. Prefix'
  BY <1>12, <1>14, <1>18 DEF Prefix
<1>20. QED
  BY <1>15, <1>19

LEMMA PrintStep ==
  ASSUME RequestInv, CountInv, PrintInv, PrnIdx
  PROVE  PrintInv'
<1>1. /\ phase = "print" /\ phase' = "print" /\ Len(printed) < dmn_cnt
      /\ lmt_dmn' = lmt_dmn /\ reads' = reads /\ WRP' = WRP /\ MSA_USR_RDR' = MSA_USR_RDR
      /\ dmn_sz_org' = dmn_sz_org /\ \E y : printed' = Append(printed, y)
  BY DEF PrnIdx, prep, slabs
<1>2. Delivered' = Delivered /\ (LoneFirst' <=> LoneFirst)
  BY <1>1 DEF Delivered, LoneFirst
<1>3. Len(Delivered) = dmn_cnt /\ dmn_cnt \in Nat /\ printed \in Seq(Nat \cup {-1})
  BY <1>1 DEF CountInv, RequestInv, MsaInv, MsaTypeOK
<1>4. Len(printed') <= Len(Delivered')
  <2>1. Len(printed') = Len(printed) + 1 /\ Len(printed) \in Nat
    BY <1>1, <1>3
  <2>2. QED
    BY <1>1, <1>2, <1>3, <2>1
<1>5. CASE ~WRP /\ ~MSA_USR_RDR
  BY <1>5, PrintMerged
<1>6. CASE WRP
  <2>1. Delivered = Listed(lmt_dmn[1]) \o Listed(lmt_dmn[2])
    BY <1>1, <1>6 DEF PrintInv
  <2>2. ~LoneFirst => Prefix' /\ HalvesAt'
    BY <1>6, PrintWrapped
  <2>3. QED
    BY <1>1, <1>2, <1>4, <1>6, <2>1, <2>2 DEF PrintInv
<1>7. CASE ~WRP /\ MSA_USR_RDR
  BY <1>1, <1>4, <1>7 DEF PrintInv
<1>8. QED
  BY <1>5, <1>6, <1>7

\* Nothing is printed before all is read, and nothing after that is read.
LEMMA PrintKeeps ==
  ASSUME RequestInv, CountInv, PrintInv,
         \/ Evl \/ Order \/ CountSum \/ CountMin \/ CountEnd \/ ReadError \/ Collect \/ Return
         \/ Close \/ Stop \/ UNCHANGED <<vars, prb>>
  PROVE  PrintInv'
<1>1. printed' = printed
  BY DEF Evl, EvlOr, Order, CountSum, CountMin, CountEnd, ReadError, Collect, Return, Close,
         Stop, vars
<1>2. CASE Evl \/ Order \/ CountSum \/ CountMin \/ CountEnd \/ ReadError \/ Collect \/ Return
  <2>1. phase \notin {"print", "done"} /\ phase' \notin {"print", "done"}
    BY <1>2 DEF Evl, EvlOr, Order, CountSum, CountMin, CountEnd, ReadError, Collect, Return, Read
  <2>2. QED
    BY <1>1, <2>1 DEF PrintInv
<1>3. CASE Close \/ Stop \/ UNCHANGED <<vars, prb>>
  <2>1. /\ lmt_dmn' = lmt_dmn /\ WRP' = WRP /\ MSA_USR_RDR' = MSA_USR_RDR
        /\ dmn_sz_org' = dmn_sz_org /\ reads' = reads /\ indices' = indices
        /\ phase' = phase \/ (phase = "print" /\ phase' = "done")
    BY <1>3 DEF Close, Stop, vars, prep, slabs
  <2>2. /\ Delivered' = Delivered /\ (LoneFirst' <=> LoneFirst) /\ (Prefix' <=> Prefix)
        /\ (HalvesAt' <=> HalvesAt)
    BY <1>1, <2>1 DEF Delivered, LoneFirst, Prefix, HalvesAt
  <2>3. QED
    BY <1>1, <2>1, <2>2 DEF PrintInv
<1>4. QED
  BY <1>2, <1>3

LEMMA PrintInvariant == SpecRead => [](RequestInv /\ CountInv /\ PrintInv)
<1>1. InitRead => PrintInv
  BY DEF InitRead, Init, PrintInv
<1>2. RequestInv /\ CountInv /\ PrintInv /\ [NextRead]_<<vars, prb>> => PrintInv'
  BY PrintKeeps, PrintStart, PrintStep DEF NextRead, Work
<1>3. QED
  BY <1>1, <1>2, CountInvariant, PTL DEF SpecRead

\* What ncks prints next to each element is its index on disk.
THEOREM PrintsRight == SpecRead => []PrintsDisk
<1>1. ASSUME RequestInv, CountInv, PrintInv, ~MSA_USR_RDR, ~LoneFirst
      PROVE  printed = SubSeq(Delivered, 1, Len(printed))
  <2>1. CASE phase \notin {"print", "done"}
    <3>1. printed = <<>>
      BY <1>1, <2>1 DEF PrintInv
    <3>2. \A s : SubSeq(s, 1, 0) = <<>>
      OBVIOUS
    <3>3. Len(<<>>) = 0
      OBVIOUS
    <3>4. QED
      BY <3>1, <3>2, <3>3
  <2>2. CASE phase \in {"print", "done"}
    <3>1. Delivered \in Seq(Int) /\ Len(printed) <= Len(Delivered)
          /\ printed \in Seq(Nat \cup {-1}) /\ Prefix
      BY <1>1, <2>2 DEF CountInv, PrintInv, RequestInv, MsaInv, MsaTypeOK
    <3>2. \A i \in 1..Len(printed) : printed[i] = Delivered[i]
      BY <3>1 DEF Prefix
    <3>3. PICK s \in Seq(Int), t \in Seq(Nat \cup {-1}) : s = Delivered /\ t = printed
      BY <3>1
    <3>4. Len(t) <= Len(s) /\ \A i \in 1..Len(t) : t[i] = s[i]
      BY <3>1, <3>2, <3>3
    <3>5. t = SubSeq(s, 1, Len(t))
      BY <3>4
    <3>6. QED
      BY <3>3, <3>5
  <2>3. QED
    BY <2>1, <2>2
<1>2. RequestInv /\ CountInv /\ PrintInv => PrintsDisk
  BY <1>1 DEF PrintsDisk
<1>3. QED
  BY <1>2, PrintInvariant, PTL

-----------------------------------------------------------------------------
(* Listings, arcs and strides.                                             *)

\* An ascending sequence is the ascending listing of its elements.
LEMMA AscendingIs ==
  ASSUME NEW s \in Seq(Int), Asc(s)
  PROVE  Ascending(Range(s)) = s
<1> DEFINE S == Range(s)
           n == Len(s)
           rank(x) == Cardinality({y \in S : y <= x})
<1>1. n \in Nat /\ DOMAIN s = 1..n /\ (\A k \in 1..n : s[k] \in Int) /\ S = {s[k] : k \in 1..n}
  BY DEF Range
<1>2. Cardinality(S) = n
  BY AscCardinality
<1>3. \A i, j \in 1..n : i < j => s[i] < s[j]
  BY <1>1 DEF Asc
<1>4. ASSUME NEW k \in 1..n PROVE rank(s[k]) = k
  <2> DEFINE t == SubSeq(s, 1, k)
  <2>1. t \in Seq(Int) /\ Len(t) = k /\ DOMAIN t = 1..k /\ \A j \in 1..k : t[j] = s[j]
    OBVIOUS
  <2> HIDE DEF t
  <2>2. \A i \in 1..k : i \in 1..n
    BY <1>1
  <2>3. Asc(t)
    BY <1>3, <2>1, <2>2 DEF Asc
  <2>4. Cardinality(Range(t)) = k
    BY <2>1, <2>3, AscCardinality
  <2>5. \A j \in 1..n : s[j] <= s[k] <=> j <= k
    BY <1>1, <1>3
  <2>6. Range(t) = {y \in S : y <= s[k]}
    <3>1. ASSUME NEW y \in Range(t) PROVE y \in S /\ y <= s[k]
      BY <1>1, <2>1, <2>2, <2>5 DEF Range
    <3>2. ASSUME NEW y \in S, y <= s[k] PROVE y \in Range(t)
      <4>1. PICK j \in 1..n : y = s[j]
        BY <1>1
      <4>2. j \in 1..k
        BY <1>1, <2>5, <3>2, <4>1
      <4>3. QED
        BY <2>1, <4>1, <4>2 DEF Range
    <3>3. QED
      BY <3>1, <3>2
  <2>7. QED
    BY <2>4, <2>6
<1>5. ASSUME NEW k \in 1..n PROVE (CHOOSE x \in S : rank(x) = k) = s[k]
  <2>1. s[k] \in S /\ rank(s[k]) = k
    BY <1>1, <1>4
  <2>2. \A x \in S : rank(x) = k => x = s[k]
    <3>1. SUFFICES ASSUME NEW x \in S, rank(x) = k PROVE x = s[k]
      OBVIOUS
    <3>2. PICK j \in 1..n : x = s[j]
      BY <1>1
    <3>3. j = k
      BY <1>4, <3>1, <3>2
    <3>4. QED
      BY <3>2, <3>3
  <2> HIDE DEF rank, S
  <2>3. QED
    BY <2>1, <2>2
<1>6. Ascending(S) = [k \in 1..n |-> CHOOSE x \in S : rank(x) = k]
  BY <1>2 DEF Ascending
<1> HIDE DEF rank, S
<1>7. Ascending(S) = [k \in 1..n |-> s[k]]
  BY <1>5, <1>6
<1>8. QED
  BY <1>1, <1>7 DEF S

\* A set has one ascending listing.
LEMMA ListsOnce ==
  ASSUME NEW s, NEW S, Lists(s, S)
  PROVE  s = Ascending(S)
BY AscendingIs DEF Lists

\* The numbers from m to n.
UpFrom(m, n) == [k \in 1..(n - m + 1) |-> m + k - 1]

\* The numbers between two ends, listed in ascending order.
LEMMA IntervalForm ==
  ASSUME NEW m \in Int, NEW n \in Int, m <= n + 1
  PROVE  Lists(UpFrom(m, n), m..n) /\ Ascending(m..n) = UpFrom(m, n)
<1> DEFINE l == n - m + 1
           s == UpFrom(m, n)
<1>1. l \in Nat /\ s = [k \in 1..l |-> m + k - 1]
  BY DEF UpFrom
<1> HIDE DEF l, s
<1>2. s \in [1..l -> Int]
  BY <1>1
<1>3. s \in Seq(Int) /\ DOMAIN s = 1..l
  BY <1>1, <1>2
<1>4. Asc(s)
  BY <1>1, <1>3 DEF Asc
<1>5. Range(s) = m..n
  <2>1. \A x \in m..n : x - m + 1 \in 1..l /\ x = m + (x - m + 1) - 1
    BY DEF l
  <2>2. \A k \in 1..l : m + k - 1 \in m..n
    BY DEF l
  <2>3. QED
    BY <1>1, <1>3, <2>1, <2>2 DEF Range
<1>6. QED
  BY <1>3, <1>4, <1>5, ListsOnce DEF Lists, s

\* An index that runs off the end of the dimension goes on at its beginning.
Turn(sz, x) == IF x < sz THEN x ELSE x - sz
\* The elements of a slab before it is split.
Walk(sz, s) == [k \in 1..s.cnt |-> Turn(sz, s.srt + s.srd * (k - 1))]
\* The elements from m to n, around the end of the dimension if n is before m.
Span(sz, m, n) == IF m <= n THEN n - m + 1 ELSE sz - m + n + 1
Arc(sz, m, n) == IF m <= n THEN UpFrom(m, n) ELSE UpFrom(m, sz - 1) \o UpFrom(0, n)

\* How long an arc is, and its elements by their places.
LEMMA ArcForm ==
  ASSUME NEW sz \in Nat \ {0}, NEW m \in 0..(sz - 1), NEW n \in 0..(sz - 1)
  PROVE  /\ Arc(sz, m, n) \in Seq(Int) /\ Len(Arc(sz, m, n)) = Span(sz, m, n)
         /\ \A k \in 1..Span(sz, m, n) : Arc(sz, m, n)[k] = Turn(sz, m + k - 1)
<1>1. CASE m <= n
  <2>1. Arc(sz, m, n) = UpFrom(m, n) /\ Span(sz, m, n) = n - m + 1
    BY <1>1 DEF Arc, Span
  <2>2. UpFrom(m, n) \in [1..(n - m + 1) -> Int] /\ n - m + 1 \in Nat
    BY <1>1 DEF UpFrom
  <2>3. UpFrom(m, n) \in Seq(Int) /\ Len(UpFrom(m, n)) = n - m + 1
    BY <2>2
  <2>4. \A k \in 1..(n - m + 1) : UpFrom(m, n)[k] = Turn(sz, m + k - 1)
    BY DEF UpFrom, Turn
  <2>5. QED
    BY <2>1, <2>3, <2>4
<1>2. CASE ~(m <= n)
  <2> DEFINE s == UpFrom(m, sz - 1)
             t == UpFrom(0, n)
             a == sz - m
             b == n + 1
  <2>1. Arc(sz, m, n) = s \o t /\ Span(sz, m, n) = a + b /\ a \in Nat /\ b \in Nat
    BY <1>2 DEF Arc, Span
  <2>2. s = [k \in 1..a |-> m + k - 1] /\ t = [k \in 1..b |-> k - 1]
    BY DEF UpFrom
  <2>3. s \in Seq(Int) /\ Len(s) = a /\ t \in Seq(Int) /\ Len(t) = b
    <3>1. \A k \in Nat : \A f \in [1..k -> Int] : f \in Seq(Int) /\ Len(f) = k
      OBVIOUS
    <3>2. \A k \in 1..a : m + k - 1 \in Int
      OBVIOUS
    <3>3. \A k \in 1..b : k - 1 \in Int
      OBVIOUS
    <3> HIDE DEF s, t, a, b
    <3>4. s \in [1..a -> Int]
      BY <2>2, <3>2
    <3>5. t \in [1..b -> Int]
      BY <2>2, <3>3
    <3>6. QED
      BY <2>1, <3>1, <3>4, <3>5, Zenon
  <2> HIDE DEF s, t, a, b
  <2>4. s \o t \in Seq(Int) /\ Len(s \o t) = a + b
        /\ (\A i \in 1..a : (s \o t)[i] = s[i]) /\ (\A i \in 1..b : (s \o t)[a + i] = t[i])
    <3>1. s \o t \in Seq(Int)
      BY <2>3, Concat
    <3>2. Len(s \o t) = a + b
      BY <2>3, Concat
    <3>3. \A i \in 1..Len(s) : (s \o t)[i] = s[i]
      BY <2>3, Concat
    <3>4. \A i \in 1..Len(t) : (s \o t)[Len(s) + i] = t[i]
      BY <2>3, Concat
    <3>5. Len(s) = a /\ Len(t) = b
      BY <2>3
    <3>6. QED
      BY <3>1, <3>2, <3>3, <3>4, <3>5, Zenon
  <2>5. ASSUME NEW k \in 1..(a + b) PROVE (s \o t)[k] = Turn(sz, m + k - 1)
    <3>0. k \in Int /\ a \in Nat /\ b \in Nat
      BY <2>1
    <3>1. CASE k <= a
      <4>1. k \in 1..a
        BY <3>0, <3>1
      <4>2. (s \o t)[k] = m + k - 1
        BY <2>2, <2>4, <4>1
      <4>3. QED
        BY <3>0, <3>1, <4>2 DEF Turn, a
    <3>2. CASE ~(k <= a)
      <4>1. k - a \in 1..b /\ k = a + (k - a)
        BY <3>0, <3>2
      <4>2. (s \o t)[a + (k - a)] = (k - a) - 1
        BY <2>2, <2>4, <4>1
      <4>3. (s \o t)[k] = (k - a) - 1
        BY <4>1, <4>2, Zenon
      <4>4. (k - a) - 1 = Turn(sz, m + k - 1)
        BY <3>0, <3>2 DEF Turn, a
      <4>5. QED
        BY <4>3, <4>4
    <3>3. QED
      BY <3>1, <3>2, Zenon
  <2>6. QED
    BY <2>1, <2>4, <2>5
<1>3. QED
  BY <1>1, <1>2

\* How often d fits, counted in two ways.
LEMMA FitsOnce ==
  ASSUME NEW d \in Nat \ {0}, NEW a \in Nat, NEW c \in Nat \ {0}, d * (c - 1) <= a, a < d * c
  PROVE  1 + a \div d = c
<1> DEFINE q == a \div d
           p == c - 1
<1>1. q \in Nat /\ d * q <= a /\ a < d * q + d
  BY Division
<1>2. p \in Nat /\ c = p + 1 /\ d * p \in Nat /\ d * q \in Nat /\ d * (p + 1) = d * p + d
  BY <1>1, Times, Distribute
<1>3. d * p <= a /\ a < d * p + d
  BY <1>2
<1> HIDE DEF q, p
<1>4. CASE q < p
  BY <1>1, <1>2, <1>3, <1>4, Times
<1>5. CASE p < q
  BY <1>1, <1>2, <1>3, <1>5, Times
<1>6. QED
  BY <1>1, <1>2, <1>4, <1>5 DEF q

\* Every srd-th element of a range, around the end of the dimension or not, is
\* what the slab made of the range selects.
LEMMA ArcWalk ==
  ASSUME NEW sz \in Nat \ {0}, NEW m \in 0..(sz - 1), NEW n \in 0..(sz - 1),
         NEW d \in Nat \ {0}
  PROVE  EverySrd(Arc(sz, m, n), d) = Walk(sz, SlabOf(sz, m, n, d))
<1> DEFINE l == Span(sz, m, n)
           a == l - 1
           s == SlabOf(sz, m, n, d)
           c == s.cnt
           w == Arc(sz, m, n)
<1>1. l \in Nat \ {0} /\ a \in Nat /\ (m <= n => m + a = n) /\ (m > n => m + a = sz + n)
  BY DEF Span
<1>2. /\ c \in Nat \ {0} /\ s.srt = m /\ s.srd = d
      /\ m <= n => m + d * (c - 1) <= n /\ n < m + d * c
      /\ m > n => m + d * (c - 1) <= sz + n /\ sz + n < m + d * c
  BY SlabOfFacts
<1>3. w \in Seq(Int) /\ Len(w) = l /\ \A k \in 1..l : w[k] = Turn(sz, m + k - 1)
  BY ArcForm
<1> HIDE DEF l, s, c, w
<1>4. d * (c - 1) \in Nat /\ d * c \in Nat
  BY <1>2, Times
<1>5. d * (c - 1) <= a /\ a < d * c
  BY <1>1, <1>2, <1>4
<1>6. 1 + (Len(w) - 1) \div d = c
  BY <1>1, <1>2, <1>3, <1>5, FitsOnce
<1>7. ASSUME NEW k \in 1..c PROVE w[1 + d * (k - 1)] = Turn(sz, m + d * (k - 1))
  <2>1. k - 1 \in Nat /\ c - 1 \in Nat /\ k - 1 <= c - 1
    BY <1>2
  <2>2. d * (k - 1) \in Nat /\ d * (k - 1) <= d * (c - 1)
    BY <2>1, Times
  <2> DEFINE x == d * (k - 1)
  <2> HIDE DEF x
  <2>3. 1 + x \in 1..l /\ m + (1 + x) - 1 = m + x
    BY <1>1, <1>4, <1>5, <2>2 DEF x
  <2>4. QED
    BY <1>3, <2>3 DEF x
<1>8. EverySrd(w, d) = [k \in 1..c |-> w[1 + d * (k - 1)]]
  BY <1>6 DEF EverySrd
<1>9. EverySrd(w, d) = [k \in 1..c |-> Turn(sz, m + d * (k - 1))]
  BY <1>7, <1>8
<1>10. QED
  BY <1>2, <1>9 DEF Walk, w, s, c

\* The slab stays within the dimension, and so does what it walks over.
LEMMA ArcWithin ==
  ASSUME NEW sz \in Nat \ {0}, NEW m \in 0..(sz - 1), NEW n \in 0..(sz - 1),
         NEW d \in Nat \ {0}
  PROVE  LET s == SlabOf(sz, m, n, d)
         IN  /\ \A k \in DOMAIN Walk(sz, s) : Walk(sz, s)[k] < sz
             /\ ~Wraps(s) => s.srt + s.srd * (s.cnt - 1) < sz
<1> DEFINE s == SlabOf(sz, m, n, d)
           c == s.cnt
           last == m + d * (c - 1)
<1>1. /\ c \in Nat \ {0} /\ s.srt = m /\ s.srd = d
      /\ m <= n => last <= n
      /\ m > n => last <= sz + n /\ (s.end = n \/ (s.end = last /\ s.end < sz))
  BY SlabOfFacts
<1>2. c - 1 \in Nat /\ d * (c - 1) \in Nat
  BY <1>1, Times
<1>3. last \in Nat /\ last < 2 * sz
  BY <1>1, <1>2
<1>4. ASSUME NEW k \in 1..c PROVE Turn(sz, s.srt + s.srd * (k - 1)) < sz
  <2>1. k - 1 \in Nat /\ k - 1 <= c - 1
    BY <1>1
  <2>2. d * (k - 1) \in Nat /\ d * (k - 1) <= d * (c - 1)
    BY <1>2, <2>1, Times
  <2>3. m + d * (k - 1) < 2 * sz /\ m + d * (k - 1) \in Nat
    BY <1>2, <1>3, <2>2
  <2>4. QED
    BY <1>1, <2>3 DEF Turn
<1>5. DOMAIN Walk(sz, s) = 1..c
  BY DEF Walk
<1>6. ~Wraps(s) => last < sz
  <2>1. CASE m <= n
    BY <1>1, <1>3, <2>1
  <2>2. CASE m > n
    BY <1>1, <2>2 DEF Wraps
  <2>3. QED
    BY <2>1, <2>2
<1>7. QED
  BY <1>1, <1>4, <1>5, <1>6 DEF Walk

\* The same for a range that goes up, whether or not it ends in the dimension.
LEMMA UpWalk ==
  ASSUME NEW sz \in Nat \ {0}, NEW m \in 0..(sz - 1), NEW n \in Nat, m <= n,
         NEW d \in Nat \ {0}
  PROVE  UpFrom(m, n) # <<>> /\ EverySrd(UpFrom(m, n), d) = Listed(SlabOf(sz, m, n, d))
<1> DEFINE l == n - m + 1
           a == l - 1
           s == SlabOf(sz, m, n, d)
           c == s.cnt
           w == UpFrom(m, n)
<1>1. l \in Nat \ {0} /\ a \in Nat /\ m + a = n
  OBVIOUS
<1>2. /\ c \in Nat \ {0} /\ s.srt = m /\ s.srd = d
      /\ m + d * (c - 1) <= n /\ n < m + d * c
  BY SlabOfFacts
<1>3. w = [k \in 1..l |-> m + k - 1]
  BY DEF UpFrom
<1> HIDE DEF l, s, c, w
<1>4. w \in [1..l -> Int]
  BY <1>3
<1>5. Len(w) = l /\ w # <<>>
  <2>1. Len(w) = l /\ DOMAIN w = 1..l
    BY <1>1, <1>4
  <2>2. QED
    BY <1>1, <2>1
<1>6. d * (c - 1) \in Nat /\ d * c \in Nat
  BY <1>2, Times
<1>7. d * (c - 1) <= a /\ a < d * c
  BY <1>1, <1>2, <1>6
<1>8. 1 + (Len(w) - 1) \div d = c
  BY <1>1, <1>2, <1>5, <1>7, FitsOnce
<1>9. ASSUME NEW k \in 1..c PROVE w[1 + d * (k - 1)] = m + d * (k - 1)
  <2>1. k - 1 \in Nat /\ c - 1 \in Nat /\ k - 1 <= c - 1
    BY <1>2
  <2>2. d * (k - 1) \in Nat /\ d * (k - 1) <= d * (c - 1)
    BY <2>1, Times
  <2> DEFINE x == d * (k - 1)
  <2> HIDE DEF x
  <2>3. 1 + x \in 1..l /\ m + (1 + x) - 1 = m + x
    BY <1>1, <1>6, <1>7, <2>2 DEF x
  <2>4. QED
    BY <1>3, <2>3 DEF x
<1>10. EverySrd(w, d) = [k \in 1..c |-> w[1 + d * (k - 1)]]
  BY <1>8 DEF EverySrd
<1>11. EverySrd(w, d) = [k \in 1..c |-> m + d * (k - 1)]
  BY <1>9, <1>10
<1>12. QED
  BY <1>2, <1>5, <1>11 DEF Listed, w, s, c

\* A slab whose last element is in the dimension has none beyond it.
LEMMA LastIsFirst ==
  ASSUME NEW sz \in Nat, NEW s, s.srt \in Nat, s.srd \in Nat \ {0}, s.cnt \in Nat \ {0}
  PROVE  /\ Past(sz, s) <=> ~(\A k \in DOMAIN Listed(s) : Listed(s)[k] < sz)
         /\ ~Past(sz, s) => Walk(sz, s) = Listed(s)
<1> DEFINE at(k) == s.srt + s.srd * (k - 1)
<1>1. DOMAIN Listed(s) = 1..s.cnt /\ \A k \in 1..s.cnt : Listed(s)[k] = at(k)
  BY DEF Listed
<1>2. at(s.cnt) \in Nat /\ s.cnt \in 1..s.cnt /\ s.cnt > 0
  <2>1. s.cnt - 1 \in Nat
    OBVIOUS
  <2>2. s.srd * (s.cnt - 1) \in Nat
    BY <2>1, Times
  <2>3. QED
    BY <2>2
<1>3. \A k \in 1..s.cnt : at(k) \in Nat /\ at(k) <= at(s.cnt)
  <2>1. SUFFICES ASSUME NEW k \in 1..s.cnt PROVE at(k) \in Nat /\ at(k) <= at(s.cnt)
    OBVIOUS
  <2>2. k - 1 \in Nat /\ s.cnt - 1 \in Nat /\ k - 1 <= s.cnt - 1
    OBVIOUS
  <2>3. s.srd * (k - 1) \in Nat /\ s.srd * (k - 1) <= s.srd * (s.cnt - 1)
        /\ s.srd * (s.cnt - 1) \in Nat
    BY <2>2, Times
  <2>4. QED
    BY <2>3
<1>4. Past(sz, s) <=> at(s.cnt) >= sz
  BY <1>2 DEF Past
<1>5. Walk(sz, s) = [k \in 1..s.cnt |-> Turn(sz, at(k))]
      /\ Listed(s) = [k \in 1..s.cnt |-> at(k)]
  BY DEF Walk, Listed
<1> HIDE DEF at
<1>6. Past(sz, s) <=> ~(\A k \in 1..s.cnt : at(k) < sz)
  BY <1>2, <1>3, <1>4
<1>7. ~Past(sz, s) => \A k \in 1..s.cnt : Turn(sz, at(k)) = at(k)
  BY <1>6 DEF Turn
<1>8. QED
  BY <1>1, <1>5, <1>6, <1>7

\* A range around the end goes down once.
LEMMA ArcAround ==
  ASSUME NEW sz \in Nat \ {0}, NEW m \in 0..(sz - 1), NEW n \in 0..(sz - 1), NEW d \in Nat \ {0},
         Wraps(SlabOf(sz, m, n, d))
  PROVE  /\ m > n
         /\ \E i, j \in DOMAIN Arc(sz, m, n) : i < j /\ Arc(sz, m, n)[i] > Arc(sz, m, n)[j]
<1> DEFINE s == SlabOf(sz, m, n, d)
<1>1. m <= n => s.end = n
  BY SlabOfFacts
<1>2. s.srt = m /\ s.srt > s.end
  BY SlabOfFacts DEF Wraps
<1>3. m > n
  BY <1>1, <1>2
<1> DEFINE l == Span(sz, m, n)
           w == Arc(sz, m, n)
<1>4. l = sz - m + n + 1 /\ l \in Nat /\ 1 \in 1..l /\ 1 < l /\ l \in 1..l
  BY <1>3 DEF Span
<1>5. DOMAIN w = 1..l /\ \A k \in 1..l : w[k] = Turn(sz, m + k - 1)
  BY ArcForm, <1>4
<1> HIDE DEF l, w
<1>6. w[1] = m /\ w[l] = n
  BY <1>3, <1>4, <1>5 DEF Turn
<1>7. QED
  BY <1>3, <1>4, <1>5, <1>6 DEF w

-----------------------------------------------------------------------------
(* What a limit asks for: indices.                                         *)

\* What a limit without its stride selects, full, and the slab made of it.
Means(sz, s, full, srd) ==
  \/ s = Refused /\ full = <<>>
  \/ \E m \in 0..(sz - 1), n \in Nat :
       n >= sz /\ s = SlabOf(sz, m, n, srd) /\ full = UpFrom(m, n)
  \/ \E m, n \in 0..(sz - 1) : s = SlabOf(sz, m, n, srd) /\ full = Arc(sz, m, n)

\* An end of a limit is blank or one value.
LEMMA BlankOrGiven ==
  ASSUME NEW q \in Seq(Int), Len(q) <= 1
  PROVE  q = <<>> \/ (Len(q) = 1 /\ q = <<q[1]>> /\ q[1] \in Int)
<1>1. SUFFICES ASSUME q # <<>> PROVE Len(q) = 1 /\ q = <<q[1]>> /\ q[1] \in Int
  OBVIOUS
<1>2. Len(q) \in Nat /\ Len(q) # 0
  BY <1>1
<1>3. \A n \in Nat : n <= 1 /\ n # 0 => n = 1
  OBVIOUS
<1>4. Len(q) = 1
  BY <1>2, <1>3, Zenon
<1>5. QED
  BY <1>4

\* Limits by index.
LEMMA IdxMeans ==
  ASSUME NEW sz \in Nat \ {0}, NEW p, NEW l, IsLimit(p, l)
  PROVE  Means(sz, EvlIdx(sz, l), FullIdx(sz, l), l.srd)
<1> DEFINE I(given, blank) ==
             LET g == IF given = <<>> THEN blank
                      ELSE IF l.fort /\ given[1] > 0 THEN given[1] - 1 ELSE given[1]
             IN  IF g < 0 THEN g + sz ELSE g
           mn == I(l.min, 0)
           mx == I(l.max, sz - 1)
           zero == l.fort /\ <<0>> \in {l.min, l.max}
<1>1. /\ l.min \in Seq(Int) /\ (l.min = <<>> \/ Len(l.min) = 1)
      /\ l.max \in Seq(Int) /\ (l.max = <<>> \/ Len(l.max) = 1)
      /\ l.srd \in Nat \ {0} /\ l.fort \in BOOLEAN
  <2>1. /\ l.min \in Seq(Int) /\ Len(l.min) <= 1 /\ l.max \in Seq(Int) /\ Len(l.max) <= 1
        /\ l.srd \in Nat \ {0} /\ l.fort \in BOOLEAN
    BY DEF IsLimit
  <2>2. QED
    BY <2>1, BlankOrGiven, Zenon
<1>2. ASSUME NEW g \in Seq(Int), g = <<>> \/ Len(g) = 1, NEW b \in Nat
      PROVE  I(g, b) \in Int /\ IdxOf(sz, l.fort, g, b) = I(g, b)
  <2>1. CASE g = <<>>
    BY <2>1 DEF IdxOf
  <2>2. CASE g # <<>>
    <3>1. g[1] \in Int
      BY <1>2, <2>2
    <3>2. QED
      BY <2>2, <3>1 DEF IdxOf
  <2>3. QED
    BY <2>1, <2>2
<1>3. mn \in Int /\ mx \in Int
      /\ IdxOf(sz, l.fort, l.min, 0) = mn /\ IdxOf(sz, l.fort, l.max, sz - 1) = mx
  <2>1. 0 \in Nat /\ sz - 1 \in Nat
    OBVIOUS
  <2> HIDE DEF I
  <2>2. QED
    BY <1>1, <1>2, <2>1
<1>4. FullIdx(sz, l) =
        IF zero THEN <<>>
        ELSE IF mn \notin 0..(sz - 1) \/ mx < 0 THEN <<>>
        ELSE IF mn <= mx THEN Interval(mn, mx)
        ELSE Interval(mn, sz - 1) \o Interval(0, mx)
  BY DEF FullIdx
<1> HIDE DEF I, mn, mx
<1>5. EvlIdx(sz, l) = IF zero \/ mn < 0 \/ mx < 0 \/ mn >= sz THEN Refused
                      ELSE SlabOf(sz, mn, mx, l.srd)
  <2>1. zero <=> l.fort /\ (l.min = <<0>> \/ l.max = <<0>>)
    OBVIOUS
  <2> HIDE DEF zero
  <2>2. QED
    BY <1>3, <2>1 DEF EvlIdx
<1> HIDE DEF zero
<1>6. CASE zero \/ mn < 0 \/ mx < 0 \/ mn >= sz
  BY <1>3, <1>4, <1>5, <1>6 DEF Means
<1>7. CASE ~(zero \/ mn < 0 \/ mx < 0 \/ mn >= sz) /\ mx >= sz
  <2>1. mn \in 0..(sz - 1) /\ mx \in Nat /\ mx >= sz
    BY <1>3, <1>7
  <2>2. mn <= mx /\ mn <= mx + 1 /\ mn \in Int /\ mx \in Int /\ ~(mx < 0)
    BY <2>1
  <2>3. FullIdx(sz, l) = Interval(mn, mx) /\ EvlIdx(sz, l) = SlabOf(sz, mn, mx, l.srd)
    BY <1>4, <1>5, <1>7, <2>1, <2>2
  <2>4. Interval(mn, mx) = UpFrom(mn, mx)
    BY <2>2, IntervalForm DEF Interval
  <2>5. QED
    BY <2>1, <2>3, <2>4 DEF Means
<1>8. CASE ~(zero \/ mn < 0 \/ mx < 0 \/ mn >= sz) /\ ~(mx >= sz)
  <2>1. mn \in 0..(sz - 1) /\ mx \in 0..(sz - 1)
    BY <1>3, <1>8
  <2>2. EvlIdx(sz, l) = SlabOf(sz, mn, mx, l.srd)
    BY <1>5, <1>8
  <2>3. FullIdx(sz, l) = IF mn <= mx THEN Interval(mn, mx)
                         ELSE Interval(mn, sz - 1) \o Interval(0, mx)
    BY <1>4, <1>8, <2>1
  <2>4. /\ mn <= mx => Interval(mn, mx) = UpFrom(mn, mx)
        /\ Interval(mn, sz - 1) = UpFrom(mn, sz - 1) /\ Interval(0, mx) = UpFrom(0, mx)
    <3>1. /\ mn \in Int /\ mx \in Int /\ sz - 1 \in Int /\ 0 \in Int
          /\ mn <= mx => mn <= mx + 1
          /\ mn <= (sz - 1) + 1 /\ 0 <= mx + 1
      BY <2>1
    <3>2. QED
      BY <3>1, IntervalForm DEF Interval
  <2>5. FullIdx(sz, l) = Arc(sz, mn, mx)
    BY <2>3, <2>4 DEF Arc
  <2>6. QED
    BY <2>1, <2>2, <2>5 DEF Means
<1>9. QED
  BY <1>6, <1>7, <1>8

\* Where a coordinate goes up, the values from some point on are at least v, and
\* those up to some point at most v; where it goes down, the other way round.
Above(crd, v) == {i \in 0..(Len(crd) - 1) : crd[i + 1] >= v}
Below(crd, v) == {i \in 0..(Len(crd) - 1) : crd[i + 1] <= v}
Up(crd) == \A i, j \in DOMAIN crd : i < j => crd[i] < crd[j]
Down(crd) == \A i, j \in DOMAIN crd : i < j => crd[i] > crd[j]

\* The smallest and the largest element of a bounded set, if it has one.
LEMMA MinMaxOf ==
  ASSUME NEW n \in Nat, NEW S, S \subseteq 0..n
  PROVE  /\ S = {} => MinOr(S, -1) = -1 /\ MaxOr(S, -1) = -1
         /\ S # {} => /\ MinOr(S, -1) \in S /\ MaxOr(S, -1) \in S
                      /\ \A x \in S : MinOr(S, -1) <= x /\ x <= MaxOr(S, -1)
<1>1. ASSUME S # {}
      PROVE  /\ MinOr(S, -1) \in S /\ MaxOr(S, -1) \in S
             /\ \A x \in S : MinOr(S, -1) <= x /\ x <= MaxOr(S, -1)
  <2>1. S \subseteq Nat
    OBVIOUS
  <2>2. Min(S) \in S /\ \A x \in S : Min(S) <= x
    BY <1>1, <2>1, MinFacts
  <2>3. Max(S) \in S /\ \A x \in S : x <= Max(S)
    BY <1>1, MaxFacts
  <2>4. MinOr(S, -1) = Min(S) /\ MaxOr(S, -1) = Max(S)
    BY <1>1 DEF MinOr, MaxOr
  <2>5. QED
    BY <2>2, <2>3, <2>4
<1>2. QED
  BY <1>1 DEF MinOr, MaxOr

\* Index sets that contain every greater, or every smaller index.
LEMMA UpperPart ==
  ASSUME NEW n \in Nat, NEW S, S \subseteq 0..n,
         \A i \in S : \A j \in 0..n : i <= j => j \in S
  PROVE  LET a == MinOr(S, -1)
         IN  a \in (-1)..n /\ S = IF a = -1 THEN {} ELSE a..n
<1> DEFINE a == MinOr(S, -1)
<1>1. (S = {} => a = -1) /\ (S # {} => a \in S /\ \A x \in S : a <= x)
  BY MinMaxOf
<1> HIDE DEF a
<1>2. CASE S = {}
  BY <1>1, <1>2 DEF a
<1>3. CASE S # {}
  <2>1. a \in 0..n /\ a \in S /\ \A x \in S : a <= x /\ x \in 0..n
    BY <1>1, <1>3
  <2>2. \A x \in a..n : x \in S
    <3>1. SUFFICES ASSUME NEW x \in a..n PROVE x \in S
      OBVIOUS
    <3>2. a <= x /\ x \in 0..n
      BY <2>1
    <3>3. QED
      BY <2>1, <3>2
  <2>3. \A x \in S : x \in a..n
    BY <2>1
  <2>4. S = a..n
    BY <2>2, <2>3
  <2>5. a # -1 /\ a \in (-1)..n
    BY <2>1
  <2>6. QED
    BY <2>4, <2>5 DEF a
<1>4. QED
  BY <1>2, <1>3

\* A set that goes down to zero is an interval that begins there.
LEMMA LowerPart ==
  ASSUME NEW n \in Nat, NEW S, S \subseteq 0..n,
         \A i \in S : \A j \in 0..n : j <= i => j \in S
  PROVE  LET b == MaxOr(S, -1)
         IN  b \in (-1)..n /\ S = IF b = -1 THEN {} ELSE 0..b
<1> DEFINE b == MaxOr(S, -1)
<1>1. (S = {} => b = -1) /\ (S # {} => b \in S /\ \A x \in S : x <= b)
  BY MinMaxOf
<1> HIDE DEF b
<1>2. CASE S = {}
  BY <1>1, <1>2 DEF b
<1>3. CASE S # {}
  <2>1. b \in 0..n /\ b \in S /\ \A x \in S : x <= b /\ x \in 0..n
    BY <1>1, <1>3
  <2>2. \A x \in 0..b : x \in S
    <3>1. SUFFICES ASSUME NEW x \in 0..b PROVE x \in S
      OBVIOUS
    <3>2. x <= b /\ x \in 0..n
      BY <2>1
    <3>3. QED
      BY <2>1, <3>2
  <2>3. \A x \in S : x \in 0..b
    BY <2>1
  <2>4. S = 0..b
    BY <2>2, <2>3
  <2>5. b # -1 /\ b \in (-1)..n
    BY <2>1
  <2>6. QED
    BY <2>4, <2>5 DEF b
<1>4. QED
  BY <1>2, <1>3

\* The values of a coordinate by index from 0.
LEMMA CrdValues ==
  ASSUME NEW crd \in Seq(Int), crd # <<>>
  PROVE  LET n == Len(crd) - 1
             at(i) == crd[i + 1]
         IN  /\ n \in Nat /\ \A i \in 0..n : at(i) \in Int
             /\ Up(crd) => \A i, j \in 0..n : i < j => at(i) < at(j)
             /\ Down(crd) => \A i, j \in 0..n : i < j => at(i) > at(j)
<1> DEFINE n == Len(crd) - 1
<1>1. n \in Nat /\ DOMAIN crd = 1..(n + 1)
  OBVIOUS
<1>2. \A i \in 0..n : i + 1 \in DOMAIN crd /\ crd[i + 1] \in Int
  BY <1>1
<1>3. \A i, j \in 0..n : i < j => i + 1 < j + 1
  BY <1>1
<1> HIDE DEF n
<1>4. QED
  BY <1>1, <1>2, <1>3 DEF Up, Down, n

\* On an increasing coordinate the values from v on, and up to v, are intervals.
LEMMA UpRanges ==
  ASSUME NEW crd \in Seq(Int), crd # <<>>, Up(crd), NEW v \in Int
  PROVE  LET n == Len(crd) - 1
             a == MinOr(Above(crd, v), -1)
             b == MaxOr(Below(crd, v), -1)
         IN  /\ a \in (-1)..n /\ Above(crd, v) = IF a = -1 THEN {} ELSE a..n
             /\ b \in (-1)..n /\ Below(crd, v) = IF b = -1 THEN {} ELSE 0..b
<1> DEFINE n == Len(crd) - 1
<1>1. /\ n \in Nat /\ \A i \in 0..n : crd[i + 1] \in Int
      /\ \A i, j \in 0..n : i < j => crd[i + 1] < crd[j + 1]
  BY CrdValues
<1> HIDE DEF n
<1>2. \A i, j \in 0..n : i <= j => crd[i + 1] <= crd[j + 1]
  BY <1>1
<1>3. Above(crd, v) = {i \in 0..n : crd[i + 1] >= v}
      /\ Below(crd, v) = {i \in 0..n : crd[i + 1] <= v}
  BY DEF Above, Below, n
<1>4. \A i \in Above(crd, v) : \A j \in 0..n : i <= j => j \in Above(crd, v)
  <2>1. SUFFICES ASSUME NEW i \in Above(crd, v), NEW j \in 0..n, i <= j
                 PROVE  j \in Above(crd, v)
    OBVIOUS
  <2>2. i \in 0..n /\ crd[i + 1] >= v
    BY <1>3
  <2>3. crd[i + 1] <= crd[j + 1] /\ crd[i + 1] \in Int /\ crd[j + 1] \in Int
    BY <1>1, <1>2, <2>1, <2>2
  <2>4. crd[j + 1] >= v
    BY <2>2, <2>3
  <2>5. QED
    BY <1>3, <2>4
<1>5. \A i \in Below(crd, v) : \A j \in 0..n : j <= i => j \in Below(crd, v)
  <2>1. SUFFICES ASSUME NEW i \in Below(crd, v), NEW j \in 0..n, j <= i
                 PROVE  j \in Below(crd, v)
    OBVIOUS
  <2>2. i \in 0..n /\ crd[i + 1] <= v
    BY <1>3
  <2>3. crd[i + 1] >= crd[j + 1] /\ crd[i + 1] \in Int /\ crd[j + 1] \in Int
    BY <1>1, <1>2, <2>1, <2>2
  <2>4. crd[j + 1] <= v
    BY <2>2, <2>3
  <2>5. QED
    BY <1>3, <2>4
<1>6. Above(crd, v) \subseteq 0..n /\ Below(crd, v) \subseteq 0..n
  BY <1>3
<1>7. QED
  BY <1>1, <1>4, <1>5, <1>6, UpperPart, LowerPart DEF n

\* The same on a decreasing coordinate, with the ends exchanged.
LEMMA DownRanges ==
  ASSUME NEW crd \in Seq(Int), crd # <<>>, Down(crd), NEW v \in Int
  PROVE  LET n == Len(crd) - 1
             a == MaxOr(Above(crd, v), -1)
             b == MinOr(Below(crd, v), -1)
         IN  /\ a \in (-1)..n /\ Above(crd, v) = IF a = -1 THEN {} ELSE 0..a
             /\ b \in (-1)..n /\ Below(crd, v) = IF b = -1 THEN {} ELSE b..n
<1> DEFINE n == Len(crd) - 1
<1>1. /\ n \in Nat /\ \A i \in 0..n : crd[i + 1] \in Int
      /\ \A i, j \in 0..n : i < j => crd[i + 1] > crd[j + 1]
  BY CrdValues
<1> HIDE DEF n
<1>2. \A i, j \in 0..n : i <= j => crd[i + 1] >= crd[j + 1]
  BY <1>1
<1>3. Above(crd, v) = {i \in 0..n : crd[i + 1] >= v}
      /\ Below(crd, v) = {i \in 0..n : crd[i + 1] <= v}
  BY DEF Above, Below, n
<1>4. \A i \in Above(crd, v) : \A j \in 0..n : j <= i => j \in Above(crd, v)
  <2>1. SUFFICES ASSUME NEW i \in Above(crd, v), NEW j \in 0..n, j <= i
                 PROVE  j \in Above(crd, v)
    OBVIOUS
  <2>2. i \in 0..n /\ crd[i + 1] >= v
    BY <1>3
  <2>3. crd[i + 1] <= crd[j + 1] /\ crd[i + 1] \in Int /\ crd[j + 1] \in Int
    BY <1>1, <1>2, <2>1, <2>2
  <2>4. crd[j + 1] >= v
    BY <2>2, <2>3
  <2>5. QED
    BY <1>3, <2>4
<1>5. \A i \in Below(crd, v) : \A j \in 0..n : i <= j => j \in Below(crd, v)
  <2>1. SUFFICES ASSUME NEW i \in Below(crd, v), NEW j \in 0..n, i <= j
                 PROVE  j \in Below(crd, v)
    OBVIOUS
  <2>2. i \in 0..n /\ crd[i + 1] <= v
    BY <1>3
  <2>3. crd[i + 1] >= crd[j + 1] /\ crd[i + 1] \in Int /\ crd[j + 1] \in Int
    BY <1>1, <1>2, <2>1, <2>2
  <2>4. crd[j + 1] <= v
    BY <2>2, <2>3
  <2>5. QED
    BY <1>3, <2>4
<1>6. Above(crd, v) \subseteq 0..n /\ Below(crd, v) \subseteq 0..n
  BY <1>3
<1>7. QED
  BY <1>1, <1>4, <1>5, <1>6, UpperPart, LowerPart DEF n

-----------------------------------------------------------------------------
(* What a limit asks for: values of a coordinate.                          *)

\* A coordinate's ends, and what a limit asks for with its blanks filled in.
MinVal(crd, l) ==
  IF l.min = <<>> THEN crd[IF Increasing(crd) THEN 1 ELSE Len(crd)] ELSE l.min[1]
MaxVal(crd, l) ==
  IF l.max = <<>> THEN crd[IF Increasing(crd) THEN Len(crd) ELSE 1] ELSE l.max[1]

\* A monotonic coordinate goes up or down as its first two values do.
LEMMA Direction ==
  ASSUME NEW crd \in Seq(Int), crd # <<>>, Monotonic(crd)
  PROVE  (Increasing(crd) => Up(crd)) /\ (~Increasing(crd) => Down(crd))
<1>1. Len(crd) \in Nat \ {0} /\ DOMAIN crd = 1..Len(crd)
  OBVIOUS
<1>2. CASE Len(crd) = 1
  BY <1>1, <1>2 DEF Increasing, Up
<1>3. CASE Len(crd) # 1
  <2>1. 1 \in DOMAIN crd /\ 2 \in DOMAIN crd /\ crd[1] \in Int /\ crd[2] \in Int /\ 1 < 2
    BY <1>1, <1>3
  <2>2. Up(crd) => crd[1] < crd[2]
    BY <2>1 DEF Up
  <2>3. Down(crd) => crd[1] > crd[2]
    BY <2>1 DEF Down
  <2>4. Up(crd) \/ Down(crd)
    BY DEF Monotonic, Up, Down
  <2>5. QED
    BY <1>3, <2>1, <2>2, <2>3, <2>4 DEF Increasing
<1>4. QED
  BY <1>2, <1>3

\* With its blanks filled in, a limit has numbers for ends.
LEMMA ValTypes ==
  ASSUME NEW crd \in Seq(Int), crd # <<>>, NEW p, NEW l, IsLimit(p, l)
  PROVE  MinVal(crd, l) \in Int /\ MaxVal(crd, l) \in Int
<1>1. l.min # <<>> => l.min[1] \in Int
  BY BlankOrGiven DEF IsLimit
<1>2. l.max # <<>> => l.max[1] \in Int
  BY BlankOrGiven DEF IsLimit
<1>3. crd[1] \in Int /\ crd[Len(crd)] \in Int
  OBVIOUS
<1>4. QED
  BY <1>1, <1>2, <1>3 DEF MinVal, MaxVal

\* nco_lmt_evl_dmn_crd() on an increasing coordinate, case by case.
LEMMA EvlUpForm ==
  ASSUME NEW crd \in Seq(Int), crd # <<>>, Increasing(crd), Up(crd), NEW p, NEW l, IsLimit(p, l)
  PROVE  LET sz == Len(crd)
             m == MinVal(crd, l)
             M == MaxVal(crd, l)
             a == MinOr(Above(crd, m), -1)
             b == MaxOr(Below(crd, M), -1)
         IN  /\ m = M =>
                  EvlCrd(crd, l) = SlabOf(sz, Nearest(crd, m), Nearest(crd, m), l.srd)
             /\ m < M =>
                  EvlCrd(crd, l) = IF a = -1 \/ b = -1 \/ a > b THEN Refused
                                   ELSE SlabOf(sz, a, b, l.srd)
             /\ m > M =>
                  EvlCrd(crd, l) = IF a = -1 /\ b = -1 THEN Refused
                                   ELSE SlabOf(sz, IF a = -1 THEN 0 ELSE a,
                                               IF b = -1 THEN sz - 1 ELSE b, l.srd)
<1> DEFINE sz == Len(crd)
           m == MinVal(crd, l)
           M == MaxVal(crd, l)
           a == MinOr(Above(crd, m), -1)
           b == MaxOr(Below(crd, M), -1)
           out_min == m > crd[sz]
           out_max == M < crd[1]
           brk_min == IF l.min = <<>> THEN 0 ELSE a
           brk_max == IF l.max = <<>> THEN sz - 1 ELSE b
           no_data == brk_min # -1 /\ brk_max # -1 /\ m < M /\ brk_min > brk_max
           wrapped == m > M
           min_idx == IF m = M THEN Nearest(crd, m)
                      ELSE IF brk_min = -1 /\ wrapped THEN 0 ELSE brk_min
           max_idx == IF m = M THEN min_idx
                      ELSE IF brk_max = -1 /\ wrapped THEN sz - 1 ELSE brk_max
<1>1. /\ sz \in Nat \ {0} /\ sz - 1 \in Nat /\ 0 \in 0..(sz - 1) /\ sz - 1 \in 0..(sz - 1)
      /\ crd[1] \in Int /\ crd[sz] \in Int
      /\ 0 + 1 = 1 /\ (sz - 1) - 0 = sz - 1 /\ (sz - 1) + 1 = sz
  OBVIOUS
<1>2. m \in Int /\ M \in Int
  BY ValTypes
<1>3. EvlCrd(crd, l) =
        IF \/ m < M /\ (out_min \/ out_max)
           \/ wrapped /\ out_min /\ out_max
           \/ m # M /\ no_data
        THEN Refused ELSE SlabOf(sz, min_idx, max_idx, l.srd)
  <2>1. /\ m = IF l.min = <<>> THEN crd[1] ELSE l.min[1]
        /\ M = IF l.max = <<>> THEN crd[sz] ELSE l.max[1]
    BY DEF MinVal, MaxVal
  <2>2. /\ Above(crd, m) = {i \in 0..(sz - 1) : crd[i + 1] >= m}
        /\ Below(crd, M) = {i \in 0..(sz - 1) : crd[i + 1] <= M}
    <3> HIDE DEF m, M
    <3>1. QED
      BY DEF Above, Below
  <2> DEFINE inc == Increasing(crd)
             lo == IF inc THEN 0 ELSE sz - 1
             hi == sz - 1 - lo
             mn == IF l.min = <<>> THEN crd[lo + 1] ELSE l.min[1]
             mx == IF l.max = <<>> THEN crd[hi + 1] ELSE l.max[1]
             above == {i \in 0..(sz - 1) : crd[i + 1] >= mn}
             below == {i \in 0..(sz - 1) : crd[i + 1] <= mx}
             bmn == IF l.min = <<>> THEN lo
                    ELSE IF inc THEN MinOr(above, -1) ELSE MaxOr(above, -1)
             bmx == IF l.max = <<>> THEN hi
                    ELSE IF inc THEN MaxOr(below, -1) ELSE MinOr(below, -1)
             none == /\ bmn # -1 /\ bmx # -1
                     /\ IF inc THEN mn < mx /\ bmn > bmx ELSE mn > mx /\ bmn < bmx
             imn == IF mn = mx THEN Nearest(crd, mn)
                    ELSE IF bmn = -1 /\ mn > mx THEN 0 ELSE bmn
             imx == IF mn = mx THEN imn ELSE IF bmx = -1 /\ mn > mx THEN sz - 1 ELSE bmx
  <2>3. EvlCrd(crd, l) =
          IF \/ mn < mx /\ (mn > crd[hi + 1] \/ mx < crd[lo + 1])
             \/ mn > mx /\ mn > crd[hi + 1] /\ mx < crd[lo + 1]
             \/ mn # mx /\ none
          THEN Refused
          ELSE IF inc THEN SlabOf(sz, imn, imx, l.srd) ELSE SlabOf(sz, imx, imn, l.srd)
    BY DEF EvlCrd
  <2>4. lo = 0 /\ hi = sz - 1 /\ lo + 1 = 1 /\ hi + 1 = sz /\ inc
    BY <1>1
  <2> HIDE DEF m, M, lo, hi, inc
  <2>5. mn = m /\ mx = M
    BY <2>1, <2>4
  <2> HIDE DEF mn, mx
  <2>6. above = Above(crd, m) /\ below = Below(crd, M)
    BY <2>2, <2>5
  <2> HIDE DEF above, below
  <2>7. bmn = brk_min /\ bmx = brk_max
    BY <2>4, <2>6
  <2> HIDE DEF bmn, bmx, brk_min, brk_max
  <2>8. imn = min_idx /\ imx = max_idx /\ (none <=> no_data)
    BY <2>4, <2>5, <2>7
  <2> HIDE DEF imn, imx, none, min_idx, max_idx, no_data
  <2>9. QED
    BY <2>3, <2>4, <2>5, <2>8
<1>4. /\ a \in (-1)..(sz - 1) /\ Above(crd, m) = IF a = -1 THEN {} ELSE a..(sz - 1)
      /\ b \in (-1)..(sz - 1) /\ Below(crd, M) = IF b = -1 THEN {} ELSE 0..b
  BY <1>2, UpRanges
<1>5. (sz - 1 \in Above(crd, m) <=> crd[sz] >= m) /\ (0 \in Below(crd, M) <=> crd[1] <= M)
  BY <1>1 DEF Above, Below
<1>6. l.min = <<>> => m = crd[1] /\ 0 \in Above(crd, m)
  BY <1>1 DEF MinVal, Above
<1>7. l.max = <<>> => M = crd[sz] /\ sz - 1 \in Below(crd, M)
  BY <1>1 DEF MaxVal, Below
<1> HIDE DEF m, M, a, b, sz
<1>8. brk_min = a /\ brk_max = b
  BY <1>1, <1>4, <1>6, <1>7
<1>9. (out_min <=> a = -1) /\ (out_max <=> b = -1)
  BY <1>1, <1>2, <1>4, <1>5
<1> HIDE DEF brk_min, brk_max, out_min, out_max
<1>10. (m = M => ~(m < M) /\ ~(m > M)) /\ (m < M => m # M /\ ~(m > M))
       /\ (m > M => m # M /\ ~(m < M))
  BY <1>2
<1>11. ASSUME m = M PROVE EvlCrd(crd, l) = SlabOf(sz, Nearest(crd, m), Nearest(crd, m), l.srd)
  BY <1>3, <1>10, <1>11
<1>12. ASSUME m < M
       PROVE  EvlCrd(crd, l) = IF a = -1 \/ b = -1 \/ a > b THEN Refused
                               ELSE SlabOf(sz, a, b, l.srd)
  BY <1>3, <1>8, <1>9, <1>10, <1>12
<1>13. ASSUME m > M
       PROVE  EvlCrd(crd, l) = IF a = -1 /\ b = -1 THEN Refused
                               ELSE SlabOf(sz, IF a = -1 THEN 0 ELSE a,
                                           IF b = -1 THEN sz - 1 ELSE b, l.srd)
  BY <1>3, <1>8, <1>9, <1>10, <1>13
<1>14. QED
  BY <1>11, <1>12, <1>13 DEF m, M, a, b, sz

\* nco_lmt_evl_dmn_crd() on a decreasing coordinate, case by case.
LEMMA EvlDownForm ==
  ASSUME NEW crd \in Seq(Int), crd # <<>>, ~Increasing(crd), Down(crd),
         NEW p, NEW l, IsLimit(p, l)
  PROVE  LET sz == Len(crd)
             m == MinVal(crd, l)
             M == MaxVal(crd, l)
             a == MaxOr(Above(crd, m), -1)
             b == MinOr(Below(crd, M), -1)
         IN  /\ m = M =>
                  EvlCrd(crd, l) = SlabOf(sz, Nearest(crd, m), Nearest(crd, m), l.srd)
             /\ m < M =>
                  EvlCrd(crd, l) = IF a = -1 \/ b = -1 THEN Refused
                                   ELSE SlabOf(sz, b, a, l.srd)
<1> DEFINE sz == Len(crd)
           m == MinVal(crd, l)
           M == MaxVal(crd, l)
           a == MaxOr(Above(crd, m), -1)
           b == MinOr(Below(crd, M), -1)
           out_min == m > crd[1]
           out_max == M < crd[sz]
           brk_min == IF l.min = <<>> THEN sz - 1 ELSE a
           brk_max == IF l.max = <<>> THEN 0 ELSE b
           no_data == brk_min # -1 /\ brk_max # -1 /\ m > M /\ brk_min < brk_max
           wrapped == m > M
           min_idx == IF m = M THEN Nearest(crd, m)
                      ELSE IF brk_min = -1 /\ wrapped THEN 0 ELSE brk_min
           max_idx == IF m = M THEN min_idx
                      ELSE IF brk_max = -1 /\ wrapped THEN sz - 1 ELSE brk_max
<1>1. /\ sz \in Nat \ {0} /\ sz - 1 \in Nat /\ 0 \in 0..(sz - 1) /\ sz - 1 \in 0..(sz - 1)
      /\ crd[1] \in Int /\ crd[sz] \in Int
      /\ 0 + 1 = 1 /\ (sz - 1) - (sz - 1) = 0 /\ (sz - 1) + 1 = sz
  OBVIOUS
<1>2. m \in Int /\ M \in Int
  BY ValTypes
<1>3. EvlCrd(crd, l) =
        IF \/ m < M /\ (out_min \/ out_max)
           \/ wrapped /\ out_min /\ out_max
           \/ m # M /\ no_data
        THEN Refused ELSE SlabOf(sz, max_idx, min_idx, l.srd)
  <2>1. /\ m = IF l.min = <<>> THEN crd[sz] ELSE l.min[1]
        /\ M = IF l.max = <<>> THEN crd[1] ELSE l.max[1]
    BY DEF MinVal, MaxVal
  <2>2. /\ Above(crd, m) = {i \in 0..(sz - 1) : crd[i + 1] >= m}
        /\ Below(crd, M) = {i \in 0..(sz - 1) : crd[i + 1] <= M}
    <3> HIDE DEF m, M
    <3>1. QED
      BY DEF Above, Below
  <2> DEFINE inc == Increasing(crd)
             lo == IF inc THEN 0 ELSE sz - 1
             hi == sz - 1 - lo
             mn == IF l.min = <<>> THEN crd[lo + 1] ELSE l.min[1]
             mx == IF l.max = <<>> THEN crd[hi + 1] ELSE l.max[1]
             above == {i \in 0..(sz - 1) : crd[i + 1] >= mn}
             below == {i \in 0..(sz - 1) : crd[i + 1] <= mx}
             bmn == IF l.min = <<>> THEN lo
                    ELSE IF inc THEN MinOr(above, -1) ELSE MaxOr(above, -1)
             bmx == IF l.max = <<>> THEN hi
                    ELSE IF inc THEN MaxOr(below, -1) ELSE MinOr(below, -1)
             none == /\ bmn # -1 /\ bmx # -1
                     /\ IF inc THEN mn < mx /\ bmn > bmx ELSE mn > mx /\ bmn < bmx
             imn == IF mn = mx THEN Nearest(crd, mn)
                    ELSE IF bmn = -1 /\ mn > mx THEN 0 ELSE bmn
             imx == IF mn = mx THEN imn ELSE IF bmx = -1 /\ mn > mx THEN sz - 1 ELSE bmx
  <2>3. EvlCrd(crd, l) =
          IF \/ mn < mx /\ (mn > crd[hi + 1] \/ mx < crd[lo + 1])
             \/ mn > mx /\ mn > crd[hi + 1] /\ mx < crd[lo + 1]
             \/ mn # mx /\ none
          THEN Refused
          ELSE IF inc THEN SlabOf(sz, imn, imx, l.srd) ELSE SlabOf(sz, imx, imn, l.srd)
    BY DEF EvlCrd
  <2>4. lo = sz - 1 /\ hi = 0 /\ lo + 1 = sz /\ hi + 1 = 1 /\ ~inc
    BY <1>1
  <2> HIDE DEF m, M, lo, hi, inc
  <2>5. mn = m /\ mx = M
    BY <2>1, <2>4
  <2> HIDE DEF mn, mx
  <2>6. above = Above(crd, m) /\ below = Below(crd, M)
    BY <2>2, <2>5
  <2> HIDE DEF above, below
  <2>7. bmn = brk_min /\ bmx = brk_max
    BY <2>4, <2>6
  <2> HIDE DEF bmn, bmx, brk_min, brk_max
  <2>8. imn = min_idx /\ imx = max_idx /\ (none <=> no_data)
    BY <2>4, <2>5, <2>7
  <2> HIDE DEF imn, imx, none, min_idx, max_idx, no_data
  <2>9. QED
    BY <2>3, <2>4, <2>5, <2>8
<1>4. /\ a \in (-1)..(sz - 1) /\ Above(crd, m) = IF a = -1 THEN {} ELSE 0..a
      /\ b \in (-1)..(sz - 1) /\ Below(crd, M) = IF b = -1 THEN {} ELSE b..(sz - 1)
  BY <1>2, DownRanges
<1>5. (0 \in Above(crd, m) <=> crd[1] >= m) /\ (sz - 1 \in Below(crd, M) <=> crd[sz] <= M)
  BY <1>1 DEF Above, Below
<1>6. l.min = <<>> => m = crd[sz] /\ sz - 1 \in Above(crd, m)
  BY <1>1 DEF MinVal, Above
<1>7. l.max = <<>> => M = crd[1] /\ 0 \in Below(crd, M)
  BY <1>1 DEF MaxVal, Below
<1> HIDE DEF m, M, a, b, sz
<1>8. brk_min = a /\ brk_max = b
  BY <1>1, <1>4, <1>6, <1>7
<1>9. (out_min <=> a = -1) /\ (out_max <=> b = -1)
  BY <1>1, <1>2, <1>4, <1>5
<1> HIDE DEF brk_min, brk_max, out_min, out_max
<1>10. (m = M => ~(m < M) /\ ~(m > M)) /\ (m < M => m # M /\ ~(m > M))
  BY <1>2
<1>11. ASSUME m = M PROVE EvlCrd(crd, l) = SlabOf(sz, Nearest(crd, m), Nearest(crd, m), l.srd)
  BY <1>3, <1>10, <1>11
<1>12. ASSUME m < M
       PROVE  EvlCrd(crd, l) = IF a = -1 \/ b = -1 THEN Refused ELSE SlabOf(sz, b, a, l.srd)
  BY <1>3, <1>8, <1>9, <1>10, <1>12
<1>13. QED
  BY <1>11, <1>12 DEF m, M, a, b, sz

\* FullCrd counts from one before it comes back to indices from zero.
Shift(s) == [k \in DOMAIN s |-> s[k] - 1]
Lifted(S) == {i + 1 : i \in S}

\* Indices counted from one are listed as those counted from zero.
LEMMA ShiftedUp ==
  ASSUME NEW a \in Int, NEW b \in Int, a <= b + 1
  PROVE  /\ Ascending(Lifted(a..b)) = UpFrom(a + 1, b + 1)
         /\ Shift(UpFrom(a + 1, b + 1)) = UpFrom(a, b)
<1>1. Lifted(a..b) = (a + 1)..(b + 1)
  <2>1. \A i \in a..b : i + 1 \in (a + 1)..(b + 1)
    OBVIOUS
  <2>2. \A j \in (a + 1)..(b + 1) : j - 1 \in a..b /\ j = (j - 1) + 1
    OBVIOUS
  <2>3. QED
    BY <2>1, <2>2 DEF Lifted
<1>2. a + 1 \in Int /\ b + 1 \in Int /\ a + 1 <= (b + 1) + 1
  OBVIOUS
<1>3. Ascending(Lifted(a..b)) = UpFrom(a + 1, b + 1)
  BY <1>1, <1>2, IntervalForm
<1>4. (b + 1) - (a + 1) + 1 = b - a + 1
  OBVIOUS
<1>5. Shift(UpFrom(a + 1, b + 1)) = UpFrom(a, b)
  BY <1>4 DEF Shift, UpFrom
<1>6. QED
  BY <1>3, <1>5

\* Sequences that agree at every place are equal.
LEMMA SeqEqual ==
  ASSUME NEW s \in Seq(Int), NEW t \in Seq(Int), Len(s) = Len(t),
         \A k \in 1..Len(s) : s[k] = t[k]
  PROVE  s = t
OBVIOUS

\* Counting back keeps the length.
LEMMA ShiftType ==
  ASSUME NEW s \in Seq(Int)
  PROVE  /\ Shift(s) \in Seq(Int) /\ Len(Shift(s)) = Len(s)
         /\ \A k \in 1..Len(s) : Shift(s)[k] = s[k] - 1
<1>1. Len(s) \in Nat /\ DOMAIN s = 1..Len(s) /\ \A k \in 1..Len(s) : s[k] \in Int
  OBVIOUS
<1>2. Shift(s) = [k \in 1..Len(s) |-> s[k] - 1]
  BY <1>1 DEF Shift
<1>3. Shift(s) \in [1..Len(s) -> Int]
  BY <1>1, <1>2
<1>4. QED
  BY <1>1, <1>2, <1>3

\* Counting back two sequences put together.
LEMMA ShiftConcat ==
  ASSUME NEW s \in Seq(Int), NEW t \in Seq(Int)
  PROVE  Shift(s \o t) = Shift(s) \o Shift(t)
<1>1. PICK u \in Seq(Int), v \in Seq(Int) : u = Shift(s) /\ v = Shift(t)
  BY ShiftType
<1>2. Len(s) \in Nat /\ Len(t) \in Nat /\ s \o t \in Seq(Int)
      /\ Len(s \o t) = Len(s) + Len(t)
  OBVIOUS
<1>3. PICK w \in Seq(Int) : w = Shift(s \o t)
  BY <1>2, ShiftType
<1>4. /\ Len(u) = Len(s) /\ Len(v) = Len(t)
      /\ \A k \in 1..Len(s) : u[k] = s[k] - 1
      /\ \A k \in 1..Len(t) : v[k] = t[k] - 1
  BY <1>1, ShiftType
<1>5. Len(w) = Len(s) + Len(t) /\ \A k \in 1..(Len(s) + Len(t)) : w[k] = (s \o t)[k] - 1
  BY <1>2, <1>3, ShiftType
<1>6. u \o v \in Seq(Int) /\ Len(u \o v) = Len(s) + Len(t)
  <2>1. u \o v \in Seq(Int)
    BY Concat
  <2>2. Len(u \o v) = Len(u) + Len(v)
    BY Concat
  <2>3. QED
    BY <1>4, <2>1, <2>2, Zenon
<1>7. ASSUME NEW k \in 1..(Len(s) + Len(t)) PROVE w[k] = (u \o v)[k]
  <2>1. CASE k <= Len(s)
    <3>1. k \in 1..Len(s) /\ k \in 1..Len(u)
      BY <1>2, <1>4, <2>1
    <3>2. (s \o t)[k] = s[k] /\ (u \o v)[k] = u[k]
      BY <3>1
    <3>3. QED
      BY <1>4, <1>5, <3>1, <3>2
  <2>2. CASE ~(k <= Len(s))
    <3>1. k - Len(s) \in 1..Len(t) /\ k - Len(s) \in 1..Len(v) /\ k = Len(s) + (k - Len(s))
      BY <1>2, <1>4, <2>2
    <3>2. (s \o t)[k] = t[k - Len(s)] /\ (u \o v)[k] = v[k - Len(s)]
      BY <1>2, <1>4, <2>2, <3>1
    <3>3. QED
      BY <1>4, <1>5, <3>1, <3>2
  <2>3. QED
    BY <2>1, <2>2, Zenon
<1>8. w = u \o v
  <2>1. PICK z \in Seq(Int) : z = u \o v
    BY <1>6
  <2>2. Len(w) = Len(z) /\ \A k \in 1..Len(w) : w[k] = z[k]
    BY <1>5, <1>6, <1>7, <2>1, Zenon
  <2>3. QED
    BY <2>1, <2>2, SeqEqual, Zenon
<1>9. QED
  BY <1>1, <1>3, <1>8

\* Nothing is listed as nothing.
LEMMA NoneListed == Ascending({}) = <<>> /\ Lifted({}) = {} /\ Shift(<<>>) = <<>>
<1>1. 1..0 = {} /\ UpFrom(1, 0) = <<>>
  BY DEF UpFrom
<1>2. Ascending(1..0) = UpFrom(1, 0)
  BY IntervalForm
<1>3. QED
  BY <1>1, <1>2 DEF Lifted, Shift

\* The value nearest to one of a coordinate's values is that value.
LEMMA NearestExact ==
  ASSUME NEW crd \in Seq(Int), crd # <<>>, Up(crd) \/ Down(crd),
         NEW x \in 0..(Len(crd) - 1)
  PROVE  Nearest(crd, crd[x + 1]) = x
<1> DEFINE n == Len(crd) - 1
           v == crd[x + 1]
           dst(i) == IF crd[i + 1] < v THEN v - crd[i + 1] ELSE crd[i + 1] - v
           S == {i \in 0..n : \A j \in 0..n : dst(i) <= dst(j)}
<1>1. n \in Nat /\ (\A i \in 0..n : crd[i + 1] \in Int) /\ x \in 0..n /\ v \in Int
  BY CrdValues
<1>2. \A i \in 0..n : i # x => crd[i + 1] # v
  <2>1. CASE Up(crd)
    <3>1. \A i, j \in 0..n : i < j => crd[i + 1] < crd[j + 1]
      BY <2>1, CrdValues
    <3>2. SUFFICES ASSUME NEW i \in 0..n, i # x PROVE crd[i + 1] # v
      OBVIOUS
    <3>3. i < x \/ x < i
      BY <1>1, <3>2
    <3>4. QED
      BY <1>1, <3>1, <3>3
  <2>2. CASE Down(crd)
    <3>1. \A i, j \in 0..n : i < j => crd[i + 1] > crd[j + 1]
      BY <2>2, CrdValues
    <3>2. SUFFICES ASSUME NEW i \in 0..n, i # x PROVE crd[i + 1] # v
      OBVIOUS
    <3>3. i < x \/ x < i
      BY <1>1, <3>2
    <3>4. QED
      BY <1>1, <3>1, <3>3
  <2>3. QED
    BY <2>1, <2>2
<1>3. Nearest(crd, v) = Min(S)
  BY DEF Nearest
<1> HIDE DEF n, v
<1>4. dst(x) = 0 /\ \A i \in 0..n : dst(i) \in Nat /\ (i # x => dst(i) # 0)
  BY <1>1, <1>2 DEF v
<1> HIDE DEF dst
<1>5. S = {x}
  <2>1. x \in S
    BY <1>1, <1>4
  <2>2. \A i \in S : i = x
    BY <1>1, <1>4
  <2>3. QED
    BY <2>1, <2>2
<1>6. Min({x}) = x
  <2>1. {x} \subseteq Nat /\ {x} # {}
    BY <1>1
  <2>2. Min({x}) \in {x}
    BY <2>1, MinFacts
  <2>3. QED
    BY <2>2
<1>7. QED
  BY <1>3, <1>5, <1>6 DEF v

\* FullCrd, case by case, in terms of the values from some point on and up to some.
LEMMA FullCrdForm ==
  ASSUME NEW crd \in Seq(Int), crd # <<>>, Monotonic(crd), NEW p, NEW l, IsLimit(p, l)
  PROVE  LET m == MinVal(crd, l)
             M == MaxVal(crd, l)
             A == Above(crd, m)
             B == Below(crd, M)
         IN  /\ l.min # <<>> /\ l.min = l.max => m = M /\ FullCrd(crd, l) = <<Nearest(crd, m)>>
             /\ l.min = <<>> \/ l.max = <<>> \/ m < M =>
                  FullCrd(crd, l) = Shift(Ascending(Lifted(A \cap B)))
             /\ l.min # <<>> /\ l.max # <<>> /\ l.min # l.max => m # M
             /\ l.min # <<>> /\ l.max # <<>> /\ m > M /\ Increasing(crd) =>
                  FullCrd(crd, l) = Shift(Ascending(Lifted(A)) \o Ascending(Lifted(B)))
<1> DEFINE m == MinVal(crd, l)
           M == MaxVal(crd, l)
           A == Above(crd, m)
           B == Below(crd, M)
           n == Len(crd) - 1
           from == {i \in DOMAIN crd : l.min = <<>> \/ crd[i] >= l.min[1]}
           upto == {i \in DOMAIN crd : l.max = <<>> \/ crd[i] <= l.max[1]}
<1>1. m \in Int /\ M \in Int
  BY ValTypes
<1>2. n \in Nat /\ DOMAIN crd = 1..(n + 1) /\ (\A i \in 0..n : crd[i + 1] \in Int)
      /\ crd[1] \in Int /\ crd[n + 1] \in Int /\ Len(crd) = n + 1
  OBVIOUS
<1>3. /\ l.min # <<>> => m = l.min[1] /\ l.min = <<m>>
      /\ l.max # <<>> => M = l.max[1] /\ l.max = <<M>>
  BY BlankOrGiven DEF IsLimit, MinVal, MaxVal
<1>4. \A i \in 0..n : /\ l.min = <<>> => crd[i + 1] >= m
                      /\ l.max = <<>> => crd[i + 1] <= M
  <2>1. CASE Increasing(crd)
    <3>1. \A i, j \in 0..n : i < j => crd[i + 1] < crd[j + 1]
      BY <2>1, Direction, CrdValues
    <3>2. (l.min = <<>> => m = crd[0 + 1]) /\ (l.max = <<>> => M = crd[n + 1])
      BY <1>2, <2>1 DEF MinVal, MaxVal
    <3> HIDE DEF n, m, M
    <3>3. SUFFICES ASSUME NEW i \in 0..n
                   PROVE  /\ l.min = <<>> => crd[i + 1] >= m
                          /\ l.max = <<>> => crd[i + 1] <= M
      BY Zenon
    <3>4. (i = 0 \/ 0 < i) /\ (i = n \/ i < n) /\ 0 \in 0..n /\ n \in 0..n
      BY <1>2
    <3>5. crd[i + 1] \in Int
      BY <1>2
    <3>6. crd[0 + 1] <= crd[i + 1]
      <4>1. CASE i = 0
        BY <3>5, <4>1
      <4>2. CASE 0 < i
        <5>1. crd[0 + 1] < crd[i + 1]
          BY <3>1, <3>4, <4>2, Zenon
        <5>2. crd[0 + 1] \in Int
          BY <1>2, <3>4, Zenon
        <5>3. QED
          BY <3>5, <5>1, <5>2
      <4>3. QED
        BY <3>4, <4>1, <4>2, Zenon
    <3>7. crd[i + 1] <= crd[n + 1]
      <4>1. CASE i = n
        BY <3>5, <4>1
      <4>2. CASE i < n
        BY <1>2, <3>1, <3>4, <3>5, <4>2
      <4>3. QED
        BY <3>4, <4>1, <4>2, Zenon
    <3>8. QED
      BY <3>2, <3>5, <3>6, <3>7
  <2>2. CASE ~Increasing(crd)
    <3>1. \A i, j \in 0..n : i < j => crd[i + 1] > crd[j + 1]
      BY <2>2, Direction, CrdValues
    <3>2. (l.min = <<>> => m = crd[n + 1]) /\ (l.max = <<>> => M = crd[0 + 1])
      BY <1>2, <2>2 DEF MinVal, MaxVal
    <3> HIDE DEF n, m, M
    <3>3. SUFFICES ASSUME NEW i \in 0..n
                   PROVE  /\ l.min = <<>> => crd[i + 1] >= m
                          /\ l.max = <<>> => crd[i + 1] <= M
      BY Zenon
    <3>4. (i = 0 \/ 0 < i) /\ (i = n \/ i < n) /\ 0 \in 0..n /\ n \in 0..n
      BY <1>2
    <3>5. crd[i + 1] \in Int
      BY <1>2
    <3>6. crd[0 + 1] >= crd[i + 1]
      <4>1. CASE i = 0
        BY <3>5, <4>1
      <4>2. CASE 0 < i
        <5>1. crd[0 + 1] > crd[i + 1]
          BY <3>1, <3>4, <4>2, Zenon
        <5>2. crd[0 + 1] \in Int
          BY <1>2, <3>4, Zenon
        <5>3. QED
          BY <3>5, <5>1, <5>2
      <4>3. QED
        BY <3>4, <4>1, <4>2, Zenon
    <3>7. crd[i + 1] >= crd[n + 1]
      <4>1. CASE i = n
        BY <3>5, <4>1
      <4>2. CASE i < n
        BY <1>2, <3>1, <3>4, <3>5, <4>2
      <4>3. QED
        BY <3>4, <4>1, <4>2, Zenon
    <3>8. QED
      BY <3>2, <3>5, <3>6, <3>7
  <2>3. QED
    BY <2>1, <2>2
<1>5. /\ A = {i \in 0..n : crd[i + 1] >= m}
      /\ B = {i \in 0..n : crd[i + 1] <= M}
  BY DEF Above, Below
<1>6. FullCrd(crd, l) =
        Shift(IF l.min # <<>> /\ l.min = l.max THEN <<Nearest(crd, l.min[1]) + 1>>
              ELSE IF l.min = <<>> \/ l.max = <<>> \/ l.min[1] < l.max[1]
              THEN Ascending(from \cap upto)
              ELSE IF Increasing(crd) THEN Ascending(from) \o Ascending(upto)
              ELSE Ascending(upto) \o Ascending(from))
  BY DEF FullCrd, Shift
<1>7. \A i \in 0..n : i + 1 \in 1..(n + 1)
  BY <1>2
<1>8. \A j \in 1..(n + 1) : j - 1 \in 0..n /\ j = (j - 1) + 1
  BY <1>2
<1> HIDE DEF n, m, M, A, B
<1>9. from = Lifted(A)
  <2>1. \A j \in from : j - 1 \in A
    BY <1>2, <1>3, <1>4, <1>5, <1>8
  <2>2. \A i \in A : i + 1 \in from
    BY <1>2, <1>3, <1>4, <1>5, <1>7
  <2>3. \A j \in from : j = (j - 1) + 1
    BY <1>2, <1>8
  <2> HIDE DEF from
  <2>4. QED
    BY <2>1, <2>2, <2>3 DEF Lifted
<1>10. upto = Lifted(B)
  <2>1. \A j \in upto : j - 1 \in B
    BY <1>2, <1>3, <1>4, <1>5, <1>8
  <2>2. \A i \in B : i + 1 \in upto
    BY <1>2, <1>3, <1>4, <1>5, <1>7
  <2>3. \A j \in upto : j = (j - 1) + 1
    BY <1>2, <1>8
  <2> HIDE DEF upto
  <2>4. QED
    BY <2>1, <2>2, <2>3 DEF Lifted
<1>11. from \cap upto = Lifted(A \cap B)
  <2>1. \A i, j \in A \cup B : i + 1 = j + 1 => i = j
    BY <1>5
  <2>2. QED
    BY <1>9, <1>10, <2>1 DEF Lifted
<1> HIDE DEF from, upto
<1>12. ASSUME l.min # <<>>, l.min = l.max
       PROVE  m = M /\ FullCrd(crd, l) = <<Nearest(crd, m)>>
  <2>1. m = M /\ FullCrd(crd, l) = Shift(<<Nearest(crd, m) + 1>>)
    BY <1>3, <1>6, <1>12
  <2>2. Nearest(crd, m) \in Int
    BY <1>1, NearestFacts
  <2>3. \A x \in Int : Shift(<<x + 1>>) = <<x>>
    BY DEF Shift
  <2>4. QED
    BY <2>1, <2>2, <2>3
<1>13. ASSUME l.min = <<>> \/ l.max = <<>> \/ m < M
       PROVE  FullCrd(crd, l) = Shift(Ascending(Lifted(A \cap B)))
  <2>1. l.min # <<>> /\ l.max # <<>> => l.min # l.max
    BY <1>1, <1>3, <1>13
  <2>2. QED
    BY <1>3, <1>6, <1>11, <1>13, <2>1
<1>14. ASSUME l.min # <<>>, l.max # <<>>, m > M, Increasing(crd)
       PROVE  FullCrd(crd, l) = Shift(Ascending(Lifted(A)) \o Ascending(Lifted(B)))
  <2>1. l.min # l.max /\ ~(m < M)
    BY <1>1, <1>3, <1>14
  <2>2. QED
    BY <1>3, <1>6, <1>9, <1>10, <1>14, <2>1
<1>15. l.min # <<>> /\ l.max # <<>> /\ l.min # l.max => m # M
  BY <1>3
<1>16. QED
  BY <1>12, <1>13, <1>14, <1>15 DEF m, M, A, B

\* One index, as an arc and as a listing.
LEMMA OneListed ==
  ASSUME NEW sz \in Nat \ {0}, NEW x \in 0..(sz - 1)
  PROVE  /\ Arc(sz, x, x) = <<x>>
         /\ Shift(Ascending(Lifted({x}))) = <<x>>
<1>1. x \in Int /\ x <= x + 1 /\ x - x + 1 = 1 /\ x <= x /\ x..x = {x}
  OBVIOUS
<1>2. UpFrom(x, x) = <<x>>
  <2>1. UpFrom(x, x) = [k \in 1..1 |-> x + k - 1]
    BY <1>1 DEF UpFrom
  <2>2. \A k \in 1..1 : x + k - 1 = x
    BY <1>1
  <2>3. QED
    BY <2>1, <2>2
<1>3. Shift(Ascending(Lifted(x..x))) = UpFrom(x, x)
  BY <1>1, ShiftedUp
<1>4. QED
  BY <1>1, <1>2, <1>3 DEF Arc

\* A range of values listed without a turn.
LEMMA StraightListed ==
  ASSUME NEW sz \in Nat \ {0}, NEW a \in 0..(sz - 1), NEW b \in 0..(sz - 1), a <= b
  PROVE  Shift(Ascending(Lifted(a..b))) = Arc(sz, a, b)
<1>1. a \in Int /\ b \in Int /\ a <= b + 1
  OBVIOUS
<1>2. QED
  BY <1>1, ShiftedUp DEF Arc

\* The minimum is the maximum: the nearest value.
LEMMA EqualMeans ==
  ASSUME NEW crd \in Seq(Int), crd # <<>>, Monotonic(crd), NEW p, NEW l, IsLimit(p, l),
         MinVal(crd, l) = MaxVal(crd, l),
         EvlCrd(crd, l) = SlabOf(Len(crd), Nearest(crd, MinVal(crd, l)),
                                 Nearest(crd, MinVal(crd, l)), l.srd)
  PROVE  Means(Len(crd), EvlCrd(crd, l), FullCrd(crd, l), l.srd)
<1> DEFINE sz == Len(crd)
           m == MinVal(crd, l)
           N == Nearest(crd, m)
<1>1. sz \in Nat \ {0} /\ m \in Int /\ N \in 0..(sz - 1)
  BY ValTypes, NearestFacts
<1>2. ASSUME FullCrd(crd, l) = <<N>> PROVE Means(Len(crd), EvlCrd(crd, l), FullCrd(crd, l), l.srd)
  BY <1>1, <1>2, OneListed DEF Means
<1>3. CASE l.min # <<>> /\ l.min = l.max
  BY <1>2, <1>3, FullCrdForm
<1>4. CASE l.min = <<>> \/ l.max = <<>>
  <2>1. FullCrd(crd, l) = Shift(Ascending(Lifted(Above(crd, m) \cap Below(crd, m))))
    BY <1>4, FullCrdForm
  <2>2. PICK x \in 0..(sz - 1) : m = crd[x + 1]
    <3>1. m = crd[1] \/ m = crd[sz]
      BY <1>4 DEF MinVal, MaxVal
    <3>2. 0 \in 0..(sz - 1) /\ 0 + 1 = 1 /\ sz - 1 \in 0..(sz - 1) /\ (sz - 1) + 1 = sz
      BY <1>1
    <3>3. QED
      BY <3>1, <3>2, Zenon
  <2>3. Up(crd) \/ Down(crd)
    BY DEF Monotonic, Up, Down
  <2>4. N = x
    BY <2>2, <2>3, NearestExact
  <2>5. Above(crd, m) \cap Below(crd, m) = {x}
    <3>1. \A i \in 0..(sz - 1) : crd[i + 1] \in Int
      BY CrdValues
    <3>2. \A i \in 0..(sz - 1) : crd[i + 1] = m => i = x
      BY <2>3, <2>4, NearestExact
    <3>3. /\ Above(crd, m) = {i \in 0..(sz - 1) : crd[i + 1] >= m}
          /\ Below(crd, m) = {i \in 0..(sz - 1) : crd[i + 1] <= m}
      BY DEF Above, Below
    <3> HIDE DEF sz, m
    <3>4. \A i \in 0..(sz - 1) : crd[i + 1] >= m /\ crd[i + 1] <= m <=> i = x
      BY <1>1, <2>2, <3>1, <3>2
    <3>5. QED
      BY <3>3, <3>4
  <2>6. QED
    BY <1>1, <1>2, <2>1, <2>4, <2>5, OneListed
<1>5. QED
  BY <1>3, <1>4, FullCrdForm

\* Blank ends are in order.
LEMMA BlankOrder ==
  ASSUME NEW crd \in Seq(Int), crd # <<>>, Monotonic(crd), NEW l, l.min = <<>>, l.max = <<>>
  PROVE  /\ MinVal(crd, l) <= MaxVal(crd, l)
         /\ Above(crd, MinVal(crd, l)) \cap Below(crd, MaxVal(crd, l)) # {}
<1> DEFINE n == Len(crd) - 1
<1>1. /\ n \in Nat /\ 0 \in 0..n /\ n \in 0..n /\ n + 1 = Len(crd) /\ 0 + 1 = 1
      /\ crd[1] \in Int /\ crd[n + 1] \in Int
  OBVIOUS
<1>2. n = 0 \/ 0 < n
  BY <1>1
<1>3. CASE Increasing(crd)
  <2>1. \A i, j \in 0..n : i < j => crd[i + 1] < crd[j + 1]
    BY <1>3, Direction, CrdValues
  <2>2. MinVal(crd, l) = crd[1] /\ MaxVal(crd, l) = crd[n + 1]
    BY <1>1, <1>3 DEF MinVal, MaxVal
  <2> HIDE DEF n
  <2>3. crd[1] <= crd[n + 1]
    <3>1. 0 < n => crd[0 + 1] < crd[n + 1]
      BY <1>1, <2>1, Zenon
    <3>2. QED
      BY <1>1, <1>2, <3>1
  <2>4. 0 \in Above(crd, crd[1]) /\ 0 \in Below(crd, crd[n + 1])
    BY <1>1, <2>3 DEF Above, Below
  <2>5. QED
    BY <2>2, <2>3, <2>4
<1>4. CASE ~Increasing(crd)
  <2>1. \A i, j \in 0..n : i < j => crd[i + 1] > crd[j + 1]
    BY <1>4, Direction, CrdValues
  <2>2. MinVal(crd, l) = crd[n + 1] /\ MaxVal(crd, l) = crd[1]
    BY <1>1, <1>4 DEF MinVal, MaxVal
  <2> HIDE DEF n
  <2>3. crd[n + 1] <= crd[1]
    <3>1. 0 < n => crd[0 + 1] > crd[n + 1]
      BY <1>1, <2>1, Zenon
    <3>2. QED
      BY <1>1, <1>2, <3>1
  <2>4. 0 \in Above(crd, crd[n + 1]) /\ 0 \in Below(crd, crd[1])
    BY <1>1, <2>3 DEF Above, Below
  <2>5. QED
    BY <2>2, <2>3, <2>4
<1>5. QED
  BY <1>3, <1>4

\* The minimum is above the maximum: nothing lies between.
LEMMA NothingBetween ==
  ASSUME NEW crd \in Seq(Int), crd # <<>>, NEW m \in Int, NEW M \in Int, m > M
  PROVE  Above(crd, m) \cap Below(crd, M) = {}
<1>1. \A i \in 0..(Len(crd) - 1) : crd[i + 1] \in Int
  BY CrdValues
<1>2. \A i \in Above(crd, m) \cap Below(crd, M) :
         i \in 0..(Len(crd) - 1) /\ crd[i + 1] >= m /\ crd[i + 1] <= M
  BY DEF Above, Below
<1>3. ASSUME NEW i \in Above(crd, m) \cap Below(crd, M) PROVE FALSE
  BY <1>1, <1>2
<1>4. QED
  BY <1>3

\* On an increasing coordinate.
LEMMA UpMeans ==
  ASSUME NEW crd \in Seq(Int), crd # <<>>, Increasing(crd), Monotonic(crd),
         NEW p, NEW l, IsLimit(p, l),
         (l.min = <<>>) # (l.max = <<>>) => FullCrd(crd, l) # <<>>
  PROVE  Means(Len(crd), EvlCrd(crd, l), FullCrd(crd, l), l.srd)
<1> DEFINE sz == Len(crd)
           m == MinVal(crd, l)
           M == MaxVal(crd, l)
           A == Above(crd, m)
           B == Below(crd, M)
           a == MinOr(A, -1)
           b == MaxOr(B, -1)
           s == EvlCrd(crd, l)
           full == FullCrd(crd, l)
<1>1. sz \in Nat \ {0} /\ m \in Int /\ M \in Int /\ 0 \in 0..(sz - 1) /\ sz - 1 \in 0..(sz - 1)
  BY ValTypes
<1>2. Up(crd)
  BY Direction
<1>3. /\ a \in (-1)..(sz - 1) /\ A = IF a = -1 THEN {} ELSE a..(sz - 1)
      /\ b \in (-1)..(sz - 1) /\ B = IF b = -1 THEN {} ELSE 0..b
  BY <1>1, <1>2, UpRanges
<1>4. /\ m = M => s = SlabOf(sz, Nearest(crd, m), Nearest(crd, m), l.srd)
      /\ m < M => s = IF a = -1 \/ b = -1 \/ a > b THEN Refused ELSE SlabOf(sz, a, b, l.srd)
      /\ m > M => s = IF a = -1 /\ b = -1 THEN Refused
                      ELSE SlabOf(sz, IF a = -1 THEN 0 ELSE a,
                                      IF b = -1 THEN sz - 1 ELSE b, l.srd)
  BY <1>2, EvlUpForm
<1>5. /\ l.min = <<>> \/ l.max = <<>> \/ m < M => full = Shift(Ascending(Lifted(A \cap B)))
      /\ l.min # <<>> /\ l.max # <<>> /\ m > M =>
           full = Shift(Ascending(Lifted(A)) \o Ascending(Lifted(B)))
  BY FullCrdForm
<1>6. CASE m = M
  BY <1>4, <1>6, EqualMeans
<1>7. A \cap B = {} /\ (l.min = <<>> \/ l.max = <<>> \/ m < M) => full = <<>>
  BY <1>5, NoneListed
<1>8. m > M => A \cap B = {}
  BY <1>1, NothingBetween
<1>9. l.min = <<>> /\ l.max = <<>> => m <= M
  BY BlankOrder
<1>10. \A i \in A, j \in B : m > M => i > j
  <2>1. SUFFICES ASSUME NEW i \in A, NEW j \in B, m > M PROVE i > j
    OBVIOUS
  <2>2. /\ i \in 0..(sz - 1) /\ crd[i + 1] >= m /\ j \in 0..(sz - 1) /\ crd[j + 1] <= M
        /\ crd[i + 1] \in Int /\ crd[j + 1] \in Int
    BY CrdValues DEF Above, Below
  <2>3. crd[i + 1] > crd[j + 1]
    BY <1>1, <2>1, <2>2
  <2>4. \A q, r \in 0..(sz - 1) : q < r => crd[q + 1] < crd[r + 1]
    BY <1>2, CrdValues
  <2> HIDE DEF sz
  <2>5. ~(i < j)
    <3>1. SUFFICES ASSUME i < j PROVE FALSE
      OBVIOUS
    <3>2. crd[i + 1] < crd[j + 1]
      BY <2>2, <2>4, <3>1, Zenon
    <3>3. QED
      BY <2>2, <2>3, <3>2
  <2>6. i # j
    BY <2>2, <2>3
  <2>7. QED
    BY <1>1, <2>2, <2>5, <2>6
<1> HIDE DEF sz, m, M, A, B, a, b, s, full
<1>11. CASE m < M
  <2>1. CASE a = -1 \/ b = -1 \/ a > b
    <3>1. A \cap B = {}
      BY <1>1, <1>3, <2>1
    <3>2. full = <<>> /\ s = Refused
      BY <1>4, <1>7, <1>11, <2>1, <3>1
    <3>3. QED
      BY <3>2 DEF Means, sz, s, full
  <2>2. CASE ~(a = -1 \/ b = -1 \/ a > b)
    <3>1. a \in 0..(sz - 1) /\ b \in 0..(sz - 1) /\ a <= b /\ A \cap B = a..b
      BY <1>1, <1>3, <2>2
    <3>2. full = Arc(sz, a, b)
      BY <1>1, <1>5, <1>11, <3>1, StraightListed
    <3>3. s = SlabOf(sz, a, b, l.srd)
      BY <1>4, <1>11, <2>2
    <3>4. QED
      BY <3>1, <3>2, <3>3 DEF Means, sz, s, full
  <2>3. QED
    BY <2>1, <2>2
<1>12. CASE m > M
  <2>1. l.min # <<>> /\ l.max # <<>>
    <3>1. ~(m <= M)
      BY <1>1, <1>12
    <3>2. ~(l.min = <<>> /\ l.max = <<>>)
      BY <1>9, <3>1
    <3>3. (l.min = <<>>) # (l.max = <<>>) => full # <<>>
      BY DEF full
    <3>4. QED
      BY <1>7, <1>8, <1>12, <3>2, <3>3
  <2>2. full = Shift(Ascending(Lifted(A)) \o Ascending(Lifted(B)))
    BY <1>5, <1>12, <2>1
  <2> DEFINE u == UpFrom(a + 1, sz)
             v == UpFrom(1, b + 1)
  <2>3. a # -1 => /\ a \in 0..(sz - 1) /\ Ascending(Lifted(A)) = u
                  /\ Shift(u) = UpFrom(a, sz - 1)
    <3>1. SUFFICES ASSUME a # -1
                   PROVE  /\ a \in 0..(sz - 1) /\ Ascending(Lifted(A)) = u
                          /\ Shift(u) = UpFrom(a, sz - 1)
      OBVIOUS
    <3>2. a \in 0..(sz - 1) /\ A = a..(sz - 1)
      BY <1>3, <3>1
    <3>3. a \in Int /\ sz - 1 \in Int /\ a <= (sz - 1) + 1 /\ (sz - 1) + 1 = sz
      BY <1>1, <3>2
    <3>4. QED
      BY <3>2, <3>3, ShiftedUp
  <2>4. b # -1 => /\ b \in 0..(sz - 1) /\ Ascending(Lifted(B)) = v
                  /\ Shift(v) = UpFrom(0, b)
    <3>1. SUFFICES ASSUME b # -1
                   PROVE  /\ b \in 0..(sz - 1) /\ Ascending(Lifted(B)) = v
                          /\ Shift(v) = UpFrom(0, b)
      OBVIOUS
    <3>2. b \in 0..(sz - 1) /\ B = 0..b
      BY <1>3, <3>1
    <3>3. b \in Int /\ 0 \in Int /\ 0 <= b + 1 /\ 0 + 1 = 1
      BY <1>1, <3>2
    <3>4. QED
      BY <3>2, <3>3, ShiftedUp
  <2>5. u \in Seq(Int) /\ v \in Seq(Int)
    <3>1. a + 1 <= sz + 1 /\ 1 <= (b + 1) + 1 /\ a + 1 \in Int /\ sz \in Int /\ b + 1 \in Int
          /\ 1 \in Int
      BY <1>1, <1>3
    <3>2. QED
      BY <3>1, IntervalForm DEF Lists
  <2>6. (a = -1 => A = {}) /\ (b = -1 => B = {})
    BY <1>3
  <2> HIDE DEF u, v
  <2>7. CASE a = -1 /\ b = -1
    <3>1. full = Shift(<<>> \o <<>>)
      BY <2>2, <2>6, <2>7, NoneListed
    <3>2. <<>> \o <<>> = <<>>
      OBVIOUS
    <3>3. full = <<>> /\ s = Refused
      BY <1>4, <1>12, <2>7, <3>1, <3>2, NoneListed
    <3>4. QED
      BY <3>3 DEF Means, sz, s, full
  <2>8. CASE a = -1 /\ b # -1
    <3>1. full = Shift(<<>> \o v)
      BY <2>2, <2>4, <2>6, <2>8, NoneListed
    <3>2. <<>> \o v = v
      BY <2>5
    <3>3. full = UpFrom(0, b) /\ b \in 0..(sz - 1) /\ 0 <= b
      BY <2>4, <2>8, <3>1, <3>2
    <3>4. full = Arc(sz, 0, b)
      BY <3>3 DEF Arc
    <3>5. s = SlabOf(sz, 0, b, l.srd)
      BY <1>4, <1>12, <2>8
    <3>6. QED
      BY <1>1, <3>3, <3>4, <3>5 DEF Means, sz, s, full
  <2>9. CASE a # -1 /\ b = -1
    <3>1. full = Shift(u \o <<>>)
      BY <2>2, <2>3, <2>6, <2>9, NoneListed
    <3>2. u \o <<>> = u
      BY <2>5
    <3>3. full = UpFrom(a, sz - 1) /\ a \in 0..(sz - 1) /\ a <= sz - 1
      BY <1>1, <2>3, <2>9, <3>1, <3>2
    <3>4. full = Arc(sz, a, sz - 1)
      BY <3>3 DEF Arc
    <3>5. s = SlabOf(sz, a, sz - 1, l.srd)
      BY <1>4, <1>12, <2>9
    <3>6. QED
      BY <1>1, <3>3, <3>4, <3>5 DEF Means, sz, s, full
  <2>10. CASE a # -1 /\ b # -1
    <3>1. full = Shift(u) \o Shift(v)
      BY <2>2, <2>3, <2>4, <2>5, <2>10, ShiftConcat
    <3>2. a \in A /\ b \in B /\ a \in 0..(sz - 1) /\ b \in 0..(sz - 1)
      BY <1>1, <1>3, <2>10
    <3>3. ~(a <= b)
      <4>1. a > b
        BY <1>10, <1>12, <3>2
      <4>2. QED
        BY <3>2, <4>1
    <3>4. full = Arc(sz, a, b)
      BY <2>3, <2>4, <2>10, <3>1, <3>3 DEF Arc
    <3>5. s = SlabOf(sz, a, b, l.srd)
      BY <1>4, <1>12, <2>10
    <3>6. QED
      BY <3>2, <3>4, <3>5 DEF Means, sz, s, full
  <2>11. QED
    BY <2>7, <2>8, <2>9, <2>10
<1>13. QED
  BY <1>1, <1>6, <1>11, <1>12

\* On a decreasing coordinate, which must not wrap.
LEMMA DownMeans ==
  ASSUME NEW crd \in Seq(Int), crd # <<>>, ~Increasing(crd), Monotonic(crd),
         NEW p, NEW l, IsLimit(p, l),
         (l.min = <<>>) # (l.max = <<>>) => FullCrd(crd, l) # <<>>,
         l.min # <<>> /\ l.max # <<>> => ~(l.min[1] > l.max[1]) /\ FullCrd(crd, l) # <<>>
  PROVE  Means(Len(crd), EvlCrd(crd, l), FullCrd(crd, l), l.srd)
<1> DEFINE sz == Len(crd)
           m == MinVal(crd, l)
           M == MaxVal(crd, l)
           A == Above(crd, m)
           B == Below(crd, M)
           a == MaxOr(A, -1)
           b == MinOr(B, -1)
           s == EvlCrd(crd, l)
           full == FullCrd(crd, l)
<1>1. sz \in Nat \ {0} /\ m \in Int /\ M \in Int
  BY ValTypes
<1>2. Down(crd)
  BY Direction
<1>3. /\ a \in (-1)..(sz - 1) /\ A = IF a = -1 THEN {} ELSE 0..a
      /\ b \in (-1)..(sz - 1) /\ B = IF b = -1 THEN {} ELSE b..(sz - 1)
  BY <1>1, <1>2, DownRanges
<1>4. /\ m = M => s = SlabOf(sz, Nearest(crd, m), Nearest(crd, m), l.srd)
      /\ m < M => s = IF a = -1 \/ b = -1 THEN Refused ELSE SlabOf(sz, b, a, l.srd)
  BY <1>2, EvlDownForm
<1>5. l.min = <<>> \/ l.max = <<>> \/ m < M => full = Shift(Ascending(Lifted(A \cap B)))
  BY FullCrdForm
<1>6. CASE m = M
  BY <1>4, <1>6, EqualMeans
<1>7. A \cap B = {} /\ (l.min = <<>> \/ l.max = <<>> \/ m < M) => full = <<>>
  BY <1>5, NoneListed
<1>8. m > M => A \cap B = {}
  BY <1>1, NothingBetween
<1>9. l.min = <<>> /\ l.max = <<>> => m <= M /\ A \cap B # {}
  BY BlankOrder
<1>10. l.min # <<>> /\ l.max # <<>> => ~(m > M) /\ full # <<>>
  BY DEF MinVal, MaxVal
<1>11. (l.min = <<>>) # (l.max = <<>>) => full # <<>>
  OBVIOUS
<1> HIDE DEF sz, m, M, A, B, a, b, s, full
<1>12. ASSUME m # M PROVE m < M /\ A \cap B # {}
  <2>1. m > M => ~(m <= M)
    BY <1>1
  <2>2. ~(m > M)
    BY <1>7, <1>8, <1>9, <1>10, <1>11, <2>1
  <2>3. m < M
    BY <1>1, <1>12, <2>2
  <2>4. QED
    BY <1>7, <1>9, <1>10, <1>11, <2>3
<1>13. CASE m # M
  <2>1. m < M /\ A \cap B # {}
    BY <1>12, <1>13
  <2>2. a # -1 /\ b # -1
    BY <1>3, <2>1
  <2>3. a \in 0..(sz - 1) /\ b \in 0..(sz - 1) /\ A \cap B = b..a /\ b <= a
    <3>1. A = 0..a /\ B = b..(sz - 1) /\ a \in 0..(sz - 1) /\ b \in 0..(sz - 1)
      BY <1>1, <1>3, <2>2
    <3>2. PICK x \in A \cap B : TRUE
      BY <2>1
    <3>3. b <= a
      BY <3>1, <3>2
    <3>4. A \cap B = b..a
      <4>1. sz \in Int /\ a \in Int /\ b \in Int /\ 0 <= b /\ a <= sz - 1
        BY <1>1, <3>1
      <4>2. \A y \in b..a : y \in 0..a /\ y \in b..(sz - 1)
        BY <4>1
      <4>3. \A y \in 0..a : y \in b..(sz - 1) => y \in b..a
        BY <4>1
      <4>4. QED
        BY <3>1, <4>2, <4>3
    <3>5. QED
      BY <3>1, <3>3, <3>4
  <2>4. full = Arc(sz, b, a)
    BY <1>1, <1>5, <2>1, <2>3, StraightListed
  <2>5. s = SlabOf(sz, b, a, l.srd)
    BY <1>4, <2>1, <2>2
  <2>6. QED
    BY <2>3, <2>4, <2>5 DEF Means, sz, s, full
<1>14. QED
  BY <1>6, <1>13

\* The slab of a limit, and the elements the limit asks for.
SlabAt(p, i) == EvlDmnCrd(p.sz, p.crd, p.lmt[i])
WantedAt(p, i) == WantedOne(p, p.lmt[i])

\* What the problems' assumption says of one limit.
LEMMA ProblemFacts ==
  ASSUME NEW p \in Problems, NEW i \in DOMAIN p.lmt
  PROVE  /\ p.sz \in Nat \ {0} /\ p.crd \in Seq(Int) /\ (p.crd # <<>> => Len(p.crd) = p.sz)
         /\ IsLimit(p, p.lmt[i]) /\ p.lmt[i].typ \in {"idx", "crd"}
         /\ p.lmt[i].srd \in Nat \ {0}
         /\ p.lmt[i].typ = "crd" => p.crd # <<>>
BY ProblemsAssumption DEF IsLimit

\* A limit of a request that is kept means what it promises.
LEMMA LimitMeans ==
  ASSUME NEW p \in Problems, NEW i \in DOMAIN p.lmt, Kept(p)
  PROVE  Means(p.sz, SlabAt(p, i), Full(p, p.lmt[i]), p.lmt[i].srd)
<1> DEFINE l == p.lmt[i]
           full == FullCrd(p.crd, l)
<1>1. /\ p.sz \in Nat \ {0} /\ p.crd \in Seq(Int) /\ (p.crd # <<>> => Len(p.crd) = p.sz)
      /\ IsLimit(p, l) /\ l.typ \in {"idx", "crd"}
      /\ l.typ = "crd" => p.crd # <<>>
  BY ProblemFacts
<1>2. Monotonic(p.crd) /\ ~OddLimit(p, l)
  BY DEF Kept
<1>3. CASE l.typ = "idx"
  BY <1>1, <1>3, IdxMeans DEF SlabAt, EvlDmnCrd, Full
<1>4. CASE l.typ = "crd"
  <2>1. SlabAt(p, i) = EvlCrd(p.crd, l) /\ Full(p, l) = full
    BY <1>4 DEF SlabAt, EvlDmnCrd, Full
  <2>2. full = <<>> => WantedOne(p, l) = <<>>
    BY <2>1 DEF WantedOne
  <2>3. (l.min = <<>>) # (l.max = <<>>) => full # <<>>
    BY <1>2, <1>4, <2>2 DEF OddLimit
  <2>4. ~Increasing(p.crd) /\ l.min # <<>> /\ l.max # <<>> =>
          ~(l.min[1] > l.max[1]) /\ full # <<>>
    BY <1>2, <1>4, <2>2 DEF OddLimit
  <2>5. p.crd # <<>> /\ Len(p.crd) = p.sz
    BY <1>1, <1>4
  <2> HIDE DEF l
  <2>6. CASE Increasing(p.crd)
    <3>1. Means(Len(p.crd), EvlCrd(p.crd, l), FullCrd(p.crd, l), l.srd)
      BY <1>1, <1>2, <2>3, <2>5, <2>6, UpMeans
    <3>2. QED
      BY <2>1, <2>5, <3>1 DEF l
  <2>7. CASE ~Increasing(p.crd)
    <3>1. Means(Len(p.crd), EvlCrd(p.crd, l), FullCrd(p.crd, l), l.srd)
      BY <1>1, <1>2, <2>3, <2>4, <2>5, <2>7, DownMeans
    <3>2. QED
      BY <2>1, <2>5, <3>1 DEF l
  <2>8. QED
    BY <2>6, <2>7
<1>5. QED
  BY <1>1, <1>3, <1>4

\* A slab that does not wrap and selects an element outside the dimension.
Leaves(sz, s) == ~Wraps(s) /\ Past(sz, s)

\* So it is refused, or leaves the dimension, only if nothing is asked for;
\* otherwise its slab walks through the elements asked for.
LEMMA SlabWanted ==
  ASSUME NEW p \in Problems, NEW i \in DOMAIN p.lmt, Kept(p)
  PROVE  LET s == SlabAt(p, i)
             w == WantedAt(p, i)
         IN  /\ s = Refused \/ Leaves(p.sz, s) => w = <<>>
             /\ s # Refused /\ ~Leaves(p.sz, s) => w = Walk(p.sz, s)
             /\ s # Refused /\ Wraps(s) => Around(p, p.lmt[i])
<1> DEFINE s == SlabAt(p, i)
           w == WantedAt(p, i)
           d == p.lmt[i].srd
           full == Full(p, p.lmt[i])
           sz == p.sz
           e == IF full = <<>> THEN full ELSE EverySrd(full, d)
<1>1. sz \in Nat \ {0} /\ d \in Nat \ {0}
  BY ProblemFacts
<1>2. w = IF \A k \in DOMAIN e : e[k] < sz THEN e ELSE <<>>
  BY DEF WantedAt, WantedOne
<1>3. Means(sz, s, full, d)
  BY LimitMeans
<1>4. Around(p, p.lmt[i]) <=> \E j, k \in DOMAIN full : j < k /\ full[j] > full[k]
  BY DEF Around
<1> DEFINE Shown == /\ s = Refused \/ Leaves(sz, s) => w = <<>>
                    /\ s # Refused /\ ~Leaves(sz, s) => w = Walk(sz, s)
                    /\ s # Refused /\ Wraps(s) => Around(p, p.lmt[i])
<1> HIDE DEF s, w, d, full, sz
<1>5. ASSUME s = Refused, full = <<>>
      PROVE  Shown
  <2>1. w = <<>>
    BY <1>2, <1>5
  <2>2. QED
    BY <1>5, <2>1
<1>6. ASSUME NEW m \in 0..(sz - 1), NEW n \in Nat, n >= sz, s = SlabOf(sz, m, n, d),
             full = UpFrom(m, n)
      PROVE  Shown
  <2>1. m <= n
    BY <1>1, <1>6
  <2>2. /\ s.end = n /\ s.srt = m /\ s.srt \in Nat /\ s.srd = d /\ s.srd \in Nat \ {0}
        /\ s.cnt \in Nat \ {0}
    BY <1>1, <1>6, <2>1, SlabOfFacts
  <2>3. ~Wraps(s) /\ s # Refused
    BY <1>1, <1>6, <2>1, <2>2 DEF Wraps, Refused
  <2>4. e = Listed(s)
    BY <1>1, <1>6, <2>1, UpWalk
  <2> HIDE DEF e
  <2>5. /\ Past(sz, s) <=> ~(\A k \in DOMAIN e : e[k] < sz)
        /\ ~Past(sz, s) => Walk(sz, s) = e
    BY <1>1, <2>2, <2>4, LastIsFirst
  <2>6. QED
    BY <1>2, <2>3, <2>5 DEF Leaves
<1>7. ASSUME NEW m \in 0..(sz - 1), NEW n \in 0..(sz - 1), s = SlabOf(sz, m, n, d),
             full = Arc(sz, m, n)
      PROVE  Shown
  <2>1. s.cnt \in Nat \ {0} /\ s.srt \in Nat /\ s.srd \in Nat \ {0}
    <3>1. n \in Nat
      BY <1>1
    <3>2. QED
      BY <1>1, <1>7, <3>1, SlabOfFacts
  <2>2. s # Refused
    BY <2>1 DEF Refused
  <2>3. full # <<>>
    <3>1. full \in Seq(Int) /\ Len(full) = Span(sz, m, n)
      BY <1>1, <1>7, ArcForm
    <3>2. Span(sz, m, n) # 0
      BY <1>1 DEF Span
    <3>3. QED
      BY <3>1, <3>2
  <2>4. e = Walk(sz, s)
    BY <1>1, <1>7, <2>3, ArcWalk
  <2> HIDE DEF e
  <2>5. /\ \A k \in DOMAIN e : e[k] < sz
        /\ ~Wraps(s) => s.srt + s.srd * (s.cnt - 1) < sz
    BY <1>1, <1>7, <2>4, ArcWithin
  <2>6. ~Leaves(sz, s)
    <3>1. s.srd * (s.cnt - 1) \in Nat
      BY <2>1, Times
    <3>2. QED
      BY <1>1, <2>1, <2>5, <3>1 DEF Leaves, Past
  <2>7. Wraps(s) => Around(p, p.lmt[i])
    BY <1>1, <1>4, <1>7, ArcAround
  <2>8. QED
    BY <1>2, <2>2, <2>4, <2>5, <2>6, <2>7
<1> HIDE DEF e
<1>8. Shown
  BY <1>3, <1>5, <1>6, <1>7 DEF Means
<1>9. QED
  BY <1>8 DEF s, w, sz

-----------------------------------------------------------------------------
(* The slabs, before and after splitting.                                  *)

\* The elements of a list of slabs; a half without elements has none, where
\* merging takes its start.
Sel(lmt) == UNION {Range(Listed(lmt[i])) : i \in DOMAIN lmt}
Steady(s) == IF s.cnt = 0 THEN s.end < s.srt ELSE Consistent(s)

\* The elements of a slab.
LEMMA ListedMember ==
  ASSUME NEW s \in Slab
  PROVE  /\ DOMAIN Listed(s) = 1..s.cnt /\ s.cnt \in Nat /\ s.srt \in Nat /\ s.srd \in Nat \ {0}
         /\ \A x : x \in Range(Listed(s)) <=> \E k \in 0..(s.cnt - 1) : x = s.srt + s.srd * k
<1>1. s.cnt \in Nat /\ s.srt \in Nat /\ s.srd \in Nat \ {0}
  BY DEF Slab
<1>2. DOMAIN Listed(s) = 1..s.cnt
  BY DEF Listed
<1>3. ASSUME NEW x, x \in Range(Listed(s)) PROVE \E k \in 0..(s.cnt - 1) : x = s.srt + s.srd * k
  <2>1. PICK j \in 1..s.cnt : x = Listed(s)[j]
    BY <1>2, <1>3 DEF Range
  <2>2. x = s.srt + s.srd * (j - 1) /\ j - 1 \in 0..(s.cnt - 1)
    BY <1>1, <2>1 DEF Listed
  <2>3. QED
    BY <2>2
<1>4. ASSUME NEW x, NEW k \in 0..(s.cnt - 1), x = s.srt + s.srd * k PROVE x \in Range(Listed(s))
  <2>1. k + 1 \in 1..s.cnt /\ (k + 1) - 1 = k
    BY <1>1
  <2>2. Listed(s)[k + 1] = s.srt + s.srd * ((k + 1) - 1)
    BY <2>1 DEF Listed
  <2>3. Listed(s)[k + 1] = x
    BY <1>4, <2>1, <2>2
  <2>4. QED
    BY <1>2, <2>1, <2>3 DEF Range
<1>5. QED
  BY <1>1, <1>2, <1>3, <1>4

\* The halves of a wrapped slab stay within the dimension, and are listed one
\* behind the other as the slab walks.
LEMMA HalvesWalk ==
  ASSUME NEW sz \in Nat \ {0}, NEW s \in Slab, Evaluated(sz, s), Wraps(s)
  PROVE  LET a == First(sz, s)
             b == Second(sz, s)
         IN  /\ a \in Slab /\ b \in Slab /\ a.end < sz /\ b.end < sz
             /\ a.cnt # 0 /\ Steady(a) /\ Steady(b) /\ ~Wraps(a)
             /\ b.cnt = 0 => b.srt \in Range(Listed(a))
             /\ Walk(sz, s) = Listed(a) \o Listed(b)
<1> DEFINE n == CntFirst(sz, s)
           m == s.cnt - n
           a == First(sz, s)
           b == Second(sz, s)
           c == s.srt
           d == s.srd
           e == IF n < s.cnt THEN (c + d * n) - sz ELSE c + d * (n - 1)
<1>1. c \in Nat /\ d \in Nat \ {0} /\ s.cnt \in Nat /\ s.cnt # 0 /\ c < sz
  BY DEF Slab, Evaluated
<1>2. /\ n \in 1..s.cnt
      /\ \A j \in 0..(n - 1) : c + d * j < sz
      /\ \A j \in n..(s.cnt - 1) : sz <= c + d * j /\ (c + d * j) - sz < c
      /\ a = Piece(c, n, d)
      /\ n < s.cnt => b = Piece((c + d * n) - sz, m, d)
      /\ n = s.cnt => b = Piece(c + d * (n - 1), 0, d)
  BY SplitFacts
<1>3. n \in Nat \ {0} /\ m \in Nat /\ n <= s.cnt /\ n + m = s.cnt /\ (m = 0 <=> n = s.cnt)
      /\ (n < s.cnt <=> m # 0) /\ n - 1 \in 0..(n - 1)
  <2>1. n \in 1..s.cnt /\ m = s.cnt - n
    BY <1>2
  <2> HIDE DEF n, m
  <2>2. s.cnt \in Nat /\ n \in Nat /\ n # 0 /\ n <= s.cnt
    BY <1>1, <2>1
  <2>3. \A x, y \in Nat : x # 0 /\ x <= y =>
          /\ y - x \in Nat /\ x + (y - x) = y /\ (y - x = 0 <=> x = y)
          /\ (x < y <=> y - x # 0) /\ x - 1 \in 0..(x - 1)
    OBVIOUS
  <2>4. n \in Nat \ {0}
    BY <2>2
  <2>5. QED
    BY <2>1, <2>2, <2>3, <2>4
<1>4. a \in Slab /\ b \in Slab
  BY HalvesType
<1>0. c \in Nat /\ n \in Nat /\ m \in Nat /\ d \in Nat \ {0} /\ n # 0
  BY <1>1, <1>3
<1> HIDE DEF n, m, a, b, c, d
<1>5. e \in Nat /\ b = Piece(e, m, d)
  <2>1. CASE n < s.cnt
    <3>1. n \in n..(s.cnt - 1)
      BY <1>1, <1>3, <2>1
    <3>2. sz <= c + d * n /\ d * n \in Nat
      BY <1>1, <1>2, <1>3, <3>1, Times
    <3>3. QED
      BY <1>1, <1>2, <2>1, <3>2
  <2>2. CASE ~(n < s.cnt)
    <3>1. n = s.cnt /\ m = 0 /\ n - 1 \in Nat
      BY <1>1, <1>3, <2>2
    <3>2. d * (n - 1) \in Nat
      BY <1>1, <3>1, Times
    <3>3. QED
      BY <1>1, <1>2, <2>2, <3>1, <3>2
  <2>3. QED
    BY <2>1, <2>2
<1>6. /\ a.srt = c /\ a.cnt = n /\ a.end = c + d * (n - 1) /\ Steady(a)
      /\ b.srt = e /\ b.cnt = m /\ b.end = e + d * (m - 1) /\ Steady(b)
  <2> HIDE DEF e
  <2>0. /\ Piece(c, n, d).srt = c /\ Piece(c, n, d).cnt = n
        /\ Piece(c, n, d).end = c + d * (n - 1) /\ Consistent(Piece(c, n, d))
    <3>1. Consistent(Piece(c, n, d))
      BY <1>0, PieceFacts
    <3>2. QED
      BY <3>1 DEF Piece
  <2>1. a.srt = c /\ a.cnt = n /\ a.end = c + d * (n - 1) /\ Consistent(a)
    BY <1>2, <2>0, Zenon
  <2>3. /\ Piece(e, m, d).srt = e /\ Piece(e, m, d).cnt = m
        /\ Piece(e, m, d).end = e + d * (m - 1) /\ (m # 0 => Consistent(Piece(e, m, d)))
    <3>1. m # 0 => Consistent(Piece(e, m, d))
      BY <1>0, <1>5, PieceFacts
    <3>2. QED
      BY <3>1 DEF Piece
  <2>2. b.srt = e /\ b.cnt = m /\ b.end = e + d * (m - 1) /\ (m # 0 => Consistent(b))
    BY <1>5, <2>3, Zenon
  <2>4. m = 0 => b.end < b.srt
    <3>1. m = 0 => b.end = e + d * (0 - 1)
      BY <2>2
    <3>2. d * (0 - 1) = 0 - d
      BY <1>0
    <3>3. QED
      BY <1>0, <1>5, <2>2, <3>1, <3>2
  <2>5. QED
    BY <1>0, <2>1, <2>2, <2>4 DEF Steady
<1>7. d * (n - 1) \in Nat
  BY <1>1, <1>3, Times
<1>8. a.end < sz /\ ~Wraps(a)
  BY <1>1, <1>2, <1>3, <1>6, <1>7 DEF Wraps
<1>9. ASSUME NEW k \in 0..(m - 1)
      PROVE  /\ n + k \in n..(s.cnt - 1) /\ e + d * k = (c + d * (n + k)) - sz
             /\ e + d * k < c
  <2>1. n + k \in n..(s.cnt - 1) /\ k \in Nat /\ n < s.cnt
    BY <1>1, <1>3
  <2>2. d * (n + k) = d * n + d * k /\ d * n \in Nat /\ d * k \in Nat
    BY <1>1, <1>3, <2>1, Distribute
  <2>3. e = (c + d * n) - sz
    BY <2>1
  <2>4. (c + d * (n + k)) - sz < c
    BY <1>2, <2>1
  <2> HIDE DEF e
  <2>5. e + d * k = (c + d * (n + k)) - sz
    BY <1>1, <2>2, <2>3
  <2>6. QED
    BY <2>1, <2>4, <2>5
<1>10. b.end < sz
  <2>1. CASE m # 0
    <3>1. m - 1 \in 0..(m - 1)
      BY <1>3, <2>1
    <3>2. e + d * (m - 1) < c
      BY <1>9, <3>1
    <3>3. d * (m - 1) \in Nat
      BY <1>1, <3>1, Times
    <3> HIDE DEF e
    <3>4. QED
      BY <1>1, <1>5, <1>6, <3>2, <3>3
  <2>2. CASE m = 0
    <3>1. e = c + d * (n - 1)
      BY <1>3, <2>2
    <3>2. e < sz
      BY <1>2, <1>3, <3>1
    <3>3. b.end = e + d * (0 - 1) /\ d * (0 - 1) = 0 - d
      BY <1>1, <1>6, <2>2
    <3> HIDE DEF e
    <3>4. QED
      BY <1>1, <1>5, <3>2, <3>3
  <2>3. QED
    BY <2>1, <2>2
<1>11. ASSUME b.cnt = 0 PROVE b.srt \in Range(Listed(a))
  <2>1. e = c + d * (n - 1)
    BY <1>3, <1>6, <1>11
  <2>2. Piece(c, n, d).srt + Piece(c, n, d).srd * (n - 1) = c + d * (n - 1)
    <3>1. n \in Nat /\ n - 1 \in 0..(n - 1) /\ c \in Nat /\ d \in Nat \ {0}
      BY <1>1, <1>3
    <3>2. QED
      BY <3>1, PieceElement, Zenon
  <2>3. n - 1 \in 0..(a.cnt - 1) /\ b.srt = a.srt + a.srd * (n - 1)
    BY <1>2, <1>3, <1>6, <2>1, <2>2
  <2> HIDE DEF e
  <2>4. QED
    BY <1>4, <2>3, ListedMember
<1> HIDE DEF e
<1>12. Walk(sz, s) = Listed(a) \o Listed(b)
  <2> DEFINE u == Listed(a)
             v == Listed(b)
             w == Walk(sz, s)
  <2>1. u \in Seq(Int) /\ Len(u) = n /\ v \in Seq(Int) /\ Len(v) = m
    BY <1>4, <1>6, ListedFacts
  <2>2. /\ u \o v \in Seq(Int) /\ Len(u \o v) = n + m
        /\ \A k \in 1..n : (u \o v)[k] = u[k]
        /\ \A k \in 1..m : (u \o v)[n + k] = v[k]
    <3> HIDE DEF u, v
    <3>1. u \o v \in Seq(Int)
      BY <2>1, Concat
    <3>2. Len(u \o v) = Len(u) + Len(v)
      BY <2>1, Concat
    <3>3. \A k \in 1..Len(u) : (u \o v)[k] = u[k]
      BY <2>1, Concat
    <3>4. \A k \in 1..Len(v) : (u \o v)[Len(u) + k] = v[k]
      BY <2>1, Concat
    <3>5. QED
      BY <2>1, <3>1, <3>2, <3>3, <3>4, Zenon
  <2>3. w = [k \in 1..(n + m) |-> Turn(sz, c + d * (k - 1))]
    BY <1>3 DEF Walk, c, d
  <2>4. ASSUME NEW k \in 1..n PROVE w[k] = u[k] /\ w[k] \in Int
    <3>1. k - 1 \in 0..(n - 1) /\ k \in 1..(n + m) /\ k - 1 \in Nat
      BY <1>3
    <3>2. c + d * (k - 1) < sz /\ d * (k - 1) \in Nat
      BY <1>1, <1>2, <3>1, Times
    <3>3. w[k] = c + d * (k - 1)
      BY <2>3, <3>1, <3>2 DEF Turn
    <3>7. Piece(c, n, d).srt + Piece(c, n, d).srd * (k - 1) = c + d * (k - 1)
      BY <1>0, <3>1, PieceElement
    <3>4. a.srt + a.srd * (k - 1) = c + d * (k - 1)
      BY <1>2, <3>7, Zenon
    <3>5. u[k] = a.srt + a.srd * (k - 1)
      BY <1>6 DEF Listed
    <3>6. QED
      BY <1>1, <3>2, <3>3, <3>4, <3>5
  <2>5. ASSUME NEW k \in 1..m PROVE w[n + k] = v[k] /\ w[n + k] \in Int
    <3>1. k - 1 \in 0..(m - 1) /\ n + k \in 1..(n + m) /\ (n + k) - 1 = n + (k - 1)
          /\ k - 1 \in Nat
      BY <1>3
    <3>2. n + (k - 1) \in n..(s.cnt - 1) /\ e + d * (k - 1) = (c + d * (n + (k - 1))) - sz
      BY <1>9, <3>1
    <3>3. sz <= c + d * (n + (k - 1)) /\ d * (n + (k - 1)) \in Nat
      BY <1>1, <1>2, <1>3, <3>1, <3>2, Times
    <3>4. w[n + k] = Turn(sz, c + d * (n + (k - 1)))
      BY <2>3, <3>1
    <3> HIDE DEF w, v
    <3>5. w[n + k] = (c + d * (n + (k - 1))) - sz
      BY <1>1, <3>3, <3>4 DEF Turn
    <3>9. Piece(e, m, d).srt + Piece(e, m, d).srd * (k - 1) = e + d * (k - 1)
      BY <1>0, <1>5, <3>1, PieceElement
    <3>6. b.srt + b.srd * (k - 1) = e + d * (k - 1)
      BY <1>5, <3>9, Zenon
    <3>7. v[k] = b.srt + b.srd * (k - 1)
      BY <1>6 DEF Listed, v
    <3>8. QED
      BY <1>1, <3>2, <3>3, <3>5, <3>6, <3>7
  <2> HIDE DEF u, v
  <2>6. ASSUME NEW k \in 1..(n + m) PROVE w[k] = (u \o v)[k] /\ w[k] \in Int
    <3>1. CASE k <= n
      <4>1. k \in 1..n
        BY <1>3, <3>1
      <4>2. QED
        BY <2>2, <2>4, <4>1, Zenon
    <3>2. CASE ~(k <= n)
      <4>1. k - n \in 1..m /\ n + (k - n) = k
        BY <1>3, <3>2
      <4>2. w[n + (k - n)] = v[k - n] /\ w[n + (k - n)] \in Int
        BY <2>5, <4>1
      <4>3. (u \o v)[n + (k - n)] = v[k - n]
        BY <2>2, <4>1
      <4>4. QED
        BY <4>1, <4>2, <4>3, Zenon
    <3>3. QED
      BY <3>1, <3>2, Zenon
  <2>7. w \in Seq(Int) /\ Len(w) = n + m
    <3>1. n + m \in Nat
      BY <1>3
    <3>2. w \in [1..(n + m) -> Int]
      BY <2>3, <2>6
    <3>3. QED
      BY <3>1, <3>2
  <2> HIDE DEF w
  <2>8. PICK t \in Seq(Int) : t = u \o v
    BY <2>2
  <2>9. w = t
    BY <2>2, <2>6, <2>7, <2>8, SeqEqual
  <2>10. QED
    BY <2>8, <2>9 DEF u, v, w
<1>13. QED
  BY <1>3, <1>4, <1>6, <1>8, <1>10, <1>11, <1>12 DEF a, b

\* A slab that does not wrap, and stays within the dimension, walks straight.
LEMMA StraightWalk ==
  ASSUME NEW sz \in Nat \ {0}, NEW s \in Slab, Evaluated(sz, s), ~Wraps(s), ~Leaves(sz, s)
  PROVE  Walk(sz, s) = Listed(s) /\ Steady(s) /\ s.cnt # 0
<1>1. s.srt \in Nat /\ s.srd \in Nat \ {0} /\ s.cnt \in Nat \ {0} /\ Consistent(s)
  BY DEF Slab, Evaluated
<1>2. ~Past(sz, s)
  BY DEF Leaves
<1>3. Walk(sz, s) = Listed(s)
  BY <1>1, <1>2, LastIsFirst
<1>4. QED
  BY <1>1, <1>3 DEF Steady

\* What splitting makes of a list of slabs: each slab or its first half in place,
\* and somewhere the second half of each that wraps.
FirstOf(sz, s) == IF Wraps(s) THEN First(sz, s) ELSE s
Fronts(sz, lmt) == [i \in 1..Len(lmt) |-> FirstOf(sz, lmt[i])]
IsPart(sz, lmt, t) ==
  \E i \in DOMAIN lmt : t = FirstOf(sz, lmt[i]) \/ (Wraps(lmt[i]) /\ t = Second(sz, lmt[i]))
OnlyLast(lmt) == \A i \in 1..(Len(lmt) - 1) : ~Wraps(lmt[i])
SplitLast(sz, lmt) ==
  IF Wraps(lmt[Len(lmt)]) THEN Append(Fronts(sz, lmt), Second(sz, lmt[Len(lmt)]))
  ELSE Fronts(sz, lmt)

\* The types of the parts.
LEMMA FrontsFacts ==
  ASSUME NEW sz \in Nat \ {0}, NEW lmt \in Seq(Slab), lmt # <<>>
  PROVE  /\ Len(lmt) \in Nat \ {0} /\ DOMAIN lmt = 1..Len(lmt)
         /\ \A i \in 1..Len(lmt) : lmt[i] \in Slab /\ FirstOf(sz, lmt[i]) \in Slab
                                   /\ Second(sz, lmt[i]) \in Slab
         /\ Fronts(sz, lmt) \in Seq(Slab) /\ Len(Fronts(sz, lmt)) = Len(lmt)
<1>1. Len(lmt) \in Nat \ {0} /\ DOMAIN lmt = 1..Len(lmt) /\ \A i \in 1..Len(lmt) : lmt[i] \in Slab
  OBVIOUS
<1>2. \A i \in 1..Len(lmt) : FirstOf(sz, lmt[i]) \in Slab /\ Second(sz, lmt[i]) \in Slab
  BY <1>1, HalvesType DEF FirstOf
<1>3. Fronts(sz, lmt) \in [1..Len(lmt) -> Slab]
  BY <1>2 DEF Fronts
<1>4. Fronts(sz, lmt) \in Seq(Slab) /\ Len(Fronts(sz, lmt)) = Len(lmt)
  BY <1>1, <1>3
<1>5. QED
  BY <1>1, <1>2, <1>4

\* nco_msa_wrp_splt_cpy() keeps the first halves in place, and its second halves
\* are those of the slabs that wrap.
LEMMA CpyForm ==
  ASSUME NEW sz \in Nat \ {0}, NEW lmt \in Seq(Slab), lmt # <<>>
  PROVE  /\ WrpSpltCpy(sz, lmt) = Fronts(sz, lmt) \o Halves(sz, lmt)[Len(lmt)]
         /\ Halves(sz, lmt)[Len(lmt)] \in Seq(Slab)
         /\ \A t : t \in Range(Halves(sz, lmt)[Len(lmt)]) <=>
                     \E j \in 1..Len(lmt) : Wraps(lmt[j]) /\ t = Second(sz, lmt[j])
<1> DEFINE n == Len(lmt)
           h == Halves(sz, lmt)
           one == [i \in DOMAIN lmt |-> IF Wraps(lmt[i]) THEN First(sz, lmt[i]) ELSE lmt[i]]
           Is(i) == \A t : t \in Range(h[i]) <=>
                      \E j \in 1..i : Wraps(lmt[j]) /\ t = Second(sz, lmt[j])
           T == {i \in 0..n : Is(i)}
<1>1. /\ n \in Nat \ {0} /\ DOMAIN lmt = 1..n
      /\ \A i \in 1..n : lmt[i] \in Slab /\ Second(sz, lmt[i]) \in Slab
  BY FrontsFacts
<1>2. /\ h[0] = <<>> /\ \A i \in 0..n : h[i] \in Seq(Slab)
      /\ \A i \in 1..n : /\ Wraps(lmt[i]) => h[i] = Append(h[i - 1], Second(sz, lmt[i]))
                         /\ ~Wraps(lmt[i]) => h[i] = h[i - 1]
  BY HalvesFacts
<1>3. WrpSpltCpy(sz, lmt) = one \o h[n]
  BY DEF WrpSpltCpy, Halves
<1>4. one = Fronts(sz, lmt)
  BY <1>1 DEF Fronts, FirstOf
<1> HIDE DEF n, h, one
<1>5. 0 \in T
  <2>1. Range(h[0]) = {} /\ 1..0 = {}
    BY <1>2 DEF Range
  <2>2. 0 \in 0..n
    BY <1>1
  <2>3. QED
    BY <2>1, <2>2
<1>6. ASSUME NEW i \in 1..n, i - 1 \in T PROVE i \in T
  <2>0. i - 1 \in 0..n /\ i \in 0..n /\ i \in Nat /\ 1..i = 1..(i - 1) \cup {i}
    BY <1>1
  <2>1. Is(i - 1) /\ h[i - 1] \in Seq(Slab)
    BY <1>2, <1>6, <2>0
  <2> DEFINE x == Second(sz, lmt[i])
             q == h[i - 1]
  <2>2. x \in Slab
    BY <1>1
  <2>3. Range(Append(q, x)) = Range(q) \cup {x}
    <3> HIDE DEF x, q
    <3>1. /\ q \in Seq(Slab) /\ DOMAIN Append(q, x) = 1..(Len(q) + 1) /\ DOMAIN q = 1..Len(q)
          /\ Len(q) \in Nat
          /\ Append(q, x)[Len(q) + 1] = x /\ \A k \in 1..Len(q) : Append(q, x)[k] = q[k]
      BY <2>1, <2>2 DEF q
    <3>2. 1..(Len(q) + 1) = 1..Len(q) \cup {Len(q) + 1}
      BY <3>1
    <3>3. QED
      BY <3>1, <3>2 DEF Range
  <2>4. Range(h[i]) = IF Wraps(lmt[i]) THEN Range(q) \cup {x} ELSE Range(q)
    BY <1>2, <2>3
  <2>5. \A t : t \in Range(q) <=> \E j \in 1..(i - 1) : Wraps(lmt[j]) /\ t = Second(sz, lmt[j])
    BY <2>1
  <2> HIDE DEF q
  <2>6. Is(i)
    BY <2>0, <2>4, <2>5
  <2> HIDE DEF Is
  <2>7. QED
    BY <2>0, <2>6
<1>7. Is(n)
  <2>1. \A i \in 0..n : i \in T
    <3> HIDE DEF T
    <3>1. QED
      BY <1>1, <1>5, <1>6, Induct
  <2>2. n \in 0..n
    BY <1>1
  <2>3. QED
    BY <2>1, <2>2
<1>8. h[n] \in Seq(Slab)
  BY <1>1, <1>2
<1>9. QED
  BY <1>3, <1>4, <1>7, <1>8 DEF n, h

\* The elements of two sequences put together.
LEMMA ConcatRange ==
  ASSUME NEW S, NEW s \in Seq(S), NEW t \in Seq(S)
  PROVE  Range(s \o t) = Range(s) \cup Range(t)
<1>1. /\ s \o t \in Seq(S) /\ Len(s \o t) = Len(s) + Len(t)
      /\ \A i \in 1..Len(s) : (s \o t)[i] = s[i]
      /\ \A i \in 1..Len(t) : (s \o t)[Len(s) + i] = t[i]
  BY Concat
<1>2. /\ DOMAIN s = 1..Len(s) /\ DOMAIN t = 1..Len(t) /\ Len(s) \in Nat /\ Len(t) \in Nat
  OBVIOUS
<1> DEFINE u == s \o t
<1> HIDE DEF u
<1>3. DOMAIN u = 1..(Len(s) + Len(t))
  <2>1. u \in Seq(S) /\ Len(u) = Len(s) + Len(t)
    BY <1>1, Zenon DEF u
  <2>2. QED
    BY <2>1
<1>4. ASSUME NEW x \in Range(u) PROVE x \in Range(s) \cup Range(t)
  <2>1. PICK k \in 1..(Len(s) + Len(t)) : x = u[k]
    BY <1>3 DEF Range
  <2>2. CASE k <= Len(s)
    <3>1. k \in 1..Len(s)
      BY <1>2, <2>2
    <3>2. u[k] = s[k]
      BY <1>1, <3>1, Zenon DEF u
    <3>3. QED
      BY <1>2, <2>1, <3>1, <3>2 DEF Range
  <2>3. CASE ~(k <= Len(s))
    <3>1. k - Len(s) \in 1..Len(t) /\ Len(s) + (k - Len(s)) = k
      BY <1>2, <2>3
    <3>2. u[Len(s) + (k - Len(s))] = t[k - Len(s)]
      BY <1>1, <3>1, Zenon DEF u
    <3>3. QED
      BY <1>2, <2>1, <3>1, <3>2 DEF Range
  <2>4. QED
    BY <2>2, <2>3, Zenon
<1>5. ASSUME NEW x \in Range(s) PROVE x \in Range(u)
  <2>1. PICK k \in 1..Len(s) : x = s[k]
    BY <1>2 DEF Range
  <2>2. u[k] = x
    BY <1>1, <2>1, Zenon DEF u
  <2>3. k \in DOMAIN u
    BY <1>2, <1>3
  <2>4. QED
    BY <2>2, <2>3 DEF Range
<1>6. ASSUME NEW x \in Range(t) PROVE x \in Range(u)
  <2>1. PICK k \in 1..Len(t) : x = t[k]
    BY <1>2 DEF Range
  <2>2. u[Len(s) + k] = x
    BY <1>1, <2>1, Zenon DEF u
  <2>3. Len(s) + k \in DOMAIN u
    BY <1>2, <1>3
  <2>4. QED
    BY <2>2, <2>3 DEF Range
<1>7. QED
  BY <1>4, <1>5, <1>6 DEF u

\* Copying makes a list that has exactly the parts.
LEMMA CpyParts ==
  ASSUME NEW sz \in Nat \ {0}, NEW lmt \in Seq(Slab), lmt # <<>>
  PROVE  \A t : t \in Range(WrpSpltCpy(sz, lmt)) <=> IsPart(sz, lmt, t)
<1> DEFINE f == Fronts(sz, lmt)
           h == Halves(sz, lmt)[Len(lmt)]
<1>1. WrpSpltCpy(sz, lmt) = f \o h /\ h \in Seq(Slab) /\ f \in Seq(Slab)
      /\ DOMAIN lmt = 1..Len(lmt)
  BY CpyForm, FrontsFacts
<1>2. \A t : t \in Range(h) <=> \E j \in 1..Len(lmt) : Wraps(lmt[j]) /\ t = Second(sz, lmt[j])
  BY CpyForm
<1>3. \A t : t \in Range(f) <=> \E j \in 1..Len(lmt) : t = FirstOf(sz, lmt[j])
  BY DEF Fronts, Range
<1> HIDE DEF f, h
<1>4. Range(f \o h) = Range(f) \cup Range(h)
  BY <1>1, ConcatRange
<1>5. QED
  BY <1>1, <1>2, <1>3, <1>4 DEF IsPart

\* If only the last slab wraps, its halves are the last two.
LEMMA CpyLast ==
  ASSUME NEW sz \in Nat \ {0}, NEW lmt \in Seq(Slab), lmt # <<>>, OnlyLast(lmt)
  PROVE  WrpSpltCpy(sz, lmt) = SplitLast(sz, lmt)
<1> DEFINE n == Len(lmt)
           h == Halves(sz, lmt)
           f == Fronts(sz, lmt)
           x == Second(sz, lmt[n])
           T == {i \in 0..n : i < n => h[i] = <<>>}
<1>1. n \in Nat \ {0} /\ f \in Seq(Slab) /\ x \in Slab /\ n - 1 \in 0..n /\ n - 1 < n
  <2>1. /\ n \in Nat \ {0} /\ f \in Seq(Slab)
        /\ \A i \in 1..n : Second(sz, lmt[i]) \in Slab
    BY FrontsFacts
  <2> HIDE DEF n, f
  <2>2. n \in 1..n /\ n - 1 \in 0..n /\ n - 1 < n
    BY <2>1
  <2>3. QED
    BY <2>1, <2>2
<1>2. /\ h[0] = <<>>
      /\ \A i \in 1..n : /\ Wraps(lmt[i]) => h[i] = Append(h[i - 1], Second(sz, lmt[i]))
                         /\ ~Wraps(lmt[i]) => h[i] = h[i - 1]
  BY HalvesFacts
<1>3. WrpSpltCpy(sz, lmt) = f \o h[n]
  BY CpyForm
<1>4. \A i \in 1..n : i < n => ~Wraps(lmt[i])
  BY <1>1 DEF OnlyLast
<1>0. SplitLast(sz, lmt) = IF Wraps(lmt[n]) THEN Append(f, x) ELSE f
  BY DEF SplitLast
<1> HIDE DEF n, h, f
<1>5. 0 \in T
  BY <1>1, <1>2
<1>6. ASSUME NEW i \in 1..n, i - 1 \in T PROVE i \in T
  <2>1. i \in 0..n /\ (i < n => i - 1 < n)
    BY <1>1
  <2>2. ASSUME i < n PROVE h[i] = <<>>
    BY <1>2, <1>4, <1>6, <2>1, <2>2
  <2>3. QED
    BY <2>1, <2>2
<1>7. h[n - 1] = <<>>
  <2>1. \A i \in 0..n : i \in T
    <3> HIDE DEF T
    <3>1. QED
      BY <1>1, <1>5, <1>6, Induct
  <2>2. QED
    BY <1>1, <2>1
<1>8. h[n] = IF Wraps(lmt[n]) THEN <<x>> ELSE <<>>
  <2>1. n \in 1..n
    BY <1>1
  <2>2. Append(<<>>, x) = <<x>>
    BY <1>1
  <2> HIDE DEF x
  <2>3. /\ Wraps(lmt[n]) => h[n] = Append(h[n - 1], x)
        /\ ~Wraps(lmt[n]) => h[n] = h[n - 1]
    BY <1>2, <2>1 DEF x
  <2>4. QED
    BY <1>7, <2>2, <2>3
<1>9. f \o <<x>> = Append(f, x) /\ f \o <<>> = f
  BY <1>1
<1> HIDE DEF x
<1>10. QED
  BY <1>0, <1>3, <1>8, <1>9

\* The slots before the first step.
LEMMA TrvStart ==
  ASSUME NEW sz \in Nat \ {0}, NEW lmt \in Seq(Slab), lmt # <<>>
  PROVE  LET n == Len(lmt)
             s == TrvSteps(sz, lmt)[0]
         IN  /\ s \in Slots(n)
             /\ \A k \in 1..n : s[k] = lmt[k]
             /\ \A k \in 1..(2 * n) : k > n => s[k] = Unset
<1> DEFINE n == Len(lmt)
           s == TrvSteps(sz, lmt)[0]
           u == [j \in 1..n |-> Unset]
<1>1. n \in Nat /\ lmt \in Seq(Slot)
  BY DEF Slot
<1>2. s = lmt \o u
  BY TrvStepsFacts
<1>3. s \in Slots(n)
  <2>1. \A i \in 0..n : TrvSteps(sz, lmt)[i] \in Slots(n)
    BY TrvStepsFacts
  <2>2. 0 \in 0..n
    BY <1>1
  <2>3. QED
    BY <2>1, <2>2
<1>4. u \in [1..n -> Slot]
  BY DEF Slot
<1>5. u \in Seq(Slot) /\ Len(u) = n
  BY <1>1, <1>4
<1>6. \A k \in 1..n : u[k] = Unset
  OBVIOUS
<1> HIDE DEF u
<1>7. \A k \in 1..Len(lmt) : (lmt \o u)[k] = lmt[k]
  BY <1>1, <1>5, Concat
<1>8. \A k \in 1..Len(u) : (lmt \o u)[Len(lmt) + k] = u[k]
  BY <1>1, <1>5, Concat
<1> HIDE DEF s
<1>9. ASSUME NEW k \in 1..(2 * n), k > n PROVE s[k] = Unset
  <2>1. n \in Nat /\ Len(lmt) = n
    BY <1>1
  <2> HIDE DEF n
  <2>2. k - n \in 1..n /\ n + (k - n) = k
    BY <1>9, <2>1
  <2>3. s[n + (k - n)] = u[k - n]
    BY <1>2, <1>5, <1>8, <2>1, <2>2, Zenon
  <2>4. QED
    BY <1>6, <2>2, <2>3
<1>10. QED
  BY <1>2, <1>3, <1>7, <1>9 DEF n, s

\* A step changes two slots only, and changes none without a wrapped slab.
LEMMA TrvStepFacts ==
  ASSUME NEW sz \in Nat \ {0}, NEW n \in Nat, NEW i \in 1..n, NEW s \in Slots(n)
  PROVE  LET t == TrvStep(sz, i, s)
         IN  /\ \A k \in 1..(2 * n) : k # i /\ k # i + 1 => t[k] = s[k]
             /\ ~Wraps(s[i]) => t = s
             /\ Wraps(s[i]) => t[i] = First(sz, s[i]) /\ t[i + 1] = Second(sz, s[i])
<1>1. i \in 1..(2 * n) /\ i + 1 \in 1..(2 * n) /\ i # i + 1 /\ i \in Int
  OBVIOUS
<1>2. CASE ~Wraps(s[i])
  BY <1>2 DEF TrvStep
<1>3. CASE Wraps(s[i])
  <2> DEFINE a == First(sz, s[i])
             b == Second(sz, s[i])
  <2>1. TrvStep(sz, i, s) = [s EXCEPT ![i] = a, ![i + 1] = b]
    BY <1>3 DEF TrvStep
  <2> HIDE DEF a, b
  <2>2. DOMAIN s = 1..(2 * n)
    BY DEF Slots
  <2>3. QED
    BY <1>1, <1>3, <2>1, <2>2 DEF a, b
<1>4. QED
  BY <1>2, <1>3

\* nco_msa_wrp_splt_trv() leaves no slot unset only if no slab but the last one
\* wraps; then it splits as nco_msa_wrp_splt_cpy() does.
LEMMA TrvLast ==
  ASSUME NEW sz \in Nat \ {0}, NEW lmt \in Seq(Slab), lmt # <<>>,
         \A i \in DOMAIN lmt : Evaluated(sz, lmt[i]),
         Unset \notin Range(WrpSpltTrv(sz, lmt))
  PROVE  OnlyLast(lmt) /\ WrpSpltTrv(sz, lmt) = SplitLast(sz, lmt)
<1> DEFINE n == Len(lmt)
           step == TrvSteps(sz, lmt)
           splits == {i \in 1..n : step[i] # step[i - 1]}
           c == Cardinality(splits)
           m == n + c
           out == SubSeq(step[n], 1, m)
<1>1. n \in Nat /\ n # 0 /\ DOMAIN lmt = 1..n
  OBVIOUS
<1>2. \A i \in 1..n : lmt[i] \in Slab /\ Evaluated(sz, lmt[i])
                      /\ (Wraps(lmt[i]) => First(sz, lmt[i]) # lmt[i])
  <2>1. SUFFICES ASSUME NEW i \in 1..n
                 PROVE  lmt[i] \in Slab /\ Evaluated(sz, lmt[i])
                        /\ (Wraps(lmt[i]) => First(sz, lmt[i]) # lmt[i])
    OBVIOUS
  <2>2. lmt[i] \in Slab /\ Evaluated(sz, lmt[i])
    OBVIOUS
  <2>3. Wraps(lmt[i]) => ~Wraps(First(sz, lmt[i]))
    BY <2>2, HalvesWalk
  <2>4. QED
    BY <2>2, <2>3
<1>3. WrpSpltTrv(sz, lmt) = out
  BY DEF WrpSpltTrv, TrvSteps
<1>4. /\ \A i \in 0..n : step[i] \in Slots(n)
      /\ \A i \in 1..n : step[i] = TrvStep(sz, i, step[i - 1])
  BY TrvStepsFacts
<1>5. /\ \A k \in 1..n : step[0][k] = lmt[k]
      /\ \A k \in 1..(2 * n) : k > n => step[0][k] = Unset
  BY TrvStart
<1>6. splits \subseteq 1..n /\ IsFiniteSet(splits) /\ c \in Nat /\ c <= n
      /\ \A i \in 1..n : i \in splits <=> step[i] # step[i - 1]
  <2>1. IsFiniteSet(1..n) /\ Cardinality(1..n) = n
    BY <1>1, FS_Interval
  <2>2. splits \subseteq 1..n /\ \A i \in 1..n : i \in splits <=> step[i] # step[i - 1]
    OBVIOUS
  <2>3. IsFiniteSet(splits) /\ Cardinality(splits) <= n
    BY <2>1, <2>2, FS_Subset
  <2>4. Cardinality(splits) \in Nat
    BY <2>3, FS_CardinalityType
  <2> HIDE DEF splits, step, n
  <2>5. QED
    BY <2>2, <2>3, <2>4
<1>23. Fronts(sz, lmt) = [i \in 1..n |-> FirstOf(sz, lmt[i])]
  BY DEF Fronts
<1>24. SplitLast(sz, lmt) = IF Wraps(lmt[n]) THEN Append(Fronts(sz, lmt), Second(sz, lmt[n]))
                           ELSE Fronts(sz, lmt)
  BY DEF SplitLast
<1>25. OnlyLast(lmt) <=> \A i \in 1..(n - 1) : ~Wraps(lmt[i])
  BY DEF OnlyLast
<1> HIDE DEF n, step, splits
<1>7. m \in Nat /\ n <= m /\ m <= 2 * n /\ n + 1 \in 1..(2 * n) /\ n \in 0..n /\ n \in 1..n
      /\ n - 1 \in 0..n
  <2>1. c \in Nat /\ c <= n
    BY <1>6
  <2> HIDE DEF c
  <2>2. QED
    BY <1>1, <2>1
<1> HIDE DEF c
<1>22. /\ \A i \in 1..n, s \in Slots(n) :
            /\ \A k \in 1..(2 * n) : k # i /\ k # i + 1 => TrvStep(sz, i, s)[k] = s[k]
            /\ ~Wraps(s[i]) => TrvStep(sz, i, s) = s
            /\ Wraps(s[i]) => /\ TrvStep(sz, i, s)[i] = First(sz, s[i])
                              /\ TrvStep(sz, i, s)[i + 1] = Second(sz, s[i])
  BY <1>1, TrvStepFacts
<1>8. step[n] \in Seq(Slot) /\ Len(step[n]) = 2 * n
  <2>1. step[n] \in [1..(2 * n) -> Slot] /\ 2 * n \in Nat
    BY <1>1, <1>4, <1>7 DEF Slots
  <2>2. QED
    BY <2>1
<1>9. /\ Len(out) = m /\ DOMAIN out = 1..m /\ \A k \in 1..m : out[k] = step[n][k]
      /\ out = [k \in 1..m |-> out[k]]
  <2> DEFINE q == step[n]
  <2>1. q \in Seq(Slot) /\ Len(q) = 2 * n
    BY <1>8
  <2> HIDE DEF q, m
  <2>2. Len(SubSeq(q, 1, m)) = m /\ DOMAIN SubSeq(q, 1, m) = 1..m
        /\ \A k \in 1..m : SubSeq(q, 1, m)[k] = q[k]
    BY <1>1, <1>7, <2>1
  <2>3. SubSeq(q, 1, m) \in Seq(Slot)
    BY <1>1, <1>7, <2>1
  <2>4. \A r \in Seq(Slot) : r = [k \in 1..Len(r) |-> r[k]]
    OBVIOUS
  <2>5. SubSeq(q, 1, m) = [k \in 1..m |-> SubSeq(q, 1, m)[k]]
    BY <2>2, <2>3, <2>4
  <2>6. QED
    BY <2>2, <2>5 DEF q
<1>10. \A k \in 1..m : step[n][k] # Unset
  BY <1>3, <1>9 DEF Range
<1> HIDE DEF m, out
\* Beyond the slots a step has reached nothing has changed.
<1>11. \A j \in 0..n : \A k \in 1..(2 * n) : k > j + 1 => step[j][k] = step[0][k]
  <2> DEFINE Is(j) == \A k \in 1..(2 * n) : k > j + 1 => step[j][k] = step[0][k]
             T == {j \in 0..n : Is(j)}
  <2>1. 0 \in T
    BY <1>1
  <2>2. ASSUME NEW j \in 1..n, j - 1 \in T PROVE j \in T
    <3>1. j \in 0..n /\ j - 1 \in 0..n /\ j \in Int
      BY <1>1
    <3>2. ASSUME NEW k \in 1..(2 * n), k > j + 1 PROVE step[j][k] = step[0][k]
      <4>1. k # j /\ k # j + 1 /\ k > (j - 1) + 1
        BY <3>1, <3>2
      <4>2. step[j][k] = step[j - 1][k]
        <5>1. step[j] = TrvStep(sz, j, step[j - 1]) /\ step[j - 1] \in Slots(n)
          BY <1>4, <3>1
        <5>2. TrvStep(sz, j, step[j - 1])[k] = step[j - 1][k]
          BY <1>22, <4>1, <5>1, Zenon
        <5>3. QED
          BY <5>1, <5>2, Zenon
      <4>3. step[j - 1][k] = step[0][k]
        BY <2>2, <4>1
      <4>4. QED
        BY <4>2, <4>3
    <3>3. Is(j)
      BY <3>2
    <3> HIDE DEF Is
    <3>4. QED
      BY <3>1, <3>3
  <2>3. \A j \in 0..n : j \in T
    <3> HIDE DEF T
    <3>1. QED
      BY <1>1, <2>1, <2>2, Induct
  <2>4. QED
    BY <2>3
<1>12. ASSUME NEW i \in splits, i # n PROVE FALSE
  <2>1. i \in 1..n
    BY <1>6
  <2>2. CASE n \notin splits
    <3>1. step[n] = step[n - 1]
      BY <1>6, <1>7, <2>2
    <3>2. n + 1 > (n - 1) + 1 /\ n + 1 > n
      BY <1>1
    <3>3. step[n][n + 1] = Unset
      BY <1>5, <1>7, <1>11, <3>1, <3>2
    <3>4. c # 0
      BY <1>6, <1>12, FS_EmptySet DEF c
    <3>5. n + 1 \in 1..m
      BY <1>1, <1>6, <3>4 DEF m
    <3>6. QED
      BY <1>10, <3>3, <3>5
  <2>3. CASE n \in splits
    <3>1. c >= 2
      <4>1. {i, n} \subseteq splits /\ IsFiniteSet({n}) /\ Cardinality({n}) = 1 /\ i \notin {n}
        BY <1>12, <2>3, FS_Singleton
      <4>2. {i, n} = {n} \cup {i}
        OBVIOUS
      <4>3. Cardinality({i, n}) = 2
        <5>1. Cardinality({n} \cup {i}) = Cardinality({n}) + 1
          BY <4>1, FS_AddElement, Zenon
        <5>2. Cardinality({i, n}) = Cardinality({n} \cup {i})
          BY <4>2, Zenon
        <5>3. QED
          BY <4>1, <5>1, <5>2
      <4>4. Cardinality({i, n}) <= c
        BY <1>6, <4>1, FS_Subset DEF c
      <4>5. QED
        BY <1>6, <4>3, <4>4
    <3>2. n + 2 \in 1..m /\ n + 2 \in 1..(2 * n) /\ n + 2 > n + 1 /\ n + 2 > n
      BY <1>1, <1>6, <3>1 DEF m
    <3>3. step[n][n + 2] = Unset
      BY <1>5, <1>7, <1>11, <3>2
    <3>4. QED
      BY <1>10, <3>2, <3>3
  <2>4. QED
    BY <2>2, <2>3
<1>13. step[n - 1] = step[0] /\ \A i \in 0..(n - 1) : step[i] = step[0]
  <2> DEFINE T == {j \in 0..(n - 1) : step[j] = step[0]}
  <2>1. n - 1 \in Nat /\ 0 \in 0..(n - 1) /\ n - 1 \in 0..(n - 1)
    BY <1>1
  <2>2. 0 \in T
    BY <2>1
  <2>3. ASSUME NEW j \in 1..(n - 1), j - 1 \in T PROVE j \in T
    <3>1. j \in 1..n /\ j # n /\ j \in 0..(n - 1)
      BY <1>1
    <3>2. step[j] = step[j - 1]
      BY <1>6, <1>12, <3>1
    <3>3. QED
      BY <2>3, <3>1, <3>2
  <2>4. \A j \in 0..(n - 1) : j \in T
    <3> HIDE DEF T
    <3>1. QED
      BY <2>1, <2>2, <2>3, Induct
  <2>5. QED
    BY <2>1, <2>4
<1>14. ASSUME NEW i \in 1..(n - 1), Wraps(lmt[i]) PROVE FALSE
  <2>1. i \in 1..n /\ i - 1 \in 0..(n - 1) /\ i \in 0..(n - 1) /\ i - 1 \in 0..n
    BY <1>1
  <2>2. step[i] = TrvStep(sz, i, step[0]) /\ step[i] = step[0] /\ step[0] \in Slots(n)
    <3>1. step[i] = TrvStep(sz, i, step[i - 1]) /\ step[i - 1] \in Slots(n)
      BY <1>4, <2>1
    <3>2. step[i - 1] = step[0] /\ step[i] = step[0]
      BY <1>13, <2>1
    <3>3. QED
      BY <3>1, <3>2
  <2>3. step[0][i] = lmt[i]
    BY <1>5, <2>1
  <2>4. step[0][i] = First(sz, lmt[i])
    <3>1. TrvStep(sz, i, step[0])[i] = First(sz, step[0][i])
      BY <1>14, <1>22, <2>1, <2>2, <2>3, Zenon
    <3>2. QED
      BY <2>2, <2>3, <3>1, Zenon
  <2>5. QED
    BY <1>2, <1>14, <2>1, <2>3, <2>4
<1>15. OnlyLast(lmt)
  <2>1. \A i \in 1..(n - 1) : ~Wraps(lmt[i])
    BY <1>14, Zenon
  <2>2. QED
    BY <1>25, <2>1, Zenon
<1>16. step[n] = TrvStep(sz, n, step[0]) /\ step[0] \in Slots(n) /\ step[0][n] = lmt[n]
  <2>1. step[n] = TrvStep(sz, n, step[n - 1]) /\ step[n - 1] \in Slots(n)
    BY <1>4, <1>7
  <2>2. step[n - 1] = step[0] /\ step[0][n] = lmt[n]
    BY <1>5, <1>7, <1>13
  <2>3. QED
    BY <2>1, <2>2
<1>17. \A k \in 1..n : k # n => step[n][k] = FirstOf(sz, lmt[k])
  <2>1. SUFFICES ASSUME NEW k \in 1..n, k # n PROVE step[n][k] = FirstOf(sz, lmt[k])
    OBVIOUS
  <2>2. k \in 1..(2 * n) /\ k # n + 1 /\ k \in 1..(n - 1)
    BY <1>1, <2>1
  <2>3. step[n][k] = step[0][k]
    <3>1. TrvStep(sz, n, step[0])[k] = step[0][k]
      BY <1>7, <1>16, <1>22, <2>1, <2>2
    <3>2. QED
      BY <1>16, <3>1, Zenon
  <2>4. QED
    BY <1>5, <1>14, <2>2, <2>3 DEF FirstOf
<1> DEFINE f == Fronts(sz, lmt)
<1>18. f \in Seq(Slab) /\ Len(f) = n
  BY FrontsFacts DEF n
<1>19. CASE Wraps(lmt[n])
  <2>1. step[n][n] = First(sz, lmt[n]) /\ step[n][n + 1] = Second(sz, lmt[n])
    <3>1. Wraps(step[0][n])
      BY <1>16, <1>19
    <3>2. /\ TrvStep(sz, n, step[0])[n] = First(sz, step[0][n])
          /\ TrvStep(sz, n, step[0])[n + 1] = Second(sz, step[0][n])
      BY <1>7, <1>16, <1>22, <3>1
    <3>3. QED
      BY <1>16, <3>2
  <2>2. step[n] # step[0]
    BY <1>2, <1>7, <1>16, <1>19, <2>1
  <2>3. splits = {n}
    BY <1>6, <1>7, <1>12, <1>13, <2>2
  <2>4. c = 1
    BY <2>3, FS_Singleton DEF c
  <2>5. m = n + 1
    BY <2>4 DEF m
  <2> DEFINE x == Second(sz, lmt[n])
             r == Append(f, x)
  <2>6. x \in Slab
    BY <1>2, <1>7, HalvesType
  <2> HIDE DEF x, f
  <2>7. r \in Seq(Slab) /\ Len(r) = n + 1 /\ DOMAIN r = 1..(n + 1) /\ r[n + 1] = x
        /\ \A k \in 1..n : r[k] = f[k]
    BY <1>1, <1>18, <2>6
  <2> HIDE DEF r
  <2>8. \A k \in 1..n : f[k] = FirstOf(sz, lmt[k])
    BY <1>23 DEF f
  <2>9. \A k \in 1..(n + 1) : out[k] = r[k]
    <3>1. SUFFICES ASSUME NEW k \in 1..(n + 1) PROVE out[k] = r[k]
      OBVIOUS
    <3>2. out[k] = step[n][k]
      BY <1>9, <2>5
    <3>3. CASE k = n + 1
      BY <2>1, <2>7, <3>2, <3>3 DEF x
    <3>4. CASE k # n + 1
      <4>1. k \in 1..n
        BY <1>1, <3>4
      <4>2. CASE k = n
        BY <1>19, <2>1, <2>7, <2>8, <3>2, <4>1, <4>2 DEF FirstOf
      <4>3. CASE k # n
        BY <1>17, <2>7, <2>8, <3>2, <4>1, <4>3
      <4>4. QED
        BY <4>2, <4>3
    <3>5. QED
      BY <3>3, <3>4
  <2>10. out = [k \in 1..(n + 1) |-> out[k]] /\ r = [k \in 1..(n + 1) |-> r[k]]
    <3>1. r = [k \in 1..(n + 1) |-> r[k]]
      BY <2>7
    <3>2. out = [k \in 1..(n + 1) |-> out[k]]
      BY <1>9, <2>5, Zenon
    <3>3. QED
      BY <3>1, <3>2, Zenon
  <2>11. out = r
    BY <2>9, <2>10
  <2>12. QED
    BY <1>3, <1>15, <1>19, <1>24, <2>11 DEF r, x, f
<1>20. CASE ~Wraps(lmt[n])
  <2>1. step[n] = step[0]
    BY <1>7, <1>16, <1>20, <1>22, Zenon
  <2>2. splits = {}
    BY <1>6, <1>7, <1>12, <1>13, <2>1
  <2>3. c = 0
    BY <2>2, FS_EmptySet DEF c
  <2>4. m = n
    BY <1>1, <2>3 DEF m
  <2>5. \A k \in 1..n : out[k] = FirstOf(sz, lmt[k])
    <3>1. SUFFICES ASSUME NEW k \in 1..n PROVE out[k] = FirstOf(sz, lmt[k])
      OBVIOUS
    <3>2. out[k] = step[n][k]
      BY <1>9, <2>4
    <3>3. CASE k = n
      BY <1>16, <1>20, <2>1, <3>2, <3>3 DEF FirstOf
    <3>4. CASE k # n
      BY <1>17, <3>2, <3>4
    <3>5. QED
      BY <3>3, <3>4
  <2>6. out = [k \in 1..n |-> out[k]]
    BY <1>9, <2>4, Zenon
  <2>7. out = f
    BY <1>23, <2>5, <2>6
  <2>8. SplitLast(sz, lmt) = f
    BY <1>20, <1>24 DEF f
  <2>9. QED
    BY <1>3, <1>15, <2>7, <2>8
<1>21. QED
  BY <1>19, <1>20

AllEvaluated(sz, lmt) == \A i \in DOMAIN lmt : Evaluated(sz, lmt[i])
\* A list that has exactly the parts of the slabs.
HasParts(sz, lmt, out) == \A t : t \in Range(out) <=> IsPart(sz, lmt, t)

\* Splitting, whichever routine does it.
LEMMA SpltParts ==
  ASSUME NEW p \in Problems, NEW lmt \in Seq(Slab), lmt # <<>>, AllEvaluated(p.sz, lmt),
         Unset \notin Range(Splt(p, lmt))
  PROVE  /\ HasParts(p.sz, lmt, Splt(p, lmt))
         /\ p.crd = <<>> => OnlyLast(lmt)
         /\ OnlyLast(lmt) => Splt(p, lmt) = SplitLast(p.sz, lmt)
<1>1. p.sz \in Nat \ {0}
  BY ProblemsAssumption
<1>2. OnlyLast(lmt) => WrpSpltCpy(p.sz, lmt) = SplitLast(p.sz, lmt)
  BY <1>1, CpyLast
<1>3. \A t : t \in Range(WrpSpltCpy(p.sz, lmt)) <=> IsPart(p.sz, lmt, t)
  BY <1>1, CpyParts
<1>4. CASE p.crd # <<>>
  <2>1. Splt(p, lmt) = WrpSpltCpy(p.sz, lmt)
    BY <1>4 DEF Splt
  <2>2. QED
    BY <1>2, <1>3, <1>4, <2>1 DEF HasParts
<1>5. CASE p.crd = <<>>
  <2>1. Splt(p, lmt) = WrpSpltTrv(p.sz, lmt)
    BY <1>5 DEF Splt
  <2>2. OnlyLast(lmt) /\ WrpSpltTrv(p.sz, lmt) = SplitLast(p.sz, lmt)
    BY <1>1, <2>1, TrvLast DEF AllEvaluated
  <2>3. QED
    BY <1>2, <1>3, <2>1, <2>2 DEF HasParts
<1>6. QED
  BY <1>4, <1>5

\* Sorting loses no slab and makes none up.
LEMMA SortedRange ==
  ASSUME NEW lmt \in Seq(Slab), NEW f \in Sorted(lmt)
  PROVE  Range(f) = Range(lmt) /\ DOMAIN f = 1..Len(lmt) /\ Len(lmt) \in Nat
         /\ \A i, j \in DOMAIN f : i < j => f[i].srt <= f[j].srt
<1> DEFINE n == Len(lmt)
<1>1. /\ f \in [1..n -> Range(lmt)] /\ n \in Nat /\ DOMAIN lmt = 1..n
      /\ \A i, j \in DOMAIN f : i < j => f[i].srt <= f[j].srt
      /\ \A s \in Range(lmt) : Cardinality({i \in DOMAIN f : f[i] = s}) =
                               Cardinality({i \in DOMAIN lmt : lmt[i] = s})
  BY DEF Sorted
<1>2. Range(f) \subseteq Range(lmt) /\ DOMAIN f = 1..n
  BY <1>1 DEF Range
<1>3. ASSUME NEW s \in Range(lmt) PROVE s \in Range(f)
  <2> DEFINE A == {i \in DOMAIN f : f[i] = s}
             B == {i \in DOMAIN lmt : lmt[i] = s}
  <2>1. B \subseteq 1..n /\ IsFiniteSet(1..n)
    BY <1>1, FS_Interval
  <2>2. IsFiniteSet(B)
    BY <2>1, FS_Subset
  <2>3. B # {}
    <3>1. PICK i \in DOMAIN lmt : s = lmt[i]
      BY DEF Range
    <3>2. QED
      BY <3>1
  <2>4. Cardinality(B) # 0
    BY <2>2, <2>3, FS_EmptySet
  <2>5. Cardinality(A) = Cardinality(B)
    BY <1>1
  <2>6. A # {}
    <3>1. Cardinality({}) = 0
      BY FS_EmptySet
    <3> HIDE DEF A, B
    <3>2. QED
      BY <2>4, <2>5, <3>1
  <2>7. PICK i \in DOMAIN f : f[i] = s
    BY <2>6
  <2>8. QED
    BY <2>7 DEF Range
<1>4. QED
  BY <1>1, <1>2, <1>3

\* A half of a wrapped slab selects no element outside the dimension.
LEMMA HalfStays ==
  ASSUME NEW sz \in Nat \ {0}, NEW t \in Slab, Steady(t), t.end < sz
  PROVE  ~Past(sz, t)
<1>1. t.cnt \in Nat /\ t.srt \in Nat /\ t.srd \in Nat \ {0} /\ t.end \in Int
  BY DEF Slab
<1>2. CASE t.cnt = 0
  BY <1>2 DEF Past
<1>3. CASE t.cnt # 0
  <2>1. t.srt + t.srd * (t.cnt - 1) <= t.end
    BY <1>3 DEF Steady, Consistent
  <2>2. t.cnt - 1 \in Nat
    BY <1>1, <1>3
  <2>3. t.srd * (t.cnt - 1) \in Nat
    BY <1>1, <2>2, Times
  <2>4. t.srt + t.srd * (t.cnt - 1) < sz
    BY <1>1, <2>1, <2>3
  <2>5. QED
    BY <1>1, <2>3, <2>4 DEF Past
<1>4. QED
  BY <1>2, <1>3

\* A part leaves the dimension only if a slab does, and the other way round.
LEMMA PartsBeyond ==
  ASSUME NEW sz \in Nat \ {0}, NEW lmt \in Seq(Slab), AllEvaluated(sz, lmt), NEW out,
         HasParts(sz, lmt, out)
  PROVE  (\E t \in Range(out) : Past(sz, t)) <=> \E i \in DOMAIN lmt : Leaves(sz, lmt[i])
<1>1. \A i \in DOMAIN lmt : lmt[i] \in Slab /\ Evaluated(sz, lmt[i])
  BY DEF AllEvaluated
<1>2. ASSUME NEW t \in Range(out), Past(sz, t) PROVE \E i \in DOMAIN lmt : Leaves(sz, lmt[i])
  <2>1. PICK i \in DOMAIN lmt : \/ t = FirstOf(sz, lmt[i])
                                \/ Wraps(lmt[i]) /\ t = Second(sz, lmt[i])
    BY DEF HasParts, IsPart
  <2>2. CASE Wraps(lmt[i])
    <3> DEFINE a == First(sz, lmt[i])
               b == Second(sz, lmt[i])
    <3>1. /\ a \in Slab /\ b \in Slab /\ a.end < sz /\ b.end < sz
          /\ Steady(a) /\ Steady(b)
      BY <1>1, <2>2, HalvesWalk
    <3>2. t = a \/ t = b
      BY <2>1, <2>2 DEF FirstOf
    <3> HIDE DEF a, b
    <3>3. ~Past(sz, t)
      BY <3>1, <3>2, HalfStays
    <3>4. QED
      BY <1>2, <3>3
  <2>3. CASE ~Wraps(lmt[i])
    BY <1>2, <2>1, <2>3 DEF FirstOf, Leaves
  <2>4. QED
    BY <2>2, <2>3
<1>3. ASSUME NEW i \in DOMAIN lmt, Leaves(sz, lmt[i]) PROVE \E t \in Range(out) : Past(sz, t)
  <2>1. ~Wraps(lmt[i]) /\ Past(sz, lmt[i])
    BY <1>3 DEF Leaves
  <2>2. IsPart(sz, lmt, lmt[i])
    BY <2>1 DEF IsPart, FirstOf
  <2>3. lmt[i] \in Range(out)
    BY <2>2 DEF HasParts
  <2>4. QED
    BY <2>1, <2>3
<1>4. QED
  BY <1>2, <1>3

\* Within the dimension a slab walks over the elements of its parts.
LEMMA PartsOfOne ==
  ASSUME NEW sz \in Nat \ {0}, NEW s \in Slab, Evaluated(sz, s), ~Leaves(sz, s)
  PROVE  LET a == FirstOf(sz, s)
             b == Second(sz, s)
             w == Walk(sz, s)
         IN  /\ a \in Slab /\ b \in Slab /\ Steady(a) /\ a.cnt # 0 /\ w \in Seq(Int)
             /\ ~Wraps(s) => w = Listed(a)
             /\ Wraps(s) => /\ Steady(b) /\ (b.cnt = 0 => b.srt \in Range(Listed(a)))
                            /\ w = Listed(a) \o Listed(b)
<1>1. CASE ~Wraps(s)
  <2>1. FirstOf(sz, s) = s
    BY <1>1 DEF FirstOf
  <2>2. Walk(sz, s) = Listed(s) /\ Steady(s) /\ s.cnt # 0
    BY <1>1, StraightWalk
  <2>3. Listed(s) \in Seq(Int) /\ Second(sz, s) \in Slab
    BY ListedFacts, HalvesType
  <2>4. QED
    BY <1>1, <2>1, <2>2, <2>3
<1>2. CASE Wraps(s)
  <2> DEFINE a == First(sz, s)
             b == Second(sz, s)
             w == Walk(sz, s)
  <2>1. FirstOf(sz, s) = a
    BY <1>2 DEF FirstOf
  <2>2. /\ a \in Slab /\ b \in Slab /\ a.cnt # 0 /\ Steady(a) /\ Steady(b)
        /\ b.cnt = 0 => b.srt \in Range(Listed(a))
        /\ w = Listed(a) \o Listed(b)
    BY <1>2, HalvesWalk
  <2> HIDE DEF a, b, w
  <2>3. Listed(a) \in Seq(Int) /\ Listed(b) \in Seq(Int)
    BY <2>2, ListedFacts
  <2>4. Listed(a) \o Listed(b) \in Seq(Int)
    BY <2>3, Concat
  <2>5. w \in Seq(Int)
    BY <2>2, <2>4, Zenon
  <2>6. QED
    BY <1>2, <2>1, <2>2, <2>5 DEF a, b, w
<1>3. QED
  BY <1>1, <1>2

\* What a list selects that has the parts of the slabs.
LEMMA PartsWalk ==
  ASSUME NEW sz \in Nat \ {0}, NEW lmt \in Seq(Slab), AllEvaluated(sz, lmt),
         \A i \in DOMAIN lmt : ~Leaves(sz, lmt[i]),
         NEW out \in Seq(Slab), HasParts(sz, lmt, out)
  PROVE  /\ \A x : x \in Sel(out) <=> \E i \in DOMAIN lmt : x \in Range(Walk(sz, lmt[i]))
         /\ Union(out) = Sel(out)
         /\ \A i \in DOMAIN out : Steady(out[i])
<1> DEFINE A(i) == FirstOf(sz, lmt[i])
           B(i) == Second(sz, lmt[i])
           W(i) == Walk(sz, lmt[i])
<1>1. ASSUME NEW i \in DOMAIN lmt
      PROVE  /\ A(i) \in Slab /\ B(i) \in Slab /\ Steady(A(i)) /\ A(i).cnt # 0
             /\ A(i) \in Range(out)
             /\ Wraps(lmt[i]) => Steady(B(i)) /\ (B(i).cnt = 0 => B(i).srt \in Range(Listed(A(i))))
                                 /\ B(i) \in Range(out)
             /\ Range(W(i)) = IF Wraps(lmt[i]) THEN Range(Listed(A(i))) \cup Range(Listed(B(i)))
                              ELSE Range(Listed(A(i)))
  <2>1. lmt[i] \in Slab /\ Evaluated(sz, lmt[i]) /\ ~Leaves(sz, lmt[i])
    BY DEF AllEvaluated
  <2>2. /\ A(i) \in Slab /\ B(i) \in Slab /\ Steady(A(i)) /\ A(i).cnt # 0
        /\ ~Wraps(lmt[i]) => W(i) = Listed(A(i))
        /\ Wraps(lmt[i]) => /\ Steady(B(i)) /\ (B(i).cnt = 0 => B(i).srt \in Range(Listed(A(i))))
                            /\ W(i) = Listed(A(i)) \o Listed(B(i))
    BY <2>1, PartsOfOne
  <2>3. A(i) \in Range(out) /\ (Wraps(lmt[i]) => B(i) \in Range(out))
    BY DEF HasParts, IsPart
  <2> HIDE DEF A, B, W
  <2>4. Listed(A(i)) \in Seq(Int) /\ Listed(B(i)) \in Seq(Int)
    BY <2>2, ListedFacts
  <2>5. Range(Listed(A(i)) \o Listed(B(i))) = Range(Listed(A(i))) \cup Range(Listed(B(i)))
    BY <2>4, ConcatRange
  <2>6. Range(W(i)) = IF Wraps(lmt[i]) THEN Range(Listed(A(i))) \cup Range(Listed(B(i)))
                      ELSE Range(Listed(A(i)))
    BY <2>2, <2>5
  <2>7. QED
    BY <2>2, <2>3, <2>6
<1>2. \A t \in Range(out) :
        \E i \in DOMAIN lmt : t = A(i) \/ (Wraps(lmt[i]) /\ t = B(i))
  BY DEF HasParts, IsPart
<1> HIDE DEF A, B, W
<1>3. \A t \in Range(out) : t \in Slab /\ Steady(t)
  BY <1>1, <1>2
<1>4. \A i \in DOMAIN out : out[i] \in Range(out)
  BY DEF Range
<1>5. \A x : x \in Sel(out) <=> \E t \in Range(out) : x \in Range(Listed(t))
  BY DEF Sel, Range
<1>6. \A x : x \in Sel(out) <=> \E i \in DOMAIN lmt : x \in Range(W(i))
  <2>1. ASSUME NEW x, x \in Sel(out) PROVE \E i \in DOMAIN lmt : x \in Range(W(i))
    <3>1. PICK t \in Range(out) : x \in Range(Listed(t))
      BY <1>5, <2>1
    <3>2. PICK i \in DOMAIN lmt : t = A(i) \/ (Wraps(lmt[i]) /\ t = B(i))
      BY <1>2
    <3>3. x \in Range(W(i))
      BY <1>1, <3>1, <3>2
    <3>4. QED
      BY <3>3
  <2>2. ASSUME NEW x, NEW i \in DOMAIN lmt, x \in Range(W(i)) PROVE x \in Sel(out)
    BY <1>1, <1>5, <2>2
  <2>3. QED
    BY <2>1, <2>2
<1>7. ASSUME NEW x, x \in Union(out) PROVE x \in Sel(out)
  <2>1. PICK j \in DOMAIN out : x \in Picks(out[j])
    BY <1>7 DEF Union
  <2> DEFINE t == out[j]
  <2>2. t \in Range(out) /\ t \in Slab /\ Steady(t) /\ x \in Picks(t)
    BY <1>3, <1>4, <2>1
  <2> HIDE DEF t
  <2>3. CASE t.cnt # 0
    <3>1. Range(Listed(t)) = Picks(t)
      BY <2>2, <2>3, ListedFacts DEF Steady
    <3>2. QED
      BY <1>5, <2>2, <3>1
  <2>4. CASE t.cnt = 0
    <3>1. PICK i \in DOMAIN lmt : t = A(i) \/ (Wraps(lmt[i]) /\ t = B(i))
      BY <1>2, <2>2
    <3>2. t = B(i) /\ Wraps(lmt[i]) /\ t.srt \in Range(Listed(A(i))) /\ A(i) \in Range(out)
      BY <1>1, <2>4, <3>1
    <3>3. x = t.srt
      <4>1. t.end < t.srt /\ t.srt \in Nat /\ t.end \in Int
        BY <2>2, <2>4 DEF Steady, Slab
      <4>2. t.srt..t.end = {}
        BY <4>1
      <4>3. QED
        BY <2>2, <4>2 DEF Picks
    <3>4. QED
      BY <1>5, <3>2, <3>3
  <2>5. QED
    BY <2>3, <2>4
<1>8. ASSUME NEW x, x \in Sel(out) PROVE x \in Union(out)
  <2>1. PICK j \in DOMAIN out : x \in Range(Listed(out[j]))
    BY <1>8 DEF Sel
  <2> DEFINE t == out[j]
  <2>2. t \in Slab /\ Steady(t) /\ x \in Range(Listed(t))
    BY <1>3, <1>4, <2>1
  <2> HIDE DEF t
  <2>3. t.cnt # 0
    <3>1. PICK k \in 0..(t.cnt - 1) : x = t.srt + t.srd * k
      BY <2>2, ListedMember
    <3>2. QED
      BY <3>1
  <2>4. x \in Picks(t)
    BY <2>2, <2>3, ListedFacts DEF Steady
  <2>5. QED
    BY <2>4 DEF Union, t
<1>9. QED
  BY <1>3, <1>4, <1>6, <1>7, <1>8 DEF W

-----------------------------------------------------------------------------
(* Slabs copied one after the other.                                       *)

\* Three sequences put together, either way.
LEMMA Regroup ==
  ASSUME NEW a \in Seq(Int), NEW b \in Seq(Int), NEW c \in Seq(Int)
  PROVE  (a \o b) \o c = a \o (b \o c)
<1>1. a \o b \in Seq(Int) /\ Len(a \o b) = Len(a) + Len(b)
      /\ b \o c \in Seq(Int) /\ Len(b \o c) = Len(b) + Len(c)
      /\ Len(a) \in Nat /\ Len(b) \in Nat /\ Len(c) \in Nat
  OBVIOUS
<1>2. QED
  BY <1>1

\* Ascending sequences one behind the other flatten to the ascending listing.
LEMMA FlattenAscends ==
  ASSUME NEW ss \in Seq(Seq(Int)), \A i \in DOMAIN ss : Asc(ss[i]),
         \A i, j \in DOMAIN ss : i < j => \A x \in Range(ss[i]), y \in Range(ss[j]) : x < y
  PROVE  Lists(FlattenSeq(ss), UNION {Range(ss[i]) : i \in DOMAIN ss})
<1> DEFINE n == Len(ss)
           All_(i) == UNION {Range(ss[j]) : j \in 1..i}
<1>1. n \in Nat /\ DOMAIN ss = 1..n /\ \A i \in 1..n : ss[i] \in Seq(Int)
  OBVIOUS
<1>2. PICK f \in [0..n -> Seq(Int)] : Joins(f, ss) /\ FlattenSeq(ss) = f[n]
  BY FlattenForm
<1>3. f[0] = <<>> /\ \A i \in 1..n : f[i] = f[i - 1] \o ss[i]
  BY <1>2 DEF Joins
<1> HIDE DEF n
<1> DEFINE Is(i) == Asc(f[i]) /\ Range(f[i]) = All_(i)
           T == {i \in 0..n : Is(i)}
<1>4. 0 \in T
  <2>1. Asc(f[0]) /\ Range(f[0]) = {}
    BY <1>3 DEF Asc, Range
  <2>2. All_(0) = {}
    OBVIOUS
  <2>3. 0 \in 0..n
    BY <1>1
  <2>4. QED
    BY <2>1, <2>2, <2>3
<1>5. ASSUME NEW i \in 1..n, i - 1 \in T PROVE i \in T
  <2>1. i - 1 \in 0..n /\ i \in 0..n /\ 1..i = 1..(i - 1) \cup {i} /\ i \in Nat
    BY <1>1
  <2>2. /\ f[i - 1] \in Seq(Int) /\ Asc(f[i - 1]) /\ Range(f[i - 1]) = All_(i - 1)
        /\ ss[i] \in Seq(Int) /\ Asc(ss[i]) /\ f[i] = f[i - 1] \o ss[i]
    BY <1>1, <1>2, <1>3, <1>5, <2>1
  <2>3. \A x \in All_(i - 1), y \in Range(ss[i]) : x < y
    <3>1. SUFFICES ASSUME NEW x \in All_(i - 1), NEW y \in Range(ss[i]) PROVE x < y
      OBVIOUS
    <3>2. PICK j \in 1..(i - 1) : x \in Range(ss[j])
      OBVIOUS
    <3>3. j \in 1..n /\ j < i
      BY <1>1
    <3>4. QED
      BY <1>1, <3>2, <3>3
  <2>4. All_(i) = All_(i - 1) \cup Range(ss[i])
    BY <2>1
  <2> HIDE DEF All_
  <2>5. Asc(f[i]) /\ Range(f[i]) = All_(i)
    BY <2>2, <2>3, <2>4, AscConcat
  <2>6. QED
    BY <2>1, <2>5
<1>6. Is(n)
  <2>1. \A i \in 0..n : i \in T
    <3> HIDE DEF T
    <3>1. QED
      BY <1>1, <1>4, <1>5, Induct
  <2>2. n \in 0..n
    BY <1>1
  <2>3. QED
    BY <2>1, <2>2
<1>7. f[n] \in Seq(Int)
  BY <1>1, <1>2
<1>8. QED
  BY <1>1, <1>2, <1>6, <1>7 DEF Lists

\* Slabs that do not overlap, copied in their order.
LEMMA CopyAscends ==
  ASSUME NEW lmt \in Seq(Slab), \A i \in DOMAIN lmt : Steady(lmt[i]), ~Ovl(lmt)
  PROVE  Lists(FlattenSeq([i \in DOMAIN lmt |-> Listed(lmt[i])]), Sel(lmt))
<1> DEFINE ss == [i \in DOMAIN lmt |-> Listed(lmt[i])]
<1>1. Len(lmt) \in Nat /\ DOMAIN lmt = 1..Len(lmt) /\ \A i \in DOMAIN lmt : lmt[i] \in Slab
  OBVIOUS
<1>2. \A i \in DOMAIN lmt : Listed(lmt[i]) \in Seq(Int) /\ Asc(Listed(lmt[i]))
  BY <1>1, ListedFacts
<1>3. ss \in [1..Len(lmt) -> Seq(Int)]
  BY <1>1, <1>2
<1>4. ss \in Seq(Seq(Int)) /\ DOMAIN ss = DOMAIN lmt /\ \A i \in DOMAIN ss : Asc(ss[i])
  BY <1>1, <1>2, <1>3
<1>5. ASSUME NEW i \in DOMAIN lmt, NEW x \in Range(Listed(lmt[i]))
      PROVE  x \in Int /\ lmt[i].srt <= x /\ x <= lmt[i].end
  <2> DEFINE s == lmt[i]
  <2>1. s \in Slab /\ Steady(s) /\ x \in Range(Listed(s))
    BY <1>1
  <2> HIDE DEF s
  <2>2. /\ s.cnt \in Nat /\ s.srt \in Nat /\ s.srd \in Nat \ {0} /\ s.end \in Int
        /\ \E k \in 0..(s.cnt - 1) : x = s.srt + s.srd * k
    BY <2>1, ListedMember DEF Slab
  <2>3. PICK k \in 0..(s.cnt - 1) : x = s.srt + s.srd * k
    BY <2>2
  <2>4. k \in Nat /\ s.cnt - 1 \in Nat /\ k <= s.cnt - 1 /\ s.cnt # 0
    BY <2>2
  <2>5. s.srd * k \in Nat /\ s.srd * (s.cnt - 1) \in Nat /\ s.srd * k <= s.srd * (s.cnt - 1)
    BY <2>2, <2>4, Times
  <2>6. s.srt + s.srd * (s.cnt - 1) <= s.end
    BY <2>1, <2>4 DEF Steady, Consistent
  <2> DEFINE kk == s.srd * k
             mm == s.srd * (s.cnt - 1)
  <2>7. kk \in Nat /\ mm \in Nat /\ kk <= mm
    BY <2>5
  <2>8. x = s.srt + kk /\ s.srt + mm <= s.end
    BY <2>3, <2>6
  <2>9. s.srt \in Nat /\ s.end \in Int
    BY <2>2
  <2> HIDE DEF kk, mm
  <2>10. x \in Int /\ s.srt <= x /\ x <= s.end
    BY <2>7, <2>8, <2>9
  <2>11. QED
    BY <2>10 DEF s
<1>6. ASSUME NEW i \in DOMAIN lmt, NEW j \in DOMAIN lmt, i < j,
             NEW x \in Range(Listed(lmt[i])), NEW y \in Range(Listed(lmt[j]))
      PROVE  x < y
  <2>1. ~(lmt[j].srt <= lmt[i].end)
    BY <1>6 DEF Ovl
  <2>2. x \in Int /\ x <= lmt[i].end /\ y \in Int /\ lmt[j].srt <= y
    BY <1>5
  <2>3. lmt[j].srt \in Int /\ lmt[i].end \in Int
    <3>1. lmt[i] \in Slab /\ lmt[j] \in Slab
      BY <1>1
    <3>2. QED
      BY <3>1 DEF Slab
  <2>4. QED
    BY <2>1, <2>2, <2>3
<1>7. \A i, j \in DOMAIN ss : i < j => \A x \in Range(ss[i]), y \in Range(ss[j]) : x < y
  BY <1>4, <1>6
<1>8. Sel(lmt) = UNION {Range(ss[i]) : i \in DOMAIN ss}
  BY <1>4 DEF Sel
<1> HIDE DEF ss
<1>9. QED
  BY <1>4, <1>7, <1>8, FlattenAscends DEF ss

\* Copying the parts in their order copies the slabs in theirs, if none but the
\* last one wraps.
LEMMA CopyInOrder ==
  ASSUME NEW sz \in Nat \ {0}, NEW lmt \in Seq(Slab), lmt # <<>>, AllEvaluated(sz, lmt),
         \A i \in DOMAIN lmt : ~Leaves(sz, lmt[i]), OnlyLast(lmt)
  PROVE  LET out == SplitLast(sz, lmt)
         IN  FlattenSeq([i \in DOMAIN out |-> Listed(out[i])])
               = FlattenSeq([i \in DOMAIN lmt |-> Walk(sz, lmt[i])])
<1> DEFINE n == Len(lmt)
           out == SplitLast(sz, lmt)
           f == Fronts(sz, lmt)
           A(i) == FirstOf(sz, lmt[i])
           W(i) == Walk(sz, lmt[i])
           b == Second(sz, lmt[n])
           g == [i \in 1..(n - 1) |-> W(i)]
           pieces == [i \in DOMAIN out |-> Listed(out[i])]
           walks == [i \in DOMAIN lmt |-> W(i)]
<1>1. /\ n \in Nat \ {0} /\ DOMAIN lmt = 1..n /\ f \in Seq(Slab) /\ Len(f) = n
      /\ \A i \in 1..n : A(i) \in Slab /\ Second(sz, lmt[i]) \in Slab /\ lmt[i] \in Slab
  BY FrontsFacts
<1>0. /\ n \in Nat /\ n - 1 \in Nat /\ n \in 1..n
      /\ \A i \in 1..n : i # n => i \in 1..(n - 1)
      /\ \A i \in 1..(n - 1) : i \in 1..n /\ i # n
  <2>1. n \in Nat /\ n # 0
    OBVIOUS
  <2> HIDE DEF n
  <2>2. QED
    BY <2>1
<1>2. \A i \in 1..n : f[i] = A(i)
  BY DEF Fronts
<1>3. out = IF Wraps(lmt[n]) THEN Append(f, b) ELSE f
  BY DEF SplitLast
<1>4. \A i \in 1..n : i # n => ~Wraps(lmt[i])
  BY <1>0 DEF OnlyLast
<1>5. \A i \in 1..n : /\ W(i) \in Seq(Int)
                      /\ ~Wraps(lmt[i]) => W(i) = Listed(A(i))
                      /\ Wraps(lmt[i]) => W(i) = Listed(A(i)) \o Listed(Second(sz, lmt[i]))
  <2>1. SUFFICES ASSUME NEW i \in 1..n
                 PROVE  /\ W(i) \in Seq(Int)
                        /\ ~Wraps(lmt[i]) => W(i) = Listed(A(i))
                        /\ Wraps(lmt[i]) => W(i) = Listed(A(i)) \o Listed(Second(sz, lmt[i]))
    OBVIOUS
  <2>2. lmt[i] \in Slab /\ Evaluated(sz, lmt[i]) /\ ~Leaves(sz, lmt[i])
    BY DEF AllEvaluated
  <2>3. QED
    BY <2>2, PartsOfOne
<1>6. n \in 1..n /\ \A i \in 1..(n - 1) : i \in 1..n /\ i # n
  BY <1>0, Zenon
<1>7. b \in Slab /\ b = Second(sz, lmt[n])
  BY <1>1, <1>6
<1> HIDE DEF n, out, f, A, W, b
<1>8. g \in [1..(n - 1) -> Seq(Int)] /\ n - 1 \in Nat
  BY <1>0, <1>5, <1>6
<1>9. g \in Seq(Seq(Int)) /\ Len(g) = n - 1 /\ \A i \in 1..(n - 1) : g[i] = W(i)
  <2>1. \A i \in 1..(n - 1) : g[i] = W(i)
    OBVIOUS
  <2>2. \A m \in Nat : \A s \in [1..m -> Seq(Int)] : s \in Seq(Seq(Int)) /\ Len(s) = m
    OBVIOUS
  <2> HIDE DEF g
  <2>3. QED
    BY <1>8, <2>1, <2>2, Zenon
<1>10. walks = [i \in 1..n |-> W(i)]
  BY <1>1
<1> HIDE DEF g
<1>11. walks = Append(g, W(n))
  <2>1. W(n) \in Seq(Int)
    BY <1>5, <1>6
  <2> DEFINE w == W(n)
             r == Append(g, w)
  <2>2. w \in Seq(Int) /\ w = W(n)
    BY <2>1
  <2> HIDE DEF w
  <2>3. r \in Seq(Seq(Int)) /\ DOMAIN r = 1..n /\ r[n] = w
        /\ \A i \in 1..(n - 1) : r[i] = g[i]
    BY <1>0, <1>9, <2>2
  <2> HIDE DEF r
  <2>4. r = [i \in 1..n |-> r[i]]
    BY <2>3
  <2>5. \A i \in 1..n : r[i] = W(i)
    BY <1>0, <1>9, <2>2, <2>3
  <2>6. walks = r
    BY <1>10, <2>4, <2>5
  <2>7. QED
    BY <2>2, <2>6 DEF r
<1>12. FlattenSeq(walks) = FlattenSeq(g) \o W(n) /\ FlattenSeq(g) \in Seq(Int)
  <2>1. W(n) \in Seq(Int)
    BY <1>5, <1>6
  <2>2. QED
    BY <1>9, <1>11, <2>1, FlattenAppend
<1>13. CASE ~Wraps(lmt[n])
  <2>1. out = f /\ DOMAIN f = 1..n
    BY <1>1, <1>3, <1>13
  <2>2. \A i \in 1..n : Listed(f[i]) = W(i)
    BY <1>2, <1>4, <1>5, <1>13
  <2>3. pieces = walks
    BY <1>10, <2>1, <2>2
  <2>4. QED
    BY <2>3 DEF out, W
<1>14. CASE Wraps(lmt[n])
  <2> DEFINE u == Listed(A(n))
             v == Listed(b)
             r == Append(f, b)
             q == Append(Append(g, u), v)
  <2>1. out = r
    BY <1>3, <1>14
  <2>2. r \in Seq(Slab) /\ DOMAIN r = 1..(n + 1) /\ r[n + 1] = b /\ \A i \in 1..n : r[i] = A(i)
    BY <1>1, <1>2, <1>7
  <2>3. u \in Seq(Int) /\ v \in Seq(Int)
    BY <1>1, <1>6, <1>7, ListedFacts
  <2>4. W(n) = u \o v
    BY <1>5, <1>6, <1>7, <1>14
  <2>5. \A i \in 1..(n - 1) : Listed(A(i)) = g[i]
    BY <1>4, <1>5, <1>6, <1>9
  <2>6. Listed(r[n]) = u /\ Listed(r[n + 1]) = v /\ \A i \in 1..(n - 1) : Listed(r[i]) = g[i]
    BY <1>6, <2>2, <2>5
  <2> HIDE DEF u, v, r
  <2>7. Append(g, u) \in Seq(Seq(Int)) /\ Len(Append(g, u)) = n
        /\ Append(g, u)[n] = u /\ \A i \in 1..(n - 1) : Append(g, u)[i] = g[i]
    BY <1>1, <1>9, <2>3
  <2>8. q \in Seq(Seq(Int)) /\ DOMAIN q = 1..(n + 1)
        /\ q[n + 1] = v /\ q[n] = u /\ \A i \in 1..(n - 1) : q[i] = g[i]
    <3> DEFINE z == Append(g, u)
    <3>1. z \in Seq(Seq(Int)) /\ Len(z) = n /\ z[n] = u /\ \A i \in 1..(n - 1) : z[i] = g[i]
      BY <2>7
    <3> HIDE DEF z
    <3>2. Append(z, v) \in Seq(Seq(Int)) /\ DOMAIN Append(z, v) = 1..(n + 1)
          /\ Append(z, v)[n + 1] = v /\ \A i \in 1..n : Append(z, v)[i] = z[i]
      BY <1>1, <2>3, <3>1
    <3>3. QED
      BY <1>6, <3>1, <3>2 DEF z
  <2>9. pieces = q
    <3>1. pieces = [i \in 1..(n + 1) |-> Listed(r[i])]
      BY <2>1, <2>2
    <3>2. \A i \in 1..(n + 1) : i = n + 1 \/ i = n \/ i \in 1..(n - 1)
      BY <1>1
    <3> HIDE DEF q
    <3>3. \A i \in 1..(n + 1) : Listed(r[i]) = q[i]
      BY <2>6, <2>8, <3>2
    <3>4. q = [i \in 1..(n + 1) |-> q[i]]
      BY <2>8
    <3>5. QED
      BY <3>1, <3>3, <3>4
  <2>10. FlattenSeq(Append(g, u)) = FlattenSeq(g) \o u
         /\ FlattenSeq(Append(g, u)) \in Seq(Int)
    BY <1>9, <2>3, <2>7, FlattenAppend
  <2>11. FlattenSeq(q) = FlattenSeq(Append(g, u)) \o v
    BY <2>3, <2>7, FlattenAppend
  <2>12. FlattenSeq(q) = (FlattenSeq(g) \o u) \o v
    BY <2>10, <2>11
  <2>13. (FlattenSeq(g) \o u) \o v = FlattenSeq(g) \o (u \o v)
    BY <1>12, <2>3, Regroup
  <2>14. FlattenSeq(pieces) = FlattenSeq(walks)
    BY <1>12, <2>4, <2>9, <2>12, <2>13, Zenon
  <2>15. QED
    BY <2>14 DEF out, W
<1>15. QED
  BY <1>13, <1>14

-----------------------------------------------------------------------------
(* Where the list comes from.                                              *)

\* The slabs a request's limits become, and the list that is made of them.
SlabsOf(p) == [i \in DOMAIN p.lmt |-> SlabAt(p, i)]
MadeOf(p, out, wrapped, rdr) ==
  LET e == SlabsOf(p)
      lmt == Splt(p, e)
      wrp == Len(e) = 1 /\ Len(lmt) = 2
      kept == wrp \/ Len(lmt) = 1 \/ p.usr
  IN  /\ \A i \in DOMAIN e : e[i] # Refused
      /\ Unset \notin Range(lmt)
      /\ wrapped = wrp
      /\ kept => out = lmt /\ rdr = (~wrp /\ Len(lmt) > 1)
      /\ ~kept => out \in Sorted(lmt) /\ rdr = (p.crd = <<>> /\ ~Ovl(out))
InOrder == FlattenSeq([i \in DOMAIN lmt_dmn |-> Listed(lmt_dmn[i])])

\* Where the list comes from: it is what became of the request's limits, and a
\* request is given up for a limit that is refused or leaves the dimension.
OriginInv ==
  /\ phase = "evl" => \A i \in DOMAIN lmt_dmn : /\ i \in DOMAIN prb.lmt
                                                /\ lmt_dmn[i] = SlabAt(prb, i)
                                                /\ SlabAt(prb, i) # Refused
  /\ phase \notin {"evl", "exit", "undefined"} => MadeOf(prb, lmt_dmn, WRP, MSA_USR_RDR)
  /\ phase = "exit" =>
       \E i \in DOMAIN prb.lmt : SlabAt(prb, i) = Refused \/ Leaves(prb.sz, SlabAt(prb, i))
  /\ phase \in {"print", "done"} => ~Beyond /\ (MSA_USR_RDR => Delivered = InOrder)

\* The limits of a request are a sequence.
LEMMA LimitsFacts ==
  ASSUME NEW p \in Problems
  PROVE  Len(p.lmt) \in Nat \ {0} /\ DOMAIN p.lmt = 1..Len(p.lmt)
<1> DEFINE S == {p.lmt[i] : i \in DOMAIN p.lmt}
<1>1. p.lmt \in Seq(S) /\ p.lmt # <<>>
  BY ProblemsAssumption
<1> HIDE DEF S
<1>2. QED
  BY <1>1

\* Slabs none of which is refused are evaluated.
LEMMA SlabsFacts ==
  ASSUME NEW p \in Problems, \A i \in DOMAIN p.lmt : SlabAt(p, i) # Refused
  PROVE  /\ SlabsOf(p) \in Seq(Slab) /\ SlabsOf(p) # <<>>
         /\ DOMAIN SlabsOf(p) = DOMAIN p.lmt /\ Len(SlabsOf(p)) = Len(p.lmt)
         /\ AllEvaluated(p.sz, SlabsOf(p))
<1> DEFINE n == Len(p.lmt)
           e == SlabsOf(p)
<1>1. n \in Nat /\ n # 0 /\ DOMAIN p.lmt = 1..n
  BY LimitsFacts
<1>2. ASSUME NEW i \in DOMAIN p.lmt PROVE SlabAt(p, i) \in Slab /\ Evaluated(p.sz, SlabAt(p, i))
  <2>1. SlabAt(p, i) = Refused \/ SlabAt(p, i) \in Slab
    BY EvlType DEF SlabAt
  <2>2. SlabAt(p, i) = Refused \/ Evaluated(p.sz, SlabAt(p, i))
    BY EvlEvaluated DEF SlabAt
  <2>3. QED
    BY <2>1, <2>2
<1>3. e = [i \in 1..n |-> SlabAt(p, i)]
  BY <1>1 DEF SlabsOf
<1>4. e \in [1..n -> Slab] /\ \A i \in 1..n : e[i] = SlabAt(p, i)
  BY <1>1, <1>2, <1>3
<1> HIDE DEF e, n
<1>5. e \in Seq(Slab) /\ Len(e) = n /\ DOMAIN e = 1..n
  BY <1>1, <1>4
<1>6. e # <<>>
  BY <1>1, <1>5
<1>7. AllEvaluated(p.sz, e)
  BY <1>1, <1>2, <1>4, <1>5 DEF AllEvaluated
<1>8. QED
  BY <1>1, <1>5, <1>6, <1>7 DEF e, n

\* The list that is made has the parts of these slabs.
LEMMA MadeFacts ==
  ASSUME NEW p \in Problems, NEW out, NEW wrapped, NEW rdr, MadeOf(p, out, wrapped, rdr)
  PROVE  /\ \A i \in DOMAIN p.lmt : SlabAt(p, i) # Refused
         /\ Splt(p, SlabsOf(p)) \in Seq(Slab) /\ Splt(p, SlabsOf(p)) # <<>>
         /\ Len(Splt(p, SlabsOf(p))) >= Len(SlabsOf(p))
         /\ Unset \notin Range(Splt(p, SlabsOf(p)))
         /\ out \in Seq(Slab) /\ out # <<>> /\ Len(out) = Len(Splt(p, SlabsOf(p)))
         /\ HasParts(p.sz, SlabsOf(p), out)
<1> DEFINE e == SlabsOf(p)
           lmt == Splt(p, e)
<1>1. /\ \A i \in DOMAIN e : e[i] # Refused
      /\ Unset \notin Range(lmt)
      /\ out = lmt \/ out \in Sorted(lmt)
  BY DEF MadeOf
<1>2. \A i \in DOMAIN p.lmt : SlabAt(p, i) # Refused
  BY <1>1 DEF SlabsOf
<1>3. e \in Seq(Slab) /\ e # <<>> /\ AllEvaluated(p.sz, e)
  BY <1>2, SlabsFacts
<1> HIDE DEF e
<1>4. lmt \in Seq(Slab) /\ lmt # <<>> /\ Len(lmt) >= Len(e)
  BY <1>1, <1>3, SpltType
<1>5. HasParts(p.sz, e, lmt)
  BY <1>1, <1>3, SpltParts
<1> HIDE DEF lmt
<1>6. out \in Seq(Slab) /\ out # <<>> /\ Len(out) = Len(lmt) /\ Range(out) = Range(lmt)
  <2>1. CASE out = lmt
    BY <1>4, <2>1
  <2>2. CASE out \in Sorted(lmt)
    <3>1. out \in Seq(Slab) /\ out # <<>> /\ Len(out) = Len(lmt)
      BY <1>4, <2>2, SortedType
    <3>2. Range(out) = Range(lmt)
      BY <1>4, <2>2, SortedRange
    <3>3. QED
      BY <3>1, <3>2
  <2>3. QED
    BY <1>1, <2>1, <2>2
<1>7. HasParts(p.sz, e, out)
  BY <1>5, <1>6 DEF HasParts
<1>8. QED
  BY <1>1, <1>2, <1>4, <1>6, <1>7 DEF e, lmt

\* Evaluating a limit.
LEMMA OriginEvl ==
  ASSUME RequestInv, OriginInv, Evl
  PROVE  OriginInv'
<1> DEFINE k == Len(lmt_dmn) + 1
           lmt == EvlDmnCrd(prb.sz, prb.crd, prb.lmt[k])
<1>1. /\ phase = "evl" /\ Len(lmt_dmn) < Len(prb.lmt) /\ prb' = prb
      /\ lmt.cnt = 0 => phase' = "exit"
      /\ lmt.cnt # 0 => lmt_dmn' = Append(lmt_dmn, lmt) /\ phase' = "evl"
  BY DEF Evl, EvlOr
<1>2. lmt_dmn \in Seq(Slab) /\ prb \in Problems
  BY <1>1 DEF RequestInv, ReadInv
<1>3. Len(prb.lmt) \in Nat /\ DOMAIN prb.lmt = 1..Len(prb.lmt)
  BY <1>2, LimitsFacts
<1>4. k \in DOMAIN prb.lmt /\ lmt = SlabAt(prb, k)
  <2>1. k \in DOMAIN prb.lmt
    BY <1>1, <1>2, <1>3
  <2>2. QED
    BY <2>1 DEF SlabAt
<1>5. lmt = Refused \/ (lmt \in Slab /\ lmt.cnt # 0)
  BY <1>2, <1>4, EvlType
<1>6. \A i \in DOMAIN lmt_dmn : /\ i \in DOMAIN prb.lmt
                                /\ lmt_dmn[i] = SlabAt(prb, i)
                                /\ SlabAt(prb, i) # Refused
  BY <1>1 DEF OriginInv
<1> DEFINE A(i) == SlabAt(prb, i)
<1>7. A(k) = lmt /\ \A i : A(i)' = A(i)
  BY <1>1, <1>4 DEF SlabAt
<1>8. CASE lmt.cnt = 0
  <2>1. A(k) = Refused
    BY <1>5, <1>7, <1>8
  <2>2. phase' = "exit" /\ \E i \in DOMAIN prb'.lmt : A(i)' = Refused
    BY <1>1, <1>4, <1>7, <1>8, <2>1
  <2>3. QED
    BY <2>2 DEF OriginInv
<1>9. CASE lmt.cnt # 0
  <2>1. lmt # Refused /\ lmt \in Slab
    BY <1>5, <1>9 DEF Refused
  <2>2. lmt_dmn' = Append(lmt_dmn, lmt) /\ phase' = "evl"
    BY <1>1, <1>9
  <2> HIDE DEF lmt
  <2>3. /\ DOMAIN lmt_dmn' = (DOMAIN lmt_dmn) \cup {k}
        /\ lmt_dmn'[k] = lmt /\ \A i \in DOMAIN lmt_dmn : lmt_dmn'[i] = lmt_dmn[i]
    BY <1>2, <2>1, <2>2
  <2> HIDE DEF k
  <2>4. \A i \in DOMAIN lmt_dmn' : i \in DOMAIN prb.lmt /\ lmt_dmn'[i] = A(i) /\ A(i) # Refused
    BY <1>4, <1>6, <1>7, <2>1, <2>3
  <2>5. \A i \in DOMAIN lmt_dmn' : i \in DOMAIN prb'.lmt /\ lmt_dmn'[i] = A(i)' /\ A(i)' # Refused
    BY <1>1, <1>7, <2>4
  <2>6. QED
    BY <2>2, <2>5 DEF OriginInv
<1>10. QED
  BY <1>8, <1>9

\* Splitting and ordering.
LEMMA OriginOrder ==
  ASSUME RequestInv, OriginInv, Order
  PROVE  OriginInv'
<1> DEFINE lmt == Splt(prb, lmt_dmn)
           wrp == Len(lmt_dmn) = 1 /\ Len(lmt) = 2
           kept == wrp \/ Len(lmt) = 1 \/ prb.usr
<1>1. /\ phase = "evl" /\ Len(lmt_dmn) = Len(prb.lmt) /\ prb' = prb
      /\ Unset \in Range(lmt) => phase' = "undefined"
      /\ Unset \notin Range(lmt) =>
           /\ phase' = "count" /\ WRP' = wrp
           /\ kept => lmt_dmn' = lmt /\ MSA_USR_RDR' = (~wrp /\ Len(lmt) > 1)
           /\ ~kept => lmt_dmn' \in Sorted(lmt) /\ MSA_USR_RDR' = (~HasCrd /\ ~Ovl(lmt_dmn'))
  BY DEF Order
<1>2. lmt_dmn \in Seq(Slab) /\ prb \in Problems
  BY <1>1 DEF RequestInv, ReadInv
<1>3. Len(prb.lmt) \in Nat /\ DOMAIN prb.lmt = 1..Len(prb.lmt)
  BY <1>2, LimitsFacts
<1>4. \A i \in DOMAIN lmt_dmn : lmt_dmn[i] = SlabAt(prb, i) /\ SlabAt(prb, i) # Refused
  BY <1>1 DEF OriginInv
<1>5. DOMAIN lmt_dmn = DOMAIN prb.lmt
  BY <1>1, <1>2, <1>3
<1>6. lmt_dmn = SlabsOf(prb)
  <2>1. lmt_dmn = [i \in DOMAIN lmt_dmn |-> lmt_dmn[i]]
    BY <1>2
  <2>2. QED
    BY <1>4, <1>5, <2>1 DEF SlabsOf
<1>7. CASE Unset \in Range(lmt)
  BY <1>1, <1>7 DEF OriginInv
<1>8. CASE Unset \notin Range(lmt)
  <2> DEFINE e == SlabsOf(prb)
  <2>1. lmt = Splt(prb, e) /\ (wrp <=> Len(e) = 1 /\ Len(lmt) = 2)
    BY <1>6
  <2>2. \A i \in DOMAIN e : e[i] # Refused
    BY <1>4, <1>6
  <2>3. ~HasCrd <=> prb.crd = <<>>
    BY DEF HasCrd
  <2>4. MadeOf(prb, lmt_dmn', WRP', MSA_USR_RDR')
    BY <1>1, <1>6, <1>8, <2>2, <2>3 DEF MadeOf
  <2>5. QED
    BY <1>1, <1>8, <2>4 DEF OriginInv
<1>9. QED
  BY <1>7, <1>8

\* A read outside the dimension is one of a limit that leaves it.
LEMMA OriginReadError ==
  ASSUME RequestInv, OriginInv, ReadError, UNCHANGED prb
  PROVE  OriginInv'
<1>1. phase \in {"copy", "merge"} /\ Beyond /\ phase' = "exit" /\ prb' = prb
  BY DEF ReadError
<1>2. prb \in Problems /\ dmn_sz_org = prb.sz
  BY DEF RequestInv, ReadInv, ListInv
<1>3. MadeOf(prb, lmt_dmn, WRP, MSA_USR_RDR)
  BY <1>1 DEF OriginInv
<1> DEFINE e == SlabsOf(prb)
<1>4. HasParts(prb.sz, e, lmt_dmn) /\ \A i \in DOMAIN prb.lmt : SlabAt(prb, i) # Refused
  BY <1>2, <1>3, MadeFacts
<1>5. e \in Seq(Slab) /\ AllEvaluated(prb.sz, e) /\ DOMAIN e = DOMAIN prb.lmt
  BY <1>2, <1>4, SlabsFacts
<1>6. prb.sz \in Nat \ {0}
  BY <1>2, ProblemsAssumption
<1>7. \E t \in Range(lmt_dmn) : Past(prb.sz, t)
  BY <1>1, <1>2 DEF Beyond
<1>8. \A i \in DOMAIN e : e[i] = SlabAt(prb, i)
  BY DEF SlabsOf
<1> HIDE DEF e
<1>9. \E i \in DOMAIN e : Leaves(prb.sz, e[i])
  BY <1>4, <1>5, <1>6, <1>7, PartsBeyond
<1>10. \E i \in DOMAIN prb.lmt : Leaves(prb.sz, SlabAt(prb, i))
  BY <1>5, <1>8, <1>9
<1> DEFINE A(i) == SlabAt(prb, i)
<1>11. \A i : A(i)' = A(i)
  BY <1>1 DEF SlabAt
<1>12. \E i \in DOMAIN prb'.lmt : Leaves(prb'.sz, A(i)')
  BY <1>1, <1>10, <1>11
<1>13. QED
  BY <1>1, <1>12 DEF OriginInv

\* The end of reading.
LEMMA OriginCopy ==
  ASSUME RequestInv, OriginInv, Copy \/ Finish, UNCHANGED prb
  PROVE  OriginInv'
<1>1. /\ phase \in {"copy", "merge"} /\ ~Beyond /\ phase' = "print" /\ prb' = prb
      /\ lmt_dmn' = lmt_dmn /\ WRP' = WRP /\ MSA_USR_RDR' = MSA_USR_RDR
      /\ dmn_sz_org' = dmn_sz_org
  BY DEF Copy, Finish, prep, slabs
<1>2. MadeOf(prb, lmt_dmn, WRP, MSA_USR_RDR)
  BY <1>1 DEF OriginInv
<1>3. MadeOf(prb, lmt_dmn, WRP, MSA_USR_RDR)' /\ ~Beyond' /\ InOrder' = InOrder
  BY <1>1, <1>2 DEF Beyond, InOrder
<1>4. ASSUME MSA_USR_RDR PROVE Delivered' = InOrder
  <2>1. Copy
    <3>1. ASSUME Finish PROVE FALSE
      <4>1. phase = "merge"
        BY <3>1 DEF Finish
      <4>2. Merges
        BY <4>1 DEF RequestInv, MsaInv, MergeInv
      <4>3. QED
        BY <1>4, <4>2, Zenon DEF Merges
    <3>2. QED
      BY <3>1
  <2>2. reads' = [i \in DOMAIN lmt_dmn |-> [slb |-> i, srt |-> 0, cnt |-> lmt_dmn[i].cnt]]
    BY <2>1 DEF Copy
  <2>3. lmt_dmn \in Seq(Slab)
    BY <1>1 DEF RequestInv, ReadInv
  <2>4. Elements(lmt_dmn, reads') = InOrder
    BY <2>2, <2>3, CopyFacts DEF InOrder
  <2>5. QED
    BY <1>1, <2>4 DEF Delivered
<1>5. QED
  BY <1>1, <1>3, <1>4 DEF OriginInv

\* The other steps leave the list alone.
LEMMA OriginKeeps ==
  ASSUME OriginInv, UNCHANGED prb,
         \/ CountSum \/ CountMin \/ CountEnd \/ Collect \/ Return \/ PrnIdx \/ Close \/ Stop
         \/ UNCHANGED vars
  PROVE  OriginInv'
<1>1. UNCHANGED <<prb, dmn_sz_org, lmt_dmn, WRP, MSA_USR_RDR>>
  BY DEF CountSum, CountMin, CountEnd, Collect, Return, PrnIdx, Close, Stop, vars, prep, slabs
<1>2. CASE CountSum \/ CountMin \/ CountEnd \/ Collect \/ Return
  <2>1. /\ phase \in {"count", "merge"} /\ phase' \in {"count", "copy", "merge"}
    BY <1>2 DEF CountSum, CountMin, CountEnd, Collect, Return, Read
  <2>2. MadeOf(prb, lmt_dmn, WRP, MSA_USR_RDR)
    BY <2>1 DEF OriginInv
  <2>3. MadeOf(prb', lmt_dmn', WRP', MSA_USR_RDR')
    BY <1>1, <2>2
  <2>4. QED
    BY <2>1, <2>3 DEF OriginInv
<1>3. CASE PrnIdx \/ Close \/ Stop \/ UNCHANGED vars
  <2>1. reads' = reads /\ (phase' = phase \/ (phase = "print" /\ phase' = "done"))
    BY <1>3 DEF PrnIdx, Close, Stop, vars, prep
  <2>2. /\ Delivered' = Delivered /\ InOrder' = InOrder /\ (Beyond' <=> Beyond)
        /\ \A i : SlabAt(prb, i)' = SlabAt(prb, i)
    BY <1>1, <2>1 DEF Delivered, InOrder, Beyond, SlabAt
  <2>3. MadeOf(prb, lmt_dmn, WRP, MSA_USR_RDR)' <=> MadeOf(prb, lmt_dmn, WRP, MSA_USR_RDR)
    BY <1>1
  <2>4. QED
    BY <1>1, <2>1, <2>2, <2>3 DEF OriginInv
<1>4. QED
  BY <1>2, <1>3

\* The invariant behind the two theorems below.
DeliverInv == RequestInv /\ CountInv /\ PrintInv /\ OriginInv

\* Together they are an invariant of every request.
LEMMA DeliverInvariant == SpecRead => []DeliverInv
<1>1. InitRead => OriginInv
  <2>1. SUFFICES ASSUME InitRead PROVE OriginInv
    OBVIOUS
  <2>2. phase = "evl" /\ lmt_dmn = <<>>
    BY <2>1 DEF InitRead, Init
  <2>3. DOMAIN lmt_dmn = {}
    BY <2>2
  <2>4. QED
    BY <2>2, <2>3 DEF OriginInv
<1>2. RequestInv /\ OriginInv /\ [NextRead]_<<vars, prb>> => OriginInv'
  BY OriginEvl, OriginOrder, OriginReadError, OriginCopy, OriginKeeps DEF NextRead, Work
<1>3. QED
  BY <1>1, <1>2, PrintInvariant, PTL DEF SpecRead, DeliverInv

-----------------------------------------------------------------------------
(* What is delivered, and what is refused.                                 *)

\* What the limits of a request ask for, one limit at a time.
EachWanted(p) == [i \in DOMAIN p.lmt |-> WantedAt(p, i)]
SeqSet(ss) == UNION {Range(ss[i]) : i \in DOMAIN ss}

\* Wanted in terms of these.
LEMMA WantedForm ==
  ASSUME NEW p \in Problems
  PROVE  Wanted(p) = IF Len(p.lmt) = 1 \/ p.usr THEN FlattenSeq(EachWanted(p))
                     ELSE Ascending(SeqSet(EachWanted(p)))
<1>1. EachWanted(p) = [i \in DOMAIN p.lmt |-> WantedOne(p, p.lmt[i])]
  BY DEF EachWanted, WantedAt
<1> DEFINE each == EachWanted(p)
<1>2. Wanted(p) = IF Len(each) = 1 \/ p.usr THEN FlattenSeq(each)
                  ELSE Ascending(UNION {Range(each[i]) : i \in DOMAIN each})
  BY <1>1 DEF Wanted
<1>3. Len(each) = Len(p.lmt)
  <2>1. Len(p.lmt) \in Nat /\ DOMAIN p.lmt = 1..Len(p.lmt)
    BY LimitsFacts
  <2> DEFINE n == Len(p.lmt)
  <2> HIDE DEF n
  <2>2. each = [i \in 1..n |-> WantedAt(p, i)]
    BY <2>1 DEF EachWanted, n
  <2>3. n \in Nat
    BY <2>1 DEF n
  <2>4. Len(each) = n
    BY <2>2, <2>3
  <2>5. QED
    BY <2>4 DEF n
<1> HIDE DEF each
<1>4. QED
  BY <1>2, <1>3 DEF SeqSet, each

\* A request that is kept and stays within the dimension asks for what its slabs
\* walk through.
LEMMA KeptWalks ==
  ASSUME NEW p \in Problems, Kept(p), NEW out, NEW wrapped, NEW rdr,
         MadeOf(p, out, wrapped, rdr), \A t \in Range(out) : ~Past(p.sz, t)
  PROVE  LET e == SlabsOf(p)
         IN  /\ e \in Seq(Slab) /\ e # <<>> /\ AllEvaluated(p.sz, e)
             /\ DOMAIN e = DOMAIN p.lmt /\ Len(e) = Len(p.lmt)
             /\ \A i \in DOMAIN e : ~Leaves(p.sz, e[i])
             /\ EachWanted(p) = [i \in DOMAIN e |-> Walk(p.sz, e[i])]
             /\ \A i \in DOMAIN e : Wraps(e[i]) => Around(p, p.lmt[i])
<1> DEFINE e == SlabsOf(p)
<1>1. HasParts(p.sz, e, out) /\ \A i \in DOMAIN p.lmt : SlabAt(p, i) # Refused
  BY MadeFacts
<1>2. /\ e \in Seq(Slab) /\ e # <<>> /\ AllEvaluated(p.sz, e) /\ DOMAIN e = DOMAIN p.lmt
      /\ Len(e) = Len(p.lmt)
  BY <1>1, SlabsFacts
<1>3. p.sz \in Nat \ {0}
  BY ProblemsAssumption
<1>4. \A i \in DOMAIN e : e[i] = SlabAt(p, i)
  BY DEF SlabsOf
<1> HIDE DEF e
<1>5. \A i \in DOMAIN e : ~Leaves(p.sz, e[i])
  BY <1>1, <1>2, <1>3, PartsBeyond
<1>6. ASSUME NEW i \in DOMAIN e
      PROVE  WantedAt(p, i) = Walk(p.sz, e[i]) /\ (Wraps(e[i]) => Around(p, p.lmt[i]))
  <2> DEFINE s == SlabAt(p, i)
  <2>1. i \in DOMAIN p.lmt /\ s = e[i] /\ s # Refused /\ ~Leaves(p.sz, s)
    BY <1>1, <1>2, <1>4, <1>5
  <2>2. /\ s # Refused /\ ~Leaves(p.sz, s) => WantedAt(p, i) = Walk(p.sz, s)
        /\ s # Refused /\ Wraps(s) => Around(p, p.lmt[i])
    BY <2>1, SlabWanted
  <2>3. QED
    BY <2>1, <2>2
<1>7. EachWanted(p) = [i \in DOMAIN e |-> Walk(p.sz, e[i])]
  BY <1>2, <1>6 DEF EachWanted
<1>8. QED
  BY <1>2, <1>5, <1>6, <1>7 DEF e

\* What the parts select is what is asked for, in all.
LEMMA MadeSelects ==
  ASSUME NEW p \in Problems, Kept(p), NEW out, NEW wrapped, NEW rdr,
         MadeOf(p, out, wrapped, rdr), \A t \in Range(out) : ~Past(p.sz, t)
  PROVE  /\ Sel(out) = SeqSet(EachWanted(p)) /\ Union(out) = Sel(out)
         /\ \A i \in DOMAIN out : Steady(out[i])
<1> DEFINE e == SlabsOf(p)
           w == EachWanted(p)
<1>1. /\ e \in Seq(Slab) /\ AllEvaluated(p.sz, e) /\ \A i \in DOMAIN e : ~Leaves(p.sz, e[i])
      /\ w = [i \in DOMAIN e |-> Walk(p.sz, e[i])]
  BY KeptWalks
<1>2. out \in Seq(Slab) /\ HasParts(p.sz, e, out)
  BY MadeFacts
<1>3. p.sz \in Nat \ {0}
  BY ProblemsAssumption
<1> HIDE DEF e, w
<1>4. /\ \A x : x \in Sel(out) <=> \E i \in DOMAIN e : x \in Range(Walk(p.sz, e[i]))
      /\ Union(out) = Sel(out)
      /\ \A i \in DOMAIN out : Steady(out[i])
  BY <1>1, <1>2, <1>3, PartsWalk
<1>5. \A x : x \in SeqSet(w) <=> \E i \in DOMAIN e : x \in Range(Walk(p.sz, e[i]))
  BY <1>1 DEF SeqSet
<1>6. Sel(out) = SeqSet(w)
  BY <1>4, <1>5
<1>7. QED
  BY <1>4, <1>6 DEF w

\* A single limit is delivered as it is.
LEMMA OneKept ==
  ASSUME NEW p \in Problems, Kept(p), NEW out, NEW wrapped, NEW rdr, Len(p.lmt) = 1,
         MadeOf(p, out, wrapped, rdr), \A t \in Range(out) : ~Past(p.sz, t)
  PROVE  /\ ~rdr /\ Wanted(p) \in Seq(Int)
         /\ ~wrapped => Len(out) = 1 /\ Wanted(p) = Listed(out[1])
         /\ wrapped => Wanted(p) = Listed(out[1]) \o Listed(out[2])
<1> DEFINE e == SlabsOf(p)
           s == e[1]
           sz == p.sz
           lmt == Splt(p, e)
<1>1. /\ e \in Seq(Slab) /\ e # <<>> /\ AllEvaluated(sz, e) /\ Len(e) = 1
      /\ \A i \in DOMAIN e : ~Leaves(sz, e[i])
      /\ EachWanted(p) = [i \in DOMAIN e |-> Walk(sz, e[i])]
  BY KeptWalks
<1>2. sz \in Nat \ {0}
  BY ProblemsAssumption
<1>3. /\ Len(e) = 1 /\ Len(lmt) = 2 => wrapped /\ out = lmt /\ ~rdr
      /\ Len(e) = 1 /\ Len(lmt) = 1 => ~wrapped /\ out = lmt /\ ~rdr
  <2> DEFINE wrp == Len(e) = 1 /\ Len(lmt) = 2
  <2>1. wrapped = wrp
    BY DEF MadeOf
  <2>2. wrp \/ Len(lmt) = 1 => out = lmt /\ rdr = (~wrp /\ Len(lmt) > 1)
    BY DEF MadeOf
  <2> HIDE DEF e, lmt
  <2>3. Len(lmt) = 1 => ~(Len(lmt) > 1) /\ ~wrp
    OBVIOUS
  <2>4. Len(e) = 1 /\ Len(lmt) = 2 => wrp
    OBVIOUS
  <2> HIDE DEF wrp
  <2>5. QED
    BY <2>1, <2>2, <2>3, <2>4, Zenon
<1> HIDE DEF e
<1>4. DOMAIN e = {1} /\ e = <<s>> /\ s \in Slab
  BY <1>1
<1>5. Evaluated(sz, s) /\ ~Leaves(sz, s)
  BY <1>1, <1>4 DEF AllEvaluated
<1>6. lmt = IF Wraps(s) THEN <<First(sz, s), Second(sz, s)>> ELSE <<s>>
  BY <1>4, SpltOne
<1> HIDE DEF s, sz, lmt
<1>7. /\ Walk(sz, s) \in Seq(Int)
      /\ ~Wraps(s) => Walk(sz, s) = Listed(s)
      /\ Wraps(s) => Walk(sz, s) = Listed(First(sz, s)) \o Listed(Second(sz, s))
  BY <1>2, <1>4, <1>5, PartsOfOne DEF FirstOf
<1>8. EachWanted(p) = <<Walk(sz, s)>>
  <2>1. EachWanted(p) = [i \in {1} |-> Walk(sz, e[i])] /\ e[1] = s
    BY <1>1, <1>4 DEF sz, s
  <2>2. QED
    BY <2>1
<1>9. Wanted(p) = Walk(sz, s)
  <2>1. Wanted(p) = FlattenSeq(EachWanted(p))
    BY WantedForm
  <2>2. FlattenSeq(<<Walk(sz, s)>>) = Walk(sz, s)
    BY <1>7, FlattenOne
  <2>3. QED
    BY <1>8, <2>1, <2>2
<1>10. CASE Wraps(s)
  <2> DEFINE a == First(sz, s)
             b == Second(sz, s)
  <2>1. lmt = <<a, b>>
    BY <1>6, <1>10
  <2> HIDE DEF a, b
  <2>2. Len(lmt) = 2 /\ lmt[1] = a /\ lmt[2] = b
    BY <2>1
  <2>3. wrapped /\ out = lmt /\ ~rdr
    BY <1>1, <1>3, <2>2
  <2>4. Wanted(p) = Listed(a) \o Listed(b)
    BY <1>7, <1>9, <1>10 DEF a, b
  <2>5. QED
    BY <1>7, <1>9, <2>2, <2>3, <2>4
<1>11. CASE ~Wraps(s)
  <2>1. lmt = <<s>>
    BY <1>6, <1>11
  <2>2. Len(lmt) = 1 /\ lmt[1] = s
    BY <2>1
  <2>3. ~wrapped /\ out = lmt /\ ~rdr
    BY <1>1, <1>3, <2>2
  <2>4. QED
    BY <1>7, <1>9, <1>11, <2>2, <2>3
<1>12. QED
  BY <1>10, <1>11

\* Several limits under --msa_usr_rdr are delivered one after the other.
LEMMA UserKept ==
  ASSUME NEW p \in Problems, Kept(p), NEW out, NEW wrapped, NEW rdr, Len(p.lmt) # 1, p.usr,
         MadeOf(p, out, wrapped, rdr), \A t \in Range(out) : ~Past(p.sz, t)
  PROVE  rdr /\ Wanted(p) = FlattenSeq([i \in DOMAIN out |-> Listed(out[i])])
<1> DEFINE e == SlabsOf(p)
           sz == p.sz
           lmt == Splt(p, e)
<1>1. /\ e \in Seq(Slab) /\ e # <<>> /\ AllEvaluated(sz, e) /\ Len(e) = Len(p.lmt)
      /\ DOMAIN e = DOMAIN p.lmt /\ \A i \in DOMAIN e : ~Leaves(sz, e[i])
      /\ EachWanted(p) = [i \in DOMAIN e |-> Walk(sz, e[i])]
      /\ \A i \in DOMAIN e : Wraps(e[i]) => Around(p, p.lmt[i])
  BY KeptWalks
<1>2. sz \in Nat \ {0}
  BY ProblemsAssumption
<1>3. Len(lmt) >= Len(e) /\ lmt \in Seq(Slab) /\ Unset \notin Range(lmt)
  BY MadeFacts
<1>4. out = lmt /\ (rdr <=> ~(Len(e) = 1 /\ Len(lmt) = 2) /\ Len(lmt) > 1)
  BY DEF MadeOf
<1> HIDE DEF e, lmt, sz
<1>5. Len(e) \in Nat /\ Len(e) # 0 /\ Len(e) # 1 /\ Len(lmt) \in Nat
  BY <1>1, <1>3
<1>6. rdr
  <2>1. \A m, n \in Nat : m # 0 /\ m # 1 /\ n >= m => n > 1
    OBVIOUS
  <2>2. QED
    BY <1>3, <1>4, <1>5, <2>1, Zenon
<1>7. OnlyLast(e)
  <2>1. CASE p.crd = <<>>
    BY <1>1, <1>3, <2>1, SpltParts DEF e, lmt, sz
  <2>2. CASE p.crd # <<>>
    <3>1. \A i \in 1..(Len(p.lmt) - 1) : ~Around(p, p.lmt[i])
      BY <2>2 DEF Kept
    <3>2. \A i \in 1..(Len(e) - 1) : i \in DOMAIN e
      BY <1>1, <1>5
    <3>3. QED
      BY <1>1, <3>1, <3>2 DEF OnlyLast
  <2>3. QED
    BY <2>1, <2>2
<1>8. lmt = SplitLast(sz, e)
  BY <1>1, <1>3, <1>7, SpltParts DEF e, lmt, sz
<1>9. FlattenSeq([i \in DOMAIN out |-> Listed(out[i])])
        = FlattenSeq([i \in DOMAIN e |-> Walk(sz, e[i])])
  BY <1>1, <1>2, <1>4, <1>7, <1>8, CopyInOrder
<1>10. Wanted(p) = FlattenSeq(EachWanted(p))
  BY WantedForm
<1>11. QED
  BY <1>1, <1>6, <1>9, <1>10

\* Several limits otherwise are delivered as one sorted set.
LEMMA SortedKept ==
  ASSUME NEW p \in Problems, Kept(p), NEW out, NEW wrapped, NEW rdr, Len(p.lmt) # 1, ~p.usr,
         MadeOf(p, out, wrapped, rdr), \A t \in Range(out) : ~Past(p.sz, t)
  PROVE  /\ ~wrapped /\ Wanted(p) = Ascending(Union(out))
         /\ rdr => Lists(FlattenSeq([i \in DOMAIN out |-> Listed(out[i])]), Union(out))
<1> DEFINE e == SlabsOf(p)
           lmt == Splt(p, e)
<1>1. e \in Seq(Slab) /\ e # <<>> /\ Len(e) = Len(p.lmt)
  BY KeptWalks
<1>2. Len(lmt) >= Len(e) /\ lmt \in Seq(Slab) /\ out \in Seq(Slab)
  BY MadeFacts
<1>3. /\ Len(e) # 1 => ~wrapped
      /\ Len(e) # 1 /\ Len(lmt) # 1 => rdr = (p.crd = <<>> /\ ~Ovl(out))
  BY DEF MadeOf
<1> HIDE DEF e, lmt
<1>4. Len(e) \in Nat /\ Len(e) # 0 /\ Len(e) # 1 /\ Len(lmt) \in Nat
  BY <1>1, <1>2
<1>5. Len(lmt) # 1
  <2>1. \A m, n \in Nat : m # 0 /\ m # 1 /\ n >= m => n # 1
    OBVIOUS
  <2>2. QED
    BY <1>2, <1>4, <2>1, Zenon
<1>6. /\ Sel(out) = SeqSet(EachWanted(p)) /\ Union(out) = Sel(out)
      /\ \A i \in DOMAIN out : Steady(out[i])
  BY MadeSelects
<1>7. Wanted(p) = Ascending(Union(out))
  BY <1>6, WantedForm
<1>8. ASSUME rdr PROVE Lists(FlattenSeq([i \in DOMAIN out |-> Listed(out[i])]), Union(out))
  <2>1. ~Ovl(out)
    BY <1>3, <1>4, <1>5, <1>8
  <2>2. QED
    BY <1>2, <1>6, <2>1, CopyAscends
<1>9. QED
  BY <1>3, <1>4, <1>7, <1>8

\* All of them together.
LEMMA DeliverStep ==
  ASSUME DeliverInv, Kept(prb), phase = "done"
  PROVE  Delivered = Wanted(prb)
<1>1. prb \in Problems /\ MadeOf(prb, lmt_dmn, WRP, MSA_USR_RDR)
  BY DEF DeliverInv, RequestInv, ReadInv, OriginInv
<1>2. \A t \in Range(lmt_dmn) : ~Past(prb.sz, t)
  BY DEF DeliverInv, RequestInv, ListInv, OriginInv, Beyond
<1>3. lmt_dmn \in Seq(Slab)
  BY DEF DeliverInv, RequestInv, ReadInv
<1>4. ~WRP /\ ~MSA_USR_RDR => Lists(Delivered, Union(lmt_dmn))
  BY DEF DeliverInv, CountInv
<1>5. WRP => Delivered = Listed(lmt_dmn[1]) \o Listed(lmt_dmn[2])
  BY DEF DeliverInv, PrintInv
<1>6. MSA_USR_RDR => Delivered = FlattenSeq([i \in DOMAIN lmt_dmn |-> Listed(lmt_dmn[i])])
  BY DEF DeliverInv, OriginInv, InOrder
<1>7. CASE Len(prb.lmt) = 1
  <2>1. /\ ~MSA_USR_RDR
        /\ ~WRP => Len(lmt_dmn) = 1 /\ Wanted(prb) = Listed(lmt_dmn[1])
        /\ WRP => Wanted(prb) = Listed(lmt_dmn[1]) \o Listed(lmt_dmn[2])
    BY <1>1, <1>2, <1>7, OneKept
  <2>2. CASE WRP
    BY <1>5, <2>1, <2>2
  <2>3. CASE ~WRP
    <3>1. Len(lmt_dmn) = 1 /\ lmt_dmn[1].cnt # 0 /\ Consistent(lmt_dmn[1])
      BY <2>1, <2>3 DEF DeliverInv, RequestInv, ListInv
    <3>2. DOMAIN lmt_dmn = {1} /\ lmt_dmn[1] \in Slab
      BY <1>3, <3>1
    <3> DEFINE s == lmt_dmn[1]
    <3>3. Union(lmt_dmn) = Picks(s)
      BY <3>2 DEF Union
    <3> HIDE DEF s
    <3>4. Listed(s) \in Seq(Int) /\ Asc(Listed(s)) /\ Range(Listed(s)) = Picks(s)
      BY <3>1, <3>2, ListedFacts DEF s
    <3>5. Listed(s) = Ascending(Picks(s))
      BY <3>4, AscendingIs
    <3>6. Delivered = Ascending(Picks(s))
      BY <1>4, <2>1, <2>3, <3>3, ListsOnce
    <3>7. QED
      BY <2>1, <2>3, <3>5, <3>6 DEF s
  <2>4. QED
    BY <2>2, <2>3
<1>8. CASE Len(prb.lmt) # 1 /\ prb.usr
  BY <1>1, <1>2, <1>6, <1>8, UserKept
<1>9. CASE Len(prb.lmt) # 1 /\ ~prb.usr
  <2>1. /\ ~WRP /\ Wanted(prb) = Ascending(Union(lmt_dmn))
        /\ MSA_USR_RDR => Lists(FlattenSeq([i \in DOMAIN lmt_dmn |-> Listed(lmt_dmn[i])]),
                                Union(lmt_dmn))
    BY <1>1, <1>2, <1>9, SortedKept
  <2>2. Lists(Delivered, Union(lmt_dmn))
    BY <1>4, <1>6, <2>1
  <2>3. QED
    BY <2>1, <2>2, ListsOnce
<1>10. QED
  BY <1>7, <1>8, <1>9

\* The elements in memory are the elements asked for, in the promised order, for
\* every list of limits that is kept and any size of the dimension: splitting,
\* sorting, merging and normalising lose nothing and bring nothing.
THEOREM DeliversKept == SpecRead => [](Kept(prb) => DeliversWanted)
<1>1. DeliverInv => (Kept(prb) => DeliversWanted)
  BY DeliverStep DEF DeliversWanted
<1>2. QED
  BY <1>1, DeliverInvariant, PTL

\* A request that is kept is refused only if one of its limits asks for nothing.
THEOREM RefusesKept == SpecRead => [](Kept(prb) => RefusesOnlyEmpty)
<1>1. ASSUME DeliverInv, Kept(prb), phase = "exit"
      PROVE  \E i \in DOMAIN prb.lmt : WantedOne(prb, prb.lmt[i]) = <<>>
  <2>1. prb \in Problems
    BY <1>1 DEF DeliverInv, RequestInv, ReadInv
  <2>2. PICK i \in DOMAIN prb.lmt : SlabAt(prb, i) = Refused \/ Leaves(prb.sz, SlabAt(prb, i))
    BY <1>1 DEF DeliverInv, OriginInv
  <2>3. WantedAt(prb, i) = <<>>
    BY <1>1, <2>1, <2>2, SlabWanted
  <2>4. QED
    BY <2>3 DEF WantedAt
<1>2. DeliverInv => (Kept(prb) => RefusesOnlyEmpty)
  BY <1>1 DEF RefusesOnlyEmpty
<1>3. QED
  BY <1>2, DeliverInvariant, PTL
=============================================================================
