------------------------------- MODULE MsaRead -------------------------------
(***************************************************************************)
(* Multi-slabs along one dimension: from the -d options to the reads that  *)
(* fill the variable in memory.  nco_bld_lmt() of nco_grp_utl.c evaluates  *)
(* every limit, splits wrapped ones and orders them; nco_msa_clc_idx() of  *)
(* nco_msa.c merges the slabs when they may overlap.                       *)
(*                                                                         *)
(* A problem prb is [sz, crd, lmt, usr]: the size of the dimension, the    *)
(* values of its coordinate (<<>> if it has none), the limits in the order *)
(* given, and --msa_usr_rdr.  Slabs are numbered from 1.                   *)
(***************************************************************************)
EXTENDS DmnLmt, MsaMerge

CONSTANT Problems
IsLimit(p, l) ==
  /\ l.typ \in {"idx", "crd"} /\ l.fort \in BOOLEAN /\ l.srd \in Nat \ {0}
  /\ l.min \in Seq(Int) /\ Len(l.min) <= 1
  /\ l.max \in Seq(Int) /\ Len(l.max) <= 1
  /\ l.typ = "crd" => p.crd # <<>>
ASSUME ProblemsAssumption ==
  \A p \in Problems :
    /\ p.sz \in Nat \ {0} /\ p.usr \in BOOLEAN
    /\ p.crd \in Seq(Int) /\ (p.crd # <<>> => Len(p.crd) = p.sz)
    /\ p.lmt \in Seq({p.lmt[i] : i \in DOMAIN p.lmt}) /\ p.lmt # <<>>
    /\ \A i \in DOMAIN p.lmt : IsLimit(p, p.lmt[i])

VARIABLE prb  \* the problem

HasCrd == prb.crd # <<>>

EvlOr(refuse) ==
  /\ phase = "evl" /\ Len(lmt_dmn) < Len(prb.lmt)
  /\ LET lmt == EvlDmnCrd(prb.sz, prb.crd, prb.lmt[Len(lmt_dmn) + 1])
     IN  IF lmt.cnt = 0
         THEN phase' = refuse /\ UNCHANGED lmt_dmn
         ELSE lmt_dmn' = Append(lmt_dmn, lmt) /\ UNCHANGED phase
  /\ UNCHANGED <<prb, dmn_sz_org, WRP, MSA_USR_RDR, dmn_cnt, indices, crr, prv_slb, reads,
                 printed>>
\* The next limit.  (EvlOn: a faulty variant that goes on with the limits
\* before the one that is refused.)
EvlOn == EvlOr("count")
Evl == EvlOr("exit")

Wraps(lmt) == lmt.srt > lmt.end
\* Elements before the index falls below srt again; all of them if it never
\* does, and then the second half is empty.
CntFirst(sz, lmt) ==
  MinOr({j \in 0..(lmt.cnt - 1) : (lmt.srt + lmt.srd * j) % sz < lmt.srt}, lmt.cnt)
Piece(srt, cnt, srd) ==
  [srt |-> srt, end |-> srt + srd * (cnt - 1), cnt |-> cnt,
   srd |-> IF cnt = 1 THEN 1 ELSE srd]
First(sz, lmt) == Piece(lmt.srt, CntFirst(sz, lmt), lmt.srd)
\* (SecondAtZero: a faulty variant that starts the stride anew.)
SecondAtZero(sz, lmt) == Piece(0, lmt.cnt - CntFirst(sz, lmt), lmt.srd)
Second(sz, lmt) ==
  LET n == CntFirst(sz, lmt)
      j == IF n < lmt.cnt THEN n ELSE n - 1    \* where the loop leaves kdx
  IN  Piece((lmt.srt + lmt.srd * j) % sz, lmt.cnt - n, lmt.srd)

\* nco_msa_wrp_splt_cpy(): the second half of a wrapped slab goes to the end.
WrpSpltCpy(sz, lmt) ==
  LET halves[i \in 0..Len(lmt)] ==
        IF i = 0 THEN <<>>
        ELSE IF Wraps(lmt[i]) THEN Append(halves[i - 1], Second(sz, lmt[i]))
        ELSE halves[i - 1]
  IN  [i \in DOMAIN lmt |-> IF Wraps(lmt[i]) THEN First(sz, lmt[i]) ELSE lmt[i]]
        \o halves[Len(lmt)]

\* nco_msa_wrp_splt_trv(), for dimensions without coordinate: the second half
\* goes to the next slot, which is new only behind the last slab.
Unset == [srt |-> 0, end |-> 0, cnt |-> -1, srd |-> 1]
WrpSpltTrv(sz, lmt) ==
  LET n == Len(lmt)
      step[i \in 0..n] ==
        IF i = 0 THEN lmt \o [j \in 1..n |-> Unset]
        ELSE LET s == step[i - 1]
             IN  IF ~Wraps(s[i]) THEN s
                 ELSE [s EXCEPT ![i] = First(sz, s[i]),
                                ![i + 1] = Second(sz, s[i])]
      splits == {i \in 1..n : step[i] # step[i - 1]}
  IN  SubSeq(step[n], 1, n + Cardinality(splits))

Splt(p, lmt) ==
  IF p.crd # <<>> THEN WrpSpltCpy(p.sz, lmt) ELSE WrpSpltTrv(p.sz, lmt)

\* nco_msa_qsort_srt(): qsort() leaves slabs with the same start in any order.
Sorted(lmt) ==
  {f \in [1..Len(lmt) -> Range(lmt)] :
     /\ \A i, j \in DOMAIN f : i < j => f[i].srt <= f[j].srt
     /\ \A s \in Range(lmt) : Cardinality({i \in DOMAIN f : f[i] = s}) =
                              Cardinality({i \in DOMAIN lmt : lmt[i] = s})}
\* nco_msa_ovl()
Ovl(lmt) == \E i, j \in DOMAIN lmt : i < j /\ lmt[j].srt <= lmt[i].end

\* Where each slab goes, and what nco_msa_clc_cnt() is about to do.
Order ==
  /\ phase = "evl" /\ Len(lmt_dmn) = Len(prb.lmt)
  /\ LET lmt == Splt(prb, lmt_dmn)
         wrp == Len(lmt_dmn) = 1 /\ Len(lmt) = 2
         kept == wrp \/ Len(lmt) = 1 \/ prb.usr
     IN  IF Unset \in Range(lmt)
         THEN phase' = "undefined" /\ UNCHANGED <<lmt_dmn, WRP, MSA_USR_RDR, indices>>
         ELSE /\ phase' = "count"
              /\ WRP' = wrp
              /\ IF kept
                 THEN /\ lmt_dmn' = lmt
                      /\ MSA_USR_RDR' = (~wrp /\ Len(lmt) > 1)
                 ELSE /\ lmt_dmn' \in Sorted(lmt)
                      /\ MSA_USR_RDR' = (~HasCrd /\ ~Ovl(lmt_dmn'))
              /\ indices' = Start(lmt_dmn')
  /\ UNCHANGED <<prb, dmn_sz_org, dmn_cnt, crr, prv_slb, reads, printed>>

-----------------------------------------------------------------------------

InitRead ==
  /\ prb \in Problems /\ dmn_sz_org = prb.sz
  /\ Init
NextRead == Evl \/ Order \/ (Work /\ UNCHANGED prb)
SpecRead == InitRead /\ [][NextRead]_<<vars, prb>>

\* The list is complete when nco_bld_lmt() is done with it.
Merge == INSTANCE MsaMerge WITH
  lmt_dmn <- IF indices = <<>> THEN <<>> ELSE lmt_dmn
MergeSpec == Merge!Spec

-----------------------------------------------------------------------------
(* The elements in memory, in order. *)

Elements(lmt, rds) ==
  FlattenSeq([r \in DOMAIN rds |->
    [k \in 1..rds[r].cnt |->
       lmt[rds[r].slb].srt + lmt[rds[r].slb].srd * (rds[r].srt + k - 1)]])
Delivered == Elements(lmt_dmn, reads)

-----------------------------------------------------------------------------
(* The promise *)

EverySrd(s, srd) == [k \in 1..(1 + (Len(s) - 1) \div srd) |-> s[1 + srd * (k - 1)]]
Ascending(S) ==
  [k \in 1..Cardinality(S) |-> CHOOSE x \in S : Cardinality({y \in S : y <= x}) = k]
Interval(m, n) == Ascending(m..n)

FullIdx(sz, l) ==
  LET i(given, blank) ==
        LET g == IF given = <<>> THEN blank
                 ELSE IF l.fort /\ given[1] > 0 THEN given[1] - 1 ELSE given[1]
        IN  IF g < 0 THEN g + sz ELSE g
      mn == i(l.min, 0)
      mx == i(l.max, sz - 1)
  IN  IF l.fort /\ <<0>> \in {l.min, l.max} THEN <<>>
      ELSE IF mn \notin 0..(sz - 1) \/ mx < 0 THEN <<>>
      ELSE IF mn <= mx THEN Interval(mn, mx)
      ELSE Interval(mn, sz - 1) \o Interval(0, mx)

FullCrd(crd, l) ==
  LET idx == DOMAIN crd
      from == {i \in idx : l.min = <<>> \/ crd[i] >= l.min[1]}
      upto == {i \in idx : l.max = <<>> \/ crd[i] <= l.max[1]}
      s == IF l.min # <<>> /\ l.min = l.max
           THEN <<Nearest(crd, l.min[1]) + 1>>
           ELSE IF l.min = <<>> \/ l.max = <<>> \/ l.min[1] < l.max[1]
           THEN Ascending(from \cap upto)
           ELSE IF Increasing(crd) THEN Ascending(from) \o Ascending(upto)
           ELSE Ascending(upto) \o Ascending(from)
  IN  [k \in DOMAIN s |-> s[k] - 1]

Full(p, l) == IF l.typ = "idx" THEN FullIdx(p.sz, l) ELSE FullCrd(p.crd, l)
\* A maximum beyond the last element is no fault: an element beyond it is.
WantedOne(p, l) ==
  LET s == Full(p, l)
      e == IF s = <<>> THEN s ELSE EverySrd(s, l.srd)
  IN  IF \A k \in DOMAIN e : e[k] < p.sz THEN e ELSE <<>>

\* One limit in its own order, several as one sorted set or, with
\* --msa_usr_rdr, one after the other.
Wanted(p) ==
  LET each == [i \in DOMAIN p.lmt |-> WantedOne(p, p.lmt[i])]
  IN  IF Len(each) = 1 \/ p.usr THEN FlattenSeq(each)
      ELSE Ascending(UNION {Range(each[i]) : i \in DOMAIN each})

\* Requests whose promise the code keeps: section 5 of the README sets apart, on
\* a decreasing coordinate, a wrapped range and one that lies between two
\* neighbours; a minimum above the highest value, or a maximum below the lowest,
\* with the other end blank; and with --msa_usr_rdr a range that wraps before
\* another limit.
OddLimit(p, l) ==
  /\ l.typ = "crd"
  /\ \/ /\ ~Increasing(p.crd)
        /\ l.min # <<>> /\ l.max # <<>>
        /\ l.min[1] > l.max[1] \/ WantedOne(p, l) = <<>>
     \/ (l.min = <<>>) # (l.max = <<>>) /\ WantedOne(p, l) = <<>>
Around(p, l) == LET s == Full(p, l) IN \E i, j \in DOMAIN s : i < j /\ s[i] > s[j]
Monotonic(crd) ==
  \/ \A i, j \in DOMAIN crd : i < j => crd[i] < crd[j]
  \/ \A i, j \in DOMAIN crd : i < j => crd[i] > crd[j]
Kept(p) ==
  /\ Monotonic(p.crd)
  /\ \A i \in DOMAIN p.lmt : ~OddLimit(p, p.lmt[i])
  /\ p.usr /\ p.crd # <<>> => \A i \in 1..(Len(p.lmt) - 1) : ~Around(p, p.lmt[i])

-----------------------------------------------------------------------------
(* Properties *)

\* The elements in memory are the elements asked for, in the promised order,
\* whatever splitting, sorting, merging and normalising happened in between.
DeliversWanted == phase = "done" => Delivered = Wanted(prb)

\* A request is refused only if it has a limit without elements.
RefusesOnlyEmpty ==
  phase = "exit" => \E i \in DOMAIN prb.lmt : WantedOne(prb, prb.lmt[i]) = <<>>

\* Memory is sized with dmn_cnt, counted by one merge, and filled by another:
\* never more elements than that arrive, and at the end exactly as many.
CountMatches ==
  /\ Len(Delivered) <= dmn_cnt
  /\ phase = "done" => Len(Delivered) = dmn_cnt

\* ncks prints with each element its index on disk, which it computes by a
\* third merge: it is the index of the element at that place in memory, unless
\* slabs stay in the order given, or the first half of a wrapped slab has one
\* element, which leaves the stride of that half at 1 (section 5 of the README).
LoneFirst == WRP /\ lmt_dmn[1].cnt = 1 /\ lmt_dmn[1].srt + 1 < dmn_sz_org
PrintsDisk ==
  ~MSA_USR_RDR /\ ~LoneFirst => printed = SubSeq(Delivered, 1, Len(printed))
\* The comment on nco_msa_ram_2_dsk() makes no exception.
AlwaysPrintsDisk == printed = SubSeq(Delivered, 1, Len(printed))
=============================================================================
