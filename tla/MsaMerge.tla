------------------------------ MODULE MsaMerge ------------------------------
(***************************************************************************)
(* The multi-slab algorithm along one dimension, nco_msa.c: counting,      *)
(* reading and printing the elements of a list of slabs.  What the list is *)
(* made of is MsaRead's subject: here Prepare takes any list.              *)
(***************************************************************************)
EXTENDS Integers, FiniteSets, SequencesExt, FiniteSetsExt

VARIABLES
  dmn_sz_org,
  lmt_dmn,  \* the slabs of lmt_msa_sct, numbered from 1
  WRP, MSA_USR_RDR, dmn_cnt,
  phase,    \* "evl", "count", "copy" or "merge", "print", "done"; "exit", "undefined"
  indices,  \* next element of each slab, -1 when it has none left
  crr,      \* the hyperslab nco_msa_clc_idx() is collecting: srt, end, cnt
  prv_slb,  \* its slab
  reads,    \* pieces copied so far: slab, first element and count within it
  printed   \* disk indices printed so far
slabs == <<dmn_sz_org, lmt_dmn, WRP, MSA_USR_RDR>>
prep == <<slabs, dmn_cnt>>
vars == <<prep, phase, indices, crr, prv_slb, reads, printed>>

Slab == [srt : Nat, end : Int, cnt : Nat, srd : Nat \ {0}]
NoSlab == [srt |-> -1, end |-> -1, cnt |-> 0]

-----------------------------------------------------------------------------
(* Preparation and counting, called by nco_bld_lmt() *)

MinIdx(ind) ==
  LET left == {ind[i] : i \in DOMAIN ind} \ {-1}
  IN  IF left = {} THEN -1 ELSE Min(left)
Mnm(ind) == {i \in DOMAIN ind : ind[i] # -1 /\ ind[i] = MinIdx(ind)}
Start(lmt) == [i \in DOMAIN lmt |-> lmt[i].srt]
\* Every slab that has the smallest index goes on.  (AdvanceEarly and
\* AdvanceOne: faulty variants that drop a last element, or move one slab only.)
AdvanceEarly(lmt, ind) ==
  [i \in DOMAIN ind |->
     IF i \notin Mnm(ind) THEN ind[i]
     ELSE IF ind[i] + lmt[i].srd >= lmt[i].end THEN -1 ELSE ind[i] + lmt[i].srd]
AdvanceOne(lmt, ind) ==
  LET i == Min(Mnm(ind))
  IN  [ind EXCEPT ![i] = IF @ + lmt[i].srd > lmt[i].end THEN -1 ELSE @ + lmt[i].srd]
Advance(lmt, ind) ==
  [i \in DOMAIN ind |->
     IF i \notin Mnm(ind) THEN ind[i]
     ELSE IF ind[i] + lmt[i].srd > lmt[i].end THEN -1 ELSE ind[i] + lmt[i].srd]

SumCnt(lmt) ==
  LET sum[i \in 0..Len(lmt)] == IF i = 0 THEN 0 ELSE sum[i - 1] + lmt[i].cnt
  IN  sum[Len(lmt)]

Prepare ==
  /\ phase = "evl"
  /\ lmt_dmn' \in Seq(Slab) /\ lmt_dmn' # <<>>
  /\ WRP' \in BOOLEAN /\ (WRP' => Len(lmt_dmn') = 2)
  /\ MSA_USR_RDR' \in BOOLEAN
  /\ phase' = "count"
  /\ indices' = Start(lmt_dmn')
  /\ UNCHANGED <<dmn_sz_org, dmn_cnt, crr, prv_slb, reads, printed>>

\* nco_exit() on a limit, or an uninitialised slab.
GiveUp ==
  /\ phase = "evl" /\ phase' \in {"exit", "undefined"}
  /\ UNCHANGED <<prep, indices, crr, prv_slb, reads, printed>>

Read == IF Len(lmt_dmn) = 1 \/ WRP \/ MSA_USR_RDR THEN "copy" ELSE "merge"

\* nco_msa_clc_cnt() without a merge: one slab, or slabs in the order given.
CountSum ==
  /\ phase = "count"
  /\ Len(lmt_dmn) = 1 \/ MSA_USR_RDR
  /\ dmn_cnt' = SumCnt(lmt_dmn)
  /\ phase' = Read
  /\ UNCHANGED <<slabs, indices, crr, prv_slb, reads, printed>>

\* One pass of its loop, and the end of it.  (CountTies: a faulty variant that
\* counts an element once for each slab that has it.)
CountTies ==
  /\ phase = "count"
  /\ Len(lmt_dmn) > 1 /\ ~MSA_USR_RDR
  /\ Mnm(indices) # {}
  /\ indices' = Advance(lmt_dmn, indices)
  /\ dmn_cnt' = dmn_cnt + Cardinality(Mnm(indices))
  /\ UNCHANGED <<slabs, phase, crr, prv_slb, reads, printed>>
CountMin ==
  /\ phase = "count"
  /\ Len(lmt_dmn) > 1 /\ ~MSA_USR_RDR
  /\ Mnm(indices) # {}
  /\ indices' = Advance(lmt_dmn, indices)
  /\ dmn_cnt' = dmn_cnt + 1
  /\ UNCHANGED <<slabs, phase, crr, prv_slb, reads, printed>>

CountEnd ==
  /\ phase = "count"
  /\ Len(lmt_dmn) > 1 /\ ~MSA_USR_RDR
  /\ Mnm(indices) = {}
  /\ indices' = Start(lmt_dmn)
  /\ phase' = Read
  /\ UNCHANGED <<slabs, dmn_cnt, crr, prv_slb, reads, printed>>

-----------------------------------------------------------------------------
(* Reading: the levels of nco_msa_rcr_clc() for this dimension.  It passes  *)
(* srt, cnt and srd to netCDF, which refuses a read whose last element is   *)
(* outside the dimension; end, which a stride may step over, plays no part. *)

Past(sz, s) == s.cnt > 0 /\ s.srt + s.srd * (s.cnt - 1) >= sz
Beyond == \E s \in Range(lmt_dmn) : Past(dmn_sz_org, s)

ReadError ==
  /\ phase \in {"copy", "merge"} /\ Beyond
  /\ phase' = "exit"
  /\ UNCHANGED <<prep, indices, crr, prv_slb, reads, printed>>

\* One slab, a wrapped one, or slabs in the order given: one after the other.
Copy ==
  /\ phase = "copy" /\ ~Beyond
  /\ reads' = [i \in DOMAIN lmt_dmn |->
                 [slb |-> i, srt |-> 0, cnt |-> lmt_dmn[i].cnt]]
  /\ phase' = "print"
  /\ indices' = Start(lmt_dmn)
  /\ UNCHANGED <<prep, crr, prv_slb, printed>>

\* The slab the smallest index is taken from: the one in use if it has it.
CrrSlb == IF prv_slb \in Mnm(indices) THEN prv_slb ELSE Min(Mnm(indices))

\* One pass of the loop in nco_msa_clc_idx().
Collect ==
  /\ phase = "merge" /\ ~Beyond
  /\ Mnm(indices) # {}
  /\ crr.srt = -1 \/ CrrSlb = prv_slb
  /\ crr' = [srt |-> IF crr.srt = -1 THEN MinIdx(indices) ELSE crr.srt,
             end |-> MinIdx(indices), cnt |-> crr.cnt + 1]
  /\ prv_slb' = CrrSlb
  /\ indices' = Advance(lmt_dmn, indices)
  /\ UNCHANGED <<prep, phase, reads, printed>>

\* nco_msa_clc_idx() returns a hyperslab, normalised to its slab, and the
\* caller copies it; the next call starts with the first slab as preferred.
Return ==
  /\ phase = "merge" /\ ~Beyond
  /\ crr.srt # -1
  /\ Mnm(indices) # {} => CrrSlb # prv_slb
  /\ LET s == lmt_dmn[prv_slb]
     IN  reads' = Append(reads, [slb |-> prv_slb, cnt |-> crr.cnt,
                                 srt |-> (crr.srt - s.srt) \div s.srd])
  /\ crr' = NoSlab
  /\ prv_slb' = 1
  /\ UNCHANGED <<prep, phase, indices, printed>>

Finish ==
  /\ phase = "merge" /\ ~Beyond
  /\ crr.srt = -1 /\ Mnm(indices) = {}
  /\ phase' = "print"
  /\ indices' = Start(lmt_dmn)
  /\ UNCHANGED <<prep, crr, prv_slb, reads, printed>>

-----------------------------------------------------------------------------
(* Printing: nco_msa_ram_2_dsk() is called for the elements in memory in    *)
(* turn and finds the disk index of each with indices of its own, dmn_indices. *)

\* (PrnMerge: a faulty variant that merges the halves of a wrapped slab.)
PrnMerge ==
  /\ phase = "print" /\ Len(printed) < dmn_cnt
  /\ printed' = Append(printed, MinIdx(indices))
  /\ indices' = Advance(lmt_dmn, indices)
  /\ UNCHANGED <<prep, phase, crr, prv_slb, reads>>
PrnIdx ==
  /\ phase = "print" /\ Len(printed) < dmn_cnt
  /\ IF WRP
     THEN LET i == IF indices[1] < dmn_sz_org THEN 1 ELSE 2
          IN  /\ printed' = Append(printed, indices[i])
              /\ indices' = [indices EXCEPT ![i] = @ + lmt_dmn[i].srd]
     ELSE /\ printed' = Append(printed, MinIdx(indices))
          /\ indices' = Advance(lmt_dmn, indices)
  /\ UNCHANGED <<prep, phase, crr, prv_slb, reads>>

Close ==
  /\ phase = "print" /\ Len(printed) = dmn_cnt
  /\ phase' = "done"
  /\ UNCHANGED <<prep, indices, crr, prv_slb, reads, printed>>

Stop == phase \in {"done", "exit", "undefined"} /\ UNCHANGED vars

Init ==
  /\ dmn_sz_org \in Nat \ {0}
  /\ phase = "evl" /\ lmt_dmn = <<>>
  /\ WRP = FALSE /\ MSA_USR_RDR = FALSE /\ dmn_cnt = 0
  /\ indices = <<>> /\ crr = NoSlab /\ prv_slb = 1
  /\ reads = <<>> /\ printed = <<>>

Work ==
  \/ CountSum \/ CountMin \/ CountEnd
  \/ ReadError \/ Copy \/ Collect \/ Return \/ Finish
  \/ PrnIdx \/ Close \/ Stop
Next == Prepare \/ GiveUp \/ Work
Spec == Init /\ [][Next]_vars

-----------------------------------------------------------------------------
(* Properties *)

\* The types of the state; a wrapped slab has two halves.
MsaTypeOK ==
  /\ dmn_sz_org \in Nat \ {0}
  /\ phase \in {"evl", "count", "copy", "merge", "print", "done", "exit", "undefined"}
  /\ WRP \in BOOLEAN /\ MSA_USR_RDR \in BOOLEAN /\ (WRP => Len(lmt_dmn) = 2)
  /\ lmt_dmn \in Seq(Slab)
  /\ indices \in Seq(Nat \cup {-1}) /\ printed \in Seq(Nat \cup {-1})
  /\ phase \notin {"evl", "exit", "undefined"} =>
       lmt_dmn # <<>> /\ Len(indices) = Len(lmt_dmn)
  /\ reads \in Seq([slb : DOMAIN lmt_dmn, srt : Int, cnt : Nat])
  /\ crr \in [srt : Int, end : Int, cnt : Nat] /\ prv_slb \in Nat

\* The indices a slab selects; merging takes its first one even if it has none.
Picks(s) ==
  {x \in s.srt..s.end : \E k \in 0..(x - s.srt) : x = s.srt + s.srd * k}
    \cup {s.srt}
All == UNION {Picks(lmt_dmn[i]) : i \in DOMAIN lmt_dmn}

\* The elements in the pieces copied so far, and in the one being collected.
Held(s, srt, cnt) == {s.srt + s.srd * (srt + k) : k \in 0..(cnt - 1)}
HeldBy(r) == Held(lmt_dmn[reads[r].slb], reads[r].srt, reads[r].cnt)
CrrHeld == {crr.srt + lmt_dmn[prv_slb].srd * k : k \in 0..(crr.cnt - 1)}
Taken == (UNION {HeldBy(r) : r \in DOMAIN reads}) \cup CrrHeld

Merges == Len(lmt_dmn) > 1 /\ ~WRP /\ ~MSA_USR_RDR

\* Slabs that overlap, touch or end together are merged into exactly the union
\* of their elements: none is lost at a tie, none comes from outside.
MergeDelivers == phase \in {"print", "done"} /\ Merges => Taken = All

\* The elements arrive in ascending order, so none arrives twice.
MergeAscending ==
  Merges => \A q, r \in DOMAIN reads : q < r =>
              \A x \in HeldBy(q), y \in HeldBy(r) : x < y

-----------------------------------------------------------------------------
(* The inductive invariant of a merge *)

Passed(i, x) == indices[i] = -1 \/ x < indices[i]

\* An index of a slab is one of its elements, and what one slab has passed,
\* every slab has: passing is by value.
IndicesInv ==
  \A i \in DOMAIN lmt_dmn :
    /\ indices[i] = -1 \/ indices[i] \in Picks(lmt_dmn[i])
    /\ \A x \in Picks(lmt_dmn[i]) :
         Passed(i, x) => \A j \in DOMAIN lmt_dmn : Passed(j, x)

\* The hyperslab being collected is a run of elements of its slab, which goes on
\* with the next one.
CrrInv ==
  \/ crr = NoSlab /\ prv_slb = 1
  \/ /\ prv_slb \in DOMAIN lmt_dmn /\ crr.cnt >= 1
     /\ crr.srt \in Picks(lmt_dmn[prv_slb])
     /\ LET s == lmt_dmn[prv_slb]
        IN  /\ crr.end = crr.srt + s.srd * (crr.cnt - 1)
            /\ \/ indices[prv_slb] = crr.end + s.srd
               \/ indices[prv_slb] = -1 /\ crr.end + s.srd > s.end

TakenInv ==
  /\ Taken = {x \in All : \A i \in DOMAIN lmt_dmn : Passed(i, x)}
  /\ MergeAscending
  /\ \A r \in DOMAIN reads : \A x \in HeldBy(r), y \in CrrHeld : x < y

MergeInv ==
  /\ phase \in {"evl", "count", "copy"} => reads = <<>> /\ crr = NoSlab /\ prv_slb = 1
  /\ phase = "copy" => ~Merges
  /\ phase = "merge" => Merges /\ IndicesInv /\ CrrInv /\ TakenInv
  /\ phase \notin {"evl", "count", "copy", "merge"} => MergeAscending
  /\ MergeDelivers
=============================================================================
