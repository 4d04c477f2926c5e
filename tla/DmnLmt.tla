------------------------------- MODULE DmnLmt -------------------------------
(* nco_lmt_evl_dmn_crd(): one -d option becomes one hyperslab, for every      *)
(* dimension but the record dimension of ncra and ncrcat (NcoLmt has that).   *)
(*                                                                            *)
(* A limit is [typ, min, max, srd, fort]: typ is "idx" or "crd" (the string   *)
(* has a decimal point), min and max are <<>> when left blank, fort is the -F *)
(* switch.  A coordinate is the sequence of its values, strictly monotonic.   *)
(* The hyperslab has the members of lmt_sct that multi-slabs use; cnt = 0     *)
(* stands for the exit "brackets no coordinate values" and for every other    *)
(* refusal of the limit.                                                      *)
EXTENDS Integers, FiniteSets, SequencesExt, FiniteSetsExt

Refused == [srt |-> 0, end |-> -1, cnt |-> 0, srd |-> 1]

MinOr(S, other) == IF S = {} THEN other ELSE Min(S)
MaxOr(S, other) == IF S = {} THEN other ELSE Max(S)

(* Number of elements, then the kludge that turns a wrapped slab whose second *)
(* half is empty into one that is not wrapped.                                *)
SlabOf(sz, srt, end, srd) ==
    LET wrp == srt > end
        cnt == IF ~wrp THEN 1 + (end - srt) \div srd
               ELSE IF srd = 1 THEN sz - srt + end + 1
               ELSE 1 + ((sz - srt) + end) \div srd
        cnt_1 == 1 + (sz - srt - 1) \div srd
        lst == srt + srd * (cnt_1 - 1)
        dgn == srd # 1 /\ wrp /\ cnt = cnt_1 /\ (lst + srd) % sz > end
    IN [srt |-> srt, end |-> IF dgn THEN lst ELSE end, cnt |-> cnt, srd |-> srd]

(* Indices count from zero, or from one with -F; negative ones from the end.  *)
IdxOf(sz, fort, given, blank) ==
    LET i == IF given = <<>> THEN (IF fort THEN blank + 1 ELSE blank) ELSE given[1]
        j == IF fort /\ i > 0 THEN i - 1 ELSE i
    IN IF j < 0 THEN j + sz ELSE j

(* (EvlIdxOff: a faulty variant that refuses the last element.)               *)
EvlIdxOff(sz, lmt) ==
    IF IdxOf(sz, lmt.fort, lmt.min, 0) >= sz - 1 THEN Refused
    ELSE SlabOf(sz, IdxOf(sz, lmt.fort, lmt.min, 0),
                IdxOf(sz, lmt.fort, lmt.max, sz - 1), lmt.srd)
EvlIdx(sz, lmt) ==
    LET min_idx == IdxOf(sz, lmt.fort, lmt.min, 0)
        max_idx == IdxOf(sz, lmt.fort, lmt.max, sz - 1)
    IN IF \/ lmt.fort /\ (lmt.min = <<0>> \/ lmt.max = <<0>>)
          \/ min_idx < 0 \/ max_idx < 0 \/ min_idx >= sz
       THEN Refused
       ELSE SlabOf(sz, min_idx, max_idx, lmt.srd)

(* The first index with the smallest distance from the value.                 *)
Nearest(crd, val) ==
    LET dst(i) == IF crd[i + 1] < val THEN val - crd[i + 1] ELSE crd[i + 1] - val
        idx == 0 .. Len(crd) - 1
    IN Min({i \in idx : \A j \in idx : dst(i) <= dst(j)})

Increasing(crd) == Len(crd) = 1 \/ crd[1] <= crd[2]

EvlCrd(crd, lmt) ==
    LET sz == Len(crd)
        idx == 0 .. sz - 1
        inc == Increasing(crd)
        lo_idx == IF inc THEN 0 ELSE sz - 1    \* where the smallest value is
        hi_idx == sz - 1 - lo_idx
        min_val == IF lmt.min = <<>> THEN crd[lo_idx + 1] ELSE lmt.min[1]
        max_val == IF lmt.max = <<>> THEN crd[hi_idx + 1] ELSE lmt.max[1]
        out_min == min_val > crd[hi_idx + 1]
        out_max == max_val < crd[lo_idx + 1]
        above == {i \in idx : crd[i + 1] >= min_val}
        below == {i \in idx : crd[i + 1] <= max_val}
        brk_min == IF lmt.min = <<>> THEN lo_idx
                   ELSE IF inc THEN MinOr(above, -1) ELSE MaxOr(above, -1)
        brk_max == IF lmt.max = <<>> THEN hi_idx
                   ELSE IF inc THEN MaxOr(below, -1) ELSE MinOr(below, -1)
        found == brk_min # -1 /\ brk_max # -1
        no_data == found /\ IF inc THEN min_val < max_val /\ brk_min > brk_max
                                   ELSE min_val > max_val /\ brk_min < brk_max
        wrapped == min_val > max_val
        min_idx == IF min_val = max_val THEN Nearest(crd, min_val)
                   ELSE IF brk_min = -1 /\ wrapped THEN 0 ELSE brk_min
        max_idx == IF min_val = max_val THEN min_idx
                   ELSE IF brk_max = -1 /\ wrapped THEN sz - 1 ELSE brk_max
    IN IF \/ min_val < max_val /\ (out_min \/ out_max)
          \/ wrapped /\ out_min /\ out_max
          \/ min_val # max_val /\ no_data
       THEN Refused
       ELSE IF inc THEN SlabOf(sz, min_idx, max_idx, lmt.srd)
                   ELSE SlabOf(sz, max_idx, min_idx, lmt.srd)

EvlDmnCrd(sz, crd, lmt) ==
    IF lmt.typ = "idx" THEN EvlIdx(sz, lmt) ELSE EvlCrd(crd, lmt)
=============================================================================
