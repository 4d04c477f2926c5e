----------------------------- MODULE NcraStride -----------------------------
(***************************************************************************)
(* What nco_lmt_evl() and the record loop achieve together when sub-cycles *)
(* are single records (-d dmn,min,max,srd): the stride is kept across all  *)
(* input files, whatever their number and sizes.  StrideInv is the         *)
(* inductive invariant behind it.  SelectInv goes on to what is written,   *)
(* and makes the record machine an implementation of RecordSelection.      *)
(***************************************************************************)
EXTENDS NcraRecords

\* Limits with a stride only, counted from the start of the records.
UnitStride(arg) ==
  /\ Ssc(arg) = 1 /\ Ilv(arg) = 1
  /\ arg.usr_min => arg.min >= 0
  /\ arg.usr_max => arg.max >= 0

\* Such limits do not depend on the size of a file.
FirstRec(arg) == MinIdx(arg, 0)
LastRec(arg) == MaxIdx(arg, 0)

\* The record wanted next, and whether it lies behind the user's maximum.
NextRec(d) == IF usd[d] = <<>> THEN FirstRec(rqs.arg[d])
              ELSE usd[d][Len(usd[d])] + Srd(rqs.arg[d])
PastLast(d) == rqs.arg[d].usr_max /\ NextRec(d) > LastRec(rqs.arg[d])

\* The records used so far are first, first + srd, first + 2 srd ... and none
\* of them lies behind the maximum.
Strided(d) ==
  /\ usd[d] # <<>> => usd[d][1] = FirstRec(rqs.arg[d])
  /\ \A i \in 1..(Len(usd[d]) - 1) : usd[d][i + 1] = usd[d][i] + Srd(rqs.arg[d])
  /\ \A i \in 1..Len(usd[d]) :
       rqs.arg[d].usr_max => usd[d][i] <= LastRec(rqs.arg[d])

\* No record is skipped at a file boundary, used twice, or lost at the end:
\* the stride continues over files without a wanted record, and the file loop
\* ends only when the next record is behind the maximum or behind the last
\* record of the last file (SrtCrr and rec_skp_vld_prv of nco_lmt_evl(), the
\* record loop and the input-complete test of main()).
StrideKept ==
  \A d \in Dmn : UnitStride(rqs.arg[d]) =>
    /\ Strided(d)
    /\ pc \in {"nrm", "put", "done"} =>
         PastLast(d) \/ (fl_idx = FlNbr /\ NextRec(d) >= rec_in_cml[d])

-----------------------------------------------------------------------------
(* The inductive invariant, for one record dimension.                      *)

LastUsed(d) == usd[d][Len(usd[d])]

\* The limit of d is evaluated for this file, the file not yet accounted for.
Current(d) == d = idx_rec /\ pc \in {"rec", "eod"}

\* Nothing wanted lies in the first n records any more, and the records
\* skipped since the last one used are known.
Behind(d, n) ==
  /\ NextRec(d) >= n \/ PastLast(d)
  /\ usd[d] # <<>> => /\ lmt[d].rec_skp_vld_prv = n - 1 - LastUsed(d)
                      /\ LastUsed(d) < n

\* end is the last strided record of this file within the limits.
EndStrided(d) ==
  LET n == rec_in_cml[d]
      a == rqs.arg[d]
  IN  /\ lmt[d].end < DmnSz /\ lmt[d].rec_skp_vld_prv = DmnSz - 1 - lmt[d].end
      /\ a.usr_max => n + lmt[d].end <= LastRec(a)
      /\ \/ lmt[d].end + Srd(a) >= DmnSz
         \/ a.usr_max /\ n + lmt[d].end + Srd(a) > LastRec(a)

\* Before, while and after records of this file are retrieved.
NoData(d) == pc = "rec" /\ idx_rec_crr_in = -1 /\ Behind(d, rec_in_cml[d] + DmnSz)
MoreData(d) ==
  /\ pc = "rec" /\ EndStrided(d)
  /\ idx_rec_crr_in >= 0 /\ NextRec(d) = rec_in_cml[d] + idx_rec_crr_in
  /\ \E k \in 0..DmnSz : lmt[d].end = idx_rec_crr_in + k * Srd(rqs.arg[d])
DataUsed(d) ==
  /\ pc = "eod" /\ EndStrided(d)
  /\ usd[d] # <<>> /\ LastUsed(d) = rec_in_cml[d] + lmt[d].end

DmnInv(d) ==
  /\ Strided(d)
  /\ usd[d] # <<>> => LastUsed(d) >= FirstRec(rqs.arg[d])
  /\ rec_usd_cml[d] = Len(usd[d])
  /\ lmt[d].rec_rmn_prv_ssc = 0
  /\ lmt[d].flg_input_complete \/ flg_input_complete[d] => PastLast(d)
  /\ pc # "exit" =>
       IF Current(d)
       THEN /\ rec_rmn_prv_ssc = 0
            /\ lmt[d].rec_in_cml = rec_in_cml[d] + DmnSz
            /\ NoData(d) \/ MoreData(d) \/ DataUsed(d)
       ELSE /\ lmt[d].rec_in_cml = rec_in_cml[d]
            /\ Behind(d, rec_in_cml[d])

StrideInv ==
  /\ \A d \in Dmn : UnitStride(rqs.arg[d]) => DmnInv(d)
  /\ pc \in {"nrm", "put", "done"} =>
       fl_idx = FlNbr \/ \A d \in Dmn : flg_input_complete[d]

-----------------------------------------------------------------------------
(* The abstract specification, and what the record machine keeps of it.    *)

Selection == INSTANCE RecordSelection WITH
  st <- IF pc = "done" THEN "closed" ELSE IF pc = "exit" THEN "failed" ELSE "open",
  res <- IF pc = "done" THEN out ELSE <<>>

\* The record machine implements the record selection: ncra and ncrcat use
\* exactly the records of the hyperslab, in order, across all file
\* boundaries, and the closed output holds exactly the promised averages
\* (the record loop and nco_lmt_evl() together).
SelectionSpec == Selection!Spec

\* Requests for which StrideInv is enough to show it: a stride only, not from
\* behind the maximum unless there is one file; and when ncra writes one
\* average, after the file loop if need be, one record dimension and group.
OneGroup == \A v, w \in Var : VarPrc[v].grp = VarPrc[w].grp
Strides(r) ==
  /\ \A d \in Dmn :
       /\ UnitStride(r.arg[d])
       /\ Len(r.fl) = 1 \/ (r.arg[d].usr_max => FirstRec(r.arg[d]) <= LastRec(r.arg[d]))
  /\ r.prg = "ncrcat" \/ r.mro \/ (OneDimension /\ OneGroup)

\* Files in which dimension d has been accounted for.
Passed(d) ==
  IF d < idx_rec \/ pc \in {"eof", "nrm", "put", "done"} THEN fl_idx ELSE fl_idx - 1

FilesInv ==
  \A d \in Dmn :
    /\ rec_in_cml[d] = Selection!RecCml(rqs, d)[Passed(d)]
    /\ Passed(d) = FlNbr => usd[d] # <<>>

\* What an output variable starts with, and what is added to it when each
\* record is written at once.
Old == [k \in 1..rqs.apn |-> OLD]
Each(d) ==
  [k \in 1..Len(usd[d]) |->
     IF rqs.prg = "ncrcat" THEN <<usd[d][k]>> ELSE <<usd[d][k], NRM>>]
EachInv ==
  rqs.prg = "ncrcat" \/ rqs.mro =>
    /\ ~FLG_BFR_NRM
    /\ \A v \in Var : out[v] = Old \o Each(VarPrc[v].dmn)

\* One average is accumulated until the last desired record or the end of
\* the files, and written once.
Average == <<Append(usd[1], NRM)>>
OneAverage ==
  /\ REC_LST_DSR[1] => usd[1] # <<>> /\ fl_idx = FlNbr /\ (pc = "eod" \/ Passed(1) = FlNbr)
  /\ FLG_BFR_NRM <=> usd[1] # <<>> /\ ~REC_LST_DSR[1]
  /\ \A v \in Var :
       /\ FLG_BFR_NRM => grp_out_fll = VarPrc[v].grp
       /\ ~REC_LST_DSR[1] =>
            bfr[v] = IF pc \in {"put", "done"} THEN Append(usd[1], NRM) ELSE usd[1]
       /\ out[v] = IF REC_LST_DSR[1] \/ (pc = "put" /\ v < idx) \/ pc = "done"
                   THEN Old \o Average ELSE Old
OneInv == rqs.prg = "ncra" /\ ~rqs.mro => OneAverage

SelectInv ==
  Strides(rqs) /\ pc # "exit" =>
    /\ idx > 0 /\ FLG_MRO = rqs.mro
    /\ pc \notin {"put", "done"} => idx = 1
    /\ FilesInv /\ EachInv /\ OneInv
=============================================================================
