---------------------------- MODULE NcraRecords ----------------------------
(***************************************************************************)
(* The record machine of ncra and ncrcat: main() of src/nco/ncra.c from    *)
(* the loop over input files to the closing of the output file.            *)
(*                                                                         *)
(* Input files are read one at a time; within a file every record          *)
(* dimension in turn has its limit evaluated and its wanted records        *)
(* retrieved one by one.  ncrcat writes each record as it is read.  ncra   *)
(* adds it to an accumulator that is normalised and written at the end of  *)
(* a group (multi-record output), at the last desired record of the last   *)
(* file, or, when FLG_BFR_NRM is still set, after the file loop.           *)
(*                                                                         *)
(* A value is the sequence of what went into it: absolute record indices   *)
(* (counted from the first record of the first file), and NRM for each     *)
(* normalisation, so <<3, 4, 5, NRM>> is the mean of records 3, 4 and 5.   *)
(***************************************************************************)
EXTENDS NcoLmt, Sequences

CONSTANTS
  NbrRec,    \* nbr_rec: number of record dimensions
  VarPrc,    \* var_prc: sequence of [dmn, grp, nm], the processed variables
  Requests   \* the command lines considered, see RequestType

Dmn == 1..NbrRec
Var == DOMAIN VarPrc
VarsOf(d) == {v \in Var : VarPrc[v].dmn = d}

NRM  == -1   \* one normalisation of the accumulated value
FILL == <<>> \* a record of an output variable that was never written
OLD  == <<-2>> \* a record that was in the output file before (--rec_apn)
NoGrp == "NULL"

\* A request: program, flags, the records already in the output file with
\* --rec_apn (0: a new output file), the sizes of the record dimensions in
\* every input file, and the hyperslab argument of every record dimension.
RequestType ==
  [prg : {"ncra", "ncrcat"}, mro : BOOLEAN, apn : Nat,
   fl : Seq([Dmn -> Nat]),
   arg : [Dmn -> ArgType]]

ASSUME NbrRecAssumption == NbrRec \in Nat \ {0}
ASSUME VarPrcAssumption ==
  /\ VarPrc \in Seq([dmn : Dmn, grp : STRING, nm : STRING])
  /\ \A d \in Dmn : VarsOf(d) # {}
ASSUME RequestsAssumption ==
  /\ Requests \subseteq RequestType
  /\ \A r \in Requests : Len(r.fl) > 0

VARIABLES
  rqs,              \* the request; never changes
  pc,               \* where main() is
  fl_idx,           \* input file, 1 .. Len(rqs.fl)
  idx_rec,          \* record dimension
  lmt,              \* lmt_rec[idx_rec]
  rec_in_cml,       \* records in all files finished so far
  rec_usd_cml,      \* records used so far
  idx_rec_out,      \* next record index in the output file
  REC_LST_DSR,      \* last desired record has been reached
  flg_input_complete, \* all records of the dimension were found
  rec_rmn_prv_ssc,  \* records remaining in the current sub-cycle
  rec_rmn_prv_ilv,  \* records remaining in the current interleaved index
  idx_rec_crr_in,   \* index of the current record in the current file
  FLG_MRO,          \* multi-record output
  FLG_BFR_NRM,      \* buffers need normalisation
  grp_out_fll,      \* group of the last variable processed, or NoGrp
  bfr,              \* var_prc_out[idx]->val
  srt_out,          \* var_prc_out[idx]->srt[0]
  out,              \* the output file: records of each output variable
  idx,              \* variable index of the trailing write loop
  usd               \* history: absolute indices of the records used

cnt_vars == <<rec_in_cml, rec_usd_cml, idx_rec_out, REC_LST_DSR, usd>>
rec_vars == <<rec_rmn_prv_ssc, rec_rmn_prv_ilv, idx_rec_crr_in>>
bfr_vars == <<FLG_BFR_NRM, grp_out_fll, bfr, srt_out, out>>
vars == <<rqs, pc, fl_idx, idx_rec, lmt, flg_input_complete, FLG_MRO, idx,
          cnt_vars, rec_vars, bfr_vars>>

\* Types of all variables.
Step == {"evl", "rec", "eod", "eof", "nrm", "put", "done", "exit"}
TypeOK ==
  /\ rqs \in RequestType /\ Len(rqs.fl) > 0 /\ pc \in Step
  /\ fl_idx \in 1..Len(rqs.fl) /\ idx_rec \in Dmn
  /\ lmt \in [Dmn -> LmtType]
  /\ rec_in_cml \in [Dmn -> Nat] /\ rec_usd_cml \in [Dmn -> Nat]
  /\ idx_rec_out \in [Dmn -> Nat]
  /\ REC_LST_DSR \in [Dmn -> BOOLEAN] /\ flg_input_complete \in [Dmn -> BOOLEAN]
  /\ rec_rmn_prv_ssc \in Nat /\ rec_rmn_prv_ilv \in Int /\ idx_rec_crr_in \in Int
  /\ FLG_MRO \in BOOLEAN /\ FLG_BFR_NRM \in BOOLEAN
  /\ grp_out_fll \in {VarPrc[v].grp : v \in Var} \union {NoGrp}
  /\ bfr \in [Var -> Seq(Int)] /\ srt_out \in [Var -> Nat]
  /\ out \in [Var -> Seq(Seq(Int))]
  /\ idx \in Nat
  /\ usd \in [Dmn -> Seq(Int)]

-----------------------------------------------------------------------------
Arg == rqs.arg[idx_rec]
FlNbr == Len(rqs.fl)
DmnSz == rqs.fl[fl_idx][idx_rec]          \* rec_dmn_sz
FLG_ILV == FlgIlv(Arg)
IlvPerSsc == Ssc(Arg) \div Ilv(Arg)

\* The variable of a dimension that is processed last.
LastVar(d) == {v \in VarsOf(d) : \A w \in VarsOf(d) : w <= v}
MinOf(a, b) == IF a < b THEN a ELSE b

\* Write x at record i (from 0) of a variable along an unlimited dimension.
PutRec(s, i, x) ==
  [k \in 1..(IF i < Len(s) THEN Len(s) ELSE i + 1) |->
     IF k = i + 1 THEN x ELSE IF k <= Len(s) THEN s[k] ELSE FILL]

-----------------------------------------------------------------------------
Init ==
  /\ rqs \in Requests
  /\ pc = "evl" /\ fl_idx = 1 /\ idx_rec = 1
  /\ lmt = [d \in Dmn |-> LmtInit]
  /\ rec_in_cml = [d \in Dmn |-> 0]
  /\ rec_usd_cml = [d \in Dmn |-> 0]
  /\ idx_rec_out = [d \in Dmn |-> 0]
  /\ REC_LST_DSR = [d \in Dmn |-> FALSE]
  /\ flg_input_complete = [d \in Dmn |-> FALSE]
  /\ rec_rmn_prv_ssc = 0 /\ rec_rmn_prv_ilv = 0 /\ idx_rec_crr_in = 0
  /\ FLG_MRO = rqs.mro
  /\ FLG_BFR_NRM = FALSE /\ grp_out_fll = NoGrp
  /\ bfr = [v \in Var |-> <<>>]
  /\ srt_out = [v \in Var |-> 0]
  /\ out = [v \in Var |-> [k \in 1..rqs.apn |-> OLD]]
  /\ idx = 1
  /\ usd = [d \in Dmn |-> <<>>]

\* nco_exit(EXIT_FAILURE)
Exit == pc' = "exit"

\* Evaluate the limit of this record dimension in this file, and resume a
\* sub-cycle that the previous file left incomplete.
EvlError == pc = "evl" /\ SyntaxError(Arg, DmnSz) /\ Exit
            /\ UNCHANGED <<rqs, fl_idx, idx_rec, lmt, flg_input_complete,
                           FLG_MRO, idx, cnt_vars, rec_vars, bfr_vars>>

Evl ==
  /\ pc = "evl" /\ ~SyntaxError(Arg, DmnSz)
  /\ LET l == LmtEvl(lmt[idx_rec], Arg, DmnSz, rec_usd_cml[idx_rec])
     IN  /\ lmt' = [lmt EXCEPT ![idx_rec] = l]
         /\ rec_rmn_prv_ssc' = l.rec_rmn_prv_ssc
         /\ idx_rec_crr_in' = IF l.rec_rmn_prv_ssc > 0 THEN 0 ELSE l.srt
  /\ FLG_MRO' = (FLG_MRO \/ FLG_ILV)
  \* REC_APN: append after the records now in the output file
  /\ \E v \in LastVar(idx_rec) :
       idx_rec_out' = IF rqs.apn = 0 THEN idx_rec_out
                      ELSE [idx_rec_out EXCEPT ![idx_rec] = Len(out[v])]
  \* Sub-cycles may not cross file boundaries in interleave mode
  /\ pc' = IF FLG_ILV /\ Ilv(rqs.arg[1]) > 1 /\ rec_rmn_prv_ilv > 0
           THEN "exit" ELSE "rec"
  /\ UNCHANGED <<rqs, fl_idx, idx_rec, flg_input_complete, idx,
                 rec_rmn_prv_ilv, rec_in_cml, rec_usd_cml, REC_LST_DSR, usd,
                 bfr_vars>>

-----------------------------------------------------------------------------
(* One iteration of the master while loop over the records of a file.      *)

RecWanted == idx_rec_crr_in >= 0 /\ idx_rec_crr_in < DmnSz

\* Counters after the resets at the top of the loop.
RmnIlv == IF FLG_ILV /\ rec_rmn_prv_ilv = 0 THEN IlvPerSsc ELSE rec_rmn_prv_ilv
RmnSscKept == rec_rmn_prv_ssc \* a faulty variant without the reset
RmnSsc == IF rec_rmn_prv_ssc = 0 THEN Ssc(Arg) ELSE rec_rmn_prv_ssc

REC_FRS_GRP == IF FLG_ILV THEN rec_rmn_prv_ilv = 0 ELSE rec_rmn_prv_ssc = 0
REC_LST_GRP == IF FLG_ILV THEN RmnIlv = 1 ELSE RmnSsc = 1
REC_SRD_LST == idx_rec_crr_in >= lmt[idx_rec].end
LstDsr ==
  \/ REC_LST_DSR[idx_rec]
  \/ /\ fl_idx = FlNbr
     /\ idx_rec_crr_in = MinOf(lmt[idx_rec].end + Ssc(Arg) - 1, DmnSz - 1)

\* flg_rth_ntl: start a new accumulation.
RthNtl == rec_usd_cml[idx_rec] = 0 \/ (FLG_MRO /\ REC_FRS_GRP)
\* Normalise and write the accumulators of this dimension.
NrmWrt == rqs.prg = "ncra" /\ ((FLG_MRO /\ REC_LST_GRP) \/ LstDsr)

\* Retrieve the record for all variables of this dimension and use it.
ProcessVars ==
  LET rec == rec_in_cml[idx_rec] + idx_rec_crr_in
      acc(v) == IF RthNtl THEN <<rec>> ELSE Append(bfr[v], rec)
      now == VarsOf(idx_rec)
  IN  /\ srt_out' = [v \in Var |->
           IF v \in now THEN idx_rec_out[idx_rec] ELSE srt_out[v]]
      /\ bfr' = [v \in Var |->
           IF v \notin now \/ rqs.prg = "ncrcat" THEN bfr[v]
           ELSE IF NrmWrt THEN Append(acc(v), NRM) ELSE acc(v)]
      /\ out' = [v \in Var |->
           IF v \in now /\ rqs.prg = "ncrcat"
           THEN PutRec(out[v], idx_rec_out[idx_rec], <<rec>>)
           ELSE IF v \in now /\ NrmWrt
           THEN PutRec(out[v], idx_rec_out[idx_rec], bfr'[v]) ELSE out[v]]
      /\ FLG_BFR_NRM' = (rqs.prg = "ncra" /\ ~NrmWrt)
      /\ \E v \in LastVar(idx_rec) :
           grp_out_fll' = IF NrmWrt THEN NoGrp ELSE VarPrc[v].grp
      /\ usd' = [usd EXCEPT ![idx_rec] = Append(@, rec)]

\* Index of the next record of this file, or "break".
NextIlv ==
  idx_rec_crr_in + (IF RmnIlv - 1 > 0 THEN Ilv(Arg)
                    ELSE 1 - (IlvPerSsc - 1) * Ilv(Arg))
EndMaxCrr ==
  MinOf(lmt[idx_rec].idx_end_max_abs - rec_in_cml[idx_rec],
        MinOf(lmt[idx_rec].end + Ssc(Arg) - 1, DmnSz - 1))
Break ==
  /\ REC_SRD_LST
  /\ \/ RmnSsc - 1 = 0
     \/ ~FLG_ILV /\ idx_rec_crr_in >= EndMaxCrr
NextIdx ==
  IF RmnSsc - 1 > 0 THEN IF FLG_ILV THEN NextIlv ELSE idx_rec_crr_in + 1
  ELSE idx_rec_crr_in + Srd(Arg) - Ssc(Arg) + 1

\* Index of the next record in the output file.  (NextOutOnce: a faulty
\* variant that forgets the increment for ncrcat.)
NextOutOnce == IF NrmWrt THEN [idx_rec_out EXCEPT ![idx_rec] = @ + 1]
               ELSE idx_rec_out
NextOut == IF NrmWrt \/ rqs.prg = "ncrcat"
           THEN [idx_rec_out EXCEPT ![idx_rec] = @ + 1] ELSE idx_rec_out

Record ==
  /\ pc = "rec" /\ RecWanted
  /\ ProcessVars
  /\ REC_LST_DSR' = [REC_LST_DSR EXCEPT ![idx_rec] = LstDsr]
  /\ idx_rec_out' = NextOut
  /\ rec_usd_cml' = [rec_usd_cml EXCEPT ![idx_rec] = @ + 1]
  /\ rec_rmn_prv_ssc' = RmnSsc - 1
  /\ rec_rmn_prv_ilv' = IF FLG_ILV THEN RmnIlv - 1 ELSE rec_rmn_prv_ilv
  /\ IF Break THEN pc' = "eod" /\ UNCHANGED idx_rec_crr_in
     ELSE idx_rec_crr_in' = NextIdx /\ UNCHANGED pc
  /\ UNCHANGED <<rqs, fl_idx, idx_rec, lmt, flg_input_complete, FLG_MRO,
                 rec_in_cml, idx>>

\* The record loop is over: account for the file; in the last file, die if
\* the dimension yielded no record at all.
EndDmn ==
  /\ pc = "eod" \/ (pc = "rec" /\ ~RecWanted)
  /\ rec_in_cml' = [rec_in_cml EXCEPT ![idx_rec] = @ + DmnSz]
  /\ lmt' = [lmt EXCEPT ![idx_rec].rec_rmn_prv_ssc = rec_rmn_prv_ssc]
  /\ IF fl_idx = FlNbr /\ rec_usd_cml[idx_rec] = 0
     THEN Exit /\ UNCHANGED idx_rec
     ELSE IF idx_rec < NbrRec
     THEN pc' = "evl" /\ idx_rec' = idx_rec + 1
     ELSE pc' = "eof" /\ UNCHANGED idx_rec
  /\ UNCHANGED <<rqs, fl_idx, flg_input_complete, FLG_MRO, idx, rec_usd_cml,
                 idx_rec_out, REC_LST_DSR, usd, rec_vars, bfr_vars>>

\* Are all our data tanks already full?  (SomeComplete: a faulty variant
\* that is content with one dimension.)
SomeComplete(flg) == \E d \in Dmn : flg[d]
AllComplete(flg) == \A d \in Dmn : flg[d]

\* Close the input file; stop opening files once all dimensions are complete.
CloseFile ==
  /\ pc = "eof"
  /\ flg_input_complete' =
       [d \in Dmn |-> flg_input_complete[d] \/ lmt[d].flg_input_complete]
  /\ IF fl_idx = FlNbr \/ AllComplete(flg_input_complete')
     THEN pc' = "nrm" /\ UNCHANGED <<fl_idx, idx_rec>>
     ELSE pc' = "evl" /\ fl_idx' = fl_idx + 1 /\ idx_rec' = 1
  /\ UNCHANGED <<rqs, lmt, FLG_MRO, idx, cnt_vars, rec_vars, bfr_vars>>

-----------------------------------------------------------------------------
(* After the file loop.                                                    *)

\* Normalise all accumulators if some still need it.
Normalise ==
  /\ pc = "nrm"
  /\ bfr' = IF FLG_BFR_NRM THEN [v \in Var |-> Append(bfr[v], NRM)] ELSE bfr
  /\ pc' = IF FLG_BFR_NRM THEN "put" ELSE "done"
  /\ UNCHANGED <<rqs, fl_idx, idx_rec, lmt, flg_input_complete, FLG_MRO, idx,
                 cnt_vars, rec_vars, FLG_BFR_NRM, grp_out_fll, srt_out, out>>

\* The output variable named like variable v in the group that
\* grp_out_fll still names.
OutVar(v) == {w \in Var : /\ VarPrc[w].grp = grp_out_fll
                          /\ VarPrc[w].nm = VarPrc[v].nm}

\* A faulty variant of PutVar, below: the loop index is not incremented.
PutVarStuck ==
  /\ pc = "put" /\ idx \in Var
  /\ IF OutVar(idx) = {} THEN Exit /\ UNCHANGED out
     ELSE /\ out' = [v \in Var |->
                IF v \in OutVar(idx) THEN PutRec(out[v], srt_out[idx], bfr[idx])
                ELSE out[v]]
          /\ UNCHANGED pc
  /\ UNCHANGED <<rqs, fl_idx, idx_rec, lmt, flg_input_complete, FLG_MRO, idx,
                 cnt_vars, rec_vars, FLG_BFR_NRM, grp_out_fll, bfr, srt_out>>

\* Write the next variable; nco_inq_varid() exits if there is none.
PutVar ==
  /\ pc = "put" /\ idx \in Var
  /\ IF OutVar(idx) = {} THEN Exit /\ UNCHANGED <<out, idx>>
     ELSE /\ out' = [v \in Var |->
                IF v \in OutVar(idx) THEN PutRec(out[v], srt_out[idx], bfr[idx])
                ELSE out[v]]
          /\ idx' = idx + 1 /\ UNCHANGED pc
  /\ UNCHANGED <<rqs, fl_idx, idx_rec, lmt, flg_input_complete, FLG_MRO,
                 cnt_vars, rec_vars, FLG_BFR_NRM, grp_out_fll, bfr, srt_out>>

\* nco_fl_out_cls()
CloseOutput ==
  /\ pc = "put" /\ idx \notin Var /\ pc' = "done"
  /\ UNCHANGED <<rqs, fl_idx, idx_rec, lmt, flg_input_complete, FLG_MRO, idx,
                 cnt_vars, rec_vars, bfr_vars>>

Terminated == pc \in {"done", "exit"} /\ UNCHANGED vars

Next ==
  \/ EvlError \/ Evl \/ Record \/ EndDmn \/ CloseFile
  \/ Normalise \/ PutVar \/ CloseOutput \/ Terminated

Spec == Init /\ [][Next]_vars

\* Every step is one of main()'s own thread, which goes on until it exits.
FairSpec == Spec /\ WF_vars(Next)

-----------------------------------------------------------------------------
\* A record once written to the output file is never written again: output
\* indices only move on, also with --rec_apn and after the file loop.
Kept ==
  \A v \in Var : \A k \in DOMAIN out[v] : k \in DOMAIN out'[v] /\ out'[v][k] = out[v][k]
OutputNeverRewritten == [][Kept]_vars

(* Why it holds: the inductive invariant of NcraStrideProofs.              *)

\* Before the trailing writes, the variables of a dimension have the same
\* number of records, and the next is written behind them.
OutInv ==
  pc \notin {"put", "done", "exit"} =>
    \A v \in Var :
      /\ \A w \in VarsOf(VarPrc[v].dmn) : Len(out[w]) = Len(out[v])
      /\ rqs.apn = 0 \/ (pc = "rec" /\ VarPrc[v].dmn = idx_rec)
           => idx_rec_out[VarPrc[v].dmn] = Len(out[v])

\* With one record dimension and no two variables of one name, a trailing
\* write is that of the last group, behind the records of its own variable.
OneDimension == NbrRec = 1 /\ \A v, w \in Var : VarPrc[v].nm = VarPrc[w].nm => v = w
TrailInv ==
  /\ pc = "put" => FLG_BFR_NRM
  /\ FLG_BFR_NRM => rqs.prg = "ncra"
  /\ OneDimension /\ FLG_BFR_NRM =>
       /\ pc \notin {"put", "done", "exit"} => \A v \in Var : srt_out[v] = Len(out[v])
       /\ pc = "put" => \A v \in Var : v >= idx => srt_out[v] = Len(out[v])
=============================================================================
