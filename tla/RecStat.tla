------------------------------ MODULE RecStat ------------------------------
(***************************************************************************)
(* The statistics of ncra and nces: how one element of a variable is       *)
(* accumulated over records (ncra) or files (nces), weighted, normalised   *)
(* and written.  src/nco/ncra.c with nco_opr_drv() and nco_opr_nrm() of    *)
(* src/nco/nco_rth_utl.c.                                                  *)
(*                                                                         *)
(* Every record dimension has one variable, so d names both.  All records  *)
(* are wanted; with --mro every ssc consecutive records make one output    *)
(* record.  Which records a hyperslab selects is the subject of            *)
(* NcraRecords; nces uses the first, only, record of each file.            *)
(***************************************************************************)
EXTENDS NcoRth, SequencesExt

CONSTANT StatRequests
  \* command lines with their input:
  \* [prg : {"ncra", "nces"}, op, crd : BOOLEAN, mss, mro : BOOLEAN, ssc,
  \*  wgt : Seq(Nat \ {0}), prw : BOOLEAN, fl : Seq([dimensions -> Seq(Int)])]
  \* op is the -y option, crd says that the variables are coordinates, wgt
  \* are the numbers of -w (<<>> without it) and prw is --prw

VARIABLES
  rs_rqs,   \* the command line
  rs_pc,    \* "run" or "done"
  fl_idx, idx_rec, idx_rec_crr_in, \* file, record dimension and record, from 1
  rec_usd_cml,  \* records used of each record dimension
  acc,      \* accumulator (value, tally, weight sum) of each dimension
  rec_out   \* values written for each dimension

rs_vars ==
  <<rs_rqs, rs_pc, fl_idx, idx_rec, idx_rec_crr_in, rec_usd_cml, acc, rec_out>>

RsDmn(r) == DOMAIN r.fl[1]

RsInit ==
  /\ rs_rqs \in StatRequests
  /\ rs_pc = "run"
  /\ fl_idx = 1 /\ idx_rec = 1 /\ idx_rec_crr_in = 1
  /\ rec_usd_cml = [d \in RsDmn(rs_rqs) |-> 0]
  /\ acc = [d \in RsDmn(rs_rqs) |-> AccZero]
  /\ rec_out = [d \in RsDmn(rs_rqs) |-> <<>>]

-----------------------------------------------------------------------------
(* One operand: nco_opr_drv().  frs is idx_rec == 0, the first record of   *)
(* the output record.                                                      *)

OprDrv(r, frs, op1, a, wgt_crr) ==
  LET abs == VarAbs(op1, r.mss)
      sqr == VarMlt(op1, op1, r.mss)
      add(x) == VarAddTllNcra(x, a, r.mss, wgt_crr)
  IN  CASE r.crd \/ r.op \in {"avg", "sqrt", "sqravg"} -> add(op1)
        [] ~r.crd /\ r.op = "mebs" -> add(abs)
        [] ~r.crd /\ r.op \in {"rms", "rmssdn", "avgsqr"} -> add(sqr)
        [] ~r.crd /\ r.op = "ttl" ->
             IF frs THEN VarCopyTll(op1, a, r.mss) ELSE add(op1)
        [] ~r.crd /\ r.op = "tabs" ->
             IF frs THEN VarCopyTll(abs, a, r.mss) ELSE add(abs)
        [] ~r.crd /\ r.op \in {"min", "max"} ->
             VarCopy(IF frs THEN op1
                     ELSE IF r.op = "min" THEN VarMinBnr(op1, a.val, r.mss)
                     ELSE VarMaxBnr(op1, a.val, r.mss), a)
        [] ~r.crd /\ r.op \in {"mibs", "mabs"} ->
             VarCopy(IF frs THEN abs
                     ELSE IF r.op = "mibs" THEN VarMinBnr(abs, a.val, r.mss)
                     ELSE VarMaxBnr(abs, a.val, r.mss), a)

\* nco_opr_nrm() for one variable.
OprNrm(r, a) ==
  LET nrm == VarNrm(a, r.mss)
      root(b) == [b EXCEPT !.val = VarSqrt(@, r.mss)]
  IN  CASE r.crd \/ r.op \in {"avg", "mebs", "avgsqr"} -> nrm
        [] ~r.crd /\ r.op \in {"rms", "sqrt"} -> root(nrm)
        [] ~r.crd /\ r.op = "rmssdn" -> root(VarNrmSdn(a, r.mss))
        [] ~r.crd /\ r.op = "sqravg" ->
             [nrm EXCEPT !.val = VarMlt(@, @, r.mss)]
        [] ~r.crd /\ r.op \in {"ttl", "tabs"} -> VarTllZroMssVal(a, r.mss)
        [] ~r.crd /\ r.op \in {"min", "max", "mibs", "mabs"} -> a

-----------------------------------------------------------------------------
(* Weights: normalised to a mean of one when they are parsed, one for each *)
(* file or, with --prw, used in turn for the records of a file.            *)

Total(s) == FoldLeft(LAMBDA n, w : n + w, 0, s)
WgtArr(r, i) == <<r.wgt[i] * Len(r.wgt), Total(r.wgt)>>
WgtCrr(r, f, rec) ==
  WgtArr(r, IF r.prw THEN ((rec - 1) % Len(r.wgt)) + 1 ELSE f)

Weighted(r) == r.wgt # <<>> /\ r.op \in {"avg", "mebs"} /\ ~r.crd
\* Space for the sum of weights exists only for variables with missing values.
HasWgtSum(r) == r.wgt # <<>> /\ r.mss # {}

\* The element x of file f and record rec added to a, weighted if need be.
Accumulate(r, frs, x, a, f, rec) ==
  IF Weighted(r)
  THEN OprDrv(r, frs, VarScvMlt(x, WgtCrr(r, f, rec), r.mss), a,
              WgtCrr(r, f, rec))
  ELSE OprDrv(r, frs, x, a, Zero)

\* After nco_opr_nrm() every variable that has a sum of weights is
\* normalised by it, whatever record dimension it belongs to.
NrmWgt(r, a) == IF HasWgtSum(r) THEN VarNrmWgt(a, r.mss) ELSE a

-----------------------------------------------------------------------------
(* ncra: one record.  flg_rth_ntl clears the accumulator on the first      *)
(* record of an output record, and the last one, or the last desired       *)
(* record of the last file, normalises and writes it.                      *)

\* (RthNtlOnce: a faulty variant that clears it only once.)
RthNtlOnce(r, usd) == usd = 0
RthNtl(r, usd) == usd = 0 \/ (r.mro /\ usd % r.ssc = 0)

RecLst(r, f, d, rec, usd) ==
  \/ r.mro /\ (usd + 1) % r.ssc = 0
  \/ f = Len(r.fl) /\ rec = Len(r.fl[f][d])

\* The next record of the file, dimension of the file, or file.
Forward ==
  LET r == rs_rqs
      more_rec == idx_rec_crr_in < Len(r.fl[fl_idx][idx_rec])
      more_dmn == idx_rec + 1 \in RsDmn(r)
  IN  /\ idx_rec_crr_in' = IF more_rec THEN idx_rec_crr_in + 1 ELSE 1
      /\ idx_rec' = IF more_rec THEN idx_rec
                    ELSE IF more_dmn THEN idx_rec + 1 ELSE 1
      /\ fl_idx' = IF more_rec \/ more_dmn THEN fl_idx ELSE fl_idx + 1
      /\ rs_pc' = IF more_rec \/ more_dmn \/ fl_idx < Len(r.fl) THEN "run"
                  ELSE "done"

NcraRecord ==
  LET r == rs_rqs
      d == idx_rec
      usd == rec_usd_cml[d]
      frs == RthNtl(r, usd)
      sum == Accumulate(r, frs, Val(r.fl[fl_idx][d][idx_rec_crr_in]),
                        IF frs THEN AccZero ELSE acc[d], fl_idx, idx_rec_crr_in)
      nrm == [acc EXCEPT ![d] = OprNrm(r, sum)]
  IN  /\ rs_pc = "run" /\ r.prg = "ncra"
      /\ IF RecLst(r, fl_idx, d, idx_rec_crr_in, usd)
         THEN /\ acc' = [e \in RsDmn(r) |-> NrmWgt(r, nrm[e])]
              /\ rec_out' = [rec_out EXCEPT ![d] = Append(@, acc'[d].val)]
         ELSE /\ acc' = [acc EXCEPT ![d] = sum]
              /\ UNCHANGED rec_out
      /\ rec_usd_cml' = [rec_usd_cml EXCEPT ![d] = @ + 1]
      /\ Forward
      /\ UNCHANGED rs_rqs

\* nces: one file; after the last one the variables are normalised and
\* written.
NcesFile ==
  LET r == rs_rqs
      sum == [d \in RsDmn(r) |->
                Accumulate(r, fl_idx = 1, Val(r.fl[fl_idx][d][1]), acc[d],
                           fl_idx, 1)]
      last == fl_idx = Len(r.fl)
  IN  /\ rs_pc = "run" /\ r.prg = "nces"
      /\ acc' = IF last THEN [d \in RsDmn(r) |-> NrmWgt(r, OprNrm(r, sum[d]))]
                ELSE sum
      /\ rec_out' = IF last THEN [d \in RsDmn(r) |-> <<acc'[d].val>>]
                    ELSE rec_out
      /\ fl_idx' = fl_idx + 1
      /\ rs_pc' = IF last THEN "done" ELSE "run"
      /\ UNCHANGED <<rs_rqs, idx_rec, idx_rec_crr_in, rec_usd_cml>>

RsNext == NcraRecord \/ NcesFile

RsSpec == RsInit /\ [][RsNext]_rs_vars
=============================================================================
