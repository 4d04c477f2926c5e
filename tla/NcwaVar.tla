------------------------------ MODULE NcwaVar ------------------------------
(***************************************************************************)
(* One variable in the loop of ncwa (src/nco/ncwa.c): masked, transformed, *)
(* weighted, reduced over the dimensions of -a, normalised and finished,   *)
(* each step an action.                                                    *)
(***************************************************************************)
EXTENDS VarDmn

CONSTANT WaRequests
  \* command lines with the variable they meet:
  \* [op, crd, nrm, wmc : BOOLEAN, avg : SUBSET dimensions, var : variable,
  \*  wgt : {} or {variable}, msk : {} or {[var, rlt, val]}]
  \* op is the -y option, crd says that var is a coordinate, nrm that -N was
  \* not given, wmc that -I was not given (weight and mask coordinates), wgt
  \* is the weight of -w and msk the mask, relation and number of -m -T -M

VARIABLES
  wa_rqs,      \* the command line
  wa_pc,       \* the next step
  wa_var,      \* var_prc: the input, changed in place
  wa_out,      \* var_prc_out: the reduced variable, with its tally
  wgt_out      \* weight stretched to the variable (<<>>: none that conforms)

wa_vars == <<wa_rqs, wa_pc, wa_var, wa_out, wgt_out>>

WaInit ==
  /\ wa_rqs \in WaRequests
  /\ wa_pc = "mask"
  /\ wa_var = wa_rqs.var
  /\ wa_out = <<>>
  /\ wgt_out = <<>>

\* is_crd_var: coordinates get no operation but the mean, and weights and
\* masks only without -I.
UseWgtMsk == ~wa_rqs.crd \/ wa_rqs.wmc
Op == IF wa_rqs.crd THEN "avg" ELSE wa_rqs.op

\* nco_mss_val_mk(): the fill value of the type, for variables without one.
FillVal == Val(77)
MssMk(mss) == IF mss = {} THEN {FillVal} ELSE mss

\* The masks that conform to the variable, stretched to it.
MskOut == {[m EXCEPT !.var = CnfDmn(wa_rqs.var, @)] :
             m \in {k \in wa_rqs.msk : UseWgtMsk /\ Conforms(wa_rqs.var, k.var)}}

\* op3 missing wherever the condition on the mask is false.
Msk(var, m) ==
  [var EXCEPT !.val = [lmn \in DOMAIN @ |->
     VarMsk(m.val, m.rlt, m.var.val[lmn], @[lmn], var.mss)]]

Each1(var, f(_, _)) ==
  [var EXCEPT !.val = [lmn \in DOMAIN @ |-> f(@[lmn], var.mss)]]

-----------------------------------------------------------------------------
ApplyMask ==
  /\ wa_pc = "mask"
  /\ wa_pc' = "transform"
  /\ wa_var' = IF MskOut = {} THEN wa_var
               ELSE Msk([wa_var EXCEPT !.mss = MssMk(@)],
                        CHOOSE m \in MskOut : TRUE)
  /\ UNCHANGED <<wa_rqs, wa_out, wgt_out>>

\* -y tabs is missing from the operations that take absolute values.
Transform ==
  LET sqr(x, mss) == VarMlt(x, x, mss)
  IN  /\ wa_pc = "transform"
      /\ wa_pc' = "weigh"
      /\ wa_var' = CASE Op \in {"mabs", "mebs", "mibs"} -> Each1(wa_var, VarAbs)
                     [] Op \in {"avgsqr", "rms", "rmssdn"} -> Each1(wa_var, sqr)
                     [] OTHER -> wa_var
      /\ UNCHANGED <<wa_rqs, wa_out, wgt_out>>

Weigh ==
  /\ wa_pc = "weigh"
  /\ wa_pc' = "reduce"
  /\ \E w \in IF UseWgtMsk THEN wa_rqs.wgt ELSE {} :
       /\ Conforms(wa_var, w)
       /\ wgt_out' = CnfDmn(wa_var, w)
       /\ wa_var' = [wa_var EXCEPT !.val = [lmn \in DOMAIN @ |->
            VarMlt(wgt_out'.val[lmn], @[lmn], wa_var.mss)]]
  /\ UNCHANGED <<wa_rqs, wa_out>>

NoWeight ==
  /\ wa_pc = "weigh"
  /\ wa_pc' = "reduce"
  /\ ~ \E w \in wa_rqs.wgt : UseWgtMsk /\ Conforms(wa_var, w)
  /\ UNCHANGED <<wa_rqs, wa_var, wa_out, wgt_out>>

\* With -m the output has a missing value even if the mask does not conform.
Reduce ==
  /\ wa_pc = "reduce"
  /\ wa_pc' = "normalize"
  /\ wa_out' = VarAvg([wa_var EXCEPT !.mss = IF wa_rqs.msk = {} THEN @
                                             ELSE MssMk(@)],
                      wa_rqs.avg, Op, wa_rqs.crd)
  /\ UNCHANGED <<wa_rqs, wa_var, wgt_out>>

-----------------------------------------------------------------------------
(* Normalisation: by the sum of the weights of the elements that are       *)
(* neither missing nor masked, or by their number.                         *)

\* wgt_avg (WgtAvgAll: a faulty variant that sums every weight).
WgtAvgAll(var, w) == VarAvg(w, wa_rqs.avg, "avg", wa_rqs.crd)
WgtAvg(var, w) ==
  LET valid ==
        IF var.mss = {} THEN w
        ELSE [w EXCEPT !.mss = var.mss,
                       !.val = [lmn \in DOMAIN @ |->
                         IF Missing(var.val[lmn], var.mss)
                         THEN MssVal(var.mss) ELSE @[lmn]]]
      kept == IF MskOut = {} THEN valid
              ELSE Msk([valid EXCEPT !.mss = MssMk(@)],
                       CHOOSE m \in MskOut : TRUE)
  IN  VarAvg(kept, wa_rqs.avg, "avg", wa_rqs.crd)

Extrema == {"min", "max", "mabs", "mibs"}

\* Element k of the output, normalised.
Nrm(k) ==
  LET acc == [AccZero EXCEPT !.val = wa_out.val[k], !.tally = wa_out.tally[k]]
  IN  CASE ~wa_rqs.nrm \/ Op \in Extrema \union {"tabs", "ttl"} -> acc.val
        [] wa_rqs.nrm /\ wgt_out # <<>> ->
             VarDvd(WgtAvg(wa_var, wgt_out).val[k], acc.val, wa_out.mss)
        [] wa_rqs.nrm /\ wgt_out = <<>> /\ Op = "rmssdn" ->
             VarNrmSdn(acc, wa_out.mss).val
        [] OTHER -> VarNrm(acc, wa_out.mss).val

Normalize ==
  /\ wa_pc = "normalize"
  /\ wa_pc' = "finish"
  /\ wa_out' = [wa_out EXCEPT !.val = [k \in DOMAIN @ |-> Nrm(k)]]
  /\ UNCHANGED <<wa_rqs, wa_var, wgt_out>>

Finish ==
  LET sqr(x, mss) == VarMlt(x, x, mss)
  IN  /\ wa_pc = "finish"
      /\ wa_pc' = "done"
      /\ wa_out' = CASE Op = "sqravg" -> Each1(wa_out, sqr)
                     [] Op \in {"sqrt", "rms", "rmssdn"} -> Each1(wa_out, VarSqrt)
                     [] OTHER -> wa_out
      /\ UNCHANGED <<wa_rqs, wa_var, wgt_out>>

WaNext ==
  ApplyMask \/ Transform \/ Weigh \/ NoWeight \/ Reduce \/ Normalize \/ Finish

WaSpec == WaInit /\ [][WaNext]_wa_vars
=============================================================================
