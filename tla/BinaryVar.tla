----------------------------- MODULE BinaryVar -----------------------------
(***************************************************************************)
(* The operators on two files: ncbo (nco_prc_cmn() of nco_grp_utl.c) and   *)
(* ncflint (ncflint.c), variable by variable.                              *)
(***************************************************************************)
EXTENDS VarDmn, TLC

CONSTANT BnRequests
  \* command lines with their input:
  \* [prg : {"ncbo", "ncflint"}, op : {"add", "sbt", "mlt", "dvd"},
  \*  ntp : {} or {<<n1, n2, n>>}, wgt : <<w1, w2>>,
  \*  pairs : Seq([var1 : variable, var2 : variable])]
  \* ncbo does op; ncflint interpolates to the value n of the variable of -i,
  \* which is n1 and n2 in the files, or else with the weights of -w; pairs
  \* are the variables of the two files

VARIABLES
  bn_rqs,      \* the command line
  bn_pc,       \* "define" or "weights", "vars", "done" or "refused"
  bn_idx,      \* the variable being processed, from 1
  bn_wgt,      \* wgt_1 and wgt_2 of ncflint
  bn_wgt_out,  \* weights as they were stretched to an earlier variable
  bn_out       \* results of the variables done

bn_vars == <<bn_rqs, bn_pc, bn_idx, bn_wgt, bn_wgt_out, bn_out>>

BnInit ==
  /\ bn_rqs \in BnRequests
  /\ bn_pc = IF bn_rqs.prg = "ncbo" THEN "define" ELSE "weights"
  /\ bn_idx = 1
  /\ bn_wgt = <<>>
  /\ bn_wgt_out = <<>>
  /\ bn_out = <<>>

Refuse ==
  /\ bn_pc' = "refused"
  /\ UNCHANGED <<bn_rqs, bn_idx, bn_wgt, bn_wgt_out, bn_out>>

\* The variable is done with result res.
Write(res) ==
  /\ bn_out' = Append(bn_out, res)
  /\ bn_idx' = bn_idx + 1
  /\ bn_pc' = IF bn_idx = Len(bn_rqs.pairs) THEN "done" ELSE "vars"
  /\ UNCHANGED <<bn_rqs, bn_wgt>>

-----------------------------------------------------------------------------
(* nco_mss_val_cnf(): one missing value for both operands.                 *)

\* (MssCnfNone: a faulty variant that translates nothing.)
MssCnfNone(var1, var2) ==
  <<[var1 EXCEPT !.mss = IF @ = {} THEN var2.mss ELSE @],
    [var2 EXCEPT !.mss = IF var1.mss = {} THEN @ ELSE var1.mss]>>
MssCnf(var1, var2) ==
  LET cnf == MssCnfNone(var1, var2)
      trn == [cnf[2] EXCEPT !.val = [lmn \in DOMAIN @ |->
                IF Missing(@[lmn], var2.mss) THEN MssVal(var1.mss) ELSE @[lmn]]]
  IN  IF var1.mss # {} /\ var2.mss # {} THEN <<cnf[1], trn>> ELSE cnf

\* The binary functions of nco_var_rth.c leave their result in op2.
BinaryOf(op, op1, op2, mss) ==
  CASE op = "add" -> VarAdd(op1, op2, mss)
    [] op = "sbt" -> VarSbt(op1, op2, mss)
    [] op = "mlt" -> VarMlt(op1, op2, mss)
    [] op = "dvd" -> VarDvd(op1, op2, mss)

Apply(op, var1, var2, mss) ==
  [var1 EXCEPT !.mss = mss, !.val = [lmn \in DOMAIN @ |->
     BinaryOf(op, var2.val[lmn], @[lmn], mss)]]

-----------------------------------------------------------------------------
(* ncbo.  The operand of lower rank may have no dimension that the other   *)
(* lacks, and is stretched to the other; operands of equal rank must have  *)
(* equal sizes, place by place.                                            *)

Comparable(var1, var2) ==
  LET rnk1 == Len(var1.dmn)
      rnk2 == Len(var2.dmn)
  IN  /\ IF rnk1 >= rnk2 THEN Conforms(var1, var2) ELSE Conforms(var2, var1)
      /\ rnk1 = rnk2 =>
           \A i \in 1..rnk1 : var1.cnt[var1.dmn[i]] = var2.cnt[var2.dmn[i]]

\* The output is defined for every variable before any is written.
NcboDefine ==
  /\ bn_pc = "define"
  /\ IF \A k \in DOMAIN bn_rqs.pairs :
          Comparable(bn_rqs.pairs[k].var1, bn_rqs.pairs[k].var2)
     THEN /\ bn_pc' = "vars"
          /\ UNCHANGED <<bn_rqs, bn_idx, bn_wgt, bn_wgt_out, bn_out>>
     ELSE Refuse

NcboVar ==
  LET var1 == bn_rqs.pairs[bn_idx].var1
      var2 == bn_rqs.pairs[bn_idx].var2
      rnk_1_gtr == Len(var1.dmn) >= Len(var2.dmn)
      str1 == IF rnk_1_gtr THEN var1 ELSE CnfDmn(var2, var1)
      str2 == IF Len(var1.dmn) > Len(var2.dmn) THEN CnfDmn(var1, var2) ELSE var2
      cnf == IF rnk_1_gtr THEN MssCnf(str1, str2) ELSE Reverse(MssCnf(str2, str1))
      mss == IF rnk_1_gtr THEN cnf[1].mss ELSE cnf[2].mss
  IN  /\ bn_pc = "vars" /\ bn_rqs.prg = "ncbo"
      /\ Write(Apply(bn_rqs.op, cnf[1], cnf[2], mss))
      /\ UNCHANGED bn_wgt_out

-----------------------------------------------------------------------------
(* ncflint.                                                                *)

Scalar(x) == [dmn |-> <<>>, cnt |-> <<>>, mss |-> {}, val |-> (0 :> x)]

\* The weights of -i, distances of the arrival value from the other file's,
\* or those of -w.
Weights ==
  /\ bn_pc = "weights"
  /\ IF \E n \in bn_rqs.ntp : Same(n[1], n[2]) THEN Refuse
     ELSE /\ bn_pc' = "vars"
          /\ bn_wgt' = IF bn_rqs.ntp = {} THEN bn_rqs.wgt
                       ELSE LET n == CHOOSE n \in bn_rqs.ntp : TRUE
                            IN  << Over(Minus(n[2], n[3]), Minus(n[2], n[1])),
                                   Over(Minus(n[3], n[1]), Minus(n[2], n[1])) >>
          /\ UNCHANGED <<bn_rqs, bn_idx, bn_wgt_out, bn_out>>

\* A weight stretched to an earlier variable is used again for one of the
\* same dimensions.
Stretch(var, i) ==
  IF bn_wgt_out # <<>> /\ bn_wgt_out[i].dmn = var.dmn THEN bn_wgt_out[i]
  ELSE CnfDmn(var, Scalar(bn_wgt[i]))

\* Weighted each with its own missing value, then added with the common one.
NcflintVar ==
  LET var == <<bn_rqs.pairs[bn_idx].var1, bn_rqs.pairs[bn_idx].var2>>
      wgt == <<Stretch(var[1], 1), Stretch(var[1], 2)>>
      weighted(i) == Apply("mlt", var[i], wgt[i], var[i].mss)
      cnf == MssCnf(weighted(1), weighted(2))
      sum(lmn) == VarAddTllNcflint(cnf[1].val[lmn],
                    [AccZero EXCEPT !.val = cnf[2].val[lmn]], cnf[1].mss, Zero)
  IN  /\ bn_pc = "vars" /\ bn_rqs.prg = "ncflint"
      /\ Write([cnf[1] EXCEPT !.val = [lmn \in DOMAIN @ |-> sum(lmn).val]])
      /\ bn_wgt_out' = wgt

BnNext == NcboDefine \/ NcboVar \/ Weights \/ NcflintVar

BnSpec == BnInit /\ [][BnNext]_bn_vars
=============================================================================
