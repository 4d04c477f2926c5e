------------------------------- MODULE NcoRth -------------------------------
(***************************************************************************)
(* The arithmetic on one element of a variable: src/nco/nco_var_rth.c and  *)
(* nco_var_scv_mlt() of src/nco/nco_var_scv.c.  The functions of the code  *)
(* apply these operators to every element; op2 is the operand the code     *)
(* overwrites with the result.                                             *)
(*                                                                         *)
(* A number is a fraction <<numerator, denominator>>, or the square root   *)
(* of one, <<numerator, denominator, "root">>; denominator 0 stands for    *)
(* the values that are not finite.  Rounding, and the width of the types   *)
(* the program promotes to double before it computes, are left out.        *)
(*                                                                         *)
(* mss is {} for a variable without missing value (has_mss_val is False)   *)
(* and {mss_val} otherwise.                                                *)
(***************************************************************************)
EXTENDS Integers, Sequences

Val(n) == <<n, 1>>
Zero == Val(0)

Same(x, y) ==
  /\ Len(x) = Len(y)
  /\ (x[2] = 0) = (y[2] = 0)
  /\ x[2] # 0 => x[1] * y[2] = y[1] * x[2]

Plus(x, y) == IF x[2] = y[2] THEN <<x[1] + y[1], x[2]>>
              ELSE <<x[1] * y[2] + y[1] * x[2], x[2] * y[2]>>
Minus(x, y) == Plus(x, <<-y[1], y[2]>>)
Times(x, y) == <<x[1] * y[1], x[2] * y[2]>>
Over(x, y) == IF y[1] < 0 THEN <<-x[1] * y[2], -x[2] * y[1]>>
              ELSE <<x[1] * y[2], x[2] * y[1]>>
Magnitude(x) == IF x[1] < 0 THEN <<-x[1], x[2]>> ELSE x
Less(x, y) == x[1] * y[2] < y[1] * x[2]
Root(x) == IF x[1] = 0 THEN x
           ELSE IF x[1] < 0 THEN <<0, 0, "root">> ELSE <<x[1], x[2], "root">>

Missing(x, mss) == \E m \in mss : Same(x, m)
MssVal(mss) == CHOOSE m \in mss : TRUE

-----------------------------------------------------------------------------
(* Binary arithmetic: missing where either operand is missing.             *)

Both(op1, op2, mss, res) ==
  IF Missing(op1, mss) \/ Missing(op2, mss) THEN MssVal(mss) ELSE res

VarAdd(op1, op2, mss) == Both(op1, op2, mss, Plus(op2, op1))
VarSbt(op1, op2, mss) == Both(op1, op2, mss, Minus(op2, op1))
VarMlt(op1, op2, mss) == Both(op1, op2, mss, Times(op2, op1))
VarDvd(op1, op2, mss) == Both(op1, op2, mss, Over(op2, op1))

(* Arithmetic on one operand: a missing element is left as it is.          *)

VarAbs(op1, mss) == IF Missing(op1, mss) THEN op1 ELSE Magnitude(op1)
VarSqrt(op1, mss) == IF Missing(op1, mss) THEN op1 ELSE Root(op1)
VarScvMlt(op1, scv, mss) == IF Missing(op1, mss) THEN op1 ELSE Times(op1, scv)

(* Extrema: a missing operand loses against any other.                     *)

VarMaxBnr(op1, op2, mss) ==
  IF Missing(op2, mss) \/ (~Missing(op1, mss) /\ Less(op2, op1)) THEN op1
  ELSE op2
VarMinBnr(op1, op2, mss) ==
  IF Missing(op2, mss) \/ (~Missing(op1, mss) /\ Less(op1, op2)) THEN op1
  ELSE op2

\* op3 is masked where op2 does not compare with op1 as op_typ_rlt asks.
VarMsk(op1, op_typ_rlt, op2, op3, mss) ==
  LET holds == CASE op_typ_rlt = "eq" -> Same(op2, op1)
                 [] op_typ_rlt = "ne" -> ~Same(op2, op1)
                 [] op_typ_rlt = "lt" -> Less(op2, op1)
                 [] op_typ_rlt = "gt" -> Less(op1, op2)
                 [] op_typ_rlt = "le" -> ~Less(op1, op2)
                 [] op_typ_rlt = "ge" -> ~Less(op2, op1)
  IN  IF holds THEN op3 ELSE MssVal(mss)

-----------------------------------------------------------------------------
(* Accumulation.  An accumulator is an element of the output variable with *)
(* its tally and the sum of the weights that went into it.                 *)

AccZero == [val |-> Zero, tally |-> 0, wgt_sum |-> Zero]

\* ncflint: both operands are compared with the missing value.
VarAddTllNcflint(op1, acc, mss, wgt_crr) ==
  IF Missing(op1, mss) \/ Missing(acc.val, mss)
  THEN [acc EXCEPT !.val = MssVal(mss)]
  ELSE [acc EXCEPT !.val = Plus(@, op1), !.tally = @ + 1]

\* ncra, nces: only the new record is, never the running sum.
VarAddTllNcra(op1, acc, mss, wgt_crr) ==
  IF Missing(op1, mss) THEN acc
  ELSE [val |-> Plus(acc.val, op1), tally |-> acc.tally + 1,
        wgt_sum |-> IF mss = {} THEN acc.wgt_sum
                    ELSE Plus(acc.wgt_sum, wgt_crr)]

VarCopy(op1, acc) == [acc EXCEPT !.val = op1]

\* The first record of a total: a missing one counts as zero.
VarCopyTll(op1, acc, mss) ==
  IF Missing(op1, mss) THEN [acc EXCEPT !.val = Zero, !.tally = 0]
  ELSE [acc EXCEPT !.val = op1, !.tally = 1]

VarTllZroMssVal(acc, mss) ==
  IF mss # {} /\ acc.tally = 0 THEN [acc EXCEPT !.val = MssVal(mss)] ELSE acc

VarNrm(acc, mss) ==
  IF mss # {} /\ acc.tally = 0 THEN [acc EXCEPT !.val = MssVal(mss)]
  ELSE [acc EXCEPT !.val = Over(@, Val(acc.tally))]

VarNrmSdn(acc, mss) ==
  IF mss # {} /\ acc.tally <= 1 THEN [acc EXCEPT !.val = MssVal(mss)]
  ELSE [acc EXCEPT !.val = Over(@, Val(acc.tally - 1))]

\* Called only for variables with missing values.
VarNrmWgt(acc, mss) ==
  IF acc.tally = 0 THEN [acc EXCEPT !.val = MssVal(mss)]
  ELSE [acc EXCEPT !.val = Times(@, Over(Val(acc.tally), acc.wgt_sum))]
=============================================================================
