------------------------------- MODULE VarDmn -------------------------------
(***************************************************************************)
(* Arrays of several dimensions: nco_var_cnf_dmn() of nco_cnf_dmn.c, which *)
(* stretches a variable to the dimensions of another, and nco_var_avg() of *)
(* nco_var_avg.c, which reduces a variable over some of its dimensions.    *)
(*                                                                         *)
(* A variable is [dmn, cnt, mss, val]: the sequence of its dimensions, the *)
(* size of each, its missing value ({} or a singleton) and its elements    *)
(* by their offset, which the code and this module count in row-major      *)
(* order from 0.                                                           *)
(***************************************************************************)
EXTENDS NcoRth, SequencesExt

\* Number of elements of an array of dimensions dmn.
Size(dmn, cnt) == FoldLeft(LAMBDA n, d : n * cnt[d], 1, dmn)
Sz(var) == Size(var.dmn, var.cnt)

\* dmn_var_map: elements between two values of the i-th dimension.
DmnMap(dmn, cnt, i) == Size(SubSeq(dmn, i + 1, Len(dmn)), cnt)

\* dmn_ss: the subscript of dimension d at offset lmn.
DmnSs(var, lmn, d) ==
  LET i == CHOOSE j \in DOMAIN var.dmn : var.dmn[j] = d
  IN  (lmn \div DmnMap(var.dmn, var.cnt, i)) % var.cnt[d]

\* The offset, in an array of the dimensions dmn of var, of the element with
\* the subscripts of element lmn of var.
Offset(dmn, cnt, var, lmn) ==
  FoldLeft(LAMBDA n, x : n + x, 0,
           [i \in DOMAIN dmn |-> DmnSs(var, lmn, dmn[i]) * DmnMap(dmn, cnt, i)])

-----------------------------------------------------------------------------
(* nco_var_cnf_dmn(): wgt stretched to the dimensions of var.  What is     *)
(* stretched starts as a copy of var, and keeps its missing value.  A      *)
(* weight with dimensions that var does not have is replaced by ones       *)
(* (DO_CONFORM is False) unless MUST_CONFORM.  Elements that a larger      *)
(* dimension of var would fetch from behind the end of wgt have no value.  *)

Conforms(var, wgt) == \A i \in DOMAIN wgt.dmn : Contains(var.dmn, wgt.dmn[i])

CnfDmn(var, wgt) ==
  IF wgt.dmn = var.dmn THEN wgt
  ELSE [var EXCEPT !.val = [lmn \in DOMAIN var.val |->
          IF ~Conforms(var, wgt) THEN Val(1)
          ELSE LET o == Offset(wgt.dmn, wgt.cnt, var, lmn)
               IN  IF o \in DOMAIN wgt.val THEN wgt.val[o] ELSE <<0, 0>>]]

-----------------------------------------------------------------------------
(* nco_var_avg().  The elements are sorted into one block for each element *)
(* of the result; nothing moves if the averaged dimensions vary fastest.   *)

DmnFix(var, avg) == SelectSeq(var.dmn, LAMBDA d : d \notin avg)
DmnAvg(var, avg) == SelectSeq(var.dmn, LAMBDA d : d \in avg)

AvgDmnAreMrv(var, avg) == IsPrefix(DmnFix(var, avg), var.dmn)

\* avg_val.  (AvgValKept: a faulty variant that never sorts.)
AvgValKept(var, avg) == var.val
AvgVal(var, avg) ==
  LET avg_sz == Size(DmnAvg(var, avg), var.cnt)
      slot == [lmn \in DOMAIN var.val |->
                 Offset(DmnFix(var, avg), var.cnt, var, lmn) * avg_sz
                 + Offset(DmnAvg(var, avg), var.cnt, var, lmn)]
  IN  IF AvgDmnAreMrv(var, avg) THEN var.val
      ELSE [k \in DOMAIN var.val |->
              var.val[CHOOSE lmn \in DOMAIN slot : slot[lmn] = k]]

\* Reductions of one block to a value and its tally.
RdcTtl(b, mss) ==
  LET a == FoldLeft(LAMBDA acc, x : VarAddTllNcra(x, acc, mss, Zero),
                    AccZero, b)
  IN  VarTllZroMssVal(a, mss)
RdcMax(b, mss) ==
  VarCopy(FoldLeft(LAMBDA m, x : VarMaxBnr(x, m, mss), b[1], b), AccZero)
RdcMin(b, mss) ==
  VarCopy(FoldLeft(LAMBDA m, x : VarMinBnr(x, m, mss), b[1], b), AccZero)

\* The reduced variable, with a tally for each element; coordinates are
\* always summed.  A block of one element is left as it is.
VarAvg(var, avg, op, crd) ==
  LET fix == DmnFix(var, avg)
      avg_sz == Size(DmnAvg(var, avg), var.cnt)
      vals == AvgVal(var, avg)
      block(k) == [i \in 1..avg_sz |-> vals[k * avg_sz + i - 1]]
      rdc(b) ==
        IF avg_sz = 1
        THEN [AccZero EXCEPT !.val = b[1],
                             !.tally = IF Missing(b[1], var.mss) THEN 0 ELSE 1]
        ELSE IF ~crd /\ op \in {"max", "mabs"} THEN RdcMax(b, var.mss)
        ELSE IF ~crd /\ op \in {"min", "mibs"} THEN RdcMin(b, var.mss)
        ELSE RdcTtl(b, var.mss)
      out == [k \in 0..(Size(fix, var.cnt) - 1) |-> rdc(block(k))]
  IN  [dmn |-> fix, cnt |-> [d \in ToSet(fix) |-> var.cnt[d]], mss |-> var.mss,
       val |-> [k \in DOMAIN out |-> out[k].val],
       tally |-> [k \in DOMAIN out |-> out[k].tally]]
=============================================================================
