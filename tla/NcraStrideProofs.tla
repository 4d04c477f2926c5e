-------------------------- MODULE NcraStrideProofs --------------------------
(***************************************************************************)
(* Proofs about NcraRecords: type correctness, the record stride, and that *)
(* what is written stays, for every number and size of input files, every  *)
(* number of record dimensions and variables, and every request; and that  *)
(* it implements RecordSelection for strides without sub-cycles.           *)
(***************************************************************************)
EXTENDS NcraStride, TLAPS, WellFoundedInduction

-----------------------------------------------------------------------------
(* Arithmetic.                                                             *)

\* Integer division by a positive number.
LEMMA DivFacts ==
  ASSUME NEW a \in Nat, NEW b \in Nat, b > 0
  PROVE  /\ a \div b \in Nat
         /\ (a \div b) * b <= a
         /\ a < (a \div b) * b + b
  OBVIOUS

\* A number below the modulus is its own remainder.
LEMMA ModSmall ==
  ASSUME NEW a \in Nat, NEW b \in Nat, a < b
  PROVE  a % b = a
  OBVIOUS

\* A remainder is a natural number below the modulus.
LEMMA ModRange ==
  ASSUME NEW a \in Int, NEW b \in Nat, b > 0
  PROVE  a % b \in Nat /\ a % b < b
  OBVIOUS

LEMMA MulFacts ==
  ASSUME NEW k \in Nat, NEW b \in Nat, b > 0
  PROVE  /\ k * b \in Nat /\ k <= k * b
         /\ k > 0 => k * b = b + (k - 1) * b /\ (k - 1) * b \in Nat
  OBVIOUS

-----------------------------------------------------------------------------
(* Types.                                                                  *)

LEMMA SrdFacts ==
  ASSUME NEW a \in ArgType
  PROVE  /\ Ilv(a) \in Nat /\ Ilv(a) > 0
         /\ Ssc(a) \in Nat /\ Ssc(a) > 0
         /\ Srd(a) \in Nat /\ Srd(a) > 0
         /\ FlgIlv(a) \in BOOLEAN
BY DEF ArgType, Ilv, Ssc, Srd, FlgIlv

LEMMA IdxType ==
  ASSUME NEW a \in ArgType, NEW sz \in Nat
  PROVE  MinIdx(a, sz) \in Int /\ MaxIdx(a, sz) \in Int
BY DEF ArgType, MinIdx, MaxIdx, CnvIdx

LEMMA SrtEndType ==
  ASSUME NEW a \in ArgType, NEW l \in LmtType, NEW sz \in Nat, NEW n \in Nat
  PROVE  /\ SrtMinLcl(l, a, sz) \in Int /\ EndMaxLcl(l, a, sz) \in Int
         /\ SkpVldPrv(l, n) \in Int
         /\ SrtCrr(l, a, sz, n) \in Int /\ EndCrr(l, a, sz) \in Int
<1>1. l.rec_in_cml \in Nat /\ l.rec_skp_vld_prv \in Int
  BY DEF LmtType
<1>2. SrtMinLcl(l, a, sz) \in Int /\ EndMaxLcl(l, a, sz) \in Int
  BY <1>1, IdxType DEF SrtMinLcl, EndMaxLcl
<1>3. SkpVldPrv(l, n) \in Int
  BY <1>1 DEF SkpVldPrv
<1>4. SkpVldPrv(l, n) % Srd(a) \in Int
  BY <1>3, SrdFacts, ModRange
<1> QED
  BY <1>1, <1>2, <1>3, <1>4, SrdFacts DEF SrtCrr, EndCrr

LEMMA LmtEvlType ==
  ASSUME NEW a \in ArgType, NEW l \in LmtType, NEW sz \in Nat, NEW n \in Nat
  PROVE  LmtEvl(l, a, sz, n) \in LmtType
<1> DEFINE srt == SrtCrr(l, a, sz, n)
           e == EndCrr(l, a, sz)
<1>1. /\ srt \in Int /\ e \in Int /\ EndMaxLcl(l, a, sz) \in Int
      /\ SkpVldPrv(l, n) \in Int
  BY SrtEndType
<1>2. NoDataOk(l, a, sz, n) \in BOOLEAN /\ InputComplete(l, a, sz, n) \in BOOLEAN
  BY DEF NoDataOk, InputComplete, SrtInLaterFile
<1>3. CASE NoDataOk(l, a, sz, n)
  BY <1>1, <1>2, <1>3 DEF LmtEvl, LmtType
<1>4. CASE ~NoDataOk(l, a, sz, n)
  <2>1. srt <= e
    BY <1>1, <1>4, SrtEndType DEF NoDataOk, InputComplete, LmtType
  <2>2. LastStrided(srt, e, Srd(a)) \in Int
    <3>1. e - srt \in Nat
      BY <1>1, <2>1
    <3>2. (e - srt) \div Srd(a) \in Nat
      BY <3>1, SrdFacts, DivFacts
    <3> QED
      BY <1>1, <3>2, SrdFacts DEF LastStrided
  <2> QED
    BY <1>1, <1>2, <1>4, <2>2 DEF LmtEvl, LmtType
<1> QED
  BY <1>3, <1>4

LEMMA ConstSeqType ==
  ASSUME NEW S, NEW x \in S, NEW n \in Nat
  PROVE  <<>> \in Seq(S) /\ [k \in 1..n |-> x] \in Seq(S)
  OBVIOUS

LEMMA PutRecType ==
  ASSUME NEW S, FILL \in S, NEW s \in Seq(S), NEW i \in Nat, NEW x \in S
  PROVE  PutRec(s, i, x) \in Seq(S)
<1> DEFINE n == IF i < Len(s) THEN Len(s) ELSE i + 1
<1>1. n \in Nat
  OBVIOUS
<1>2. \A k \in 1..n : (IF k = i + 1 THEN x ELSE IF k <= Len(s) THEN s[k] ELSE FILL) \in S
  OBVIOUS
<1> QED
  BY <1>1, <1>2 DEF PutRec

\* What a state of the right types says about the current file and argument.
LEMMA CurrentType ==
  ASSUME TypeOK
  PROVE  /\ Arg \in ArgType /\ DmnSz \in Nat /\ FlNbr \in Nat
         /\ \A d \in Dmn : rqs.arg[d] \in ArgType
         /\ lmt[idx_rec] \in LmtType
BY DEF TypeOK, RequestType, Arg, DmnSz, FlNbr

LEMMA TypeInit == Init => TypeOK
<1> SUFFICES ASSUME Init PROVE TypeOK
  OBVIOUS
<1>1. /\ rqs \in RequestType /\ Len(rqs.fl) > 0 /\ Len(rqs.fl) \in Nat
      /\ rqs.mro \in BOOLEAN /\ rqs.apn \in Nat
  BY RequestsAssumption DEF RequestType, Init
<1>2. lmt \in [Dmn -> LmtType]
  <2>1. LmtInit \in LmtType
    BY DEF LmtInit, LmtType
  <2> QED
    BY <2>1 DEF Init
<1>3. out \in [Var -> Seq(Seq(Int))]
  <2>1. OLD \in Seq(Int)
    BY DEF OLD
  <2> QED
    BY <1>1, <2>1, ConstSeqType DEF Init
<1>4. bfr \in [Var -> Seq(Int)] /\ usd \in [Dmn -> Seq(Int)] /\ srt_out \in [Var -> Nat]
  <2>1. <<>> \in Seq(Int)
    BY ConstSeqType
  <2> QED
    BY <2>1 DEF Init
<1>5. /\ rec_in_cml \in [Dmn -> Nat] /\ rec_usd_cml \in [Dmn -> Nat]
      /\ idx_rec_out \in [Dmn -> Nat] /\ REC_LST_DSR \in [Dmn -> BOOLEAN]
      /\ flg_input_complete \in [Dmn -> BOOLEAN]
  BY DEF Init
<1>6. /\ rec_rmn_prv_ssc \in Nat /\ rec_rmn_prv_ilv \in Int /\ idx_rec_crr_in \in Int
      /\ idx \in Nat /\ grp_out_fll \in {VarPrc[v].grp : v \in Var} \union {NoGrp}
  BY DEF Init
<1>8. FLG_MRO \in BOOLEAN /\ FLG_BFR_NRM \in BOOLEAN
  BY <1>1, Zenon DEF Init
<1>7. pc \in Step /\ fl_idx \in 1..Len(rqs.fl) /\ idx_rec \in Dmn
  BY <1>1, NbrRecAssumption DEF Init, Step, Dmn
<1> QED
  BY <1>1, <1>2, <1>3, <1>4, <1>5, <1>6, <1>7, <1>8 DEF TypeOK

LEMMA TypeEvl == TypeOK /\ Evl => TypeOK'
<1> SUFFICES ASSUME TypeOK, Evl PROVE TypeOK'
  OBVIOUS
<1> DEFINE l == LmtEvl(lmt[idx_rec], Arg, DmnSz, rec_usd_cml[idx_rec])
<1>1. l \in LmtType
  BY CurrentType, LmtEvlType DEF TypeOK
<1>2. lmt' \in [Dmn -> LmtType] /\ rec_rmn_prv_ssc' \in Nat /\ idx_rec_crr_in' \in Int
  BY <1>1 DEF Evl, TypeOK, LmtType
<1>3. FLG_MRO' \in BOOLEAN
  BY CurrentType, SrdFacts DEF TypeOK, FLG_ILV, FlgIlv, Evl
<1>4. idx_rec_out' \in [Dmn -> Nat]
  BY DEF Evl, TypeOK, LastVar, VarsOf
<1>5. pc' \in Step
  BY DEF Evl, Step
<1> QED
  BY <1>2, <1>3, <1>4, <1>5 DEF Evl, TypeOK, cnt_vars, rec_vars, bfr_vars

LEMMA TypeRecord == TypeOK /\ Record => TypeOK'
<1> SUFFICES ASSUME TypeOK, Record PROVE TypeOK'
  OBVIOUS
<1> DEFINE rec == rec_in_cml[idx_rec] + idx_rec_crr_in
           acc(v) == IF RthNtl THEN <<rec>> ELSE Append(bfr[v], rec)
<1>0. /\ Ilv(Arg) \in Nat /\ Ilv(Arg) > 0 /\ Ssc(Arg) \in Nat /\ Ssc(Arg) > 0
      /\ Srd(Arg) \in Nat /\ Srd(Arg) > 0
  BY CurrentType, SrdFacts
<1>1. rec \in Int /\ \A v \in Var : acc(v) \in Seq(Int)
  BY DEF TypeOK
<1>2. bfr' \in [Var -> Seq(Int)]
  <2>1. \A v \in Var : Append(acc(v), NRM) \in Seq(Int)
    BY <1>1 DEF NRM
  <2>2. \A v \in Var : bfr[v] \in Seq(Int)
    BY DEF TypeOK
  <2> QED
    BY <1>1, <2>1, <2>2 DEF Record, ProcessVars
<1>3. srt_out' \in [Var -> Nat]
  BY DEF Record, ProcessVars, TypeOK
<1>4. out' \in [Var -> Seq(Seq(Int))]
  <2>1. FILL \in Seq(Int) /\ <<rec>> \in Seq(Int) /\ idx_rec_out[idx_rec] \in Nat
    BY <1>1 DEF FILL, TypeOK
  <2>2. \A v \in Var : out[v] \in Seq(Seq(Int)) /\ bfr'[v] \in Seq(Int)
    BY <1>2 DEF TypeOK
  <2>3. \A v \in Var :
          /\ PutRec(out[v], idx_rec_out[idx_rec], <<rec>>) \in Seq(Seq(Int))
          /\ PutRec(out[v], idx_rec_out[idx_rec], bfr'[v]) \in Seq(Seq(Int))
    BY <2>1, <2>2, PutRecType
  <2> QED
    BY <2>2, <2>3 DEF Record, ProcessVars
<1>5. usd' \in [Dmn -> Seq(Int)]
  BY <1>1 DEF Record, ProcessVars, TypeOK
<1>6. grp_out_fll' \in {VarPrc[v].grp : v \in Var} \union {NoGrp}
  BY DEF Record, ProcessVars, LastVar, VarsOf
<1>7. FLG_BFR_NRM' \in BOOLEAN /\ REC_LST_DSR' \in [Dmn -> BOOLEAN]
  BY DEF Record, ProcessVars, TypeOK, LstDsr, NrmWrt
<1>8. idx_rec_out' \in [Dmn -> Nat] /\ rec_usd_cml' \in [Dmn -> Nat]
  BY DEF Record, NextOut, TypeOK
<1>9. RmnSsc \in Nat /\ RmnSsc > 0 /\ rec_rmn_prv_ssc' \in Nat
  <2>1. rec_rmn_prv_ssc \in Nat
    BY DEF TypeOK
  <2>2. RmnSsc \in Nat /\ RmnSsc > 0
    BY <1>0, <2>1 DEF RmnSsc
  <2> QED
    BY <2>2 DEF Record
<1>10. IlvPerSsc \in Int
  BY <1>0, DivFacts DEF IlvPerSsc
<1>11. RmnIlv \in Int /\ rec_rmn_prv_ilv' \in Int
  BY <1>10 DEF Record, TypeOK, RmnIlv
<1>12. idx_rec_crr_in' \in Int /\ pc' \in Step
  <2>1. NextIlv \in Int
    <3>1. (IlvPerSsc - 1) * Ilv(Arg) \in Int /\ idx_rec_crr_in \in Int
      BY <1>0, <1>10 DEF TypeOK
    <3> QED
      BY <1>0, <1>11, <3>1 DEF NextIlv
  <2>2. NextIdx \in Int
    BY <1>0, <2>1 DEF NextIdx, TypeOK
  <2> QED
    BY <2>2 DEF Record, TypeOK, Step
<1> QED
  BY <1>2, <1>3, <1>4, <1>5, <1>6, <1>7, <1>8, <1>9, <1>11, <1>12
  DEF Record, TypeOK

LEMMA TypeEndDmn == TypeOK /\ EndDmn => TypeOK'
<1> SUFFICES ASSUME TypeOK, EndDmn PROVE TypeOK'
  OBVIOUS
<1>1. lmt' \in [Dmn -> LmtType]
  <2>1. lmt \in [Dmn -> LmtType] /\ idx_rec \in Dmn /\ rec_rmn_prv_ssc \in Nat
    BY DEF TypeOK
  <2>2. lmt' = [lmt EXCEPT ![idx_rec].rec_rmn_prv_ssc = rec_rmn_prv_ssc]
    BY DEF EndDmn
  <2> QED
    BY <2>1, <2>2 DEF LmtType
<1>2. rec_in_cml' \in [Dmn -> Nat]
  <2>1. rec_in_cml \in [Dmn -> Nat] /\ rec_in_cml[idx_rec] + DmnSz \in Nat
    BY CurrentType DEF TypeOK
  <2>2. rec_in_cml' = [rec_in_cml EXCEPT ![idx_rec] = rec_in_cml[idx_rec] + DmnSz]
    BY DEF EndDmn
  <2> QED
    BY <2>1, <2>2
<1>3. pc' \in Step /\ idx_rec' \in Dmn
  BY NbrRecAssumption DEF EndDmn, TypeOK, Step, Exit, Dmn
<1> QED
  BY <1>1, <1>2, <1>3 DEF EndDmn, TypeOK, rec_vars, bfr_vars

LEMMA TypePutVar == TypeOK /\ PutVar => TypeOK'
<1> SUFFICES ASSUME TypeOK, PutVar PROVE TypeOK'
  OBVIOUS
<1>1. out' \in [Var -> Seq(Seq(Int))]
  <2>1. \A v \in Var : out[v] \in Seq(Seq(Int))
    BY DEF TypeOK
  <2>2. idx \in Var /\ bfr[idx] \in Seq(Int) /\ srt_out[idx] \in Nat
    BY DEF PutVar, TypeOK
  <2>3. FILL \in Seq(Int)
    BY DEF FILL
  <2>4. \A v \in Var : PutRec(out[v], srt_out[idx], bfr[idx]) \in Seq(Seq(Int))
    BY <2>1, <2>2, <2>3, PutRecType
  <2> QED
    BY <2>1, <2>4 DEF PutVar, TypeOK
<1>2. pc' \in Step /\ idx' \in Nat
  BY DEF PutVar, TypeOK, Exit, Step
<1> QED
  BY <1>1, <1>2 DEF PutVar, TypeOK, cnt_vars, rec_vars

LEMMA TypeStep == TypeOK /\ [Next]_vars => TypeOK'
<1> SUFFICES ASSUME TypeOK, [Next]_vars PROVE TypeOK'
  OBVIOUS
<1>1. CASE EvlError
  BY <1>1 DEF EvlError, Exit, TypeOK, Step, cnt_vars, rec_vars, bfr_vars
<1>2. CASE Evl
  BY <1>2, TypeEvl
<1>3. CASE Record
  BY <1>3, TypeRecord
<1>4. CASE EndDmn
  BY <1>4, TypeEndDmn
<1>5. CASE CloseFile
  <2>1. flg_input_complete' \in [Dmn -> BOOLEAN]
    BY <1>5 DEF CloseFile, TypeOK, LmtType
  <2>2. fl_idx' \in 1..Len(rqs.fl) /\ idx_rec' \in Dmn /\ pc' \in Step
    <3>1. FlNbr \in Nat /\ fl_idx \in 1..FlNbr /\ idx_rec \in Dmn /\ 1 \in Dmn
      BY CurrentType, NbrRecAssumption DEF TypeOK, FlNbr, Dmn
    <3> QED
      BY <1>5, <3>1 DEF CloseFile, Step, FlNbr
  <2> QED
    BY <1>5, <2>1, <2>2 DEF CloseFile, TypeOK, cnt_vars, rec_vars, bfr_vars
<1>6. CASE Normalise
  <2>1. bfr' \in [Var -> Seq(Int)]
    BY <1>6 DEF Normalise, TypeOK, NRM
  <2> QED
    BY <1>6, <2>1 DEF Normalise, TypeOK, Step, cnt_vars, rec_vars
<1>7. CASE PutVar
  BY <1>7, TypePutVar
<1>8. CASE CloseOutput
  BY <1>8 DEF CloseOutput, TypeOK, Step, cnt_vars, rec_vars, bfr_vars
<1>9. CASE UNCHANGED vars
  BY <1>9 DEF TypeOK, vars, cnt_vars, rec_vars, bfr_vars
<1> QED
  BY <1>1, <1>2, <1>3, <1>4, <1>5, <1>6, <1>7, <1>8, <1>9 DEF Next, Terminated

\* Type correctness of the record machine: limits and counters stay whole
\* numbers, the remainder of a sub-cycle never drops below zero.
THEOREM TypeCorrect == Spec => []TypeOK
<1> QED
  BY TypeInit, TypeStep, PTL DEF Spec

-----------------------------------------------------------------------------
(* The stride.                                                             *)

\* Before nco_lmt_evl() is called for a limit with unit sub-cycles: N is the
\* record wanted next and last the one used last.
Ready(a, l, n, N, last) ==
  /\ n = 0 => N = FirstRec(a)
  /\ n # 0 => /\ N = last + Srd(a) /\ last >= FirstRec(a) /\ last < l.rec_in_cml
              /\ l.rec_skp_vld_prv = l.rec_in_cml - 1 - last
  /\ N >= l.rec_in_cml \/ (a.usr_max /\ N > LastRec(a))

\* Afterwards either the file of sz records holds no wanted record, or the
\* range starts with record N and ends with the last strided record.
Superfluous(a, l, sz, n, N, last, r) ==
  /\ r.srt = -1
  /\ N >= l.rec_in_cml + sz \/ (a.usr_max /\ N > LastRec(a))
  /\ n # 0 => r.rec_skp_vld_prv = l.rec_in_cml + sz - 1 - last
Ranged(a, l, sz, N, r) ==
  /\ r.srt >= 0 /\ l.rec_in_cml + r.srt = N
  /\ r.end < sz /\ r.rec_skp_vld_prv = sz - 1 - r.end
  /\ a.usr_max => l.rec_in_cml + r.end <= LastRec(a)
  /\ \/ r.end + Srd(a) >= sz
     \/ a.usr_max /\ l.rec_in_cml + r.end + Srd(a) > LastRec(a)
  /\ \E k \in 0..sz : r.end = r.srt + k * Srd(a)
Evaluated(a, l, sz, n, N, last, r) ==
  /\ r.rec_in_cml = l.rec_in_cml + sz /\ r.rec_rmn_prv_ssc = l.rec_rmn_prv_ssc
  /\ r.flg_input_complete => a.usr_max /\ N > LastRec(a)
  /\ Superfluous(a, l, sz, n, N, last, r) \/ Ranged(a, l, sz, N, r)

LEMMA FirstRecType ==
  ASSUME NEW a \in ArgType, UnitStride(a)
  PROVE  FirstRec(a) \in Nat
BY DEF UnitStride, FirstRec, MinIdx, CnvIdx, ArgType

LEMMA LmtEvlUnit ==
  ASSUME NEW a \in ArgType, UnitStride(a), NEW l \in LmtType,
         NEW sz \in Nat, sz > 0, NEW n \in Nat, NEW N \in Int, NEW last \in Int,
         Ready(a, l, n, N, last)
  PROVE  Evaluated(a, l, sz, n, N, last, LmtEvl(l, a, sz, n))
<1> DEFINE B == l.rec_in_cml
           s == Srd(a)
           F == FirstRec(a)
           L == LastRec(a)
           past == a.usr_max /\ N > L
           srt == SrtCrr(l, a, sz, n)
           e == EndCrr(l, a, sz)
           nodata == NoDataOk(l, a, sz, n)
           complete == InputComplete(l, a, sz, n)
           later == SrtInLaterFile(l, a, sz, n)
<1>1. s \in Nat /\ s > 0 /\ B \in Nat
  BY SrdFacts DEF LmtType
<1> USE DEF Ready
<1>2. /\ F \in Nat /\ (~a.usr_min => F = 0)
      /\ SrtMinLcl(l, a, sz) = IF a.usr_min THEN F ELSE B
  BY DEF FirstRec, MinIdx, CnvIdx, UnitStride, ArgType, SrtMinLcl
<1>3. /\ a.usr_max => L \in Nat
      /\ EndMaxLcl(l, a, sz) = IF a.usr_max THEN L ELSE B + sz - 1
  BY DEF LastRec, MaxIdx, CnvIdx, UnitStride, ArgType, EndMaxLcl
<1>4. srt \in Int /\ e \in Int
  BY SrtEndType
<1>5. /\ e <= sz - 1
      /\ e = sz - 1 \/ (a.usr_max /\ e = L - B)
      /\ a.usr_max => B + e <= L
  BY <1>1, <1>3 DEF EndCrr
<1>6. ASSUME N >= B PROVE srt = N - B
  <2>1. CASE n = 0
    BY <1>1, <1>2, <1>6, <2>1 DEF SrtCrr
  <2>2. CASE n # 0
    <3>1. SkpVldPrv(l, n) = B - 1 - last
      BY <2>2 DEF SkpVldPrv
    <3>2. (B - 1 - last) % s = B - 1 - last
      <4>1. B - 1 - last \in Nat /\ B - 1 - last < s
        BY <1>1, <1>6, <2>2
      <4> QED
        BY <1>1, <4>1, ModSmall
    <3> QED
      BY <1>1, <2>2, <3>1, <3>2 DEF SrtCrr
  <2> QED
    BY <2>1, <2>2
<1>7. later <=> SrtMinLcl(l, a, sz) > B + sz - 1 \/ srt > sz - 1
  BY DEF SrtInLaterFile
<1>8. complete <=> ~later /\ (EndMaxLcl(l, a, sz) < B \/ srt > e)
  BY DEF InputComplete
<1>9. nodata <=> later \/ complete
  BY DEF NoDataOk
<1>10. past => nodata
  <2>1. ASSUME past, ~later PROVE complete
    <3>1. CASE L < B
      BY <1>3, <1>8, <2>1, <3>1
    <3>2. CASE L >= B
      BY <1>1, <1>3, <1>4, <1>5, <1>6, <1>8, <2>1, <3>2
    <3> QED
      BY <1>1, <1>3, <2>1, <3>1, <3>2
  <2> QED
    BY <1>9, <2>1
<1>11. complete => past
  <2>1. ASSUME complete, ~past PROVE FALSE
    <3>1. N >= B /\ srt = N - B
      BY <1>6, <2>1
    <3>2. srt <= sz - 1
      BY <1>4, <1>7, <1>8, <2>1
    <3>3. CASE EndMaxLcl(l, a, sz) < B
      BY <1>1, <1>3, <2>1, <3>1, <3>3
    <3>4. CASE srt > e
      BY <1>1, <1>3, <1>4, <1>5, <2>1, <3>1, <3>2, <3>4
    <3> QED
      BY <1>8, <2>1, <3>3, <3>4
  <2> QED
    BY <2>1
<1>12. nodata => N >= B + sz \/ past
  <2>1. ASSUME later, ~past PROVE N >= B + sz
    <3>1. N >= B /\ srt = N - B
      BY <1>6, <2>1
    <3>2. CASE srt > sz - 1
      BY <1>1, <3>1, <3>2
    <3>3. CASE SrtMinLcl(l, a, sz) > B + sz - 1
      BY <1>1, <1>2, <3>3
    <3> QED
      BY <1>7, <2>1, <3>2, <3>3
  <2> QED
    BY <1>9, <1>11, <2>1
<1>13. CASE nodata
  <2>1. n # 0 => SkpVldPrv(l, n) = B - 1 - last
    BY DEF SkpVldPrv
  <2> QED
    BY <1>1, <1>11, <1>12, <1>13, <2>1 DEF LmtEvl, Evaluated, Superfluous
<1>14. CASE ~nodata
  <2>1. ~past /\ N >= B /\ srt = N - B /\ srt >= 0 /\ srt <= e
    BY <1>1, <1>4, <1>6, <1>8, <1>9, <1>10, <1>14
  <2> DEFINE q == (e - srt) \div s
             end == LastStrided(srt, e, s)
  <2>2. q \in Nat /\ q * s <= e - srt /\ e - srt < q * s + s
    <3>1. e - srt \in Nat
      BY <1>4, <2>1
    <3> QED
      BY <1>1, <3>1, DivFacts
  <2>3. end = srt + q * s
    BY DEF LastStrided
  <2>4. q <= q * s /\ q * s \in Nat
    BY <1>1, <2>2, MulFacts
  <2>5. end \in Int /\ end <= e /\ e < end + s
    BY <1>1, <1>4, <2>2, <2>3, <2>4
  <2>6. q \in 0..sz
    BY <1>4, <1>5, <2>1, <2>2, <2>4
  <2>7. /\ end < sz
        /\ a.usr_max => B + end <= L
        /\ end + s >= sz \/ (a.usr_max /\ B + end + s > L)
    BY <1>1, <1>3, <1>4, <1>5, <2>5
  <2> HIDE DEF q, end
  <2>8. LET r == LmtEvl(l, a, sz, n)
        IN  /\ r.rec_in_cml = B + sz /\ r.rec_rmn_prv_ssc = l.rec_rmn_prv_ssc
            /\ r.srt = srt /\ r.end = end /\ r.rec_skp_vld_prv = sz - 1 - end
            /\ r.flg_input_complete = complete
    BY <1>14 DEF LmtEvl, end
  <2> QED
    BY <1>1, <1>11, <2>1, <2>3, <2>6, <2>7, <2>8 DEF Evaluated, Ranged
<1> QED
  BY <1>13, <1>14

\* The invariant holds at the start: the first record is still to come.
LEMMA StrideInit == Init => StrideInv
<1> SUFFICES ASSUME Init PROVE StrideInv
  OBVIOUS
<1>1. TypeOK
  BY TypeInit
<1>2. ASSUME NEW d \in Dmn, UnitStride(rqs.arg[d]) PROVE DmnInv(d)
  <2>1. usd[d] = <<>> /\ rec_usd_cml[d] = 0 /\ rec_in_cml[d] = 0
    BY DEF Init
  <2>2. lmt[d].rec_in_cml = 0 /\ lmt[d].rec_rmn_prv_ssc = 0
        /\ ~lmt[d].flg_input_complete /\ ~flg_input_complete[d]
    BY DEF Init, LmtInit
  <2>3. FirstRec(rqs.arg[d]) \in Nat
    BY <1>1, <1>2, CurrentType, FirstRecType
  <2>4. Strided(d)
    BY <2>1 DEF Strided
  <2>5. Behind(d, 0)
    BY <2>1, <2>3 DEF Behind, NextRec
  <2>6. ~Current(d)
    BY DEF Init, Current
  <2> QED
    BY <2>1, <2>2, <2>4, <2>5, <2>6 DEF DmnInv
<1> QED
  BY <1>2 DEF StrideInv, Init

\* What stays true of a dimension as long as none of its records is used.
LEMMA StrideFrame ==
  ASSUME NEW d \in Dmn, DmnInv(d),
         UNCHANGED <<rqs, usd[d], rec_usd_cml[d]>>
  PROVE  /\ Strided(d)'
         /\ usd'[d] # <<>> => LastUsed(d)' >= FirstRec(rqs'.arg[d])
         /\ rec_usd_cml'[d] = Len(usd'[d])
         /\ NextRec(d)' = NextRec(d) /\ LastUsed(d)' = LastUsed(d)
         /\ PastLast(d)' <=> PastLast(d)
BY DEF DmnInv, Strided, LastUsed, NextRec, PastLast

\* Other dimensions are not disturbed.
LEMMA OtherDmn ==
  ASSUME TypeOK, NEW d \in Dmn, DmnInv(d), ~Current(d), ~Current(d)',
         pc # "exit",
         UNCHANGED <<rqs, usd[d], rec_usd_cml[d], rec_in_cml[d], lmt[d]>>,
         flg_input_complete'[d] =>
           flg_input_complete[d] \/ lmt[d].flg_input_complete
  PROVE  DmnInv(d)'
<1>1. Behind(d, rec_in_cml[d]) /\ lmt[d].rec_in_cml = rec_in_cml[d]
  BY DEF DmnInv
<1>2. Behind(d, rec_in_cml[d])'
  BY <1>1, StrideFrame DEF Behind
<1>3. (lmt'[d].flg_input_complete \/ flg_input_complete'[d]) => PastLast(d)'
  BY StrideFrame DEF DmnInv
<1> QED
  BY <1>1, <1>2, <1>3, StrideFrame DEF DmnInv

\* Evaluating the limit.
LEMMA StrideEvl ==
  ASSUME TypeOK, Evl, NEW d \in Dmn, UnitStride(rqs.arg[d]), DmnInv(d)
  PROVE  DmnInv(d)'
<1>1. /\ UNCHANGED <<rqs, fl_idx, idx_rec, flg_input_complete, rec_in_cml, rec_usd_cml, usd>>
      /\ pc = "evl" /\ pc' \in {"rec", "exit"} /\ ~Current(d)
  BY DEF Evl, Current, cnt_vars
<1>2. CASE d # idx_rec
  <2>1. ~Current(d)' /\ lmt'[d] = lmt[d]
    BY <1>1, <1>2 DEF Current, Evl, TypeOK
  <2> QED
    BY <1>1, <2>1, OtherDmn
<1>3. CASE d = idx_rec
  <2> DEFINE a == rqs.arg[d]
             l == lmt[d]
             B == rec_in_cml[d]
             sz == DmnSz
             n == rec_usd_cml[d]
             N == NextRec(d)
             last == IF n = 0 THEN 0 ELSE LastUsed(d)
             r == LmtEvl(l, a, sz, n)
  <2>1. /\ a \in ArgType /\ l \in LmtType /\ sz \in Nat /\ n \in Nat /\ B \in Nat
        /\ usd[d] \in Seq(Int) /\ n = Len(usd[d])
    BY CurrentType DEF TypeOK, DmnInv
  <2>2. sz > 0
    BY <2>1 DEF Evl, SyntaxError
  <2>3. Srd(a) \in Nat /\ Srd(a) > 0 /\ FirstRec(a) \in Nat
    BY <2>1, SrdFacts, FirstRecType
  <2>4. /\ n = 0 <=> usd[d] = <<>>
        /\ last \in Int /\ N \in Int
        /\ n = 0 => N = FirstRec(a)
        /\ n # 0 => N = last + Srd(a) /\ last = LastUsed(d)
    BY <2>1, <2>3 DEF NextRec, LastUsed
  <2>5. /\ l.rec_in_cml = B /\ Behind(d, B) /\ l.rec_rmn_prv_ssc = 0
        /\ usd[d] # <<>> => LastUsed(d) >= FirstRec(a)
    BY <1>1 DEF DmnInv
  <2>6. Ready(a, l, n, N, last) /\ UnitStride(a)
    BY <2>4, <2>5 DEF Behind, PastLast, Ready
  <2> HIDE DEF a, l, B, sz, n, N, last
  <2>7. Evaluated(a, l, sz, n, N, last, r)
    BY <2>1, <2>2, <2>4, <2>6, LmtEvlUnit
  <2>8. /\ lmt'[d] = r /\ rec_rmn_prv_ssc' = 0 /\ idx_rec_crr_in' = r.srt
    <3>1. r = LmtEvl(lmt[idx_rec], Arg, DmnSz, rec_usd_cml[idx_rec])
      BY <1>3 DEF Arg, a, l, sz, n
    <3>2. r.rec_rmn_prv_ssc = 0
      BY <2>5, <2>7 DEF Evaluated
    <3> QED
      BY <1>3, <3>1, <3>2 DEF Evl, TypeOK
  <2> HIDE DEF r
  <2>9. DmnSz' = sz /\ rqs'.arg[d] = a /\ rec_in_cml'[d] = B
    BY <1>1 DEF DmnSz, a, B, sz
  <2>10. /\ NextRec(d)' = N /\ Strided(d)' /\ LastUsed(d)' = LastUsed(d)
         /\ usd'[d] # <<>> => LastUsed(d)' >= FirstRec(rqs'.arg[d])
         /\ rec_usd_cml'[d] = Len(usd'[d])
         /\ PastLast(d)' <=> a.usr_max /\ N > LastRec(a)
         /\ PastLast(d)' <=> PastLast(d)
         /\ usd'[d] # <<>> <=> n # 0
    BY <1>1, <2>4, StrideFrame DEF N, PastLast, a
  <2>11. (lmt'[d].flg_input_complete \/ flg_input_complete'[d]) => PastLast(d)'
    <3>1. flg_input_complete[d] => PastLast(d)
      BY DEF DmnInv
    <3> QED
      BY <1>1, <2>7, <2>8, <2>10, <3>1 DEF Evaluated
  <2>12. ASSUME pc' = "rec" PROVE NoData(d)' \/ MoreData(d)'
    <3>1. CASE Superfluous(a, l, sz, n, N, last, r)
      <4>1. n # 0 => last < B + sz /\ last = LastUsed(d)
        BY <2>1, <2>2, <2>4, <2>5, <2>6 DEF Ready
      <4>2. Behind(d, rec_in_cml[d] + DmnSz)'
        <5>1. NextRec(d)' >= (rec_in_cml[d] + DmnSz)' \/ PastLast(d)'
          BY <2>5, <2>9, <2>10, <3>1 DEF Superfluous
        <5>2. ASSUME usd'[d] # <<>>
              PROVE  /\ lmt'[d].rec_skp_vld_prv = (rec_in_cml[d] + DmnSz)' - 1 - LastUsed(d)'
                     /\ LastUsed(d)' < (rec_in_cml[d] + DmnSz)'
          BY <2>1, <2>4, <2>5, <2>8, <2>9, <2>10, <3>1, <4>1, <5>2 DEF Superfluous
        <5> QED
          BY <5>1, <5>2 DEF Behind
      <4> QED
        BY <2>8, <2>12, <3>1, <4>2 DEF NoData, Superfluous
    <3>2. CASE Ranged(a, l, sz, N, r)
      <4>1. EndStrided(d)'
        BY <2>5, <2>8, <2>9, <3>2 DEF EndStrided, Ranged
      <4> QED
        BY <2>5, <2>8, <2>9, <2>10, <2>12, <3>2, <4>1 DEF MoreData, Ranged
    <3> QED
      BY <2>7, <3>1, <3>2 DEF Evaluated
  <2>13. lmt'[d].rec_in_cml = (rec_in_cml[d] + DmnSz)' /\ lmt'[d].rec_rmn_prv_ssc = 0
    BY <2>5, <2>7, <2>8, <2>9 DEF Evaluated
  <2> QED
    BY <1>1, <1>3, <2>8, <2>10, <2>11, <2>12, <2>13 DEF DmnInv, Current
<1> QED
  BY <1>2, <1>3

\* What appending one record index to a history does.
LEMMA AppendFacts ==
  ASSUME NEW q \in Seq(Int), NEW x \in Int
  PROVE  /\ Append(q, x) \in Seq(Int) /\ Append(q, x) # <<>>
         /\ Len(Append(q, x)) = Len(q) + 1 /\ Append(q, x)[Len(q) + 1] = x
<1>1. /\ Append(q, x) \in Seq(Int) /\ Len(q) \in Nat
      /\ Len(Append(q, x)) = Len(q) + 1 /\ Append(q, x)[Len(q) + 1] = x
  OBVIOUS
<1>2. Append(q, x) # <<>>
  <2>1. Len(<<>>) = 0
    OBVIOUS
  <2> QED
    BY <1>1, <2>1
<1> QED
  BY <1>1, <1>2

\* Using the next record of the file, and stepping to the one after it.
LEMMA StrideRecord ==
  ASSUME TypeOK, Record, NEW d \in Dmn, UnitStride(rqs.arg[d]), DmnInv(d)
  PROVE  DmnInv(d)'
<1>1. /\ UNCHANGED <<rqs, fl_idx, idx_rec, lmt, flg_input_complete, rec_in_cml>>
      /\ pc = "rec" /\ pc' \in {"rec", "eod"} /\ DmnSz' = DmnSz
  BY DEF Record, DmnSz
<1>2. CASE d # idx_rec
  <2>1. ~Current(d) /\ ~Current(d)' /\ usd'[d] = usd[d]
        /\ rec_usd_cml'[d] = rec_usd_cml[d]
    BY <1>1, <1>2 DEF Current, Record, ProcessVars, TypeOK
  <2> QED
    BY <1>1, <2>1, OtherDmn
<1>3. CASE d = idx_rec
  <2> DEFINE a == rqs.arg[d]
             s == Srd(a)
             u == usd[d]
             B == rec_in_cml[d]
             i == idx_rec_crr_in
             end == lmt[d].end
  <2>1. /\ a \in ArgType /\ s \in Nat /\ s > 0 /\ B \in Nat /\ i \in Int
        /\ end \in Int /\ DmnSz \in Nat /\ u \in Seq(Int)
        /\ rec_usd_cml[d] = Len(u) /\ FirstRec(a) \in Nat
    BY CurrentType, SrdFacts, FirstRecType DEF TypeOK, DmnInv, LmtType
  <2>2. /\ Strided(d) /\ rec_rmn_prv_ssc = 0 /\ lmt[d].rec_rmn_prv_ssc = 0
        /\ u # <<>> => LastUsed(d) >= FirstRec(a)
        /\ lmt[d].rec_in_cml = B + DmnSz
        /\ NoData(d) \/ MoreData(d)
    BY <1>1, <1>3 DEF DmnInv, Current, DataUsed
  <2>3. RecWanted /\ ~NoData(d)
    BY DEF Record, RecWanted, NoData
  <2>4. /\ EndStrided(d) /\ i >= 0 /\ NextRec(d) = B + i
        /\ \E k \in 0..DmnSz : end = i + k * s
    BY <2>2, <2>3 DEF MoreData
  <2>5. PICK k \in 0..DmnSz : end = i + k * s
    BY <2>4
  <2>6. /\ k * s \in Nat /\ (k > 0 => k * s = s + (k - 1) * s /\ (k - 1) * s \in Nat)
        /\ k = 0 => k * s = 0
        /\ k > 0 => k * s > 0
    BY <2>1, MulFacts
  <2>7. /\ i <= end /\ end < DmnSz /\ lmt[d].rec_skp_vld_prv = DmnSz - 1 - end
        /\ a.usr_max => B + end <= LastRec(a)
        /\ end + s >= DmnSz \/ (a.usr_max /\ B + end + s > LastRec(a))
    BY <2>1, <2>4, <2>5, <2>6 DEF EndStrided
  <2>8. usd'[d] = Append(u, B + i) /\ rec_usd_cml'[d] = rec_usd_cml[d] + 1
    BY <1>3 DEF Record, ProcessVars, TypeOK
  <2>9. /\ usd'[d] # <<>> /\ LastUsed(d)' = B + i /\ NextRec(d)' = B + i + s
        /\ rec_usd_cml'[d] = Len(usd'[d])
    <3>1. B + i \in Int /\ u \in Seq(Int)
      BY <2>1
    <3>2. /\ Len(usd'[d]) = Len(u) + 1 /\ usd'[d] # <<>>
          /\ usd'[d][Len(u) + 1] = B + i
      <4> HIDE DEF u, B, i
      <4> QED
        BY <2>8, <3>1, AppendFacts
    <3>3. LastUsed(d)' = B + i
      BY <3>2 DEF LastUsed
    <3>4. NextRec(d)' = B + i + s
      BY <1>1, <3>2 DEF NextRec
    <3> QED
      BY <2>1, <2>8, <3>2, <3>3, <3>4
  <2>10. LastUsed(d)' >= FirstRec(rqs'.arg[d])
    <3>1. CASE u = <<>>
      BY <1>1, <2>1, <2>4, <2>9, <3>1 DEF NextRec
    <3>2. CASE u # <<>>
      <4>1. B + i = LastUsed(d) + s /\ LastUsed(d) \in Int
        BY <2>1, <2>4, <3>2 DEF NextRec, LastUsed
      <4> QED
        BY <1>1, <2>1, <2>2, <2>9, <3>2, <4>1
    <3> QED
      BY <3>1, <3>2
  <2>11. Strided(d)'
    <3>1. a.usr_max => B + i <= LastRec(a)
      <4>1. a.usr_max => LastRec(a) \in Int
        BY <2>1 DEF LastRec, MaxIdx, CnvIdx, ArgType
      <4> QED
        BY <2>1, <2>7, <4>1
    <3>2. CASE u = <<>>
      <4>1. usd'[d] = <<B + i>> /\ B + i = FirstRec(a)
        BY <2>1, <2>4, <2>8, <3>2 DEF NextRec
      <4> QED
        BY <1>1, <3>1, <4>1 DEF Strided
    <3>3. CASE u # <<>>
      <4>1. /\ Len(u) \in Nat /\ Len(u) > 0 /\ Len(usd'[d]) = Len(u) + 1
            /\ \A j \in 1..Len(u) : usd'[d][j] = u[j]
            /\ usd'[d][Len(u) + 1] = B + i
        BY <2>1, <2>8, <3>3
      <4>2. B + i = u[Len(u)] + s
        BY <2>4, <3>3 DEF NextRec
      <4>3. usd'[d][1] = FirstRec(a)
        BY <2>2, <3>3, <4>1 DEF Strided
      <4>4. \A j \in 1..(Len(usd'[d]) - 1) : usd'[d][j + 1] = usd'[d][j] + s
        <5> SUFFICES ASSUME NEW j \in 1..Len(u) PROVE usd'[d][j + 1] = usd'[d][j] + s
          BY <4>1
        <5>1. CASE j = Len(u)
          BY <4>1, <4>2, <5>1
        <5>2. CASE j < Len(u)
          <6>1. u[j + 1] = u[j] + s
            BY <2>2, <4>1, <5>2 DEF Strided
          <6> QED
            BY <4>1, <5>2, <6>1
        <5> QED
          BY <4>1, <5>1, <5>2
      <4>5. \A j \in 1..Len(usd'[d]) : a.usr_max => usd'[d][j] <= LastRec(a)
        <5> SUFFICES ASSUME NEW j \in 1..(Len(u) + 1), a.usr_max
                     PROVE  usd'[d][j] <= LastRec(a)
          BY <4>1
        <5>1. CASE j = Len(u) + 1
          BY <3>1, <4>1, <5>1
        <5>2. CASE j <= Len(u)
          BY <2>2, <4>1, <5>2 DEF Strided
        <5> QED
          BY <4>1, <5>1, <5>2
      <4> QED
        BY <1>1, <4>3, <4>4, <4>5 DEF Strided
    <3> QED
      BY <3>2, <3>3
  <2>12. (lmt'[d].flg_input_complete \/ flg_input_complete'[d]) => PastLast(d)'
    <3>1. PastLast(d) => PastLast(d)'
      <4>1. a.usr_max => LastRec(a) \in Int
        BY <2>1 DEF LastRec, MaxIdx, CnvIdx, ArgType
      <4> QED
        BY <1>1, <2>1, <2>4, <2>9, <4>1 DEF PastLast
    <3> QED
      BY <1>1, <3>1 DEF DmnInv
  <2>13. EndStrided(d)'
    BY <1>1, <2>4 DEF EndStrided
  <2>14. Ssc(Arg) = 1 /\ RmnSsc = 1 /\ rec_rmn_prv_ssc' = 0
    <3>1. Ssc(Arg) = 1
      BY <1>3 DEF UnitStride, Arg
    <3> QED
      BY <2>2, <3>1 DEF RmnSsc, Record
  <2>15. Arg = a /\ (Break <=> i >= end)
    BY <1>3, <2>14 DEF Break, REC_SRD_LST, Arg
  <2>16. CASE i >= end
    <3>1. pc' = "eod" /\ i = end
      BY <2>1, <2>7, <2>15, <2>16 DEF Record
    <3>2. DataUsed(d)'
      BY <1>1, <2>9, <2>13, <3>1 DEF DataUsed
    <3> QED
      BY <1>1, <1>3, <2>2, <2>9, <2>10, <2>11, <2>12, <2>14, <3>2 DEF DmnInv, Current
  <2>17. CASE i < end
    <3>1. ~Break
      BY <2>1, <2>15, <2>17
    <3>2. NextIdx = i + s
      BY <1>3, <2>1, <2>14 DEF NextIdx, Arg
    <3>3. pc' = "rec" /\ idx_rec_crr_in' = i + s
      BY <1>1, <3>1, <3>2 DEF Record
    <3>4. k > 0 /\ k - 1 \in 0..DmnSz /\ end = (i + s) + (k - 1) * s
      BY <2>1, <2>5, <2>6, <2>17
    <3>5. MoreData(d)'
      <4>1. idx_rec_crr_in' >= 0
        BY <2>1, <2>4, <3>3
      <4>2. NextRec(d)' = rec_in_cml'[d] + idx_rec_crr_in'
        BY <1>1, <2>1, <2>9, <3>3
      <4>3. lmt'[d].end = idx_rec_crr_in' + (k - 1) * Srd(rqs'.arg[d])
        BY <1>1, <3>3, <3>4
      <4>4. k - 1 \in 0..DmnSz'
        BY <1>1, <3>4
      <4> QED
        BY <2>13, <3>3, <4>1, <4>2, <4>3, <4>4 DEF MoreData
    <3> QED
      BY <1>1, <1>3, <2>2, <2>9, <2>10, <2>11, <2>12, <2>14, <3>5 DEF DmnInv, Current
  <2> QED
    BY <2>1, <2>16, <2>17
<1> QED
  BY <1>2, <1>3

\* When the record loop is over, nothing of the file is wanted any more.
LEMMA EndBehind ==
  ASSUME TypeOK, EndDmn, UnitStride(rqs.arg[idx_rec]), DmnInv(idx_rec)
  PROVE  Behind(idx_rec, rec_in_cml[idx_rec] + DmnSz)
<1> DEFINE d == idx_rec
           a == rqs.arg[d]
           B == rec_in_cml[d]
           end == lmt[d].end
<1>1. /\ a \in ArgType /\ Srd(a) \in Nat /\ Srd(a) > 0 /\ B \in Nat
      /\ end \in Int /\ DmnSz \in Nat /\ usd[d] \in Seq(Int)
  BY CurrentType, SrdFacts DEF TypeOK, LmtType
<1>2. NoData(d) \/ MoreData(d) \/ DataUsed(d)
  BY DEF EndDmn, DmnInv, Current
<1>3. ~MoreData(d)
  <2>1. ASSUME MoreData(d) PROVE FALSE
    <3>1. PICK k \in 0..DmnSz : end = idx_rec_crr_in + k * Srd(a)
      BY <2>1 DEF MoreData
    <3>2. k * Srd(a) \in Nat /\ idx_rec_crr_in \in Int
      BY <1>1, MulFacts DEF TypeOK
    <3>3. idx_rec_crr_in >= 0 /\ idx_rec_crr_in < DmnSz /\ pc = "rec"
      BY <1>1, <2>1, <3>1, <3>2 DEF MoreData, EndStrided
    <3> QED
      BY <3>3 DEF EndDmn, RecWanted
  <2> QED
    BY <2>1
<1>4. Behind(d, B + DmnSz)
  <2>1. CASE NoData(d)
    BY <2>1 DEF NoData
  <2>2. CASE DataUsed(d)
    <3>1. /\ EndStrided(d) /\ usd[d] # <<>> /\ LastUsed(d) = B + end
          /\ NextRec(d) = B + end + Srd(a)
      BY <2>2 DEF DataUsed, NextRec, LastUsed
    <3>2. /\ end < DmnSz /\ lmt[d].rec_skp_vld_prv = DmnSz - 1 - end
          /\ end + Srd(a) >= DmnSz \/ (a.usr_max /\ B + end + Srd(a) > LastRec(a))
      BY <3>1 DEF EndStrided
    <3> QED
      <4>1. NextRec(d) >= B + DmnSz \/ PastLast(d)
        BY <1>1, <3>1, <3>2 DEF PastLast
      <4>2. LastUsed(d) < B + DmnSz
            /\ lmt[d].rec_skp_vld_prv = (B + DmnSz) - 1 - LastUsed(d)
        BY <1>1, <3>1, <3>2
      <4> QED
        BY <4>1, <4>2 DEF Behind
  <2> QED
    BY <1>2, <1>3, <2>1, <2>2
<1> QED
  BY <1>4

\* Accounting for the file.
LEMMA StrideEndDmn ==
  ASSUME TypeOK, EndDmn, NEW d \in Dmn, UnitStride(rqs.arg[d]), DmnInv(d)
  PROVE  DmnInv(d)'
<1>1. /\ UNCHANGED <<rqs, fl_idx, flg_input_complete, rec_usd_cml, usd>>
      /\ pc \in {"rec", "eod"} /\ pc' \in {"evl", "eof", "exit"} /\ ~Current(d)'
  BY DEF EndDmn, Exit, Current, cnt_vars
<1>2. CASE d # idx_rec
  <2>1. ~Current(d) /\ lmt'[d] = lmt[d] /\ rec_in_cml'[d] = rec_in_cml[d]
    BY <1>2 DEF Current, EndDmn, TypeOK
  <2> QED
    BY <1>1, <2>1, OtherDmn
<1>3. CASE d = idx_rec
  <2> DEFINE a == rqs.arg[d]
             B == rec_in_cml[d]
             end == lmt[d].end
  <2>1. /\ a \in ArgType /\ Srd(a) \in Nat /\ Srd(a) > 0 /\ B \in Nat
        /\ end \in Int /\ DmnSz \in Nat /\ usd[d] \in Seq(Int)
    BY CurrentType, SrdFacts DEF TypeOK, LmtType
  <2>2. rec_rmn_prv_ssc = 0 /\ lmt[d].rec_in_cml = B + DmnSz
    BY <1>1, <1>3 DEF DmnInv, Current
  <2>3. /\ rec_in_cml'[d] = B + DmnSz
        /\ lmt'[d] = [lmt[d] EXCEPT !.rec_rmn_prv_ssc = 0]
    BY <1>3, <2>2 DEF EndDmn, TypeOK
  <2>4. /\ lmt'[d].rec_in_cml = B + DmnSz /\ lmt'[d].rec_rmn_prv_ssc = 0
        /\ lmt'[d].rec_skp_vld_prv = lmt[d].rec_skp_vld_prv
        /\ lmt'[d].flg_input_complete = lmt[d].flg_input_complete
    BY <2>2, <2>3 DEF TypeOK, LmtType
  <2>5. Behind(d, B + DmnSz)
    BY <1>3, EndBehind
  <2>6. Behind(d, rec_in_cml[d])'
    BY <1>1, <2>3, <2>4, <2>5, StrideFrame DEF Behind
  <2>7. (lmt'[d].flg_input_complete \/ flg_input_complete'[d]) => PastLast(d)'
    BY <1>1, <2>4, StrideFrame DEF DmnInv
  <2> QED
    BY <1>1, <2>3, <2>4, <2>6, <2>7, StrideFrame DEF DmnInv
<1> QED
  BY <1>2, <1>3

\* Each dimension, for every step.
LEMMA StrideDmnStep ==
  ASSUME TypeOK, [Next]_vars, NEW d \in Dmn, UnitStride(rqs.arg[d]), DmnInv(d)
  PROVE  DmnInv(d)'
<1>1. CASE EvlError
  <2>1. pc' = "exit" /\ UNCHANGED <<rqs, usd, rec_usd_cml, lmt, flg_input_complete>>
    BY <1>1 DEF EvlError, Exit, cnt_vars
  <2>2. (lmt'[d].flg_input_complete \/ flg_input_complete'[d]) => PastLast(d)'
    BY <2>1, StrideFrame DEF DmnInv
  <2> QED
    BY <2>1, <2>2, StrideFrame DEF DmnInv
<1>2. CASE Evl
  BY <1>2, StrideEvl
<1>3. CASE Record
  BY <1>3, StrideRecord
<1>4. CASE EndDmn
  BY <1>4, StrideEndDmn
<1>5. CASE CloseFile
  <2>1. ~Current(d) /\ ~Current(d)' /\ pc # "exit"
    BY <1>5 DEF CloseFile, Current
  <2>2. UNCHANGED <<rqs, usd[d], rec_usd_cml[d], rec_in_cml[d], lmt[d]>>
    BY <1>5 DEF CloseFile, cnt_vars
  <2>3. flg_input_complete'[d] =>
          flg_input_complete[d] \/ lmt[d].flg_input_complete
    BY <1>5 DEF CloseFile
  <2> QED
    BY <2>1, <2>2, <2>3, OtherDmn
<1>6. CASE Normalise \/ PutVar \/ CloseOutput
  <2>1. ~Current(d) /\ ~Current(d)' /\ pc # "exit"
    BY <1>6 DEF Normalise, PutVar, CloseOutput, Exit, Current
  <2>2. UNCHANGED <<rqs, usd[d], rec_usd_cml[d], rec_in_cml[d], lmt[d],
                    flg_input_complete>>
    BY <1>6 DEF Normalise, PutVar, CloseOutput, cnt_vars
  <2> QED
    BY <2>1, <2>2, OtherDmn
<1>7. CASE UNCHANGED vars
  <2>1. UNCHANGED <<rqs, pc, fl_idx, idx_rec, lmt, flg_input_complete, usd,
                    rec_usd_cml, rec_in_cml, rec_rmn_prv_ssc, idx_rec_crr_in>>
    BY <1>7 DEF vars, cnt_vars, rec_vars
  <2> QED
    BY <2>1 DEF DmnInv, Strided, Behind, NextRec, PastLast, LastUsed, Current,
                NoData, MoreData, DataUsed, EndStrided, DmnSz
<1> QED
  BY <1>1, <1>2, <1>3, <1>4, <1>5, <1>6, <1>7 DEF Next, Terminated

LEMMA StrideStep == TypeOK /\ StrideInv /\ [Next]_vars => StrideInv'
<1> SUFFICES ASSUME TypeOK, StrideInv, [Next]_vars PROVE StrideInv'
  OBVIOUS
<1>1. rqs' = rqs
  BY DEF Next, EvlError, Evl, Record, EndDmn, CloseFile, Normalise, PutVar,
         CloseOutput, Terminated, vars
<1>2. \A d \in Dmn : UnitStride(rqs.arg[d]) => DmnInv(d)'
  BY StrideDmnStep DEF StrideInv
<1>3. pc' \in {"nrm", "put", "done"} =>
        (FlNbr = fl_idx \/ \A d \in Dmn : flg_input_complete[d])'
  <2>1. CASE CloseFile
    BY <2>1 DEF CloseFile, AllComplete, FlNbr
  <2>2. CASE pc \in {"nrm", "put", "done"} /\ UNCHANGED <<rqs, fl_idx, flg_input_complete>>
    BY <2>2 DEF StrideInv, FlNbr
  <2>3. CASE pc' \notin {"nrm", "put", "done"}
    BY <2>3
  <2>4. CASE Normalise \/ PutVar \/ CloseOutput
    BY <2>2, <2>4 DEF Normalise, PutVar, CloseOutput
  <2>5. CASE EvlError \/ Evl \/ Record \/ EndDmn
    BY <2>3, <2>5 DEF EvlError, Evl, Record, EndDmn, Exit
  <2>6. CASE UNCHANGED vars
    BY <2>2, <2>3, <2>6 DEF vars
  <2> QED
    BY <2>1, <2>4, <2>5, <2>6 DEF Next, Terminated
<1> QED
  BY <1>1, <1>2, <1>3 DEF StrideInv

LEMMA StrideImplied == TypeOK /\ StrideInv => StrideKept
<1> SUFFICES ASSUME TypeOK, StrideInv, NEW d \in Dmn, UnitStride(rqs.arg[d])
             PROVE  /\ Strided(d)
                    /\ pc \in {"nrm", "put", "done"} =>
                         PastLast(d) \/ (fl_idx = FlNbr /\ NextRec(d) >= rec_in_cml[d])
  BY DEF StrideKept
<1>1. DmnInv(d)
  BY DEF StrideInv
<1>2. Strided(d)
  BY <1>1 DEF DmnInv
<1>3. ASSUME pc \in {"nrm", "put", "done"}
      PROVE  PastLast(d) \/ (fl_idx = FlNbr /\ NextRec(d) >= rec_in_cml[d])
  <2>1. Behind(d, rec_in_cml[d])
    BY <1>1, <1>3 DEF DmnInv, Current
  <2>2. fl_idx = FlNbr \/ PastLast(d)
    BY <1>1, <1>3 DEF StrideInv, DmnInv
  <2> QED
    BY <2>1, <2>2 DEF Behind
<1> QED
  BY <1>2, <1>3

\* The inductive invariant holds in every reachable state.
THEOREM StrideInvariant == Spec => []StrideInv
<1> QED
  BY TypeInit, TypeStep, StrideInit, StrideStep, PTL DEF Spec

\* With unit sub-cycles the records used are first, first + srd, ... up to
\* the maximum or the end of the last file, none lost, repeated or shifted at
\* a file boundary: for all file sizes, strides and numbers of dimensions.
THEOREM StrideCorrect == Spec => []StrideKept
<1> QED
  BY TypeInit, TypeStep, StrideInit, StrideStep, StrideImplied, PTL DEF Spec

-----------------------------------------------------------------------------
(* What is written stays.                                                  *)

\* A record written behind those of a variable.
LEMMA PutRecBehind ==
  ASSUME NEW S, NEW s \in Seq(S), NEW x
  PROVE  /\ Len(PutRec(s, Len(s), x)) = Len(s) + 1
         /\ \A k \in DOMAIN s : k \in DOMAIN PutRec(s, Len(s), x) /\ PutRec(s, Len(s), x)[k] = s[k]
<1>1. PutRec(s, Len(s), x)
      = [k \in 1..(Len(s) + 1) |-> IF k = Len(s) + 1 THEN x ELSE IF k <= Len(s) THEN s[k] ELSE FILL]
  BY DEF PutRec
<1> QED
  BY <1>1

LEMMA VarFacts ==
  /\ \A v \in Var : VarPrc[v].dmn \in Dmn /\ v \in VarsOf(VarPrc[v].dmn)
  /\ \A d \in Dmn : \A v \in VarsOf(d) : v \in Var /\ VarPrc[v].dmn = d
  /\ Var \subseteq Nat
<1>1. Var = 1..Len(VarPrc) /\ \A v \in Var : VarPrc[v].dmn \in Dmn
  <2> DEFINE S == [dmn : Dmn, grp : STRING, nm : STRING]
  <2>1. VarPrc \in Seq(S)
    BY VarPrcAssumption
  <2>2. Var = 1..Len(VarPrc) /\ \A v \in Var : VarPrc[v] \in S
    <3> HIDE DEF S
    <3> QED
      BY <2>1 DEF Var
  <2> QED
    BY <2>2
<1> QED
  BY <1>1 DEF VarsOf

LEMMA OutInit == Init => OutInv /\ TrailInv
<1> SUFFICES ASSUME Init PROVE OutInv /\ TrailInv
  OBVIOUS
<1>1. rqs.apn \in Nat
  BY RequestsAssumption DEF Init, RequestType
<1>2. \A v \in Var : Len(out[v]) = rqs.apn
  BY <1>1 DEF Init
<1>3. OutInv
  BY <1>2, VarFacts DEF Init, OutInv
<1> QED
  BY <1>3 DEF Init, TrailInv

\* Steps that write nothing.
LEMMA OutEvl == TypeOK /\ OutInv /\ TrailInv /\ Evl => OutInv' /\ TrailInv' /\ Kept
<1> SUFFICES ASSUME TypeOK, OutInv, TrailInv, Evl PROVE OutInv' /\ TrailInv' /\ Kept
  OBVIOUS
<1>1. pc = "evl" /\ pc' \in {"exit", "rec"} /\ UNCHANGED <<rqs, idx_rec, idx, out, srt_out, FLG_BFR_NRM>>
  BY DEF Evl, bfr_vars
<1>2. PICK v \in LastVar(idx_rec) :
        idx_rec_out' = IF rqs.apn = 0 THEN idx_rec_out ELSE [idx_rec_out EXCEPT ![idx_rec] = Len(out[v])]
  BY DEF Evl
<1>3. v \in Var /\ VarPrc[v].dmn = idx_rec /\ idx_rec \in Dmn
  BY VarFacts DEF LastVar, TypeOK
<1>4. ASSUME NEW u \in Var, pc' = "rec"
      PROVE  /\ \A w \in VarsOf(VarPrc[u].dmn) : Len(out[w]) = Len(out[u])
             /\ rqs.apn = 0 \/ VarPrc[u].dmn = idx_rec => idx_rec_out'[VarPrc[u].dmn] = Len(out[u])
  <2>1. /\ \A w \in VarsOf(VarPrc[u].dmn) : Len(out[w]) = Len(out[u])
        /\ rqs.apn = 0 => idx_rec_out[VarPrc[u].dmn] = Len(out[u])
    BY <1>1 DEF OutInv
  <2>2. CASE rqs.apn = 0
    BY <1>2, <2>1, <2>2
  <2>3. CASE rqs.apn # 0 /\ VarPrc[u].dmn = idx_rec
    <3>1. Len(out[v]) = Len(out[u])
      BY <1>3, <2>1, <2>3, VarFacts
    <3> QED
      BY <1>2, <1>3, <2>1, <2>3, <3>1 DEF TypeOK
  <2>4. CASE rqs.apn # 0 /\ VarPrc[u].dmn # idx_rec
    BY <2>1, <2>4
  <2> QED
    BY <2>2, <2>3, <2>4
<1>5. OutInv'
  BY <1>1, <1>4 DEF OutInv
<1>6. TrailInv'
  BY <1>1 DEF TrailInv
<1> QED
  BY <1>1, <1>5, <1>6 DEF Kept

LEMMA OutQuiet ==
  ASSUME OutInv, TrailInv, UNCHANGED <<rqs, idx, out, srt_out, FLG_BFR_NRM, idx_rec_out>>,
         pc \notin {"put", "done", "exit"} \/ pc' \in {"done", "exit"},
         pc' = "rec" => pc = "rec" /\ idx_rec' = idx_rec,
         pc' = "put" => FLG_BFR_NRM
  PROVE  OutInv' /\ TrailInv' /\ Kept
<1>1. OutInv'
  BY DEF OutInv
<1>2. TrailInv'
  BY DEF TrailInv
<1> QED
  BY <1>1, <1>2 DEF Kept

\* A record is read, and in ncrcat or at the end of a group written.
LEMMA OutRecord == TypeOK /\ OutInv /\ TrailInv /\ Record => OutInv' /\ TrailInv' /\ Kept
<1> SUFFICES ASSUME TypeOK, OutInv, TrailInv, Record PROVE OutInv' /\ TrailInv' /\ Kept
  OBVIOUS
<1> DEFINE now == VarsOf(idx_rec)
           written == rqs.prg = "ncrcat" \/ NrmWrt
           n == idx_rec_out[idx_rec]
<1>1. pc = "rec" /\ pc' \in {"rec", "eod"} /\ UNCHANGED <<rqs, idx_rec, idx>> /\ ProcessVars
  BY DEF Record
<1>2. idx_rec_out' = IF written THEN [idx_rec_out EXCEPT ![idx_rec] = @ + 1] ELSE idx_rec_out
  BY DEF Record, NextOut
<1>3. idx_rec \in Dmn /\ n \in Nat /\ \A v \in Var : out[v] \in Seq(Seq(Int)) /\ Len(out[v]) \in Nat
  BY DEF TypeOK
<1>4. \A v \in Var : /\ \A w \in VarsOf(VarPrc[v].dmn) : Len(out[w]) = Len(out[v])
                     /\ VarPrc[v].dmn = idx_rec => n = Len(out[v])
                     /\ rqs.apn = 0 => idx_rec_out[VarPrc[v].dmn] = Len(out[v])
  BY <1>1 DEF OutInv
<1>5. \A v \in Var : IF v \in now /\ written
                     THEN \E x : out'[v] = PutRec(out[v], Len(out[v]), x)
                     ELSE out'[v] = out[v]
  <2> SUFFICES ASSUME NEW v \in Var
               PROVE  IF v \in now /\ written THEN \E x : out'[v] = PutRec(out[v], Len(out[v]), x)
                                              ELSE out'[v] = out[v]
    OBVIOUS
  <2>1. out'[v] = IF v \in now /\ rqs.prg = "ncrcat"
                  THEN PutRec(out[v], n, <<rec_in_cml[idx_rec] + idx_rec_crr_in>>)
                  ELSE IF v \in now /\ NrmWrt THEN PutRec(out[v], n, bfr'[v]) ELSE out[v]
    BY <1>1 DEF ProcessVars
  <2>2. v \in now => n = Len(out[v])
    BY <1>4, VarFacts DEF VarsOf
  <2> QED
    BY <2>1, <2>2
<1>6. \A v \in Var : IF v \in now /\ written
                     THEN /\ Len(out'[v]) = Len(out[v]) + 1
                          /\ \A k \in DOMAIN out[v] : k \in DOMAIN out'[v] /\ out'[v][k] = out[v][k]
                     ELSE out'[v] = out[v]
  BY <1>3, <1>5, PutRecBehind
<1>7. Kept
  BY <1>6 DEF Kept
<1>8. ASSUME NEW v \in Var
      PROVE  /\ \A w \in VarsOf(VarPrc[v].dmn) : Len(out'[w]) = Len(out'[v])
             /\ rqs.apn = 0 \/ VarPrc[v].dmn = idx_rec => idx_rec_out'[VarPrc[v].dmn] = Len(out'[v])
  <2>1. v \in now <=> VarPrc[v].dmn = idx_rec
    BY DEF VarsOf
  <2>2. \A w \in VarsOf(VarPrc[v].dmn) : w \in Var /\ (w \in now <=> v \in now)
    BY DEF VarsOf
  <2>3. \A w \in VarsOf(VarPrc[v].dmn) : Len(out'[w]) = Len(out'[v])
    BY <1>4, <1>6, <2>2
  <2>4. VarPrc[v].dmn = idx_rec => idx_rec_out'[VarPrc[v].dmn] = Len(out'[v])
    BY <1>2, <1>3, <1>4, <1>6, <2>1 DEF TypeOK
  <2>5. VarPrc[v].dmn # idx_rec /\ rqs.apn = 0 => idx_rec_out'[VarPrc[v].dmn] = Len(out'[v])
    BY <1>2, <1>3, <1>4, <1>6, <2>1 DEF TypeOK
  <2> QED
    BY <2>3, <2>4, <2>5
<1>9. OutInv'
  BY <1>1, <1>8 DEF OutInv
<1>10. FLG_BFR_NRM' = (rqs.prg = "ncra" /\ ~NrmWrt)
  BY <1>1 DEF ProcessVars
<1>11. OneDimension /\ FLG_BFR_NRM' => \A v \in Var : srt_out'[v] = Len(out'[v])
  <2> SUFFICES ASSUME OneDimension, rqs.prg = "ncra", ~NrmWrt, NEW v \in Var
               PROVE  srt_out'[v] = Len(out'[v])
    BY <1>10
  <2>1. VarPrc[v].dmn = idx_rec /\ v \in now
    BY VarFacts, <1>3 DEF OneDimension, Dmn, VarsOf
  <2>2. srt_out'[v] = n
    BY <1>1, <2>1 DEF ProcessVars
  <2> QED
    BY <1>4, <1>6, <2>1, <2>2
<1>12. TrailInv'
  BY <1>1, <1>10, <1>11 DEF TrailInv
<1> QED
  BY <1>7, <1>9, <1>12

\* A trailing write.
LEMMA OutPutVar ==
  ASSUME TypeOK, OutInv, TrailInv, PutVar
  PROVE  OutInv' /\ TrailInv' /\ (OneDimension => Kept)
<1>1. pc = "put" /\ pc' \in {"put", "exit"} /\ idx \in Var /\ UNCHANGED <<rqs, FLG_BFR_NRM, srt_out, bfr>>
  BY DEF PutVar, Exit
<1>2. OutInv'
  BY <1>1 DEF OutInv
<1>3. CASE ~OneDimension
  BY <1>1, <1>2, <1>3 DEF TrailInv
<1>4. CASE OneDimension /\ UNCHANGED <<out, idx>>
  BY <1>1, <1>2, <1>4 DEF TrailInv, Kept
<1>5. CASE OneDimension /\ ~UNCHANGED <<out, idx>>
  <2>1. /\ out' = [v \in Var |-> IF v \in OutVar(idx) THEN PutRec(out[v], srt_out[idx], bfr[idx]) ELSE out[v]]
        /\ idx' = idx + 1
    BY <1>5 DEF PutVar
  <2>2. \A v \in OutVar(idx) : v = idx
    BY <1>1, <1>5 DEF OutVar, OneDimension
  <2>3. srt_out[idx] = Len(out[idx]) /\ out[idx] \in Seq(Seq(Int))
    BY <1>1, <1>5, VarFacts DEF TrailInv, TypeOK
  <2>4. \A v \in Var \ {idx} : out'[v] = out[v]
    BY <2>1, <2>2
  <2>5. out'[idx] = out[idx] \/ out'[idx] = PutRec(out[idx], Len(out[idx]), bfr[idx])
    BY <1>1, <2>1, <2>3
  <2>6. Kept
    BY <2>3, <2>4, <2>5, PutRecBehind DEF Kept
  <2>7. \A v \in Var : v >= idx' => v >= idx /\ v # idx
    BY <1>1, <2>1, VarFacts
  <2>8. TrailInv'
    BY <1>1, <2>4, <2>7 DEF TrailInv
  <2> QED
    BY <1>2, <2>6, <2>8
<1> QED
  BY <1>3, <1>4, <1>5

LEMMA OutStep ==
  ASSUME TypeOK, OutInv, TrailInv, [Next]_vars
  PROVE  OutInv' /\ TrailInv' /\ (pc # "put" \/ OneDimension => Kept)
<1> USE DEF cnt_vars, rec_vars, bfr_vars
<1>1. CASE EvlError
  BY <1>1, OutQuiet DEF EvlError, Exit
<1>2. CASE Evl
  BY <1>2, OutEvl
<1>3. CASE Record
  BY <1>3, OutRecord
<1>4. CASE EndDmn
  BY <1>4, OutQuiet DEF EndDmn, Exit
<1>5. CASE CloseFile
  BY <1>5, OutQuiet DEF CloseFile
<1>6. CASE Normalise
  BY <1>6, OutQuiet DEF Normalise
<1>7. CASE PutVar
  BY <1>7, OutPutVar DEF PutVar
<1>8. CASE CloseOutput
  BY <1>8, OutQuiet DEF CloseOutput
<1>9. CASE UNCHANGED vars
  BY <1>9 DEF vars, OutInv, TrailInv, Kept
<1> QED
  BY <1>1, <1>2, <1>3, <1>4, <1>5, <1>6, <1>7, <1>8, <1>9 DEF Next, Terminated

\* Output indices only move on, for every request: while files are read, no
\* record of the output file is written twice (the record loop, REC_APN and
\* idx_rec_out of main() in ncra.c).
THEOREM NotRewrittenInLoop == Spec => [][pc # "put" => Kept]_vars
<1>1. TypeOK /\ OutInv /\ TrailInv /\ [Next]_vars => OutInv' /\ TrailInv' /\ (pc # "put" => Kept)
  BY OutStep
<1>2. Spec => [](TypeOK /\ OutInv /\ TrailInv)
  BY <1>1, OutInit, TypeCorrect, PTL DEF Spec
<1> QED
  BY <1>1, <1>2, PTL DEF Spec

\* Nor after the file loop, for ncrcat, and for ncra with one record
\* dimension and variables of different names.
THEOREM NeverRewritten ==
  ASSUME OneDimension \/ \A r \in Requests : r.prg = "ncrcat"
  PROVE  Spec => OutputNeverRewritten
<1> DEFINE Asked == rqs \in Requests
           Inv == TypeOK /\ OutInv /\ TrailInv /\ Asked
<1>1. Init => Inv
  BY OutInit, TypeInit DEF Init
<1>2. Inv /\ [Next]_vars => Inv'
  <2> SUFFICES ASSUME Inv, [Next]_vars PROVE Inv'
    OBVIOUS
  <2>1. rqs' = rqs
    BY DEF Next, EvlError, Evl, Record, EndDmn, CloseFile, Normalise, PutVar, CloseOutput, Terminated, vars
  <2> QED
    BY <2>1, TypeStep, OutStep
<1>3. Inv /\ [Next]_vars => [Kept]_vars
  <2> SUFFICES ASSUME Inv, Next PROVE Kept
    OBVIOUS
  <2>1. pc = "put" => OneDimension
    BY DEF TrailInv
  <2> QED
    BY <2>1, OutStep
<1> QED
  BY <1>1, <1>2, <1>3, PTL DEF Spec, OutputNeverRewritten

-----------------------------------------------------------------------------
(* Functions defined along the natural numbers up to n.                    *)

\* Every non-empty set of natural numbers has a smallest element.
LEMMA NatMin ==
  ASSUME NEW T, T \subseteq Nat, T # {}
  PROVE  \E x \in T : \A y \in T : x <= y
<1>1. {ss \in Nat \X Nat : ss[1] < ss[2]} = OpToRel(<, Nat)
  BY DEF OpToRel
<1>2. IsWellFoundedOn({ss \in Nat \X Nat : ss[1] < ss[2]}, Nat)
  BY <1>1, NatLessThanWellFounded, Zenon
<1>3. PICK x \in T : \A y \in T : ~(<<y, x>> \in {ss \in Nat \X Nat : ss[1] < ss[2]})
  BY <1>2, WFMin, Zenon
<1>4. ASSUME NEW y \in T PROVE ~(y < x)
  <2>1. y \in Nat /\ x \in Nat
    BY <1>3
  <2>2. ASSUME y < x PROVE <<y, x>> \in {ss \in Nat \X Nat : ss[1] < ss[2]}
    BY <2>1, <2>2
  <2>3. QED
    BY <1>3, <2>2, Zenon
<1>5. QED
  <2>1. \A y \in T : x <= y
    BY <1>4
  <2>2. QED
    BY <2>1

\* What holds of 0 and goes on holds up to n.
LEMMA UpTo ==
  ASSUME NEW n \in Nat, NEW T, 0 \in T, \A i \in 1..n : i - 1 \in T => i \in T
  PROVE  \A i \in 0..n : i \in T
<1> DEFINE bad == {i \in 0..n : i \notin T}
<1>1. CASE bad = {}
  BY <1>1
<1>2. CASE bad # {}
  <2>1. bad \subseteq Nat
    OBVIOUS
  <2>2. PICK x \in bad : \A y \in bad : x <= y
    BY <1>2, <2>1, NatMin
  <2>3. x \in 1..n /\ x - 1 \in 0..n /\ x - 1 \notin bad
    BY <2>2
  <2>4. QED
    BY <2>2, <2>3
<1>3. QED
  BY <1>1, <1>2

\* A function that starts with b and goes on with F, and that there is one.
Walks(f, n, b, F) == f[0] = b /\ \A i \in 1..n : f[i] = F[i][f[i - 1]]

\* Such a function exists for every length.
LEMMA Along ==
  ASSUME NEW n \in Nat, NEW S, NEW b \in S, NEW F \in [1..n -> [S -> S]]
  PROVE  \E f \in [0..n -> S] : Walks(f, n, b, F)
<1> DEFINE Going(f, m) == f[0] = b /\ \A i \in 1..m : f[i] = F[i][f[i - 1]]
           T == {m \in 0..n : \E f \in [0..n -> S] : Going(f, m)}
<1>1. 0 \in T
  <2>1. [i \in 0..n |-> b] \in [0..n -> S] /\ Going([i \in 0..n |-> b], 0)
    OBVIOUS
  <2>2. 0 \in 0..n
    OBVIOUS
  <2>3. QED
    BY <2>1, <2>2, Zenon
<1>2. ASSUME NEW m \in 1..n, m - 1 \in T PROVE m \in T
  <2>1. PICK f \in [0..n -> S] : Going(f, m - 1)
    BY <1>2
  <2> DEFINE g == [f EXCEPT ![m] = F[m][f[m - 1]]]
  <2>2. f[m - 1] \in S /\ F[m][f[m - 1]] \in S
    OBVIOUS
  <2>3. g \in [0..n -> S]
    BY <2>2
  <2>4. \A i \in 0..n : i # m => g[i] = f[i]
    OBVIOUS
  <2>5. Going(g, m)
    <3>1. g[0] = b
      BY <2>1, <2>4
    <3>2. ASSUME NEW i \in 1..m PROVE g[i] = F[i][g[i - 1]]
      <4>1. CASE i = m
        BY <2>4, <4>1
      <4>2. CASE i # m
        BY <2>1, <2>4, <4>2
      <4>3. QED
        BY <4>1, <4>2
    <3>3. QED
      BY <3>1, <3>2
  <2>6. m \in 0..n
    OBVIOUS
  <2>7. QED
    BY <2>3, <2>5, <2>6, Zenon
<1>3. n \in T
  <2> HIDE DEF T
  <2>1. \A i \in 0..n : i \in T
    BY <1>1, <1>2, UpTo
  <2>2. QED
    BY <2>1
<1>4. QED
  BY <1>3 DEF Walks

-----------------------------------------------------------------------------
(* The records of a dimension.                                             *)

\* The records in the first files are those in fewer files and the last one's.
LEMMA CmlFacts ==
  ASSUME NEW r \in RequestType, NEW d \in Dmn
  PROVE  LET cml == Selection!RecCml(r, d)
         IN  /\ cml \in [0..Len(r.fl) -> Nat] /\ cml[0] = 0
             /\ \A f \in 1..Len(r.fl) : cml[f] = cml[f - 1] + r.fl[f][d]
<1> DEFINE n == Len(r.fl)
           F == [i \in 1..n |-> [a \in Nat |-> a + r.fl[i][d]]]
           Eq(f) == f = [i \in 0..n |-> IF i = 0 THEN 0 ELSE f[i - 1] + r.fl[i][d]]
           cml == CHOOSE f : Eq(f)
<1>1. Selection!RecCml(r, d) = cml
  BY DEF Selection!RecCml
<1>2. n \in Nat /\ \A i \in 1..n : r.fl[i][d] \in Nat
  BY DEF RequestType
<1> HIDE DEF n
<1>3. F \in [1..n -> [Nat -> Nat]]
  BY <1>2
<1>4. PICK g \in [0..n -> Nat] : Walks(g, n, 0, F)
  <2> HIDE DEF F
  <2>1. QED
    BY <1>2, <1>3, Along
<1>5. Eq(g)
  <2>1. g[0] = 0
    BY <1>4 DEF Walks
  <2>2. \A i \in 1..n : g[i] = g[i - 1] + r.fl[i][d]
    <3>1. SUFFICES ASSUME NEW i \in 1..n PROVE g[i] = g[i - 1] + r.fl[i][d]
      OBVIOUS
    <3>2. g[i - 1] \in Nat
      BY <1>2
    <3>3. g[i] = F[i][g[i - 1]]
      BY <1>4 DEF Walks
    <3>4. QED
      BY <3>2, <3>3
  <2>3. \A i \in 0..n : g[i] = IF i = 0 THEN 0 ELSE g[i - 1] + r.fl[i][d]
    BY <1>2, <2>1, <2>2
  <2>4. QED
    BY <2>3
<1>6. Eq(cml)
  BY <1>5
<1>7. DOMAIN cml = 0..n /\ \A i \in 0..n : cml[i] = IF i = 0 THEN 0 ELSE cml[i - 1] + r.fl[i][d]
  BY <1>6
<1>10. cml = [i \in 0..n |-> cml[i]]
  <2>1. cml = [i \in 0..n |-> IF i = 0 THEN 0 ELSE cml[i - 1] + r.fl[i][d]]
    BY <1>6
  <2> HIDE DEF cml
  <2>2. \A i \in 0..n : cml[i] = IF i = 0 THEN 0 ELSE cml[i - 1] + r.fl[i][d]
    BY <1>7
  <2>3. QED
    BY <2>1, <2>2
<1> HIDE DEF cml
<1>8. cml[0] = 0 /\ \A i \in 1..n : cml[i] = cml[i - 1] + r.fl[i][d]
  BY <1>2, <1>7
<1>9. \A i \in 0..n : cml[i] \in Nat
  <2> DEFINE T == {i \in 0..n : cml[i] \in Nat}
  <2>1. 0 \in T
    BY <1>2, <1>8
  <2>2. ASSUME NEW i \in 1..n, i - 1 \in T PROVE i \in T
    <3>1. cml[i - 1] \in Nat /\ i \in 0..n /\ r.fl[i][d] \in Nat
      BY <1>2, <2>2
    <3>2. cml[i] = cml[i - 1] + r.fl[i][d]
      BY <1>8
    <3>3. cml[i] \in Nat
      BY <3>1, <3>2
    <3>4. QED
      BY <3>1, <3>3
  <2> HIDE DEF T
  <2>3. \A i \in 0..n : i \in T
    BY <1>2, <2>1, <2>2, UpTo
  <2>4. QED
    BY <2>3 DEF T
<1>11. QED
  BY <1>1, <1>8, <1>9, <1>10 DEF n

\* There are no fewer in all files than in the first ones.
LEMMA CmlGrows ==
  ASSUME NEW r \in RequestType, NEW d \in Dmn, NEW f \in 0..Len(r.fl)
  PROVE  Selection!RecCml(r, d)[f] <= Selection!RecTtl(r, d)
<1> DEFINE n == Len(r.fl)
           cml == Selection!RecCml(r, d)
           T == {i \in 0..n : cml[n - i] <= cml[n]}
<1>1. /\ cml \in [0..n -> Nat]
      /\ \A i \in 1..n : cml[i] = cml[i - 1] + r.fl[i][d]
  BY CmlFacts
<1>2. n \in Nat /\ \A i \in 1..n : r.fl[i][d] \in Nat
  BY DEF RequestType
<1> HIDE DEF n, cml
<1>3. 0 \in T
  BY <1>1, <1>2
<1>4. ASSUME NEW i \in 1..n, i - 1 \in T PROVE i \in T
  <2>1. n - (i - 1) \in 1..n /\ n - i = (n - (i - 1)) - 1 /\ n - i \in 0..n /\ n \in 0..n
    BY <1>2
  <2>2. cml[n - (i - 1)] = cml[n - i] + r.fl[n - (i - 1)][d]
    BY <1>1, <2>1
  <2>3. cml[n - i] \in Nat /\ cml[n - (i - 1)] \in Nat /\ cml[n] \in Nat
        /\ r.fl[n - (i - 1)][d] \in Nat
    BY <1>1, <1>2, <2>1
  <2>4. cml[n - (i - 1)] <= cml[n]
    BY <1>4
  <2>5. cml[n - i] <= cml[n]
    BY <2>2, <2>3, <2>4
  <2>6. QED
    BY <2>1, <2>5
<1> HIDE DEF T
<1>5. \A i \in 0..n : i \in T
  BY <1>2, <1>3, <1>4, UpTo
<1>6. n - f \in T /\ n - (n - f) = f
  BY <1>2, <1>5 DEF n
<1>7. QED
  BY <1>6 DEF T, n, cml, Selection!RecTtl


-----------------------------------------------------------------------------
(* The records wanted by a stride.                                         *)

\* One-element sequences put together.
LEMMA FlattenOnes ==
  ASSUME NEW n \in Nat, NEW x \in [1..n -> Int]
  PROVE  Selection!FlattenSeq([k \in 1..n |-> <<x[k]>>]) = x
<1> DEFINE s == [k \in 1..n |-> <<x[k]>>]
           Eq(f) == f = [i \in 1..Len(s) |-> IF i = 1 THEN s[i] ELSE f[i - 1] \o s[i]]
           flat == CHOOSE f : Eq(f)
           G == [i \in 1..n |-> [k \in 1..i |-> x[k]]]
<1>1. Len(s) = n
  OBVIOUS
<1>2. CASE n = 0
  <2>1. s = x
    BY <1>2
  <2>2. QED
    BY <1>1, <1>2, <2>1 DEF Selection!FlattenSeq
<1>3. CASE n # 0
  <2>1. Selection!FlattenSeq(s) = flat[n]
    BY <1>1, <1>3 DEF Selection!FlattenSeq
  <2>2. \A i \in 1..n : G[i] = IF i = 1 THEN s[i] ELSE G[i - 1] \o s[i]
    <3>1. SUFFICES ASSUME NEW i \in 1..n
                   PROVE  G[i] = IF i = 1 THEN s[i] ELSE G[i - 1] \o s[i]
      OBVIOUS
    <3>2. CASE i = 1
      BY <3>2
    <3>3. CASE i # 1
      <4>1. i - 1 \in 1..n /\ G[i - 1] = [k \in 1..(i - 1) |-> x[k]]
        BY <3>3
      <4>2. [k \in 1..(i - 1) |-> x[k]] \o <<x[i]>> = [k \in 1..i |-> x[k]]
        <5> DEFINE p == [k \in 1..(i - 1) |-> x[k]]
        <5>1. p \in Seq(Int) /\ Len(p) = i - 1 /\ x[i] \in Int
          BY <4>1
        <5>2. Len(p \o <<x[i]>>) = i /\ p \o <<x[i]>> \in Seq(Int)
          BY <5>1
        <5>3. \A k \in 1..i : (p \o <<x[i]>>)[k] = x[k]
          BY <5>1
        <5>4. p \o <<x[i]>> = [k \in 1..i |-> (p \o <<x[i]>>)[k]]
          <6> HIDE DEF p
          <6>1. QED
            BY <5>1, <5>2
        <5>5. QED
          BY <5>3, <5>4
      <4>3. QED
        BY <3>3, <4>1, <4>2
    <3>4. QED
      BY <3>2, <3>3
  <2>3. Eq(G)
    BY <1>1, <2>2
  <2>4. Eq(flat)
    BY <2>3
  <2>5. \A i \in 1..n : flat[i] = IF i = 1 THEN s[i] ELSE flat[i - 1] \o s[i]
    BY <1>1, <2>4
  <2> DEFINE T == {i \in 0..n : i = 0 \/ flat[i] = G[i]}
  <2>6. 0 \in T
    OBVIOUS
  <2>7. ASSUME NEW i \in 1..n, i - 1 \in T PROVE i \in T
    <3> HIDE DEF s, flat, G
    <3>1. i = 1 \/ flat[i - 1] = G[i - 1]
      BY <2>7
    <3>2. flat[i] = G[i]
      BY <2>2, <2>5, <3>1
    <3>3. QED
      BY <3>2
  <2>8. n \in T
    <3> HIDE DEF T
    <3>1. \A i \in 0..n : i \in T
      BY <2>6, <2>7, UpTo
    <3>2. QED
      BY <3>1
  <2>9. flat[n] = G[n]
    <3> HIDE DEF flat, G
    <3>1. QED
      BY <1>3, <2>8
  <2>10. G[n] = x
    BY <1>3
  <2>11. QED
    BY <2>1, <2>9, <2>10
<1>4. QED
  BY <1>2, <1>3

\* The limits of a stride do not depend on the number of records.
LEMMA StrideLimits ==
  ASSUME NEW r \in RequestType, NEW d \in Dmn, UnitStride(r.arg[d])
  PROVE  LET a == r.arg[d]
         IN  /\ a \in ArgType /\ Selection!Srd(a) = Srd(a) /\ Selection!Ssc(a) = 1
             /\ ~Selection!FlgIlv(a) /\ Srd(a) \in Nat /\ Srd(a) > 0
             /\ Selection!RecTtl(r, d) \in Nat
             /\ Selection!FirstRec(r, d) = FirstRec(a) /\ FirstRec(a) \in Nat
             /\ a.usr_max => LastRec(a) \in Nat
             /\ Selection!LastRec(r, d) =
                  IF a.usr_max /\ LastRec(a) < Selection!RecTtl(r, d) THEN LastRec(a)
                  ELSE Selection!RecTtl(r, d) - 1
<1> DEFINE a == r.arg[d]
           n == Selection!RecTtl(r, d)
<1>1. a \in ArgType
  BY DEF RequestType
<1>2. n \in Nat
  <2>1. Len(r.fl) \in 0..Len(r.fl)
    BY DEF RequestType
  <2>2. QED
    BY <2>1, CmlFacts DEF Selection!RecTtl
<1>3. Selection!Srd(a) = Srd(a) /\ Selection!Ssc(a) = 1 /\ ~Selection!FlgIlv(a)
  BY DEF UnitStride, Selection!Srd, Selection!Ssc, Selection!Ilv, Selection!FlgIlv, Srd, Ssc, Ilv
<1>4. Srd(a) \in Nat /\ Srd(a) > 0 /\ FirstRec(a) \in Nat
  BY <1>1, SrdFacts, FirstRecType
<1> HIDE DEF n
<1>5. Selection!MinIdx(a, n) = FirstRec(a)
  BY <1>1, <1>2 DEF UnitStride, ArgType, Selection!MinIdx, Selection!CnvIdx, FirstRec, MinIdx, CnvIdx
<1>6. /\ a.usr_max => LastRec(a) \in Nat
      /\ Selection!MaxIdx(a, n) = IF a.usr_max THEN LastRec(a) ELSE n - 1
  BY <1>1, <1>2 DEF UnitStride, ArgType, Selection!MaxIdx, Selection!CnvIdx, LastRec, MaxIdx, CnvIdx
<1>7. Selection!LastRec(r, d) = IF a.usr_max /\ LastRec(a) < n THEN LastRec(a) ELSE n - 1
  BY <1>2, <1>6 DEF Selection!LastRec, n
<1>8. Selection!FirstRec(r, d) = FirstRec(a)
  BY <1>5 DEF Selection!FirstRec, n
<1>9. QED
  BY <1>1, <1>2, <1>3, <1>4, <1>6, <1>7, <1>8 DEF n

\* The k-th strided record, from 0, and whether the files and the limits
\* have it.
StridedRec(a, k) == FirstRec(a) + k * Srd(a)
Within(r, d, rec) ==
  rec < Selection!RecTtl(r, d) /\ (r.arg[d].usr_max => rec <= LastRec(r.arg[d]))

\* How many there are.
LEMMA GrpIn ==
  ASSUME NEW r \in RequestType, NEW d \in Dmn, UnitStride(r.arg[d])
  PROVE  /\ Selection!GrpNbr(r, d) \in Nat
         /\ \A k \in Nat : k < Selection!GrpNbr(r, d) <=> Within(r, d, StridedRec(r.arg[d], k))
<1> DEFINE a == r.arg[d]
           F == FirstRec(a)
           L == Selection!LastRec(r, d)
           s == Srd(a)
           q == (L - F) \div s
           n == Selection!RecTtl(r, d)
           M == LastRec(a)
<1>1. /\ s \in Nat /\ s > 0 /\ F \in Nat /\ n \in Nat /\ L \in Int
      /\ a.usr_max => M \in Nat
      /\ L = IF a.usr_max /\ M < n THEN M ELSE n - 1
  BY StrideLimits
<1>2. Selection!GrpNbr(r, d) = IF F > L THEN 0 ELSE 1 + q
  BY StrideLimits DEF Selection!GrpNbr
<1>3. ASSUME NEW x \in Int PROVE Within(r, d, x) <=> x <= L
  <2>1. Within(r, d, x) <=> x < n /\ (a.usr_max => x <= M)
    BY DEF Within
  <2> HIDE DEF n, M, a, L
  <2>2. QED
    BY <1>1, <2>1
<1> HIDE DEF F, L, s, n, M
<1>4. CASE F > L
  <2>1. ASSUME NEW k \in Nat PROVE ~Within(r, d, StridedRec(a, k))
    <3>1. k * s \in Nat /\ StridedRec(a, k) = F + k * s
      BY <1>1 DEF StridedRec, F, s
    <3>2. F + k * s \in Int /\ ~(F + k * s <= L)
      BY <1>1, <1>4, <3>1
    <3>3. QED
      BY <1>3, <3>1, <3>2
  <2>2. QED
    BY <1>2, <1>4, <2>1
<1>5. CASE ~(F > L)
  <2>1. L - F \in Nat
    BY <1>1, <1>5
  <2>2. q \in Nat /\ q * s <= L - F /\ L - F < q * s + s
    BY <1>1, <2>1, DivFacts
  <2> HIDE DEF q
  <2>3. ASSUME NEW k \in Nat PROVE k < 1 + q <=> Within(r, d, StridedRec(a, k))
    <3>1. k * s \in Nat /\ q * s \in Nat /\ StridedRec(a, k) = F + k * s
      BY <1>1, <2>2 DEF StridedRec, F, s
    <3>2. CASE k <= q
      <4>1. k * s <= q * s
        BY <1>1, <2>2, <3>2
      <4>2. F + k * s \in Int /\ F + k * s <= L
        BY <1>1, <2>2, <3>1, <4>1
      <4>3. QED
        BY <1>3, <2>2, <3>1, <3>2, <4>2
    <3>3. CASE k > q
      <4>1. k - q - 1 \in Nat
        BY <2>2, <3>3
      <4>2. (k - q - 1) * s \in Nat /\ k * s = q * s + s + (k - q - 1) * s
        BY <1>1, <2>2, <4>1
      <4>3. F + k * s \in Int /\ ~(F + k * s <= L)
        BY <1>1, <2>2, <3>1, <4>2
      <4>4. QED
        BY <1>3, <2>2, <3>1, <3>3, <4>3
    <3>4. QED
      BY <2>2, <3>2, <3>3
  <2>4. QED
    BY <1>2, <1>5, <2>2, <2>3
<1>6. QED
  BY <1>4, <1>5

\* What a stride asks for, each record a group of its own.
LEMMA WantedIs ==
  ASSUME NEW r \in RequestType, NEW d \in Dmn, UnitStride(r.arg[d])
  PROVE  LET n == Selection!GrpNbr(r, d)
         IN  /\ Selection!Groups(r, d) = [k \in 1..n |-> <<StridedRec(r.arg[d], k - 1)>>]
             /\ Selection!Wanted(r, d) = [k \in 1..n |-> StridedRec(r.arg[d], k - 1)]
<1> DEFINE a == r.arg[d]
           n == Selection!GrpNbr(r, d)
           L == Selection!LastRec(r, d)
           at(k) == StridedRec(a, k - 1)
           x == [k \in 1..n |-> at(k)]
<1>1. n \in Nat /\ \A k \in Nat : k < n <=> Within(r, d, StridedRec(a, k))
  BY GrpIn
<1>2. /\ L \in Int /\ Selection!RecTtl(r, d) \in Nat
      /\ a.usr_max => LastRec(a) \in Nat
      /\ L = IF a.usr_max /\ LastRec(a) < Selection!RecTtl(r, d) THEN LastRec(a)
             ELSE Selection!RecTtl(r, d) - 1
  BY StrideLimits
<1>3. \A k \in 1..n : at(k) \in Int /\ Selection!GrpSrt(r, d, k) = at(k)
  <2>1. SUFFICES ASSUME NEW k \in 1..n PROVE at(k) \in Int /\ Selection!GrpSrt(r, d, k) = at(k)
    OBVIOUS
  <2>2. FirstRec(a) \in Nat /\ Srd(a) \in Nat /\ k - 1 \in Int
    BY <1>1, StrideLimits
  <2>3. (k - 1) * Srd(a) \in Int
    BY <2>2
  <2>4. at(k) \in Int
    BY <2>2, <2>3 DEF StridedRec
  <2>5. Selection!GrpSrt(r, d, k) = at(k)
    BY StrideLimits DEF Selection!GrpSrt, StridedRec
  <2>6. QED
    BY <2>4, <2>5
<1>4. \A k \in 1..n : Selection!GrpSz(r, d, k) = 1
  <2>1. SUFFICES ASSUME NEW k \in 1..n PROVE Selection!GrpSz(r, d, k) = 1
    OBVIOUS
  <2>2. Within(r, d, at(k))
    <3>1. k - 1 \in Nat /\ k - 1 < n
      BY <1>1
    <3>2. QED
      BY <1>1, <3>1
  <2>3. at(k) <= L
    <3>1. at(k) < Selection!RecTtl(r, d) /\ (a.usr_max => at(k) <= LastRec(a)) /\ at(k) \in Int
      BY <1>3, <2>2 DEF Within
    <3> HIDE DEF L, at
    <3>2. QED
      BY <1>2, <3>1
  <2>4. Selection!GrpSz(r, d, k) = IF L - at(k) + 1 < 1 THEN L - at(k) + 1 ELSE 1
    BY <1>3, StrideLimits DEF Selection!GrpSz
  <2> HIDE DEF L, at
  <2>5. L \in Int /\ at(k) \in Int
    BY <1>2, <1>3
  <2>6. QED
    BY <2>3, <2>4, <2>5
<1>5. Selection!Groups(r, d) = [k \in 1..n |-> <<at(k)>>]
  <2>1. Selection!Groups(r, d) =
          [g \in 1..n |-> [i \in 1..Selection!GrpSz(r, d, g) |-> Selection!GrpSrt(r, d, g) + i - 1]]
    BY StrideLimits DEF Selection!Groups
  <2>2. ASSUME NEW g \in 1..n
        PROVE  [i \in 1..Selection!GrpSz(r, d, g) |-> Selection!GrpSrt(r, d, g) + i - 1] = <<at(g)>>
    <3>1. Selection!GrpSz(r, d, g) = 1 /\ Selection!GrpSrt(r, d, g) = at(g) /\ at(g) \in Int
      BY <1>3, <1>4
    <3> HIDE DEF at
    <3>2. [i \in 1..1 |-> at(g) + i - 1] = <<at(g)>>
      BY <3>1
    <3>3. QED
      BY <3>1, <3>2
  <2> HIDE DEF n, at
  <2>3. QED
    BY <2>1, <2>2
<1>6. x \in [1..n -> Int]
  BY <1>3
<1>7. [k \in 1..n |-> <<at(k)>>] = [k \in 1..n |-> <<x[k]>>]
  OBVIOUS
<1>8. Selection!Wanted(r, d) = x
  <2> HIDE DEF n, x, at
  <2>1. QED
    BY <1>1, <1>5, <1>6, <1>7, FlattenOnes DEF Selection!Wanted
<1>9. QED
  BY <1>5, <1>8

-----------------------------------------------------------------------------
(* The records used, and the records wanted.                               *)

\* The records used are the first strided ones.
LEMMA StridedIs ==
  ASSUME TypeOK, NEW d \in Dmn, UnitStride(rqs.arg[d]), Strided(d)
  PROVE  /\ usd[d] = [i \in 1..Len(usd[d]) |-> StridedRec(rqs.arg[d], i - 1)]
         /\ Len(usd[d]) \in Nat /\ NextRec(d) = StridedRec(rqs.arg[d], Len(usd[d]))
<1> DEFINE a == rqs.arg[d]
           u == usd[d]
           n == Len(u)
           s == Srd(a)
           F == FirstRec(a)
           T == {i \in 0..n : i = 0 \/ u[i] = StridedRec(a, i - 1)}
<1>1. a \in ArgType /\ u \in Seq(Int) /\ n \in Nat
  BY CurrentType DEF TypeOK
<1>2. s \in Nat /\ s > 0 /\ F \in Nat
  BY <1>1, SrdFacts, FirstRecType
<1>3. /\ n > 0 => u[1] = F
      /\ \A i \in 1..(n - 1) : u[i + 1] = u[i] + s
  BY <1>1 DEF Strided
<1>4. 0 \in T
  BY <1>1
<1>5. ASSUME NEW i \in 1..n, i - 1 \in T PROVE i \in T
  <2>1. i \in Nat /\ i \in 0..n
    BY <1>1
  <2> HIDE DEF n, u, s, F
  <2>2. CASE i = 1
    <3>1. StridedRec(a, i - 1) = F
      BY <1>2, <2>2 DEF StridedRec, s, F
    <3>2. QED
      BY <1>1, <1>3, <2>1, <2>2, <3>1
  <2>3. CASE i # 1
    <3>1. i - 1 \in 1..(n - 1) /\ u[i - 1] = StridedRec(a, i - 2)
      BY <1>1, <1>5, <2>1, <2>3
    <3>2. u[i] = u[i - 1] + s
      BY <1>3, <2>1, <3>1
    <3>3. StridedRec(a, i - 2) = F + (i - 2) * s /\ StridedRec(a, i - 1) = F + (i - 1) * s
      BY DEF StridedRec, s, F
    <3>4. i - 1 \in Nat /\ i - 1 > 0
      BY <2>1, <2>3
    <3>5. (i - 1) * s = s + (i - 2) * s /\ (i - 2) * s \in Nat
      BY <1>2, <3>4, MulFacts
    <3>6. u[i] = StridedRec(a, i - 1)
      BY <1>2, <3>1, <3>2, <3>3, <3>5
    <3>7. QED
      BY <2>1, <3>6
  <2>4. QED
    BY <2>2, <2>3
<1>6. \A i \in 1..n : u[i] = StridedRec(a, i - 1)
  <2> HIDE DEF T, n, u
  <2>1. \A i \in 0..n : i \in T
    BY <1>1, <1>4, <1>5, UpTo
  <2>2. QED
    BY <1>1, <2>1 DEF T
<1>7. u = [i \in 1..n |-> StridedRec(a, i - 1)]
  <2>1. u = [i \in 1..n |-> u[i]]
    BY <1>1
  <2>2. QED
    BY <1>6, <2>1
<1>8. NextRec(d) = StridedRec(a, n)
  <2>1. CASE u = <<>>
    BY <1>2, <2>1 DEF NextRec, StridedRec
  <2>2. CASE u # <<>>
    <3>1. n > 0 /\ n \in 1..n
      BY <1>1, <2>2
    <3>2. u[n] = F + (n - 1) * s
      BY <1>6, <3>1 DEF StridedRec
    <3>3. NextRec(d) = u[n] + s
      BY <2>2 DEF NextRec
    <3> HIDE DEF n, u, s, F
    <3>4. n * s = s + (n - 1) * s /\ (n - 1) * s \in Nat
      BY <1>1, <1>2, <3>1, MulFacts
    <3>5. NextRec(d) = F + n * s
      BY <1>2, <3>2, <3>3, <3>4
    <3>6. QED
      BY <3>5 DEF StridedRec, s, F
  <2>3. QED
    BY <2>1, <2>2
<1>9. QED
  BY <1>1, <1>7, <1>8

\* The next strided record is wanted if the files and the limits have it,
\* and then it is the next one wanted.
LEMMA NextWanted ==
  ASSUME TypeOK, NEW d \in Dmn, UnitStride(rqs.arg[d]), Strided(d),
         Within(rqs, d, NextRec(d))
  PROVE  LET w == Selection!Wanted(rqs, d)
         IN  Len(usd[d]) < Len(w) /\ w[Len(usd[d]) + 1] = NextRec(d)
<1> DEFINE w == Selection!Wanted(rqs, d)
           n == Selection!GrpNbr(rqs, d)
           m == Len(usd[d])
<1>1. rqs \in RequestType
  BY DEF TypeOK
<1>2. m \in Nat /\ NextRec(d) = StridedRec(rqs.arg[d], m)
  BY StridedIs
<1>3. n \in Nat /\ m < n
  BY <1>1, <1>2, GrpIn
<1>4. w = [k \in 1..n |-> StridedRec(rqs.arg[d], k - 1)]
  BY <1>1, WantedIs
<1>5. Len(w) = n /\ w[m + 1] = StridedRec(rqs.arg[d], m)
  <2> HIDE DEF n, m, w
  <2>1. Len(w) = n /\ m + 1 \in 1..n /\ (m + 1) - 1 = m
    BY <1>2, <1>3, <1>4
  <2>2. QED
    BY <1>4, <2>1
<1>6. QED
  BY <1>2, <1>3, <1>5

\* If it is not, all wanted records are used.
LEMMA AllUsed ==
  ASSUME TypeOK, NEW d \in Dmn, UnitStride(rqs.arg[d]), Strided(d),
         ~Within(rqs, d, NextRec(d)),
         usd[d] # <<>> => LastUsed(d) < Selection!RecTtl(rqs, d)
  PROVE  usd[d] = Selection!Wanted(rqs, d)
<1> DEFINE n == Selection!GrpNbr(rqs, d)
           m == Len(usd[d])
           a == rqs.arg[d]
<1>1. rqs \in RequestType
  BY DEF TypeOK
<1>2. /\ m \in Nat /\ NextRec(d) = StridedRec(a, m)
      /\ usd[d] = [i \in 1..m |-> StridedRec(a, i - 1)]
  BY StridedIs
<1>3. n \in Nat /\ \A k \in Nat : k < n <=> Within(rqs, d, StridedRec(a, k))
  BY <1>1, GrpIn
<1>4. ~(m < n)
  BY <1>2, <1>3
<1>5. ~(n < m)
  <2>1. SUFFICES ASSUME n < m PROVE FALSE
    OBVIOUS
  <2>2. usd[d] # <<>> /\ m \in 1..m /\ m - 1 \in Nat /\ n <= m - 1
    BY <1>2, <1>3, <2>1
  <2>3. LastUsed(d) = StridedRec(a, m - 1)
    BY <1>2, <2>2 DEF LastUsed
  <2>4. a.usr_max => LastUsed(d) <= LastRec(a)
    BY <2>2 DEF Strided, LastUsed
  <2>5. Within(rqs, d, StridedRec(a, m - 1))
    BY <2>2, <2>3, <2>4 DEF Within
  <2> HIDE DEF n, m
  <2>6. m - 1 < n
    BY <1>3, <2>2, <2>5
  <2>7. QED
    BY <1>2, <1>3, <2>2, <2>6
<1>6. m = n
  <2> HIDE DEF n, m
  <2>1. QED
    BY <1>2, <1>3, <1>4, <1>5
<1>7. QED
  BY <1>1, <1>2, <1>6, WantedIs

\* When the files are done with, all wanted records are used, and there is
\* at least one.
LEMMA AllUsedInFiles ==
  ASSUME TypeOK, StrideInv, Strides(rqs), FilesInv, pc \in {"nrm", "put", "done"},
         NEW d \in Dmn
  PROVE  usd[d] # <<>> /\ usd[d] = Selection!Wanted(rqs, d)
<1> DEFINE a == rqs.arg[d]
           N == NextRec(d)
           ttl == Selection!RecTtl(rqs, d)
           cml == Selection!RecCml(rqs, d)
<1>1. /\ rqs \in RequestType /\ a \in ArgType /\ UnitStride(a)
      /\ fl_idx \in 1..FlNbr /\ FlNbr \in Nat
  BY CurrentType DEF TypeOK, Strides, FlNbr
<1>2. DmnInv(d) /\ (fl_idx = FlNbr \/ flg_input_complete[d])
  BY <1>1 DEF StrideInv
<1>3. Strided(d) /\ Behind(d, rec_in_cml[d]) /\ (flg_input_complete[d] => PastLast(d))
  BY <1>2 DEF DmnInv, Current
<1>4. rec_in_cml[d] = cml[fl_idx] /\ (fl_idx = FlNbr => usd[d] # <<>>)
  BY DEF FilesInv, Passed
<1>5. rec_in_cml[d] <= ttl /\ rec_in_cml[d] \in Nat /\ ttl \in Nat
  <2>1. cml[fl_idx] <= ttl
    BY <1>1, CmlGrows DEF FlNbr
  <2>2. QED
    BY <1>1, <1>4, <2>1, StrideLimits DEF TypeOK
<1>6. N \in Int /\ (a.usr_max => LastRec(a) \in Nat) /\ FirstRec(a) \in Nat
  <2>1. Len(usd[d]) \in Nat /\ N = StridedRec(a, Len(usd[d]))
    BY <1>1, <1>3, StridedIs
  <2>2. Srd(a) \in Nat /\ FirstRec(a) \in Nat /\ (a.usr_max => LastRec(a) \in Nat)
    BY <1>1, StrideLimits
  <2>3. Len(usd[d]) * Srd(a) \in Nat
    BY <2>1, <2>2
  <2>4. QED
    BY <2>1, <2>2, <2>3 DEF StridedRec
<1>7. usd[d] # <<>>
  <2>1. SUFFICES ASSUME usd[d] = <<>>, fl_idx # FlNbr PROVE FALSE
    BY <1>4
  <2>2. a.usr_max /\ FirstRec(a) > LastRec(a)
    BY <1>2, <1>3, <2>1 DEF PastLast, NextRec
  <2>3. FlNbr = 1
    BY <1>1, <1>6, <2>2 DEF Strides, FlNbr
  <2>4. QED
    BY <1>1, <2>1, <2>3
<1>8. ~Within(rqs, d, N)
  <2>1. CASE PastLast(d)
    BY <1>6, <2>1 DEF PastLast, Within
  <2>2. CASE ~PastLast(d)
    <3>1. fl_idx = FlNbr /\ N >= rec_in_cml[d]
      BY <1>2, <1>3, <2>2 DEF Behind
    <3>2. rec_in_cml[d] = ttl
      BY <1>4, <3>1 DEF Selection!RecTtl, FlNbr
    <3>3. N >= ttl
      BY <3>1, <3>2
    <3> HIDE DEF N, ttl
    <3>4. ~(N < ttl)
      BY <1>5, <1>6, <3>3
    <3>5. QED
      BY <3>4 DEF Within, ttl
  <2>3. QED
    BY <2>1, <2>2
<1>9. LastUsed(d) < ttl
  <2>1. LastUsed(d) < rec_in_cml[d]
    BY <1>3, <1>7 DEF Behind
  <2>2. LastUsed(d) \in Int
    BY <1>7 DEF LastUsed, TypeOK
  <2> HIDE DEF ttl
  <2>3. QED
    BY <1>5, <2>1, <2>2
<1>10. QED
  BY <1>1, <1>3, <1>7, <1>8, <1>9, AllUsed

-----------------------------------------------------------------------------
(* What the record machine keeps of the selection.                         *)

\* Without an interleave every record is a group of its own.
LEMMA StridesNow ==
  ASSUME TypeOK, Strides(rqs)
  PROVE  /\ ~FLG_ILV /\ Ssc(Arg) = 1 /\ UnitStride(Arg)
         /\ \A d \in Dmn : UnitStride(rqs.arg[d])
<1>1. \A d \in Dmn : UnitStride(rqs.arg[d])
  BY DEF Strides
<1>2. UnitStride(Arg)
  BY <1>1 DEF Arg, TypeOK
<1>3. QED
  BY <1>1, <1>2 DEF FLG_ILV, FlgIlv, UnitStride

\* The record read is the next one wanted, and the files have it.
LEMMA ReadsNext ==
  ASSUME TypeOK, StrideInv, Strides(rqs), FilesInv, Record
  PROVE  LET d == idx_rec
             rec == rec_in_cml[d] + idx_rec_crr_in
         IN  /\ rec \in Int /\ rec = NextRec(d) /\ Within(rqs, d, rec) /\ Strided(d)
             /\ usd' = [usd EXCEPT ![d] = Append(@, rec)]
             /\ rec_usd_cml[d] = Len(usd[d]) /\ rec_rmn_prv_ssc = 0
             /\ lmt[d].end < DmnSz /\ lmt[d].end \in Int
<1> DEFINE d == idx_rec
           a == rqs.arg[d]
           B == rec_in_cml[d]
           i == idx_rec_crr_in
           rec == B + i
           end == lmt[d].end
           ttl == Selection!RecTtl(rqs, d)
<1>1. /\ rqs \in RequestType /\ d \in Dmn /\ a \in ArgType /\ UnitStride(a) /\ B \in Nat
      /\ i \in Int /\ end \in Int /\ DmnSz \in Nat /\ fl_idx \in 1..Len(rqs.fl)
      /\ pc = "rec" /\ RecWanted
  BY StridesNow, CurrentType DEF TypeOK, LmtType, Record
<1>2. /\ Strided(d) /\ rec_usd_cml[d] = Len(usd[d]) /\ rec_rmn_prv_ssc = 0
      /\ NoData(d) \/ MoreData(d)
  BY <1>1 DEF StrideInv, DmnInv, Current, DataUsed
<1>3. MoreData(d) /\ i >= 0 /\ i < DmnSz
  BY <1>1, <1>2 DEF RecWanted, NoData
<1>4. rec = NextRec(d) /\ end < DmnSz /\ (a.usr_max => B + end <= LastRec(a))
  BY <1>3 DEF MoreData, EndStrided
<1>5. PICK k \in 0..DmnSz : end = i + k * Srd(a)
  BY <1>3 DEF MoreData
<1>6. k * Srd(a) \in Nat
  BY <1>1, <1>5, SrdFacts
<1>7. a.usr_max => LastRec(a) \in Nat /\ rec <= LastRec(a)
  <2>1. a.usr_max => LastRec(a) \in Nat
    BY <1>1, StrideLimits
  <2> HIDE DEF B, i, end, a
  <2>2. QED
    BY <1>1, <1>4, <1>5, <1>6, <2>1
<1>8. rec < ttl
  <2> DEFINE cml == Selection!RecCml(rqs, d)
  <2>1. fl_idx \in Nat /\ fl_idx - 1 \in 0..Len(rqs.fl) /\ fl_idx \in 0..Len(rqs.fl)
    BY <1>1 DEF RequestType
  <2>2. cml[fl_idx] = cml[fl_idx - 1] + DmnSz
    BY <1>1, CmlFacts DEF DmnSz
  <2>3. B = cml[fl_idx - 1]
    <3>1. ~(d < idx_rec)
      BY <1>1 DEF Dmn
    <3>2. QED
      BY <1>1, <3>1 DEF FilesInv, Passed
  <2>4. cml[fl_idx] <= ttl
    BY <1>1, <2>1, CmlGrows
  <2>5. ttl \in Nat
    BY <1>1, StrideLimits
  <2> HIDE DEF cml, ttl, B, i
  <2>6. QED
    BY <1>1, <1>3, <2>2, <2>3, <2>4, <2>5
<1>9. usd' = [usd EXCEPT ![d] = Append(@, rec)]
  BY DEF Record, ProcessVars
<1>10. rec \in Int
  BY <1>1
<1>11. QED
  BY <1>1, <1>2, <1>4, <1>7, <1>8, <1>9, <1>10 DEF Within

\* Steps that read nothing.
LEMMA QuietUsd ==
  ASSUME TypeOK, Next, ~Record
  PROVE  usd' = usd /\ rqs' = rqs
BY DEF Next, EvlError, Evl, EndDmn, CloseFile, Normalise, PutVar, CloseOutput,
       Terminated, vars, cnt_vars

\* Records of finished files, and the file counted.
LEMMA FilesFrame ==
  ASSUME FilesInv, UNCHANGED <<rqs, rec_in_cml>>,
         \A d \in Dmn : Passed(d)' = Passed(d) /\ (usd[d] # <<>> => usd'[d] # <<>>)
  PROVE  FilesInv'
BY DEF FilesInv, FlNbr

\* The files accounted for, for every step.
LEMMA FilesStep ==
  ASSUME TypeOK, StrideInv, Strides(rqs), FilesInv, Next, pc' # "exit", pc # "exit"
  PROVE  FilesInv'
<1>1. CASE Evl
  <2>1. /\ UNCHANGED <<rqs, rec_in_cml, fl_idx, idx_rec, usd>>
        /\ pc = "evl" /\ pc' = "rec"
    BY <1>1 DEF Evl
  <2>2. QED
    BY <2>1, FilesFrame DEF Passed
<1>2. CASE Record
  <2>1. /\ UNCHANGED <<rqs, rec_in_cml, fl_idx, idx_rec>>
        /\ pc = "rec" /\ pc' \in {"rec", "eod"}
    BY <1>2 DEF Record
  <2>2. \A d \in Dmn : usd[d] # <<>> => usd'[d] # <<>>
    <3>1. SUFFICES ASSUME NEW d \in Dmn PROVE usd[d] # <<>> => usd'[d] # <<>>
      OBVIOUS
    <3>2. PICK rec \in Int : usd' = [usd EXCEPT ![idx_rec] = Append(@, rec)]
      BY <1>2, ReadsNext
    <3>3. usd[d] \in Seq(Int) /\ (usd'[d] = usd[d] \/ usd'[d] = Append(usd[d], rec))
      BY <3>2 DEF TypeOK
    <3>4. QED
      BY <3>3, AppendFacts
  <2>3. QED
    BY <2>1, <2>2, FilesFrame DEF Passed
<1>3. CASE EndDmn
  <2>1. /\ UNCHANGED <<rqs, fl_idx, usd>> /\ pc \in {"rec", "eod"} /\ pc' \in {"evl", "eof"}
        /\ rec_in_cml' = [rec_in_cml EXCEPT ![idx_rec] = @ + DmnSz]
        /\ ~(fl_idx = FlNbr /\ rec_usd_cml[idx_rec] = 0)
        /\ pc' = "evl" => idx_rec < NbrRec /\ idx_rec' = idx_rec + 1
        /\ pc' = "eof" => ~(idx_rec < NbrRec) /\ idx_rec' = idx_rec
    BY <1>3 DEF EndDmn, Exit, cnt_vars
  <2>2. SUFFICES ASSUME NEW d \in Dmn
                 PROVE  /\ rec_in_cml'[d] = Selection!RecCml(rqs, d)[Passed(d)']
                        /\ Passed(d)' = FlNbr => usd[d] # <<>>
    BY <2>1 DEF FilesInv, FlNbr
  <2>3. /\ d \in Nat /\ idx_rec \in Nat /\ d <= NbrRec /\ NbrRec \in Nat /\ idx_rec <= NbrRec
        /\ idx_rec \in Dmn
    BY NbrRecAssumption DEF Dmn, TypeOK
  <2>4. /\ rec_in_cml[d] = Selection!RecCml(rqs, d)[Passed(d)]
        /\ Passed(d) = FlNbr => usd[d] # <<>>
    BY DEF FilesInv
  <2>5. CASE d = idx_rec
    <3>1. Passed(d) = fl_idx - 1 /\ Passed(d)' = fl_idx
      BY <2>1, <2>3, <2>5 DEF Passed
    <3>2. rec_in_cml'[d] = rec_in_cml[d] + DmnSz
      BY <2>1, <2>3, <2>5 DEF TypeOK
    <3>3. /\ rqs \in RequestType /\ fl_idx \in 1..Len(rqs.fl)
      BY DEF TypeOK
    <3>4. Selection!RecCml(rqs, d)[fl_idx] = Selection!RecCml(rqs, d)[fl_idx - 1] + DmnSz
      BY <2>5, <3>3, CmlFacts DEF DmnSz
    <3>5. ASSUME fl_idx = FlNbr PROVE usd[d] # <<>>
      <4>1. rec_usd_cml[d] = Len(usd[d])
        BY StridesNow DEF StrideInv, DmnInv
      <4>2. QED
        BY <2>1, <2>5, <3>5, <4>1
    <3>6. QED
      BY <2>4, <3>1, <3>2, <3>4, <3>5
  <2>6. CASE d # idx_rec
    <3>1. Passed(d)' = Passed(d)
      BY <2>1, <2>3, <2>6 DEF Passed
    <3>2. rec_in_cml'[d] = rec_in_cml[d]
      BY <2>1, <2>6 DEF TypeOK
    <3>3. QED
      BY <2>4, <3>1, <3>2
  <2>7. QED
    BY <2>5, <2>6
<1>4. CASE CloseFile
  <2>1. /\ UNCHANGED <<rqs, rec_in_cml, usd>> /\ pc = "eof"
        /\ \/ pc' = "nrm" /\ UNCHANGED <<fl_idx, idx_rec>>
           \/ pc' = "evl" /\ fl_idx' = fl_idx + 1 /\ idx_rec' = 1
    BY <1>4 DEF CloseFile, cnt_vars
  <2>2. \A d \in Dmn : Passed(d)' = Passed(d)
    <3>1. fl_idx \in Nat /\ \A d \in Dmn : ~(d < 1)
      BY DEF TypeOK, Dmn
    <3>2. QED
      BY <2>1, <3>1 DEF Passed
  <2>3. QED
    BY <2>1, <2>2, FilesFrame
<1>5. CASE Normalise \/ PutVar \/ CloseOutput
  <2>1. /\ UNCHANGED <<rqs, rec_in_cml, usd, fl_idx, idx_rec>>
        /\ pc \in {"nrm", "put"} /\ pc' \in {"put", "done"}
    BY <1>5 DEF Normalise, PutVar, CloseOutput, cnt_vars, Exit
  <2>2. QED
    BY <2>1, FilesFrame DEF Passed
<1>6. CASE Terminated
  <2>1. UNCHANGED <<rqs, rec_in_cml, usd, fl_idx, idx_rec, pc>>
    BY <1>6 DEF Terminated, vars, cnt_vars
  <2>2. QED
    BY <2>1, FilesFrame DEF Passed
<1>7. CASE EvlError
  BY <1>7 DEF EvlError, Exit
<1>8. QED
  BY <1>1, <1>2, <1>3, <1>4, <1>5, <1>6, <1>7 DEF Next

-----------------------------------------------------------------------------
(* What is written.                                                        *)

\* What a sequence with one more element is.
LEMMA AppendIs ==
  ASSUME NEW S, NEW s \in Seq(S), NEW x \in S
  PROVE  Append(s, x) = [k \in 1..(Len(s) + 1) |-> IF k = Len(s) + 1 THEN x ELSE s[k]]
<1> DEFINE l == Append(s, x)
<1>1. l \in Seq(S) /\ Len(l) = Len(s) + 1 /\ Len(s) \in Nat
  OBVIOUS
<1>2. ASSUME NEW k \in 1..(Len(s) + 1) PROVE l[k] = IF k = Len(s) + 1 THEN x ELSE s[k]
  OBVIOUS
<1> HIDE DEF l
<1>3. l = [k \in 1..(Len(s) + 1) |-> l[k]]
  BY <1>1
<1>4. l = [k \in 1..(Len(s) + 1) |-> IF k = Len(s) + 1 THEN x ELSE s[k]]
  BY <1>2, <1>3
<1>5. QED
  BY <1>4 DEF l

\* A record and its normalisation.
LEMMA AppendOne ==
  ASSUME NEW x \in Int, NEW y \in Int
  PROVE  Append(<<x>>, y) = <<x, y>>
<1>1. <<x>> \in Seq(Int) /\ Len(<<x>>) = 1 /\ <<x>>[1] = x
  OBVIOUS
<1>2. Append(<<x>>, y) = [k \in 1..2 |-> IF k = 2 THEN y ELSE <<x>>[k]]
  <2>1. Len(<<x>>) + 1 = 2
    BY <1>1
  <2>2. QED
    BY <1>1, <2>1, AppendIs
<1>3. <<x, y>> = [k \in 1..2 |-> <<x, y>>[k]]
  OBVIOUS
<1>4. \A k \in 1..2 : <<x, y>>[k] = IF k = 2 THEN y ELSE <<x>>[k]
  OBVIOUS
<1>5. QED
  BY <1>2, <1>3, <1>4

\* Writing behind the last record appends.
LEMMA PutRecAppends ==
  ASSUME NEW S, NEW s \in Seq(S), NEW x \in S
  PROVE  PutRec(s, Len(s), x) = Append(s, x)
<1>1. PutRec(s, Len(s), x)
      = [k \in 1..(Len(s) + 1) |-> IF k = Len(s) + 1 THEN x ELSE IF k <= Len(s) THEN s[k] ELSE FILL]
  BY DEF PutRec
<1>2. Append(s, x) = [k \in 1..(Len(s) + 1) |-> IF k = Len(s) + 1 THEN x ELSE s[k]]
  BY AppendIs
<1>3. QED
  BY <1>1, <1>2

\* Appending to the second of two sequences appends to both.
LEMMA AppendBehind ==
  ASSUME NEW S, NEW p \in Seq(S), NEW q \in Seq(S), NEW x \in S
  PROVE  p \o Append(q, x) = Append(p \o q, x)
<1> DEFINE l == p \o Append(q, x)
           m == Append(p \o q, x)
<1>1. l \in Seq(S) /\ m \in Seq(S) /\ Len(l) = Len(p) + Len(q) + 1 /\ Len(m) = Len(l)
  OBVIOUS
<1>2. ASSUME NEW k \in 1..(Len(p) + Len(q) + 1) PROVE l[k] = m[k]
  OBVIOUS
<1> HIDE DEF l, m
<1>3. QED
  BY <1>1, <1>2

\* Appending is putting a sequence of one element behind.
LEMMA AppendConcat ==
  ASSUME NEW S, NEW s \in Seq(S), NEW x \in S
  PROVE  Append(s, x) = s \o <<x>>
<1> DEFINE l == s \o <<x>>
<1>1. l \in Seq(S) /\ Len(l) = Len(s) + 1 /\ Len(s) \in Nat
  OBVIOUS
<1>2. ASSUME NEW k \in 1..(Len(s) + 1) PROVE l[k] = IF k = Len(s) + 1 THEN x ELSE s[k]
  OBVIOUS
<1> HIDE DEF l
<1>3. l = [k \in 1..(Len(s) + 1) |-> IF k = Len(s) + 1 THEN x ELSE s[k]]
  BY <1>1, <1>2
<1>4. QED
  BY <1>3, AppendIs DEF l

\* The record of the output that one record of the input makes.
Put(x) == IF rqs.prg = "ncrcat" THEN <<x>> ELSE <<x, NRM>>

\* One more record used is one more written.
LEMMA EachAppends ==
  ASSUME TypeOK, NEW d \in Dmn, NEW rec \in Int, rqs' = rqs,
         usd'[d] = Append(usd[d], rec)
  PROVE  /\ Each(d) \in Seq(Seq(Int)) /\ Put(rec) \in Seq(Int)
         /\ Each(d)' = Append(Each(d), Put(rec))
<1> DEFINE u == usd[d]
           n == Len(u)
<1>1. u \in Seq(Int) /\ n \in Nat
  BY DEF TypeOK
<1>2. ASSUME NEW x \in Int PROVE Put(x) \in Seq(Int)
  BY DEF Put, NRM
<1>3. Each(d) = [k \in 1..n |-> Put(u[k])]
  BY DEF Each, Put
<1>4. Each(d)' = [k \in 1..(n + 1) |-> Put(usd'[d][k])]
  <2>1. Len(usd'[d]) = n + 1
    BY <1>1
  <2>2. Each(d)' = [k \in 1..Len(usd'[d]) |->
                     IF rqs.prg = "ncrcat" THEN <<usd'[d][k]>> ELSE <<usd'[d][k], NRM>>]
    BY DEF Each, NRM
  <2>3. QED
    BY <2>1, <2>2 DEF Put
<1>5. ASSUME NEW k \in 1..n PROVE u[k] \in Int /\ Put(u[k]) \in Seq(Int)
  <2>1. u[k] \in Int
    BY <1>1
  <2>2. QED
    BY <1>2, <2>1
<1>6. Each(d) \in Seq(Seq(Int)) /\ Len(Each(d)) = n
  BY <1>1, <1>3, <1>5
<1>7. \A k \in 1..(n + 1) : usd'[d][k] = IF k = n + 1 THEN rec ELSE u[k]
  BY <1>1
<1>8. Append(Each(d), Put(rec)) = [k \in 1..(n + 1) |-> IF k = n + 1 THEN Put(rec) ELSE Each(d)[k]]
  <2> DEFINE e == Each(d)
             x == Put(rec)
  <2>1. e \in Seq(Seq(Int)) /\ x \in Seq(Int) /\ Len(e) = n
    BY <1>2, <1>6
  <2> HIDE DEF e, x, n, u
  <2>2. Append(e, x) = [k \in 1..(n + 1) |-> IF k = n + 1 THEN x ELSE e[k]]
    BY <2>1, AppendIs
  <2>3. QED
    BY <2>2 DEF e, x
<1>9. \A k \in 1..(n + 1) :
        Put(usd'[d][k]) = IF k = n + 1 THEN Put(rec) ELSE Each(d)[k]
  <2>1. SUFFICES ASSUME NEW k \in 1..(n + 1)
                 PROVE  Put(usd'[d][k]) = IF k = n + 1 THEN Put(rec) ELSE Each(d)[k]
    OBVIOUS
  <2>2. k # n + 1 => k \in 1..n
    BY <1>1
  <2>3. QED
    BY <1>3, <1>7, <2>2
<1>10. Each(d)' = Append(Each(d), Put(rec))
  <2> HIDE DEF n, u
  <2>1. QED
    BY <1>4, <1>8, <1>9
<1>11. QED
  BY <1>2, <1>6, <1>10

\* Records that were there before.
LEMMA OldType ==
  ASSUME TypeOK
  PROVE  Old \in Seq(Seq(Int)) /\ (rqs' = rqs => Old' = Old)
<1>1. OLD \in Seq(Int) /\ rqs.apn \in Nat
  BY DEF OLD, TypeOK, RequestType
<1>2. QED
  BY <1>1, ConstSeqType DEF Old

\* ncrcat, and ncra with multi-record output, write every record as it is
\* read.
LEMMA EachRecord ==
  ASSUME TypeOK, StrideInv, OutInv, Strides(rqs), FLG_MRO = rqs.mro, FilesInv, EachInv, Record
  PROVE  EachInv'
<1> PICK d \in Dmn : d = idx_rec
  BY DEF TypeOK
<1> PICK rec : rec = rec_in_cml[d] + idx_rec_crr_in
  OBVIOUS
<1>1. SUFFICES ASSUME rqs.prg = "ncrcat" \/ rqs.mro
               PROVE  ~FLG_BFR_NRM' /\ \A v \in Var : out'[v] = Old \o Each(VarPrc[v].dmn)'
  <2>1. rqs' = rqs
    BY DEF Record
  <2>2. QED
    BY <2>1, OldType DEF EachInv
<1>2. /\ rqs' = rqs /\ pc = "rec" /\ d \in Dmn /\ Old \in Seq(Seq(Int))
      /\ rqs.prg \in {"ncra", "ncrcat"}
  BY OldType DEF Record, TypeOK, RequestType
<1>3. /\ rec \in Int /\ usd' = [usd EXCEPT ![d] = Append(@, rec)]
      /\ rec_rmn_prv_ssc = 0 /\ usd \in [Dmn -> Seq(Int)]
  BY ReadsNext DEF TypeOK
<1>4. rqs.prg = "ncra" => NrmWrt /\ RthNtl
  <2>1. RmnSsc = 1 /\ ~FLG_ILV
    BY <1>3, StridesNow DEF RmnSsc
  <2>2. QED
    BY <1>1, <1>3, <2>1 DEF NrmWrt, RthNtl, REC_LST_GRP, REC_FRS_GRP
<1>5. FLG_BFR_NRM' = FALSE
  BY <1>4 DEF Record, ProcessVars
<1>6. ASSUME NEW v \in Var PROVE out'[v] = Old \o Each(VarPrc[v].dmn)'
  <2>1. out[v] = Old \o Each(VarPrc[v].dmn) /\ out[v] \in Seq(Seq(Int)) /\ VarPrc[v].dmn \in Dmn
    BY <1>1, VarFacts DEF EachInv, TypeOK
  <2>2. CASE VarPrc[v].dmn # d
    <3>1. v \notin VarsOf(d)
      BY <2>2 DEF VarsOf
    <3>2. out'[v] = out[v]
      BY <3>1 DEF Record, ProcessVars
    <3>3. usd'[VarPrc[v].dmn] = usd[VarPrc[v].dmn]
      BY <1>3, <2>1, <2>2
    <3>4. Each(VarPrc[v].dmn)' = Each(VarPrc[v].dmn)
      BY <1>2, <3>3 DEF Each
    <3>5. QED
      BY <2>1, <3>2, <3>4
  <2>3. CASE VarPrc[v].dmn = d
    <3>1. v \in VarsOf(d)
      BY <2>3 DEF VarsOf
    <3>2. idx_rec_out[d] = Len(out[v])
      BY <1>2, <2>3 DEF OutInv
    <3>3. out'[v] = PutRec(out[v], Len(out[v]), Put(rec))
      <4>1. CASE rqs.prg = "ncrcat"
        BY <3>1, <3>2, <4>1 DEF Record, ProcessVars, Put
      <4>2. CASE rqs.prg = "ncra"
        <5>1. bfr'[v] = Append(<<rec>>, NRM)
          BY <1>4, <3>1, <4>2 DEF Record, ProcessVars
        <5>2. Append(<<rec>>, NRM) = <<rec, NRM>>
          BY <1>3, AppendOne DEF NRM
        <5>3. out'[v] = PutRec(out[v], Len(out[v]), bfr'[v])
          BY <1>4, <3>1, <3>2, <4>2 DEF Record, ProcessVars
        <5>4. QED
          BY <4>2, <5>1, <5>2, <5>3 DEF Put
      <4>3. QED
        BY <1>2, <4>1, <4>2
    <3>4. /\ Each(d) \in Seq(Seq(Int)) /\ Put(rec) \in Seq(Int)
          /\ Each(d)' = Append(Each(d), Put(rec))
      <4>1. usd'[d] = Append(usd[d], rec)
        BY <1>3
      <4>2. QED
        BY <1>2, <1>3, <4>1, EachAppends
    <3>5. out'[v] = Append(out[v], Put(rec))
      BY <2>1, <3>3, <3>4, PutRecAppends
    <3>6. Old \o Append(Each(d), Put(rec)) = Append(Old \o Each(d), Put(rec))
      BY <1>2, <3>4, AppendBehind
    <3>7. Each(VarPrc[v].dmn)' = Append(Each(d), Put(rec))
      BY <2>3, <3>4 DEF Each
    <3>8. QED
      BY <2>1, <2>3, <3>5, <3>6, <3>7
  <2>4. QED
    BY <2>2, <2>3
<1>7. QED
  BY <1>5, <1>6

\* No other step writes then.
LEMMA EachStep ==
  ASSUME TypeOK, StrideInv, OutInv, TrailInv, Strides(rqs), FLG_MRO = rqs.mro, FilesInv,
         EachInv, Next, pc' # "exit"
  PROVE  EachInv'
<1>1. CASE Record
  BY <1>1, EachRecord
<1>2. CASE ~Record
  <2>1. usd' = usd /\ rqs' = rqs
    BY <1>2, QuietUsd
  <2>2. SUFFICES ASSUME rqs.prg = "ncrcat" \/ rqs.mro, ~FLG_BFR_NRM
                 PROVE  ~FLG_BFR_NRM' /\ out' = out
    BY <2>1, OldType DEF EachInv, Each
  <2>3. pc # "put"
    BY <2>2 DEF TrailInv
  <2>4. QED
    BY <1>2, <2>2, <2>3 DEF Next, EvlError, Evl, EndDmn, CloseFile, Normalise, PutVar,
       CloseOutput, Terminated, vars, bfr_vars
<1>3. QED
  BY <1>1, <1>2

\* With one average there is one record dimension, and all variables are in
\* one group.
LEMMA OneFacts ==
  ASSUME TypeOK, Strides(rqs), rqs.prg = "ncra", ~rqs.mro
  PROVE  /\ OneDimension /\ NbrRec = 1 /\ Dmn = {1} /\ idx_rec = 1 /\ VarsOf(1) = Var
         /\ \A v, w \in Var : VarPrc[v].grp = VarPrc[w].grp
         /\ \A v \in Var : OutVar(v) = {w \in Var : w = v /\ VarPrc[w].grp = grp_out_fll}
<1>1. OneDimension /\ OneGroup
  BY DEF Strides
<1>2. Dmn = {1} /\ NbrRec = 1
  BY <1>1 DEF Dmn, OneDimension
<1>3. idx_rec = 1
  BY <1>2 DEF TypeOK
<1>4. VarsOf(1) = Var
  BY <1>2, VarFacts DEF VarsOf
<1>5. \A v \in Var : OutVar(v) = {w \in Var : w = v /\ VarPrc[w].grp = grp_out_fll}
  BY <1>1 DEF OneDimension, OutVar
<1>6. QED
  BY <1>1, <1>2, <1>3, <1>4, <1>5 DEF OneGroup

\* The average and what comes before it.
LEMMA AverageType ==
  ASSUME TypeOK, Strides(rqs), rqs.prg = "ncra", ~rqs.mro
  PROVE  Append(usd[1], NRM) \in Seq(Int) /\ Append(Old, Append(usd[1], NRM)) = Old \o Average
<1>1. usd[1] \in Seq(Int) /\ NRM \in Int /\ Old \in Seq(Seq(Int))
  BY OneFacts, OldType DEF TypeOK, NRM
<1> DEFINE x == Append(usd[1], NRM)
<1>2. x \in Seq(Int)
  BY <1>1
<1>3. Append(Old, x) = Old \o <<x>>
  <2> HIDE DEF x
  <2>1. QED
    BY <1>1, <1>2, AppendConcat
<1>4. QED
  BY <1>2, <1>3 DEF Average

\* A record is added to the average, and with the last desired one the
\* average is written.
LEMMA OneRecord ==
  ASSUME TypeOK, StrideInv, OutInv, Strides(rqs), FLG_MRO = rqs.mro, FilesInv,
         rqs.prg = "ncra", ~rqs.mro, OneAverage, Record
  PROVE  OneAverage'
<1> PICK rec : rec = rec_in_cml[1] + idx_rec_crr_in
  OBVIOUS
<1>1. /\ Dmn = {1} /\ idx_rec = 1 /\ VarsOf(1) = Var /\ Old \in Seq(Seq(Int)) /\ Old' = Old
      /\ rqs' = rqs
      /\ \A v, w \in Var : VarPrc[v].grp = VarPrc[w].grp
  BY OneFacts, OldType DEF Record
<1>2. /\ rec \in Int /\ usd' = [usd EXCEPT ![1] = Append(@, rec)] /\ usd[1] \in Seq(Int)
      /\ rec_usd_cml[1] = Len(usd[1]) /\ rec_rmn_prv_ssc = 0
      /\ lmt[1].end < DmnSz /\ lmt[1].end \in Int
  BY <1>1, ReadsNext DEF TypeOK
<1>3. usd'[1] = Append(usd[1], rec) /\ usd'[1] \in Seq(Int) /\ usd'[1] # <<>>
  <2>1. usd'[1] = Append(usd[1], rec)
    BY <1>1, <1>2 DEF TypeOK
  <2>2. QED
    BY <1>2, <2>1, AppendFacts
<1>4. /\ pc = "rec" /\ pc' \in {"rec", "eod"} /\ fl_idx' = fl_idx /\ idx_rec' = idx_rec
      /\ fl_idx \in Nat /\ Passed(1) = fl_idx - 1 /\ FlNbr \in Nat /\ FlNbr' = FlNbr
  BY <1>1, CurrentType DEF Record, Passed, TypeOK, FlNbr
<1>5. ~REC_LST_DSR[1]
  BY <1>4 DEF OneAverage
<1>6. \A v \in Var : bfr[v] = usd[1] /\ out[v] = Old
  BY <1>4, <1>5 DEF OneAverage
<1>7. NrmWrt <=> LstDsr
  BY DEF NrmWrt
<1>8. REC_LST_DSR'[1] = LstDsr
  BY <1>1 DEF Record, TypeOK
<1>9. ASSUME NEW v \in Var
      PROVE  bfr'[v] = IF NrmWrt THEN Append(usd'[1], NRM) ELSE usd'[1]
  <2>1. (IF RthNtl THEN <<rec>> ELSE Append(bfr[v], rec)) = usd'[1]
    <3>1. RthNtl <=> Len(usd[1]) = 0
      BY <1>1, <1>2 DEF RthNtl
    <3>2. CASE Len(usd[1]) = 0
      <4>1. usd[1] = <<>>
        BY <1>2, <3>2
      <4>2. Append(<<>>, rec) = <<rec>>
        OBVIOUS
      <4>3. QED
        BY <1>3, <3>1, <3>2, <4>1, <4>2
    <3>3. CASE Len(usd[1]) # 0
      BY <1>3, <1>6, <3>1, <3>3
    <3>4. QED
      BY <3>2, <3>3
  <2>2. bfr'[v] = IF NrmWrt THEN Append(IF RthNtl THEN <<rec>> ELSE Append(bfr[v], rec), NRM)
                  ELSE IF RthNtl THEN <<rec>> ELSE Append(bfr[v], rec)
    BY <1>1 DEF Record, ProcessVars
  <2>3. QED
    BY <2>1, <2>2
<1>10. ASSUME NEW v \in Var
       PROVE  out'[v] = IF NrmWrt THEN Old \o Average' ELSE Old
  <2>1. idx_rec_out[1] = Len(out[v])
    BY <1>1, <1>4, VarFacts DEF OutInv
  <2>2. out'[v] = IF NrmWrt THEN PutRec(Old, Len(Old), bfr'[v]) ELSE Old
    BY <1>1, <1>6, <2>1 DEF Record, ProcessVars
  <2>3. ASSUME NrmWrt PROVE PutRec(Old, Len(Old), bfr'[v]) = Old \o Average'
    <3>1. PICK x : x = Append(usd'[1], NRM)
      OBVIOUS
    <3>2. x \in Seq(Int) /\ bfr'[v] = x
      BY <1>3, <1>9, <2>3, <3>1 DEF NRM
    <3>3. PutRec(Old, Len(Old), x) = Append(Old, x)
      BY <1>1, <3>2, PutRecAppends
    <3>4. Average' = <<x>>
      BY <3>1 DEF Average, NRM
    <3>5. Append(Old, x) = Old \o <<x>>
      BY <1>1, <3>2, AppendConcat
    <3>6. QED
      BY <3>2, <3>3, <3>4, <3>5
  <2>4. QED
    BY <2>2, <2>3
<1>11. FLG_BFR_NRM' = ~NrmWrt
  BY DEF Record, ProcessVars
<1>12. ASSUME NEW v \in Var, ~NrmWrt PROVE grp_out_fll' = VarPrc[v].grp
  <2>1. PICK w \in LastVar(1) : grp_out_fll' = IF NrmWrt THEN NoGrp ELSE VarPrc[w].grp
    BY <1>1 DEF Record, ProcessVars
  <2>2. w \in Var
    BY <1>1 DEF LastVar
  <2>3. QED
    BY <1>1, <1>12, <2>1, <2>2
<1>13. ASSUME LstDsr PROVE fl_idx = FlNbr /\ pc' = "eod"
  <2>1. fl_idx = FlNbr /\ idx_rec_crr_in = MinOf(lmt[1].end + Ssc(Arg) - 1, DmnSz - 1)
    BY <1>1, <1>5, <1>13 DEF LstDsr
  <2>2. Ssc(Arg) = 1 /\ DmnSz \in Nat
    BY StridesNow, CurrentType
  <2>3. idx_rec_crr_in = lmt[1].end
    BY <1>2, <2>1, <2>2 DEF MinOf
  <2>4. Break
    BY <1>1, <1>2, <2>2, <2>3 DEF Break, REC_SRD_LST, RmnSsc
  <2>5. QED
    BY <2>1, <2>4 DEF Record
<1>14. REC_LST_DSR'[1] => usd'[1] # <<>> /\ fl_idx' = FlNbr' /\ pc' = "eod"
  BY <1>3, <1>4, <1>8, <1>13
<1>15. FLG_BFR_NRM' <=> usd'[1] # <<>> /\ ~REC_LST_DSR'[1]
  BY <1>3, <1>7, <1>8, <1>11 DEF LstDsr, TypeOK
<1>16. ASSUME NEW v \in Var
       PROVE  /\ FLG_BFR_NRM' => grp_out_fll' = VarPrc[v].grp
              /\ ~REC_LST_DSR'[1] => bfr'[v] = usd'[1]
              /\ out'[v] = IF REC_LST_DSR'[1] THEN Old \o Average' ELSE Old
  <2>1. REC_LST_DSR'[1] <=> NrmWrt
    BY <1>7, <1>8
  <2>2. QED
    BY <1>9, <1>10, <1>11, <1>12, <2>1
<1>17. QED
  BY <1>1, <1>4, <1>14, <1>15, <1>16 DEF OneAverage

\* Every other step before the trailing writes leaves the average alone.
LEMMA OneFrame ==
  ASSUME TypeOK, OneAverage,
         UNCHANGED <<rqs, usd, REC_LST_DSR, FLG_BFR_NRM, grp_out_fll, bfr, out>>,
         pc \notin {"put", "done"}, pc' \notin {"put", "done"},
         REC_LST_DSR[1] => fl_idx' = FlNbr /\ (pc' = "eod" \/ Passed(1)' = FlNbr)
  PROVE  OneAverage'
<1>1. Old' = Old /\ Average' = Average /\ FlNbr' = FlNbr
  BY OldType DEF Average, FlNbr
<1>2. QED
  BY <1>1 DEF OneAverage

\* The trailing write of one variable.
LEMMA OnePutVar ==
  ASSUME TypeOK, TrailInv, Strides(rqs), rqs.prg = "ncra", ~rqs.mro, OneAverage, PutVar
  PROVE  OneAverage' /\ pc' = "put" /\ idx' = idx + 1
<1>1. /\ pc = "put" /\ idx \in Var /\ idx \in Nat /\ Var \subseteq Nat
      /\ UNCHANGED <<rqs, fl_idx, idx_rec, REC_LST_DSR, usd, FLG_BFR_NRM, grp_out_fll, bfr>>
  BY VarFacts DEF PutVar, cnt_vars, TypeOK
<1>2. FLG_BFR_NRM /\ usd[1] # <<>> /\ ~REC_LST_DSR[1] /\ srt_out[idx] = Len(out[idx])
  BY <1>1, OneFacts DEF TrailInv, OneAverage
<1>3. OutVar(idx) = {idx}
  <2>1. grp_out_fll = VarPrc[idx].grp
    BY <1>1, <1>2 DEF OneAverage
  <2>2. QED
    BY <1>1, <2>1, OneFacts
<1>4. /\ pc' = "put" /\ idx' = idx + 1
      /\ out' = [v \in Var |-> IF v = idx THEN PutRec(out[v], srt_out[idx], bfr[idx]) ELSE out[v]]
  BY <1>1, <1>3 DEF PutVar
<1>5. /\ \A v \in Var : /\ grp_out_fll = VarPrc[v].grp /\ bfr[v] = Append(usd[1], NRM)
                        /\ out[v] = IF v < idx THEN Old \o Average ELSE Old
  BY <1>1, <1>2 DEF OneAverage
<1>6. Old' = Old /\ Average' = Average /\ Old \in Seq(Seq(Int))
  BY <1>1, OldType DEF Average
<1>7. PutRec(out[idx], srt_out[idx], bfr[idx]) = Old \o Average
  <2>1. out[idx] = Old
    BY <1>1, <1>5
  <2>2. bfr[idx] \in Seq(Int) /\ Append(Old, bfr[idx]) = Old \o Average
    BY <1>1, <1>5, AverageType
  <2>3. QED
    BY <1>2, <1>6, <2>1, <2>2, PutRecAppends
<1>8. ASSUME NEW v \in Var PROVE out'[v] = IF v < idx' THEN Old \o Average ELSE Old
  <2>1. v \in Nat
    BY <1>1
  <2>2. CASE v = idx
    <3>1. out'[v] = Old \o Average
      BY <1>4, <1>7, <2>2
    <3>2. v < idx'
      BY <1>1, <1>4, <2>2
    <3>3. QED
      BY <3>1, <3>2
  <2>3. CASE v # idx
    <3>1. out'[v] = out[v]
      BY <1>4, <2>3
    <3>2. v < idx' <=> v < idx
      BY <1>1, <1>4, <2>1, <2>3
    <3>3. QED
      BY <1>5, <3>1, <3>2
  <2>4. QED
    BY <2>2, <2>3
<1>9. QED
  BY <1>1, <1>2, <1>4, <1>5, <1>6, <1>8 DEF OneAverage

\* The one average, for every step.
LEMMA OneStep ==
  ASSUME TypeOK, StrideInv, OutInv, TrailInv, Strides(rqs), FLG_MRO = rqs.mro, FilesInv,
         idx > 0, pc \notin {"put", "done"} => idx = 1,
         rqs.prg = "ncra", ~rqs.mro, OneAverage, Next, pc # "exit", pc' # "exit"
  PROVE  OneAverage'
<1>1. /\ Dmn = {1} /\ NbrRec = 1 /\ idx_rec = 1 /\ fl_idx \in Nat /\ FlNbr \in Nat
      /\ fl_idx <= FlNbr /\ usd[1] \in Seq(Int)
  BY OneFacts, CurrentType DEF TypeOK, FlNbr
<1>2. CASE Evl
  <2>1. pc = "evl" /\ Passed(1) = fl_idx - 1
    BY <1>1, <1>2 DEF Evl, Passed
  <2>2. ~REC_LST_DSR[1]
    BY <1>1, <2>1 DEF OneAverage
  <2>3. pc' = "rec"
    BY <1>2 DEF Evl
  <2>4. QED
    BY <1>2, <2>1, <2>2, <2>3, OneFrame DEF Evl, bfr_vars
<1>3. CASE Record
  BY <1>3, OneRecord
<1>4. CASE EndDmn
  <2>1. pc \in {"rec", "eod"} /\ pc' = "eof" /\ fl_idx' = fl_idx
    BY <1>1, <1>4 DEF EndDmn, Exit
  <2>2. Passed(1)' = fl_idx
    BY <2>1 DEF Passed
  <2>3. REC_LST_DSR[1] => fl_idx = FlNbr
    BY DEF OneAverage
  <2>4. QED
    BY <1>4, <2>1, <2>2, <2>3, OneFrame DEF EndDmn, bfr_vars
<1>5. CASE CloseFile
  <2>1. REC_LST_DSR[1] => fl_idx = FlNbr
    BY DEF OneAverage
  <2>2. pc = "eof" /\ pc' \in {"nrm", "evl"}
        /\ (fl_idx = FlNbr => pc' = "nrm" /\ fl_idx' = fl_idx)
    BY <1>5 DEF CloseFile
  <2>3. REC_LST_DSR[1] => fl_idx' = FlNbr /\ Passed(1)' = FlNbr
    BY <2>1, <2>2 DEF Passed
  <2>4. QED
    BY <1>5, <2>2, <2>3, OneFrame DEF CloseFile, cnt_vars, bfr_vars
<1>6. CASE Normalise
  <2>1. /\ pc = "nrm" /\ idx = 1
        /\ UNCHANGED <<rqs, fl_idx, idx_rec, REC_LST_DSR, usd, FLG_BFR_NRM, grp_out_fll, out, idx>>
        /\ bfr' = IF FLG_BFR_NRM THEN [v \in Var |-> Append(bfr[v], NRM)] ELSE bfr
        /\ pc' = IF FLG_BFR_NRM THEN "put" ELSE "done"
    BY <1>6 DEF Normalise, cnt_vars
  <2>2. Old' = Old /\ Average' = Average /\ FlNbr' = FlNbr /\ Passed(1)' = fl_idx /\ Passed(1) = fl_idx
    BY <2>1, OldType DEF Average, FlNbr, Passed
  <2>3. \A v \in Var : ~(v < 1)
    <3>1. Var = 1..Len(VarPrc)
      BY VarPrcAssumption DEF Var
    <3>2. QED
      BY <3>1
  <2>4. CASE FLG_BFR_NRM
    <3>1. ~REC_LST_DSR[1] /\ \A v \in Var : /\ bfr[v] = usd[1] /\ out[v] = Old
                                            /\ grp_out_fll = VarPrc[v].grp
      BY <2>1, <2>4 DEF OneAverage
    <3>2. usd[1] # <<>>
      BY <2>4 DEF OneAverage
    <3>3. \A v \in Var : bfr'[v] = Append(usd[1], NRM)
      BY <2>1, <2>4, <3>1
    <3>4. QED
      BY <2>1, <2>2, <2>3, <2>4, <3>1, <3>2, <3>3 DEF OneAverage, NRM
  <2>5. CASE ~FLG_BFR_NRM
    <3>1. usd[1] # <<>>
      BY <1>1, <2>1, AllUsedInFiles
    <3>2. REC_LST_DSR[1]
      BY <2>5, <3>1 DEF OneAverage
    <3>3. fl_idx = FlNbr /\ \A v \in Var : out[v] = Old \o Average
      BY <2>1, <3>2 DEF OneAverage
    <3>4. QED
      BY <2>1, <2>2, <2>5, <3>1, <3>2, <3>3 DEF OneAverage
  <2>6. QED
    BY <2>4, <2>5
<1>7. CASE PutVar
  BY <1>7, OnePutVar
<1>8. CASE CloseOutput
  <2>1. /\ pc = "put" /\ pc' = "done" /\ idx \notin Var
        /\ UNCHANGED <<rqs, fl_idx, idx_rec, REC_LST_DSR, usd, FLG_BFR_NRM, grp_out_fll, bfr, out>>
    BY <1>8 DEF CloseOutput, cnt_vars, bfr_vars
  <2>2. Old' = Old /\ Average' = Average /\ FlNbr' = FlNbr /\ Passed(1)' = fl_idx /\ Passed(1) = fl_idx
    BY <2>1, OldType DEF Average, FlNbr, Passed
  <2>3. \A v \in Var : v < idx
    <3>1. Var = 1..Len(VarPrc) /\ Len(VarPrc) \in Nat /\ idx \in Nat
      BY VarPrcAssumption DEF Var, TypeOK
    <3>2. QED
      BY <2>1, <3>1
  <2>4. FLG_BFR_NRM /\ usd[1] # <<>> /\ ~REC_LST_DSR[1]
    BY <2>1 DEF TrailInv, OneAverage
  <2>5. \A v \in Var : /\ bfr[v] = Append(usd[1], NRM) /\ out[v] = Old \o Average
                       /\ grp_out_fll = VarPrc[v].grp
    BY <2>1, <2>3, <2>4 DEF OneAverage
  <2>6. QED
    BY <2>1, <2>2, <2>4, <2>5 DEF OneAverage, NRM
<1>9. CASE Terminated
  BY <1>9, OldType DEF Terminated, vars, cnt_vars, bfr_vars, OneAverage, Average, FlNbr, Passed
<1>10. CASE EvlError
  BY <1>10 DEF EvlError, Exit
<1>11. QED
  BY <1>2, <1>3, <1>4, <1>5, <1>6, <1>7, <1>8, <1>9, <1>10 DEF Next

-----------------------------------------------------------------------------
(* The record machine implements the record selection.                     *)

\* Nothing is used or written yet.
LEMMA SelectInit == Init => SelectInv
<1> SUFFICES ASSUME Init, Strides(rqs) PROVE SelectInv
  BY DEF SelectInv
<1>1. TypeOK
  BY TypeInit
<1>3. FilesInv
  <2>1. SUFFICES ASSUME NEW d \in Dmn
                 PROVE  /\ rec_in_cml[d] = Selection!RecCml(rqs, d)[Passed(d)]
                        /\ Passed(d) # FlNbr
    BY DEF FilesInv
  <2>2. Passed(d) = 0 /\ FlNbr > 0 /\ FlNbr \in Nat
    BY <1>1, CurrentType DEF Init, Passed, Dmn, TypeOK, FlNbr
  <2>3. Selection!RecCml(rqs, d)[0] = 0
    BY <1>1, CmlFacts DEF TypeOK
  <2>4. QED
    BY <2>2, <2>3 DEF Init
<1>4. Old \in Seq(Seq(Int)) /\ \A v \in Var : out[v] = Old
  BY <1>1, OldType DEF Init, Old
<1>5. EachInv
  <2>1. ASSUME NEW v \in Var PROVE out[v] = Old \o Each(VarPrc[v].dmn)
    <3>1. Each(VarPrc[v].dmn) = <<>>
      BY VarFacts DEF Init, Each
    <3>2. Old \o <<>> = Old
      BY <1>4
    <3>3. QED
      BY <1>4, <3>1, <3>2
  <2>2. QED
    BY <2>1 DEF Init, EachInv
<1>6. OneInv
  <2>1. SUFFICES ASSUME rqs.prg = "ncra", ~rqs.mro PROVE OneAverage
    BY DEF OneInv
  <2>2. 1 \in Dmn
    BY NbrRecAssumption DEF Dmn
  <2>3. QED
    BY <1>4, <2>2 DEF OneAverage, Init
<1>7. QED
  BY <1>3, <1>5, <1>6 DEF Init, SelectInv

\* SelectInv, for every step.
LEMMA SelectStep ==
  ASSUME TypeOK, StrideInv, OutInv, TrailInv, SelectInv, Strides(rqs), [Next]_vars
  PROVE  SelectInv'
<1>1. CASE UNCHANGED vars
  BY <1>1, OldType DEF SelectInv, FilesInv, EachInv, OneInv, OneAverage, Each, Average, Passed, FlNbr,
     vars, cnt_vars, rec_vars, bfr_vars
<1>2. CASE pc = "exit"
  BY <1>2 DEF Next, EvlError, Evl, Record, EndDmn, CloseFile, Normalise, PutVar, CloseOutput,
     Terminated, vars, SelectInv
<1>3. CASE Next /\ pc # "exit" /\ pc' # "exit"
  <2>1. /\ idx > 0 /\ FLG_MRO = rqs.mro /\ (pc \notin {"put", "done"} => idx = 1)
        /\ FilesInv /\ EachInv /\ OneInv
    BY <1>3 DEF SelectInv
  <2>2. rqs' = rqs
    BY <1>3 DEF Next, EvlError, Evl, Record, EndDmn, CloseFile, Normalise, PutVar,
       CloseOutput, Terminated, vars
  <2>3. FLG_MRO' = rqs'.mro
    <3>1. CASE Evl
      <4>1. FLG_MRO' = (FLG_MRO \/ FLG_ILV) /\ ~FLG_ILV /\ FLG_MRO \in BOOLEAN
        BY <3>1, StridesNow DEF Evl, TypeOK
      <4>2. FLG_MRO' = FLG_MRO
        BY <4>1
      <4>3. QED
        BY <2>1, <2>2, <4>2
    <3>2. CASE ~Evl
      <4>1. FLG_MRO' = FLG_MRO
        BY <1>3, <3>2 DEF Next, EvlError, Record, EndDmn, CloseFile, Normalise, PutVar,
           CloseOutput, Terminated, vars
      <4>2. QED
        BY <2>1, <2>2, <4>1
    <3>3. QED
      BY <3>1, <3>2
  <2>4. idx' > 0 /\ (pc' \notin {"put", "done"} => idx' = 1)
    <3>1. CASE PutVar
      <4>1. idx \in Nat /\ idx' = idx + 1 /\ pc' = "put"
        BY <1>3, <3>1 DEF PutVar, TypeOK, Exit
      <4>2. QED
        BY <4>1
    <3>2. CASE ~PutVar
      <4>1. idx' = idx /\ (pc' \notin {"put", "done"} => pc \notin {"put", "done"})
        BY <1>3, <3>2 DEF Next, EvlError, Evl, Record, EndDmn, CloseFile, Normalise, CloseOutput,
           Terminated, vars, Exit
      <4>2. QED
        BY <2>1, <4>1
    <3>3. QED
      BY <3>1, <3>2
  <2>5. FilesInv'
    BY <1>3, <2>1, FilesStep
  <2>6. EachInv'
    BY <1>3, <2>1, EachStep
  <2>7. OneInv'
    <3>1. SUFFICES ASSUME rqs.prg = "ncra", ~rqs.mro PROVE OneAverage'
      BY <2>2 DEF OneInv
    <3>2. OneAverage
      BY <2>1, <3>1 DEF OneInv
    <3>3. QED
      BY <1>3, <2>1, <3>1, <3>2, OneStep
  <2>8. QED
    BY <2>3, <2>4, <2>5, <2>6, <2>7 DEF SelectInv
<1>4. CASE pc' = "exit"
  BY <1>4 DEF SelectInv
<1>5. QED
  BY <1>1, <1>2, <1>3, <1>4

\* A record that is read is the next one of the selection.
LEMMA SelectUse ==
  ASSUME TypeOK, StrideInv, Strides(rqs), FilesInv, Record
  PROVE  \E d \in Dmn : /\ Len(usd[d]) < Len(Selection!Wanted(rqs, d))
                        /\ usd' = [usd EXCEPT ![d] =
                                     Append(@, Selection!Wanted(rqs, d)[Len(@) + 1])]
<1> PICK d \in Dmn : d = idx_rec
  BY DEF TypeOK
<1> PICK rec : rec = rec_in_cml[d] + idx_rec_crr_in
  OBVIOUS
<1>1. /\ rec = NextRec(d) /\ Within(rqs, d, rec) /\ Strided(d)
      /\ usd' = [usd EXCEPT ![d] = Append(@, rec)]
  BY ReadsNext
<1>2. UnitStride(rqs.arg[d])
  BY StridesNow
<1>3. LET w == Selection!Wanted(rqs, d)
      IN  Len(usd[d]) < Len(w) /\ w[Len(usd[d]) + 1] = rec
  BY <1>1, <1>2, NextWanted
<1>4. usd' = [usd EXCEPT ![d] = Append(@, Selection!Wanted(rqs, d)[Len(@) + 1])]
  BY <1>1, <1>3 DEF TypeOK
<1>5. QED
  BY <1>3, <1>4

\* The program exits only for an argument that the file refuses, or without
\* any record.
LEMMA SelectFail ==
  ASSUME TypeOK, StrideInv, TrailInv, Strides(rqs), SelectInv, Next, pc # "exit", pc' = "exit"
  PROVE  /\ usd' = usd /\ rqs' = rqs /\ pc # "done"
         /\ \E d \in Dmn : \/ \E f \in DOMAIN rqs.fl :
                                Selection!SyntaxError(rqs.arg[d], rqs.fl[f][d])
                           \/ Selection!Wanted(rqs, d) = <<>>
<1>1. CASE EvlError
  <2>1. SyntaxError(Arg, DmnSz) /\ idx_rec \in Dmn /\ fl_idx \in DOMAIN rqs.fl
    <3>1. DOMAIN rqs.fl = 1..Len(rqs.fl)
      BY DEF TypeOK, RequestType
    <3>2. QED
      BY <1>1, <3>1 DEF EvlError, TypeOK
  <2>2. Selection!SyntaxError(Arg, DmnSz)
    BY <2>1 DEF SyntaxError, MinIdx, MaxIdx, CnvIdx, Srd, Ssc, Ilv, FlgIlv, Selection!SyntaxError,
       Selection!MinIdx, Selection!MaxIdx, Selection!CnvIdx, Selection!Srd, Selection!Ssc,
       Selection!Ilv, Selection!FlgIlv
  <2>3. QED
    BY <1>1, <2>1, <2>2 DEF EvlError, Arg, DmnSz, cnt_vars
<1>2. CASE EndDmn
  <2>1. /\ fl_idx = FlNbr /\ rec_usd_cml[idx_rec] = 0 /\ idx_rec \in Dmn
        /\ pc \in {"rec", "eod"} /\ usd' = usd /\ rqs' = rqs
    BY <1>2 DEF EndDmn, Exit, TypeOK, cnt_vars
  <2> PICK d \in Dmn : d = idx_rec
    BY <2>1
  <2> DEFINE a == rqs.arg[d]
  <2>2. /\ rqs \in RequestType /\ UnitStride(a) /\ DmnInv(d) /\ Strided(d)
        /\ rec_usd_cml[d] = Len(usd[d]) /\ usd[d] \in Seq(Int)
    BY StridesNow DEF StrideInv, DmnInv, TypeOK
  <2>3. usd[d] = <<>>
    BY <2>1, <2>2
  <2>4. Behind(d, rec_in_cml[d] + DmnSz)
    BY <1>2, <2>2, EndBehind
  <2>5. rec_in_cml[d] + DmnSz = Selection!RecTtl(rqs, d)
    <3>1. rec_in_cml[d] = Selection!RecCml(rqs, d)[fl_idx - 1]
      <4>1. ~(d < idx_rec)
        BY <2>1 DEF Dmn
      <4>2. FilesInv
        BY DEF SelectInv
      <4>3. QED
        BY <2>1, <4>1, <4>2 DEF FilesInv, Passed
    <3>2. fl_idx \in 1..Len(rqs.fl)
      BY DEF TypeOK
    <3>3. Selection!RecCml(rqs, d)[fl_idx] = Selection!RecCml(rqs, d)[fl_idx - 1] + DmnSz
      BY <2>2, <3>2, CmlFacts DEF DmnSz
    <3>4. QED
      BY <2>1, <3>1, <3>3 DEF Selection!RecTtl, FlNbr
  <2>6. NextRec(d) = FirstRec(a) /\ FirstRec(a) \in Nat /\ Selection!RecTtl(rqs, d) \in Nat
        /\ (a.usr_max => LastRec(a) \in Nat)
    BY <2>2, <2>3, StrideLimits DEF NextRec
  <2>7. ~Within(rqs, d, NextRec(d))
    <3>1. CASE PastLast(d)
      BY <2>6, <3>1 DEF PastLast, Within
    <3>2. CASE NextRec(d) >= Selection!RecTtl(rqs, d)
      <4>1. ~(NextRec(d) < Selection!RecTtl(rqs, d))
        <5>1. NextRec(d) \in Nat
          BY <2>6
        <5>2. QED
          BY <2>6, <3>2, <5>1
      <4>2. QED
        BY <4>1 DEF Within
    <3>3. QED
      BY <2>4, <2>5, <3>1, <3>2 DEF Behind
  <2>8. usd[d] = Selection!Wanted(rqs, d)
    BY <2>2, <2>3, <2>7, AllUsed
  <2>9. QED
    BY <2>1, <2>3, <2>8
<1>3. CASE PutVar
  <2>1. CASE rqs.prg = "ncra" /\ ~rqs.mro
    <3>1. OneAverage
      BY <2>1 DEF SelectInv, OneInv
    <3>2. QED
      BY <1>3, <2>1, <3>1, OnePutVar
  <2>2. CASE rqs.prg = "ncrcat" \/ rqs.mro
    BY <1>3, <2>2 DEF PutVar, TrailInv, SelectInv, EachInv
  <2>3. rqs.prg \in {"ncra", "ncrcat"}
    BY DEF TypeOK, RequestType
  <2>4. QED
    BY <2>1, <2>2, <2>3
<1>4. CASE Evl
  BY <1>4, StridesNow DEF Evl
<1>5. CASE Record \/ CloseFile \/ Normalise \/ CloseOutput \/ Terminated
  BY <1>5 DEF Record, CloseFile, Normalise, CloseOutput, Terminated, vars
<1>6. QED
  BY <1>1, <1>2, <1>3, <1>4, <1>5 DEF Next

\* What the selection promises of a closed output.
StridesDone == Strides(rqs) /\ pc = "done"
Selected ==
  /\ \A d \in Dmn : usd[d] # <<>> /\ usd[d] = Selection!Wanted(rqs, d)
  /\ out = [v \in Var |-> Selection!Result(rqs, VarPrc[v].dmn)]

\* It is what the output holds.
LEMMA SelectResult == TypeOK /\ StrideInv /\ SelectInv /\ StridesDone => Selected
<1> SUFFICES ASSUME TypeOK, StrideInv, SelectInv, Strides(rqs), pc = "done" PROVE Selected
  BY DEF StridesDone
<1>1. FilesInv /\ EachInv /\ OneInv
  BY DEF SelectInv
<1>2. \A d \in Dmn : usd[d] # <<>> /\ usd[d] = Selection!Wanted(rqs, d)
  BY <1>1, AllUsedInFiles
<1>3. Old = [k \in 1..rqs.apn |-> Selection!OLD]
  BY DEF Old, OLD, Selection!OLD
<1>4. rqs \in RequestType /\ rqs.prg \in {"ncra", "ncrcat"} /\ usd \in [Dmn -> Seq(Int)]
  BY DEF TypeOK, RequestType
<1>5. ASSUME NEW v \in Var PROVE out[v] = Selection!Result(rqs, VarPrc[v].dmn)
  <2> PICK d \in Dmn : d = VarPrc[v].dmn
    BY VarFacts
  <2> DEFINE u == usd[d]
             n == Selection!GrpNbr(rqs, d)
             a == rqs.arg[d]
  <2>1. u = Selection!Wanted(rqs, d) /\ u \in Seq(Int)
    BY <1>2, <1>4
  <2>2. UnitStride(a) /\ n \in Nat
    BY <1>4, StridesNow, GrpIn
  <2>3. /\ u = [k \in 1..n |-> StridedRec(a, k - 1)]
        /\ Selection!Groups(rqs, d) = [k \in 1..n |-> <<StridedRec(a, k - 1)>>]
    BY <1>4, <2>1, <2>2, WantedIs
  <2>4. CASE rqs.prg = "ncrcat"
    <3>1. Selection!NewRecords(rqs, d) = [i \in DOMAIN u |-> <<u[i]>>]
      BY <2>1, <2>4 DEF Selection!NewRecords
    <3>2. Each(d) = [i \in DOMAIN u |-> <<u[i]>>]
      BY <2>1, <2>4 DEF Each
    <3>3. out[v] = Old \o Each(d)
      BY <1>1, <2>4 DEF EachInv
    <3>4. QED
      BY <1>3, <3>1, <3>2, <3>3 DEF Selection!Result
  <2>5. CASE rqs.prg = "ncra" /\ rqs.mro
    <3>1. Selection!NewRecords(rqs, d) =
            [g \in DOMAIN Selection!Groups(rqs, d) |-> Append(Selection!Groups(rqs, d)[g], NRM)]
      BY <2>5 DEF Selection!NewRecords, Selection!NRM, NRM
    <3>2. Len(u) = n /\ \A k \in 1..n : u[k] \in Int /\ Selection!Groups(rqs, d)[k] = <<u[k]>>
      BY <2>1, <2>2, <2>3
    <3>3. \A k \in 1..n : Append(<<u[k]>>, NRM) = <<u[k], NRM>>
      BY <3>2, AppendOne DEF NRM
    <3>4. Selection!NewRecords(rqs, d) = [k \in 1..n |-> <<u[k], NRM>>]
      <4>1. DOMAIN Selection!Groups(rqs, d) = 1..n
        BY <2>3
      <4> HIDE DEF u, n
      <4>2. QED
        BY <3>1, <3>2, <3>3, <4>1
    <3>5. Each(d) = [k \in 1..n |-> <<u[k], NRM>>]
      BY <2>5, <3>2 DEF Each
    <3>6. out[v] = Old \o Each(d)
      BY <1>1, <2>5 DEF EachInv
    <3>7. QED
      BY <1>3, <3>4, <3>5, <3>6 DEF Selection!Result
  <2>6. CASE rqs.prg = "ncra" /\ ~rqs.mro
    <3>1. d = 1
      BY <2>6, OneFacts
    <3>2. ~\E e \in Selection!Dmn : Selection!FlgIlv(rqs.arg[e])
      <4>1. Selection!Dmn = Dmn
        BY DEF Selection!Dmn, Dmn
      <4>2. QED
        BY <1>4, <4>1, StridesNow, StrideLimits
    <3>3. Selection!NewRecords(rqs, d) = <<Append(u, NRM)>>
      BY <2>1, <2>6, <3>2 DEF Selection!NewRecords, Selection!NRM, NRM
    <3>4. out[v] = Old \o Average
      BY <1>1, <2>6 DEF OneInv, OneAverage
    <3>5. QED
      BY <1>3, <3>1, <3>3, <3>4 DEF Average, Selection!Result
  <2>7. QED
    BY <1>4, <2>4, <2>5, <2>6
<1>6. out = [v \in Var |-> out[v]]
  BY DEF TypeOK
<1>7. QED
  BY <1>2, <1>5, <1>6 DEF Selected

\* Also after a step.
LEMMA SelectResultNext ==
  TypeOK' /\ StrideInv' /\ SelectInv' /\ StridesDone' => Selected'
<1>1. QED
  BY SelectResult, PTL

\* Every step is one of the selection, or none.
LEMMA SelectsStep ==
  ASSUME TypeOK, StrideInv, OutInv, TrailInv, SelectInv, Strides(rqs), [Next]_vars
  PROVE  [Selection!Next]_Selection!svars
<1> DEFINE state == IF pc = "done" THEN "closed" ELSE IF pc = "exit" THEN "failed" ELSE "open"
           file == IF pc = "done" THEN out ELSE <<>>
<1>1. Selection!Dmn = Dmn /\ Selection!Var = Var
  BY DEF Selection!Dmn, Dmn, Selection!Var, Var
<1>2. CASE UNCHANGED <<rqs, usd, pc, out>>
  BY <1>2 DEF Selection!svars
<1>3. CASE Record
  <2>1. PICK d \in Dmn : /\ Len(usd[d]) < Len(Selection!Wanted(rqs, d))
                         /\ usd' = [usd EXCEPT ![d] =
                                      Append(@, Selection!Wanted(rqs, d)[Len(@) + 1])]
    <3>1. FilesInv
      BY <1>3 DEF SelectInv, Record
    <3>2. QED
      BY <1>3, <3>1, SelectUse
  <2>2. pc \notin {"done", "exit"} /\ pc' \notin {"done", "exit"} /\ rqs' = rqs
    BY <1>3 DEF Record
  <2>3. Selection!Use(d)
    BY <2>1, <2>2 DEF Selection!Use
  <2>4. QED
    BY <1>1, <2>3 DEF Selection!Next
<1>4. CASE Next /\ ~Record /\ pc # "exit" /\ pc' = "exit"
  <2>1. /\ usd' = usd /\ rqs' = rqs /\ pc # "done"
        /\ \E d \in Dmn : \/ \E f \in DOMAIN rqs.fl :
                               Selection!SyntaxError(rqs.arg[d], rqs.fl[f][d])
                          \/ Selection!Wanted(rqs, d) = <<>>
    BY <1>4, SelectFail
  <2>2. \E d \in Selection!Dmn : \/ \E f \in DOMAIN rqs.fl :
                                     Selection!SyntaxError(rqs.arg[d], rqs.fl[f][d])
                                \/ Selection!Wanted(rqs, d) = <<>>
    BY <1>1, <2>1, Zenon
  <2>3. state = "open" /\ state' = "failed" /\ file' = file
    BY <1>4, <2>1
  <2>4. Selection!Fail
    BY <2>1, <2>2, <2>3 DEF Selection!Fail
  <2>5. QED
    BY <2>4 DEF Selection!Next
<1>5. CASE Next /\ ~Record /\ pc # "done" /\ pc' = "done"
  <2>1. usd' = usd /\ rqs' = rqs /\ pc # "exit"
    BY <1>5, QuietUsd DEF Next, EvlError, Evl, EndDmn, CloseFile, Normalise, PutVar, CloseOutput,
       Terminated, Exit, vars
  <2>2. Selected'
    <3>1. TypeOK' /\ StrideInv' /\ SelectInv' /\ StridesDone'
      BY <1>5, <2>1, TypeStep, StrideStep, SelectStep DEF StridesDone
    <3>2. QED
      BY <3>1, SelectResultNext
  <2>3. Selection!Close
    BY <1>1, <1>5, <2>1, <2>2 DEF Selection!Close, Selected
  <2>4. QED
    BY <2>3 DEF Selection!Next
<1>6. CASE Next /\ ~Record /\ pc' \notin {"done", "exit"}
  <2>1. usd' = usd /\ rqs' = rqs /\ pc \notin {"done", "exit"}
    BY <1>6, QuietUsd DEF Next, EvlError, Evl, EndDmn, CloseFile, Normalise, PutVar, CloseOutput,
       Terminated, vars
  <2>2. QED
    BY <1>6, <2>1 DEF Selection!svars
<1>7. CASE pc \in {"done", "exit"}
  <2>1. UNCHANGED vars
    BY <1>7 DEF Next, EvlError, Evl, Record, EndDmn, CloseFile, Normalise, PutVar, CloseOutput,
       Terminated, vars
  <2>2. QED
    BY <1>2, <2>1 DEF vars, cnt_vars, bfr_vars
<1>8. CASE UNCHANGED vars
  BY <1>2, <1>8 DEF vars, cnt_vars, bfr_vars
<1>9. QED
  BY <1>3, <1>4, <1>5, <1>6, <1>7, <1>8

\* The record machine implements the record selection for strides without
\* sub-cycles: whatever the number and the sizes of the files, ncra and
\* ncrcat use exactly the records min, min + srd, ... max in order, fail only
\* for a refused argument or an empty hyperslab, and close an output file
\* with exactly these records or their averages, behind the ones it had.
THEOREM SelectsWanted ==
  ASSUME \A r \in Requests : Strides(r)
  PROVE  Spec => SelectionSpec
<1> DEFINE Inv == TypeOK /\ StrideInv /\ OutInv /\ TrailInv /\ SelectInv /\ Strides(rqs)
<1>1. Init => Inv /\ Selection!Init
  <2>1. SUFFICES ASSUME Init PROVE Inv /\ Selection!Init
    OBVIOUS
  <2>2. Inv
    BY <2>1, TypeInit, StrideInit, OutInit, SelectInit DEF Init
  <2>3. Selection!Init
    BY <2>1 DEF Init, Selection!Init, Selection!Dmn, Dmn
  <2>4. QED
    BY <2>2, <2>3
<1>2. Inv /\ [Next]_vars => Inv' /\ [Selection!Next]_Selection!svars
  <2>1. SUFFICES ASSUME Inv, [Next]_vars PROVE Inv' /\ [Selection!Next]_Selection!svars
    OBVIOUS
  <2>2. rqs' = rqs
    BY <2>1 DEF Next, EvlError, Evl, Record, EndDmn, CloseFile, Normalise, PutVar, CloseOutput,
       Terminated, vars
  <2>3. TypeOK' /\ StrideInv' /\ OutInv' /\ TrailInv' /\ SelectInv'
    BY <2>1, TypeStep, StrideStep, OutStep, SelectStep
  <2>4. Strides(rqs)'
    BY <2>1, <2>2
  <2>5. [Selection!Next]_Selection!svars
    BY <2>1, SelectsStep
  <2>6. QED
    BY <2>3, <2>4, <2>5
<1>3. QED
  <2> HIDE DEF Inv
  <2>1. QED
    BY <1>1, <1>2, PTL DEF Spec, SelectionSpec, Selection!Spec
=============================================================================
