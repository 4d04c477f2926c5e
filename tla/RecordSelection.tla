-------------------------- MODULE RecordSelection --------------------------
(***************************************************************************)
(* What a record hyperslab promises, whatever the files the records come   *)
(* in (Stride, Subcycle and Interleave sections of doc/nco.texi): for      *)
(* every record dimension the records min, min+1, ..., min+ssc-1,          *)
(* min+srd, ... up to max are used in this order, sub-cycles de-interleaved*)
(* by ilv; ncrcat writes each of them, ncra one average of all of them, or *)
(* with multi-record output one average per group.  A hyperslab without    *)
(* records is an error.                                                    *)
(***************************************************************************)
EXTENDS NcoLmt, SequencesExt

CONSTANTS NbrRec, VarPrc

VARIABLES
  rqs,   \* the request
  usd,   \* records used, per record dimension
  st,    \* "open", "closed" or "failed"
  res    \* the output file once closed

Dmn == 1..NbrRec
Var == DOMAIN VarPrc
NRM == -1
OLD == <<-2>>
svars == <<rqs, usd, st, res>>

\* Records of dimension d in the files up to each, and in all together.
RecCml(r, d) ==
  LET cml[f \in 0..Len(r.fl)] == IF f = 0 THEN 0 ELSE cml[f - 1] + r.fl[f][d]
  IN  cml
RecTtl(r, d) == RecCml(r, d)[Len(r.fl)]

\* Limits as absolute indices; a negative one is relative to the whole.
FirstRec(r, d) == MinIdx(r.arg[d], RecTtl(r, d))
LastRec(r, d) ==
  LET n == RecTtl(r, d)
      m == MaxIdx(r.arg[d], n)
  IN  IF m < n THEN m ELSE n - 1

GrpNbr(r, d) ==
  IF FirstRec(r, d) > LastRec(r, d) THEN 0
  ELSE 1 + (LastRec(r, d) - FirstRec(r, d)) \div Srd(r.arg[d])
GrpSrt(r, d, k) == FirstRec(r, d) + (k - 1) * Srd(r.arg[d])

\* Records of sub-cycle k, before interleaving.
GrpSz(r, d, k) ==
  LET left == LastRec(r, d) - GrpSrt(r, d, k) + 1
  IN  IF left < Ssc(r.arg[d]) THEN left ELSE Ssc(r.arg[d])

\* The groups ncra reduces: sub-cycles, or every ilv-th record of one.
Groups(r, d) ==
  LET a == r.arg[d]
      per == Ssc(a) \div Ilv(a)
  IN  IF FlgIlv(a)
      THEN [g \in 1..(GrpNbr(r, d) * Ilv(a)) |->
             [i \in 1..per |-> GrpSrt(r, d, 1 + (g - 1) \div Ilv(a))
                               + ((g - 1) % Ilv(a)) + (i - 1) * Ilv(a)]]
      ELSE [g \in 1..GrpNbr(r, d) |->
             [i \in 1..GrpSz(r, d, g) |-> GrpSrt(r, d, g) + i - 1]]

Wanted(r, d) == FlattenSeq(Groups(r, d))

\* The records that a variable of dimension d contributes to the output.
NewRecords(r, d) ==
  IF r.prg = "ncrcat" THEN [i \in DOMAIN Wanted(r, d) |-> <<Wanted(r, d)[i]>>]
  ELSE IF r.mro \/ \E e \in Dmn : FlgIlv(r.arg[e])
  THEN [g \in DOMAIN Groups(r, d) |-> Append(Groups(r, d)[g], NRM)]
  ELSE << Append(Wanted(r, d), NRM) >>

\* Records already in an output file that is appended to stay in front.
Result(r, d) == [k \in 1..r.apn |-> OLD] \o NewRecords(r, d)

Init ==
  /\ usd = [d \in Dmn |-> <<>>]
  /\ st = "open" /\ res = <<>>

Use(d) ==
  /\ st = "open" /\ UNCHANGED <<rqs, st, res>>
  /\ LET w == Wanted(rqs, d)
     IN  /\ Len(usd[d]) < Len(w)
         /\ usd' = [usd EXCEPT ![d] = Append(@, w[Len(@) + 1])]

Close ==
  /\ st = "open" /\ st' = "closed"
  /\ \A d \in Dmn : usd[d] # <<>> /\ usd[d] = Wanted(rqs, d)
  /\ res' = [v \in Var |-> Result(rqs, VarPrc[v].dmn)]
  /\ UNCHANGED <<rqs, usd>>

\* An argument that a file refuses, or a hyperslab without records.
Fail ==
  /\ st = "open" /\ st' = "failed"
  /\ \E d \in Dmn : \/ \E f \in DOMAIN rqs.fl : SyntaxError(rqs.arg[d], rqs.fl[f][d])
                    \/ Wanted(rqs, d) = <<>>
  /\ UNCHANGED <<rqs, usd, res>>

Next == Close \/ Fail \/ \E d \in Dmn : Use(d)

Spec == Init /\ [][Next]_svars
=============================================================================
