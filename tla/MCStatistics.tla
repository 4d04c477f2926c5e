---------------------------- MODULE MCStatistics ----------------------------
(* What the manual promises of the arithmetic operators, and requests.     *)
EXTENDS RecStat, NcwaVar, BinaryVar, FiniteSetsExt, SequencesExt

-----------------------------------------------------------------------------
(* What the manual promises of ncra and nces.                              *)

Ops == {"avg", "ttl", "tabs", "min", "max", "mibs", "mabs", "mebs", "sqravg",
        "avgsqr", "sqrt", "rms", "rmssdn"}

\* The formulas of the manual for the valid values x[i] with weights w[i],
\* i \in I, and the denominator dnm.
Mag(n) == IF n < 0 THEN -n ELSE n
Statistic(op, I, x, w, dnm) ==
  LET sum(f(_)) == MapThenSumSet(LAMBDA i : w[i] * f(x[i]), I)
      id(n) == n
      sqr(n) == n * n
      extreme(f(_), cmp(_, _)) ==
        Val(CHOOSE n \in {w[i] * f(x[i]) : i \in I} :
              \A i \in I : n = w[i] * f(x[i]) \/ cmp(n, w[i] * f(x[i])))
      lt(m, n) == m < n
      gt(m, n) == m > n
  IN  CASE op = "avg" -> <<sum(id), dnm>>
        [] op = "mebs" -> <<sum(Mag), dnm>>
        [] op = "avgsqr" -> <<sum(sqr), dnm>>
        [] op = "sqravg" -> <<sqr(sum(id)), sqr(dnm)>>
        [] op = "sqrt" -> Root(<<sum(id), dnm>>)
        [] op \in {"rms", "rmssdn"} -> Root(<<sum(sqr), dnm>>)
        [] op = "ttl" -> Val(sum(id))
        [] op = "tabs" -> Val(sum(Mag))
        [] op = "min" -> extreme(id, lt)
        [] op = "max" -> extreme(id, gt)
        [] op = "mibs" -> extreme(Mag, lt)
        [] op = "mabs" -> extreme(Mag, gt)

\* The records of dimension d in the order of the files: value and weight.
Records(r, d) ==
  FlattenSeq([f \in DOMAIN r.fl |->
    [k \in DOMAIN r.fl[f][d] |->
      [x |-> r.fl[f][d][k],
       w |-> IF ~Weighted(r) THEN 1
             ELSE r.wgt[IF r.prw THEN ((k - 1) % Len(r.wgt)) + 1 ELSE f]]]])

\* The k-th output record of d covers records Group.
Groups(r, d) ==
  LET n == Len(Records(r, d))
  IN  IF r.prg = "ncra" /\ r.mro
      THEN [k \in 1..((n + r.ssc - 1) \div r.ssc) |->
              {i \in 1..n : (i - 1) \div r.ssc = k - 1}]
      ELSE << 1..n >>

\* A statistic of no value, and a deviation of one, is missing.
Promised(r, d, I) ==
  LET rec == Records(r, d)
      valid == {i \in I : ~Missing(Val(rec[i].x), r.mss)}
      op == IF r.crd THEN "avg" ELSE r.op
      dof == IF op = "rmssdn" THEN 1 ELSE 0
  IN  IF r.mss # {} /\ Cardinality(valid) <= dof
      THEN MssVal(r.mss)
      ELSE Statistic(op, valid, [i \in valid |-> rec[i].x],
                     [i \in valid |-> rec[i].w],
                     MapThenSumSet(LAMBDA i : rec[i].w, valid) - dof)

\* Every record that ncra or nces writes is the statistic of the valid
\* values of its group and of nothing else: not of an earlier group, not of
\* missing values, whichever records are missing and whatever value stands
\* for missing.
RecordStatistics ==
  rs_pc = "done" =>
    \A d \in RsDmn(rs_rqs) :
      LET g == Groups(rs_rqs, d)
      IN  /\ Len(rec_out[d]) = Len(g)
          /\ \A k \in DOMAIN g :
               Same(rec_out[d][k], Promised(rs_rqs, d, g[k]))

-----------------------------------------------------------------------------
(* What the manual promises of ncwa, ncbo and ncflint.  An array is        *)
(* addressed by its subscripts [dimension -> number].                      *)

Indices(dmns, cnt) ==
  {i \in [dmns -> 0..9] : \A d \in dmns : i[d] < cnt[d]}

Elm(var, i) == var.val[FoldLeft(LAMBDA n, d : n * var.cnt[d] + i[d], 0, var.dmn)]

Holds(x, rlt, y) == CASE rlt = "eq" -> x = y [] rlt = "lt" -> x < y
                      [] rlt = "ge" -> x >= y

\* Every element that ncwa writes is the statistic of the values of its
\* block that are neither missing nor masked, with the weights that belong
\* to their subscripts.  Weights and masks count only if they have no
\* dimension that the variable lacks.
AverageRight ==
  wa_pc = "done" =>
    LET r == wa_rqs
        v == r.var
        Fits(w) == (~r.crd \/ r.wmc) /\ ToSet(w.dmn) \subseteq ToSet(v.dmn)
        W == {w \in r.wgt : Fits(w)}
        M == {m \in r.msk : Fits(m.var)}
        op == IF r.crd THEN "avg" ELSE r.op
        dof == IF op = "rmssdn" /\ W = {} /\ r.nrm THEN 1 ELSE 0
        mss == IF r.msk = {} THEN v.mss ELSE MssMk(v.mss)
        valid(i) == /\ ~Missing(Elm(v, i), v.mss)
                    /\ \A m \in M : Holds(Elm(m.var, i)[1], m.rlt, m.val[1])
        w1 == [i \in Indices(ToSet(v.dmn), v.cnt) |->
                 IF W = {} THEN 1 ELSE Elm(CHOOSE w \in W : TRUE, i)[1]]
    IN  \A o \in Indices(ToSet(v.dmn) \ r.avg, v.cnt) :
          LET I == {i \in DOMAIN w1 : valid(i) /\ \A d \in DOMAIN o : i[d] = o[d]}
              stat == Statistic(op, I, [i \in I |-> Elm(v, i)[1]], w1,
                        IF r.nrm THEN MapThenSumSet(LAMBDA i : w1[i], I) - dof
                        ELSE 1)
          IN  Same(Elm(wa_out, o),
                   IF mss # {} /\ Cardinality(I) <= dof THEN MssVal(mss)
                   ELSE stat)

\* The result of ncbo or ncflint for the elements x and y with the missing
\* values mx and my, where mss is the missing value of the result.
Combined(r, x, y, mx, my, mss) ==
  LET n == CHOOSE m \in r.ntp : TRUE
      between == Minus(n[2], n[1])
      w1 == IF r.ntp = {} THEN r.wgt[1] ELSE Over(Minus(n[2], n[3]), between)
      w2 == IF r.ntp = {} THEN r.wgt[2] ELSE Over(Minus(n[3], n[1]), between)
  IN  IF Missing(x, mx) \/ Missing(y, my) THEN MssVal(mss)
      ELSE IF r.prg = "ncflint" THEN Plus(Times(w1, x), Times(w2, y))
      ELSE CASE r.op = "add" -> Plus(x, y) [] r.op = "sbt" -> Minus(x, y)
             [] r.op = "mlt" -> Times(x, y) [] r.op = "dvd" -> Over(x, y)

\* Two variables conform if one has all dimensions of the other, with the
\* same sizes.
Conform(var1, var2) ==
  LET d1 == ToSet(var1.dmn)
      d2 == ToSet(var2.dmn)
  IN  /\ d1 \subseteq d2 \/ d2 \subseteq d1
      /\ \A d \in d1 \intersect d2 : var1.cnt[d] = var2.cnt[d]

\* ncbo and ncflint combine the elements with the same subscripts, whichever
\* operand has fewer dimensions; an element is missing exactly where one of
\* the two is, each by the missing value of its own file; and the program
\* refuses exactly what it cannot combine.
BinaryRight ==
  LET r == bn_rqs
      fit == /\ \A k \in DOMAIN r.pairs : Conform(r.pairs[k].var1, r.pairs[k].var2)
             /\ \A n \in r.ntp : ~Same(n[1], n[2])
  IN  /\ bn_pc = "refused" => ~fit
      /\ bn_pc = "done" =>
           /\ fit /\ Len(bn_out) = Len(r.pairs)
           /\ \A k \in DOMAIN r.pairs :
                LET v == <<r.pairs[k].var1, r.pairs[k].var2>>
                    gtr == IF Len(v[1].dmn) >= Len(v[2].dmn) THEN 1 ELSE 2
                    mss == IF v[gtr].mss # {} THEN v[gtr].mss ELSE v[3 - gtr].mss
                IN  \A i \in Indices(ToSet(v[gtr].dmn), v[gtr].cnt) :
                      Same(Elm(bn_out[k], i),
                           Combined(r, Elm(v[1], i), Elm(v[2], i), v[1].mss,
                                    v[2].mss, mss))

-----------------------------------------------------------------------------
(* Requests.                                                               *)

Seqs(S, m, n) == UNION {[1..k -> S] : k \in m..n}

\* Sums and transformed values that happen to equal the missing value are
\* taken for missing, so it lies among the values only where there are none.
MssVals(op, wgt) ==
  {{}, {Val(9)}} \union
  IF wgt = <<>> /\ op \in {"avg", "ttl", "min", "max"}
  THEN {{Val(0)}, {Val(2)}} ELSE {}

Of(prg, ops, wgts, prws, mros, fls) ==
  {r \in [prg : {prg}, op : ops, crd : BOOLEAN, mro : mros, ssc : {2},
          mss : {{}, {Val(9)}, {Val(0)}, {Val(2)}}, wgt : wgts, prw : prws,
          fl : fls] :
     r.mss \in MssVals(IF r.crd THEN "avg" ELSE r.op, r.wgt)}

\* Input files of one record dimension: m to n files of 1 to k records.
Files(S, m, n, k) ==
  {[f \in DOMAIN s |-> << s[f] >>] : s \in Seqs(Seqs(S, 1, k), m, n)}

\* Weights work as promised under two conditions.  Without missing values the
\* code divides by the number of records, which is the sum of the weights
\* only if every weight is used equally often.  With missing values it
\* divides by the sum of weights, which a coordinate does not have.
WgtWorks(r) ==
  IF r.mss # {} THEN ~r.crd
  ELSE \A f \in DOMAIN r.fl :
         Len(r.fl[f][1]) = IF r.prw THEN Len(r.wgt) ELSE Len(r.fl[1][1])

StatCases ==
  Of("ncra", Ops, {<<>>}, {FALSE}, BOOLEAN, Files({-1, 0, 2, 9}, 1, 2, 2))
  \union Of("nces", Ops, {<<>>}, {FALSE}, {FALSE}, Files({-1, 0, 2, 9}, 1, 3, 1))
  \union {r \in Of("ncra", {"avg", "mebs"}, {<<1, 3>>}, BOOLEAN, {FALSE},
                   Files({-1, 2, 9}, 2, 2, 2)) : WgtWorks(r)}
  \union {r \in Of("nces", {"avg", "mebs"}, {<<1, 3>>}, {FALSE}, {FALSE},
                   Files({-1, 2, 9}, 2, 2, 1)) : WgtWorks(r)}

\* Two record dimensions, weights, missing values.
TwoDmns ==
  {[prg |-> "ncra", op |-> "avg", crd |-> FALSE, mro |-> FALSE, ssc |-> 1,
    mss |-> {Val(9)}, wgt |-> <<1, 3>>, prw |-> FALSE,
    fl |-> << << <<2>>, <<2>> >>, << <<x>>, <<4>> >> >>] : x \in {2, 9}}

\* A variable of dimensions dmn whose elements count up from frs by stp,
\* missing at the offsets of holes.
Cnt == [t |-> 2, x |-> 3, y |-> 2]
Arr(dmn, cnt, mss, frs, stp, holes) ==
  [dmn |-> dmn, cnt |-> [d \in ToSet(dmn) |-> cnt[d]], mss |-> mss,
   val |-> [lmn \in 0..(Size(dmn, cnt) - 1) |->
              IF lmn \in holes THEN MssVal(mss) ELSE Val(frs + stp * lmn)]]
Arrs(dmn, cnt, frs, stp, mss) ==
  {Arr(dmn, cnt, m, frs, stp, h) :
     <<m, h>> \in {<<{}, {}>>} \union
                  ({mss} \X SUBSET (0..(Size(dmn, cnt) - 1)))}

Full(dmn, frs, stp) == Arr(dmn, Cnt, {}, frs, stp, {})
Wgts == {{}} \union
  {{Full(d, 1, 1)} : d \in {<<>>, <<"t">>, <<"x">>, <<"t", "x">>, <<"x", "t">>,
                            <<"y">>, <<"x", "y">>}}
  \union {{Full(<<"t">>, 0, 2)}}
Msks == {{}} \union
  {{[var |-> Full(d, 1, 1), rlt |-> c, val |-> Val(2)]} :
     d \in {<<"x">>, <<"x", "t">>, <<"y">>}, c \in {"eq", "lt", "ge"}}

\* The total of the absolute values is wrong if there are negative ones.
WaOf(ops, crds, nrms, wmcs, avgs, vars, wgts, msks) ==
  {r \in [op : ops, crd : crds, nrm : nrms, wmc : wmcs, avg : avgs, var : vars,
          wgt : wgts, msk : msks] :
     r.op = "tabs" => \A x \in DOMAIN r.var.val : r.var.val[x][1] >= 0}

TX == <<"t", "x">>
WaCases ==
  WaOf(Ops, {FALSE}, {TRUE}, {TRUE}, {{"t"}, {"x"}, {"t", "x"}},
       Arrs(TX, Cnt, -2, 1, {Val(1000)}), {{}, {Full(<<"x">>, 1, 1)}}, {{}})
  \union WaOf(Ops, {FALSE}, BOOLEAN, {TRUE}, {{"t"}, {"x"}},
       {Arr(TX, Cnt, {Val(1000)}, f, 1, {0, 4}) : f \in {-2, 1}}, Wgts, Msks)
  \union WaOf({"avg", "min"}, {TRUE}, BOOLEAN, BOOLEAN, {{"x"}, {"t"}},
       {Full(<<"x">>, -1, 2)}, Wgts, Msks)
  \union WaOf({"avg", "rms"}, {FALSE}, {TRUE}, {TRUE}, SUBSET {"t", "x", "y"},
       {Full(d, -3, 1) : d \in {<<"t", "x", "y">>, <<"y", "t", "x">>}}, Wgts,
       {{}, {[var |-> Full(<<"x">>, 1, 1), rlt |-> "ge", val |-> Val(2)]}})

\* Pairs that ncbo and ncflint combine as promised.  An operand of lower rank
\* needs the missing value of the other, sizes are compared only between
\* operands of equal rank, and the order of the dimensions never is.
Pairs(dmns1, dmns2, cnt2) ==
  LET vars1 == UNION {Arrs(d, Cnt, 1, 1, {Val(500)}) : d \in dmns1}
      vars2 == UNION {Arrs(d, cnt2, -3, 2, {m}) :
                        d \in dmns2, m \in {Val(500), Val(600)}}
      lsr(v1, v2) == IF Len(v1.dmn) >= Len(v2.dmn) THEN v2 ELSE v1
      gtr(v1, v2) == IF Len(v1.dmn) >= Len(v2.dmn) THEN v1 ELSE v2
  IN  {p \in [var1 : vars1, var2 : vars2] :
         /\ Len(p.var1.dmn) = Len(p.var2.dmn) \/ lsr(p.var1, p.var2).mss = {}
            \/ lsr(p.var1, p.var2).mss = gtr(p.var1, p.var2).mss}

BnOf(prg, ops, ntps, wgts, pairs) ==
  [prg : {prg}, op : ops, ntp : ntps, wgt : wgts, pairs : pairs]

NoWgt == {<<Zero, Zero>>}
TwoX == [Cnt EXCEPT !.x = 2]
BnCases ==
  BnOf("ncbo", {"add", "sbt", "mlt", "dvd"}, {{}}, NoWgt,
       {<<p>> : p \in Pairs({<<>>, <<"x">>, TX}, {<<>>, <<"x">>}, Cnt)
                   \union Pairs({<<"x">>, <<"y">>}, {<<"t">>, TX}, Cnt)
                   \union Pairs({<<"x">>}, {<<"x">>, <<"y", "t">>}, TwoX)})
  \union BnOf("ncbo", {"sbt"}, {{}}, NoWgt,
       {<<[var1 |-> Full(TX, 1, 1), var2 |-> Full(<<"t">>, 1, 1)], p>> :
          p \in Pairs({<<"t">>}, {<<"t">>, <<"y">>, TX}, Cnt)})
  \union BnOf("ncflint", {"add"},
       {{}} \union {{<<Val(a), Val(b), Val(c)>>} : a, b \in {0, 4}, c \in {1, 6}},
       {<<Over(Val(w), Val(2)), Over(Val(2 - w), Val(2))>> : w \in {-1, 0, 1}},
       {<<p, q>> : p \in Pairs({<<"t">>}, {<<"t">>}, Cnt),
                   q \in {[var1 |-> Full(d, 1, 1), var2 |-> Full(d, 2, 3)] :
                             d \in {<<"t">>, TX}}})

\* The operand of lower rank has a missing value of its own.
Broadcasts ==
  BnOf("ncbo", {"sbt"}, {{}}, NoWgt,
       {<<[var1 |-> Arr(TX, Cnt, m, 1, 1, {}),
           var2 |-> Arr(<<"x">>, Cnt, {Val(600)}, -3, 2, h)]>> :
          m \in {{}, {Val(500)}, {Val(600)}}, h \in SUBSET {0, 1, 2}})

None == {}
=============================================================================
