---------------------------- MODULE MCExtraction ----------------------------
(***************************************************************************)
(* Command lines and input files for XtrAsked.                             *)
(*                                                                         *)
(* Names contain each other (g in ag and ga) and are those of several      *)
(* objects.  Three families: lists of strings, on two trees of groups; a   *)
(* small CF file with associations of all kinds; trees with coordinates at *)
(* various depths.                                                         *)
(***************************************************************************)
EXTENDS XtrAsked

Node(vs, ds, gs) == [var |-> vs, dmn |-> ds, grp |-> gs]
Group(nm, nod) == [nm |-> nm, nod |-> nod]
Var(nm, ds, as) == [nm |-> nm, dmn |-> ds, att |-> as]
Plain(nm) == Var(nm, <<>>, <<>>)

Str(cmp, ncr, trm) ==
  [cmp |-> cmp, ncr |-> ncr, trm |-> trm, rx |-> FALSE, hit |-> {}, sls |-> FALSE]
Rx(hit, sls) ==
  [cmp |-> <<>>, ncr |-> FALSE, trm |-> FALSE, rx |-> TRUE, hit |-> hit, sls |-> sls]

\* The lists of at most n different strings.
Lists(S, n) == {q \in UNION {[1..k -> S] : k \in 0..n} : IsInjective(q)}

-----------------------------------------------------------------------------
(* Strings and trees of groups: in one the group g and variables w are in  *)
(* several groups, in the other paths from the root are only found there.  *)

GV == Plain(<<"v">>)
GW == Plain(<<"w">>)
Meta == Group(<<"e">>, Node(<<>>, <<>>, <<>>))
Leaf(nm, vs) == Group(nm, Node(vs, <<>>, <<>>))
GrpG == Group(<<"g">>, Node(<<GV, GW>>, <<>>, <<Leaf(<<"a">>, <<GV>>)>>))
Nested ==
  Node(<<GV>>, <<>>,
       <<GrpG, Group(<<"b">>, Node(<<>>, <<>>, <<Leaf(<<"g">>, <<GV>>), Meta>>)),
         Leaf(<<"g", "a">>, <<GV>>), Leaf(<<"a", "g">>, <<GW>>)>>)
Flat ==
  Node(<<Plain(<<"u">>)>>, <<>>,
       <<GrpG, Group(<<"b">>, Node(<<GW>>, <<>>, <<Meta>>)), Leaf(<<"g", "a">>, <<GV>>)>>)

GrpStrings ==
  {Str(<<<<"g">>>>, ncr, trm) : ncr \in BOOLEAN, trm \in BOOLEAN}
  \union {Str(<<<<"b">>>>, ncr, FALSE) : ncr \in BOOLEAN}
  \union {Str(<<<<"g">>, <<"a">>>>, FALSE, FALSE), Str(<<<<"e">>>>, FALSE, FALSE),
          Str(<<>>, TRUE, TRUE), Str(<<>>, TRUE, FALSE), Str(<<<<"z">>>>, FALSE, FALSE),
          Rx({<<"g">>, <<"g", "a">>}, FALSE), Rx({<<"/", "g", "/", "a">>}, TRUE)}
VarStrings ==
  {Str(<<<<"v">>>>, FALSE, FALSE), Str(<<<<"w">>>>, FALSE, FALSE),
   Str(<<<<"g">>, <<"v">>>>, FALSE, FALSE), Str(<<<<"u">>>>, TRUE, FALSE),
   Str(<<<<"g">>, <<"a">>, <<"v">>>>, TRUE, FALSE), Str(<<<<"b">>, <<"w">>>>, TRUE, FALSE),
   Str(<<<<"z">>>>, FALSE, FALSE), Rx({<<"v">>, <<"u">>}, FALSE)}

(* The strings NCO gets right: a string occurs at most once in the name of *)
(* a group, at its beginning if anchored, and in the name of a variable so *)
(* that a last component equal to that of the string is the last one; and  *)
(* it is not part of a full name if it does not name any object.           *)

Once(s, o) ==
  LET at == Occurs(UsrSng(s), Fll(o.pth))
      end == Len(Fll(o.pth)) - Len(UsrSng(s)) + 1
  IN \/ s.cmp = <<>>
     \/ /\ s.ncr => at \subseteq {1}
        /\ IF o.typ = "grp" THEN Cardinality(at) <= 1
           ELSE Len(s.cmp) > 1 /\ Last(s.cmp) = Last(o.pth) => at \subseteq {end}

\* The components of s are in path pth.
Has(s, pth) == \E i \in 1..(Len(pth) - Len(s.cmp) + 1) : SubSeq(pth, i, i + Len(s.cmp) - 1) = s.cmp

RegularStrings(S, fl, typ) ==
  LET objs == {o \in ToSet(GrpItr(fl, <<>>).lst) : o.typ = typ}
      named(s) == IF typ = "grp" THEN \E o \in objs : Has(s, o.pth)
                  ELSE \E o \in objs : IsSuffix(s.cmp, o.pth)
  IN {s \in S : s.rx \/ (/\ \A o \in objs : Once(s, o)
                         /\ named(s) \/ \A o \in objs : Occurs(UsrSng(s), Fll(o.pth)) = {})}

ListRequests(f) ==
  LET G == RegularStrings(GrpStrings, XtrFiles[f], "grp")
      V == RegularStrings(VarStrings, XtrFiles[f], "var")
      req(g, v, opts) == [fl : {f}, cf : {FALSE}, grp_lst : g, var_lst : v, opt : opts]
      opts == {{"ass"}, {"unn"}, {"xcl"}, {"unn", "xcl", "ass"}}
      gxvx == {{"gxvx", "xcl"}, {"gxvx", "xcl", "ass"}}
      some(L) == L \ {<<>>}
  IN req(Lists(G, 2), Lists(V, 1), opts) \union req(Lists(G, 1), Lists(V, 2), opts)
     \union req(Lists(G, 2), {<<>>}, {{"xcl", "ass"}}) \union req({<<>>}, Lists(V, 2), {{"xcl", "ass"}})
     \union req(some(Lists(G, 2)), some(Lists(V, 1)), gxvx)

-----------------------------------------------------------------------------
(* Associations: in group g variable v with its auxiliary coordinate c and *)
(* the bounds cb of this, in the root group the coordinate t with bounds   *)
(* tb and the variable p, in both orders; and one with lev and ilev.       *)

Ref(how, pth) == [how |-> how, pth |-> pth]
Att(nm, refs) == [nm |-> nm, ref |-> refs]
RefC == Ref("rel", <<<<"c">>>>)
RefP == Ref("abs", <<<<"p">>>>)

VAtts ==
  <<<<>>, <<Att("coordinates", <<RefC>>)>>,
   <<Att("coordinates", <<Ref("scp", <<<<"c">>>>), Ref("scp", <<<<"p">>>>)>>)>>,
   <<Att("ancillary_variables", <<Ref("up", <<<<"p">>>>)>>), Att("units", <<RefC>>)>>,
   <<Att("cell_measures", <<RefC>>), Att("grid_mapping", <<RefP>>)>>,
   <<Att("formula_terms", <<RefC, RefP>>)>>>>
CAtts == <<<<>>, <<Att("bounds", <<Ref("scp", <<<<"c", "b">>>>)>>)>>,
          <<Att("climatology", <<Ref("rel", <<<<"c", "b">>>>)>>), Att("quantization", <<RefP>>)>>>>
TAtts == <<<<>>, <<Att("bounds", <<Ref("scp", <<<<"t", "b">>>>)>>)>>>>

DmnT == <<<<"t">>>>
DmnN == <<<<"n">>>>
CfFile(vAtt, cAtt, tAtt, rev) ==
  LET root == <<Var(<<"t">>, <<DmnT>>, tAtt), Var(<<"t", "b">>, <<DmnT, DmnN>>, <<>>), Plain(<<"p">>)>>
      sub == <<Var(<<"v">>, <<DmnT>>, vAtt), Var(<<"c">>, <<DmnT>>, cAtt),
               Var(<<"c", "b">>, <<DmnT, DmnN>>, <<>>)>>
      order(vs) == IF rev = 1 THEN Reverse(vs) ELSE vs
  IN Node(order(root), <<<<"t">>, <<"n">>>>, <<Leaf(<<"g">>, order(sub))>>)
DmnL == <<<<"lev">>>>
DmnI == <<<<"i", "lev">>>>
LevFile ==
  Node(<<Var(<<"i", "lev">>, <<DmnI>>, <<>>), Var(<<"lev">>, <<DmnL>>, <<>>),
         Var(<<"v">>, <<DmnL>>, <<>>), Plain(<<"p">>)>>, <<<<"lev">>, <<"i", "lev">>>>, <<>>)

Name(ls) == Str(<<ls>>, FALSE, FALSE)
CfIds == {<<"cf", i, j, k, rev>> : i \in DOMAIN VAtts, j \in DOMAIN CAtts, k \in DOMAIN TAtts, rev \in 0..1}
CfRequests ==
  [fl : {<<"lev", 0, 0, 0, 0>>} \union CfIds, cf : BOOLEAN, grp_lst : {<<>>},
   var_lst : Lists({Name(<<"v">>), Name(<<"c">>), Name(<<"p">>)}, 2)
             \union {<<Name(<<"t">>)>>, <<Name(<<"c", "b">>)>>},
   opt : {{"ass"}, {"ass", "cll_msr", "frm_trm"}, {"ass", "xcl"}, {"xcl"},
          {"ass", "xcl", "cll_msr", "frm_trm"}, {"ass", "all_crd"}}]

-----------------------------------------------------------------------------
(* Coordinates: variables v of dimension t in the root group, g, g/a and   *)
(* b, a coordinate t in some of the first three, and dimension t defined   *)
(* in the root group and perhaps again in g.                               *)

CrdFile(root, g, ga, again) ==
  LET crd(d, here) == IF here = 1 THEN <<Var(<<"t">>, <<d>>, <<>>)>> ELSE <<>>
      v(d) == <<Var(<<"v">>, <<d>>, <<>>)>>
      sub == IF again = 1 THEN <<<<"g">>, <<"t">>>> ELSE DmnT
  IN Node(crd(DmnT, root) \o v(DmnT), <<<<"t">>, <<"n">>>>,
       <<Leaf(<<"b">>, v(DmnT)),
         Group(<<"g">>, Node(crd(sub, g) \o <<Var(<<"v">>, <<DmnN, sub>>, <<>>)>>,
                             IF again = 1 THEN <<<<"t">>>> ELSE <<>>,
                             <<Leaf(<<"a">>, crd(sub, ga) \o v(sub))>>))>>)
CrdIds == {<<"crd", root, g, ga, again>> : root \in 0..1, g \in 0..1, ga \in 0..1, again \in 0..1}
CrdRequests ==
  LET req(g, v, opts) == [fl : CrdIds, cf : {FALSE}, grp_lst : g, var_lst : v, opt : opts]
      grps == {<<Name(<<"a">>)>>, <<Name(<<"b">>)>>}
      named == {<<Name(<<"v">>)>>}
      opts == SUBSET {"ass", "xcl", "all_crd"}
  IN req(grps, {<<>>}, opts) \union req({<<>>}, named \union {<<>>}, opts)
     \union req(grps, named, SUBSET {"ass", "all_crd"})

-----------------------------------------------------------------------------
Odd ==
  Node(<<Plain(<<"t", "b">>), Plain(<<"w">>),
         Var(<<"v">>, <<>>, <<Att("grid_mapping", <<RefP>>)>>),
         Var(<<"p">>, <<>>, <<Att("coordinates", <<Ref("scp", <<<<"c">>>>)>>)>>),
         Var(<<"c">>, <<>>, <<Att("ancillary_variables", <<Ref("scp", <<<<"w">>>>)>>)>>)>>,
       <<<<"t">>>>,
       <<Group(<<"g", "a">>, Node(<<>>, <<>>, <<Leaf(<<"g">>, <<GV>>)>>)),
         Group(<<"b">>, Node(<<>>, <<>>, <<Leaf(<<"a">>, <<Var(<<"u">>, <<DmnT>>, <<>>)>>)>>)),
         Leaf(<<"e">>, <<Var(<<"t">>, <<DmnT>>, <<>>)>>)>>)

ListIds == {<<"list", i, 0, 0, 0>> : i \in 1..2}
Files ==
  [f \in ListIds \union {<<k, 0, 0, 0, 0>> : k \in {"lev", "odd"}} \union CfIds \union CrdIds |->
    CASE f[1] = "list" -> IF f[2] = 1 THEN Nested ELSE Flat
      [] f[1] = "lev" -> LevFile
      [] f[1] = "odd" -> Odd
      [] f[1] = "cf" -> CfFile(VAtts[f[2]], CAtts[f[3]], TAtts[f[4]], f[5])
      [] f[1] = "crd" -> CrdFile(f[2], f[3], f[4], f[5])]
RegularRequests ==
  ListRequests(<<"list", 1, 0, 0, 0>>) \union ListRequests(<<"list", 2, 0, 0, 0>>)
  \union CfRequests \union CrdRequests

-----------------------------------------------------------------------------
(* Command lines it gets wrong (section 5 of the README): anchored paths;  *)
(* a group whose name is part of one above it; a missing name that is part *)
(* of one found before; -x with both lists; a chain of three attributes; a *)
(* coordinate in a group beside those of the variable.                     *)

Line(f, gl, vl, opts) ==
  [fl |-> <<f, IF f = "list" THEN 1 ELSE 0, 0, 0, 0>>, cf |-> TRUE,
   grp_lst |-> gl, var_lst |-> vl, opt |-> opts]
Anchored ==
  {Line("list", gl, vl, opts) :
     gl \in Lists({Str(<<<<"g">>>>, TRUE, trm) : trm \in BOOLEAN}, 2),
     vl \in Lists({Str(<<<<"g">>, <<"v">>>>, TRUE, FALSE), Name(<<"v">>), Name(<<"w">>)}, 1),
     opts \in {{"ass"}, {"unn"}, {"xcl"}}}
Repeated == {Line("odd", <<Name(<<"g">>)>>, <<>>, {"ass"})}
PartOfFound == {Line("odd", <<>>, <<Name(<<"t", "b">>), Name(<<"b">>)>>, {"ass"})}
XclBoth == {Line("list", <<Name(<<"a">>)>>, <<Name(<<"v">>)>>, {"xcl", "ass"})}
LongChain == {Line("odd", <<>>, <<Name(<<"v">>)>>, {"ass"})}
=============================================================================
