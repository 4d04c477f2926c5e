------------------------------ MODULE MCDmnRdr ------------------------------
(* Requests for DmnRdr: t is the record dimension of the input.            *)
EXTENDS DmnRdr

Dmns == {"t", "z", "y", "x"}
DmnCnt == [t |-> 2, z |-> 2, y |-> 3, x |-> 4]

\* Variables as they occur together in files of models, each in a few orders
\* of its dimensions.
RecVars == {<<"t">>, <<"t", "z">>, <<"t", "y">>, <<"t", "x">>, <<"t", "y", "x">>,
            <<"t", "x", "y">>, <<"t", "z", "y", "x">>}
FixVars == {<<"y">>, <<"z", "y">>, <<"y", "x">>, <<"x", "y">>, <<"z", "y", "x">>, <<"x", "z", "y">>}
VarFiles == {<<v, w>> : v \in RecVars, w \in RecVars \union FixVars}
         \union {<<w, v>> : v \in RecVars, w \in FixVars}
Triples == {<<<<"z", "y">>, <<"t", "z", "y", "x">>, <<"t", "x">>>>,
            <<<<"t", "y">>, <<"x", "y">>, <<"t", "z", "y", "x">>>>,
            <<<<"z", "y", "x">>, <<"t">>, <<"t", "y", "x">>>>,
            <<<<"y">>, <<"t", "y">>, <<"x", "z", "y">>>>}

Orders(S, n) == {s \in [1..n -> S] : IsInjective(s)}
Lists == Orders({"t", "y", "x"}, 1) \union Orders({"t", "y", "x"}, 2) \union Orders({"t", "y", "x"}, 3)
         \union {<<"z", "t">>, <<"y", "z", "t">>, <<"x", "z", "y", "t">>, <<"x", "y", "z", "t">>}

Reorders(files, rdr, rvrs, out) ==
  {[vars |-> f, rec |-> "t", cnt |-> DmnCnt, rdr |-> rdr, rvr |-> r, nc4 |-> out \in {"nc4", "mrd"}, mrd |-> out = "mrd"] :
     f \in files, r \in rvrs}

ReorderCases ==
  UNION {Reorders(VarFiles, rdr, {{}, ToSet(rdr)} \union {{d} : d \in ToSet(rdr)}, "nc3") : rdr \in Lists}
  \union UNION {Reorders(VarFiles \union Triples, rdr, {{}}, out) : rdr \in Lists, out \in {"nc3", "nc4", "mrd"}}

Regular == {r \in ReorderCases : ~MovesTwice(r)}
Twice == {r \in ReorderCases : MovesTwice(r) /\ r.rvr = {}}
=============================================================================
