---------------------------- MODULE MCClimoBatch ----------------------------
(***************************************************************************)
(* Small instances of ClimoBatch: three variables or days, four months and *)
(* two seasons, the second of which begins in the last month.              *)
(***************************************************************************)
EXTENDS ClimoBatch, TLC

Tms(p, j, g, w, h, v) ==
  [md |-> "tms", par |-> p, job_nbr |-> j, n |-> 3, old |-> TRUE, rgr |-> g, sgm |-> 2,
   rgn |-> w, hrz |-> h, mv |-> v]
Dly(p, j, g) == [md |-> "dly", par |-> p, job_nbr |-> j, n |-> 3, old |-> TRUE, rgr |-> g]
Ann(p, g) == [md |-> "ann", par |-> p, job_nbr |-> 1, n |-> 1, old |-> TRUE, rgr |-> g]
Mth(p, j, g, x) ==
  [md |-> "mth", par |-> p, job_nbr |-> j, n |-> 4, old |-> TRUE, rgr |-> g,
   csn |-> <<2, 4>>, ssn |-> 2, xtn |-> x]
Hfc(p, j, g, k, l) ==
  [md |-> "hfc", par |-> p, job_nbr |-> j, n |-> 4, old |-> TRUE, rgr |-> g,
   csn |-> <<2, 4>>, ssn |-> 2, xtn |-> FALSE, fl_nbr |-> k, tpd |-> 2, left |-> l]
Rmp(p, j, g, s, q) ==
  [md |-> "remap", par |-> p, job_nbr |-> j, n |-> 3, old |-> TRUE, rgr |-> g, stg |-> s, ppp |-> q]

Splits ==
  {Tms(TRUE, j, g, TRUE, {0, 2}, FALSE) : j \in {2, 4}, g \in {"none", "map"}}
  \union {Tms(TRUE, 1, "both", TRUE, {1}, TRUE), Tms(FALSE, 2, "both", FALSE, {}, FALSE)}
Climos ==
  {Dly(TRUE, j, "map") : j \in {2, 3}} \union {Dly(FALSE, 2, "both"), Ann(FALSE, "map")}
  \union {Mth(TRUE, j, "map", FALSE) : j \in {2, 3}}
  \union {Mth(TRUE, 2, "none", TRUE), Mth(FALSE, 2, "both", TRUE)}
  \union {Hfc(TRUE, 2, "none", k, FALSE) : k \in {1, 2}}
Remaps ==
  {Rmp(TRUE, 2, "both", <<"pdq", "rnm">>, "area"), Rmp(TRUE, 3, "map", <<"pdq", "d2f", "att">>, "none"),
   Rmp(TRUE, 2, "map", <<>>, "area"), Rmp(FALSE, 2, "both", <<"d2f">>, "znl")}

AllCases == Splits \union Climos \union Remaps

\* ncclimo --map --vrt_out in the background.
VrtCases == {Mth(TRUE, 2, "both", FALSE)}
\* The splitter with two background jobs.
OrphanCases == {Tms(TRUE, 2, "none", FALSE, {}, FALSE)}
\* Annual mode in the background.
AnnCases == {Ann(TRUE, "map")}
\* ncremap -P mls in the background; a file left by earlier years.
ZnlCases == {Rmp(TRUE, 2, "map", <<>>, "znl")}
LeftCases == {Hfc(TRUE, 4, "none", 2, TRUE)}
\* ncremap -P mpas --dpt.
DptCases == {Rmp(p, 2, "map", <<"dpt", "pdq">>, "none") : p \in BOOLEAN}

\* What the operations of a script write, done one after another.
Serially(c) ==
  LET Do(st, a) ==
        LET o == OpOf(c, a) IN
        CASE o.op = "open" ->
               [st EXCEPT !.val = o.own \union UNION {st.fl[f] : f \in o.fls \intersect DOMAIN st.fl}]
          [] o.op = "put" -> [fl |-> [f \in o.fls |-> st.val] @@ st.fl, val |-> {},
                              plan |-> (a :> {st.val}) @@ st.plan]
          [] o.op = "rm" -> [fl |-> [f \in DOMAIN st.fl \ o.fls |-> st.fl[f]], val |-> {},
                             plan |-> (a :> {}) @@ st.plan]
      Ops == FlattenSeq([k \in DOMAIN Scripts[c] |->
               IF k \in Starts(c) THEN [i \in DOMAIN CmdOf(c, k) |-> <<k, i>>] ELSE <<>>])
  IN  FoldLeft(Do, [fl |-> FirstFls(c), val |-> {}, plan |-> <<>>], Ops)

\* The hypothesis of the theorem that the products are right holds of these
\* scripts.  (It is false of VrtCases, AnnCases, ZnlCases and LeftCases.)
Plan == [c \in Cases |-> Serially(c).plan]
ASSUME ScriptsSerializable == Cases = AllCases => Serializable(Plan)
=============================================================================
