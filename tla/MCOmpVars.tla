----------------------------- MODULE MCOmpVars -----------------------------
(***************************************************************************)
(* Model-checking instances of OmpVars.                                    *)
(***************************************************************************)
EXTENDS OmpVars

V(g, s, t) == [grp |-> g, skp |-> s, typ |-> t]

\* One group, two groups, two record dimensions, two types.
Flat == <<V("/", FALSE, "float"), V("/", FALSE, "double"), V("/", FALSE, "float")>>
Mixed == <<V("/", FALSE, "float"), V("/", TRUE, "double"), V("/", FALSE, "double")>>
Groups == <<V("/", FALSE, "float"), V("/g1", FALSE, "double"), V("/g1", TRUE, "float")>>

Case(p, n4, n, w, vs) == [prg |-> p, netcdf4 |-> n4, thr_nbr |-> n, wgt |-> w, vars |-> vs]

\* Automatic numbers of threads; requests of a netCDF4 build; ncpdq with
\* three threads.
SafeCases ==
  {Case(p, n4, 0, w, vs) : p \in {"ncra", "ncrcat", "ncpdq"}, n4 \in BOOLEAN, w \in BOOLEAN,
                           vs \in {Mixed, Flat}}
  \union {Case(p, TRUE, n, FALSE, Groups) : p \in {"ncrcat", "ncpdq"}, n \in 1..3}
  \union {Case("ncra", TRUE, 0, w, Groups) : w \in BOOLEAN}
  \union {Case("ncpdq", FALSE, n, FALSE, Mixed) : n \in {2, 3}}

\* ncra with one record dimension, one type and no groups, and two threads.
PlainNcra == {Case("ncra", TRUE, 2, FALSE, Flat)}

\* ncrcat --thr_nbr=2 of a build without netCDF4.
ThreadedNcrcat == {Case("ncrcat", FALSE, 2, FALSE, Flat)}
Pairs == SafeCases \union PlainNcra
=============================================================================
