------------------------------- MODULE TrvTbl -------------------------------
(***************************************************************************)
(* The group traversal table that every operator but ncatted, ncrename and *)
(* ncap2 makes of its input file (src/nco/nco_grp_utl.c), and the scope of *)
(* names in it, as operators.                                              *)
(*                                                                         *)
(* A name is a sequence of letters and a path a sequence of names; the     *)
(* code searches one full name in another with strstr(), so what the       *)
(* letters of a full name are is kept.  An input file is a tree of groups  *)
(* [var, dmn, grp]: its variables [nm, dmn, att] with the paths of their   *)
(* dimensions and the CF attributes, the names of the dimensions it        *)
(* defines, and its sub-groups [nm, nod].                                  *)
(***************************************************************************)
EXTENDS Integers, FiniteSetsExt, SequencesExt

Sls == "/"

\* The full name of a path; the root group is "/".
Fll(pth) ==
  IF pth = <<>> THEN <<Sls>> ELSE FlattenSeq([i \in DOMAIN pth |-> <<Sls>> \o pth[i]])

-----------------------------------------------------------------------------
(* Searching names.                                                        *)

\* Where sng is found in txt.
Occurs(sng, txt) ==
  {i \in 1..(Len(txt) - Len(sng) + 1) : SubSeq(txt, i, i + Len(sng) - 1) = sng}

\* The part i..j of txt begins and ends at component boundaries.
BeginsPath(txt, i) == txt[i] = Sls \/ (i > 1 /\ txt[i - 1] = Sls)
EndsPath(txt, j) == txt[j] = Sls \/ j = Len(txt) \/ txt[j + 1] = Sls

-----------------------------------------------------------------------------
(* The table: all groups and variables, a group before its variables and   *)
(* these before its sub-groups; and all dimensions.                        *)

RECURSIVE GrpItr(_, _)
GrpItr(nod, pth) ==
  LET sub == [i \in DOMAIN nod.grp |-> GrpItr(nod.grp[i].nod, Append(pth, nod.grp[i].nm))]
      vars == [i \in DOMAIN nod.var |->
                [typ |-> "var", pth |-> Append(pth, nod.var[i].nm),
                 dmn |-> nod.var[i].dmn, att |-> nod.var[i].att]]
  IN [lst |-> <<[typ |-> "grp", pth |-> pth, dmn |-> <<>>, att |-> <<>>]>> \o vars
                \o FlattenSeq([i \in DOMAIN sub |-> sub[i].lst]),
      lst_dmn |-> [i \in DOMAIN nod.dmn |-> Append(pth, nod.dmn[i])]
                \o FlattenSeq([i \in DOMAIN sub |-> sub[i].lst_dmn])]

Objects(t) == DOMAIN t.lst
Vars(t) == {o \in Objects(t) : t.lst[o].typ = "var"}
Grps(t) == {o \in Objects(t) : t.lst[o].typ = "grp"}
Pth(t, o) == t.lst[o].pth
NmFll(t, o) == Fll(Pth(t, o))

\* The last component of the name, and the path of an object's group; a
\* group is its own.  The name of the root group is "/".
Nm(t, o) == IF Pth(t, o) = <<>> THEN <<Sls>> ELSE Last(Pth(t, o))
GrpPth(t, o) == IF t.lst[o].typ = "grp" THEN Pth(t, o) ELSE Front(Pth(t, o))
GrpDpt(t, o) == Len(GrpPth(t, o))

\* The variables of a full name: one or none.
VarAt(t, pth) == {v \in Vars(t) : Pth(t, v) = pth}

\* Up from a group to the root, the first variable of the name.
RECURSIVE MostInScope(_, _, _)
MostInScope(t, grp, nm) ==
  IF VarAt(t, Append(grp, nm)) # {} \/ grp = <<>> THEN VarAt(t, Append(grp, nm))
  ELSE MostInScope(t, Front(grp), nm)

-----------------------------------------------------------------------------
(* Coordinates.                                                            *)

\* A variable in scope of a dimension: it has one dimension and either the
\* full name of this one, or a longer full name that is not the name of
\* another dimension.
CrdVarDmnScp(t, v, d) ==
  LET nm == Nm(t, v)
      i == Min(Occurs(nm, Fll(d)))
  IN /\ Len(t.lst[v].dmn) = 1
     /\ \/ Pth(t, v) = d
        \/ /\ Occurs(nm, Fll(d)) # {}
           /\ BeginsPath(Fll(d), i) /\ EndsPath(Fll(d), i + Len(nm) - 1)
           /\ Len(NmFll(t, v)) > Len(Fll(d))
           /\ Pth(t, v) \notin ToSet(t.lst_dmn)

\* The coordinates of dimension d, wherever they are.
Crds(t, d) == {v \in Vars(t) : Nm(t, v) = Last(d) /\ CrdVarDmnScp(t, v, d)}

IsCrdVar(t, v) == \E d \in ToSet(t.lst_dmn) : v \in Crds(t, d)

\* The coordinates that may be chosen for dimension d of variable v, none
\* if the set is empty: the one in the group of v, or the first less deep
\* than v after a sort by depth, which leaves those of the same depth in
\* any order.  (ScpVarCrdAny: a faulty variant that takes the deepest.)
Deepest(t, C) == {c \in C : \A e \in C : GrpDpt(t, e) <= GrpDpt(t, c)}
ScpVarCrdAny(t, v, d) == Deepest(t, Crds(t, d))
ScpVarCrd(t, v, d) ==
  LET here == {c \in Crds(t, d) : GrpPth(t, c) = GrpPth(t, v)}
      less == {c \in Crds(t, d) : GrpDpt(t, c) < GrpDpt(t, v)}
  IN IF here # {} THEN here ELSE Deepest(t, less)

\* nco_bld_var_dmn(): the coordinates of the dimensions of each variable.
BldVarDmn(t) ==
  [v \in Vars(t) |-> [i \in DOMAIN t.lst[v].dmn |-> ScpVarCrd(t, v, t.lst[v].dmn[i])]]
=============================================================================
