------------------------------ MODULE XtrAsked ------------------------------
(***************************************************************************)
(* What a command line asks for, said with path components instead of      *)
(* flags and parts of strings (the manual, "Subsetting Files" and          *)
(* "Subsetting Coordinate Variables"), and that this is extracted.         *)
(***************************************************************************)
EXTENDS Extraction

-----------------------------------------------------------------------------
(* The selection.                                                          *)

\* The path begins a part of pth with the components of s at i.
CmpAt(s, pth, i) == SubSeq(pth, i, i + Len(s.cmp) - 1) = s.cmp

\* -g: the group has the components in its path, if anchored from the root,
\* if not recursive at its end.
NamesGrp(s, g) ==
  IF s.rx THEN RxMch(s, g)
  ELSE \E i \in 1..(Len(Pth(tbl, g)) - Len(s.cmp) + 1) :
         /\ CmpAt(s, Pth(tbl, g), i)
         /\ s.ncr => i = 1
         /\ s.trm => i = Len(Pth(tbl, g)) - Len(s.cmp) + 1

\* -v: the path of the variable ends with the components, or consists of
\* them if anchored.
NamesVar(s, v) ==
  IF s.rx THEN RxMch(s, v)
  ELSE IF s.ncr THEN Pth(tbl, v) = s.cmp ELSE IsSuffix(s.cmp, Pth(tbl, v))

NamedGrps == {g \in Grps(tbl) : \E s \in ToSet(rqs.grp_lst) : NamesGrp(s, g)}
NamedVars == {v \in Vars(tbl) : \E s \in ToSet(rqs.var_lst) : NamesVar(s, v)}
FullyNamedVars ==
  {v \in Vars(tbl) : \E s \in ToSet(rqs.var_lst) : s.ncr /\ ~s.rx /\ NamesVar(s, v)}
InNamedGrps ==
  LET paths == {Pth(tbl, g) : g \in NamedGrps} IN {v \in Vars(tbl) : GrpPth(tbl, v) \in paths}

\* A plain string that names nothing.
NamesNothing(s, objs, names(_, _)) == ~s.rx /\ \A o \in objs : ~names(s, o)
SomeNameMissing ==
  \/ \E s \in ToSet(rqs.grp_lst) : NamesNothing(s, Grps(tbl), NamesGrp)
  \/ \E s \in ToSet(rqs.var_lst) : NamesNothing(s, Vars(tbl), NamesVar)

\* The variables the lists stand for: all without lists, those of one list,
\* the intersection of two, or with --unn their union.
Listed ==
  CASE rqs.grp_lst = <<>> /\ rqs.var_lst = <<>> -> IF Opt("all_crd") THEN {} ELSE Vars(tbl)
    [] rqs.grp_lst = <<>> /\ rqs.var_lst # <<>> -> NamedVars
    [] rqs.grp_lst # <<>> /\ rqs.var_lst = <<>> -> InNamedGrps
    [] OTHER -> IF Opt("unn") THEN NamedVars \union InNamedGrps
                ELSE NamedVars \intersect (InNamedGrps \union FullyNamedVars)

\* -x turns it around; --gxvx wants the groups without the variables.
Asked ==
  IF ~Opt("xcl") THEN Listed
  ELSE IF Opt("gxvx") THEN InNamedGrps \ NamedVars ELSE Vars(tbl) \ Listed

\* The variables flagged after all strings have been matched, the flags
\* combined and inverted are those the command line asks for; and it ends
\* with an error if and only if something is to be extracted that is not in
\* the file, not if it is to be excluded (nco_xtr_mk() and nco_xtr_xcl()).
SelectsAsAsked ==
  /\ pc = "crd" => Vars(tbl) \intersect flg_xtr = Asked /\ (SomeNameMissing => Opt("xcl"))
  /\ pc = "exit" => SomeNameMissing /\ ~Opt("xcl")

-----------------------------------------------------------------------------
(* What belongs to it.                                                     *)

\* The variables of a name in scope of a group, and the innermost of them.
InScope(grp, nm) == {c \in Vars(tbl) : Nm(tbl, c) = nm /\ IsPrefix(GrpPth(tbl, c), grp)}
Innermost(C) == {c \in C : \A e \in C : GrpDpt(tbl, e) <= GrpDpt(tbl, c)}
DmnNms(v) == {Last(d) : d \in ToSet(tbl.lst[v].dmn)}
AssCrds(v) == UNION {Innermost(InScope(GrpPth(tbl, v), nm)) : nm \in DmnNms(v)}

\* The variables that a CF attribute NCO looks for names.
CfNms == {"ancillary_variables", "bounds", "climatology", "coordinates", "grid_mapping",
          "quantization"}
         \union (IF Opt("cll_msr") THEN {"cell_measures"} ELSE {})
         \union (IF Opt("frm_trm") THEN {"formula_terms"} ELSE {})
CfRefs(v) ==
  LET grp == GrpPth(tbl, v)
      at(ref) ==
        CASE ref.how = "scp" -> Innermost(InScope(grp, Last(ref.pth)))
          [] ref.how = "abs" -> {c \in Vars(tbl) : Pth(tbl, c) = ref.pth}
          [] ref.how = "rel" -> {c \in Vars(tbl) : Pth(tbl, c) = grp \o ref.pth}
          [] ref.how = "up" -> {c \in Vars(tbl) : grp # <<>> /\ Pth(tbl, c) = Front(grp) \o ref.pth}
      atts == {a \in ToSet(tbl.lst[v].att) : a.nm \in CfNms}
  IN UNION {UNION {at(ref) : ref \in ToSet(a.ref)} : a \in atts}

\* Everything that can be reached from X by CF attributes.
RECURSIVE CfReach(_)
CfReach(X) ==
  LET Y == X \union UNION {CfRefs(v) : v \in X} IN IF Y = X THEN X ELSE CfReach(Y)

\* The variables of name nm.
NamedOnly(nm) == {v \in Vars(tbl) : Nm(tbl, v) = nm}
WithIlev(X) ==
  IF NamedOnly(<<"lev">>) \intersect X = {} THEN X ELSE X \union NamedOnly(<<"i", "lev">>)

\* The variables asked for, the coordinates of all their dimensions or of
\* the file, and in a file that follows the CF conventions what these name.
Wanted ==
  LET allCrds == IF Opt("all_crd") THEN {c \in Vars(tbl) : IsCrdVar(tbl, c)} ELSE {}
      chosen == Asked \union allCrds
      withCrds == chosen \union UNION {AssCrds(v) : v \in chosen}
  IN CASE ~Opt("ass") -> chosen
       [] Opt("ass") /\ ~rqs.cf -> withCrds
       [] Opt("ass") /\ rqs.cf -> CfReach(WithIlev(withCrds))

\* Groups of metadata only are kept if asked for, with -x only by --gxvx.
MetadataGrps ==
  LET all == rqs.grp_lst = <<>> /\ rqs.var_lst = <<>> /\ ~Opt("all_crd")
  IN IF Opt("xcl") /\ ~Opt("gxvx") THEN {}
     ELSE {g \in IF all THEN Grps(tbl) ELSE NamedGrps : NoVar(g)}

\* The output is complete: with what was asked for come all the coordinates
\* and all variables named by CF attributes of these, directly or through
\* each other; their dimensions; their groups, the groups of metadata only,
\* and all groups above them; and nothing else.  A command that is to
\* exclude a variable by its name never extracts it as one that belongs to
\* another: it refuses (nco_bld_trv_tbl() from nco_xtr_crd_add() to nco_xtr_grp_mrk()).
TreeComplete ==
  LET wanted == Wanted
      paths == {Pth(tbl, o) : o \in wanted \union MetadataGrps}
      prevented == Opt("xcl") /\ Opt("ass") /\ wanted \intersect (NamedVars \ Asked) # {}
  IN /\ pc = "refused" => prevented
     /\ pc = "done" =>
          /\ ~prevented
          /\ Vars(tbl) \intersect flg_xtr = wanted
          /\ Grps(tbl) \intersect flg_xtr =
               {g \in Grps(tbl) : Pth(tbl, g) = <<>> \/ \E p \in paths : IsPrefix(Pth(tbl, g), p)}
          /\ dmn_xtr = UNION {ToSet(tbl.lst[v].dmn) : v \in wanted}

\* Each dimension of a variable gets as its coordinate the innermost
\* one-dimensional variable of its name in the groups from that of the
\* variable up to the root: none that is deeper or further up
\* (nco_bld_crd_var_trv(), nco_bld_var_dmn(), nco_scp_var_crd()).
CoordinatesInScope ==
  pc = "mch" /\ str_idx = 0 =>
    \A v \in Vars(tbl) : \A i \in DOMAIN tbl.lst[v].dmn :
      LET d == tbl.lst[v].dmn[i]
          crds == {c \in InScope(GrpPth(tbl, v), Last(d)) : tbl.lst[c].dmn = <<d>>}
      IN var_crd[v][i] = Innermost(crds)
=============================================================================
