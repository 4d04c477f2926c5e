----------------------------- MODULE Extraction -----------------------------
(***************************************************************************)
(* Which groups, variables and dimensions a command extracts:              *)
(* nco_bld_trv_tbl() of src/nco/nco_grp_utl.c and the functions it calls   *)
(* one after the other.                                                    *)
(*                                                                         *)
(* They communicate by flags of the objects of the traversal table.  Each  *)
(* string after -g and -v adds to the flags the strings before it have     *)
(* set; the flags are combined and perhaps inverted; then passes over the  *)
(* table, each from its first object to its last, add the coordinates and  *)
(* the associated variables of what is flagged when they come to it.       *)
(***************************************************************************)
EXTENDS TrvTbl

CONSTANTS
  XtrFiles,    \* a sequence of input files
  XtrRequests  \* command lines, each for a file

VARIABLES
  rqs,      \* the command line
  tbl,      \* the objects of the traversal table
  pc,       \* the function that is next
  str_idx,  \* user-supplied strings done
  pss_idx,  \* passes over the CF attributes done
  flg_mch, flg_vfp, flg_mtd, flg_xtr, flg_xcl,  \* objects with these flags
  dmn_xtr   \* dimensions to be extracted

\* The table constructed first, and the coordinates in it.
Tables == [f \in DOMAIN XtrFiles |-> GrpItr(XtrFiles[f], <<>>)]
VarCrds == [f \in DOMAIN XtrFiles |-> BldVarDmn(Tables[f])]
var_crd == VarCrds[rqs.fl]

\* The option has been given; "ass" stands for the default, the absence of -C.
Opt(o) == o \in rqs.opt

mk_vars == <<str_idx, flg_mch, flg_vfp, flg_mtd, flg_xcl>>
vars == <<rqs, tbl, pc, pss_idx, flg_xtr, dmn_xtr, mk_vars>>

Init ==
  /\ rqs \in XtrRequests /\ tbl = Tables[rqs.fl]
  /\ pc = "mch" /\ str_idx = 0 /\ pss_idx = 0
  /\ flg_mch = {} /\ flg_vfp = {} /\ flg_mtd = {} /\ flg_xtr = {} /\ flg_xcl = {}
  /\ dmn_xtr = {}

-----------------------------------------------------------------------------
(* nco_xtr_mk(): matching the strings.                                     *)

\* The string the user typed: path components, anchored at the root by a
\* slash before them, and for groups not recursive by one behind.
UsrSng(s) ==
  IF s.cmp = <<>> THEN <<Sls>> ELSE IF s.ncr THEN Fll(s.cmp) ELSE Tail(Fll(s.cmp))

\* Where the last of the matches begins that follow each other in txt.
RECURSIVE LastOccurs(_, _, _)
LastOccurs(sng, txt, i) ==
  LET k == Min({j \in Occurs(sng, txt) : j >= i})
      more == \E j \in Occurs(sng, txt) : j >= k + Len(sng)
  IN IF more THEN LastOccurs(sng, txt, k + Len(sng)) ELSE k

\* The string is part of the full name.
IsPart(s, o) == Occurs(UsrSng(s), NmFll(tbl, o)) # {}

\* A group matches where it first contains the string: between component
\* boundaries; if anchored, at a slash; if not recursive, at its end.
\* (GrpMchPart: a faulty variant that takes parts of names.)
GrpMchPart(s, g) == IsPart(s, g)
GrpMch(s, g) ==
  LET sng == UsrSng(s)
      txt == NmFll(tbl, g)
      i == Min(Occurs(sng, txt))
      j == i + Len(sng) - 1
  IN /\ IsPart(s, g)
     /\ BeginsPath(txt, i) /\ EndsPath(txt, j)
     /\ s.ncr => txt[i] = Sls
     /\ s.trm => j = Len(txt)

\* A variable matches where it last contains the string: between component
\* boundaries, and the string ends with the name of the variable.
VarMch(s, v) ==
  LET sng == UsrSng(s)
      txt == NmFll(tbl, v)
      i == LastOccurs(sng, txt, 1)
  IN /\ IsPart(s, v)
     /\ BeginsPath(txt, i) /\ EndsPath(txt, i + Len(sng) - 1)
     /\ IsSuffix(Nm(tbl, v), sng)

\* nco_trv_rx_search(): a regular expression with a slash is matched with
\* full names, any other with last components.
RxMch(s, o) == (IF s.sls THEN NmFll(tbl, o) ELSE Nm(tbl, o)) \in s.hit

\* One string of -g, then of -v.  Plain strings that are part of no flagged
\* object are an error, unless they are to be excluded.
MchStr ==
  LET grp == str_idx < Len(rqs.grp_lst)
      s == (rqs.grp_lst \o rqs.var_lst)[str_idx + 1]
      objs == IF grp THEN Grps(tbl) ELSE Vars(tbl)
      hit == {o \in objs : IF s.rx THEN RxMch(s, o)
                           ELSE IF grp THEN GrpMch(s, o) ELSE VarMch(s, o)}
      found == s.rx \/ \E o \in objs : IsPart(s, o) /\ o \in flg_mch'
  IN /\ pc = "mch" /\ str_idx < Len(rqs.grp_lst \o rqs.var_lst)
     /\ str_idx' = str_idx + 1
     /\ flg_mch' = flg_mch \union hit
     /\ flg_vfp' = IF ~grp /\ ~s.rx /\ s.ncr THEN flg_vfp \union hit ELSE flg_vfp
     /\ pc' = IF found \/ Opt("xcl") THEN "mch" ELSE "exit"
     /\ UNCHANGED <<rqs, tbl, pss_idx, flg_xtr, dmn_xtr, flg_mtd, flg_xcl>>

-----------------------------------------------------------------------------
(* nco_xtr_mk(): combining the flags.                                      *)

\* Specifying no groups or variables is equivalent to requesting all.
FlgDfl ==
  IF rqs.grp_lst = <<>> /\ rqs.var_lst = <<>> /\ ~Opt("all_crd") THEN Objects(tbl) ELSE {}

FlgUnn == Opt("unn") \/ rqs.grp_lst = <<>> \/ rqs.var_lst = <<>>

\* nco_flg_set_grp_var_ass(): variables of matched groups, and groups of
\* matched variables.
SameGrp(o, p) == GrpPth(tbl, o) = GrpPth(tbl, p)
FlgVsg == {v \in Vars(tbl) : \E g \in flg_mch \intersect Grps(tbl) : SameGrp(v, g)}
FlgGcv == {g \in Grps(tbl) : \E v \in flg_mch \intersect Vars(tbl) : SameGrp(v, g)}

\* Intersection: a variable not given by its full path must be in a matched
\* group.  (FlgNsxAny: a faulty variant that forgets to check.)
FlgNsxAny == Objects(tbl)
FlgNsx == Objects(tbl) \ ((flg_mch \intersect Vars(tbl)) \ (flg_vfp \union FlgVsg))

NoVar(g) == \A v \in Vars(tbl) : ~SameGrp(v, g)

XtrMk ==
  /\ pc = "mch" /\ str_idx = Len(rqs.grp_lst \o rqs.var_lst) /\ pc' = "xcl"
  /\ flg_mtd' = {g \in Grps(tbl) : g \in flg_mch \union FlgDfl /\ NoVar(g)}
  /\ flg_xtr' = FlgDfl \union (IF FlgUnn THEN flg_mch \union FlgVsg \union FlgGcv
                                         ELSE flg_mch \intersect FlgNsx)
  /\ UNCHANGED <<rqs, tbl, pss_idx, dmn_xtr, str_idx, flg_mch, flg_vfp, flg_xcl>>

\* nco_xtr_xcl(): -x extracts what it was not to, --gxvx the other variables
\* of the groups.
Toggled ==
  IF Opt("gxvx")
  THEN {v \in Vars(tbl) : v \in flg_xtr \/ (v \notin flg_mch /\ v \in FlgVsg)}
  ELSE Objects(tbl)

XtrXcl ==
  /\ pc = "xcl" /\ pc' = "crd"
  /\ IF Opt("xcl")
     THEN /\ flg_xtr' = (flg_xtr \ Toggled) \union (Toggled \ flg_xtr)
          /\ flg_xcl' = Toggled
     ELSE UNCHANGED <<flg_xtr, flg_xcl>>
  /\ UNCHANGED <<rqs, tbl, pss_idx, dmn_xtr, str_idx, flg_mch, flg_vfp, flg_mtd>>

-----------------------------------------------------------------------------
(* Adding what belongs to the extracted variables.                         *)

Add(to) ==
  /\ pc' = to
  /\ UNCHANGED <<rqs, tbl, dmn_xtr, mk_vars>>

\* A pass over the table: the variables ass[v] are flagged if v is flagged
\* when the pass comes to it.
Pass(flg, ass) ==
  FoldLeft(LAMBDA x, v : IF v \in x \intersect DOMAIN ass THEN x \union ass[v] ELSE x,
           flg, [i \in 1..Len(tbl.lst) |-> i])

\* nco_xtr_crd_add()
XtrCrdAdd ==
  /\ pc = "crd" /\ Add("ass") /\ UNCHANGED pss_idx
  /\ flg_xtr' = IF Opt("all_crd") THEN flg_xtr \union {v \in Vars(tbl) : IsCrdVar(tbl, v)}
                               ELSE flg_xtr

\* nco_xtr_crd_ass_add(): the most in-scope variable with the name of each
\* dimension.
CrdAss ==
  [v \in Vars(tbl) |-> UNION {MostInScope(tbl, GrpPth(tbl, v), Last(d)) :
                                d \in ToSet(tbl.lst[v].dmn)}]

\* nco_xtr_ilev_add(): the first ilev, if a lev is extracted.
IlevAdd(flg) ==
  LET named(nm) == {v \in Vars(tbl) : Nm(tbl, v) = nm}
      ilev == named(<<"i", "lev">>)
  IN IF named(<<"lev">>) \intersect flg # {} /\ ilev # {}
     THEN flg \union {Min(ilev)} ELSE flg

XtrCrdAssAdd ==
  LET cf == rqs.cf /\ Opt("ass")
      crd == IF Opt("ass") THEN Pass(flg_xtr, CrdAss) ELSE flg_xtr
  IN /\ pc = "ass" /\ Add(IF cf THEN "cf" ELSE "chk") /\ UNCHANGED pss_idx
     /\ flg_xtr' = IF cf THEN IlevAdd(crd) ELSE crd

\* nco_xtr_cf_var_add(): the variable a name in a CF attribute stands for: a
\* path from the root, from the group of the variable or from its parent
\* group, or a name in scope.
CfVar(grp, ref) ==
  CASE ref.how = "abs" -> VarAt(tbl, ref.pth)
    [] ref.how = "rel" -> VarAt(tbl, grp \o ref.pth)
    [] ref.how = "up" -> VarAt(tbl, (IF grp = <<>> THEN grp ELSE Front(grp)) \o ref.pth)
    [] ref.how = "scp" -> MostInScope(tbl, grp, ref.pth[1])

CfAss(cf_nm) ==
  [v \in Vars(tbl) |->
    UNION {UNION {CfVar(GrpPth(tbl, v), ref) : ref \in ToSet(att.ref)} :
             att \in {a \in ToSet(tbl.lst[v].att) : a.nm = cf_nm}}]

\* The attributes looked for, all twice.  (CfPassesOnce: a faulty variant
\* that does so once.)
CfOpt ==
  (IF Opt("cll_msr") THEN <<"cell_measures">> ELSE <<>>)
  \o (IF Opt("frm_trm") THEN <<"formula_terms">> ELSE <<>>)
CfPassesOnce ==
  CfOpt \o <<"ancillary_variables", "bounds", "climatology", "coordinates",
             "grid_mapping", "quantization">>
CfPasses ==
  CfPassesOnce
  \o CfOpt \o <<"ancillary_variables", "climatology", "coordinates", "bounds",
                "grid_mapping", "quantization">>

XtrCfAdd ==
  /\ pc = "cf" /\ pss_idx' = pss_idx + 1
  /\ Add(IF pss_idx' = Len(CfPasses) THEN "chk" ELSE "cf")
  /\ flg_xtr' = Pass(flg_xtr, CfAss(CfPasses[pss_idx + 1]))

-----------------------------------------------------------------------------
(* Ending.                                                                 *)

\* nco_xtr_xcl_chk(): die if a variable to be excluded is extracted.
XtrXclChk ==
  /\ pc = "chk"
  /\ pc' = IF Opt("xcl") /\ Opt("ass") /\ Vars(tbl) \intersect flg_xtr \intersect flg_mch # {}
           THEN "refused" ELSE "mrk"
  /\ UNCHANGED <<rqs, tbl, pss_idx, flg_xtr, dmn_xtr, mk_vars>>

\* nco_xtr_dmn_mrk() and nco_xtr_grp_mrk(): the dimensions of the variables;
\* groups that are not excluded and hold only metadata, the root group,
\* those above an extracted variable, and those above all these groups.
Above(g, o) == IsStrictPrefix(Pth(tbl, g), Pth(tbl, o))
GrpMrk1 ==
  {g \in Grps(tbl) :
     \/ g \in flg_mtd \ flg_xcl
     \/ Pth(tbl, g) = <<>>
     \/ \E v \in Vars(tbl) \intersect flg_xtr : Above(g, v)}
GrpMrk == GrpMrk1 \union {g \in Grps(tbl) : \E h \in GrpMrk1 : Above(g, h)}

XtrMrk ==
  /\ pc = "mrk" /\ pc' = "done"
  /\ flg_xtr' = (flg_xtr \intersect Vars(tbl)) \union GrpMrk
  /\ dmn_xtr' = UNION {ToSet(tbl.lst[v].dmn) : v \in Vars(tbl) \intersect flg_xtr}
  /\ UNCHANGED <<rqs, tbl, pss_idx, mk_vars>>

Next ==
  \/ MchStr \/ XtrMk \/ XtrXcl \/ XtrCrdAdd \/ XtrCrdAssAdd \/ XtrCfAdd
  \/ XtrXclChk \/ XtrMrk

Spec == Init /\ [][Next]_vars
=============================================================================
