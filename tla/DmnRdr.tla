------------------------------- MODULE DmnRdr -------------------------------
(***************************************************************************)
(* The re-ordering of dimensions by ncpdq -a:                              *)
(* nco_var_dmn_rdr_mtd_trv() and nco_var_dmn_rdr_val_trv() of              *)
(* src/nco/nco_grp_utl.c, with nco_var_dmn_rdr_mtd() of nco_cnf_dmn.c and  *)
(* the part of nco_cpy_var_dfn_trv() that defines dimensions.              *)
(*                                                                         *)
(* Variables are sequences of dimensions, numbered in the order of the     *)
(* traversal table.  Groups, several dimensions of one name and hyperslabs *)
(* are left out, and the input has one record dimension, the first of all  *)
(* variables that have it, as in netCDF3.                                  *)
(***************************************************************************)
EXTENDS VarDmn, FiniteSetsExt

CONSTANTS
  RdrRequests,
    \* [vars, rec : record dimension, cnt : size of each dimension,
    \*  rdr, rvr : dimensions of -a and those of them with a minus sign,
    \*  nc4 : netCDF4 output, mrd : --mrd given]
  NoDmn  \* no record dimension has been re-defined for the variable

\* Files with variables, each with distinct dimensions and the record
\* dimension, if any, first; no dimension twice in -a.
IsRequest(r) ==
  /\ r.vars \in Seq(ToSet(r.vars)) /\ r.vars # <<>>
  /\ \A v \in DOMAIN r.vars :
       /\ r.vars[v] \in Seq(ToSet(r.vars[v])) /\ IsInjective(r.vars[v])
       /\ NoDmn \notin ToSet(r.vars[v])
       /\ \A i \in DOMAIN r.vars[v] :
            r.cnt[r.vars[v][i]] \in Nat /\ (r.vars[v][i] = r.rec => i = 1)
  /\ r.rdr \in Seq(ToSet(r.rdr)) /\ IsInjective(r.rdr) /\ r.rvr \subseteq ToSet(r.rdr)
  /\ r.nc4 \in BOOLEAN /\ r.mrd \in BOOLEAN
ASSUME RdrAssumption == \A r \in RdrRequests : IsRequest(r)

VARIABLES
  dr_rqs,          \* the request
  dr_pc,           \* the loop
  dr_idx,          \* the variable it is at
  dr_dim,          \* var_prc_out[]->dim
  is_rec_var,      \* var_prc_out[]->is_rec_var
  dmn_idx_out_in,  \* in the traversal table: where an output dimension was
  dmn_rvr_in,      \* in the traversal table: reversed dimensions
  rec_dmn_nm_out,  \* in the traversal table: re-defined record dimension
  udm,             \* output file: dimensions defined and whether unlimited
  dr_fl            \* output file: dimensions of variables, and the offset
                   \* to which each element of the input went

dr_vars == <<dr_rqs, dr_pc, dr_idx, dr_dim, is_rec_var, dmn_idx_out_in,
             dmn_rvr_in, rec_dmn_nm_out, udm, dr_fl>>

VarIdx == DOMAIN dr_rqs.vars
Has(v, d) == Contains(dr_rqs.vars[v], d)
At(s, d) == CHOOSE i \in DOMAIN s : s[i] = d

DrInit ==
  /\ dr_rqs \in RdrRequests /\ dr_pc = "mtd" /\ dr_idx = 1
  /\ dr_dim = dr_rqs.vars
  /\ is_rec_var = [v \in VarIdx |-> Has(v, dr_rqs.rec)]
  /\ dmn_idx_out_in = [v \in VarIdx |-> [i \in DOMAIN dr_rqs.vars[v] |-> i]]
  /\ dmn_rvr_in = [v \in VarIdx |-> {}]
  /\ rec_dmn_nm_out = [v \in VarIdx |-> NoDmn]
  /\ udm = <<>> /\ dr_fl = <<>>

\* The next variable, or the first of the next loop.
Onward(next) ==
  IF dr_idx < Len(dr_rqs.vars) THEN dr_idx' = dr_idx + 1 /\ dr_pc' = dr_pc
  ELSE dr_idx' = 1 /\ dr_pc' = next

-----------------------------------------------------------------------------
(* nco_var_dmn_rdr_mtd()                                                   *)

\* A set of numbers in ascending order, and the elements of a sequence that
\* are in a set, in their order.
Ascending(S) ==
  [k \in 1..Cardinality(S) |-> CHOOSE i \in S : Cardinality({j \in S : j <= i}) = k]
Chosen(s, S) ==
  LET places == Ascending({i \in DOMAIN s : s[i] \in S})
  IN  [k \in DOMAIN places |-> s[places[k]]]

\* Dimensions the variable shares with -a, in the order of -a, and their
\* places in the input.
Shr(rdr, dmn) == Chosen(rdr, ToSet(dmn))
ShrIn(rdr, dmn) == [k \in DOMAIN Shr(rdr, dmn) |-> At(dmn, Shr(rdr, dmn)[k])]

\* The places sorted.  (ShrOutUnsorted: a faulty variant.)
ShrOutUnsorted(rdr, dmn) == ShrIn(rdr, dmn)
ShrOut(rdr, dmn) == Ascending(ToSet(ShrIn(rdr, dmn)))

\* Without two shared dimensions nothing moves.
InOut(rdr, dmn) ==
  [i \in DOMAIN dmn |->
     IF Contains(Shr(rdr, dmn), dmn[i]) THEN ShrOut(rdr, dmn)[At(Shr(rdr, dmn), dmn[i])] ELSE i]
OutIn(rdr, dmn) ==
  IF Len(Shr(rdr, dmn)) < 2 THEN [i \in DOMAIN dmn |-> i]
  ELSE [o \in DOMAIN dmn |-> CHOOSE i \in DOMAIN dmn : InOut(rdr, dmn)[i] = o]
OutDim(rdr, dmn) == [o \in DOMAIN dmn |-> dmn[OutIn(rdr, dmn)[o]]]

\* (RvrByPlace: a faulty variant that takes the k-th sign of -a for the k-th
\* shared dimension.)
RvrByPlace(dmn) ==
  LET shr == Shr(dr_rqs.rdr, dmn)
  IN  {shr[k] : k \in {j \in DOMAIN shr : dr_rqs.rdr[j] \in dr_rqs.rvr}}
Rvr(dmn) == ToSet(Shr(dr_rqs.rdr, dmn)) \intersect dr_rqs.rvr

-----------------------------------------------------------------------------
(* nco_var_dmn_rdr_mtd_trv()                                               *)

Redefined == \E v \in VarIdx : rec_dmn_nm_out[v] # NoDmn
RecDmn == rec_dmn_nm_out[CHOOSE v \in VarIdx : rec_dmn_nm_out[v] # NoDmn]

\* The first loop.  A record variable asks for its first dimension as record
\* dimension; only the first request for another one is honored.
Mtd ==
  LET dmn == dr_rqs.vars[dr_idx]
      first == OutDim(dr_rqs.rdr, dmn)[1]
  IN /\ dr_pc = "mtd"
     /\ dr_dim' = [dr_dim EXCEPT ![dr_idx] = OutDim(dr_rqs.rdr, dmn)]
     /\ dmn_idx_out_in' = [dmn_idx_out_in EXCEPT ![dr_idx] = OutIn(dr_rqs.rdr, dmn)]
     /\ dmn_rvr_in' = [dmn_rvr_in EXCEPT ![dr_idx] = Rvr(dmn)]
     /\ rec_dmn_nm_out' =
          IF is_rec_var[dr_idx] /\ Len(dmn) > 1 /\ first # dr_rqs.rec /\ ~Redefined
          THEN [rec_dmn_nm_out EXCEPT ![dr_idx] = first] ELSE rec_dmn_nm_out
     /\ Onward("mrk")
     /\ UNCHANGED <<dr_rqs, is_rec_var, udm, dr_fl>>

\* The second loop: other variables with the new record dimension become
\* record variables, and it changes places with their first.  What goes to
\* the map is its place in the output.
Mrk ==
  /\ dr_pc = "mrk"
  /\ IF Redefined /\ rec_dmn_nm_out[dr_idx] = NoDmn /\ Len(dr_dim[dr_idx]) > 1
        /\ Has(dr_idx, RecDmn) /\ ~is_rec_var[dr_idx]
     THEN LET p == At(dr_dim[dr_idx], RecDmn)
              map == dmn_idx_out_in[dr_idx]
          IN /\ is_rec_var' = [is_rec_var EXCEPT ![dr_idx] = TRUE]
             /\ dr_dim' = [dr_dim EXCEPT ![dr_idx] =
                             [@ EXCEPT ![1] = dr_dim[dr_idx][p], ![p] = dr_dim[dr_idx][1]]]
             /\ dmn_idx_out_in' = [dmn_idx_out_in EXCEPT ![dr_idx] =
                                     [[map EXCEPT ![1] = p] EXCEPT ![p] = map[1]]]
     ELSE UNCHANGED <<is_rec_var, dr_dim, dmn_idx_out_in>>
  /\ Onward("prp")
  /\ UNCHANGED <<dr_rqs, dmn_rvr_in, rec_dmn_nm_out, udm, dr_fl>>

\* The last loop: variables with the new or the old record dimension.
\* (ConcernedByNew: a faulty variant that forgets the old.)
ConcernedByNew(v) == Has(v, RecDmn)
Concerned(v) == Has(v, RecDmn) \/ Has(v, dr_rqs.rec)
Prp ==
  /\ dr_pc = "prp" /\ dr_pc' = "dfn"
  /\ rec_dmn_nm_out' =
       [v \in VarIdx |-> IF ~Redefined THEN NoDmn
                         ELSE IF Concerned(v) THEN RecDmn ELSE rec_dmn_nm_out[v]]
  /\ UNCHANGED <<dr_rqs, dr_idx, dr_dim, is_rec_var, dmn_idx_out_in, dmn_rvr_in, udm, dr_fl>>

-----------------------------------------------------------------------------
(* nco_cpy_var_dfn_trv() and the loop of main()                            *)

\* Whether a dimension is defined as a record dimension for variable v.
DfnAsRec(v, d) ==
  IF rec_dmn_nm_out[v] = NoDmn THEN d = dr_rqs.rec
  ELSE d = rec_dmn_nm_out[v] \/ (d = dr_rqs.rec /\ dr_rqs.nc4 /\ dr_rqs.mrd)

\* dmn_idx_in_out keeps what memory held where the map is not a permutation.
\* netCDF3 has one unlimited dimension, the first of its variables.
Dfn ==
  LET dmn == dr_rqs.vars[dr_idx]
      map == dmn_idx_out_in[dr_idx]
      ids == [d \in ToSet(dmn) \union DOMAIN udm |->
                IF d \in DOMAIN udm THEN udm[d] ELSE DfnAsRec(dr_idx, d)]
      dfn == [o \in DOMAIN dmn |-> dmn[map[o]]]
      one == Cardinality({d \in DOMAIN ids : ids[d]}) <= 1
      leads == \A o \in DOMAIN dmn \ {1} : ~ids[dfn[o]]
  IN /\ dr_pc = "dfn"
     /\ IF ~IsInjective(map) THEN dr_pc' = "undefined" /\ UNCHANGED <<dr_idx, udm, dr_fl>>
        ELSE IF ~dr_rqs.nc4 /\ ~(one /\ leads)
             THEN dr_pc' = "error" /\ UNCHANGED <<dr_idx, udm, dr_fl>>
        ELSE /\ udm' = ids
             /\ dr_fl' = Append(dr_fl, [dmn |-> dfn, slot |-> <<>>])
             /\ Onward("val")
     /\ UNCHANGED <<dr_rqs, dr_dim, is_rec_var, dmn_idx_out_in, dmn_rvr_in, rec_dmn_nm_out>>

\* nco_var_dmn_rdr_val_trv(): the offset an element goes to, its subscripts
\* taken by the map and weighed by the sizes of the dimensions of var_out.
\* The identity copies all of the array at once.
Sbs(v, lmn, i) ==
  LET d == dr_rqs.vars[v][i]
      sbs == (lmn \div DmnMap(dr_rqs.vars[v], dr_rqs.cnt, i)) % dr_rqs.cnt[d]
  IN IF d \in dmn_rvr_in[v] THEN dr_rqs.cnt[d] - sbs - 1 ELSE sbs
Slot(v, lmn) ==
  FoldLeft(LAMBDA n, x : n + x, 0,
           [o \in DOMAIN dr_dim[v] |-> Sbs(v, lmn, dmn_idx_out_in[v][o]) * DmnMap(dr_dim[v], dr_rqs.cnt, o)])

Put ==
  /\ dr_pc = "val"
  /\ dr_fl' = [dr_fl EXCEPT ![dr_idx].slot =
                 [lmn \in 0..(Size(dr_rqs.vars[dr_idx], dr_rqs.cnt) - 1) |-> Slot(dr_idx, lmn)]]
  /\ Onward("done")
  /\ UNCHANGED <<dr_rqs, dr_dim, is_rec_var, dmn_idx_out_in, dmn_rvr_in, rec_dmn_nm_out, udm>>

DrNext == Mtd \/ Mrk \/ Prp \/ Dfn \/ Put

DrSpec == DrInit /\ [][DrNext]_dr_vars

-----------------------------------------------------------------------------
(* What the manual promises.                                               *)

\* A variable becomes a record variable whose new record dimension, that of
\* a variable w, -a moves, but not to its head: when it then changes places
\* with the first, its place in the output is taken for that in the input
\* (nco_grp_utl.c 6415).
MovesTwice(r) ==
  \E v, w \in DOMAIN r.vars :
    LET d == OutDim(r.rdr, r.vars[w])[1]
    IN  /\ Contains(r.vars[w], r.rec) /\ d # r.rec
        /\ Contains(r.vars[v], d) /\ ~Contains(r.vars[v], r.rec)
        /\ At(OutDim(r.rdr, r.vars[v]), d) \notin {1, At(r.vars[v], d)}

\* Each element is found in the output under the subscripts it had in the
\* input, dimension by dimension, or counted from the end of the dimensions
\* with a minus sign: the map of dimensions, the sizes of the output variable
\* and its definition agree, also when both -a and a change of the record
\* dimension have moved dimensions.
ElementsInPlace ==
  /\ dr_pc # "undefined"
  /\ dr_pc = "done" =>
       \A v \in VarIdx :
         LET out == [dmn |-> dr_fl[v].dmn, cnt |-> dr_rqs.cnt]
             in == [dmn |-> dr_rqs.vars[v], cnt |-> dr_rqs.cnt]
         IN \A lmn \in DOMAIN dr_fl[v].slot : \A d \in ToSet(dr_rqs.vars[v]) :
              DmnSs(out, dr_fl[v].slot[lmn], d) =
                IF d \in dr_rqs.rvr THEN dr_rqs.cnt[d] - 1 - DmnSs(in, lmn, d) ELSE DmnSs(in, lmn, d)

\* The dimensions named by -a that a variable has, and whether a sequence of
\* dimensions has them in this order, in the places they had together, and
\* all others where they were.
Asked(v) == Chosen(dr_rqs.rdr, ToSet(dr_rqs.vars[v]))
Arranged(v, dmn) ==
  /\ Chosen(dmn, ToSet(dr_rqs.rdr)) = Asked(v)
  /\ \A i \in DOMAIN dmn : ~Contains(dr_rqs.rdr, dr_rqs.vars[v][i]) => dmn[i] = dr_rqs.vars[v][i]

\* The dimensions of each variable in the output are arranged so, except that
\* in a variable without the old record dimension the new one has changed
\* places with the first.
OrderedAsAsked ==
  dr_pc = "done" =>
    \A v \in VarIdx :
      LET out == dr_fl[v].dmn
          new == {d \in ToSet(out) \ {dr_rqs.rec} : udm[d] /\ ~Has(v, dr_rqs.rec)}
          swapped(p) == [i \in DOMAIN out |-> IF i = 1 THEN out[p] ELSE IF i = p THEN out[1] ELSE out[i]]
      IN IF new = {} THEN Arranged(v, out)
         ELSE out[1] \in new /\ \E p \in DOMAIN out : Arranged(v, swapped(p))

\* The record dimension a variable requires: the first that -a puts in the
\* place of the old one.
Requires(v) ==
  IF Has(v, dr_rqs.rec) /\ Contains(dr_rqs.rdr, dr_rqs.rec) THEN {Asked(v)[1]} \ {dr_rqs.rec} ELSE {}
Conflict == Cardinality(UNION {Requires(v) : v \in VarIdx}) > 1

\* Unless record variables require different ones, the re-ordering succeeds,
\* in every format and whatever the order of the variables in the file; the
\* output has one record dimension (with --mrd in netCDF4 the old one beside
\* it), and it is the most slowly varying dimension of all variables that
\* have it.
OneRecordDimension ==
  ~Conflict =>
    /\ dr_pc # "error"
    /\ dr_pc = "done" =>
         LET new == UNION {Requires(v) : v \in VarIdx}
             old == {d \in DOMAIN udm : d = dr_rqs.rec}
             rec == IF new = {} \/ (dr_rqs.nc4 /\ dr_rqs.mrd) THEN new \union old ELSE new
         IN /\ {d \in DOMAIN udm : udm[d]} = rec
            /\ \A v \in VarIdx : \A i \in DOMAIN dr_fl[v].dmn :
                 dr_fl[v].dmn[i] \in (IF new = {} THEN old ELSE new) => i = 1

\* The re-ordering fails if it requires more than one record dimension.
FailsOnConflict == dr_pc = "done" => ~Conflict
=============================================================================
