------------------------------ MODULE OmpVars ------------------------------
(***************************************************************************)
(* The OpenMP loop over the variables of one record or file: main() of     *)
(* src/nco/ncra.c (ncra, ncrcat) and of src/nco/ncpdq.c, with the number   *)
(* of threads as nco_openmp_ini() of src/nco/nco_omp.c chooses it.         *)
(*                                                                         *)
(* The threads of the team take the iterations among them.  In ncra.c the  *)
(* members of lkp (what an iteration looks up about its variable) and      *)
(* wgt_scv are shared by the team: there is one slot of each.  In ncpdq.c  *)
(* they are declared in the body of the loop: every thread has a slot.     *)
(* A variable of the input is [grp, skp, typ]: its group, whether it lacks *)
(* the current record dimension, and its type in memory.                   *)
(***************************************************************************)
EXTENDS Naturals, Sequences, FiniteSets

CONSTANTS
  thr_nbr_max,  \* threads the system allows, omp_get_max_threads()
  Cases         \* [prg, netcdf4 : built with it, thr_nbr : --thr_nbr or 0,
                \*  wgt : a weight is applied, vars : sequence of variables]

ASSUME ThrNbrMaxAssumption == thr_nbr_max \in Nat \ {0}

VARIABLES
  cs,                \* the case
  todo,              \* iterations no thread has begun
  pc, idx,           \* where each thread is, and its iteration
  lkp,               \* the slots for what is looked up
  wgt_scv,           \* the slots of the scalar weight
  id,                \* var_prc_out[idx]->id
  acc,               \* what has been accumulated (ncra)
  crt, pos, out,     \* thread in the critical section, place it writes at,
                     \* and the output file (ncrcat, ncpdq)
  ended              \* "no", "loop" (the loop has ended) or "exit" (an error)

vars == <<cs, todo, pc, idx, lkp, wgt_scv, id, acc, crt, pos, out, ended>>

-----------------------------------------------------------------------------
(* The number of threads.                                                  *)

\* Program limits hold for the automatic choice only.
thr_nbr_max_fsh(prg) == IF prg = "ncks" THEN 16 ELSE 1

MinOf(a, b) == IF a < b THEN a ELSE b

\* With netCDF4, whose HDF5 is not thread-safe, only ncks, ncwa and ncra may
\* have more than one thread.
ThrNbr(c) ==
  LET thr_nbr_rqs == IF c.thr_nbr > 0 THEN MinOf(c.thr_nbr, thr_nbr_max)
                     ELSE MinOf(thr_nbr_max, thr_nbr_max_fsh(c.prg))
  IN  IF c.netcdf4 /\ c.prg \notin {"ncks", "ncwa", "ncra"} THEN 1 ELSE thr_nbr_rqs

Thread == 1..thr_nbr_max
Team == 1..ThrNbr(cs)
Var == DOMAIN cs.vars

\* Which slot a thread uses.  (SlotShared: the variables of ncpdq declared
\* outside the loop, as those of ncra are.)
SlotShared(t) == 0
Slot(t) == IF cs.prg = "ncpdq" THEN t ELSE 0
Lkp(t) == lkp[Slot(t)]

\* Variable IDs count within a group.
VarId(v) == Cardinality({u \in 1..v : cs.vars[u].grp = cs.vars[v].grp})
Place(v) == <<cs.vars[v].grp, VarId(v)>>
Places == {Place(v) : v \in Var}

OmpInit ==
  /\ cs \in Cases
  /\ todo = Var
  /\ pc = [t \in Thread |-> "idle"] /\ idx = [t \in Thread |-> 0]
  /\ lkp = [s \in {0} \union Thread |->
             [flg_skp1 |-> FALSE, var_trv |-> 0, grp_out_fll |-> "", grp_out_id |-> "",
              var_out_id |-> 0]]
  /\ wgt_scv = [s \in {0} \union Thread |-> [type |-> "double", val |-> "double"]]
  /\ id = [v \in Var |-> 0] /\ acc = [v \in Var |-> "none"]
  /\ crt = {} /\ pos = <<>> /\ out = [p \in Places |-> 0]
  /\ ended = "no"

-----------------------------------------------------------------------------
(* One iteration, one action per access to shared state.                   *)

At(t, p) == ended = "no" /\ t \in Team /\ pc[t] = p
Goto(t, p) == pc' = [pc EXCEPT ![t] = p]
Look(t, m, x) == lkp' = [lkp EXCEPT ![Slot(t)][m] = x]

\* The thread begins its next iteration.
Begin(t) ==
  /\ At(t, "idle") /\ todo # {}
  /\ \E v \in todo : idx' = [idx EXCEPT ![t] = v] /\ todo' = todo \ {v}
  /\ Goto(t, IF cs.prg = "ncpdq" THEN "trv" ELSE "skp")
  /\ UNCHANGED <<cs, lkp, wgt_scv, id, acc, crt, pos, out, ended>>

\* flg_skp1=nco_skp_var(): is the variable without this record dimension?
Skp(t) ==
  /\ At(t, "skp") /\ Goto(t, "tst")
  /\ Look(t, "flg_skp1", cs.vars[idx[t]].skp)
  /\ UNCHANGED <<cs, todo, idx, wgt_scv, id, acc, crt, pos, out, ended>>
Tst(t) ==
  /\ At(t, "tst") /\ Goto(t, IF Lkp(t).flg_skp1 THEN "idle" ELSE "trv")
  /\ UNCHANGED <<cs, todo, idx, lkp, wgt_scv, id, acc, crt, pos, out, ended>>

\* The variable's object, the group name and the group ID of the output.
Trv(t) ==
  /\ At(t, "trv") /\ Goto(t, "fll") /\ Look(t, "var_trv", idx[t])
  /\ UNCHANGED <<cs, todo, idx, wgt_scv, id, acc, crt, pos, out, ended>>
Fll(t) ==
  /\ At(t, "fll") /\ Goto(t, "grp")
  /\ Look(t, "grp_out_fll", cs.vars[Lkp(t).var_trv].grp)
  /\ UNCHANGED <<cs, todo, idx, wgt_scv, id, acc, crt, pos, out, ended>>
Grp(t) ==
  /\ At(t, "grp") /\ Goto(t, "vid") /\ Look(t, "grp_out_id", Lkp(t).grp_out_fll)
  /\ UNCHANGED <<cs, todo, idx, wgt_scv, id, acc, crt, pos, out, ended>>

\* nco_inq_varid() exits when the group has no such variable.
Vid(t) ==
  LET v == Lkp(t).var_trv
  IN  /\ At(t, "vid")
      /\ IF cs.vars[v].grp = Lkp(t).grp_out_id
         THEN Goto(t, "sto") /\ Look(t, "var_out_id", VarId(v)) /\ UNCHANGED ended
         ELSE ended' = "exit" /\ UNCHANGED <<pc, lkp>>
      /\ UNCHANGED <<cs, todo, idx, wgt_scv, id, acc, crt, pos, out>>

\* Store the ID; then read the variable and compute, or write it.
Sto(t) ==
  /\ At(t, "sto")
  /\ id' = [id EXCEPT ![idx[t]] = Lkp(t).var_out_id]
  /\ Goto(t, IF cs.prg # "ncra" THEN "put" ELSE IF cs.wgt THEN "wty" ELSE "acc")
  /\ UNCHANGED <<cs, todo, idx, lkp, wgt_scv, acc, crt, pos, out, ended>>

\* The weight is a double, converted to the type of the variable.
Wty(t) ==
  /\ At(t, "wty") /\ Goto(t, "wvl")
  /\ wgt_scv' = [wgt_scv EXCEPT ![Slot(t)].type = "double"]
  /\ UNCHANGED <<cs, todo, idx, lkp, id, acc, crt, pos, out, ended>>
Wvl(t) ==
  /\ At(t, "wvl") /\ Goto(t, "cnf")
  /\ wgt_scv' = [wgt_scv EXCEPT ![Slot(t)].val = "double"]
  /\ UNCHANGED <<cs, todo, idx, lkp, id, acc, crt, pos, out, ended>>

\* nco_scv_cnf_typ() reads the value as its old type says.
Cnf(t) ==
  LET scv == wgt_scv[Slot(t)]
      typ == cs.vars[idx[t]].typ
  IN  /\ At(t, "cnf") /\ Goto(t, "acc")
      /\ wgt_scv' = [wgt_scv EXCEPT ![Slot(t)] =
           [type |-> typ, val |-> IF scv.val = scv.type THEN typ ELSE "garbage"]]
      /\ UNCHANGED <<cs, todo, idx, lkp, id, acc, crt, pos, out, ended>>

\* nco_var_scv_mlt() reads the weight as the variable's type, then
\* nco_opr_drv() accumulates.
Acc(t) ==
  /\ At(t, "acc") /\ Goto(t, "idle")
  /\ acc' = [acc EXCEPT ![idx[t]] =
       IF cs.wgt /\ wgt_scv[Slot(t)].val # cs.vars[idx[t]].typ THEN "garbage" ELSE "done"]
  /\ UNCHANGED <<cs, todo, idx, lkp, wgt_scv, id, crt, pos, out, ended>>

\* The output library keeps a place of its own, so that writing is in a
\* critical section.
Put(t) ==
  /\ At(t, "put") /\ crt = {} /\ Goto(t, "wrt")
  /\ crt' = {t} /\ pos' = <<Lkp(t).grp_out_id, id[idx[t]]>>
  /\ UNCHANGED <<cs, todo, idx, lkp, wgt_scv, id, acc, out, ended>>

\* Writing where no variable is exits.
Wrt(t) ==
  /\ At(t, "wrt")
  /\ IF pos \in Places
     THEN /\ out' = [out EXCEPT ![pos] = idx[t]]
          /\ crt' = crt \ {t} /\ Goto(t, "idle") /\ UNCHANGED ended
     ELSE ended' = "exit" /\ UNCHANGED <<out, crt, pc>>
  /\ UNCHANGED <<cs, todo, idx, lkp, wgt_scv, id, acc, pos>>

\* The team joins at the end of the loop.
Join ==
  /\ ended = "no" /\ todo = {} /\ \A t \in Team : pc[t] = "idle"
  /\ ended' = "loop"
  /\ UNCHANGED <<cs, todo, pc, idx, lkp, wgt_scv, id, acc, crt, pos, out>>

Iterate(t) == \/ Begin(t) \/ Skp(t) \/ Tst(t) \/ Trv(t) \/ Fll(t) \/ Grp(t) \/ Vid(t)
              \/ Sto(t) \/ Wty(t) \/ Wvl(t) \/ Cnf(t) \/ Acc(t) \/ Put(t) \/ Wrt(t)

OmpNext == Join \/ (\E t \in Thread : Iterate(t)) \/ (ended # "no" /\ UNCHANGED vars)

OmpSpec == OmpInit /\ [][OmpNext]_vars

-----------------------------------------------------------------------------
Wanted(v) == cs.prg = "ncpdq" \/ ~cs.vars[v].skp

\* What one thread computes: every variable of this record dimension, and no
\* other, is accumulated with its weight or written at its own place.
Serial ==
  /\ \A v \in Var : acc[v] = IF cs.prg = "ncra" /\ Wanted(v) THEN "done" ELSE "none"
  /\ \A v \in Var : out[Place(v)] = IF cs.prg # "ncra" /\ Wanted(v) THEN v ELSE 0

\* The answers of threaded and non-threaded operators are equal (OpenMP
\* Threading section of doc/nco.texi).
SameAsSerial == ended # "no" => ended = "loop" /\ Serial

-----------------------------------------------------------------------------
(* Why it holds where no two threads of a team share a slot: an inductive  *)
(* invariant.                                                              *)

\* Identifiers of each thread's own, or one thread.
Isolated(c) == c.prg = "ncpdq" \/ ThrNbr(c) = 1
CaseType(c) ==
  /\ c.prg \in {"ncra", "ncrcat", "ncpdq"} /\ c.wgt \in BOOLEAN
  /\ Len(c.vars) \in Nat /\ DOMAIN c.vars = 1..Len(c.vars)
  /\ \A v \in DOMAIN c.vars : c.vars[v].skp \in BOOLEAN
IsolatedCases == \A c \in Cases : CaseType(c) /\ Isolated(c)

GrpNames == {""} \union {cs.vars[v].grp : v \in Var}
TypNames == {"double", "garbage"} \union {cs.vars[v].typ : v \in Var}

\* Types of all variables.
OmpTypeOK ==
  /\ cs \in Cases /\ todo \subseteq Var
  /\ pc \in [Thread -> {"idle", "skp", "tst", "trv", "fll", "grp", "vid", "sto", "wty", "wvl",
                        "cnf", "acc", "put", "wrt"}]
  /\ idx \in [Thread -> Nat]
  /\ lkp \in [{0} \union Thread ->
              [flg_skp1 : BOOLEAN, var_trv : Nat, grp_out_fll : GrpNames, grp_out_id : GrpNames,
               var_out_id : Nat]]
  /\ wgt_scv \in [{0} \union Thread -> [type : TypNames, val : TypNames]]
  /\ id \in [Var -> Nat] /\ acc \in [Var -> {"none", "done", "garbage"}]
  /\ crt \subseteq Thread /\ out \in [Places -> {0} \union Var]
  /\ ended \in {"no", "loop", "exit"}

\* Every iteration is begun once, by one thread of the team.
Busy(t) == pc[t] # "idle"
IterationInv ==
  /\ \A t \in Thread : Busy(t) => t \in Team /\ idx[t] \in Var /\ idx[t] \notin todo
  /\ \A t, u \in Thread : Busy(t) /\ Busy(u) /\ idx[t] = idx[u] => t = u

\* What a thread finds in its slot is what it has looked up for its own
\* iteration.
LookedUp(t) ==
  LET v == cs.vars[idx[t]]
  IN  /\ pc[t] = "tst" => Lkp(t).flg_skp1 = v.skp
      /\ pc[t] \in {"fll", "grp", "vid"} => Lkp(t).var_trv = idx[t]
      /\ pc[t] = "grp" => Lkp(t).grp_out_fll = v.grp
      /\ pc[t] \in {"vid", "sto", "put"} => Lkp(t).grp_out_id = v.grp
      /\ pc[t] = "sto" => Lkp(t).var_out_id = VarId(idx[t])
      /\ pc[t] = "put" => id[idx[t]] = VarId(idx[t])
      /\ pc[t] = "wrt" => crt = {t} /\ pos = Place(idx[t])
WeightRight(t) ==
  LET scv == wgt_scv[Slot(t)]
  IN  /\ pc[t] \in {"wvl", "cnf"} => scv.type = "double"
      /\ pc[t] = "cnf" => scv.val = "double"
      /\ pc[t] = "acc" /\ cs.wgt => scv.val = cs.vars[idx[t]].typ
OnItsWay(t) ==
  /\ pc[t] \notin {"idle", "skp", "tst"} => Wanted(idx[t])
  /\ pc[t] \in {"wty", "wvl", "cnf", "acc"} => cs.prg = "ncra"
  /\ pc[t] \in {"put", "wrt"} => cs.prg # "ncra"
  /\ pc[t] \in {"skp", "tst"} => cs.prg # "ncpdq"
SlotInv == \A t \in Thread : LookedUp(t) /\ WeightRight(t) /\ OnItsWay(t)

\* A variable is untouched until its iteration ends, and then as one thread
\* leaves it.
Pending(v) == v \in todo \/ \E t \in Thread : Busy(t) /\ idx[t] = v
ResultInv ==
  \A v \in Var :
    /\ acc[v] = IF cs.prg = "ncra" /\ Wanted(v) /\ ~Pending(v) THEN "done" ELSE "none"
    /\ out[Place(v)] = IF cs.prg # "ncra" /\ Wanted(v) /\ ~Pending(v) THEN v ELSE 0

JoinInv ==
  /\ ended # "exit"
  /\ ended = "loop" => todo = {} /\ \A t \in Thread : ~Busy(t)

OmpInv == OmpTypeOK /\ IterationInv /\ SlotInv /\ ResultInv /\ JoinInv
=============================================================================
