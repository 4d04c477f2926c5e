----------------------------- MODULE OmpProofs -----------------------------
(***************************************************************************)
(* That threads with identifiers of their own, or one thread, leave what   *)
(* the serial loop leaves, for any number of threads and any variables.    *)
(***************************************************************************)
EXTENDS OmpVars, FiniteSetTheorems, TLAPS

\* No two threads of a team share a slot.
LEMMA SlotsDistinct ==
  ASSUME IsolatedCases, cs \in Cases, NEW t \in Team, NEW u \in Team, t # u
  PROVE  Slot(t) # Slot(u)
<1>1. cs.prg = "ncpdq" \/ Team = {1}
  BY DEF IsolatedCases, Isolated, Team
<1> QED
  BY <1>1 DEF Slot

LEMMA SlotType ==
  ASSUME NEW t \in Thread
  PROVE  Slot(t) \in {0} \union Thread
BY DEF Slot

\* The place of a variable is its own: IDs grow within a group.
LEMMA PlaceInjective ==
  ASSUME IsolatedCases, cs \in Cases, NEW v \in Var, NEW w \in Var, Place(v) = Place(w)
  PROVE  v = w
<1> DEFINE Upto(x) == {u \in 1..x : cs.vars[u].grp = cs.vars[x].grp}
<1>1. v \in Nat \ {0} /\ w \in Nat \ {0}
  BY DEF IsolatedCases, CaseType, Var
<1>2. ASSUME NEW x \in Nat \ {0}, NEW y \in Nat \ {0}, x < y, Place(x) = Place(y)
      PROVE  FALSE
  <2>1. Upto(x) \subseteq Upto(y) /\ Upto(x) # Upto(y)
    <3>1. cs.vars[x].grp = cs.vars[y].grp
      BY <1>2 DEF Place
    <3>2. y \in Upto(y) /\ y \notin Upto(x)
      BY <1>2
    <3> QED
      BY <1>2, <3>1, <3>2
  <2>2. IsFiniteSet(Upto(y))
    <3>1. IsFiniteSet(1..y) /\ Upto(y) \in SUBSET (1..y)
      BY <1>2, FS_Interval
    <3> QED
      BY <3>1, FS_Subset
  <2>3. Cardinality(Upto(y)) # Cardinality(Upto(x))
    BY <2>1, <2>2, FS_Subset
  <2> QED
    BY <1>2, <2>3 DEF Place, VarId
<1> QED
  BY <1>1, <1>2

LEMMA VarIdType ==
  ASSUME IsolatedCases, cs \in Cases, NEW v \in Var
  PROVE  VarId(v) \in Nat
<1> DEFINE Upto == {u \in 1..v : cs.vars[u].grp = cs.vars[v].grp}
<1>1. v \in Nat
  BY DEF IsolatedCases, CaseType, Var
<1>2. IsFiniteSet(1..v) /\ Upto \in SUBSET (1..v)
  BY <1>1, FS_Interval
<1> QED
  BY <1>2, FS_Subset, FS_CardinalityType DEF VarId

\* The loop begins in the invariant.
LEMMA OmpInitInv ==
  ASSUME IsolatedCases, OmpInit
  PROVE  OmpInv
<1>1. OmpTypeOK
  BY DEF OmpInit, OmpTypeOK, Places, GrpNames, TypNames
<1>2. IterationInv /\ SlotInv /\ JoinInv
  BY DEF OmpInit, IterationInv, SlotInv, JoinInv, Busy, LookedUp, WeightRight, OnItsWay
<1>3. ResultInv
  BY DEF OmpInit, ResultInv, Pending, Places
<1> QED
  BY <1>1, <1>2, <1>3 DEF OmpInv

-----------------------------------------------------------------------------
\* What a step of a thread leaves alone.
LEMMA StepFrame ==
  ASSUME OmpTypeOK, NEW t \in Thread, Iterate(t)
  PROVE  /\ cs' = cs /\ ended = "no" /\ t \in Team
         /\ \A u \in Thread \ {t} : pc'[u] = pc[u] /\ idx'[u] = idx[u]
         /\ \A s \in ({0} \union Thread) \ {Slot(t)} :
              lkp'[s] = lkp[s] /\ wgt_scv'[s] = wgt_scv[s]
<1> USE DEF At, Goto, Look, OmpTypeOK
<1>1. CASE Begin(t)
  BY <1>1 DEF Begin
<1>2. CASE Skp(t)
  BY <1>2 DEF Skp
<1>3. CASE Tst(t)
  BY <1>3 DEF Tst
<1>4. CASE Trv(t)
  BY <1>4 DEF Trv
<1>5. CASE Fll(t)
  BY <1>5 DEF Fll
<1>6. CASE Grp(t)
  BY <1>6 DEF Grp
<1>7. CASE Vid(t)
  BY <1>7 DEF Vid
<1>8. CASE Sto(t)
  BY <1>8 DEF Sto
<1>9. CASE Wty(t)
  BY <1>9 DEF Wty
<1>10. CASE Wvl(t)
  BY <1>10 DEF Wvl
<1>11. CASE Cnf(t)
  BY <1>11 DEF Cnf
<1>12. CASE Acc(t)
  BY <1>12 DEF Acc
<1>13. CASE Put(t)
  BY <1>13 DEF Put
<1>14. CASE Wrt(t)
  BY <1>14 DEF Wrt
<1> QED
  BY <1>1, <1>2, <1>3, <1>4, <1>5, <1>6, <1>7, <1>8, <1>9, <1>10, <1>11, <1>12, <1>13, <1>14
    DEF Iterate

\* A step of a thread keeps what the others have found.
LEMMA OthersKeep ==
  ASSUME IsolatedCases, OmpInv, NEW t \in Thread, Iterate(t), NEW u \in Thread, u # t, Busy(u)
  PROVE  LookedUp(u)' /\ WeightRight(u)' /\ OnItsWay(u)'
<1>1. /\ t \in Team /\ cs' = cs /\ pc'[u] = pc[u] /\ idx'[u] = idx[u]
      /\ u \in Team /\ idx[u] \in Var
  BY StepFrame DEF OmpInv, IterationInv, OmpTypeOK
<1>2. Slot(u) # Slot(t) /\ Slot(u) \in {0} \union Thread
  BY <1>1, SlotsDistinct, SlotType DEF OmpInv, OmpTypeOK
<1>3. lkp'[Slot(u)] = lkp[Slot(u)] /\ wgt_scv'[Slot(u)] = wgt_scv[Slot(u)] /\ Slot(u)' = Slot(u)
  BY <1>1, <1>2, StepFrame DEF Slot, OmpInv
<1>4. id'[idx[u]] = id[idx[u]]
  <2>1. CASE Sto(t)
    BY <1>1, <2>1 DEF Sto, At, OmpInv, IterationInv, Busy, OmpTypeOK
  <2>2. CASE ~Sto(t)
    BY <2>2 DEF Iterate, Begin, Skp, Tst, Trv, Fll, Grp, Vid, Wty, Wvl, Cnf, Acc, Put, Wrt
  <2> QED
    BY <2>1, <2>2
<1>5. pc[u] = "wrt" => crt' = crt /\ pos' = pos
  <2>1. pc[u] = "wrt" => crt = {u}
    BY DEF OmpInv, SlotInv, LookedUp
  <2>2. pc[u] = "wrt" => ~Put(t) /\ ~Wrt(t)
    BY <2>1 DEF Put, Wrt, At, OmpInv, SlotInv, LookedUp
  <2> QED
    BY <2>2 DEF Iterate, Begin, Skp, Tst, Trv, Fll, Grp, Vid, Sto, Wty, Wvl, Cnf, Acc
<1>6. LookedUp(u) /\ WeightRight(u) /\ OnItsWay(u)
  BY DEF OmpInv, SlotInv
<1>7. Place(idx[u])' = Place(idx[u]) /\ VarId(idx[u])' = VarId(idx[u])
  BY <1>1 DEF Place, VarId
<1>8. LookedUp(u)'
  BY <1>1, <1>3, <1>4, <1>5, <1>6, <1>7 DEF LookedUp, Lkp
<1>9. WeightRight(u)' /\ OnItsWay(u)'
  BY <1>1, <1>3, <1>6 DEF WeightRight, OnItsWay, Wanted
<1> QED
  BY <1>8, <1>9

\* What stays because the case does.
LEMMA SameCase ==
  ASSUME cs' = cs
  PROVE  /\ Var' = Var /\ Places' = Places /\ GrpNames' = GrpNames /\ TypNames' = TypNames
         /\ Team' = Team /\ \A t : Slot(t)' = Slot(t)
         /\ \A v : Wanted(v)' = Wanted(v) /\ VarId(v)' = VarId(v) /\ Place(v)' = Place(v)
BY DEF Var, Places, Place, VarId, GrpNames, TypNames, Team, Slot, Wanted

\* A step of a thread keeps the types.
LEMMA TypeStep ==
  ASSUME IsolatedCases, OmpInv, NEW t \in Thread, Iterate(t)
  PROVE  OmpTypeOK'
<1>1. OmpTypeOK /\ cs' = cs /\ t \in Team
  BY StepFrame DEF OmpInv
<1>2. Slot(t) \in {0} \union Thread
  BY SlotType
<1>3. /\ Var' = Var /\ Places' = Places /\ GrpNames' = GrpNames /\ TypNames' = TypNames
  BY <1>1, SameCase
<1>4. Busy(t) => idx[t] \in Var
  BY DEF OmpInv, IterationInv
<1>5. Var \subseteq Nat /\ \A v \in Var : VarId(v) \in Nat /\ cs.vars[v].skp \in BOOLEAN
  BY <1>1, VarIdType DEF OmpTypeOK, IsolatedCases, CaseType, Var
<1>6. /\ \A v \in Var : cs.vars[v].grp \in GrpNames /\ cs.vars[v].typ \in TypNames
      /\ "double" \in TypNames /\ "garbage" \in TypNames
  BY DEF GrpNames, TypNames
<1>7. pc[t] \in {"fll", "grp", "vid"} => Lkp(t).var_trv \in Var
  BY <1>4 DEF OmpInv, SlotInv, LookedUp, Busy
<1>8. Lkp(t) \in [flg_skp1 : BOOLEAN, var_trv : Nat, grp_out_fll : GrpNames, grp_out_id : GrpNames,
                  var_out_id : Nat]
  BY <1>1, <1>2 DEF OmpTypeOK, Lkp
<1>9. wgt_scv[Slot(t)] \in [type : TypNames, val : TypNames]
  BY <1>1, <1>2 DEF OmpTypeOK
<1>10. lkp[Slot(t)] = Lkp(t)
  BY DEF Lkp
<1>11. pc[t] # "idle" => Busy(t)
  BY DEF Busy
<1> USE <1>1, <1>2, <1>3, <1>4, <1>5, <1>6, <1>7, <1>8, <1>9, <1>10, <1>11
    DEF OmpTypeOK, At, Goto, Look
<1>12. CASE Begin(t)
  BY <1>12 DEF Begin
<1>13. CASE Skp(t)
  BY <1>13 DEF Skp
<1>14. CASE Tst(t)
  BY <1>14 DEF Tst
<1>15. CASE Trv(t)
  BY <1>15 DEF Trv
<1>16. CASE Fll(t)
  BY <1>16 DEF Fll
<1>17. CASE Grp(t)
  BY <1>17 DEF Grp
<1>18. CASE Vid(t)
  <2>1. VarId(Lkp(t).var_trv) \in Nat
    BY <1>18 DEF Vid
  <2>2. CASE Look(t, "var_out_id", VarId(Lkp(t).var_trv)) /\ Goto(t, "sto") /\ ended' = ended
    BY <1>18, <2>1, <2>2 DEF Vid
  <2>3. CASE UNCHANGED <<pc, lkp>> /\ ended' = "exit"
    BY <1>18, <2>3 DEF Vid
  <2> QED
    BY <1>18, <2>2, <2>3 DEF Vid
<1>19. CASE Sto(t)
  BY <1>19 DEF Sto
<1>20. CASE Wty(t)
  BY <1>20 DEF Wty
<1>21. CASE Wvl(t)
  BY <1>21 DEF Wvl
<1>22. CASE Cnf(t)
  BY <1>22 DEF Cnf
<1>23. CASE Acc(t)
  BY <1>23 DEF Acc
<1>24. CASE Put(t)
  BY <1>24 DEF Put
<1>25. CASE Wrt(t)
  BY <1>25 DEF Wrt
<1> QED
  BY <1>12, <1>13, <1>14, <1>15, <1>16, <1>17, <1>18, <1>19, <1>20, <1>21, <1>22,
     <1>23, <1>24, <1>25
    DEF Iterate

\* Iterations stay with one thread.
LEMMA IterationStep ==
  ASSUME OmpInv, NEW t \in Thread, Iterate(t)
  PROVE  IterationInv'
<1>1. /\ Var' = Var /\ Team' = Team /\ t \in Team /\ OmpTypeOK /\ IterationInv
      /\ \A u \in Thread \ {t} : pc'[u] = pc[u] /\ idx'[u] = idx[u]
  BY StepFrame, SameCase DEF OmpInv
<1>2. CASE Begin(t)
  BY <1>1, <1>2 DEF Begin, At, Goto, IterationInv, Busy, OmpTypeOK
<1>3. CASE ~Begin(t)
  <2>1. idx' = idx /\ todo' = todo /\ pc[t] # "idle"
    BY <1>3 DEF Iterate, Skp, Tst, Trv, Fll, Grp, Vid, Sto, Wty, Wvl, Cnf, Acc, Put, Wrt, At
  <2> QED
    BY <1>1, <2>1 DEF IterationInv, Busy
<1> QED
  BY <1>2, <1>3

\* A thread finds in its slot what it looked up.
LEMMA OwnStep ==
  ASSUME IsolatedCases, OmpInv, NEW t \in Thread, Iterate(t)
  PROVE  LookedUp(t)' /\ WeightRight(t)' /\ OnItsWay(t)' /\ ended' = "no"
<1>1. OmpTypeOK /\ cs' = cs /\ t \in Team /\ ended = "no"
  BY StepFrame DEF OmpInv
<1>2. Slot(t) \in {0} \union Thread /\ Slot(t)' = Slot(t)
  BY <1>1, SlotType, SameCase
<1>3. LookedUp(t) /\ WeightRight(t) /\ OnItsWay(t)
  BY DEF OmpInv, SlotInv
<1>4. pc[t] # "idle" => idx[t] \in Var
  BY DEF OmpInv, IterationInv, Busy
<1>5. Lkp(t) = lkp[Slot(t)] /\ Lkp(t)' = lkp'[Slot(t)]
  BY <1>2 DEF Lkp
<1>6. lkp[Slot(t)] \in [flg_skp1 : BOOLEAN, var_trv : Nat, grp_out_fll : GrpNames,
                        grp_out_id : GrpNames, var_out_id : Nat]
  BY <1>1, <1>2 DEF OmpTypeOK
<1>7. wgt_scv[Slot(t)] \in [type : TypNames, val : TypNames]
  BY <1>1, <1>2 DEF OmpTypeOK
<1>8. idx'[t] = idx[t] => VarId(idx[t])' = VarId(idx[t]) /\ Place(idx[t])' = Place(idx[t])
  BY <1>1 DEF VarId, Place
<1> USE <1>1, <1>2, <1>3, <1>4, <1>5, <1>6, <1>7, <1>8
    DEF At, Goto, Look, OmpTypeOK, LookedUp, WeightRight, OnItsWay, Wanted
<1>9. CASE Begin(t)
  BY <1>9 DEF Begin
<1>10. CASE Skp(t)
  BY <1>10 DEF Skp
<1>11. CASE Tst(t)
  BY <1>11 DEF Tst
<1>12. CASE Trv(t)
  BY <1>12 DEF Trv
<1>13. CASE Fll(t)
  BY <1>13 DEF Fll
<1>14. CASE Grp(t)
  BY <1>14 DEF Grp
<1>15. CASE Vid(t)
  BY <1>15 DEF Vid
<1>16. CASE Sto(t)
  BY <1>16 DEF Sto
<1>17. CASE Wty(t)
  BY <1>17 DEF Wty
<1>18. CASE Wvl(t)
  BY <1>18 DEF Wvl
<1>19. CASE Cnf(t)
  BY <1>19 DEF Cnf
<1>20. CASE Acc(t)
  BY <1>20 DEF Acc
<1>21. CASE Put(t)
  <2>1. Place(idx[t]) = <<cs.vars[idx[t]].grp, VarId(idx[t])>>
    BY DEF Place
  <2> QED
    BY <1>21, <2>1 DEF Put
<1>22. CASE Wrt(t)
  <2>1. pos \in Places
    BY <1>22 DEF Wrt, Places
  <2> QED
    BY <1>22, <2>1 DEF Wrt
<1> QED
  BY <1>9, <1>10, <1>11, <1>12, <1>13, <1>14, <1>15, <1>16, <1>17, <1>18, <1>19, <1>20, <1>21, <1>22
    DEF Iterate

\* A variable stays pending until its own iteration ends.
LEMMA PendingStays ==
  ASSUME OmpInv, NEW t \in Thread, Iterate(t), pc'[t] # "idle", NEW v \in Var
  PROVE  Pending(v)' <=> Pending(v)
<1>1. OmpTypeOK /\ \A u \in Thread \ {t} : pc'[u] = pc[u] /\ idx'[u] = idx[u]
  BY StepFrame DEF OmpInv
<1>2. CASE Begin(t)
  BY <1>1, <1>2 DEF Begin, At, Pending, Busy, OmpTypeOK
<1>3. CASE ~Begin(t)
  <2>1. idx' = idx /\ todo' = todo /\ pc[t] # "idle"
    BY <1>3 DEF Iterate, Skp, Tst, Trv, Fll, Grp, Vid, Sto, Wty, Wvl, Cnf, Acc, Put, Wrt, At
  <2> QED
    BY <1>1, <2>1 DEF Pending, Busy
<1> QED
  BY <1>2, <1>3

LEMMA PendingEnds ==
  ASSUME OmpInv, NEW t \in Thread, Iterate(t), ~Begin(t), pc'[t] = "idle", NEW v \in Var
  PROVE  Pending(v)' <=> Pending(v) /\ v # idx[t]
<1>1. \A u \in Thread \ {t} : pc'[u] = pc[u] /\ idx'[u] = idx[u]
  BY StepFrame DEF OmpInv
<1>2. idx' = idx /\ todo' = todo /\ pc[t] # "idle"
  BY DEF Iterate, Skp, Tst, Trv, Fll, Grp, Vid, Sto, Wty, Wvl, Cnf, Acc, Put, Wrt, At
<1>3. idx[t] \notin todo /\ \A u \in Thread \ {t} : pc[u] # "idle" => idx[u] # idx[t]
  BY <1>2 DEF OmpInv, IterationInv, Busy
<1> QED
  BY <1>1, <1>2, <1>3 DEF Pending, Busy

\* A step that leaves the results alone and ends no wanted iteration.
LEMMA ResultKept ==
  ASSUME OmpInv, cs' = cs, acc' = acc, out' = out,
         \A v \in Var : Wanted(v) => (Pending(v)' <=> Pending(v))
  PROVE  ResultInv'
BY SameCase DEF OmpInv, ResultInv

\* A result changes when an iteration ends, to what it is to be.
LEMMA ResultStep ==
  ASSUME IsolatedCases, OmpInv, NEW t \in Thread, Iterate(t)
  PROVE  ResultInv'
<1>1. OmpTypeOK /\ cs' = cs /\ ResultInv /\ LookedUp(t) /\ WeightRight(t) /\ OnItsWay(t)
  BY StepFrame DEF OmpInv, SlotInv
<1>2. CASE Acc(t)
  <2>1. idx[t] \in Var /\ pc'[t] = "idle" /\ cs.prg = "ncra" /\ Wanted(idx[t])
    BY <1>1, <1>2 DEF Acc, At, Goto, OmpInv, IterationInv, Busy, OnItsWay, OmpTypeOK
  <2>2. acc' = [acc EXCEPT ![idx[t]] = "done"] /\ out' = out
    BY <1>1, <1>2 DEF Acc, At, WeightRight
  <2>3. ~Begin(t)
    BY <1>2 DEF Acc, Begin, At
  <2>4. \A v \in Var : Pending(v)' <=> Pending(v) /\ v # idx[t]
    BY <2>1, <2>3, PendingEnds
  <2>5. \A v \in Var : acc'[v] = IF v = idx[t] THEN "done" ELSE acc[v]
    BY <1>1, <2>1, <2>2 DEF OmpTypeOK
  <2> QED
    BY <1>1, <2>1, <2>2, <2>4, <2>5, SameCase DEF ResultInv
<1>3. CASE Wrt(t)
  <2>1. idx[t] \in Var /\ cs.prg # "ncra" /\ Wanted(idx[t]) /\ pos = Place(idx[t])
    BY <1>1, <1>3 DEF Wrt, At, OmpInv, IterationInv, Busy, OnItsWay, LookedUp
  <2>2. pos \in Places
    BY <2>1 DEF Places
  <2>3. pc'[t] = "idle" /\ ~Begin(t) /\ acc' = acc /\ out' = [out EXCEPT ![pos] = idx[t]]
    BY <1>1, <1>3, <2>2 DEF Wrt, Begin, At, Goto, OmpTypeOK
  <2>4. \A v \in Var : Pending(v)' <=> Pending(v) /\ v # idx[t]
    BY <2>3, PendingEnds
  <2>5. \A v \in Var : out'[Place(v)] = IF v = idx[t] THEN v ELSE out[Place(v)]
    <3> SUFFICES ASSUME NEW v \in Var
                 PROVE  out'[Place(v)] = IF v = idx[t] THEN v ELSE out[Place(v)]
      OBVIOUS
    <3>1. Place(v) \in Places
      BY DEF Places
    <3>2. Place(v) = Place(idx[t]) <=> v = idx[t]
      BY <1>1, <2>1, PlaceInjective DEF OmpTypeOK
    <3> QED
      BY <1>1, <2>1, <2>2, <2>3, <3>1, <3>2 DEF OmpTypeOK
  <2> QED
    BY <1>1, <2>1, <2>3, <2>4, <2>5, SameCase DEF ResultInv
<1>4. CASE ~Acc(t) /\ ~Wrt(t)
  <2>1. acc' = acc /\ out' = out
    BY <1>4 DEF Iterate, Begin, Skp, Tst, Trv, Fll, Grp, Vid, Sto, Wty, Wvl, Cnf, Put
  <2>2. CASE pc'[t] # "idle"
    BY <1>1, <2>1, <2>2, PendingStays, ResultKept
  <2>3. CASE pc'[t] = "idle"
    <3>1. Tst(t) /\ ~Begin(t) /\ Lkp(t).flg_skp1
      BY <1>1, <1>4, <2>3
    DEF Iterate, Begin, Skp, Tst, Trv, Fll, Grp, Vid, Sto, Wty, Wvl, Cnf, Put, At, Goto,
        OmpTypeOK
    <3>2. ~Wanted(idx[t])
      BY <1>1, <3>1 DEF Tst, At, LookedUp, OnItsWay, Wanted
    <3>3. \A v \in Var : Pending(v)' <=> Pending(v) /\ v # idx[t]
      BY <2>3, <3>1, PendingEnds
    <3> QED
      BY <1>1, <2>1, <3>2, <3>3, ResultKept
  <2> QED
    BY <2>2, <2>3
<1> QED
  BY <1>2, <1>3, <1>4

-----------------------------------------------------------------------------
\* A step of a thread keeps the invariant.
LEMMA IterateStep ==
  ASSUME IsolatedCases, OmpInv, NEW t \in Thread, Iterate(t)
  PROVE  OmpInv'
<1>1. ASSUME NEW u \in Thread
      PROVE  LookedUp(u)' /\ WeightRight(u)' /\ OnItsWay(u)'
  <2>1. CASE u = t
    BY <2>1, OwnStep
  <2>2. CASE u # t /\ Busy(u)
    BY <2>2, OthersKeep
  <2>3. CASE u # t /\ ~Busy(u)
    <3>1. pc'[u] = "idle"
      BY <2>3, StepFrame DEF Busy, OmpInv
    <3> QED
      BY <3>1 DEF LookedUp, WeightRight, OnItsWay
  <2> QED
    BY <2>1, <2>2, <2>3
<1>2. SlotInv'
  BY <1>1 DEF SlotInv, Thread
<1>3. JoinInv'
  BY OwnStep DEF JoinInv
<1> QED
  BY <1>2, <1>3, TypeStep, IterationStep, ResultStep DEF OmpInv

\* The end of the loop keeps it: every thread is idle.
LEMMA JoinStep ==
  ASSUME OmpInv, Join
  PROVE  OmpInv'
<1>1. cs' = cs /\ UNCHANGED <<todo, pc, idx, lkp, wgt_scv, id, acc, crt, pos, out>>
  BY DEF Join
<1>2. OmpTypeOK'
  BY <1>1, SameCase DEF OmpInv, OmpTypeOK, Join
<1>3. \A t \in Thread : ~Busy(t)
  BY DEF Join, Busy, OmpInv, IterationInv
<1>4. IterationInv' /\ JoinInv'
  BY <1>1, <1>3 DEF Join, IterationInv, JoinInv, Busy
<1>5. SlotInv'
  BY <1>1, <1>3 DEF SlotInv, LookedUp, WeightRight, OnItsWay, Busy
<1>6. ResultInv'
  <2>1. \A v \in Var : Pending(v)' <=> Pending(v)
    BY <1>1 DEF Pending, Busy
  <2> QED
    BY <1>1, <2>1, ResultKept
<1> QED
  BY <1>2, <1>4, <1>5, <1>6 DEF OmpInv

LEMMA StutterStep ==
  ASSUME OmpInv, UNCHANGED vars
  PROVE  OmpInv'
<1>1. cs' = cs /\ UNCHANGED <<todo, pc, idx, lkp, wgt_scv, id, acc, crt, pos, out, ended>>
  BY DEF vars
<1>2. OmpTypeOK' /\ IterationInv' /\ JoinInv'
  BY <1>1, SameCase DEF OmpInv, OmpTypeOK, IterationInv, JoinInv, Busy
<1>3. ResultInv'
  <2>1. \A v \in Var : Pending(v)' <=> Pending(v)
    BY <1>1 DEF Pending, Busy
  <2> QED
    BY <1>1, <2>1, ResultKept
<1>4. SlotInv'
  BY <1>1 DEF OmpInv, SlotInv, LookedUp, WeightRight, OnItsWay, Lkp, Slot, Wanted, Place, VarId
<1> QED
  BY <1>2, <1>3, <1>4 DEF OmpInv

\* The options that keep threads apart: the automatic number of threads of
\* the three operators (thr_nbr_max_fsh), and any request made of ncrcat or
\* ncpdq where netCDF4 is built in.
THEOREM OptionsIsolate ==
  ASSUME NEW c, c.prg \in {"ncra", "ncrcat", "ncpdq"},
         c.thr_nbr = 0 \/ (c.netcdf4 /\ c.prg # "ncra")
  PROVE  Isolated(c)
<1>1. CASE c.thr_nbr = 0
  <2>1. MinOf(thr_nbr_max, thr_nbr_max_fsh(c.prg)) = 1
    BY ThrNbrMaxAssumption DEF MinOf, thr_nbr_max_fsh
  <2> QED
    BY <1>1, <2>1 DEF Isolated, ThrNbr
<1>2. CASE c.netcdf4 /\ c.prg # "ncra"
  BY <1>2 DEF Isolated, ThrNbr
<1> QED
  BY <1>1, <1>2

\* Where every thread has identifiers of its own, or there is one thread,
\* the invariant holds in every state of the loop over variables.
THEOREM OmpInvariant ==
  ASSUME IsolatedCases
  PROVE  OmpSpec => []OmpInv
<1>1. OmpInit => OmpInv
  BY OmpInitInv
<1>2. OmpInv /\ [OmpNext]_vars => OmpInv'
  BY IterateStep, JoinStep, StutterStep DEF OmpNext
<1> QED
  BY <1>1, <1>2, PTL DEF OmpSpec

\* There, whatever the order in which the threads of main() of ncra.c or
\* ncpdq.c take the variables and their steps, the loop ends without an
\* error and leaves what one thread leaves: every variable accumulated with
\* its weight or written at its own place.
THEOREM ThreadsAgree ==
  ASSUME IsolatedCases
  PROVE  OmpSpec => []SameAsSerial
<1>1. ASSUME OmpInv, ended # "no"
      PROVE  ended = "loop" /\ Serial
  <2>1. ended = "loop" /\ \A v \in Var : ~Pending(v)
    BY <1>1 DEF OmpInv, OmpTypeOK, JoinInv, Pending
  <2> QED
    BY <1>1, <2>1 DEF OmpInv, ResultInv, Serial
<1>2. OmpInv => SameAsSerial
  BY <1>1 DEF SameAsSerial
<1> QED
  BY <1>2, OmpInvariant, PTL
=============================================================================
