------------------------------ MODULE MpProofs ------------------------------
(***************************************************************************)
(* Proofs about MpWorkers for any number of workers and variables: types,  *)
(* the counting argument behind the manager's loop, and the refinement of  *)
(* the work pool.                                                          *)
(***************************************************************************)
EXTENDS MpCounting, FiniteSetTheorems, TLAPS

-----------------------------------------------------------------------------
(* Types.                                                                  *)

LEMMA TypeInit == Init => TypeOK
<1> SUFFICES ASSUME Init PROVE TypeOK
  OBVIOUS
<1>1. wrt \in [Var -> Nat] /\ idx \in 0..nbr_var_prc /\ var_wrt_nbr \in Int
  BY NbrVarAssumption DEF Init
<1> QED
  BY <1>1 DEF Init, TypeOK

LEMMA AssType ==
  ASSUME NEW i \in 0..nbr_var_prc
  PROVE  /\ Ass(i) \in Var \union {idx_all_wrk_ass}
         /\ NextVar(i) \in 0..nbr_var_prc
BY NbrVarAssumption DEF Ass, NextVar, Var

LEMMA CntStartType == CntStart \in Int /\ Cardinality(Worker) \in Nat
BY WorkerAssumption, FS_CardinalityType DEF CntStart

LEMMA MgrType ==
  ASSUME TypeOK, Mgr
  PROVE  TypeOK'
<1>1. CASE MgrCreate
  BY <1>1 DEF MgrCreate, TypeOK, mgr_vars, wrk_vars
<1>2. CASE MgrCopy
  BY <1>2, CntStartType, NbrVarAssumption DEF MgrCopy, TypeOK, wrk_vars
<1>3. CASE MgrMove
  BY <1>3 DEF MgrMove, TypeOK, mgr_vars, wrk_vars
<1> QED
  BY <1>1, <1>2, <1>3 DEF Mgr

LEMMA ServeType ==
  ASSUME TypeOK, NEW w \in Worker, Serve(w)
  PROVE  TypeOK'
<1>1. CASE MgrWrkRqs(w)
  <2>1. WrkRsp(Ass(idx)) \in {WrkRsp(i) : i \in Var \union {idx_all_wrk_ass}}
        /\ NextVar(idx) \in 0..nbr_var_prc
    BY AssType DEF TypeOK
  <2> QED
    BY <1>1, <2>1 DEF MgrWrkRqs, TypeOK, TknFreed, wrk_vars, fl_vars
<1>2. CASE MgrTknRqs(w)
  BY <1>2 DEF MgrTknRqs, TypeOK, wrk_vars, fl_vars
<1> QED
  BY <1>1, <1>2 DEF Serve

LEMMA WrkType ==
  ASSUME TypeOK, NEW w \in Worker, Wrk(w)
  PROVE  TypeOK'
<1>1. CASE WrkBcast(w)
  BY <1>1 DEF WrkBcast, TypeOK, mgr_vars, fl_vars
<1>2. CASE WrkRqs(w)
  BY <1>2 DEF WrkRqs, TypeOK, mgr_vars, fl_vars
<1>3. CASE WrkAss(w)
  <2>1. rsp[w].val \in Var \union {idx_all_wrk_ass}
    BY <1>3 DEF WrkAss, TypeOK, NoMsg, WrkRsp, TknRsp
  <2> QED
    BY <1>3, <2>1 DEF WrkAss, TypeOK, mgr_vars, fl_vars
<1>4. CASE WrkTknRqs(w)
  BY <1>4 DEF WrkTknRqs, TypeOK, mgr_vars, fl_vars
<1>5. CASE WrkDenied(w)
  BY <1>5 DEF WrkDenied, TypeOK, mgr_vars, fl_vars
<1>6. CASE WrkOpen(w)
  BY <1>6 DEF WrkOpen, TypeOK, mgr_vars
<1>7. CASE WrkWrite(w)
  <2>1. wrt' \in [Var -> Nat]
    <3>1. wrt \in [Var -> Nat] /\ wrt' = [v \in Var |-> IF v = cur[w] THEN wrt[v] + 1 ELSE wrt[v]]
      BY <1>7 DEF WrkWrite, TypeOK
    <3> QED
      BY <3>1
  <2>2. opn' \subseteq Worker \union {rnk_mgr} /\ UNCHANGED <<mgr, mgr_vars, rqs, rsp, cur, fl>>
    BY <1>7 DEF WrkWrite, TypeOK
  <2>3. wrk' = [wrk EXCEPT ![w] = "rqs"]
    BY <1>7 DEF WrkWrite
  <2> QED
    BY <2>1, <2>2, <2>3 DEF TypeOK, mgr_vars
<1> QED
  BY <1>1, <1>2, <1>3, <1>4, <1>5, <1>6, <1>7 DEF Wrk

LEMMA TypeStep == TypeOK /\ [Next]_vars => TypeOK'
<1> SUFFICES ASSUME TypeOK, [Next]_vars PROVE TypeOK'
  OBVIOUS
<1>1. CASE Mgr
  BY <1>1, MgrType
<1>2. CASE \E w \in Worker : Serve(w) \/ Wrk(w)
  BY <1>2, ServeType, WrkType
<1>3. CASE UNCHANGED vars
  BY <1>3 DEF TypeOK, vars, mgr_vars, wrk_vars, fl_vars
<1> QED
  BY <1>1, <1>2, <1>3 DEF Next

\* Every variable of the protocol keeps its type.
THEOREM MpTypeCorrect == Spec => []TypeOK
BY TypeInit, TypeStep, PTL DEF Spec

-----------------------------------------------------------------------------
(* The state of the workers.                                               *)

LEMMA InvInit == Init => MpInv
<1> SUFFICES ASSUME Init PROVE MpInv
  OBVIOUS
<1>1. \A w \in Worker : Held(w) = NoVar
  BY DEF Init, Held, NoMsg
<1>2. \A w \in Worker : WorkerInv(w)
  BY <1>1 DEF Init, WorkerInv, NoMsg, NoVar, Var, idx_all_wrk_ass
<1>3. AssignInv
  BY <1>1, NbrVarAssumption DEF Init, AssignInv, Acknowledged, NoVar, Var
<1>4. CountInv
  BY DEF Init, CountInv
<1> QED
  BY <1>2, <1>3, <1>4 DEF MpInv

\* Only the manager's answer to a request for work changes what is held.
LEMMA HeldKept ==
  ASSUME TypeOK, MpInv, NEW w \in Worker, Wrk(w) \/ MgrTknRqs(w)
  PROVE  \A u \in Worker : Held(u)' = Held(u)
<1> USE DEF MpInv, WorkerInv, Held, NoMsg, WrkRsp, TknRsp
<1>1. CASE WrkBcast(w)
  BY <1>1 DEF WrkBcast
<1>2. CASE WrkRqs(w)
  BY <1>2 DEF WrkRqs
<1>3. CASE WrkAss(w)
  BY <1>3 DEF WrkAss, TypeOK
<1>4. CASE WrkTknRqs(w)
  BY <1>4 DEF WrkTknRqs
<1>5. CASE WrkDenied(w)
  BY <1>5 DEF WrkDenied, TypeOK
<1>6. CASE WrkOpen(w)
  BY <1>6 DEF WrkOpen, TypeOK
<1>7. CASE WrkWrite(w)
  BY <1>7 DEF WrkWrite
<1>8. CASE MgrTknRqs(w)
  BY <1>8 DEF MgrTknRqs, TypeOK, wrk_vars
<1> QED
  BY <1>1, <1>2, <1>3, <1>4, <1>5, <1>6, <1>7, <1>8 DEF Wrk

\* Which workers have closed the file changes with these steps only when a
\* variable is written.
LEMMA ClosedKept ==
  ASSUME TypeOK, MpInv, NEW w \in Worker, Wrk(w) \/ MgrTknRqs(w), ~WrkWrite(w)
  PROVE  \A u \in Worker : Closed(u)' = Closed(u)
<1> USE DEF MpInv, WorkerInv, Closed, NoMsg, WrkRsp, TknRsp
<1>1. CASE WrkBcast(w)
  BY <1>1 DEF WrkBcast, TypeOK
<1>2. CASE WrkRqs(w)
  BY <1>2 DEF WrkRqs, TypeOK
<1>3. CASE WrkAss(w)
  BY <1>3 DEF WrkAss, TypeOK
<1>4. CASE WrkTknRqs(w)
  BY <1>4 DEF WrkTknRqs, TypeOK
<1>5. CASE WrkDenied(w)
  BY <1>5 DEF WrkDenied, TypeOK
<1>6. CASE WrkOpen(w)
  BY <1>6 DEF WrkOpen, TypeOK
<1>8. CASE MgrTknRqs(w)
  BY <1>8 DEF MgrTknRqs, TypeOK, wrk_vars
<1> QED
  BY <1>1, <1>2, <1>3, <1>4, <1>5, <1>6, <1>8 DEF Wrk

\* The answer to a request for work replaces what the worker held.
LEMMA HeldNext ==
  ASSUME TypeOK, MpInv, NEW w \in Worker, MgrWrkRqs(w)
  PROVE  /\ Held(w)' = Ass(idx) /\ Closed(w) /\ ~Closed(w)'
         /\ Held(w) \in Var \union {NoVar} /\ mgr = "serve"
         /\ \A u \in Worker \ {w} : Held(u)' = Held(u) /\ Closed(u)' = Closed(u)
<1>1. rqs[w] = "wrk_rqs" /\ wrk[w] = "rsp" /\ rsp[w] = NoMsg
  BY DEF MgrWrkRqs, MpInv, WorkerInv
<1>2. rqs' = [rqs EXCEPT ![w] = "none"] /\ rsp' = [rsp EXCEPT ![w] = WrkRsp(Ass(idx))]
      /\ wrk' = wrk /\ cur' = cur /\ mgr = "serve"
  BY DEF MgrWrkRqs, wrk_vars, Serving
<1>3. Held(w) \in Var \union {NoVar}
  BY <1>1 DEF MpInv, WorkerInv, Held, NoMsg, TypeOK
<1> QED
  BY <1>1, <1>2, <1>3 DEF Held, Closed, WrkRsp, TypeOK

-----------------------------------------------------------------------------
(* WorkerInv.                                                              *)

LEMMA WorkerInvWrk ==
  ASSUME TypeOK, MpInv, NEW w \in Worker, Wrk(w) \/ MgrTknRqs(w), NEW u \in Worker
  PROVE  WorkerInv(u)'
<1>1. WorkerInv(w) /\ WorkerInv(u) /\ Held(u)' = Held(u) /\ Held(w)' = Held(w)
  BY HeldKept DEF MpInv
<1> USE DEF WorkerInv, NoMsg, WrkRsp, TknRsp, TypeOK
<1>2. CASE WrkBcast(w)
  BY <1>1, <1>2 DEF WrkBcast, mgr_vars, fl_vars
<1>3. CASE WrkRqs(w)
  BY <1>1, <1>3 DEF WrkRqs, mgr_vars, fl_vars
<1>4. CASE WrkAss(w)
  BY <1>1, <1>4 DEF WrkAss, mgr_vars, fl_vars, Held
<1>5. CASE WrkTknRqs(w)
  BY <1>1, <1>5 DEF WrkTknRqs, mgr_vars, fl_vars
<1>6. CASE WrkDenied(w)
  BY <1>1, <1>6 DEF WrkDenied, mgr_vars, fl_vars
<1>7. CASE WrkOpen(w)
  BY <1>1, <1>7 DEF WrkOpen, mgr_vars
<1>8. CASE WrkWrite(w)
  BY <1>1, <1>8 DEF WrkWrite, mgr_vars
<1>9. CASE MgrTknRqs(w)
  BY <1>1, <1>9 DEF MgrTknRqs, wrk_vars, fl_vars, Serving
<1> QED
  BY <1>2, <1>3, <1>4, <1>5, <1>6, <1>7, <1>8, <1>9 DEF Wrk

LEMMA WorkerInvWrkRqs ==
  ASSUME TypeOK, MpInv, NEW w \in Worker, MgrWrkRqs(w), NEW u \in Worker
  PROVE  WorkerInv(u)'
<1>1. Ass(idx) \in Var \union {idx_all_wrk_ass} /\ (Ass(idx) \in Var => Ass(idx) < NextVar(idx))
      /\ idx <= NextVar(idx)
  BY NbrVarAssumption DEF Ass, NextVar, Var, TypeOK, idx_all_wrk_ass
<1>2. WorkerInv(w) /\ WorkerInv(u)
  BY DEF MpInv
<1>3. /\ rqs[w] = "wrk_rqs" /\ rqs' = [rqs EXCEPT ![w] = "none"]
      /\ rsp' = [rsp EXCEPT ![w] = WrkRsp(Ass(idx))]
      /\ UNCHANGED <<mgr, wrk, cur, opn>> /\ mgr = "serve" /\ idx' = NextVar(idx)
  BY DEF MgrWrkRqs, wrk_vars, fl_vars, Serving
<1>4. CASE u = w
  <2>1. Held(w)' = Ass(idx) /\ wrk[w] = "rsp"
    BY <1>2, <1>3, HeldNext DEF WorkerInv
  <2> QED
    BY <1>1, <1>2, <1>3, <1>4, <2>1 DEF WorkerInv, TypeOK, WrkRsp, NoMsg
<1>5. CASE u # w
  <2>1. Held(u)' = Held(u) /\ rqs'[u] = rqs[u] /\ rsp'[u] = rsp[u]
    BY <1>3, <1>5, HeldNext DEF TypeOK
  <2>2. Held(u) \in Var => Held(u) < NextVar(idx)
    BY <1>1, <1>2, NbrVarAssumption DEF WorkerInv, TypeOK, Var, NextVar
  <2> QED
    BY <1>2, <1>3, <2>1, <2>2 DEF WorkerInv
<1> QED
  BY <1>4, <1>5

LEMMA WorkerInvMgr ==
  ASSUME TypeOK, MpInv, Mgr, NEW u \in Worker
  PROVE  WorkerInv(u)' /\ Held(u)' = Held(u) /\ Closed(u)' = Closed(u)
<1>1. WorkerInv(u) /\ rnk_mgr # u
  BY WorkerAssumption DEF MpInv
<1>2. CASE MgrCreate
  BY <1>1, <1>2 DEF MgrCreate, WorkerInv, Held, Closed, mgr_vars, wrk_vars
<1>3. CASE MgrCopy
  <2>1. Held(u) = NoVar
    BY <1>1, <1>3 DEF MgrCopy, WorkerInv, Held, NoMsg
  <2> QED
    BY <1>1, <1>3, <2>1 DEF MgrCopy, WorkerInv, Held, Closed, wrk_vars, NoVar, Var
<1>4. CASE MgrMove
  BY <1>1, <1>4 DEF MgrMove, WorkerInv, Held, Closed, mgr_vars, wrk_vars
<1> QED
  BY <1>2, <1>3, <1>4 DEF Mgr

-----------------------------------------------------------------------------
(* AssignInv.                                                              *)

\* What is acknowledged does not change while nothing else is held and
\* nothing is assigned.
LEMMA AckKept ==
  ASSUME \A u \in Worker : Held(u)' = Held(u), idx' = idx
  PROVE  Acknowledged' = Acknowledged /\ Started' = Started
BY DEF Acknowledged, Started

LEMMA AssignKept ==
  ASSUME AssignInv, \A u \in Worker : Held(u)' = Held(u),
         \A u \in Worker : Closed(u)' = Closed(u), idx' = idx, wrt' = wrt
  PROVE  AssignInv'
BY AckKept DEF AssignInv

LEMMA AssignWrite ==
  ASSUME TypeOK, MpInv, NEW w \in Worker, WrkWrite(w)
  PROVE  AssignInv'
<1>1. wrk[w] = "write" /\ cur[w] \in Var /\ Held(w) = cur[w] /\ rqs[w] # "wrk_rqs"
  BY DEF WrkWrite, MpInv, WorkerInv, Held
<1>2. ~Closed(w) /\ Closed(w)'
  BY <1>1 DEF WrkWrite, Closed, TypeOK
<1>3. \A u \in Worker : Held(u)' = Held(u)
  BY HeldKept DEF Wrk
<1>4. \A u \in Worker \ {w} : Closed(u)' = Closed(u)
  BY DEF WrkWrite, Closed, TypeOK
<1>5. Acknowledged' = Acknowledged
  BY <1>3, AckKept DEF WrkWrite, mgr_vars
<1>6. cur[w] \notin Acknowledged
  BY <1>1 DEF Acknowledged
<1>7. \A u \in Worker : Held(u) = cur[w] => u = w
  BY <1>1 DEF MpInv, AssignInv
<1>8. wrt[cur[w]] = 0
  BY <1>1, <1>2, <1>6, <1>7 DEF MpInv, AssignInv
<1>9. wrt' = [v \in Var |-> IF v = cur[w] THEN 1 ELSE wrt[v]]
  <2>1. wrt \in [Var -> Nat]
    BY DEF TypeOK
  <2>2. wrt' = [wrt EXCEPT ![cur[w]] = wrt[cur[w]] + 1]
    BY DEF WrkWrite
  <2>3. wrt[cur[w]] + 1 = 1
    BY <1>8
  <2> QED
    BY <2>1, <2>2, <2>3
<1>10. ASSUME NEW v \in Var
       PROVE  wrt'[v] = IF v \in Acknowledged' \/ \E u \in Worker : Held(u)' = v /\ Closed(u)'
                        THEN 1 ELSE 0
  <2>1. CASE v = cur[w]
    BY <1>1, <1>2, <1>3, <1>9, <2>1
  <2>2. CASE v # cur[w]
    <3>1. (\E u \in Worker : Held(u)' = v /\ Closed(u)')
            <=> \E u \in Worker : Held(u) = v /\ Closed(u)
      BY <1>1, <1>3, <1>4, <2>2
    <3> QED
      BY <1>5, <1>9, <2>2, <3>1 DEF MpInv, AssignInv
  <2> QED
    BY <2>1, <2>2
<1> QED
  BY <1>3, <1>10 DEF MpInv, AssignInv

LEMMA AckElement ==
  ASSUME NEW x \in 0..(idx - 1), \A u \in Worker : Held(u) # x
  PROVE  x \in Acknowledged
BY DEF Acknowledged

\* A request for work acknowledges the variable the worker held.
LEMMA AckNext ==
  ASSUME TypeOK, MpInv, NEW w \in Worker, MgrWrkRqs(w)
  PROVE  /\ Held(w) \in Var => Held(w) \notin Acknowledged
         /\ Acknowledged' = IF Held(w) \in Var THEN Acknowledged \union {Held(w)}
                            ELSE Acknowledged
<1>1. \/ Ass(idx) = idx /\ idx' = idx + 1
      \/ Ass(idx) = idx_all_wrk_ass /\ idx' = idx
  <2>1. idx' = NextVar(idx)
    BY DEF MgrWrkRqs
  <2> QED
    BY <2>1 DEF Ass, NextVar
<1>2. idx \in Nat /\ \A u \in Worker : Held(u) \in Var => Held(u) < idx /\ Held(u) \in Nat
  BY DEF TypeOK, MpInv, WorkerInv, Var
<1>3. \A u \in Worker : Held(w) \in Var /\ Held(u) = Held(w) => u = w
  BY DEF MpInv, AssignInv
<1>4. /\ Held(w)' = Ass(idx) /\ Held(w) \in Var \union {NoVar}
      /\ \A u \in Worker \ {w} : Held(u)' = Held(u)
  BY HeldNext
<1>5. ASSUME NEW v \in Acknowledged' PROVE v \in Acknowledged \/ (v = Held(w) /\ Held(w) \in Var)
  <2>1. v \in 0..(idx - 1) /\ \A u \in Worker \ {w} : Held(u) # v
    BY <1>1, <1>2, <1>4 DEF Acknowledged, idx_all_wrk_ass
  <2>2. v \in Var
    BY <2>1, NbrVarAssumption DEF Var, TypeOK
  <2>3. CASE v = Held(w)
    BY <2>2, <2>3
  <2>4. CASE v # Held(w)
    <3>1. \A u \in Worker : Held(u) # v
      BY <2>1, <2>4
    <3> QED
      BY <2>1, <3>1, AckElement
  <2> QED
    BY <2>3, <2>4
<1>6. ASSUME NEW v \in 0..(idx - 1), \A u \in Worker \ {w} : Held(u) # v
      PROVE  v \in Acknowledged'
  <2>1. v # Ass(idx) /\ v \in 0..(idx' - 1)
    BY <1>1, <1>2 DEF idx_all_wrk_ass
  <2> QED
    BY <1>4, <1>6, <2>1 DEF Acknowledged
<1>7. Acknowledged \subseteq Acknowledged'
  BY <1>6 DEF Acknowledged
<1>8. Held(w) \in Var => Held(w) \in Acknowledged' /\ Held(w) \notin Acknowledged
  <2>1. Held(w) \in Var => Held(w) \in 0..(idx - 1)
    BY <1>2
  <2> QED
    BY <1>3, <1>6, <2>1 DEF Acknowledged
<1> QED
  BY <1>5, <1>7, <1>8

LEMMA AssignWrkRqs ==
  ASSUME TypeOK, MpInv, NEW w \in Worker, MgrWrkRqs(w)
  PROVE  AssignInv'
<1>1. /\ Held(w)' = Ass(idx) /\ Closed(w) /\ ~Closed(w)'
      /\ Held(w) \in Var \union {NoVar}
      /\ \A u \in Worker \ {w} : Held(u)' = Held(u) /\ Closed(u)' = Closed(u)
  BY HeldNext
<1>2. \A u \in Worker : Held(u) \in Var => Held(u) # Ass(idx)
  BY DEF Ass, MpInv, WorkerInv, TypeOK, Var, idx_all_wrk_ass
<1>3. ASSUME NEW w1 \in Worker, NEW w2 \in Worker, Held(w1)' = Held(w2)', Held(w1)' \in Var
      PROVE  w1 = w2
  BY <1>1, <1>2, <1>3 DEF MpInv, AssignInv
<1>4. ASSUME NEW v \in Var
      PROVE  wrt'[v] = IF v \in Acknowledged' \/ \E u \in Worker : Held(u)' = v /\ Closed(u)'
                       THEN 1 ELSE 0
  <2>1. wrt' = wrt
    BY DEF MgrWrkRqs, fl_vars
  <2>2. wrt[v] = IF v \in Acknowledged \/ \E u \in Worker : Held(u) = v /\ Closed(u)
                 THEN 1 ELSE 0
    BY DEF MpInv, AssignInv
  <2>3. CASE v = Held(w)
    BY <1>1, <2>1, <2>2, <2>3, AckNext
  <2>4. CASE v # Held(w)
    <3>1. v \in Acknowledged <=> v \in Acknowledged'
      BY <2>4, AckNext
    <3>2. (\E u \in Worker : Held(u)' = v /\ Closed(u)')
            <=> \E u \in Worker : Held(u) = v /\ Closed(u)
      BY <1>1, <2>4
    <3> QED
      BY <2>1, <2>2, <3>1, <3>2
  <2> QED
    BY <2>3, <2>4
<1> QED
  BY <1>3, <1>4 DEF AssignInv

-----------------------------------------------------------------------------
(* CountInv.                                                               *)

LEMMA Finite ==
  ASSUME TypeOK
  PROVE  /\ IsFiniteSet(Started) /\ Cardinality(Started) \in Nat
         /\ IsFiniteSet(Acknowledged) /\ Cardinality(Acknowledged) \in Nat
         /\ Started \subseteq Worker /\ Acknowledged \subseteq Var
         /\ Cardinality(Started) <= Cardinality(Worker)
         /\ Cardinality(Acknowledged) <= nbr_var_prc
         /\ Cardinality(Acknowledged) = nbr_var_prc => Acknowledged = Var
         /\ IsFiniteSet(Worker) /\ Cardinality(Worker) \in Nat
<1>1. Started \subseteq Worker /\ Acknowledged \subseteq Var
  BY NbrVarAssumption DEF Started, Acknowledged, Var, TypeOK
<1>2. IsFiniteSet(Var) /\ Cardinality(Var) = nbr_var_prc
  <2>1. 0 \in Int /\ nbr_var_prc - 1 \in Int
    BY NbrVarAssumption
  <2> QED
    BY <2>1, FS_Interval, NbrVarAssumption DEF Var
<1>3. IsFiniteSet(Started) /\ Cardinality(Started) <= Cardinality(Worker)
  BY <1>1, WorkerAssumption, FS_Subset
<1>4. /\ IsFiniteSet(Acknowledged) /\ Cardinality(Acknowledged) <= Cardinality(Var)
      /\ Cardinality(Var) = Cardinality(Acknowledged) => Var = Acknowledged
  BY <1>1, <1>2, FS_Subset
<1> QED
  BY <1>1, <1>2, <1>3, <1>4, WorkerAssumption, FS_CardinalityType

LEMMA CountWrkRqs ==
  ASSUME TypeOK, MpInv, NEW w \in Worker, MgrWrkRqs(w)
  PROVE  CountInv'
<1>1. /\ Held(w)' = Ass(idx) /\ Held(w) \in Var \union {NoVar} /\ mgr = "serve"
      /\ \A u \in Worker \ {w} : Held(u)' = Held(u)
  BY HeldNext
<1>2. /\ mgr' = "serve" /\ var_wrt_nbr' = var_wrt_nbr + 1
      /\ opn' = opn /\ fl' = fl
  BY <1>1 DEF MgrWrkRqs, fl_vars
<1>3. Ass(idx) # NoVar
  BY DEF Ass, TypeOK, NoVar, idx_all_wrk_ass
<1>4. Started' = Started \union {w}
  BY <1>1, <1>3 DEF Started
<1>5. /\ Cardinality(Started') + Cardinality(Acknowledged')
           = Cardinality(Started) + Cardinality(Acknowledged) + 1
      /\ Cardinality(Started') \in Nat /\ Cardinality(Acknowledged') \in Nat
  <2>1. CASE Held(w) = NoVar
    <3>1. Held(w) \notin Var /\ w \notin Started
      BY <2>1 DEF NoVar, Var, Started
    <3>2. Acknowledged' = Acknowledged
      BY <3>1, AckNext
    <3>3. Cardinality(Started') = Cardinality(Started) + 1
      BY <1>4, <3>1, Finite, FS_AddElement
    <3> QED
      BY <3>2, <3>3, Finite
  <2>2. CASE Held(w) \in Var
    <3>1. Held(w) # NoVar
      BY <2>2 DEF NoVar, Var
    <3>2. Started' = Started
      BY <1>4, <3>1 DEF Started
    <3>3. Cardinality(Acknowledged') = Cardinality(Acknowledged) + 1
      BY <2>2, AckNext, Finite, FS_AddElement
    <3> QED
      BY <3>2, <3>3, Finite
  <2> QED
    BY <1>1, <2>1, <2>2
<1>6. var_wrt_nbr = Cardinality(Started) + Cardinality(Acknowledged) - Cardinality(Worker)
      /\ rnk_mgr \notin opn /\ fl # "moved"
  BY <1>1 DEF CountInv, MpInv
<1>7. var_wrt_nbr' = Cardinality(Started') + Cardinality(Acknowledged') - Cardinality(Worker)
  BY <1>2, <1>5, <1>6, Finite
<1> QED
  BY <1>2, <1>6, <1>7 DEF CountInv

LEMMA CountMgr ==
  ASSUME TypeOK, MpInv, Mgr
  PROVE  CountInv'
<1>1. CASE MgrCreate
  BY <1>1 DEF MgrCreate, MpInv, CountInv, mgr_vars
<1>2. CASE MgrCopy
  <2>1. \A u \in Worker : Held(u)' = NoVar
    BY <1>2 DEF MgrCopy, wrk_vars, MpInv, WorkerInv, Held, NoMsg
  <2>2. Started' = {} /\ Acknowledged' = {}
    BY <1>2, <2>1 DEF MgrCopy, Started, Acknowledged
  <2>3. var_wrt_nbr' = Cardinality(Started') + Cardinality(Acknowledged') - Cardinality(Worker)
    BY <1>2, <2>2, FS_EmptySet, CntStartType DEF MgrCopy, CntStart
  <2> QED
    BY <1>2, <2>3 DEF MgrCopy, MpInv, CountInv
<1>3. CASE MgrMove
  <2>1. Started' = Started /\ Acknowledged' = Acknowledged
    BY <1>3, WorkerInvMgr, AckKept DEF MgrMove, mgr_vars
  <2>2. var_wrt_nbr' = var_wrt_nbr /\ var_wrt_nbr >= nbr_var_prc
    BY <1>3, NbrVarAssumption DEF MgrMove, Serving, mgr_vars, TypeOK
  <2> QED
    BY <1>3, <2>1, <2>2 DEF MgrMove, MpInv, CountInv
<1> QED
  BY <1>1, <1>2, <1>3 DEF Mgr

LEMMA CountWrk ==
  ASSUME TypeOK, MpInv, NEW w \in Worker, Wrk(w) \/ MgrTknRqs(w)
  PROVE  CountInv'
<1>1. idx' = idx /\ var_wrt_nbr' = var_wrt_nbr /\ mgr' = mgr /\ fl' = fl
  BY DEF Wrk, WrkBcast, WrkRqs, WrkAss, WrkTknRqs, WrkDenied, WrkOpen, WrkWrite,
         MgrTknRqs, mgr_vars, fl_vars
<1>2. rnk_mgr \in opn' <=> rnk_mgr \in opn
  BY WorkerAssumption
  DEF Wrk, WrkBcast, WrkRqs, WrkAss, WrkTknRqs, WrkDenied, WrkOpen, WrkWrite,
      MgrTknRqs, fl_vars
<1>3. Started' = Started /\ Acknowledged' = Acknowledged
  BY <1>1, HeldKept, AckKept
<1> QED
  BY <1>1, <1>2, <1>3 DEF MpInv, CountInv

-----------------------------------------------------------------------------
(* The invariant and what follows from it.                                 *)

LEMMA InvStep == TypeOK /\ MpInv /\ [Next]_vars => MpInv'
<1> SUFFICES ASSUME TypeOK, MpInv, [Next]_vars PROVE MpInv'
  OBVIOUS
<1>1. CASE Mgr
  <2>1. AssignInv'
    <3>1. CASE MgrCopy
      <4>1. idx = 0
        BY <3>1 DEF MgrCopy, MpInv, CountInv
      <4> QED
        BY <1>1, <3>1, <4>1, WorkerInvMgr, AssignKept DEF MgrCopy, MpInv
    <3>2. CASE MgrCreate \/ MgrMove
      BY <1>1, <3>2, WorkerInvMgr, AssignKept DEF MgrCreate, MgrMove, MpInv, mgr_vars
    <3> QED
      BY <1>1, <3>1, <3>2 DEF Mgr
  <2> QED
    BY <1>1, <2>1, WorkerInvMgr, CountMgr DEF MpInv
<1>2. ASSUME NEW w \in Worker, MgrWrkRqs(w) PROVE MpInv'
  BY <1>2, WorkerInvWrkRqs, AssignWrkRqs, CountWrkRqs DEF MpInv
<1>3. ASSUME NEW w \in Worker, Wrk(w) \/ MgrTknRqs(w) PROVE MpInv'
  <2>1. AssignInv'
    <3>1. CASE WrkWrite(w)
      BY <3>1, AssignWrite
    <3>2. CASE ~WrkWrite(w)
      <4>1. idx' = idx /\ wrt' = wrt
        BY <1>3, <3>2 DEF Wrk, WrkBcast, WrkRqs, WrkAss, WrkTknRqs, WrkDenied, WrkOpen,
           MgrTknRqs, mgr_vars, fl_vars
      <4> QED
        BY <1>3, <3>2, <4>1, HeldKept, ClosedKept, AssignKept DEF MpInv
    <3> QED
      BY <3>1, <3>2
  <2> QED
    BY <1>3, <2>1, WorkerInvWrk, CountWrk DEF MpInv
<1>4. CASE UNCHANGED vars
  <2>1. \A u \in Worker : Held(u)' = Held(u) /\ Closed(u)' = Closed(u) /\ WorkerInv(u)'
    BY <1>4 DEF vars, mgr_vars, wrk_vars, fl_vars, Held, Closed, MpInv, WorkerInv
  <2>2. AssignInv'
    BY <1>4, <2>1, AssignKept DEF MpInv, vars, mgr_vars, fl_vars
  <2>3. CountInv'
    BY <1>4, <2>1, AckKept DEF MpInv, CountInv, vars, mgr_vars, fl_vars
  <2> QED
    BY <2>1, <2>2, <2>3 DEF MpInv
<1> QED
  BY <1>1, <1>2, <1>3, <1>4 DEF Next, Serve

\* The inductive invariant: messages and states agree, no variable is held
\* twice, and the manager's counter is the number of workers that have asked
\* for work, less all workers, plus the variables whose worker asked again.
THEOREM MpInvariant == Spec => []MpInv
BY MpTypeCorrect, InvInit, InvStep, PTL DEF Spec

LEMMA InvMoved == TypeOK /\ MpInv => MovedComplete
<1> SUFFICES ASSUME TypeOK, MpInv, fl = "moved"
             PROVE  opn = {} /\ \A v \in Var : wrt[v] = 1
  BY DEF MovedComplete
<1>1. mgr = "moved" /\ var_wrt_nbr >= nbr_var_prc
      /\ var_wrt_nbr = Cardinality(Started) + Cardinality(Acknowledged) - Cardinality(Worker)
  BY DEF MpInv, CountInv
<1>2. Cardinality(Acknowledged) = nbr_var_prc
  BY <1>1, Finite, NbrVarAssumption
<1>3. Acknowledged = Var
  BY <1>2, Finite
<1>4. \A v \in Var : wrt[v] = 1
  BY <1>3 DEF MpInv, AssignInv
<1>5. ASSUME NEW w \in Worker PROVE w \notin opn
  <2>1. w \in opn => Held(w) \in Var
    BY DEF MpInv, WorkerInv, Held
  <2>2. Held(w) \notin Var
    BY <1>3 DEF Acknowledged
  <2> QED
    BY <2>1, <2>2
<1>6. rnk_mgr \notin opn
  BY <1>1 DEF MpInv, CountInv
<1> QED
  BY <1>4, <1>5, <1>6 DEF TypeOK

\* The output file is moved only when all variables have been written, each
\* exactly once, and every process has closed it: for any number of workers
\* and variables, in every order of their messages.
THEOREM MovedAfterAllWritten == Spec => []MovedComplete
BY MpTypeCorrect, MpInvariant, InvMoved, PTL

-----------------------------------------------------------------------------
(* The token.                                                              *)

LEMMA TokenStep == TypeOK /\ MpInv /\ TokenReturns /\ [Next]_vars => TokenReturns'
<1> SUFFICES ASSUME TypeOK, MpInv, TokenReturns, [Next]_vars,
                    mgr' = "serve", ~TKN_WRT_FREE'
             PROVE  \E w \in Worker : HasToken(w)'
  BY DEF TokenReturns
<1>1. CASE Mgr
  BY <1>1 DEF Mgr, MgrCreate, MgrCopy, MgrMove
<1>2. ASSUME NEW w \in Worker, MgrWrkRqs(w) PROVE FALSE
  BY <1>2 DEF MgrWrkRqs, TknFreed
<1>3. ASSUME NEW w \in Worker, MgrTknRqs(w) PROVE \E u \in Worker : HasToken(u)'
  <2>1. CASE TKN_WRT_FREE
    BY <1>3, <2>1 DEF MgrTknRqs, HasToken, TypeOK
  <2>2. CASE ~TKN_WRT_FREE
    <3>1. PICK u \in Worker : HasToken(u)
      BY <1>3, <2>2 DEF TokenReturns, MgrTknRqs, Serving
    <3>2. u # w
      BY <1>3, <3>1 DEF MgrTknRqs, MpInv, WorkerInv, HasToken, Closed, NoMsg, TknRsp
    <3>3. HasToken(u)'
      BY <1>3, <3>1, <3>2 DEF MgrTknRqs, HasToken, Closed, wrk_vars, TypeOK
    <3> QED
      BY <3>3
  <2> QED
    BY <2>1, <2>2
<1>4. ASSUME NEW w \in Worker, Wrk(w) PROVE \E u \in Worker : HasToken(u)'
  <2>1. PICK u \in Worker : HasToken(u)
    BY <1>4 DEF Wrk, WrkBcast, WrkRqs, WrkAss, WrkTknRqs, WrkDenied, WrkOpen, WrkWrite,
       mgr_vars, TokenReturns
  <2>2. WorkerInv(w) /\ WorkerInv(u) /\ TypeOK
    BY DEF MpInv
  <2> USE DEF HasToken, Closed, WorkerInv, NoMsg, TknRsp, WrkRsp, TypeOK
  <2>3. CASE WrkBcast(w)
    BY <2>1, <2>2, <2>3 DEF WrkBcast
  <2>4. CASE WrkRqs(w)
    BY <2>1, <2>2, <2>4 DEF WrkRqs
  <2>5. CASE WrkAss(w)
    BY <2>1, <2>2, <2>5 DEF WrkAss
  <2>6. CASE WrkTknRqs(w)
    BY <2>1, <2>2, <2>6 DEF WrkTknRqs
  <2>7. CASE WrkDenied(w)
    BY <2>1, <2>2, <2>7 DEF WrkDenied, tkn_wrt_rqs_dny, tkn_wrt_rqs_xcp
  <2>8. CASE WrkOpen(w)
    BY <2>1, <2>2, <2>8 DEF WrkOpen
  <2>9. CASE WrkWrite(w)
    BY <2>1, <2>2, <2>9 DEF WrkWrite
  <2> QED
    BY <1>4, <2>3, <2>4, <2>5, <2>6, <2>7, <2>8, <2>9 DEF Wrk
<1>5. CASE UNCHANGED vars
  <2>1. \A u \in Worker : HasToken(u)' <=> HasToken(u)
    BY <1>5 DEF vars, wrk_vars, HasToken, Closed
  <2> QED
    BY <1>5, <2>1 DEF TokenReturns, vars, mgr_vars
<1> QED
  BY <1>1, <1>2, <1>3, <1>4, <1>5 DEF Next, Serve

\* A write token that is not free is always on its way back to the manager.
THEOREM TokenComesBack == Spec => []TokenReturns
<1>1. Init => TokenReturns
  BY DEF Init, TokenReturns
<1> QED
  BY <1>1, MpTypeCorrect, MpInvariant, TokenStep, PTL DEF Spec

-----------------------------------------------------------------------------
(* Refinement of the work pool.                                            *)

LEMMA PoolWrite ==
  ASSUME TypeOK, MpInv, MovedComplete, NEW w \in Worker, WrkWrite(w)
  PROVE  Pool!Write(cur[w]) /\ cur[w] \in Var
<1>1. wrk[w] = "write" /\ cur[w] \in Var /\ w \in opn /\ Held(w) = cur[w]
      /\ ~Closed(w)
  BY DEF WrkWrite, MpInv, WorkerInv, Held, Closed
<1>2. ~Published /\ Published' = Published
  BY <1>1 DEF MovedComplete, Published, WrkWrite
<1>3. wrt[cur[w]] = 0
  BY <1>1 DEF MpInv, AssignInv, Acknowledged
<1>4. \A v \in Var : wrt'[v] = IF v = cur[w] THEN 1 ELSE wrt[v]
  BY <1>1, <1>3 DEF WrkWrite, TypeOK
<1>5. Todo' = Todo \ {cur[w]}
  BY <1>4 DEF Todo
<1> QED
  BY <1>1, <1>2, <1>3, <1>5 DEF Pool!Write, Todo

LEMMA PoolStep ==
  TypeOK /\ MpInv /\ MovedComplete /\ MovedComplete' /\ [Next]_vars
    => [Pool!Next]_<<Todo, Published>>
<1> SUFFICES ASSUME TypeOK, MpInv, MovedComplete, MovedComplete', [Next]_vars
             PROVE  [Pool!Next]_<<Todo, Published>>
  OBVIOUS
<1>1. CASE MgrMove
  <2>1. ~Published /\ Published' /\ Todo' = Todo
    BY <1>1 DEF MgrMove, Published, Todo, MpInv, CountInv
  <2>2. Todo = {}
    BY <1>1 DEF MovedComplete, MgrMove, Todo
  <2> QED
    BY <2>1, <2>2 DEF Pool!Next, Pool!Publish
<1>2. ASSUME NEW w \in Worker, WrkWrite(w) PROVE Pool!Next
  BY <1>2, PoolWrite DEF Pool!Next
<1>3. CASE MgrCreate \/ MgrCopy
  <2>1. Published' = Published /\ Todo' = Todo
    BY <1>3 DEF MgrCreate, MgrCopy, Published, Todo, MpInv, CountInv
  <2> QED
    BY <2>1
<1>4. ASSUME NEW w \in Worker, Serve(w) \/ Wrk(w), ~WrkWrite(w)
      PROVE  wrt' = wrt /\ fl' = fl
  BY <1>4 DEF Serve, MgrWrkRqs, MgrTknRqs, Wrk, WrkBcast, WrkRqs, WrkAss, WrkTknRqs,
     WrkDenied, WrkOpen, fl_vars
<1>5. CASE UNCHANGED vars
  BY <1>5 DEF vars, fl_vars, Todo, Published
<1>6. ASSUME wrt' = wrt, fl' = fl PROVE UNCHANGED <<Todo, Published>>
  BY <1>6 DEF Todo, Published
<1> QED
  BY <1>1, <1>2, <1>3, <1>4, <1>5, <1>6 DEF Next, Mgr

\* The protocol implements the work pool: each step of a rank writes one
\* variable that is still to do, publishes the finished file, or changes
\* neither.
THEOREM ImplementsPool == Spec => Pool!Spec
<1>1. Init => Pool!Init
  BY DEF Init, Pool!Init, Todo, Published
<1> QED
  BY <1>1, PoolStep, MpTypeCorrect, MpInvariant, MovedAfterAllWritten, PTL
  DEF Spec, Pool!Spec
=============================================================================
