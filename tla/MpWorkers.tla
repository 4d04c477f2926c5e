----------------------------- MODULE MpWorkers -----------------------------
(***************************************************************************)
(* The manager/worker protocol of the MPI operators: main() of             *)
(* src/nco/mpncflint.c from the definition of the output file to its move  *)
(* to the permanent location.  mpncbo, mpncwa, mpncecat, mpncpdq and the   *)
(* first pass of mpncra run the same protocol.                             *)
(*                                                                         *)
(* Rank 0, the manager, creates the output file and hands out variables;   *)
(* a worker computes a variable, asks for the write token until it gets    *)
(* it, opens the file, writes and closes it, and asks for more work.       *)
(* A worker sends, then waits for the answer, so it has at most one        *)
(* message under way: rqs[w] to the manager or rsp[w] back.  The manager   *)
(* receives from MPI_ANY_SOURCE, in whatever order.                        *)
(***************************************************************************)
EXTENDS Integers, FiniteSets

CONSTANTS
  Worker,      \* the ranks 1 .. prc_nbr-1
  nbr_var_prc  \* number of processed variables

rnk_mgr == "mgr"
ASSUME WorkerAssumption ==
  IsFiniteSet(Worker) /\ Worker # {} /\ rnk_mgr \notin Worker
ASSUME NbrVarAssumption == nbr_var_prc \in Nat

Var == 0..(nbr_var_prc - 1)
idx_all_wrk_ass == -1  \* all variables already assigned
NoVar == -2            \* a worker's idx before its first assignment
tkn_wrt_rqs_dny == 0
tkn_wrt_rqs_xcp == 1

NoMsg == [tag |-> "none", val |-> 0]
WrkRsp(i) == [tag |-> "wrk_rsp", val |-> i]
TknRsp(x) == [tag |-> "tkn_wrt_rsp", val |-> x]

VARIABLES
  mgr,          \* where the manager is
  TKN_WRT_FREE, \* write access to the output file is available
  var_wrt_nbr,  \* number of variables written, as the manager counts
  idx,          \* next variable to assign
  rqs,          \* request of each worker under way
  rsp,          \* answer to each worker under way
  wrk,          \* where each worker is
  cur,          \* the idx of each worker
  opn,          \* processes that have the output file open
  fl,           \* the output file: not there, temporary or permanent
  wrt           \* how often each variable was written

mgr_vars == <<TKN_WRT_FREE, var_wrt_nbr, idx>>
wrk_vars == <<wrk, cur>>
fl_vars == <<opn, fl, wrt>>
vars == <<mgr, mgr_vars, rqs, rsp, wrk_vars, fl_vars>>

\* Types of all variables.
TypeOK ==
  /\ mgr \in {"create", "copy", "serve", "moved"}
  /\ TKN_WRT_FREE \in BOOLEAN /\ var_wrt_nbr \in Int /\ idx \in 0..nbr_var_prc
  /\ rqs \in [Worker -> {"none", "wrk_rqs", "tkn_wrt_rqs"}]
  /\ rsp \in [Worker -> {NoMsg} \union {WrkRsp(i) : i \in Var \union {idx_all_wrk_ass}}
                        \union {TknRsp(x) : x \in {tkn_wrt_rqs_dny, tkn_wrt_rqs_xcp}}]
  /\ wrk \in [Worker -> {"bcast", "rqs", "rsp", "tkn", "tkn_rsp", "write", "done"}]
  /\ cur \in [Worker -> Var \union {idx_all_wrk_ass, NoVar}]
  /\ opn \subseteq Worker \union {rnk_mgr}
  /\ fl \in {"none", "tmp", "moved"}
  /\ wrt \in [Var -> Nat]

Init ==
  /\ mgr = "create" /\ TKN_WRT_FREE = TRUE /\ var_wrt_nbr = 0 /\ idx = 0
  /\ rqs = [w \in Worker |-> "none"] /\ rsp = [w \in Worker |-> NoMsg]
  /\ wrk = [w \in Worker |-> "bcast"] /\ cur = [w \in Worker |-> NoVar]
  /\ opn = {} /\ fl = "none"
  /\ wrt = [v \in Var |-> 0]

-----------------------------------------------------------------------------
(* The manager.                                                            *)

\* Create and define the temporary output file, broadcast its name.
MgrCreate ==
  /\ mgr = "create" /\ mgr' = "copy"
  /\ fl' = "tmp" /\ opn' = opn \union {rnk_mgr}
  /\ TKN_WRT_FREE' = FALSE
  /\ UNCHANGED <<var_wrt_nbr, idx, rqs, rsp, wrk_vars, wrt>>

\* The counter compensates for the first request of every worker, which has
\* written nothing then.  (CntStartEarly: a faulty variant, one too many.)
CntStartEarly == 1 - Cardinality(Worker)
CntStart == -Cardinality(Worker)

\* Copy the fixed variables, close the file, enter the loop.
MgrCopy ==
  /\ mgr = "copy" /\ mgr' = "serve"
  /\ opn' = opn \ {rnk_mgr}
  /\ TKN_WRT_FREE' = TRUE /\ var_wrt_nbr' = CntStart /\ idx' = 0
  /\ UNCHANGED <<rqs, rsp, wrk_vars, fl, wrt>>

Serving == mgr = "serve" /\ var_wrt_nbr < nbr_var_prc

\* The variable to allocate, if any is left, and the next on the list.
\* (AssOver, NextVarSame: faulty variants, one off and not advanced.)
AssOver(i) == IF i > nbr_var_prc THEN idx_all_wrk_ass ELSE i
Ass(i) == IF i > nbr_var_prc - 1 THEN idx_all_wrk_ass ELSE i
NextVarSame(i) == i
NextVar(i) == IF i > nbr_var_prc - 1 THEN i ELSE i + 1

\* The token after a request for work.  (TknKept: a faulty variant.)
TknKept == TKN_WRT_FREE
TknFreed == TRUE

\* A request for work: the worker has closed the file; allocate a variable.
MgrWrkRqs(w) ==
  /\ Serving /\ rqs[w] = "wrk_rqs"
  /\ rqs' = [rqs EXCEPT ![w] = "none"]
  /\ var_wrt_nbr' = var_wrt_nbr + 1
  /\ TKN_WRT_FREE' = TknFreed
  /\ rsp' = [rsp EXCEPT ![w] = WrkRsp(Ass(idx))] /\ idx' = NextVar(idx)
  /\ UNCHANGED <<mgr, wrk_vars, fl_vars>>

\* A request for the token: allocate it if free, else ask to try later.
MgrTknRqs(w) ==
  /\ Serving /\ rqs[w] = "tkn_wrt_rqs"
  /\ rqs' = [rqs EXCEPT ![w] = "none"]
  /\ TKN_WRT_FREE' = FALSE
  /\ rsp' = [rsp EXCEPT ![w] =
       TknRsp(IF TKN_WRT_FREE THEN tkn_wrt_rqs_xcp ELSE tkn_wrt_rqs_dny)]
  /\ UNCHANGED <<mgr, var_wrt_nbr, idx, wrk_vars, fl_vars>>

\* nco_fl_mv() after the loop.
MgrMove ==
  /\ mgr = "serve" /\ ~Serving /\ mgr' = "moved"
  /\ fl' = "moved"
  /\ UNCHANGED <<mgr_vars, rqs, rsp, wrk_vars, opn, wrt>>

-----------------------------------------------------------------------------
(* A worker.                                                               *)

\* Receive the name of the output file.
WrkBcast(w) ==
  /\ wrk[w] = "bcast" /\ mgr # "create"
  /\ wrk' = [wrk EXCEPT ![w] = "rqs"]
  /\ UNCHANGED <<mgr, mgr_vars, rqs, rsp, cur, fl_vars>>

WrkRqs(w) ==
  /\ wrk[w] = "rqs"
  /\ rqs' = [rqs EXCEPT ![w] = "wrk_rqs"]
  /\ wrk' = [wrk EXCEPT ![w] = "rsp"]
  /\ UNCHANGED <<mgr, mgr_vars, rsp, cur, fl_vars>>

\* Receive an assignment and compute the variable, or stop.
WrkAss(w) ==
  /\ wrk[w] = "rsp" /\ rsp[w].tag = "wrk_rsp"
  /\ rsp' = [rsp EXCEPT ![w] = NoMsg]
  /\ cur' = [cur EXCEPT ![w] = rsp[w].val]
  /\ wrk' = [wrk EXCEPT ![w] =
       IF rsp[w].val = idx_all_wrk_ass THEN "done" ELSE "tkn"]
  /\ UNCHANGED <<mgr, mgr_vars, rqs, fl_vars>>

WrkTknRqs(w) ==
  /\ wrk[w] = "tkn"
  /\ rqs' = [rqs EXCEPT ![w] = "tkn_wrt_rqs"]
  /\ wrk' = [wrk EXCEPT ![w] = "tkn_rsp"]
  /\ UNCHANGED <<mgr, mgr_vars, rsp, cur, fl_vars>>

\* Denied: wait, then request again.
WrkDenied(w) ==
  /\ wrk[w] = "tkn_rsp" /\ rsp[w] = TknRsp(tkn_wrt_rqs_dny)
  /\ rsp' = [rsp EXCEPT ![w] = NoMsg]
  /\ wrk' = [wrk EXCEPT ![w] = "tkn"]
  /\ UNCHANGED <<mgr, mgr_vars, rqs, cur, fl_vars>>

\* Accepted: open the output file.
WrkOpen(w) ==
  /\ wrk[w] = "tkn_rsp" /\ rsp[w] = TknRsp(tkn_wrt_rqs_xcp)
  /\ rsp' = [rsp EXCEPT ![w] = NoMsg]
  /\ opn' = opn \union {w}
  /\ wrk' = [wrk EXCEPT ![w] = "write"]
  /\ UNCHANGED <<mgr, mgr_vars, rqs, cur, fl, wrt>>

\* Write the variable and close the file.
WrkWrite(w) ==
  /\ wrk[w] = "write"
  /\ wrt' = [wrt EXCEPT ![cur[w]] = @ + 1]
  /\ opn' = opn \ {w}
  /\ wrk' = [wrk EXCEPT ![w] = "rqs"]
  /\ UNCHANGED <<mgr, mgr_vars, rqs, rsp, cur, fl>>

Mgr == MgrCreate \/ MgrCopy \/ MgrMove
Serve(w) == MgrWrkRqs(w) \/ MgrTknRqs(w)
Wrk(w) == \/ WrkBcast(w) \/ WrkRqs(w) \/ WrkAss(w) \/ WrkTknRqs(w)
          \/ WrkDenied(w) \/ WrkOpen(w) \/ WrkWrite(w)

\* Every process has moved on to MPI_Finalize().
Finished == mgr = "moved" /\ \A w \in Worker : wrk[w] = "done"

Next == Mgr \/ (\E w \in Worker : Serve(w) \/ Wrk(w)) \/ (Finished /\ UNCHANGED vars)

Spec == Init /\ [][Next]_vars

\* Every rank runs, and the manager's receive does not pass over the pending
\* message of one worker for ever.
FairSpec ==
  /\ Spec /\ WF_vars(Mgr)
  /\ \A w \in Worker : WF_vars(Serve(w)) /\ WF_vars(Wrk(w))
=============================================================================
