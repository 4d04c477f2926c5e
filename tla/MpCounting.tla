----------------------------- MODULE MpCounting -----------------------------
(***************************************************************************)
(* Why the manager of MpWorkers moves the output file at the right moment. *)
(* It counts requests for work only; that the count of all workers'        *)
(* requests stands for variables written and closed is the inductive       *)
(* invariant below.                                                        *)
(***************************************************************************)
EXTENDS MpWorkers

\* The variable a worker has been told to process, as the manager knows.
Held(w) == IF rsp[w].tag = "wrk_rsp" THEN rsp[w].val ELSE cur[w]

\* Workers whose first request the manager has received, and variables
\* whose worker has asked for more work since.
Started == {w \in Worker : Held(w) # NoVar}
Acknowledged == {v \in 0..(idx - 1) : \A w \in Worker : Held(w) # v}

\* The worker has written and closed its last variable, if it had one.
Closed(w) == rqs[w] = "wrk_rqs" \/ wrk[w] \in {"bcast", "rqs"}

\* The token is on its way to a worker, with it, or on its way back.
HasToken(w) ==
  \/ rsp[w] = TknRsp(tkn_wrt_rqs_xcp)
  \/ wrk[w] = "write"
  \/ cur[w] \in Var /\ Closed(w)

\* The state of each worker, its messages and its variable agree.
WorkerInv(w) ==
  /\ rqs[w] = "wrk_rqs" => wrk[w] = "rsp" /\ rsp[w] = NoMsg
  /\ rqs[w] = "tkn_wrt_rqs" => wrk[w] = "tkn_rsp" /\ rsp[w] = NoMsg
  /\ rsp[w].tag = "wrk_rsp" => wrk[w] = "rsp"
  /\ rsp[w].tag = "tkn_wrt_rsp" => wrk[w] = "tkn_rsp"
  /\ wrk[w] = "rsp" => rqs[w] = "wrk_rqs" \/ rsp[w].tag = "wrk_rsp"
  /\ wrk[w] = "tkn_rsp" => rqs[w] = "tkn_wrt_rqs" \/ rsp[w].tag = "tkn_wrt_rsp"
  /\ wrk[w] \in {"tkn", "tkn_rsp", "write"} => cur[w] \in Var
  /\ wrk[w] = "done" <=> cur[w] = idx_all_wrk_ass
  /\ wrk[w] = "bcast" => cur[w] = NoVar
  /\ w \in opn <=> wrk[w] = "write"
  /\ mgr \in {"create", "copy"} => cur[w] = NoVar /\ rsp[w] = NoMsg
  /\ Held(w) \in Var => Held(w) < idx

\* No variable is held by two workers; a variable is written once when its
\* worker has closed the file after it, and not before.
AssignInv ==
  /\ \A w1, w2 \in Worker : Held(w1) = Held(w2) /\ Held(w1) \in Var => w1 = w2
  /\ \A v \in Var :
       wrt[v] = IF v \in Acknowledged \/ \E w \in Worker : Held(w) = v /\ Closed(w)
                THEN 1 ELSE 0

CountInv ==
  /\ mgr \in {"create", "copy"} => idx = 0
  /\ mgr \in {"serve", "moved"} =>
       var_wrt_nbr = Cardinality(Started) + Cardinality(Acknowledged)
                       - Cardinality(Worker)
  /\ mgr = "moved" => var_wrt_nbr >= nbr_var_prc
  /\ (fl = "moved") <=> (mgr = "moved")
  /\ rnk_mgr \in opn <=> mgr = "copy"

MpInv ==
  /\ \A w \in Worker : WorkerInv(w)
  /\ AssignInv
  /\ CountInv

\* The work pool: variables not written yet, and whether the file is moved.
Todo == {v \in Var : wrt[v] = 0}
Published == fl = "moved"
Pool == INSTANCE WorkPool WITH Item <- Var, todo <- Todo, published <- Published

-----------------------------------------------------------------------------
\* The file is moved to its permanent place only when every variable has been
\* written exactly once and no process has it open: the condition of the
\* manager's loop, which never sees a message that says so (main(), the loop
\* on var_wrt_nbr and nco_fl_mv()).
MovedComplete ==
  fl = "moved" => opn = {} /\ \A v \in Var : wrt[v] = 1

\* A token that is not free comes back: some worker has it and will ask for
\* work, so that denied workers do not wait for ever.
TokenReturns ==
  mgr = "serve" /\ ~TKN_WRT_FREE => \E w \in Worker : HasToken(w)
=============================================================================
