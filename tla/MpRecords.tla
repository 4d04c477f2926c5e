----------------------------- MODULE MpRecords -----------------------------
(***************************************************************************)
(* The second and third passes of the MPI record operators: main() of      *)
(* src/nco/mpncra.c, for mpncra and mpncrcat, after every variable has     *)
(* been assigned to one worker for good and its first record processed.    *)
(*                                                                         *)
(* Every process runs through the remaining records on its own.  For       *)
(* ncrcat a worker asks the manager for the write token before each        *)
(* variable and reports the end of each record, and the manager grants     *)
(* the token once per variable and record; for ncra nothing is written     *)
(* until the token goes round: manager, worker 1, ..., last worker,        *)
(* manager.                                                                *)
(*                                                                         *)
(* chn[w] holds the messages of a worker to the manager, in the order in   *)
(* which they were sent, which MPI keeps; rsp[w] is the answer under way.  *)
(***************************************************************************)
EXTENDS NcoLmt, FiniteSets, SequencesExt

CONSTANTS
  prc_nbr,      \* number of processes, the manager among them
  nbr_var_prc,  \* number of processed variables
  Requests      \* requests: [arg : limit of the record dimension,
                \*            fl : records in each input file]

ASSUME PrcNbrAssumption == prc_nbr \in Nat /\ prc_nbr >= 2
ASSUME NbrVarAssumption == nbr_var_prc \in Nat \ {0}

rnk_mgr == 0
Worker == 1..(prc_nbr - 1)
Var == 0..(nbr_var_prc - 1)

VARIABLES
  rqs, prg,      \* the request, "ncra" (or ncfe) or "ncrcat"
  lcl,           \* the worker each variable was assigned to
  mgr,           \* where the manager is
  mgr_left,      \* records the manager has not been through
  TKN_WRT_FREE, tkn_wrt_rnk, var_wrt_nbr,
  chn, rsp,      \* messages from and to each worker
  wrk,           \* where each worker is
  left,          \* records each worker has not been through
  todo,          \* variables of the current record still to do
  rec_usd_cml,   \* records each worker has used
  rng,           \* rank the final token has been sent to, -1 before
  opn, fl, wrt   \* who has the output file open, where it is, what is in it

asg == <<rqs, prg, lcl>>
mgr_vars == <<mgr, mgr_left, TKN_WRT_FREE, tkn_wrt_rnk, var_wrt_nbr>>
wrk_vars == <<wrk, left, todo, rec_usd_cml>>
fl_vars == <<opn, fl, wrt>>
vars == <<asg, mgr_vars, chn, rsp, wrk_vars, rng, fl_vars>>

Lcl(w) == {v \in Var : lcl[v] = w}

-----------------------------------------------------------------------------
(* How many records each process goes through.  The limit of the first     *)
(* file is evaluated in the first pass and again in the second.            *)

Trips(lmt, arg) == IF lmt.srt > lmt.end THEN 0 ELSE 1 + (lmt.end - lmt.srt) \div Srd(arg)

\* One input file: the first record of the first one was used before.
File(s, dmn_sz, arg, worker) ==
  LET lmt == LmtEvl(s.lmt, arg, dmn_sz, s.usd)
      all == Trips(lmt, arg)
      n == IF s.fst /\ all > 0 THEN all - 1 ELSE all
  IN  [lmt |-> lmt, fst |-> FALSE, nbr |-> s.nbr + n, usd |-> IF worker THEN s.usd + n ELSE s.usd]

\* Only workers count the records they use.
Pass2(r, worker) ==
  FoldLeft(LAMBDA s, f : File(s, f, r.arg, worker),
           [lmt |-> LmtEvl(LmtInit, r.arg, r.fl[1], 0), fst |-> TRUE, nbr |-> 0,
            usd |-> IF worker THEN 1 ELSE 0],
           r.fl).nbr

MpInit ==
  /\ rqs \in Requests /\ prg \in {"ncra", "ncrcat"} /\ lcl \in [Var -> Worker]
  /\ mgr = "loop" /\ mgr_left = Pass2(rqs, FALSE)
  /\ TKN_WRT_FREE = TRUE /\ tkn_wrt_rnk = 0 /\ var_wrt_nbr = 0
  /\ chn = [w \in Worker |-> <<>>] /\ rsp = [w \in Worker |-> "none"]
  /\ wrk = [w \in Worker |-> "loop"] /\ left = [w \in Worker |-> Pass2(rqs, TRUE)]
  /\ todo = [w \in Worker |-> Lcl(w)] /\ rec_usd_cml = [w \in Worker |-> 1]
  /\ rng = -1
  /\ opn = {} /\ fl = "tmp" /\ wrt = EmptyBag

-----------------------------------------------------------------------------
(* The manager.                                                            *)

Serving == mgr = "loop" /\ mgr_left > 0 /\ prg = "ncrcat" /\ var_wrt_nbr < nbr_var_prc

\* The next record: for ncrcat when every variable has been granted, for
\* ncra at once.
MgrRec ==
  /\ mgr = "loop" /\ mgr_left > 0 /\ ~Serving
  /\ mgr_left' = mgr_left - 1 /\ var_wrt_nbr' = 0
  /\ UNCHANGED <<asg, mgr, TKN_WRT_FREE, tkn_wrt_rnk, chn, rsp, wrk_vars, rng, fl_vars>>

\* A worker has been through a record.  No answer.  (MgrDoneLost: a faulty
\* variant that forgets to free the token.)
MgrDoneLost(w) ==
  /\ Serving /\ chn[w] # <<>> /\ Head(chn[w]) = "wrk_done"
  /\ chn' = [chn EXCEPT ![w] = Tail(@)]
  /\ UNCHANGED <<asg, mgr_vars, rsp, wrk_vars, rng, fl_vars>>
MgrDone(w) ==
  /\ Serving /\ chn[w] # <<>> /\ Head(chn[w]) = "wrk_done"
  /\ chn' = [chn EXCEPT ![w] = Tail(@)]
  /\ TKN_WRT_FREE' = TRUE
  /\ UNCHANGED <<asg, mgr, mgr_left, tkn_wrt_rnk, var_wrt_nbr, rsp, wrk_vars, rng, fl_vars>>

\* The token is free when it is, or when the worker that had it last asks.
\* (FreeAnyway: a faulty variant.)
FreeAnyway(w) == TRUE
Free(w) == TKN_WRT_FREE \/ w = tkn_wrt_rnk

\* A request for the token; a grant counts as the variable written.
MgrTkn(w) ==
  /\ Serving /\ chn[w] # <<>> /\ Head(chn[w]) = "tkn_wrt_rqs"
  /\ chn' = [chn EXCEPT ![w] = Tail(@)]
  /\ TKN_WRT_FREE' = FALSE
  /\ IF Free(w)
     THEN /\ rsp' = [rsp EXCEPT ![w] = "xcp"]
          /\ tkn_wrt_rnk' = w /\ var_wrt_nbr' = var_wrt_nbr + 1
     ELSE /\ rsp' = [rsp EXCEPT ![w] = "dny"]
          /\ UNCHANGED <<tkn_wrt_rnk, var_wrt_nbr>>
  /\ UNCHANGED <<asg, mgr, mgr_left, wrk_vars, rng, fl_vars>>

\* After its records the manager opens the output file to fix dates.
MgrOpen ==
  /\ mgr = "loop" /\ mgr_left = 0 /\ mgr' = "fix"
  /\ opn' = opn \union {rnk_mgr}
  /\ UNCHANGED <<asg, mgr_left, TKN_WRT_FREE, tkn_wrt_rnk, var_wrt_nbr, chn, rsp, wrk_vars, rng, fl, wrt>>

\* It closes the file and sends the final token to worker 1.
MgrClose ==
  /\ mgr = "fix" /\ mgr' = "wait"
  /\ opn' = opn \ {rnk_mgr} /\ rng' = 1
  /\ UNCHANGED <<asg, mgr_left, TKN_WRT_FREE, tkn_wrt_rnk, var_wrt_nbr, chn, rsp, wrk_vars, fl, wrt>>

\* The final token has come back: nco_fl_mv().  (MgrMoveEarly: a faulty
\* variant that does not wait for it.)
MgrMoveEarly ==
  /\ mgr = "wait" /\ mgr' = "moved" /\ fl' = "moved"
  /\ UNCHANGED <<asg, mgr_left, TKN_WRT_FREE, tkn_wrt_rnk, var_wrt_nbr, chn, rsp, wrk_vars, rng, opn, wrt>>
MgrMove ==
  /\ mgr = "wait" /\ rng = rnk_mgr /\ mgr' = "moved" /\ fl' = "moved"
  /\ UNCHANGED <<asg, mgr_left, TKN_WRT_FREE, tkn_wrt_rnk, var_wrt_nbr, chn, rsp, wrk_vars, rng, opn, wrt>>

-----------------------------------------------------------------------------
(* A worker.                                                               *)

\* ncra: accumulate the worker's variables of one record.
WrkAcc(w) ==
  /\ wrk[w] = "loop" /\ left[w] > 0 /\ prg = "ncra"
  /\ left' = [left EXCEPT ![w] = @ - 1]
  /\ rec_usd_cml' = [rec_usd_cml EXCEPT ![w] = @ + 1]
  /\ UNCHANGED <<asg, mgr_vars, chn, rsp, wrk, todo, rng, fl_vars>>

\* ncrcat: read the next variable and ask for the token.
WrkTknRqs(w) ==
  /\ wrk[w] = "loop" /\ left[w] > 0 /\ prg = "ncrcat" /\ todo[w] # {}
  /\ chn' = [chn EXCEPT ![w] = Append(@, "tkn_wrt_rqs")]
  /\ wrk' = [wrk EXCEPT ![w] = "tkn_rsp"]
  /\ UNCHANGED <<asg, mgr_vars, rsp, left, todo, rec_usd_cml, rng, fl_vars>>

\* Denied: wait, then request again.
WrkDenied(w) ==
  /\ wrk[w] = "tkn_rsp" /\ rsp[w] = "dny"
  /\ rsp' = [rsp EXCEPT ![w] = "none"]
  /\ wrk' = [wrk EXCEPT ![w] = "loop"]
  /\ UNCHANGED <<asg, mgr_vars, chn, left, todo, rec_usd_cml, rng, fl_vars>>

\* Accepted: open the output file.
WrkOpen(w) ==
  /\ wrk[w] = "tkn_rsp" /\ rsp[w] = "xcp"
  /\ rsp' = [rsp EXCEPT ![w] = "none"]
  /\ wrk' = [wrk EXCEPT ![w] = "write"]
  /\ opn' = opn \union {w}
  /\ UNCHANGED <<asg, mgr_vars, chn, left, todo, rec_usd_cml, rng, fl, wrt>>

\* Write the variable at the worker's own record count; close the file.
WrkWrite(w) ==
  /\ wrk[w] = "write"
  /\ \E v \in todo[w] :
       /\ \A u \in todo[w] : v <= u
       /\ wrt' = wrt (+) SetToBag({<<v, rec_usd_cml[w]>>})
       /\ todo' = [todo EXCEPT ![w] = @ \ {v}]
  /\ opn' = opn \ {w}
  /\ wrk' = [wrk EXCEPT ![w] = "loop"]
  /\ UNCHANGED <<asg, mgr_vars, chn, rsp, left, rec_usd_cml, rng, fl>>

\* The record is done: say so and go on, without waiting.
WrkDone(w) ==
  /\ wrk[w] = "loop" /\ left[w] > 0 /\ prg = "ncrcat" /\ todo[w] = {}
  /\ chn' = [chn EXCEPT ![w] = Append(@, "wrk_done")]
  /\ left' = [left EXCEPT ![w] = @ - 1]
  /\ rec_usd_cml' = [rec_usd_cml EXCEPT ![w] = @ + 1]
  /\ todo' = [todo EXCEPT ![w] = Lcl(w)]
  /\ UNCHANGED <<asg, mgr_vars, rsp, wrk, rng, fl_vars>>

NextRank(w) == IF w = prc_nbr - 1 THEN rnk_mgr ELSE w + 1

\* The final token has come: ncra opens the file, ncrcat passes it on.
WrkFinal(w) ==
  /\ wrk[w] = "loop" /\ left[w] = 0 /\ rng = w
  /\ IF prg = "ncra"
     THEN /\ wrk' = [wrk EXCEPT ![w] = "final"] /\ opn' = opn \union {w}
          /\ UNCHANGED rng
     ELSE /\ wrk' = [wrk EXCEPT ![w] = "done"] /\ rng' = NextRank(w)
          /\ UNCHANGED opn
  /\ UNCHANGED <<asg, mgr_vars, chn, rsp, left, todo, rec_usd_cml, fl, wrt>>

\* Write the averages, close the file, then pass the token on.
WrkAverages(w) ==
  /\ wrk[w] = "final"
  /\ wrt' = wrt (+) SetToBag({<<v, 0>> : v \in Lcl(w)})
  /\ opn' = opn \ {w}
  /\ wrk' = [wrk EXCEPT ![w] = "done"] /\ rng' = NextRank(w)
  /\ UNCHANGED <<asg, mgr_vars, chn, rsp, left, todo, rec_usd_cml, fl>>

Mgr == MgrRec \/ MgrOpen \/ MgrClose \/ MgrMove
Serve(w) == MgrDone(w) \/ MgrTkn(w)
Wrk(w) == \/ WrkAcc(w) \/ WrkTknRqs(w) \/ WrkDenied(w) \/ WrkOpen(w) \/ WrkWrite(w)
          \/ WrkDone(w) \/ WrkFinal(w) \/ WrkAverages(w)

\* Every process has moved on to MPI_Finalize().
Finished == mgr = "moved" /\ \A w \in Worker : wrk[w] = "done"

MpNext == Mgr \/ (\E w \in Worker : Serve(w) \/ Wrk(w)) \/ (Finished /\ UNCHANGED vars)

MpSpec == MpInit /\ [][MpNext]_vars

\* Every rank runs, and the manager's receive does not pass over the pending
\* message of one worker for ever.
FairMpSpec ==
  /\ MpSpec /\ WF_vars(Mgr)
  /\ \A w \in Worker : WF_vars(Serve(w)) /\ WF_vars(Wrk(w))
-----------------------------------------------------------------------------
\* Types of all variables: those of the protocol, and what is counted.
ProtocolTypeOK ==
  /\ rqs \in Requests /\ prg \in {"ncra", "ncrcat"} /\ lcl \in [Var -> Worker]
  /\ mgr \in {"loop", "fix", "wait", "moved"}
  /\ TKN_WRT_FREE \in BOOLEAN /\ tkn_wrt_rnk \in 0..(prc_nbr - 1)
  /\ var_wrt_nbr \in 0..nbr_var_prc
  /\ chn \in [Worker -> Seq({"tkn_wrt_rqs", "wrk_done"})]
  /\ rsp \in [Worker -> {"none", "xcp", "dny"}]
  /\ wrk \in [Worker -> {"loop", "tkn_rsp", "write", "final", "done"}]
  /\ todo \in [Worker -> SUBSET Var]
  /\ rec_usd_cml \in [Worker -> Nat \ {0}]
  /\ rng \in -1..(prc_nbr - 1)
  /\ opn \subseteq 0..(prc_nbr - 1) /\ fl \in {"tmp", "moved"}
MpTypeOK ==
  /\ ProtocolTypeOK
  /\ mgr_left \in Nat /\ left \in [Worker -> Nat] /\ IsABag(wrt)

\* The records of all files.
Ttl(r) == FoldLeft(LAMBDA n, f : n + f, 0, r.fl)
RecTtl == Ttl(rqs)
Item == IF prg = "ncrcat" THEN Var \X (1..(RecTtl - 1)) ELSE Var \X {0}

\* The output file is moved to its permanent place only when every variable
\* of every remaining record (ncrcat), or every average, of all the records
\* (ncra), has been written exactly once and no process has the file open,
\* although the manager counts a variable as written when it grants the
\* token, and a worker may still be in an earlier record than the manager
\* believes (main(), the loop on var_wrt_nbr, and nco_fl_mv()).
RecordsComplete ==
  fl = "moved" => /\ opn = {} /\ wrt = SetToBag(Item)
                  /\ \A w \in Worker : rec_usd_cml[w] = RecTtl

\* Two processes have the output file open at once only in mpncrcat, and
\* only if one of them is the manager, who does not wait for the last write,
\* or if some worker has no variable: its msg_tag_wrk_done frees the token
\* of another one.
OneAtATime ==
  \/ Cardinality(opn) <= 1
  \/ prg = "ncrcat" /\ (rnk_mgr \in opn \/ \E w \in Worker : Lcl(w) = {})

\* Every process gets through its records, the final token comes back to the
\* manager, and the output file is moved: denied requests are repeated and
\* messages that nobody waits for stay behind.
AllFinish == <>Finished

-----------------------------------------------------------------------------
(* Why they hold: the inductive invariants of MpRecProofs.                 *)

\* A worker is at, or past, its turn with the final token; the file is open
\* where it is being written.
PassInv ==
  /\ mgr \in {"loop", "fix"} <=> rng = -1
  /\ mgr = "moved" => rng = rnk_mgr
  /\ fl = "moved" <=> mgr = "moved"
  /\ \A w \in Worker :
       /\ wrk[w] = "final" => prg = "ncra" /\ rng = w
       /\ wrk[w] \in {"tkn_rsp", "write"} => prg = "ncrcat"
       /\ wrk[w] = "done" <=> rng = rnk_mgr \/ (rng > 0 /\ w < rng)
  /\ opn = {w \in Worker : wrk[w] \in {"write", "final"}}
           \union (IF mgr = "fix" THEN {rnk_mgr} ELSE {})

\* The variables of a record are done one by one; there is one to write when
\* the token is asked for.
TodoInv ==
  \A w \in Worker :
    /\ todo[w] \subseteq Lcl(w)
    /\ prg = "ncra" => todo[w] = Lcl(w)
    /\ wrk[w] \in {"tkn_rsp", "write"} => todo[w] # {}

\* What a worker with variables can have sent that is not yet received, and
\* whether it has the token: from the grant for its first variable of a
\* record until the manager learns that it is done with the record.
Asks(w) == wrk[w] = "tkn_rsp" /\ rsp[w] = "none"
DonePending(w) == chn[w] # <<>> /\ Head(chn[w]) = "wrk_done"
Messages(w) ==
  IF Asks(w) THEN {<<"tkn_wrt_rqs">>, <<"wrk_done", "tkn_wrt_rqs">>} ELSE {<<>>, <<"wrk_done">>}
Has(w) == rsp[w] = "xcp" \/ wrk[w] = "write" \/ todo[w] # Lcl(w) \/ DonePending(w)

\* With a variable for every worker, only the worker the manager believes to
\* have the token has it.
TokenInv ==
  (prg = "ncrcat" /\ \A w \in Worker : Lcl(w) # {}) =>
    \A w \in Worker :
      /\ chn[w] \in Messages(w)
      /\ rsp[w] # "none" => wrk[w] = "tkn_rsp" /\ chn[w] = <<>>
      /\ DonePending(w) => todo[w] = Lcl(w) /\ wrk[w] # "write"
      /\ Has(w) => ~TKN_WRT_FREE /\ tkn_wrt_rnk = w

OneInv == PassInv /\ TodoInv /\ TokenInv

\* The records of the second pass of a worker.
Rec2 == [r \in Requests |-> Pass2(r, TRUE)]

\* Each worker counts the records it has been through, and the file holds the
\* variables of these, those of its current record that it has written, or
\* the averages of the workers that have passed on the final token.
CountInv ==
  \A w \in Worker :
    /\ left[w] + rec_usd_cml[w] = 1 + Rec2[rqs]
    /\ left[w] = 0 => todo[w] = Lcl(w) /\ wrk[w] \in {"loop", "final", "done"}
    /\ wrk[w] \in {"final", "done"} => left[w] = 0
Reached(v) == rec_usd_cml[lcl[v]] - (IF v \in todo[lcl[v]] THEN 1 ELSE 0)
Written ==
  IF prg = "ncra" THEN {v \in Var : wrk[lcl[v]] = "done"} \X {0}
  ELSE UNION {{v} \X (1..Reached(v)) : v \in Var}
FileInv == wrt = SetToBag(Written)

RecInv == OneInv /\ CountInv /\ FileInv

\* The requests for which the second pass of a worker goes through every
\* record but the first: a computation of Pass2 that has no state.
EveryRecord == \A r \in Requests : Rec2[r] \in Nat /\ 1 + Rec2[r] = Ttl(r)
=============================================================================
