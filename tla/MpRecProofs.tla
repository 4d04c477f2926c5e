---------------------------- MODULE MpRecProofs ----------------------------
(***************************************************************************)
(* Proofs about MpRecords, for any number of processes, variables and      *)
(* records: who may have the output file open, and what is in it when it   *)
(* is moved.                                                               *)
(***************************************************************************)
EXTENDS MpRecords, NaturalsInduction, SequenceTheorems, FiniteSetTheorems, TLAPS

-----------------------------------------------------------------------------
(* Types.                                                                  *)

LEMMA ProtocolTypeInit ==
  ASSUME MpInit
  PROVE  ProtocolTypeOK
<1>1. 0 \in 0..(prc_nbr - 1) /\ 0 \in 0..nbr_var_prc /\ -1 \in -1..(prc_nbr - 1)
  BY PrcNbrAssumption, NbrVarAssumption
<1>2. <<>> \in Seq({"tkn_wrt_rqs", "wrk_done"}) /\ {} \subseteq 0..(prc_nbr - 1)
  OBVIOUS
<1> QED
  BY <1>1, <1>2 DEF MpInit, ProtocolTypeOK, Lcl

LEMMA NextRankType ==
  ASSUME NEW w \in Worker
  PROVE  NextRank(w) \in 0..(prc_nbr - 1) /\ NextRank(w) \in -1..(prc_nbr - 1)
BY PrcNbrAssumption DEF NextRank, Worker, rnk_mgr

LEMMA ProtocolTypeStep ==
  ASSUME ProtocolTypeOK, MpNext
  PROVE  ProtocolTypeOK'
<1> USE DEF ProtocolTypeOK, asg, mgr_vars, wrk_vars, fl_vars
<1>1. 0 \in 0..(prc_nbr - 1) /\ 1 \in -1..(prc_nbr - 1) /\ 0 \in 0..nbr_var_prc
  BY PrcNbrAssumption, NbrVarAssumption
<1>2. Worker \subseteq 0..(prc_nbr - 1)
  BY PrcNbrAssumption DEF Worker
<1>3. CASE Mgr
  BY <1>1, <1>3 DEF Mgr, MgrRec, MgrOpen, MgrClose, MgrMove, rnk_mgr
<1>4. ASSUME NEW w \in Worker, Serve(w)
      PROVE  ProtocolTypeOK'
  <2>1. chn[w] # <<>> /\ chn' = [chn EXCEPT ![w] = Tail(@)]
    BY <1>4 DEF Serve, MgrDone, MgrTkn
  <2>2. chn' \in [Worker -> Seq({"tkn_wrt_rqs", "wrk_done"})]
  <3>1. chn[w] \in Seq({"tkn_wrt_rqs", "wrk_done"})
    OBVIOUS
  <3>2. Tail(chn[w]) \in Seq({"tkn_wrt_rqs", "wrk_done"})
    BY <2>1, <3>1, HeadTailProperties
  <3> QED
    BY <2>1, <3>2
  <2>3. CASE MgrDone(w)
    BY <2>2, <2>3 DEF MgrDone
  <2>4. CASE MgrTkn(w)
  <3>1. w \in 0..(prc_nbr - 1) /\ var_wrt_nbr + 1 \in 0..nbr_var_prc
    BY <1>2, <2>4, NbrVarAssumption DEF MgrTkn, Serving
  <3>2. CASE Free(w)
    BY <2>2, <2>4, <3>1, <3>2 DEF MgrTkn
  <3>3. CASE ~Free(w)
    BY <2>2, <2>4, <3>3 DEF MgrTkn
  <3> QED
    BY <3>2, <3>3
  <2> QED
    BY <1>4, <2>3, <2>4 DEF Serve
<1>5. ASSUME NEW w \in Worker, Wrk(w)
      PROVE  ProtocolTypeOK'
  <2>1. CASE WrkAcc(w)
    BY <2>1 DEF WrkAcc
  <2>2. CASE WrkTknRqs(w)
    BY <2>2 DEF WrkTknRqs
  <2>3. CASE WrkDenied(w)
    BY <2>3 DEF WrkDenied
  <2>4. CASE WrkOpen(w)
    BY <1>2, <2>4 DEF WrkOpen
  <2>5. CASE WrkWrite(w)
    BY <2>5 DEF WrkWrite
  <2>6. CASE WrkDone(w)
    BY <2>6 DEF WrkDone, Lcl
  <2>7. CASE WrkFinal(w)
  <3>1. NextRank(w) \in -1..(prc_nbr - 1) /\ opn \union {w} \subseteq 0..(prc_nbr - 1)
    BY <1>2, NextRankType
  <3>2. CASE prg = "ncra"
    BY <2>7, <3>1, <3>2 DEF WrkFinal
  <3>3. CASE prg # "ncra"
    BY <2>7, <3>1, <3>3 DEF WrkFinal
  <3> QED
    BY <3>2, <3>3
  <2>8. CASE WrkAverages(w)
  <3>1. NextRank(w) \in -1..(prc_nbr - 1) /\ opn \ {w} \subseteq 0..(prc_nbr - 1)
    BY NextRankType
  <3> QED
    BY <2>8, <3>1 DEF WrkAverages
  <2> QED
    BY <1>5, <2>1, <2>2, <2>3, <2>4, <2>5, <2>6, <2>7, <2>8 DEF Wrk
<1>6. CASE UNCHANGED vars
  BY <1>6 DEF vars
<1> QED
  BY <1>3, <1>4, <1>5, <1>6 DEF MpNext

-----------------------------------------------------------------------------
(* The final token goes round once, and the file is open where it is        *)
(* written.                                                                *)

LEMMA NextRankPast ==
  ASSUME NEW w \in Worker, NEW u \in Worker
  PROVE  (NextRank(w) = rnk_mgr \/ (NextRank(w) > 0 /\ u < NextRank(w))) <=> u <= w
BY PrcNbrAssumption DEF NextRank, Worker, rnk_mgr

\* Who passes the final token on is done, and so are those before it.
LEMMA PassedOn ==
  ASSUME ProtocolTypeOK, PassInv, NEW w \in Worker, rng = w, wrk[w] # "done",
         wrk' = [wrk EXCEPT ![w] = "done"], rng' = NextRank(w)
  PROVE  \A u \in Worker :
           wrk'[u] = "done" <=> rng' = rnk_mgr \/ (rng' > 0 /\ u < rng')
<1> SUFFICES ASSUME NEW u \in Worker
             PROVE  wrk'[u] = "done" <=> u <= w
  BY NextRankPast
<1>1. wrk[u] = "done" <=> u < w
  BY DEF PassInv, Worker, rnk_mgr
<1> QED
  BY <1>1 DEF ProtocolTypeOK, Worker

LEMMA PassInit ==
  ASSUME MpInit
  PROVE  PassInv
BY DEF MpInit, PassInv, rnk_mgr

LEMMA PassMgr ==
  ASSUME ProtocolTypeOK, PassInv, Mgr
  PROVE  PassInv'
<1> USE PrcNbrAssumption
    DEF ProtocolTypeOK, PassInv, asg, mgr_vars, wrk_vars, fl_vars, Worker, rnk_mgr
<1>1. CASE MgrRec
  BY <1>1 DEF MgrRec
<1>2. CASE MgrOpen
  BY <1>2 DEF MgrOpen
<1>3. CASE MgrClose
  BY <1>3 DEF MgrClose
<1>4. CASE MgrMove
  BY <1>4 DEF MgrMove
<1> QED
  BY <1>1, <1>2, <1>3, <1>4 DEF Mgr

LEMMA PassServe ==
  ASSUME PassInv, NEW w \in Worker, Serve(w)
  PROVE  PassInv'
<1>1. UNCHANGED <<mgr, fl, opn, rng, wrk, prg>>
  BY DEF Serve, MgrDone, MgrTkn, asg, wrk_vars, fl_vars
<1> QED
  BY <1>1 DEF PassInv

LEMMA PassWrk ==
  ASSUME ProtocolTypeOK, PassInv, NEW w \in Worker, Wrk(w)
  PROVE  PassInv'
<1> USE DEF ProtocolTypeOK, PassInv, asg, mgr_vars, wrk_vars, fl_vars, rnk_mgr
<1>1. /\ w # 0 /\ w # -1 /\ w > 0 /\ w \in Int
      /\ NextRank(w) # -1
  BY NextRankType DEF Worker
<1>2. CASE WrkAcc(w)
  BY <1>2 DEF WrkAcc
<1>3. CASE WrkTknRqs(w)
  BY <1>1, <1>3 DEF WrkTknRqs
<1>4. CASE WrkDenied(w)
  BY <1>1, <1>4 DEF WrkDenied
<1>5. CASE WrkOpen(w)
  BY <1>1, <1>5 DEF WrkOpen
<1>6. CASE WrkWrite(w)
  BY <1>1, <1>6 DEF WrkWrite
<1>7. CASE WrkDone(w)
  BY <1>7 DEF WrkDone
<1>8. CASE WrkFinal(w)
  <2>1. CASE prg = "ncra"
    <3>1. /\ wrk' = [wrk EXCEPT ![w] = "final"] /\ rng = w /\ wrk[w] = "loop"
          /\ opn' = opn \union {w} /\ UNCHANGED <<rng, prg, mgr, fl>>
      BY <1>8, <2>1 DEF WrkFinal
    <3>2. {u \in Worker : wrk'[u] \in {"write", "final"}}
          = {u \in Worker : wrk[u] \in {"write", "final"}} \union {w}
      BY <3>1
    <3>3. opn' = {u \in Worker : wrk'[u] \in {"write", "final"}}
                 \union (IF mgr' = "fix" THEN {rnk_mgr} ELSE {})
      <4> HIDE DEF ProtocolTypeOK
      <4> QED
        BY <3>1, <3>2
    <3> QED
      BY <1>1, <2>1, <3>1, <3>3
  <2>2. CASE prg # "ncra"
    <3>1. opn' = {u \in Worker : wrk'[u] \in {"write", "final"}}
                 \union (IF mgr' = "fix" THEN {rnk_mgr} ELSE {})
      BY <1>1, <1>8, <2>2 DEF WrkFinal
    <3> QED
      BY <1>1, <1>8, <2>2, <3>1, PassedOn DEF WrkFinal
  <2> QED
    BY <2>1, <2>2
<1>9. CASE WrkAverages(w)
  <2>1. rng = w /\ wrk[w] # "done"
    BY <1>9 DEF WrkAverages
  <2>2. opn' = {u \in Worker : wrk'[u] \in {"write", "final"}}
               \union (IF mgr' = "fix" THEN {rnk_mgr} ELSE {})
    BY <1>1, <1>9 DEF WrkAverages
  <2> QED
    BY <1>1, <1>9, <2>1, <2>2, PassedOn DEF WrkAverages
<1> QED
  BY <1>2, <1>3, <1>4, <1>5, <1>6, <1>7, <1>8, <1>9 DEF Wrk

LEMMA PassStep ==
  ASSUME ProtocolTypeOK, PassInv, MpNext
  PROVE  PassInv'
<1>1. CASE UNCHANGED vars
  BY <1>1 DEF vars, asg, mgr_vars, wrk_vars, fl_vars, PassInv
<1> QED
  BY <1>1, PassMgr, PassServe, PassWrk DEF MpNext

-----------------------------------------------------------------------------
(* Variables to do.                                                        *)

LEMMA TodoInit ==
  ASSUME MpInit
  PROVE  TodoInv
BY DEF MpInit, TodoInv

LEMMA TodoStep ==
  ASSUME ProtocolTypeOK, PassInv, TodoInv, MpNext
  PROVE  TodoInv'
<1> USE DEF ProtocolTypeOK, asg, mgr_vars, wrk_vars, fl_vars
<1>1. UNCHANGED <<prg, lcl>>
  BY DEF MpNext, Mgr, MgrRec, MgrOpen, MgrClose, MgrMove, Serve, MgrDone, MgrTkn, Wrk, WrkAcc,
    WrkTknRqs, WrkDenied, WrkOpen, WrkWrite, WrkDone, WrkFinal, WrkAverages, vars
<1>2. \A u \in Worker : Lcl(u)' = Lcl(u)
  BY <1>1 DEF Lcl
<1>3. ASSUME UNCHANGED <<wrk, todo>>
      PROVE  TodoInv'
  BY <1>1, <1>2, <1>3 DEF TodoInv
<1>4. CASE Mgr \/ UNCHANGED vars
  BY <1>3, <1>4 DEF Mgr, MgrRec, MgrOpen, MgrClose, MgrMove, vars
<1>5. ASSUME NEW w \in Worker, Serve(w)
      PROVE  TodoInv'
  BY <1>3, <1>5 DEF Serve, MgrDone, MgrTkn
<1>6. ASSUME NEW w \in Worker, Wrk(w)
      PROVE  TodoInv'
  <2>1. \A u \in Worker \ {w} : wrk'[u] = wrk[u] /\ todo'[u] = todo[u]
    BY <1>6 DEF Wrk, WrkAcc, WrkTknRqs, WrkDenied, WrkOpen, WrkWrite, WrkDone, WrkFinal, WrkAverages
  <2>2. CASE WrkWrite(w)
    <3>1. PICK v \in todo[w] : todo' = [todo EXCEPT ![w] = @ \ {v}]
      BY <2>2 DEF WrkWrite
    <3>2. todo'[w] \subseteq Lcl(w) /\ wrk'[w] = "loop" /\ prg # "ncra"
      BY <2>2, <3>1 DEF WrkWrite, PassInv, TodoInv
    <3> QED
      BY <1>1, <1>2, <2>1, <3>2 DEF TodoInv
  <2>3. CASE WrkDone(w)
    <3>1. todo'[w] = Lcl(w) /\ wrk'[w] = "loop"
      BY <2>3 DEF WrkDone
    <3> QED
      BY <1>1, <1>2, <2>1, <3>1 DEF TodoInv
  <2>4. CASE ~WrkWrite(w) /\ ~WrkDone(w)
    <3>1. todo' = todo /\ (wrk'[w] \in {"tkn_rsp", "write"} => todo[w] # {})
      BY <1>6, <2>4 DEF TodoInv, Wrk, WrkAcc, WrkTknRqs, WrkDenied, WrkOpen, WrkFinal, WrkAverages
    <3> QED
      BY <1>1, <1>2, <2>1, <3>1 DEF TodoInv
  <2> QED
    BY <2>2, <2>3, <2>4
<1> QED
  BY <1>1, <1>4, <1>5, <1>6 DEF MpNext

-----------------------------------------------------------------------------
(* The token.                                                              *)

LEMMA TokenInit ==
  ASSUME MpInit
  PROVE  TokenInv
BY DEF MpInit, TokenInv, Messages, Asks, Has, DonePending

\* The four operators of the invariant say the same of a worker whose
\* variables are as they were.
LEMMA SameWorker ==
  ASSUME NEW u \in Worker, wrk'[u] = wrk[u], rsp'[u] = rsp[u], chn'[u] = chn[u],
         todo'[u] = todo[u], lcl' = lcl
  PROVE  /\ Asks(u)' = Asks(u) /\ DonePending(u)' = DonePending(u)
         /\ Messages(u)' = Messages(u) /\ Has(u)' = Has(u) /\ Lcl(u)' = Lcl(u)
BY DEF Asks, DonePending, Messages, Has, Lcl

LEMMA ShortMessages ==
  /\ Head(<<"tkn_wrt_rqs">>) = "tkn_wrt_rqs" /\ Tail(<<"tkn_wrt_rqs">>) = <<>>
  /\ Head(<<"wrk_done">>) = "wrk_done" /\ Tail(<<"wrk_done">>) = <<>>
  /\ Head(<<"wrk_done", "tkn_wrt_rqs">>) = "wrk_done"
  /\ Tail(<<"wrk_done", "tkn_wrt_rqs">>) = <<"tkn_wrt_rqs">>
  /\ Append(<<>>, "tkn_wrt_rqs") = <<"tkn_wrt_rqs">>
  /\ Append(<<>>, "wrk_done") = <<"wrk_done">>
  /\ Append(<<"wrk_done">>, "tkn_wrt_rqs") = <<"wrk_done", "tkn_wrt_rqs">>
  /\ <<"tkn_wrt_rqs">> # <<>> /\ <<"wrk_done">> # <<>> /\ <<"wrk_done", "tkn_wrt_rqs">> # <<>>
<1>1. Append(<<"wrk_done">>, "tkn_wrt_rqs") = <<"wrk_done", "tkn_wrt_rqs">>
  <2> DEFINE S == {"wrk_done", "tkn_wrt_rqs"}
             s == Append(<<"wrk_done">>, "tkn_wrt_rqs")
             t == <<"wrk_done", "tkn_wrt_rqs">>
  <2>1. <<"wrk_done">> \in Seq(S) /\ "tkn_wrt_rqs" \in S /\ Len(<<"wrk_done">>) = 1
    OBVIOUS
  <2>2. s \in Seq(S) /\ Len(s) = 2 /\ s[1] = "wrk_done" /\ s[2] = "tkn_wrt_rqs"
    BY <2>1, AppendProperties
  <2>3. t \in Seq(S) /\ Len(t) = 2 /\ t[1] = "wrk_done" /\ t[2] = "tkn_wrt_rqs"
    OBVIOUS
  <2>4. \A i \in 1..2 : s[i] = t[i]
    BY <2>2, <2>3
  <2> HIDE DEF s, t
  <2>5. s = t
    BY <2>2, <2>3, <2>4, SeqEqual
  <2> QED
    BY <2>5 DEF s, t
<1> QED
  BY <1>1

\* What the invariant says of one worker.
Token(u) ==
  /\ chn[u] \in Messages(u)
  /\ rsp[u] # "none" => wrk[u] = "tkn_rsp" /\ chn[u] = <<>>
  /\ DonePending(u) => todo[u] = Lcl(u) /\ wrk[u] # "write"
  /\ Has(u) => ~TKN_WRT_FREE /\ tkn_wrt_rnk = u

\* The manager hears that a record is done.
LEMMA TokenDone ==
  ASSUME ProtocolTypeOK, \A u \in Worker : Token(u), NEW w \in Worker, MgrDone(w)
  PROVE  \A u \in Worker : Token(u)'
<1>1. /\ DonePending(w) /\ chn' = [chn EXCEPT ![w] = Tail(@)] /\ TKN_WRT_FREE' = TRUE
      /\ UNCHANGED <<wrk, rsp, todo, lcl, tkn_wrt_rnk>>
  BY DEF MgrDone, DonePending, asg, wrk_vars
<1>2. ~TKN_WRT_FREE /\ tkn_wrt_rnk = w /\ rsp[w] = "none" /\ todo[w] = Lcl(w) /\ wrk[w] # "write"
  BY <1>1 DEF Token, Has, DonePending, ProtocolTypeOK
<1>3. Token(w)'
  <2>1. chn'[w] \in Messages(w)' /\ ~DonePending(w)'
    BY <1>1, <1>2, ShortMessages DEF Token, Messages, Asks, DonePending, ProtocolTypeOK
  <2>2. Lcl(w)' = Lcl(w) /\ ~Has(w)'
    BY <1>1, <1>2, <2>1 DEF Lcl, Has
  <2> QED
    BY <1>1, <1>2, <2>1, <2>2 DEF Token
<1>4. ASSUME NEW u \in Worker, u # w
      PROVE  Token(u)'
  <2>1. ~Has(u)
    BY <1>2, <1>4 DEF Token
  <2>2. chn'[u] = chn[u]
    BY <1>1, <1>4 DEF ProtocolTypeOK
  <2> QED
    BY <1>1, <2>1, <2>2, SameWorker DEF Token
<1> QED
  BY <1>3, <1>4

\* The manager answers a request.
LEMMA TokenAnswer ==
  ASSUME ProtocolTypeOK, \A u \in Worker : Token(u), NEW w \in Worker, MgrTkn(w)
  PROVE  \A u \in Worker : Token(u)'
<1>1. /\ chn[w] # <<>> /\ Head(chn[w]) = "tkn_wrt_rqs" /\ chn' = [chn EXCEPT ![w] = Tail(@)]
      /\ TKN_WRT_FREE' = FALSE /\ UNCHANGED <<wrk, todo, lcl>>
  BY DEF MgrTkn, asg, wrk_vars
<1>2. ~DonePending(w)
  BY <1>1 DEF DonePending
<1>3. chn[w] = <<"tkn_wrt_rqs">> /\ Asks(w)
  BY <1>1, <1>2, ShortMessages DEF Token, Messages, DonePending
<1>4. chn'[w] = <<>> /\ wrk'[w] = "tkn_rsp" /\ ~DonePending(w)' /\ ~Asks(w)'
  <2>1. chn'[w] = <<>> /\ wrk'[w] = "tkn_rsp"
    BY <1>1, <1>3, ShortMessages DEF Asks, ProtocolTypeOK
  <2>2. rsp'[w] # "none"
    <3>1. CASE Free(w)
      BY <3>1 DEF MgrTkn, ProtocolTypeOK
    <3>2. CASE ~Free(w)
      BY <3>2 DEF MgrTkn, ProtocolTypeOK
    <3> QED
      BY <3>1, <3>2
  <2> QED
    BY <2>1, <2>2 DEF DonePending, Asks
<1>5. chn'[w] \in Messages(w)'
  BY <1>4 DEF Messages
<1>6. \A u \in Worker \ {w} : chn'[u] = chn[u] /\ rsp'[u] = rsp[u]
  BY DEF MgrTkn, ProtocolTypeOK
<1>7. CASE Free(w)
  <2>1. rsp' = [rsp EXCEPT ![w] = "xcp"] /\ tkn_wrt_rnk' = w
    BY <1>7 DEF MgrTkn
  <2>2. Token(w)'
    BY <1>1, <1>4, <1>5, <2>1 DEF Token
  <2>3. ASSUME NEW u \in Worker, u # w
        PROVE  Token(u)'
    <3>1. ~Has(u)
      BY <1>7, <2>3 DEF Token, Free
    <3> QED
      BY <1>1, <1>6, <2>3, <3>1, SameWorker DEF Token
  <2> QED
    BY <2>2, <2>3
<1>8. CASE ~Free(w)
  <2>1. rsp' = [rsp EXCEPT ![w] = "dny"] /\ tkn_wrt_rnk' = tkn_wrt_rnk /\ ~TKN_WRT_FREE
    BY <1>8 DEF MgrTkn, Free
  <2>2. todo[w] = Lcl(w) /\ todo'[w] = todo[w] /\ Lcl(w)' = Lcl(w)
    BY <1>1, <1>8 DEF Token, Has, Free, Lcl
  <2>3. ~Has(w)'
    BY <1>4, <2>1, <2>2 DEF Has, ProtocolTypeOK
  <2>4. Token(w)'
    BY <1>4, <1>5, <2>3 DEF Token
  <2>5. ASSUME NEW u \in Worker, u # w
        PROVE  Token(u)'
    BY <1>1, <1>6, <2>1, <2>5, SameWorker DEF Token
  <2> QED
    BY <2>4, <2>5
<1> QED
  BY <1>7, <1>8

\* A worker's own steps.
LEMMA TokenWrk ==
  ASSUME ProtocolTypeOK, PassInv, \A u \in Worker : Token(u), NEW w \in Worker, Wrk(w),
         prg = "ncrcat", Lcl(w) # {}
  PROVE  \A u \in Worker : Token(u)'
<1>1. UNCHANGED <<lcl, TKN_WRT_FREE, tkn_wrt_rnk>>
  BY DEF Wrk, WrkAcc, WrkTknRqs, WrkDenied, WrkOpen, WrkWrite, WrkDone, WrkFinal, WrkAverages,
    asg, mgr_vars
<1>2. \A u \in Worker \ {w} : wrk'[u] = wrk[u] /\ rsp'[u] = rsp[u] /\ chn'[u] = chn[u]
                              /\ todo'[u] = todo[u]
  BY DEF Wrk, WrkAcc, WrkTknRqs, WrkDenied, WrkOpen, WrkWrite, WrkDone, WrkFinal, WrkAverages,
    wrk_vars, ProtocolTypeOK
<1>3. \A u \in Worker \ {w} : Token(u)'
  BY <1>1, <1>2, SameWorker DEF Token
<1>4. Lcl(w)' = Lcl(w)
  BY <1>1 DEF Lcl
<1>5. wrk[w] # "tkn_rsp" => rsp[w] = "none" /\ chn[w] \in {<<>>, <<"wrk_done">>}
  BY DEF Token, Messages, Asks
<1> USE DEF ProtocolTypeOK, wrk_vars
<1>6. CASE WrkTknRqs(w)
  <2>1. /\ chn' = [chn EXCEPT ![w] = Append(@, "tkn_wrt_rqs")] /\ wrk' = [wrk EXCEPT ![w] = "tkn_rsp"]
        /\ wrk[w] = "loop" /\ rsp[w] = "none" /\ UNCHANGED <<rsp, todo>>
    BY <1>5, <1>6 DEF WrkTknRqs
  <2>2. chn'[w] \in Messages(w)'
    BY <1>5, <2>1, ShortMessages DEF Messages, Asks
  <2>3. DonePending(w)' <=> DonePending(w)
    BY <1>5, <2>1, ShortMessages DEF DonePending
  <2>4. Has(w)' => Has(w)
    BY <1>4, <2>1, <2>3 DEF Has
  <2>5. Token(w)'
    BY <1>1, <1>4, <2>1, <2>2, <2>3, <2>4 DEF Token
  <2> QED
    BY <1>3, <2>5
<1>7. CASE WrkDenied(w)
  <2>1. /\ rsp' = [rsp EXCEPT ![w] = "none"] /\ wrk' = [wrk EXCEPT ![w] = "loop"]
        /\ chn[w] = <<>> /\ UNCHANGED <<chn, todo>>
    BY <1>7 DEF WrkDenied, Token
  <2>2. chn'[w] \in Messages(w)' /\ ~DonePending(w)' /\ (Has(w)' => Has(w))
    BY <1>4, <2>1 DEF Messages, Asks, DonePending, Has
  <2>3. Token(w)'
    BY <1>1, <2>1, <2>2 DEF Token
  <2> QED
    BY <1>3, <2>3
<1>8. CASE WrkOpen(w)
  <2>1. /\ rsp' = [rsp EXCEPT ![w] = "none"] /\ wrk' = [wrk EXCEPT ![w] = "write"]
        /\ chn[w] = <<>> /\ Has(w) /\ UNCHANGED <<chn, todo>>
    BY <1>8 DEF WrkOpen, Token, Has
  <2>2. chn'[w] \in Messages(w)' /\ ~DonePending(w)'
    BY <2>1 DEF Messages, Asks, DonePending
  <2>3. Token(w)'
    BY <1>1, <2>1, <2>2 DEF Token
  <2> QED
    BY <1>3, <2>3
<1>9. CASE WrkWrite(w)
  <2>1. /\ wrk[w] = "write" /\ wrk' = [wrk EXCEPT ![w] = "loop"]
        /\ Has(w) /\ rsp[w] = "none" /\ UNCHANGED <<chn, rsp>>
    BY <1>5, <1>9 DEF WrkWrite, Has
  <2>2. chn[w] = <<>>
    BY <1>5, <2>1, ShortMessages DEF Token, DonePending
  <2>3. chn'[w] \in Messages(w)' /\ ~DonePending(w)'
    BY <2>1, <2>2 DEF Messages, Asks, DonePending
  <2>4. Token(w)'
    BY <1>1, <2>1, <2>3 DEF Token
  <2> QED
    BY <1>3, <2>4
<1>10. CASE WrkDone(w)
  <2>1. /\ todo[w] = {} /\ wrk[w] = "loop" /\ rsp[w] = "none" /\ UNCHANGED <<rsp, wrk>>
        /\ chn' = [chn EXCEPT ![w] = Append(@, "wrk_done")] /\ todo'[w] = Lcl(w)
    BY <1>5, <1>10 DEF WrkDone
  <2>2. Has(w) /\ chn[w] = <<>>
    BY <1>5, <2>1, ShortMessages DEF Token, DonePending, Has
  <2>3. chn'[w] \in Messages(w)'
    BY <2>1, <2>2, ShortMessages DEF Messages, Asks
  <2>4. Token(w)'
    BY <1>1, <1>4, <2>1, <2>2, <2>3 DEF Token
  <2> QED
    BY <1>3, <2>4
<1>11. CASE WrkFinal(w)
  <2>1. /\ wrk[w] = "loop" /\ rsp[w] = "none" /\ wrk' = [wrk EXCEPT ![w] = "done"]
        /\ UNCHANGED <<chn, rsp, todo>>
    BY <1>5, <1>11 DEF WrkFinal
  <2>2. chn'[w] \in Messages(w)' /\ (DonePending(w)' <=> DonePending(w)) /\ (Has(w)' => Has(w))
    BY <1>4, <1>5, <2>1 DEF Messages, Asks, DonePending, Has
  <2>3. Token(w)'
    BY <1>1, <1>4, <2>1, <2>2 DEF Token
  <2> QED
    BY <1>3, <2>3
<1>12. ~WrkAcc(w) /\ ~WrkAverages(w)
  BY DEF WrkAcc, WrkAverages, PassInv
<1> QED
  BY <1>6, <1>7, <1>8, <1>9, <1>10, <1>11, <1>12 DEF Wrk

LEMMA TokenStep ==
  ASSUME ProtocolTypeOK, PassInv, TokenInv, MpNext
  PROVE  TokenInv'
<1> SUFFICES ASSUME prg' = "ncrcat", \A u \in Worker : Lcl(u)' # {}
             PROVE  \A u \in Worker : Token(u)'
  BY DEF TokenInv, Token
<1>1. UNCHANGED <<prg, lcl>>
  BY DEF MpNext, Mgr, MgrRec, MgrOpen, MgrClose, MgrMove, Serve, MgrDone, MgrTkn, Wrk, WrkAcc,
    WrkTknRqs, WrkDenied, WrkOpen, WrkWrite, WrkDone, WrkFinal, WrkAverages, vars, asg
<1>2. prg = "ncrcat" /\ \A u \in Worker : Lcl(u) # {}
  BY <1>1 DEF Lcl
<1>3. \A u \in Worker : Token(u)
  BY <1>2 DEF TokenInv, Token
<1>4. CASE Mgr \/ UNCHANGED vars
  <2>1. UNCHANGED <<wrk, rsp, chn, todo, lcl, TKN_WRT_FREE, tkn_wrt_rnk>>
    BY <1>4 DEF Mgr, MgrRec, MgrOpen, MgrClose, MgrMove, vars, asg, mgr_vars, wrk_vars
  <2> QED
    BY <1>3, <2>1, SameWorker DEF Token
<1> QED
  BY <1>2, <1>3, <1>4, TokenDone, TokenAnswer, TokenWrk DEF MpNext, Serve

-----------------------------------------------------------------------------
(* One process at a time.                                                  *)

LEMMA OneInvariant == MpSpec => [](ProtocolTypeOK /\ OneInv)
<1>1. MpInit => ProtocolTypeOK /\ OneInv
  BY ProtocolTypeInit, PassInit, TodoInit, TokenInit DEF OneInv
<1>2. ASSUME ProtocolTypeOK, OneInv, [MpNext]_vars
      PROVE  ProtocolTypeOK' /\ OneInv'
  <2>1. MpNext \/ UNCHANGED vars
    BY <1>2
  <2>2. CASE MpNext
    BY <1>2, <2>2, ProtocolTypeStep, PassStep, TodoStep, TokenStep DEF OneInv
  <2>3. CASE UNCHANGED vars
    BY <1>2, <2>3 DEF vars, asg, mgr_vars, wrk_vars, fl_vars, ProtocolTypeOK, OneInv, PassInv,
      TodoInv, TokenInv, Lcl, Messages, Asks, Has, DonePending
  <2> QED
    BY <2>1, <2>2, <2>3
<1> QED
  BY <1>1, <1>2, PTL DEF MpSpec

LEMMA AtMostOne ==
  ASSUME NEW S, NEW x, S \subseteq {x}
  PROVE  Cardinality(S) <= 1
<1>1. IsFiniteSet({x}) /\ Cardinality({x}) = 1
  BY FS_Singleton
<1> QED
  BY <1>1, FS_Subset

LEMMA OneInvSays ==
  ASSUME ProtocolTypeOK, OneInv
  PROVE  OneAtATime
<1> USE DEF OneInv, PassInv
<1>1. CASE prg = "ncra"
  <2>1. CASE mgr = "fix"
    <3>1. opn \subseteq {rnk_mgr}
      BY <1>1, <2>1 DEF Worker
    <3> QED
      BY <3>1, AtMostOne DEF OneAtATime
  <2>2. CASE mgr # "fix"
    <3>1. opn \subseteq {rng}
      BY <1>1, <2>2
    <3> QED
      BY <3>1, AtMostOne DEF OneAtATime
  <2> QED
    BY <2>1, <2>2
<1>2. CASE prg = "ncrcat" /\ rnk_mgr \notin opn /\ \A w \in Worker : Lcl(w) # {}
  <2>1. opn \subseteq {tkn_wrt_rnk}
    BY <1>2 DEF TokenInv, Has, rnk_mgr
  <2> QED
    BY <2>1, AtMostOne DEF OneAtATime
<1> QED
  BY <1>1, <1>2 DEF OneAtATime, ProtocolTypeOK

\* For any number of processes, variables and requests, two processes have
\* the output file open at once only in mpncrcat, and only if one of them is
\* the manager or some worker has no variable (main() of mpncra.c: the write
\* token, and the final token from rank to rank).
THEOREM MpOneAtATime == MpSpec => []OneAtATime
BY OneInvariant, OneInvSays, PTL

-----------------------------------------------------------------------------
(* Records counted.                                                        *)

LEMMA CountInit ==
  ASSUME MpInit, EveryRecord
  PROVE  Rec2[rqs] \in Nat /\ left \in [Worker -> Nat] /\ CountInv
<1>1. Rec2[rqs] \in Nat /\ Rec2[rqs] = Pass2(rqs, TRUE)
  BY DEF MpInit, EveryRecord, Rec2
<1>2. /\ left = [w \in Worker |-> Rec2[rqs]] /\ rec_usd_cml = [w \in Worker |-> 1]
      /\ todo = [w \in Worker |-> Lcl(w)] /\ wrk = [w \in Worker |-> "loop"]
  BY <1>1 DEF MpInit
<1>3. left \in [Worker -> Nat]
  BY <1>1, <1>2
<1>4. ASSUME NEW w \in Worker
      PROVE  left[w] + rec_usd_cml[w] = 1 + Rec2[rqs] /\ todo[w] = Lcl(w) /\ wrk[w] = "loop"
  <2>1. left[w] = Rec2[rqs] /\ rec_usd_cml[w] = 1
    BY <1>2
  <2>2. todo[w] = Lcl(w) /\ wrk[w] = "loop"
    BY <1>2
  <2>3. left[w] + rec_usd_cml[w] = 1 + Rec2[rqs]
    <3>1. Rec2[rqs] \in Nat
      BY <1>1
    <3> QED
      BY <2>1, <3>1
  <2> QED
    BY <2>2, <2>3
<1> QED
  BY <1>1, <1>3, <1>4 DEF CountInv

\* What the invariant says of one worker.
Count(u) ==
  /\ left[u] + rec_usd_cml[u] = 1 + Rec2[rqs]
  /\ left[u] = 0 => todo[u] = Lcl(u) /\ wrk[u] \in {"loop", "final", "done"}
  /\ wrk[u] \in {"final", "done"} => left[u] = 0

LEMMA Asked ==
  ASSUME MpNext
  PROVE  /\ UNCHANGED <<rqs, prg, lcl>> /\ Rec2[rqs]' = Rec2[rqs]
         /\ \A u \in Worker : Lcl(u)' = Lcl(u)
<1>1. UNCHANGED <<rqs, prg, lcl>>
  BY DEF MpNext, Mgr, MgrRec, MgrOpen, MgrClose, MgrMove, Serve, MgrDone, MgrTkn, Wrk, WrkAcc,
    WrkTknRqs, WrkDenied, WrkOpen, WrkWrite, WrkDone, WrkFinal, WrkAverages, vars, asg
<1>2. Rec2[rqs]' = Rec2[rqs]
  BY <1>1
<1> QED
  BY <1>1, <1>2 DEF Lcl

\* The records a worker has been through.
LEMMA CountWrk ==
  ASSUME ProtocolTypeOK, left \in [Worker -> Nat], TodoInv, NEW w \in Worker, Count(w), Wrk(w),
         Lcl(w)' = Lcl(w), Rec2[rqs]' = Rec2[rqs], Rec2[rqs] \in Nat
  PROVE  left' \in [Worker -> Nat] /\ Count(w)'
<1> USE DEF ProtocolTypeOK, wrk_vars
<1>1. CASE WrkAcc(w) \/ WrkDone(w)
  <2>1. /\ left[w] > 0 /\ wrk' = wrk /\ wrk[w] = "loop"
        /\ left' = [left EXCEPT ![w] = @ - 1] /\ rec_usd_cml' = [rec_usd_cml EXCEPT ![w] = @ + 1]
    BY <1>1 DEF WrkAcc, WrkDone
  <2>2. todo'[w] = Lcl(w)
    BY <1>1 DEF WrkAcc, WrkDone, TodoInv
  <2>3. left' \in [Worker -> Nat] /\ left'[w] = left[w] - 1 /\ rec_usd_cml'[w] = rec_usd_cml[w] + 1
    BY <2>1
  <2>4. left'[w] + rec_usd_cml'[w] = left[w] + rec_usd_cml[w]
    <3>1. left[w] \in Nat /\ rec_usd_cml[w] \in Nat
      OBVIOUS
    <3> QED
      BY ONLY <2>3, <3>1
  <2> QED
    BY <2>1, <2>2, <2>3, <2>4 DEF Count
<1>2. CASE WrkFinal(w) \/ WrkAverages(w)
  <2>1. UNCHANGED <<left, todo, rec_usd_cml>> /\ left[w] = 0
    BY <1>2 DEF WrkFinal, WrkAverages, Count
  <2>2. wrk'[w] \in {"final", "done"}
    BY <1>2 DEF WrkFinal, WrkAverages
  <2> QED
    BY <2>1, <2>2 DEF Count
<1>3. CASE WrkTknRqs(w) \/ WrkDenied(w) \/ WrkOpen(w) \/ WrkWrite(w)
  <2>1. UNCHANGED <<left, rec_usd_cml>> /\ left[w] # 0
    BY <1>3 DEF WrkTknRqs, WrkDenied, WrkOpen, WrkWrite, Count
  <2>2. wrk'[w] \notin {"final", "done"}
    BY <1>3 DEF WrkTknRqs, WrkDenied, WrkOpen, WrkWrite
  <2> QED
    BY <2>1, <2>2 DEF Count
<1> QED
  BY <1>1, <1>2, <1>3 DEF Wrk

LEMMA CountStep ==
  ASSUME ProtocolTypeOK, left \in [Worker -> Nat], Rec2[rqs] \in Nat, TodoInv,
         CountInv, MpNext
  PROVE  left' \in [Worker -> Nat] /\ CountInv'
<1>1. \A u \in Worker : Count(u)
  BY DEF CountInv, Count
<1>2. ASSUME UNCHANGED <<wrk, left, todo, rec_usd_cml>>
      PROVE  left' \in [Worker -> Nat] /\ CountInv'
  BY <1>2, Asked DEF CountInv
<1>3. CASE Mgr \/ UNCHANGED vars
  BY <1>2, <1>3 DEF Mgr, MgrRec, MgrOpen, MgrClose, MgrMove, vars, wrk_vars
<1>4. ASSUME NEW w \in Worker, Serve(w)
      PROVE  left' \in [Worker -> Nat] /\ CountInv'
  BY <1>2, <1>4 DEF Serve, MgrDone, MgrTkn, wrk_vars
<1>5. ASSUME NEW w \in Worker, Wrk(w)
      PROVE  left' \in [Worker -> Nat] /\ CountInv'
  <2>1. \A u \in Worker \ {w} : wrk'[u] = wrk[u] /\ left'[u] = left[u] /\ todo'[u] = todo[u]
                                /\ rec_usd_cml'[u] = rec_usd_cml[u]
    BY <1>5 DEF Wrk, WrkAcc, WrkTknRqs, WrkDenied, WrkOpen, WrkWrite, WrkDone, WrkFinal, WrkAverages,
      wrk_vars, ProtocolTypeOK
  <2>2. \A u \in Worker \ {w} : Count(u)'
    BY <1>1, <2>1, Asked DEF Count
  <2>3. left' \in [Worker -> Nat] /\ Count(w)'
    BY <1>1, <1>5, Asked, CountWrk
  <2> QED
    BY <2>2, <2>3 DEF CountInv, Count
<1> QED
  BY <1>3, <1>4, <1>5 DEF MpNext

-----------------------------------------------------------------------------
(* What is in the file.                                                    *)

LEMMA SetToBagUnion ==
  ASSUME NEW S, NEW T, S \cap T = {}
  PROVE  SetToBag(S) (+) SetToBag(T) = SetToBag(S \union T)
BY DEF SetToBag, (+)

LEMMA WrittenAverage ==
  ASSUME prg = "ncra", NEW x
  PROVE  x \in Written <=> \E v \in Var : x = <<v, 0>> /\ wrk[lcl[v]] = "done"
BY DEF Written

LEMMA WrittenRecord ==
  ASSUME prg # "ncra", NEW x
  PROVE  x \in Written <=> \E v \in Var : \E k \in 1..Reached(v) : x = <<v, k>>
BY DEF Written

LEMMA FileInit ==
  ASSUME MpInit
  PROVE  FileInv
<1>1. \A v \in Var : lcl[v] \in Worker /\ wrk[lcl[v]] = "loop" /\ v \in todo[lcl[v]]
                     /\ rec_usd_cml[lcl[v]] = 1
  BY DEF MpInit, Lcl
<1>2. \A v \in Var : Reached(v) = 0
  BY <1>1 DEF Reached
<1>3. Written = {}
  BY <1>1, <1>2, WrittenAverage, WrittenRecord
<1> QED
  BY <1>3 DEF MpInit, FileInv, EmptyBag

\* A variable and a record of ncrcat.
LEMMA FileWrite ==
  ASSUME ProtocolTypeOK, PassInv, TodoInv, FileInv, NEW w \in Worker, WrkWrite(w)
  PROVE  FileInv'
<1>1. PICK v \in todo[w] : /\ wrt' = wrt (+) SetToBag({<<v, rec_usd_cml[w]>>})
                           /\ todo' = [todo EXCEPT ![w] = @ \ {v}]
  BY DEF WrkWrite
<1>2. prg = "ncrcat" /\ UNCHANGED <<prg, lcl, rec_usd_cml>>
  BY DEF WrkWrite, PassInv, asg
<1>3. v \in Var /\ lcl[v] = w
  BY DEF TodoInv, Lcl
<1>4. rec_usd_cml[w] \in Nat \ {0}
  BY DEF ProtocolTypeOK
<1>5. Reached(v) = rec_usd_cml[w] - 1 /\ Reached(v)' = rec_usd_cml[w]
  BY <1>1, <1>2, <1>3, <1>4 DEF Reached, ProtocolTypeOK
<1>6. \A u \in Var \ {v} : Reached(u)' = Reached(u)
  BY <1>1, <1>2 DEF Reached, ProtocolTypeOK
<1>7. <<v, rec_usd_cml[w]>> \notin Written
  BY <1>2, <1>4, <1>5, WrittenRecord
<1>8. Written' = Written \union {<<v, rec_usd_cml[w]>>}
  <2> SUFFICES ASSUME NEW x
               PROVE  x \in Written' <=> x \in Written \/ x = <<v, rec_usd_cml[w]>>
    OBVIOUS
  <2>1. x \in Written' <=> \E u \in Var : \E k \in 1..Reached(u)' : x = <<u, k>>
    BY <1>2 DEF Written
  <2>2. x \in Written <=> \E u \in Var : \E k \in 1..Reached(u) : x = <<u, k>>
    BY <1>2, WrittenRecord
  <2>3. \A k : k \in 1..Reached(v)' <=> k \in 1..Reached(v) \/ k = rec_usd_cml[w]
    BY <1>4, <1>5
  <2> QED
    BY <1>3, <1>6, <2>1, <2>2, <2>3
<1> QED
  BY <1>1, <1>7, <1>8, SetToBagUnion DEF FileInv

\* The averages of ncra of one worker.
LEMMA FileAverages ==
  ASSUME ProtocolTypeOK, PassInv, FileInv, NEW w \in Worker, WrkAverages(w)
  PROVE  FileInv'
<1> DEFINE T == {<<v, 0>> : v \in Lcl(w)}
<1>1. /\ prg = "ncra" /\ UNCHANGED <<prg, lcl>> /\ wrk[w] = "final"
      /\ wrt' = wrt (+) SetToBag(T) /\ wrk' = [wrk EXCEPT ![w] = "done"]
  BY DEF WrkAverages, PassInv, asg
<1>2. \A x : x \in Written <=> \E v \in Var : x = <<v, 0>> /\ wrk[lcl[v]] = "done"
  BY <1>1, WrittenAverage
<1>3. \A x : x \in Written' <=> \E v \in Var : x = <<v, 0>> /\ wrk'[lcl[v]] = "done"
  BY <1>1 DEF Written
<1>4. \A x : x \in T <=> \E v \in Var : x = <<v, 0>> /\ lcl[v] = w
  BY DEF Lcl
<1>5. \A v \in Var : lcl[v] \in Worker
                     /\ (wrk'[lcl[v]] = "done" <=> wrk[lcl[v]] = "done" \/ lcl[v] = w)
  BY <1>1 DEF ProtocolTypeOK
<1> HIDE DEF T
<1>6. Written \cap T = {}
  BY <1>1, <1>2, <1>4
<1>7. Written' = Written \union T
  <2> SUFFICES ASSUME NEW x
               PROVE  x \in Written' <=> x \in Written \/ x \in T
    OBVIOUS
  <2> QED
    BY <1>2, <1>3, <1>4, <1>5
<1> QED
  BY <1>1, <1>6, <1>7, SetToBagUnion DEF FileInv

\* Every other step leaves the file alone and what is to be in it.
LEMMA FileSame ==
  ASSUME UNCHANGED <<wrt, prg, lcl>>,
         prg = "ncra" => \A v \in Var : wrk'[lcl[v]] = "done" <=> wrk[lcl[v]] = "done",
         prg # "ncra" => \A v \in Var : Reached(v)' = Reached(v),
         FileInv
  PROVE  FileInv'
<1>1. CASE prg = "ncra"
  <2>1. Written' = Written
    BY <1>1 DEF Written
  <2> QED
    BY <2>1 DEF FileInv
<1>2. CASE prg # "ncra"
  <2>1. Written' = Written
    BY <1>2 DEF Written
  <2> QED
    BY <2>1 DEF FileInv
<1> QED
  BY <1>1, <1>2

LEMMA FileStep ==
  ASSUME ProtocolTypeOK, PassInv, TodoInv, FileInv, MpNext
  PROVE  FileInv'
<1>1. UNCHANGED <<prg, lcl>> /\ \A v \in Var : lcl[v] \in Worker
  BY Asked DEF ProtocolTypeOK
<1>2. ASSUME UNCHANGED <<wrk, todo, rec_usd_cml, wrt>>
      PROVE  FileInv'
  BY <1>1, <1>2, FileSame DEF Reached
<1>3. CASE Mgr \/ UNCHANGED vars
  BY <1>2, <1>3 DEF Mgr, MgrRec, MgrOpen, MgrClose, MgrMove, vars, wrk_vars, fl_vars
<1>4. ASSUME NEW w \in Worker, Serve(w)
      PROVE  FileInv'
  BY <1>2, <1>4 DEF Serve, MgrDone, MgrTkn, wrk_vars, fl_vars
<1>5. ASSUME NEW w \in Worker, Wrk(w)
      PROVE  FileInv'
  <2> USE DEF ProtocolTypeOK, fl_vars
  <2>1. CASE WrkAcc(w)
    <3>1. prg = "ncra" /\ UNCHANGED <<wrk, wrt>>
      BY <2>1 DEF WrkAcc
    <3> QED
      BY <1>1, <3>1, FileSame
  <2>2. CASE WrkTknRqs(w) \/ WrkDenied(w) \/ WrkOpen(w)
    <3>1. UNCHANGED <<todo, rec_usd_cml, wrt>> /\ prg # "ncra"
      BY <2>2 DEF WrkTknRqs, WrkDenied, WrkOpen, PassInv
    <3> QED
      BY <1>1, <3>1, FileSame DEF Reached
  <2>3. CASE WrkDone(w)
    <3>1. /\ prg # "ncra" /\ wrt' = wrt /\ todo[w] = {} /\ todo' = [todo EXCEPT ![w] = Lcl(w)]
          /\ rec_usd_cml' = [rec_usd_cml EXCEPT ![w] = @ + 1]
      BY <2>3 DEF WrkDone
    <3>2. \A v \in Var : Reached(v)' = Reached(v)
      <4> SUFFICES ASSUME NEW v \in Var
                   PROVE  Reached(v)' = Reached(v)
        OBVIOUS
      <4>1. CASE lcl[v] = w
        <5>1. v \in todo'[w] /\ v \notin todo[w] /\ rec_usd_cml'[w] = rec_usd_cml[w] + 1
          BY <3>1, <4>1 DEF Lcl
        <5>2. rec_usd_cml[w] \in Nat
          OBVIOUS
        <5> QED
          BY <1>1, <4>1, <5>1, <5>2 DEF Reached
      <4>2. CASE lcl[v] # w
        BY <1>1, <3>1, <4>2 DEF Reached
      <4> QED
        BY <4>1, <4>2
    <3> QED
      BY <1>1, <3>1, <3>2, FileSame
  <2>4. CASE WrkFinal(w)
    <3>1. UNCHANGED <<todo, rec_usd_cml, wrt>> /\ wrk[w] = "loop"
          /\ (prg = "ncra" => wrk' = [wrk EXCEPT ![w] = "final"])
      BY <2>4 DEF WrkFinal, wrk_vars
    <3>2. prg # "ncra" => \A v \in Var : Reached(v)' = Reached(v)
      BY <1>1, <3>1 DEF Reached
    <3>3. prg = "ncra" => \A v \in Var : wrk'[lcl[v]] = "done" <=> wrk[lcl[v]] = "done"
      BY <1>1, <3>1
    <3> QED
      BY <1>1, <3>1, <3>2, <3>3, FileSame
  <2> QED
    BY <1>5, <2>1, <2>2, <2>3, <2>4, FileWrite, FileAverages DEF Wrk
<1> QED
  BY <1>3, <1>4, <1>5 DEF MpNext

-----------------------------------------------------------------------------
(* All records, once.                                                      *)

\* RecInv with what its preservation needs beside it.
RecAll ==
  ProtocolTypeOK /\ RecInv /\ Rec2[rqs] \in Nat /\ left \in [Worker -> Nat]

LEMMA RecInvariant ==
  ASSUME EveryRecord
  PROVE  MpSpec => []RecAll
<1>1. MpInit => RecAll
  BY ProtocolTypeInit, PassInit, TodoInit, TokenInit, CountInit, FileInit DEF RecAll, RecInv, OneInv
<1>2. ASSUME RecAll, [MpNext]_vars
      PROVE  RecAll'
  <2>1. MpNext \/ UNCHANGED vars
    BY <1>2
  <2>2. CASE MpNext
    <3>1. ProtocolTypeOK' /\ OneInv'
      BY <1>2, <2>2, ProtocolTypeStep, PassStep, TodoStep, TokenStep DEF RecAll, RecInv, OneInv
    <3>2. left' \in [Worker -> Nat] /\ CountInv' /\ Rec2[rqs]' = Rec2[rqs]
      BY <1>2, <2>2, CountStep, Asked DEF RecAll, RecInv, OneInv
    <3>3. FileInv'
      BY <1>2, <2>2, FileStep DEF RecAll, RecInv, OneInv
    <3> QED
      BY <1>2, <3>1, <3>2, <3>3 DEF RecAll, RecInv
  <2>3. CASE UNCHANGED vars
    <3>1. ProtocolTypeOK' /\ OneInv'
      BY <1>2, <2>3 DEF vars, asg, mgr_vars, wrk_vars, fl_vars, RecAll, RecInv, ProtocolTypeOK,
        OneInv, PassInv, TodoInv, TokenInv, Lcl, Messages, Asks, Has, DonePending
    <3>2. left' \in [Worker -> Nat] /\ CountInv' /\ Rec2[rqs]' = Rec2[rqs]
      BY <1>2, <2>3 DEF vars, asg, wrk_vars, RecAll, RecInv, CountInv, Lcl
    <3>3. FileInv'
      BY <1>2, <2>3, FileSame DEF vars, asg, wrk_vars, fl_vars, RecAll, RecInv, Reached
    <3> QED
      BY <1>2, <3>1, <3>2, <3>3 DEF RecAll, RecInv
  <2> QED
    BY <2>1, <2>2, <2>3
<1> QED
  BY <1>1, <1>2, PTL DEF MpSpec

LEMMA RecInvSays ==
  ASSUME RecAll, EveryRecord
  PROVE  RecordsComplete
<1> SUFFICES ASSUME fl = "moved"
             PROVE  /\ opn = {} /\ wrt = SetToBag(Item)
                    /\ \A w \in Worker : rec_usd_cml[w] = RecTtl
  BY DEF RecordsComplete
<1> USE DEF RecAll, RecInv, OneInv, ProtocolTypeOK
<1>1. mgr = "moved" /\ \A w \in Worker : wrk[w] = "done"
  BY DEF PassInv
<1>2. opn = {}
  BY <1>1 DEF PassInv
<1>3. 1 + Rec2[rqs] = RecTtl /\ Rec2[rqs] \in Nat
  BY DEF EveryRecord, RecTtl
<1>4. ASSUME NEW w \in Worker
      PROVE  todo[w] = Lcl(w) /\ rec_usd_cml[w] = RecTtl
  <2>1. left[w] = 0 /\ todo[w] = Lcl(w) /\ left[w] + rec_usd_cml[w] = 1 + Rec2[rqs]
    BY <1>1 DEF CountInv
  <2>2. rec_usd_cml[w] \in Nat
    OBVIOUS
  <2> QED
    BY <1>3, <2>1, <2>2
<1>5. \A v \in Var : lcl[v] \in Worker /\ wrk[lcl[v]] = "done" /\ Reached(v) = RecTtl - 1
  BY <1>1, <1>4 DEF Lcl, Reached
<1>6. CASE prg = "ncra"
  <2>1. Written = Item
    BY <1>5, <1>6 DEF Written, Item
  <2> QED
    BY <1>2, <1>4, <2>1 DEF FileInv
<1>7. CASE prg = "ncrcat"
  <2> SUFFICES Written = Item
    BY <1>2, <1>4 DEF FileInv
  <2> SUFFICES ASSUME NEW x
               PROVE  x \in Written <=> x \in Item
    OBVIOUS
  <2>1. x \in Written <=> \E v \in Var : \E k \in 1..Reached(v) : x = <<v, k>>
    BY <1>7, WrittenRecord
  <2>2. x \in Item <=> \E v \in Var : \E k \in 1..(RecTtl - 1) : x = <<v, k>>
    BY <1>7 DEF Item
  <2> QED
    BY <1>5, <2>1, <2>2
<1> QED
  BY <1>6, <1>7

\* For any number of processes, variables and files: if the second pass of a
\* worker goes through every record but the first, the output file is moved
\* to its permanent place only with every record, or every average, of every
\* variable in it exactly once, and with no process writing (main() of
\* mpncra.c).
THEOREM MpRecordsComplete ==
  ASSUME EveryRecord
  PROVE  MpSpec => []RecordsComplete
BY RecInvariant, RecInvSays, PTL

=============================================================================
