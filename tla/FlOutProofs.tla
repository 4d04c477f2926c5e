---------------------------- MODULE FlOutProofs ----------------------------
(***************************************************************************)
(* Proofs about FlOut, for any number of processes and commands: that the  *)
(* output file is never partial, and safe to read, whatever stops a        *)
(* command and whatever other commands do; and that commands which do not  *)
(* overlap lose nothing unasked and report success only when it is one.    *)
(***************************************************************************)
EXTENDS MCFlOut, TLAPS

\* A step of one process keeps the types.
LEMMA TypeStep ==
  ASSUME TypeOK, FlInv, NEW p \in Prc, Step(p)
  PROVE  TypeOK'
<1> DEFINE Content == [parts : SUBSET Fl, dirty : SUBSET Cmd, direct : BOOLEAN]
<1>1. CASE Start(p)
  BY <1>1, MaxCmdAssumption DEF Start, Goto, TypeOK, opt_vars, fl_vars, Stopped, Running, Fl, Cmd, NoFile
<1>2. CASE Vet(p)
  BY <1>2, MaxCmdAssumption DEF Vet, Goto, TypeOK, opt_vars, fl_vars, Stopped, Running, Fl, Cmd, NoFile
<1>3. CASE StatOut(p)
  BY <1>3, MaxCmdAssumption DEF StatOut, AfterStat, Goto, TypeOK, opt_vars, fl_vars, Stopped, Running, Fl, Cmd, NoFile
<1>4. CASE Ask(p)
  BY <1>4, MaxCmdAssumption DEF Ask, Goto, TypeOK, opt_vars, fl_vars, Stopped, Running, Fl, Cmd, NoFile
<1>5. CASE Copy(p)
  <2>1. out # NoFile
    BY <1>5 DEF Copy, FlInv, ContentInv, TmpInv
  <2>2. cmd[p] \in Cmd
    BY <1>5 DEF Copy, FlInv, NameInv, TypeOK, Running, Cmd
  <2>3. fl' \in [Fl -> Content]
    <3>1. out \in Fl /\ fl \in [Fl -> Content]
      BY <2>1 DEF TypeOK
    <3>2. CASE fl' = fl
      BY <3>1, <3>2
    <3>3. CASE fl' # fl
      <4>1. PICK s \in Copied : fl' = [fl EXCEPT ![cmd[p]] = [fl[out] EXCEPT !.parts = s]]
        BY <1>5, <3>3 DEF Copy, fl_vars
      <4>2. s \in SUBSET Fl /\ fl[out] \in Content
        BY <3>1, <4>1 DEF Copied
      <4>3. [fl[out] EXCEPT !.parts = s] \in Content
        BY <4>2
      <4> HIDE DEF Content
      <4>4. QED
        BY <3>1, <4>1, <4>3
    <3>4. QED
      BY <3>2, <3>3
  <2>4. out' \in Fl \union {NoFile} /\ tmp' \in [Prc -> Fl \union {NoFile}]
    BY <1>5, <2>2 DEF Copy, Place, TypeOK, Fl, fl_vars
  <2>5. \E l \in {"open", "fail"} : pc' = [pc EXCEPT ![p] = l]
    BY <1>5 DEF Copy, Goto
  <2>6. pc[p] = "copy" /\ UNCHANGED <<opt_vars, FORCE_APPEND, usr_rpl, hnd>>
    BY <1>5 DEF Copy
  <2>7. pc' \in [Prc -> Stopped \union Running] /\ \A q \in Prc : hnd[q] # NoFile <=> pc'[q] \in {"write", "close"}
    BY <2>5, <2>6 DEF TypeOK, Running, Stopped
  <2>8. QED
    BY <2>3, <2>4, <2>6, <2>7 DEF TypeOK, opt_vars
<1>6. CASE Open(p)
  <2>1. OpenFl(p) \in Fl \union {NoFile}
    BY DEF OpenFl, FlOutTmp, TypeOK
  <2>2. cmd[p] \in Cmd
    BY <1>6 DEF Open, FlInv, NameInv, TypeOK, Running, Cmd
  <2>3. fl' \in [Fl -> Content]
    <3>1. CASE OpenFl(p) = NoFile
      BY <1>6, <3>1 DEF Open, TypeOK
    <3>2. CASE OpenFl(p) # NoFile
      <4> DEFINE i == OpenFl(p)
      <4>1. i \in Fl /\ fl[i] \in Content /\ (~WRT_TMP_FL[p]) \in BOOLEAN
        BY <2>1, <3>2 DEF TypeOK
      <4>2. fl' = [fl EXCEPT ![i].dirty = @ \union {cmd[p]}, ![i].direct = @ \/ ~WRT_TMP_FL[p]]
        BY <1>6, <3>2 DEF Open
      <4>3. QED
        BY <2>2, <4>1, <4>2 DEF TypeOK
    <3>3. QED
      BY <3>1, <3>2
  <2>4. \/ hnd' = [hnd EXCEPT ![p] = OpenFl(p)] /\ OpenFl(p) # NoFile /\ pc' = [pc EXCEPT ![p] = "write"]
        \/ hnd' = hnd /\ pc' = [pc EXCEPT ![p] = "fail"]
    BY <1>6 DEF Open, Goto
  <2>5. pc[p] = "open" /\ UNCHANGED <<opt_vars, FORCE_APPEND, usr_rpl, out, tmp>>
    BY <1>6 DEF Open
  <2>6. \A q \in Prc : hnd'[q] # NoFile <=> pc'[q] \in {"write", "close"}
    BY <2>4, <2>5 DEF TypeOK
  <2>7. hnd' \in [Prc -> Fl \union {NoFile}] /\ pc' \in [Prc -> Stopped \union Running]
    BY <2>1, <2>4 DEF TypeOK, Running, Stopped
  <2>8. QED
    BY <2>3, <2>5, <2>6, <2>7 DEF TypeOK, opt_vars
<1>7. CASE Create(p)
  <2> DEFINE i == IF FlOutTmp(p) = NoFile THEN cmd[p] ELSE FlOutTmp(p)
  <2>1. cmd[p] \in Cmd /\ i \in Fl
    BY <1>7 DEF Create, FlOutTmp, FlInv, NameInv, TypeOK, Running, Cmd, Fl
  <2>2. Writing(i) \subseteq Cmd
    BY DEF Writing, FlInv, NameInv, TypeOK, Running, Cmd, NoFile, Fl
  <2>3. fl' \in [Fl -> Content]
    <3> DEFINE new == [parts |-> {}, dirty |-> Writing(i) \union {cmd[p]},
                       direct |-> fl[i].direct \/ ~WRT_TMP_FL[p]]
    <3>1. new \in Content
      BY <2>1, <2>2 DEF TypeOK
    <3>2. fl' = fl \/ fl' = [fl EXCEPT ![i] = new]
      BY <1>7, <2>1 DEF Create, fl_vars, TypeOK
    <3>3. fl \in [Fl -> Content]
      BY DEF TypeOK
    <3> HIDE DEF new, Content, i
    <3>4. QED
      BY <2>1, <3>1, <3>2, <3>3
  <2>4. out' \in Fl \union {NoFile} /\ tmp' \in [Prc -> Fl \union {NoFile}]
    BY <1>7, <2>1 DEF Create, Place, TypeOK, fl_vars
  <2>5. \/ hnd' = [hnd EXCEPT ![p] = i] /\ pc' = [pc EXCEPT ![p] = "write"]
        \/ hnd' = hnd /\ pc' = [pc EXCEPT ![p] = "fail"]
    BY <1>7 DEF Create, Goto
  <2>6. pc[p] \in {"create", "create_new"} /\ UNCHANGED <<opt_vars, FORCE_APPEND, usr_rpl>>
    BY <1>7 DEF Create
  <2>7. \A q \in Prc : hnd'[q] # NoFile <=> pc'[q] \in {"write", "close"}
    BY <2>1, <2>5, <2>6 DEF TypeOK, Fl, Cmd, NoFile
  <2>8. hnd' \in [Prc -> Fl \union {NoFile}] /\ pc' \in [Prc -> Stopped \union Running]
    BY <2>1, <2>5 DEF TypeOK, Running, Stopped
  <2>9. QED
    BY <2>3, <2>4, <2>6, <2>7, <2>8 DEF TypeOK, opt_vars
<1>8. CASE Write(p)
  BY <1>8, MaxCmdAssumption DEF Write, AfterWrite, Goto, TypeOK, opt_vars, fl_vars, Stopped, Running, Fl, Cmd, NoFile
<1>9. CASE Close(p)
  <2>1. hnd[p] \in Fl
    BY <1>9 DEF Close, TypeOK
  <2>2. fl' \in [Fl -> Content]
    <3>1. fl[hnd[p]] \in Content /\ fl' = [fl EXCEPT ![hnd[p]].dirty = @ \ {cmd[p]}]
      BY <1>9, <2>1 DEF Close, TypeOK
    <3>2. [fl[hnd[p]] EXCEPT !.dirty = @ \ {cmd[p]}] \in Content
      BY <3>1
    <3>3. QED
      BY <2>1, <3>1, <3>2 DEF TypeOK
  <2>3. QED
    BY <1>9, <2>2 DEF Close, AfterClose, Goto, TypeOK, opt_vars, fl_vars, Stopped, Running, Fl, Cmd, NoFile
<1>10. CASE Mv(p)
  <2>1. out' \in Fl \union {NoFile} /\ tmp' \in [Prc -> Fl \union {NoFile}]
    BY <1>10 DEF Mv, TypeOK
  <2>2. \E l \in {"ok", "fail"} : pc' = [pc EXCEPT ![p] = l]
    BY <1>10 DEF Mv, Goto
  <2>3. pc[p] = "mv" /\ UNCHANGED <<opt_vars, FORCE_APPEND, usr_rpl, hnd, fl>>
    BY <1>10 DEF Mv
  <2>4. \A q \in Prc : hnd[q] # NoFile <=> pc'[q] \in {"write", "close"}
    BY <2>2, <2>3 DEF TypeOK
  <2>5. QED
    BY <2>1, <2>2, <2>3, <2>4 DEF TypeOK, opt_vars, Stopped, Running
<1>11. CASE Abort(p)
  BY <1>11, MaxCmdAssumption DEF Abort, Goto, TypeOK, opt_vars, fl_vars, Stopped, Running, Fl, Cmd, NoFile
<1>12. QED
  BY <1>1, <1>2, <1>3, <1>4, <1>5, <1>6, <1>7, <1>8, <1>9, <1>10, <1>11 DEF Step

LEMMA NameStep ==
  ASSUME TypeOK, NameInv, NEW p \in Prc, Step(p)
  PROVE  NameInv'
<1>1. CASE Start(p)
  <2> DEFINE c == cmd_nbr + 1
  <2>1. cmd_nbr \in Int /\ out \in Int /\ \A q \in Prc : cmd[q] \in Int /\ tmp[q] \in Int /\ hnd[q] \in Int
    BY MaxCmdAssumption DEF TypeOK, Fl, Cmd, NoFile
  <2>2. out < c /\ \A q \in Prc : cmd[q] < c /\ tmp[q] < c /\ hnd[q] < c
    BY <2>1 DEF NameInv
  <2>3. /\ cmd_nbr' = c /\ UNCHANGED <<out, tmp, hnd>>
        /\ cmd' = [cmd EXCEPT ![p] = c] /\ pc' = [pc EXCEPT ![p] = "vet"]
    BY <1>1 DEF Start, Goto, fl_vars
  <2>4. cmd'[p] = c /\ pc'[p] = "vet" /\ \A q \in Prc \ {p} : cmd'[q] = cmd[q] /\ pc'[q] = pc[q]
    BY <2>3 DEF TypeOK
  <2>5. c # 0
    BY MaxCmdAssumption DEF TypeOK
  <2>6. QED
    BY <2>1, <2>2, <2>3, <2>4, <2>5 DEF NameInv, Unborn, Running
<1>2. CASE Vet(p)
  BY <1>2, MaxCmdAssumption DEF Vet, Goto, TypeOK, NameInv, Unborn, opt_vars, fl_vars, Stopped, Running, Fl, Cmd, NoFile
<1>3. CASE StatOut(p)
  BY <1>3, MaxCmdAssumption DEF StatOut, AfterStat, Goto, TypeOK, NameInv, Unborn, opt_vars, fl_vars, Stopped, Running, Fl, Cmd, NoFile
<1>4. CASE Ask(p)
  BY <1>4, MaxCmdAssumption DEF Ask, Goto, TypeOK, NameInv, Unborn, opt_vars, fl_vars, Stopped, Running, Fl, Cmd, NoFile
<1>5. CASE Copy(p)
  <2>1. UNCHANGED <<cmd, cmd_nbr, out, hnd>> /\ pc[p] \in Unborn /\ cmd[p] # 0
    BY <1>5 DEF Copy, Place, opt_vars, fl_vars, Unborn, NameInv, Running
  <2>2. tmp' = tmp \/ tmp' = [tmp EXCEPT ![p] = cmd[p]]
    BY <1>5 DEF Copy, Place, fl_vars
  <2>3. pc'[p] \in {"open", "fail"} /\ \A q \in Prc \ {p} : pc'[q] = pc[q]
    BY <1>5 DEF Copy, Goto, TypeOK
  <2>4. tmp'[p] \in {tmp[p], cmd[p]} /\ \A q \in Prc \ {p} : tmp'[q] = tmp[q]
    BY <2>2 DEF TypeOK
  <2>5. \A q \in Prc : pc'[q] \in Running => pc[q] \in Running
    BY <1>5, <2>3 DEF Copy, Running
  <2>6. QED
    BY <2>1, <2>3, <2>4, <2>5 DEF NameInv, Unborn
<1>6. CASE Open(p)
  <2>1. UNCHANGED <<cmd, cmd_nbr, out, tmp>> /\ pc[p] \in Running
    BY <1>6 DEF Open, opt_vars, Running
  <2>2. pc'[p] \in {"write", "fail"} /\ \A q \in Prc \ {p} : pc'[q] = pc[q]
    BY <1>6 DEF Open, Goto, TypeOK
  <2>3. hnd'[p] \in {hnd[p], out, tmp[p]} /\ \A q \in Prc \ {p} : hnd'[q] = hnd[q]
    BY <1>6 DEF Open, OpenFl, FlOutTmp, TypeOK
  <2>4. QED
    BY <2>1, <2>2, <2>3 DEF NameInv, Unborn, Running
<1>7. CASE Create(p)
  <2>1. UNCHANGED <<cmd, cmd_nbr>> /\ pc[p] \in Unborn /\ pc[p] \in Running
    BY <1>7 DEF Create, opt_vars, Running, Unborn
  <2>2. pc'[p] \in {"write", "fail"} /\ \A q \in Prc \ {p} : pc'[q] = pc[q]
    BY <1>7 DEF Create, Goto, TypeOK
  <2>3. cmd[p] # 0 /\ \A q \in Prc \ {p} : cmd[q] # cmd[p]
    BY <2>1 DEF NameInv
  <2>4. CASE UNCHANGED <<hnd, out, tmp>>
    BY <2>1, <2>2, <2>4 DEF NameInv, Unborn, Running
  <2>5. CASE WRT_TMP_FL[p] /\ UNCHANGED out /\ ~UNCHANGED <<hnd, out, tmp>>
    <3>1. \E i \in {cmd[p], tmp[p]} : tmp' = [tmp EXCEPT ![p] = i] /\ hnd' = [hnd EXCEPT ![p] = i]
      BY <1>7, <2>5 DEF Create, Place, FlOutTmp, fl_vars
    <3>2. \E i \in {cmd[p], tmp[p]} : tmp'[p] = i /\ hnd'[p] = i
      BY <3>1 DEF TypeOK
    <3>3. \A q \in Prc \ {p} : tmp'[q] = tmp[q] /\ hnd'[q] = hnd[q]
      BY <3>1 DEF TypeOK
    <3>4. QED
      BY <2>1, <2>2, <2>3, <2>5, <3>2, <3>3 DEF NameInv, Unborn, Running
  <2>6. CASE ~WRT_TMP_FL[p] /\ UNCHANGED tmp /\ ~UNCHANGED <<hnd, out, tmp>>
    <3>1. \E i \in {cmd[p], out} : out' = i /\ hnd' = [hnd EXCEPT ![p] = i]
      BY <1>7, <2>6 DEF Create, Place, FlOutTmp, fl_vars
    <3>2. out' \in {cmd[p], out} /\ hnd'[p] = out' /\ \A q \in Prc \ {p} : hnd'[q] = hnd[q]
      BY <3>1 DEF TypeOK
    <3>3. QED
      BY <2>1, <2>2, <2>3, <2>6, <3>2 DEF NameInv, Unborn, Running
  <2>7. QED
    BY <1>7, <2>4, <2>5, <2>6 DEF Create, Place, fl_vars, TypeOK
<1>8. CASE Write(p)
  BY <1>8, MaxCmdAssumption DEF Write, AfterWrite, Goto, TypeOK, NameInv, Unborn, opt_vars, fl_vars, Stopped, Running, Fl, Cmd, NoFile
<1>9. CASE Close(p)
  BY <1>9, MaxCmdAssumption DEF Close, AfterClose, Goto, TypeOK, NameInv, Unborn, opt_vars, fl_vars, Stopped, Running, Fl, Cmd, NoFile
<1>10. CASE Mv(p)
  <2>1. UNCHANGED <<cmd, cmd_nbr, hnd>> /\ pc[p] \in Running
    BY <1>10 DEF Mv, opt_vars, Running
  <2>2. pc'[p] \in {"ok", "fail"} /\ \A q \in Prc \ {p} : pc'[q] = pc[q]
    BY <1>10 DEF Mv, Goto, TypeOK
  <2>3. CASE UNCHANGED <<out, tmp>>
    BY <2>1, <2>2, <2>3 DEF NameInv, Unborn, Running
  <2>4. CASE out' = tmp[p] /\ tmp' = [tmp EXCEPT ![p] = NoFile]
    <3>1. tmp'[p] = NoFile /\ \A q \in Prc \ {p} : tmp'[q] = tmp[q]
      BY <2>4 DEF TypeOK
    <3>2. \A q \in Prc : cmd[q] # NoFile /\ NoFile <= cmd_nbr
      BY MaxCmdAssumption DEF TypeOK, NoFile
    <3>3. QED
      BY <2>1, <2>2, <2>4, <3>1, <3>2 DEF NameInv, Unborn, Running
  <2>5. QED
    BY <1>10, <2>3, <2>4 DEF Mv
<1>11. CASE Abort(p)
  BY <1>11, MaxCmdAssumption DEF Abort, Goto, TypeOK, NameInv, Unborn, opt_vars, fl_vars, Stopped, Running, Fl, Cmd, NoFile
<1>12. QED
  BY <1>1, <1>2, <1>3, <1>4, <1>5, <1>6, <1>7, <1>8, <1>9, <1>10, <1>11 DEF Step

\* What a step of p on file i does not touch.
LEMMA OtherKept ==
  ASSUME TypeOK, ContentInv, NEW p \in Prc, NEW q \in Prc \ {p}, NEW i \in Fl,
         UNCHANGED <<cmd, WRT_TMP_FL>>,
         pc'[q] = pc[q], tmp'[q] = tmp[q], hnd'[q] = hnd[q],
         out' = NoFile => out = NoFile,
         tmp[q] # i, hnd[q] = i /\ fl[i].direct => fl'[i].direct,
         \A j \in Fl \ {i} : fl'[j] = fl[j]
  PROVE  TmpInv(q)'
<1>1. TmpInv(q)
  BY DEF ContentInv
<1>2. tmp[q] # NoFile => fl'[tmp[q]] = fl[tmp[q]]
  BY DEF TypeOK
<1>3. hnd[q] # NoFile /\ fl[hnd[q]].direct => fl'[hnd[q]].direct
  BY DEF TypeOK
<1>4. hnd[q] # NoFile /\ WRT_TMP_FL[q] => tmp[q] # NoFile
  BY <1>1 DEF TmpInv
<1>5. QED
  BY <1>1, <1>2, <1>3, <1>4 DEF TmpInv, Sound

LEMMA ContentStep ==
  ASSUME TypeOK, TypeOK', FlInv, NEW p \in Prc, Step(p)
  PROVE  (ContentInv /\ NeverPartial)'
<1>1. CASE Start(p)
  BY <1>1, MaxCmdAssumption DEF Start, Goto, TypeOK, FlInv, NameInv, ContentInv, TmpInv, NeverPartial, Sound, Unborn, opt_vars, fl_vars, Stopped, Running, Fl, Cmd, NoFile
<1>2. CASE Vet(p)
  BY <1>2, MaxCmdAssumption DEF Vet, Goto, TypeOK, FlInv, NameInv, ContentInv, TmpInv, NeverPartial, Sound, Unborn, opt_vars, fl_vars, Stopped, Running, Fl, Cmd, NoFile
<1>3. CASE StatOut(p)
  BY <1>3, MaxCmdAssumption DEF StatOut, AfterStat, Goto, TypeOK, FlInv, NameInv, ContentInv, TmpInv, NeverPartial, Sound, Unborn, opt_vars, fl_vars, Stopped, Running, Fl, Cmd, NoFile
<1>4. CASE Ask(p)
  BY <1>4, MaxCmdAssumption DEF Ask, Goto, TypeOK, FlInv, NameInv, ContentInv, TmpInv, NeverPartial, Sound, Unborn, opt_vars, fl_vars, Stopped, Running, Fl, Cmd, NoFile
<1>5. CASE Copy(p)
  <2>1. TmpInv(p) /\ pc[p] = "copy" /\ out \in Fl /\ cmd[p] \in Fl
    BY <1>5 DEF Copy, FlInv, ContentInv, TmpInv, TypeOK, Fl, Cmd
  <2>2. /\ UNCHANGED <<cmd, WRT_TMP_FL, hnd, out>> /\ pc'[p] \in {"open", "fail"}
        /\ \A q \in Prc \ {p} : pc'[q] = pc[q]
    BY <1>5 DEF Copy, Place, Goto, opt_vars, fl_vars, TypeOK
  <2>3. hnd[p] = NoFile
    BY <2>1 DEF TypeOK, Running
  <2>4. cmd[p] # out /\ \A q \in Prc : tmp[q] # cmd[p] /\ hnd[q] # cmd[p]
    BY <2>1 DEF FlInv, NameInv, Unborn
  <2>5. CASE UNCHANGED <<tmp, fl>>
    BY <2>1, <2>2, <2>3, <2>5 DEF FlInv, ContentInv, TmpInv, NeverPartial, Sound, Unborn
  <2>6. CASE ~UNCHANGED <<tmp, fl>>
    <3>1. /\ WRT_TMP_FL[p] /\ tmp' = [tmp EXCEPT ![p] = cmd[p]]
          /\ \E s \in Copied : fl' = [fl EXCEPT ![cmd[p]] = [fl[out] EXCEPT !.parts = s]]
      BY <1>5, <2>6 DEF Copy, Place, fl_vars
    <3>2. /\ tmp'[p] = cmd[p] /\ \A q \in Prc \ {p} : tmp'[q] = tmp[q]
          /\ fl'[cmd[p]].dirty = fl[out].dirty /\ fl'[cmd[p]].direct = fl[out].direct
          /\ \A j \in Fl \ {cmd[p]} : fl'[j] = fl[j]
      BY <2>1, <3>1 DEF TypeOK
    <3>3. \A q \in Prc \ {p} : TmpInv(q)'
      BY <2>1, <2>2, <2>4, <3>2, OtherKept DEF FlInv
    <3>4. TmpInv(p)'
      BY <2>1, <2>2, <2>3, <3>1, <3>2 DEF TmpInv, Sound, FlInv, NeverPartial, Unborn
    <3>5. NeverPartial'
      BY <2>1, <2>2, <2>4, <3>2 DEF FlInv, NeverPartial
    <3>6. QED
      BY <3>3, <3>4, <3>5 DEF ContentInv
  <2>7. QED
    BY <2>5, <2>6
<1>6. CASE Open(p)
  <2> DEFINE i == OpenFl(p)
  <2>1. TmpInv(p) /\ pc[p] = "open" /\ i \in Fl \union {NoFile}
    BY <1>6 DEF Open, OpenFl, FlOutTmp, FlInv, ContentInv, TypeOK
  <2>2. /\ UNCHANGED <<cmd, WRT_TMP_FL, out, tmp>> /\ pc'[p] \in {"write", "fail"}
        /\ \A q \in Prc \ {p} : pc'[q] = pc[q]
    BY <1>6 DEF Open, Goto, opt_vars, TypeOK
  <2>3. CASE i = NoFile
    <3>1. UNCHANGED <<hnd, fl>>
      BY <1>6, <2>3 DEF Open
    <3>2. QED
      BY <2>1, <2>2, <3>1 DEF FlInv, ContentInv, TmpInv, NeverPartial, Sound, Unborn
  <2>4. CASE i # NoFile
    <3>1. /\ hnd' = [hnd EXCEPT ![p] = i]
          /\ fl' = [fl EXCEPT ![i].dirty = @ \union {cmd[p]}, ![i].direct = @ \/ ~WRT_TMP_FL[p]]
      BY <1>6, <2>4 DEF Open
    <3>2. /\ hnd'[p] = i /\ \A q \in Prc \ {p} : hnd'[q] = hnd[q]
          /\ \A j \in Fl \ {i} : fl'[j] = fl[j]
      BY <2>1, <2>4, <3>1 DEF TypeOK
    <3>3. /\ fl'[i].dirty = fl[i].dirty \union {cmd[p]}
          /\ fl'[i].direct <=> (fl[i].direct \/ ~WRT_TMP_FL[p])
      BY <2>1, <2>4, <3>1 DEF TypeOK
    <3>4. \A q \in Prc \ {p} : tmp[q] # i
      BY <2>1, <2>4 DEF OpenFl, FlOutTmp, FlInv, NameInv
    <3>5. \A q \in Prc \ {p} : TmpInv(q)'
      BY <2>1, <2>2, <2>4, <3>2, <3>3, <3>4, OtherKept DEF FlInv
    <3>6. TmpInv(p)'
      BY <2>1, <2>2, <2>4, <3>2, <3>3 DEF TmpInv, Sound, OpenFl, FlOutTmp, Unborn
    <3>7. NeverPartial'
      <4>1. CASE WRT_TMP_FL[p]
        BY <2>1, <2>2, <2>4, <3>2, <4>1 DEF FlInv, NeverPartial, NameInv, OpenFl, FlOutTmp, TypeOK
      <4>2. CASE ~WRT_TMP_FL[p]
        BY <2>2, <3>3, <4>2 DEF NeverPartial, OpenFl, FlOutTmp
      <4>3. QED
        BY <4>1, <4>2
    <3>8. QED
      BY <3>5, <3>6, <3>7 DEF ContentInv
  <2>5. QED
    BY <2>3, <2>4
<1>7. CASE Create(p)
  <2> DEFINE i == IF FlOutTmp(p) = NoFile THEN cmd[p] ELSE FlOutTmp(p)
  <2>1. TmpInv(p) /\ pc[p] \in {"create", "create_new"} /\ i \in Fl
    BY <1>7 DEF Create, FlOutTmp, FlInv, ContentInv, NameInv, TypeOK, Running, Fl, Cmd
  <2>2. /\ UNCHANGED <<cmd, WRT_TMP_FL>> /\ pc'[p] \in {"write", "fail"}
        /\ \A q \in Prc \ {p} : pc'[q] = pc[q]
    BY <1>7 DEF Create, Goto, opt_vars, TypeOK
  <2>3. hnd[p] = NoFile /\ (WRT_TMP_FL[p] => i = cmd[p])
    BY <2>1 DEF TypeOK, Running, TmpInv, Unborn, FlOutTmp
  <2>4. cmd[p] # out /\ \A q \in Prc : tmp[q] # cmd[p] /\ hnd[q] # cmd[p]
    BY <2>1 DEF FlInv, NameInv, Unborn
  <2>5. CASE UNCHANGED <<hnd, fl_vars>>
    BY <2>1, <2>2, <2>3, <2>5 DEF fl_vars, FlInv, ContentInv, TmpInv, NeverPartial, Sound, Unborn
  <2>6. CASE ~UNCHANGED <<hnd, fl_vars>>
    <3> DEFINE new == [parts |-> {}, dirty |-> Writing(i) \union {cmd[p]},
                       direct |-> fl[i].direct \/ ~WRT_TMP_FL[p]]
    <3>1. /\ Place(p, i) /\ hnd' = [hnd EXCEPT ![p] = i]
          /\ fl' = [fl EXCEPT ![i] = new]
      BY <1>7, <2>6 DEF Create
    <3>2. /\ hnd'[p] = i /\ \A q \in Prc \ {p} : hnd'[q] = hnd[q]
          /\ \A j \in Fl \ {i} : fl'[j] = fl[j]
          /\ fl'[i].dirty = Writing(i) \union {cmd[p]}
          /\ fl'[i].direct <=> (fl[i].direct \/ ~WRT_TMP_FL[p])
      <4>1. fl'[i] = new
        BY <2>1, <3>1 DEF TypeOK
      <4>2. new.dirty = Writing(i) \union {cmd[p]} /\ new.direct = (fl[i].direct \/ ~WRT_TMP_FL[p])
        OBVIOUS
      <4>3. fl'[i].dirty = Writing(i) \union {cmd[p]} /\ (fl'[i].direct <=> (fl[i].direct \/ ~WRT_TMP_FL[p]))
        BY <4>1, <4>2, Zenon
      <4>4. QED
        BY <2>1, <3>1, <4>3 DEF TypeOK
    <3>3. /\ IF WRT_TMP_FL[p] THEN tmp'[p] = i /\ out' = out ELSE out' = i /\ tmp'[p] = tmp[p]
          /\ \A q \in Prc \ {p} : tmp'[q] = tmp[q]
      BY <3>1 DEF Place, TypeOK
    <3>4. \A q \in Prc \ {p} : tmp[q] # i
      BY <2>1, <2>4 DEF FlOutTmp, FlInv, NameInv
    <3>5. \A q \in Prc \ {p} : TmpInv(q)'
      BY <2>1, <2>2, <3>2, <3>3, <3>4, OtherKept DEF FlInv, Fl, Cmd, NoFile
    <3>6. WRT_TMP_FL[p] => Writing(i) = {}
      BY <2>3, <2>4 DEF Writing
    <3>7. TmpInv(p)'
      BY <2>1, <2>2, <2>3, <3>2, <3>3, <3>6 DEF TmpInv, Sound, Unborn
    <3>8. NeverPartial'
      BY <2>1, <2>3, <2>4, <3>2, <3>3 DEF FlInv, NeverPartial, TypeOK
    <3>9. QED
      BY <3>5, <3>7, <3>8 DEF ContentInv
  <2>7. QED
    BY <2>5, <2>6
<1>8. CASE Write(p)
  BY <1>8, MaxCmdAssumption DEF Write, AfterWrite, Goto, TypeOK, FlInv, NameInv, ContentInv, TmpInv, NeverPartial, Sound, Unborn, opt_vars, fl_vars, Stopped, Running, Fl, Cmd, NoFile
<1>9. CASE Close(p)
  BY <1>9, MaxCmdAssumption DEF Close, AfterClose, Goto, TypeOK, FlInv, NameInv, ContentInv, TmpInv, NeverPartial, Sound, Unborn, opt_vars, fl_vars, Stopped, Running, Fl, Cmd, NoFile
<1>10. CASE Mv(p)
  BY <1>10, MaxCmdAssumption DEF Mv, Goto, TypeOK, FlInv, NameInv, ContentInv, TmpInv, NeverPartial, Sound, Unborn, opt_vars, fl_vars, Stopped, Running, Fl, Cmd, NoFile
<1>11. CASE Abort(p)
  BY <1>11, MaxCmdAssumption DEF Abort, Goto, TypeOK, FlInv, NameInv, ContentInv, TmpInv, NeverPartial, Sound, Unborn, opt_vars, fl_vars, Stopped, Running, Fl, Cmd, NoFile
<1>12. QED
  BY <1>1, <1>2, <1>3, <1>4, <1>5, <1>6, <1>7, <1>8, <1>9, <1>10, <1>11 DEF Step

\* Initially, and after a step that changes nothing.
LEMMA InitInv == Init => TypeOK /\ FlInv
<1> SUFFICES ASSUME Init
             PROVE  TypeOK /\ FlInv
  OBVIOUS
<1>1. fl \in [Fl -> [parts : SUBSET Fl, dirty : SUBSET Cmd, direct : BOOLEAN]]
  <2>1. 0 \in Fl
    BY DEF Fl
  <2>2. \A i \in Fl : (IF i = 0 THEN {0} ELSE {}) \in SUBSET Fl
    BY <2>1
  <2>3. QED
    BY <2>2 DEF Init
<1>2. TypeOK
  <2>1. 0 \in 0..MaxCmd
    BY MaxCmdAssumption
  <2>2. out \in Fl \union {NoFile}
    BY DEF Init, Fl
  <2>3. QED
    BY <1>1, <2>1, <2>2 DEF Init, TypeOK, Stopped
<1>3. \A i \in Fl : fl[i].dirty = {}
  BY DEF Init
<1>4. NameInv
  BY DEF Init, NameInv, Unborn, Running, NoFile
<1>5. ContentInv
  BY DEF Init, ContentInv, TmpInv, Unborn
<1>6. NeverPartial
  BY <1>2, <1>3 DEF NeverPartial, TypeOK
<1>7. QED
  BY <1>2, <1>4, <1>5, <1>6 DEF FlInv

LEMMA Stutter ==
  ASSUME TypeOK, FlInv, UNCHANGED vars
  PROVE  (TypeOK /\ FlInv)'
  BY DEF vars, opt_vars, fl_vars, TypeOK, FlInv, NameInv, ContentInv, TmpInv,
     NeverPartial, Sound, Unborn

LEMMA NextInv == TypeOK /\ FlInv /\ [Next]_vars => (TypeOK /\ FlInv)'
<1> SUFFICES ASSUME TypeOK, FlInv, [Next]_vars
             PROVE  (TypeOK /\ FlInv)'
  OBVIOUS
<1>1. CASE UNCHANGED vars
  BY <1>1, Stutter
<1>2. CASE Next
  <2>1. PICK p \in Prc : Step(p)
    BY <1>2 DEF Next
  <2>2. TypeOK'
    BY <2>1, TypeStep
  <2>3. NameInv'
    BY <2>1, NameStep DEF FlInv
  <2>4. (ContentInv /\ NeverPartial)'
    BY <2>1, <2>2, ContentStep
  <2>5. QED
    BY <2>2, <2>3, <2>4 DEF FlInv
<1>3. QED
  BY <1>1, <1>2

-----------------------------------------------------------------------------
\* Types, for any processes and any number of commands.
THEOREM FlTypeCorrect == Spec => []TypeOK
<1>1. Spec => [](TypeOK /\ FlInv)
  BY InitInv, NextInv, PTL DEF Spec
<1>2. QED
  BY <1>1, PTL

\* File numbers, names and contents agree in every state.
THEOREM FlInvariant == Spec => []FlInv
<1>1. Spec => [](TypeOK /\ FlInv)
  BY InitInv, NextInv, PTL DEF Spec
<1>2. QED
  BY <1>1, PTL

\* The output file is never partial, whatever stops the commands: its name
\* is given only to files that are closed (nco_fl_out_cls()).
THEOREM NeverPartialOutput == Spec => []NeverPartial
<1>1. FlInv => NeverPartial
  BY DEF FlInv
<1>2. QED
  BY <1>1, FlInvariant, PTL

\* The contents of the output file do not change in a step of a command that
\* writes to a temporary file.
LEMMA TmpStepKeepsOut ==
  ASSUME TypeOK, FlInv, NEW p \in Prc, Step(p), WRT_TMP_FL[p], out # NoFile
  PROVE  fl'[out] = fl[out]
<1>1. tmp[p] # out
  BY DEF FlInv, NameInv
<1>2. hnd[p] # NoFile => hnd[p] = tmp[p]
  BY DEF FlInv, ContentInv, TmpInv
<1>3. CASE Start(p) \/ Vet(p) \/ StatOut(p) \/ Ask(p) \/ Mv(p) \/ Abort(p)
  BY <1>3 DEF Start, Vet, StatOut, Ask, Mv, Abort, fl_vars
<1>4. CASE Copy(p)
  <2>1. cmd[p] # out
    BY <1>4 DEF Copy, FlInv, NameInv, Unborn
  <2>2. fl' = fl \/ \E s \in Copied : fl' = [fl EXCEPT ![cmd[p]] = [fl[out] EXCEPT !.parts = s]]
    BY <1>4 DEF Copy, fl_vars
  <2>3. QED
    BY <2>1, <2>2 DEF TypeOK
<1>5. CASE Open(p)
  <2>1. fl' = fl \/ fl' = [fl EXCEPT ![tmp[p]].dirty = @ \union {cmd[p]},
                                     ![tmp[p]].direct = @ \/ ~WRT_TMP_FL[p]]
    BY <1>5 DEF Open, OpenFl, FlOutTmp
  <2>2. QED
    BY <1>1, <2>1 DEF TypeOK
<1>6. CASE Create(p)
  <2> DEFINE i == IF tmp[p] = NoFile THEN cmd[p] ELSE tmp[p]
  <2>1. i # out
    BY <1>1, <1>6 DEF Create, FlInv, NameInv, Unborn
  <2>2. fl' = fl \/ fl' = [fl EXCEPT ![i] = [parts |-> {}, dirty |-> Writing(i) \union {cmd[p]},
                                      direct |-> @.direct \/ ~WRT_TMP_FL[p]]]
    BY <1>6 DEF Create, FlOutTmp, fl_vars
  <2>3. QED
    BY <2>1, <2>2 DEF TypeOK
<1>7. CASE Write(p)
  <2>1. hnd[p] # out
    BY <1>1, <1>2, <1>7 DEF Write, TypeOK
  <2>2. QED
    BY <1>7, <2>1 DEF Write, TypeOK
<1>8. CASE Close(p)
  <2>1. hnd[p] # out
    BY <1>1, <1>2, <1>8 DEF Close, TypeOK
  <2>2. QED
    BY <1>8, <2>1 DEF Close, TypeOK
<1>9. QED
  BY <1>3, <1>4, <1>5, <1>6, <1>7, <1>8 DEF Step

\* Readers of the output file are safe.
THEOREM ReadersAreSafe == Spec => ReadersSafe
<1> DEFINE Direct == \E p \in Prc : ~WRT_TMP_FL[p] /\ pc'[p] # pc[p]
<1> DEFINE A == out # NoFile /\ fl'[out] # fl[out] => Direct
<1>1. TypeOK /\ FlInv /\ [Next]_vars => [A]_vars
  <2>1. SUFFICES ASSUME TypeOK, FlInv, Next, out # NoFile, fl'[out] # fl[out]
                 PROVE  Direct
    OBVIOUS
  <2>2. PICK p \in Prc : Step(p)
    BY <2>1 DEF Next
  <2>3. ~WRT_TMP_FL[p]
    BY <2>1, <2>2, TmpStepKeepsOut
  <2>4. pc'[p] # pc[p]
    BY <2>1, <2>2 DEF Step, Start, Vet, StatOut, AfterStat, Ask, Copy, Open, Create, Write, AfterWrite,
       Close, AfterClose, Mv, Abort, Goto, TypeOK, Stopped, Running
  <2>5. QED
    BY <2>3, <2>4
<1>2. Spec => [](TypeOK /\ FlInv)
  BY InitInv, NextInv, PTL DEF Spec
<1>3. QED
  BY <1>1, <1>2, PTL DEF Spec, ReadersSafe

-----------------------------------------------------------------------------
(* A command that runs alone.                                              *)

\* When commands do not overlap, the one that makes a step is the only one
\* that runs, and has options that only its start sets.
LEMMA OthersStopped ==
  ASSUME TypeOK, OneCommand, OneCommand', NEW p \in Prc, Step(p)
  PROVE  \A q \in Prc \ {p} : pc'[q] \notin Running
<1>1. \A q \in Prc \ {p} : pc'[q] = pc[q]
  BY DEF Step, Start, Vet, StatOut, Ask, Copy, Open, Create, Write, Close, Mv, Abort, Goto, TypeOK
<1>2. CASE pc[p] \in Running
  BY <1>1, <1>2 DEF OneCommand
<1>3. CASE pc[p] \notin Running
  <2>1. Start(p)
    BY <1>3 DEF Step, Start, Vet, StatOut, Ask, Copy, Open, Create, Write, Close, Mv, Abort, Running
  <2>2. pc'[p] \in Running
    BY <2>1 DEF Start, Goto, TypeOK, Running
  <2> QED
    BY <2>2 DEF OneCommand
<1> QED
  BY <1>2, <1>3

\* Its own steps.
LEMMA AloneStep ==
  ASSUME TypeOK, FlInv, NEW p \in Prc, pc[p] \in Running => Alone(p), Step(p), SystemWorks,
         pc'[p] \in Running
  PROVE  Alone(p)'
<1>1. CASE Start(p)
  BY <1>1 DEF Start, Goto, TypeOK, Alone
<1>2. CASE Vet(p)
  BY <1>2 DEF Vet, Goto, TypeOK, Alone, Agreed, Running, opt_vars
<1>3. CASE StatOut(p)
  BY <1>3 DEF StatOut, AfterStat, Goto, TypeOK, Alone, Agreed, Running, opt_vars, fl_vars
<1>4. CASE Ask(p)
  <2>1. PICK r \in {"z", "o", "a", "e"} :
          /\ usr_rpl' = [usr_rpl EXCEPT ![p] = r]
          /\ Goto(p, CASE r = "z" -> "fail" [] r = "e" -> "ok"
                       [] r = "o" -> "create" [] r = "a" -> "copy")
    BY <1>4 DEF Ask
  <2>2. usr_rpl'[p] = r /\ (pc'[p] = "copy" \/ (pc'[p] = "create" /\ r = "o"))
    BY <2>1 DEF Goto, TypeOK, Running
  <2> QED
    BY <2>2 DEF Alone, Agreed
<1>5. CASE Copy(p)
  <2>1. pc'[p] = "open" /\ pc[p] = "copy" /\ UNCHANGED <<WRT_TMP_FL, out>>
    BY <1>5 DEF Copy, Place, Goto, TypeOK, Running, opt_vars, fl_vars
  <2>2. WRT_TMP_FL[p] => tmp'[p] # NoFile /\ Parts' \subseteq fl'[tmp'[p]].parts
    <3> SUFFICES ASSUME WRT_TMP_FL[p]
                 PROVE  tmp'[p] # NoFile /\ Parts' \subseteq fl'[tmp'[p]].parts
      OBVIOUS
    <3>1. tmp'[p] = cmd[p] /\ fl'[cmd[p]].parts = Parts
      BY <2>1 DEF SystemWorks
    <3>2. cmd[p] # NoFile
      BY MaxCmdAssumption DEF TypeOK, NoFile
    <3>3. Parts' = Parts
      <4>1. cmd[p] # out
        BY <2>1 DEF FlInv, NameInv, Unborn
      <4>2. \A j \in Fl \ {cmd[p]} : fl'[j] = fl[j]
        BY <1>5 DEF Copy, fl_vars, TypeOK
      <4> QED
        BY <2>1, <4>1, <4>2 DEF Parts, TypeOK
    <3> QED
      BY <3>1, <3>2, <3>3
  <2> QED
    BY <2>1, <2>2 DEF Alone
<1>6. CASE Open(p)
  <2> DEFINE i == FlOutTmp(p)
  <2>1. /\ pc'[p] = "write" /\ pc[p] = "open" /\ i # NoFile
        /\ UNCHANGED <<WRT_TMP_FL, FORCE_OVERWRITE, usr_rpl, out, tmp>>
    BY <1>6 DEF Open, OpenFl, Goto, TypeOK, Running, opt_vars
  <2>2. /\ hnd' = [hnd EXCEPT ![p] = i]
        /\ fl' = [fl EXCEPT ![i].dirty = @ \union {cmd[p]}, ![i].direct = @ \/ ~WRT_TMP_FL[p]]
    BY <1>6, <2>1 DEF Open, OpenFl
  <2>3. \A j \in Fl : fl'[j].parts = fl[j].parts
    BY <2>2 DEF TypeOK
  <2>4. Parts' = Parts
    BY <2>1, <2>3 DEF Parts, TypeOK
  <2>5. WRT_TMP_FL[p] => tmp[p] # NoFile /\ (Agreed(p) \/ Parts \subseteq fl[tmp[p]].parts)
    BY <2>1 DEF Alone, Running
  <2>6. Agreed(p)' <=> Agreed(p)
    BY <2>1 DEF Agreed
  <2>7. tmp[p] # NoFile => fl'[tmp[p]].parts = fl[tmp[p]].parts
    BY <2>3 DEF TypeOK
  <2>8. ~WRT_TMP_FL[p] => hnd'[p] = out
    BY <2>2 DEF FlOutTmp, TypeOK
  <2> QED
    BY <2>1, <2>4, <2>5, <2>6, <2>7, <2>8 DEF Alone
<1>7. CASE Create(p)
  <2> DEFINE old == FlOutTmp(p)
             i == IF old = NoFile THEN cmd[p] ELSE old
  <2>1. /\ pc'[p] = "write" /\ pc[p] \in {"create", "create_new"} /\ Alone(p)
        /\ UNCHANGED <<WRT_TMP_FL, FORCE_OVERWRITE, usr_rpl>>
    BY <1>7 DEF Create, Goto, TypeOK, Running, opt_vars
  <2>2. /\ Place(p, i) /\ hnd' = [hnd EXCEPT ![p] = i]
        /\ fl' = [fl EXCEPT ![i] = [parts |-> {}, dirty |-> Writing(i) \union {cmd[p]},
                                    direct |-> @.direct \/ ~WRT_TMP_FL[p]]]
    BY <1>7, <2>1 DEF Create, Goto, TypeOK
  <2>3. i # NoFile
    BY MaxCmdAssumption DEF TypeOK, NoFile
  <2>4. CASE WRT_TMP_FL[p]
    <3>1. tmp'[p] = i /\ out' = out
      BY <2>2, <2>4 DEF Place, TypeOK
    <3>2. pc[p] = "create_new" => Parts' = {}
      BY <2>1, <3>1 DEF Alone, Parts
    <3>3. Agreed(p)' \/ Parts' \subseteq fl'[tmp'[p]].parts
      BY <2>1, <3>2 DEF Alone, Agreed
    <3> QED
      BY <2>1, <2>3, <2>4, <3>1, <3>3 DEF Alone
  <2>5. CASE ~WRT_TMP_FL[p]
    <3>1. out' = i /\ hnd'[p] = i
      BY <2>2, <2>5 DEF Place, TypeOK
    <3> QED
      BY <2>1, <2>5, <3>1 DEF Alone
  <2> QED
    BY <2>4, <2>5
<1>8. CASE Write(p)
  <2>1. /\ pc'[p] = "close" /\ pc[p] = "write" /\ Alone(p)
        /\ fl' = [fl EXCEPT ![hnd[p]].parts = @ \union {cmd[p]}]
        /\ UNCHANGED <<cmd, WRT_TMP_FL, FORCE_OVERWRITE, usr_rpl, hnd, out, tmp>>
    BY <1>8 DEF Write, AfterWrite, Goto, TypeOK, Running, opt_vars
  <2>2. hnd[p] # NoFile /\ hnd[p] \in Fl /\ hnd[p] = FlOutTmp(p)
    BY <2>1 DEF TypeOK, FlInv, ContentInv, TmpInv, Alone, FlOutTmp
  <2>3. fl'[hnd[p]].parts = fl[hnd[p]].parts \union {cmd[p]}
    BY <2>1, <2>2 DEF TypeOK
  <2>4. FlOutTmp(p)' = hnd[p]
    BY <2>1, <2>2 DEF FlOutTmp
  <2>5. CASE WRT_TMP_FL[p]
    <3>1. hnd[p] = tmp[p] /\ tmp[p] # out
      BY <2>2, <2>5 DEF FlOutTmp, FlInv, NameInv
    <3>2. Parts' = Parts
      BY <2>1, <3>1 DEF Parts, TypeOK
    <3> QED
      BY <2>1, <2>2, <2>3, <2>4, <2>5, <3>1, <3>2 DEF Alone, Agreed
  <2>6. CASE ~WRT_TMP_FL[p]
    BY <2>1, <2>2, <2>3, <2>4, <2>6 DEF Alone
  <2> QED
    BY <2>5, <2>6
<1>9. CASE Close(p)
  <2>1. /\ pc'[p] = "mv" /\ pc[p] = "close" /\ Alone(p) /\ WRT_TMP_FL[p]
        /\ fl' = [fl EXCEPT ![hnd[p]].dirty = @ \ {cmd[p]}]
        /\ UNCHANGED <<cmd, WRT_TMP_FL, FORCE_OVERWRITE, usr_rpl, out, tmp>>
    BY <1>9 DEF Close, AfterClose, Goto, TypeOK, Running, opt_vars
  <2>2. \A j \in Fl : fl'[j].parts = fl[j].parts
    BY <2>1 DEF TypeOK
  <2>3. Parts' = Parts
    BY <2>1, <2>2 DEF Parts, TypeOK
  <2>4. tmp[p] # NoFile /\ tmp[p] \in Fl /\ FlOutTmp(p) = tmp[p] /\ FlOutTmp(p)' = tmp[p]
    BY <2>1 DEF Alone, FlOutTmp, TypeOK
  <2> QED
    BY <2>1, <2>2, <2>3, <2>4 DEF Alone, Agreed
<1>10. CASE Mv(p) \/ Abort(p)
  BY <1>10 DEF Mv, Abort, Goto, TypeOK, Running
<1> QED
  BY <1>1, <1>2, <1>3, <1>4, <1>5, <1>6, <1>7, <1>8, <1>9, <1>10 DEF Step

LEMMA MCInvariant == MCSpec => [](TypeOK /\ FlInv /\ AloneInv)
<1> DEFINE I == TypeOK /\ FlInv /\ AloneInv
<1>1. MCInit => I
  BY InitInv DEF MCInit, Init, AloneInv, OneCommand, Running
<1>2. ASSUME I, MCNext
      PROVE  I'
  <2>1. TypeOK' /\ FlInv'
    BY <1>2, NextInv DEF MCNext
  <2>2. CASE ~alone
    BY <1>2, <2>1, <2>2 DEF MCNext, AloneInv
  <2>3. CASE alone
    <3>1. OneCommand /\ OneCommand' /\ SystemWorks /\ alone'
      BY <1>2, <2>3 DEF MCNext, AloneInv
    <3>2. PICK p \in Prc : Step(p)
      BY <1>2 DEF MCNext, Next
    <3>3. pc'[p] \in Running => Alone(p)'
      BY <1>2, <2>3, <3>1, <3>2, AloneStep DEF AloneInv
    <3> QED
      BY <1>2, <2>1, <3>1, <3>2, <3>3, OthersStopped DEF AloneInv
  <2> QED
    BY <2>1, <2>2, <2>3
<1>3. ASSUME I, UNCHANGED <<vars, alone>>
      PROVE  I'
  <2>1. TypeOK' /\ FlInv'
    BY <1>3, Stutter
  <2>2. UNCHANGED <<pc, cmd, FORCE_OVERWRITE, WRT_TMP_FL, usr_rpl, hnd, out, tmp, fl, alone>>
    BY <1>3 DEF vars, opt_vars, fl_vars
  <2>3. Parts' = Parts /\ \A p \in Prc : (Agreed(p)' <=> Agreed(p)) /\ FlOutTmp(p)' = FlOutTmp(p)
    BY <2>2 DEF Parts, Agreed, FlOutTmp
  <2>4. \A p \in Prc : Alone(p)' <=> Alone(p)
    BY <2>2, <2>3 DEF Alone
  <2>5. OneCommand' <=> OneCommand
    BY <2>2 DEF OneCommand
  <2> QED
    BY <1>3, <2>1, <2>2, <2>4, <2>5 DEF AloneInv
<1> QED
  BY <1>1, <1>2, <1>3, PTL DEF MCSpec

\* What a step that takes results from the output file has done.
LEMMA LosesStep ==
  ASSUME TypeOK, FlInv, NEW p \in Prc, pc[p] \in Running => Alone(p), Step(p),
         Parts \ Parts' # {}
  PROVE  pc'[p] # pc[p] /\ Agreed(p)
<1>1. pc'[p] # pc[p]
  BY DEF Step, Start, Vet, StatOut, AfterStat, Ask, Copy, Open, Create, Write, AfterWrite,
    Close, AfterClose, Mv, Abort, Goto, TypeOK, Stopped, Running
<1>2. out # NoFile /\ out \in Fl
  BY DEF Parts, TypeOK
<1>3. CASE out' = out
  <2>1. fl'[out].parts # fl[out].parts
    BY <1>2, <1>3 DEF Parts
  <2>2. ~WRT_TMP_FL[p]
    BY <1>2, <2>1, TmpStepKeepsOut
  <2>3. ~(Start(p) \/ Vet(p) \/ StatOut(p) \/ Ask(p) \/ Mv(p) \/ Abort(p))
    BY <2>1 DEF Start, Vet, StatOut, Ask, Mv, Abort, fl_vars
  <2>4. ~Copy(p)
    BY <2>1, <2>2 DEF Copy, fl_vars
  <2>5. ~Open(p) /\ ~Close(p)
    BY <1>2, <2>1 DEF Open, Close, TypeOK
  <2>6. ~Write(p)
    <3> SUFFICES ASSUME Write(p)
                 PROVE  FALSE
      OBVIOUS
    <3>1. fl' = [fl EXCEPT ![hnd[p]].parts = @ \union {cmd[p]}]
      BY DEF Write
    <3>2. fl[out].parts \subseteq fl'[out].parts
      BY <1>2, <3>1 DEF TypeOK
    <3> QED
      BY <1>2, <1>3, <3>2 DEF Parts
  <2>7. Create(p) /\ pc[p] \in {"create", "create_new"} /\ Alone(p)
    BY <2>3, <2>4, <2>5, <2>6 DEF Step, Create, Running
  <2> QED
    BY <1>1, <1>2, <2>7 DEF Alone
<1>4. CASE out' # out
  <2>1. Create(p) \/ Mv(p)
    BY <1>4 DEF Step, Start, Vet, StatOut, Ask, Copy, Place, Open, Write, Close, Abort, fl_vars
  <2>2. CASE Create(p)
    <3>1. ~WRT_TMP_FL[p]
      BY <1>4, <2>2 DEF Create, Place, fl_vars
    <3> QED
      BY <1>2, <1>4, <2>2, <3>1 DEF Create, Place, FlOutTmp, fl_vars
  <2>3. CASE Mv(p)
    <3>1. pc[p] = "mv" /\ Alone(p) /\ WRT_TMP_FL[p] /\ out' = tmp[p] /\ fl' = fl
      BY <1>4, <2>3 DEF Mv, FlInv, ContentInv, TmpInv, Running
    <3>2. tmp[p] # NoFile /\ (Agreed(p) \/ Parts \subseteq fl[tmp[p]].parts)
      BY <3>1 DEF Alone
    <3>3. Parts' = fl[tmp[p]].parts
      BY <3>1, <3>2 DEF Parts
    <3> QED
      BY <1>1, <3>2, <3>3
  <2> QED
    BY <2>1, <2>2, <2>3
<1> QED
  BY <1>3, <1>4

\* What a command has done that ends with success.
LEMMA OkStep ==
  ASSUME TypeOK, FlInv, NEW p \in Prc, pc[p] \in Running, Alone(p), Step(p), SystemWorks,
         pc'[p] = "ok", usr_rpl'[p] # "e"
  PROVE  cmd[p] \in Parts'
<1>1. ~Ask(p)
  <2> SUFFICES ASSUME Ask(p)
               PROVE  FALSE
    OBVIOUS
  <2>1. PICK r \in {"z", "o", "a", "e"} :
          /\ usr_rpl' = [usr_rpl EXCEPT ![p] = r]
          /\ Goto(p, CASE r = "z" -> "fail" [] r = "e" -> "ok"
                       [] r = "o" -> "create" [] r = "a" -> "copy")
    BY DEF Ask
  <2> QED
    BY <2>1 DEF Goto, TypeOK
<1>2. Close(p) \/ Mv(p)
  BY <1>1 DEF Step, Start, Vet, StatOut, AfterStat, Copy, Open, Create, Write, AfterWrite, Abort,
    Goto, TypeOK, Stopped, Running
<1>3. CASE Close(p)
  <2>1. pc[p] = "close" /\ ~WRT_TMP_FL[p] /\ out' = out
        /\ fl' = [fl EXCEPT ![hnd[p]].dirty = @ \ {cmd[p]}]
    BY <1>3 DEF Close, AfterClose, Goto, TypeOK
  <2>2. out # NoFile /\ cmd[p] \in fl[out].parts
    BY <2>1 DEF Alone, FlOutTmp
  <2>3. fl'[out].parts = fl[out].parts
    BY <2>1, <2>2 DEF TypeOK
  <2> QED
    BY <2>1, <2>2, <2>3 DEF Parts
<1>4. CASE Mv(p)
  <2>1. pc[p] = "mv" /\ tmp'[p] = NoFile /\ fl' = fl
    BY <1>4 DEF Mv, SystemWorks
  <2>2. tmp[p] # NoFile /\ cmd[p] \in fl[tmp[p]].parts
    BY <2>1 DEF Alone, FlOutTmp, FlInv, ContentInv, TmpInv
  <2>3. out' = tmp[p]
    BY <1>4, <2>1, <2>2 DEF Mv
  <2> QED
    BY <2>1, <2>2, <2>3 DEF Parts
<1> QED
  BY <1>2, <1>3, <1>4

\* Results are lost only as the user agreed, for any number of processes and
\* commands, as long as commands do not overlap and the system works
\* (nco_fl_out_open() to nco_fl_out_cls()).
THEOREM KeepsTheData == MCSpec => KeepsData
<1> DEFINE A == alone => LosesAsAgreed
<1>1. TypeOK /\ FlInv /\ AloneInv /\ [MCNext]_<<vars, alone>> => [A]_<<vars, alone>>
  <2> SUFFICES ASSUME TypeOK, FlInv, AloneInv, MCNext, alone, Parts \ Parts' # {}
               PROVE  \E p \in Prc : pc'[p] # pc[p] /\ (FORCE_OVERWRITE[p] \/ usr_rpl[p] = "o")
    BY DEF LosesAsAgreed
  <2>1. PICK p \in Prc : Step(p)
    BY DEF MCNext, Next
  <2>2. pc'[p] # pc[p] /\ Agreed(p)
    BY <2>1, LosesStep DEF AloneInv
  <2> QED
    BY <2>2 DEF Agreed
<1> QED
  BY <1>1, MCInvariant, PTL DEF MCSpec, KeepsData

\* A command that ends with success has published its results, under the
\* same conditions.
THEOREM SuccessHasPublished == MCSpec => SuccessPublishes
<1> DEFINE A == alone => PublishesBeforeOk
<1>1. TypeOK /\ FlInv /\ AloneInv /\ [MCNext]_<<vars, alone>> => [A]_<<vars, alone>>
  <2> SUFFICES ASSUME TypeOK, FlInv, AloneInv, MCNext, alone, NEW p \in Prc, pc[p] \in Running,
                      pc'[p] = "ok", usr_rpl'[p] # "e"
               PROVE  cmd[p] \in Parts'
    BY DEF PublishesBeforeOk
  <2>1. Step(p)
    <3>1. PICK q \in Prc : Step(q)
      BY DEF MCNext, Next
    <3>2. pc'[p] # pc[p]
      BY DEF Running
    <3> QED
      BY <3>1, <3>2 DEF Step, Start, Vet, StatOut, Ask, Copy, Open, Create, Write, Close, Mv, Abort,
        Goto, TypeOK
  <2> QED
    BY <2>1, OkStep DEF AloneInv, MCNext
<1> QED
  BY <1>1, MCInvariant, PTL DEF MCSpec, SuccessPublishes

=============================================================================
