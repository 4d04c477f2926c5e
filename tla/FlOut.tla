------------------------------- MODULE FlOut -------------------------------
(***************************************************************************)
(* The life of an output file: nco_fl_out_open() and nco_fl_out_cls() of   *)
(* src/nco/nco_fl_utl.c with the copy, create, open, close and move they   *)
(* make, as every operator but ncatted and ncrename runs them around its   *)
(* work.                                                                   *)
(*                                                                         *)
(* Commands with the same output file follow each other, or overlap when   *)
(* scripts start them in the background.  A command may be stopped at any  *)
(* step, by a crash, by the user or by a fatal error, and then leaves its  *)
(* files as they are.  A process here is a process ID, used again by later *)
(* commands; it names the temporary file.  Files are named separately from *)
(* their contents, as a file system does: a file that was replaced is      *)
(* still there for those who have it open.                                 *)
(***************************************************************************)
EXTENDS Integers

CONSTANTS
  Prc,          \* process IDs
  MaxCmd,       \* bound: number of commands started
  Overlap,      \* commands may run at the same time
  SystemFails   \* system() or the command it runs may fail

ASSUME MaxCmdAssumption == MaxCmd \in Nat
ASSUME FlagsAssumption == Overlap \in BOOLEAN /\ SystemFails \in BOOLEAN

NoFile == -1
Cmd == 1..MaxCmd
Fl == {0} \union Cmd  \* file 0 may be there before, file c is made by command c

VARIABLES
  pc,              \* where each process is
  cmd,             \* its command
  FORCE_OVERWRITE, FORCE_APPEND, WRT_TMP_FL,  \* its options
  usr_rpl,         \* the user's reply to its question
  hnd,             \* the file it has open for writing
  cmd_nbr,         \* commands started
  out,             \* the file at fl_out
  tmp,             \* the file at fl_out_tmp of each process ID
  fl               \* contents: commands whose results are in, commands whose
                   \* writing is not finished, written to directly

opt_vars == <<cmd, FORCE_OVERWRITE, WRT_TMP_FL, cmd_nbr>>
fl_vars == <<out, tmp, fl>>
vars == <<pc, opt_vars, FORCE_APPEND, usr_rpl, hnd, fl_vars>>

Stopped == {"idle", "ok", "fail"}
Running == {"vet", "stat_out", "ask", "copy", "open", "create", "create_new", "write", "close", "mv"}

\* Types; a process has a file open exactly while it writes.
TypeOK ==
  /\ pc \in [Prc -> Stopped \union Running]
  /\ cmd \in [Prc -> 0..MaxCmd] /\ cmd_nbr \in 0..MaxCmd
  /\ FORCE_OVERWRITE \in [Prc -> BOOLEAN] /\ FORCE_APPEND \in [Prc -> BOOLEAN]
  /\ WRT_TMP_FL \in [Prc -> BOOLEAN] /\ usr_rpl \in [Prc -> {"z", "o", "a", "e"}]
  /\ hnd \in [Prc -> Fl \union {NoFile}]
  /\ out \in Fl \union {NoFile} /\ tmp \in [Prc -> Fl \union {NoFile}]
  /\ fl \in [Fl -> [parts : SUBSET Fl, dirty : SUBSET Cmd, direct : BOOLEAN]]
  /\ \A p \in Prc : hnd[p] # NoFile <=> pc[p] \in {"write", "close"}

Init ==
  /\ pc = [p \in Prc |-> "idle"] /\ cmd = [p \in Prc |-> 0] /\ cmd_nbr = 0
  /\ FORCE_OVERWRITE = [p \in Prc |-> FALSE] /\ FORCE_APPEND = [p \in Prc |-> FALSE]
  /\ WRT_TMP_FL = [p \in Prc |-> TRUE] /\ usr_rpl = [p \in Prc |-> "z"]
  /\ hnd = [p \in Prc |-> NoFile]
  /\ out \in {NoFile, 0} /\ tmp = [p \in Prc |-> NoFile]
  /\ fl = [i \in Fl |-> [parts |-> IF i = 0 THEN {0} ELSE {}, dirty |-> {}, direct |-> FALSE]]

Goto(p, l) == pc' = [pc EXCEPT ![p] = l]

-----------------------------------------------------------------------------
(* Starting.                                                               *)

\* The user starts a command on an unused process ID, with any options.
Start(p) ==
  /\ pc[p] \in Stopped /\ cmd_nbr < MaxCmd
  /\ ~Overlap => \A q \in Prc : pc[q] \in Stopped
  /\ cmd_nbr' = cmd_nbr + 1 /\ cmd' = [cmd EXCEPT ![p] = cmd_nbr + 1]
  /\ \E ovr, apn, w \in BOOLEAN :
       /\ FORCE_OVERWRITE' = [FORCE_OVERWRITE EXCEPT ![p] = ovr]
       /\ FORCE_APPEND' = [FORCE_APPEND EXCEPT ![p] = apn]
       /\ WRT_TMP_FL' = [WRT_TMP_FL EXCEPT ![p] = w]
  /\ usr_rpl' = [usr_rpl EXCEPT ![p] = "z"]
  /\ Goto(p, "vet")
  /\ UNCHANGED <<hnd, fl_vars>>

\* The options exclude each other; a temporary file left behind under this
\* process ID must be removed by the user first.
Vet(p) ==
  /\ pc[p] = "vet"
  /\ Goto(p, IF \/ FORCE_OVERWRITE[p] /\ FORCE_APPEND[p]
                \/ WRT_TMP_FL[p] /\ tmp[p] # NoFile
             THEN "fail"
             ELSE IF FORCE_OVERWRITE[p] THEN "create" ELSE "stat_out")
  /\ UNCHANGED <<opt_vars, FORCE_APPEND, usr_rpl, hnd, fl_vars>>

\* Is the output file there?  (AfterStatNoAsk: a faulty variant that does not
\* ask.)
AfterStatNoAsk(p) ==
  IF out = NoFile THEN "create_new" ELSE IF FORCE_APPEND[p] THEN "copy" ELSE "create"
AfterStat(p) ==
  IF out = NoFile THEN "create_new" ELSE IF FORCE_APPEND[p] THEN "copy" ELSE "ask"

StatOut(p) ==
  /\ pc[p] = "stat_out" /\ Goto(p, AfterStat(p))
  /\ UNCHANGED <<opt_vars, FORCE_APPEND, usr_rpl, hnd, fl_vars>>

\* Query the user; no valid reply in NCO_MAX_NBR_USR_INPUT_RETRY attempts is
\* a failure.
Ask(p) ==
  /\ pc[p] = "ask"
  /\ \E r \in {"z", "o", "a", "e"} :
       /\ usr_rpl' = [usr_rpl EXCEPT ![p] = r]
       /\ FORCE_APPEND' = [FORCE_APPEND EXCEPT ![p] = @ \/ r = "a"]
       /\ Goto(p, CASE r = "z" -> "fail" [] r = "e" -> "ok"
                    [] r = "o" -> "create" [] r = "a" -> "copy")
  /\ UNCHANGED <<opt_vars, hnd, fl_vars>>

-----------------------------------------------------------------------------
(* Opening.  fl_out_tmp is the name of the temporary file, or fl_out.      *)

FlOutTmp(p) == IF WRT_TMP_FL[p] THEN tmp[p] ELSE out

\* The file i appears at fl_out_tmp.
Place(p, i) ==
  IF WRT_TMP_FL[p] THEN tmp' = [tmp EXCEPT ![p] = i] /\ UNCHANGED out
                   ELSE out' = i /\ UNCHANGED tmp

\* What /bin/cp may have copied when it ends.
Copied == {s \in SUBSET fl[out].parts : SystemFails \/ s = fl[out].parts}

\* nco_fl_cp(), which notices no failure of the copy itself, not even one
\* that leaves only a part of the file.
Copy(p) ==
  /\ pc[p] = "copy"
  /\ \/ /\ ~WRT_TMP_FL[p] /\ Goto(p, "open") /\ UNCHANGED fl_vars
     \/ /\ WRT_TMP_FL[p] /\ Goto(p, "open") /\ Place(p, cmd[p])
        /\ \E s \in Copied : fl' = [fl EXCEPT ![cmd[p]] = [fl[out] EXCEPT !.parts = s]]
     \/ SystemFails /\ WRT_TMP_FL[p] /\ pc' \in {[pc EXCEPT ![p] = l] : l \in {"open", "fail"}}
        /\ UNCHANGED fl_vars
  /\ UNCHANGED <<opt_vars, FORCE_APPEND, usr_rpl, hnd>>

\* The file nco_fl_open() opens after the copy.  (OpenOut: a faulty variant,
\* the original instead of the copy.)
OpenOut(p) == out
OpenFl(p) == FlOutTmp(p)

Open(p) ==
  /\ pc[p] = "open"
  /\ LET i == OpenFl(p) IN
     IF i = NoFile
     THEN Goto(p, "fail") /\ UNCHANGED <<hnd, fl>>
     ELSE /\ hnd' = [hnd EXCEPT ![p] = i] /\ Goto(p, "write")
          /\ fl' = [fl EXCEPT ![i].dirty = @ \union {cmd[p]},
                              ![i].direct = @ \/ ~WRT_TMP_FL[p]]
  /\ UNCHANGED <<opt_vars, FORCE_APPEND, usr_rpl, out, tmp>>

\* Commands that are writing to file i.
Writing(i) == {cmd[q] : q \in {r \in Prc : hnd[r] = i}}

\* nco__create() makes a file, or empties the one of that name; without
\* clobbering it fails if there is one.
Create(p) ==
  /\ pc[p] \in {"create", "create_new"}
  /\ LET old == FlOutTmp(p)
         i == IF old = NoFile THEN cmd[p] ELSE old
     IN IF old # NoFile /\ pc[p] = "create_new"
        THEN Goto(p, "fail") /\ UNCHANGED <<hnd, fl_vars>>
        ELSE /\ Place(p, i)
             /\ fl' = [fl EXCEPT ![i] = [parts |-> {},
                         dirty |-> Writing(i) \union {cmd[p]},
                         direct |-> @.direct \/ ~WRT_TMP_FL[p]]]
             /\ hnd' = [hnd EXCEPT ![p] = i] /\ Goto(p, "write")
  /\ UNCHANGED <<opt_vars, FORCE_APPEND, usr_rpl>>

-----------------------------------------------------------------------------
(* Writing and closing.                                                    *)

\* (AfterWriteMv: a faulty variant that moves the file before it is closed;
\* AfterCloseOk: one that forgets to move it.)
AfterWriteMv(p) == IF WRT_TMP_FL[p] THEN "mv" ELSE "close"
AfterWrite(p) == "close"
AfterCloseOk(p) == "ok"
AfterClose(p) == IF WRT_TMP_FL[p] THEN "mv" ELSE "ok"

\* The operator's work.
Write(p) ==
  /\ pc[p] = "write" /\ Goto(p, AfterWrite(p))
  /\ fl' = [fl EXCEPT ![hnd[p]].parts = @ \union {cmd[p]}]
  /\ UNCHANGED <<opt_vars, FORCE_APPEND, usr_rpl, hnd, out, tmp>>

Close(p) ==
  /\ pc[p] = "close" /\ Goto(p, AfterClose(p))
  /\ fl' = [fl EXCEPT ![hnd[p]].dirty = @ \ {cmd[p]}]
  /\ hnd' = [hnd EXCEPT ![p] = NoFile]
  /\ UNCHANGED <<opt_vars, FORCE_APPEND, usr_rpl, out, tmp>>

\* nco_fl_mv(), which notices a failure of the move, but not one of system().
Mv(p) ==
  /\ pc[p] = "mv"
  /\ \/ out' = tmp[p] /\ tmp' = [tmp EXCEPT ![p] = NoFile] /\ Goto(p, "ok")
     \/ /\ SystemFails /\ pc' \in {[pc EXCEPT ![p] = l] : l \in {"ok", "fail"}}
        /\ UNCHANGED <<out, tmp>>
  /\ UNCHANGED <<opt_vars, FORCE_APPEND, usr_rpl, hnd, fl>>

\* A crash, an interrupt or a fatal error.
Abort(p) ==
  /\ pc[p] \in Running /\ Goto(p, "fail")
  /\ hnd' = [hnd EXCEPT ![p] = NoFile]
  /\ UNCHANGED <<opt_vars, FORCE_APPEND, usr_rpl, fl_vars>>

Step(p) ==
  \/ Start(p) \/ Vet(p) \/ StatOut(p) \/ Ask(p) \/ Copy(p) \/ Open(p)
  \/ Create(p) \/ Write(p) \/ Close(p) \/ Mv(p) \/ Abort(p)

Next == \E p \in Prc : Step(p)

Spec == Init /\ [][Next]_vars

-----------------------------------------------------------------------------
\* "The user-specified output-file is only created upon successful completion
\* of the operation": whatever stops a command at whatever step, and whatever
\* other commands do, the file at fl_out is complete, unless a command with
\* --no_tmp_fl wrote to it.
NeverPartial == out # NoFile /\ fl[out].dirty # {} => fl[out].direct

\* A reader of fl_out, this or another command, never sees the contents
\* change under its hands, unless a command with --no_tmp_fl makes the step:
\* the temporary file "allows the output-file to be the same as the
\* input-file without any danger of overlap".
ReadersSafe ==
  [][out # NoFile /\ fl'[out] # fl[out]
       => \E p \in Prc : ~WRT_TMP_FL[p] /\ pc'[p] # pc[p]]_vars

Parts == IF out = NoFile THEN {} ELSE fl[out].parts

\* Steps that take results from the output file only because the user agreed,
\* and that report success only when the results are there.
LosesAsAgreed ==
  Parts \ Parts' # {}
    => \E p \in Prc : pc'[p] # pc[p] /\ (FORCE_OVERWRITE[p] \/ usr_rpl[p] = "o")
PublishesBeforeOk ==
  \A p \in Prc : pc[p] \in Running /\ pc'[p] = "ok" /\ usr_rpl'[p] # "e" => cmd[p] \in Parts'

-----------------------------------------------------------------------------
(* Why they hold: the inductive invariant of FlOutProofs.                  *)

Unborn == {"vet", "stat_out", "ask", "copy", "create", "create_new"}

\* File numbers are those of commands started; no file has two names; a
\* command that has not made its file yet finds its number unused.
NameInv ==
  /\ out <= cmd_nbr
  /\ \A p \in Prc : cmd[p] <= cmd_nbr /\ tmp[p] <= cmd_nbr /\ hnd[p] <= cmd_nbr
  /\ \A p \in Prc : pc[p] \in Running => cmd[p] # 0
  /\ \A p, q \in Prc : p # q /\ cmd[p] = cmd[q] => cmd[p] = 0
  /\ \A p, q \in Prc : p # q /\ tmp[p] = tmp[q] => tmp[p] = NoFile
  /\ \A p \in Prc : tmp[p] # NoFile => tmp[p] # out
  /\ \A p \in Prc : pc[p] \in Unborn =>
       cmd[p] # out /\ \A q \in Prc : tmp[q] # cmd[p] /\ hnd[q] # cmd[p]

\* Complete, or written to by a command with --no_tmp_fl.
Sound(i) == fl[i].dirty # {} => fl[i].direct

\* The temporary file is written to by its own process only, and is closed
\* when it is moved.
TmpInv(p) ==
  /\ WRT_TMP_FL[p] /\ pc[p] \in Unborn \ {"vet"} => tmp[p] = NoFile
  /\ pc[p] \in {"ask", "copy"} => out # NoFile
  /\ pc[p] = "mv" => WRT_TMP_FL[p] /\ tmp[p] # NoFile /\ Sound(tmp[p])
  /\ WRT_TMP_FL[p] /\ pc[p] = "open" /\ tmp[p] # NoFile => Sound(tmp[p])
  /\ WRT_TMP_FL[p] /\ hnd[p] # NoFile =>
       hnd[p] = tmp[p] /\ (fl[tmp[p]].dirty \subseteq {cmd[p]} \/ fl[tmp[p]].direct)
  /\ ~WRT_TMP_FL[p] /\ hnd[p] # NoFile => fl[hnd[p]].direct

ContentInv == \A p \in Prc : TmpInv(p)

FlInv == NameInv /\ ContentInv /\ NeverPartial
=============================================================================
