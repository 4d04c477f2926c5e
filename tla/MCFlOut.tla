------------------------------ MODULE MCFlOut ------------------------------
(***************************************************************************)
(* Small instances of FlOut.  In some behaviours commands overlap and the  *)
(* system fails; in the others, which are longer, there is one command at  *)
(* a time, and neither the copy nor the move it makes goes wrong unseen.   *)
(***************************************************************************)
EXTENDS FlOut, TLC

CONSTANT MaxOverlap  \* bound: commands started when they may overlap

VARIABLE alone  \* this is a behaviour of the second kind

Symmetry == Permutations(Prc)

OneCommand == \A p, q \in Prc : pc[p] \in Running /\ pc[q] \in Running => p = q

\* Copies are whole, and moves reported as done are done.
SystemWorks ==
  \A p \in Prc :
    /\ WRT_TMP_FL[p] /\ pc[p] = "copy" /\ pc'[p] = "open" =>
         tmp'[p] = cmd[p] /\ fl'[cmd[p]].parts = Parts
    /\ pc[p] = "mv" /\ pc'[p] = "ok" => tmp'[p] = NoFile

MCInit == Init /\ alone \in BOOLEAN
MCNext ==
  /\ Next /\ UNCHANGED alone
  /\ IF alone THEN OneCommand' /\ SystemWorks ELSE cmd_nbr' <= MaxOverlap
MCSpec == MCInit /\ [][MCNext]_<<vars, alone>>

\* Results are lost from the output file only by a command whose user agreed
\* to overwrite it, with -O or in reply to the question, as long as commands
\* do not overlap and the system works: whatever stops commands, at whatever
\* step (nco_fl_out_open() to nco_fl_out_cls()).
KeepsData == [][alone => LosesAsAgreed]_<<vars, alone>>

\* Then also a command that ends with success, and not at the user's wish,
\* has put its results into the output file.
SuccessPublishes == [][alone => PublishesBeforeOk]_<<vars, alone>>

\* The same of all behaviours.  Neither holds (section 5 of the README).
AlwaysKeepsData == [][LosesAsAgreed]_vars
AlwaysPublishes == [][PublishesBeforeOk]_vars

-----------------------------------------------------------------------------
(* Why they hold: the inductive invariant of FlOutProofs.                  *)

Agreed(p) == FORCE_OVERWRITE[p] \/ usr_rpl[p] = "o"

\* What a command that runs alone may count on: it makes a file anew only if
\* the user agreed or there is none; until the move, the temporary file holds
\* what the output file does, and, once written, the results.
Alone(p) ==
  /\ pc[p] = "create" => Agreed(p)
  /\ pc[p] = "create_new" => out = NoFile
  /\ pc[p] \in {"open", "write", "close", "mv"} /\ WRT_TMP_FL[p] =>
       tmp[p] # NoFile /\ (Agreed(p) \/ Parts \subseteq fl[tmp[p]].parts)
  /\ pc[p] \in {"write", "close"} /\ ~WRT_TMP_FL[p] => hnd[p] = out
  /\ pc[p] \in {"close", "mv"} =>
       FlOutTmp(p) # NoFile /\ cmd[p] \in fl[FlOutTmp(p)].parts
AloneInv == alone => OneCommand /\ \A p \in Prc : pc[p] \in Running => Alone(p)
=============================================================================
