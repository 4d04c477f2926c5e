----------------------------- MODULE ClimoBatch -----------------------------
(***************************************************************************)
(* The batch scripts src/data/ncclimo and src/data/ncremap: the order in   *)
(* which they start NCO commands, in the background or one after another,  *)
(* in batches of job_nbr, and wait for them, and what the commands read    *)
(* and write.                                                              *)
(*                                                                         *)
(* Both scripts run under "set -o errexit": a command that fails, and a    *)
(* wait for one that has failed, ends the script at that line.  The tests  *)
(* of "$?" below each wait, and the loops that kill the other jobs there,  *)
(* are never reached.  Ending the script ends no job.  Where the script is  *)
(* itself in error it ends too: "fail" stands for such a line.              *)
(*                                                                         *)
(* A file is <<kind, segment or time step, index>>, its content the set of *)
(* <<what, index>> that went into it.  NCO commands write a temporary file *)
(* and move it to its name: an output appears whole.                       *)
(***************************************************************************)
EXTENDS Naturals, SequencesExt, FiniteSets

CONSTANTS
  Cases,     \* invocations, with the fields the mode needs of
             \*   md      "tms" (splitter), "dly", "mth", "hfc", "ann", "remap"
             \*   par     background jobs (par_opt is " &")
             \*   job_nbr --job_nbr
             \*   n       variables, days, months or files
             \*   old     files of an earlier invocation have the output names
             \*   rgr     "none", "map", or "both": map and --vrt_out
             \*   sgm     segments of the splitter; rgn: --rgn_stt; hrz: its
             \*           horizontal variables; mv: --no_native_tms
             \*   csn     first month of each season; ssn: months in each
             \*   xtn     extended climatology
             \*   fl_nbr, tpd   input files, time steps per day ("hfc")
             \*   left    earlier years left a file of a time step ("hfc")
             \*   stg     sequence of preparing stages; ppp: post-processing
  FaultMax   \* commands that fail for a reason of their own

VARIABLES
  cs,      \* the invocation
  pc,      \* line of the script
  jobs,    \* the jobs started: what is left to do, what was read, state
  fl,      \* the files
  faults,  \* commands that failed for a reason of their own
  status   \* "run", or how the script ended: "success", "failure"

vars == <<cs, pc, jobs, fl, faults, status>>

-----------------------------------------------------------------------------
(* Commands: sequences of operations on files.                             *)

Open(rd, own) == [op |-> "open", fls |-> rd, own |-> own, glob |-> FALSE]
Glob(rd, own) == [op |-> "open", fls |-> rd, own |-> own, glob |-> TRUE]
Put(f) == [op |-> "put", fls |-> {f}]
Rm(fls) == [op |-> "rm", fls |-> fls]

Cmd(rd, own, f) == <<Open(rd, own), Put(f)>>
Job(a, i, cmd) == [job |-> <<a, i>>, cmd |-> cmd]

\* ncremap on one file, as ncclimo calls it: with a map and a vertical grid
\* it interpolates into a file of drc_tmp first, whose name has only the
\* position of the input, 0.
VrtTmp == <<"out_vrt", 0, 0>>
NcRemap(c, in, out) ==
  IF c.rgr = "both"
  THEN Cmd({in}, {<<"vrt", 0>>}, VrtTmp) \o Cmd({VrtTmp}, {<<"rgr", 0>>}, out) \o <<Rm({VrtTmp})>>
  ELSE Cmd({in}, {<<"rgr", 0>>}, out)

-----------------------------------------------------------------------------
(* Scripts: sequences of instructions.                                     *)

Start(jbs) == [k \in DOMAIN jbs |-> [op |-> "start", job |-> jbs[k].job, cmd |-> jbs[k].cmd]]
Wait(jbs) == [k \in DOMAIN jbs |-> [op |-> "wait", job |-> jbs[k].job]]
WaitAll == <<[op |-> "waitall"]>>
FailHere == <<[op |-> "fail"]>>

\* In the foreground a command is started and waited for.
Run(jbs) == FlattenSeq([k \in DOMAIN jbs |-> Start(<<jbs[k]>>) \o Wait(<<jbs[k]>>)])

\* With par_opt a loop starts the commands, and a later one waits for them.
Launch(c, jbs) == IF c.par THEN Start(jbs) ELSE Run(jbs)
Await(c, jbs) == IF c.par THEN Wait(jbs) ELSE <<>>
Dispatch(c, jbs) == Launch(c, jbs) \o Await(c, jbs)

\* n tasks in batches of job_nbr.
BchNbr(n, job_nbr) == (n \div job_nbr) + (IF n \div job_nbr = 0 \/ n % job_nbr # 0 THEN 1 ELSE 0)
Batch(n, job_nbr, b) ==
  LET srt == b * job_nbr
      end == IF b = BchNbr(n, job_nbr) - 1 /\ n % job_nbr # 0 THEN n - 1 ELSE srt + job_nbr - 1
  IN  [k \in 1..(end - srt + 1) |-> srt + k - 1]
Batches(n, job_nbr, Body(_)) ==
  FlattenSeq([b \in 1..BchNbr(n, job_nbr) |-> Body(Batch(n, job_nbr, b - 1))])
Each(is, J(_)) == [k \in DOMAIN is |-> J(is[k])]
To(n) == [k \in 1..n |-> k - 1]

\* The splitter: per segment, batches of subsetting and of statistics, then
\* batches of regridding.  Statistics are computed in place, for the
\* variables ncks --is_hrz says are horizontal.
Split(c) ==
  LET Out(s, v) == <<"out", s, v>>
      Rgr(s, v) == <<"rgr", s, v>>
      Sbs(s, v) == Job("sbs", v, Cmd({}, {<<"dat", v>>}, Out(s, v)))
      Hrz(s, v) == Job("hrz", v, <<Open({Out(s, v)}, {})>>)
      Stt(s, v) == Job("avg", v, Cmd({Out(s, v)}, {<<"stt", 0>>}, Out(s, v)))
      Stts(s, is) == FlattenSeq(Each(is, LAMBDA v :
                       Run(<<Hrz(s, v)>>) \o (IF v \in c.hrz THEN Launch(c, <<Stt(s, v)>>) ELSE <<>>)))
                     \o Await(c, Each(SelectSeq(is, LAMBDA v : v \in c.hrz), LAMBDA v : Stt(s, v)))
      Reg(s, v) == Job("rgr", v, NcRemap(c, Out(s, v), Rgr(s, v)))
      Mov(s, v) == Job("mv", v, Cmd({Rgr(s, v)}, {}, Out(s, v)) \o <<Rm({Rgr(s, v)})>>)
      Segment(s) ==
        Batches(c.n, c.job_nbr, LAMBDA is :
          Dispatch(c, Each(is, LAMBDA v : Sbs(s, v))) \o (IF c.rgn THEN Stts(s, is) ELSE <<>>))
        \o (IF c.rgr = "none" THEN <<>>
            ELSE Batches(c.n, c.job_nbr, LAMBDA is : Dispatch(c, Each(is, LAMBDA v : Reg(s, v))))
                 \o (IF c.mv THEN Run(Each(To(c.n), LAMBDA v : Mov(s, v))) ELSE <<>>))
  IN  FlattenSeq([s \in 1..c.sgm |-> Segment(s)])

\* Daily climatologies.
Daily(c) ==
  LET Clm(d) == Job("clm", d, Cmd({}, {<<"dat", d>>}, <<"out", 0, d>>))
      Rgr(d) == Job("rgr", d, Cmd({<<"out", 0, d>>}, {<<"rgr", 0>>}, <<"rgr", 0, d>>))
  IN  Batches(c.n, c.job_nbr, LAMBDA is : Dispatch(c, Each(is, Clm)))
      \o (IF c.rgr = "none" THEN <<>>
          ELSE Batches(c.n, c.job_nbr, LAMBDA is : Dispatch(c, Each(is, Rgr))))

\* Annual climatology.  The command has par_opt in it: its status is 0, and
\* so is that of a wait for all jobs.
Annual(c) ==
  LET Clm == Job("clm", 1, Cmd({}, {<<"dat", 1>>}, <<"out", 0, 1>>))
      Rgr == Job("rgr", 1, Cmd({<<"out", 0, 1>>}, {<<"rgr", 0>>}, <<"rgr", 0, 1>>))
  IN  Launch(c, <<Clm>>) \o WaitAll
      \o (IF c.rgr = "none" THEN <<>> ELSE Launch(c, <<Rgr>>) \o WaitAll)

\* High-frequency climatologies: each month is culled from the input, with
\* several input files its time steps are averaged one by one, and the month
\* is put together from what has the name of a time step of that month.
MthFl(m) == <<"mth", 0, m>>
TpdFl(t, m) == <<"tpd", t, m>>
LeftFl(c, m) == TpdFl(c.tpd, m)
TpdFls(c, m) == {TpdFl(t, m) : t \in 0..c.tpd}
CullMonths(c) ==
  LET Cll(m) == Job("cll", m, Cmd({}, {<<"dat", m>>}, MthFl(m)))
      Tpd(t, m) == Job("tpd", m, Cmd({MthFl(m)}, {<<"tpd", t>>}, TpdFl(t, m)))
      Mths(b) == Batch(c.n, c.job_nbr, b - 1)
      Loop(J(_)) == FlattenSeq([b \in 1..(c.n \div c.job_nbr) |->
                                 Dispatch(c, Each([k \in DOMAIN Mths(b) |-> Mths(b)[k] + 1], J))])
  IN  Loop(Cll)
      \o (IF c.fl_nbr = 1 THEN <<>>
          ELSE FlattenSeq([t \in 1..c.tpd |-> Loop(LAMBDA m : Tpd(t - 1, m))])
               \o Run(<<Job("rm", 0, <<Rm({MthFl(m) : m \in 1..c.n})>>)>>))

\* Monthly climatologies.  Months are 1..n, seasons n+1.., the year is last.
Ssns(c) == Len(c.csn)
SsnMths(c, s) == {((c.csn[s] + k - 1) % c.n) + 1 : k \in 0..(c.ssn - 1)}
ClmFl(i) == <<"out", 0, i>>
RgrFl(i) == <<"rgr", 0, i>>
XtnFl(i) == <<"xtn", 0, i>>
ClmNbr(c) == c.n + Ssns(c) + 1

MonthInput(c, m) ==
  IF c.md = "mth" THEN Open({}, {<<"dat", m>>})
  ELSE IF c.fl_nbr = 1 THEN Open({MthFl(m)}, {}) ELSE Glob(TpdFls(c, m), {})

Extend(c) ==
  LET is == [k \in 1..ClmNbr(c) |-> k]
      Xtn(i) == Job("xtn", i, Cmd({ClmFl(i)}, {<<"prv", i>>}, XtnFl(i)))
      RgrXtn(i) == Job("rgr_xtn", i, Cmd({RgrFl(i)}, {<<"prv", i>>}, <<"rgr_xtn", 0, i>>))
  IN  Dispatch(c, Each(is, Xtn)) \o WaitAll
      \o (IF c.rgr = "none" THEN <<>> ELSE Dispatch(c, Each(is, RgrXtn)) \o WaitAll)

Monthly(c) ==
  LET Clm(m) == Job("clm", m, <<MonthInput(c, m), Put(ClmFl(m))>>)
      Ssn(i) == Job("clm", i, Cmd({ClmFl(m) : m \in SsnMths(c, i - c.n)}, {<<"csn", i>>}, ClmFl(i)))
      Ann == Job("clm", ClmNbr(c), Cmd({ClmFl(c.n + s) : s \in 1..Ssns(c)}, {<<"ann", 0>>}, ClmFl(ClmNbr(c))))
      Rgr(i) == Job("rgr", i, NcRemap(c, ClmFl(i), RgrFl(i)))
      RgrOf(is) == IF c.rgr = "none" THEN <<>> ELSE Each(is, Rgr)
      Mths == [k \in 1..c.n |-> k]
      SsnIdx == [k \in 1..Ssns(c) |-> c.n + k]
      From(is, i) == [k \in DOMAIN is |-> is[k] + i]
  IN  (IF c.md = "hfc" THEN CullMonths(c) ELSE <<>>)
      \o Batches(c.n, c.job_nbr, LAMBDA is : Dispatch(c, Each(From(is, 1), Clm)))
      \o (IF c.md = "hfc"
          THEN Run(<<Job("rm", 1, <<Rm({MthFl(m) : m \in 1..c.n}
                                       \union UNION {TpdFls(c, m) : m \in 1..c.n})>>)>>)
          ELSE <<>>)
      \o Launch(c, RgrOf(Mths))
      \o Batches(Ssns(c), c.job_nbr, LAMBDA is : Dispatch(c, Each(From(is, c.n + 1), Ssn)))
      \o Await(c, RgrOf(Mths))
      \o Launch(c, RgrOf(SsnIdx))
      \o Launch(c, <<Ann>>)
      \o Await(c, RgrOf(SsnIdx))
      \o Await(c, <<Ann>>)
      \o Run(RgrOf(<<ClmNbr(c)>>))
      \o (IF c.xtn THEN Extend(c) ELSE <<>>)

\* ncremap on n files: the preparing stages, each into a file named for the
\* position of the input, the interpolations, and post-processing in place.
\* "rnm" (regional input) renames, then appends the coordinates.  "dpt" (--dpt,
\* --dpt_fl) comes first: for its first file the script has built the command
\* when line 3527, an assignment to ${fl_in[...]}, is run as a command, which is
\* not found.
TmpFl(g, i) == <<g, 0, i>>
NcwaFl == <<"ncwa", 0, 0>>
Remap(c) ==
  LET Raw(i) == <<"in", 0, i>>
      Prepared(i) == IF c.stg = <<>> THEN Raw(i) ELSE TmpFl(Last(c.stg), i)
      Stage(is, g) ==
        LET Prv(i) == IF g = 1 THEN Raw(i) ELSE TmpFl(c.stg[g - 1], i)
            Prp(i) == Job(c.stg[g], i, Cmd({Prv(i)}, {<<c.stg[g], 0>>}, TmpFl(c.stg[g], i)))
            Apn(i) == Job("apn", i, Cmd({TmpFl("rnm", i)}, {<<"apn", 0>>}, TmpFl("rnm", i)))
        IN  IF c.stg[g] = "dpt" THEN FailHere
            ELSE Dispatch(c, Each(is, Prp))
                 \o (IF c.stg[g] = "rnm" THEN Dispatch(c, Each(is, Apn)) ELSE <<>>)
      Vrt(i) == Job("rgr", i, Cmd({Prepared(i)}, {<<"vrt", 0>>}, TmpFl("out_vrt", i)))
      Hrz(i) == Job("rgr", i, Cmd({IF c.rgr = "both" THEN TmpFl("out_vrt", i) ELSE Prepared(i)},
                                  {<<"rgr", 0>>}, RgrFl(i)))
      Tmps(i) == {TmpFl(c.stg[g], i) : g \in DOMAIN c.stg} \union {TmpFl("out_vrt", i)}
      Clean(i) == Job("rm", i, <<Rm(Tmps(i))>>)
      Ppp(i) == IF c.ppp = "area"
                THEN Job("ppp", i, Cmd({RgrFl(i)}, {<<"ppp", 0>>}, RgrFl(i)))
                ELSE Job("ppp", i, Cmd({RgrFl(i)}, {}, NcwaFl) \o <<Rm({RgrFl(i)})>>
                                   \o Cmd({NcwaFl}, {<<"ppp", 0>>}, RgrFl(i)))
  IN  Batches(c.n, c.job_nbr, LAMBDA is :
        FlattenSeq([g \in DOMAIN c.stg |-> Stage(is, g)])
        \o (IF c.rgr = "both" THEN Dispatch(c, Each(is, Vrt)) ELSE <<>>)
        \o Dispatch(c, Each(is, Hrz))
        \o Run(Each(is, Clean))
        \o (IF c.ppp = "none" THEN <<>> ELSE Dispatch(c, Each(is, Ppp))))

\* Monthly climatologies need a job_nbr that divides the months.
Permissible(c) == c.md \in {"mth", "hfc"} => c.n % c.job_nbr = 0

Script(c) ==
  CASE c.md = "tms" -> Split(c)
    [] c.md = "dly" -> Daily(c)
    [] c.md = "ann" -> Annual(c)
    [] c.md = "remap" -> Remap(c)
    [] c.md \in {"mth", "hfc"} -> IF Permissible(c) THEN Monthly(c) ELSE FailHere

\* Constant: the scripts of all invocations.
Scripts == [c \in Cases |-> Script(c)]

-----------------------------------------------------------------------------
(* What is in the files in the end.                                        *)

Products(c) ==
  LET Native == {ClmFl(i) : i \in 1..ClmNbr(c)}
      Regridded == IF c.rgr = "none" THEN {} ELSE {RgrFl(i) : i \in 1..ClmNbr(c)}
  IN  CASE c.md = "tms" -> {<<"out", s, v>> : s \in 1..c.sgm, v \in 0..(c.n - 1)}
                           \union (IF c.rgr = "none" \/ c.mv THEN {}
                                   ELSE {<<"rgr", s, v>> : s \in 1..c.sgm, v \in 0..(c.n - 1)})
        [] c.md = "dly" -> {ClmFl(d) : d \in 0..(c.n - 1)}
                           \union (IF c.rgr = "none" THEN {} ELSE {RgrFl(d) : d \in 0..(c.n - 1)})
        [] c.md = "ann" -> {ClmFl(1)} \union (IF c.rgr = "none" THEN {} ELSE {RgrFl(1)})
        [] c.md = "remap" -> {RgrFl(i) : i \in 0..(c.n - 1)}
        [] c.md \in {"mth", "hfc"} ->
             IF ~Permissible(c) THEN {}
             ELSE Native \union Regridded
                  \union (IF c.xtn THEN {XtnFl(i) : i \in 1..ClmNbr(c)} ELSE {})
                  \union (IF c.xtn /\ c.rgr # "none" THEN {<<"rgr_xtn", 0, i>> : i \in 1..ClmNbr(c)} ELSE {})

Vertical(c) == IF c.rgr = "both" THEN {<<"vrt", 0>>} ELSE {}

\* Content of climatology i: of a month, a season or the year.
Months(c, m) == {<<"dat", m>>} \union
  (IF c.md = "hfc" /\ c.fl_nbr > 1 THEN {<<"tpd", t>> : t \in 0..(c.tpd - 1)} ELSE {})
SsnContent(c, s) == {<<"csn", c.n + s>>} \union UNION {Months(c, m) : m \in SsnMths(c, s)}
ClmContent(c, i) ==
  IF i <= c.n THEN Months(c, i)
  ELSE IF i < ClmNbr(c) THEN SsnContent(c, i - c.n)
  ELSE {<<"ann", 0>>} \union UNION {SsnContent(c, s) : s \in 1..Ssns(c)}

Content(c, f) ==
  LET i == f[3]
      Own == CASE c.md = "tms" -> {<<"dat", i>>} \union (IF c.rgn /\ i \in c.hrz THEN {<<"stt", 0>>} ELSE {})
               [] c.md \in {"dly", "ann"} -> {<<"dat", i>>}
               [] c.md = "remap" -> {<<"dat", i>>} \union {<<c.stg[g], 0>> : g \in DOMAIN c.stg}
                                    \union {<<"apn", 0>> : g \in {h \in DOMAIN c.stg : c.stg[h] = "rnm"}}
                                    \union (IF c.ppp = "none" THEN {} ELSE {<<"ppp", 0>>})
               [] c.md \in {"mth", "hfc"} -> ClmContent(c, i)
      Mapped == {<<"rgr", 0>>} \union (IF c.md \in {"dly", "ann"} THEN {} ELSE Vertical(c))
  IN  Own \union (IF f[1] \in {"rgr", "rgr_xtn"} \/ (c.md = "tms" /\ c.mv) THEN Mapped ELSE {})
          \union (IF f[1] \in {"xtn", "rgr_xtn"} THEN {<<"prv", i>>} ELSE {})

-----------------------------------------------------------------------------
(* The script and its jobs.                                                *)

InputFls(c) == IF c.md = "remap" THEN {<<"in", 0, i>> : i \in 0..(c.n - 1)} ELSE {}
OldFls(c) == IF c.old THEN Products(c) ELSE {}
LeftFls(c) == IF c.md = "hfc" /\ c.left THEN {LeftFl(c, 1)} ELSE {}

FirstFls(c) ==
  [f \in InputFls(c) \union OldFls(c) \union LeftFls(c) |->
     IF f \in InputFls(c) THEN {<<"dat", f[3]>>} ELSE {<<"old", 0>>}]

Init ==
  /\ cs \in Cases
  /\ pc = 1 /\ jobs = <<>> /\ faults = 0 /\ status = "run"
  /\ fl = FirstFls(cs)

Job0(cmd) == [cmd |-> cmd, val |-> {}, end |-> "run"]
Running == {j \in DOMAIN jobs : jobs[j].end = "run"}
Failed == {j \in DOMAIN jobs : jobs[j].end = "fail"}

Ready(op) == status = "run" /\ pc <= Len(Scripts[cs]) /\ Scripts[cs][pc].op = op
Instr == Scripts[cs][pc]

StartJob ==
  /\ Ready("start")
  /\ jobs' = [j \in DOMAIN jobs \union {Instr.job} |->
                IF j = Instr.job THEN Job0(Instr.cmd) ELSE jobs[j]]
  /\ pc' = pc + 1
  /\ UNCHANGED <<cs, fl, faults, status>>

\* wait ${pid}, and errexit.  (WaitBlind: without errexit or a test.)
WaitBlind ==
  /\ Ready("wait") /\ Instr.job \notin Running
  /\ pc' = pc + 1
  /\ UNCHANGED <<cs, jobs, fl, faults, status>>
WaitJob ==
  /\ Ready("wait") /\ Instr.job \notin Running
  /\ IF Instr.job \in Failed THEN status' = "failure" /\ pc' = pc
     ELSE status' = status /\ pc' = pc + 1
  /\ UNCHANGED <<cs, jobs, fl, faults>>

WaitJobs ==
  /\ Ready("waitall") /\ Running = {}
  /\ pc' = pc + 1
  /\ UNCHANGED <<cs, jobs, fl, faults, status>>

ExitFailure ==
  /\ Ready("fail")
  /\ status' = "failure"
  /\ UNCHANGED <<cs, pc, jobs, fl, faults>>

EndScript ==
  /\ status = "run" /\ pc > Len(Scripts[cs])
  /\ status' = "success"
  /\ UNCHANGED <<cs, pc, jobs, fl, faults>>

-----------------------------------------------------------------------------
(* One operation of a job.                                                 *)

Op(j) == Head(jobs[j].cmd)
Missing(j) == Op(j).op = "open" /\ ~Op(j).glob /\ ~(Op(j).fls \subseteq DOMAIN fl)

Done(j, val) ==
  jobs' = [jobs EXCEPT ![j] = [cmd |-> Tail(jobs[j].cmd), val |-> val,
                               end |-> IF Len(jobs[j].cmd) = 1 THEN "ok" ELSE "run"]]

OpenFls(j) ==
  /\ j \in Running /\ Op(j).op = "open" /\ ~Missing(j)
  /\ Done(j, Op(j).own \union UNION {fl[f] : f \in Op(j).fls \intersect DOMAIN fl})
  /\ UNCHANGED <<cs, pc, fl, faults, status>>

PutFl(j) ==
  /\ j \in Running /\ Op(j).op = "put"
  /\ fl' = [f \in DOMAIN fl \union Op(j).fls |-> IF f \in Op(j).fls THEN jobs[j].val ELSE fl[f]]
  /\ Done(j, {})
  /\ UNCHANGED <<cs, pc, faults, status>>

RmFls(j) ==
  /\ j \in Running /\ Op(j).op = "rm"
  /\ fl' = [f \in DOMAIN fl \ Op(j).fls |-> fl[f]]
  /\ Done(j, {})
  /\ UNCHANGED <<cs, pc, faults, status>>

\* An input is missing, or anything else goes wrong; rm -f does not fail.
Fail(j) ==
  /\ j \in Running /\ Op(j).op # "rm"
  /\ Missing(j) \/ faults < FaultMax
  /\ faults' = IF Missing(j) THEN faults ELSE faults + 1
  /\ jobs' = [jobs EXCEPT ![j] = [cmd |-> <<>>, val |-> {}, end |-> "fail"]]
  /\ UNCHANGED <<cs, pc, fl, status>>

ScriptStep == StartJob \/ WaitJob \/ WaitJobs \/ ExitFailure \/ EndScript
JobStep(j) == OpenFls(j) \/ PutFl(j) \/ RmFls(j) \/ Fail(j)

Next == ScriptStep \/ \E j \in DOMAIN jobs : JobStep(j)

Spec == Init /\ [][Next]_vars

\* The shell and the commands get on with their work.
FairSpec == Spec /\ WF_vars(ScriptStep) /\ WF_vars(\E j \in DOMAIN jobs : JobStep(j))

-----------------------------------------------------------------------------
(* What it is for.                                                         *)

\* When a script reports success, every file it was asked for is there, and
\* holds what its own inputs hold: no job read a file before its writer had
\* finished, none used the intermediate file of another job, and no failure
\* went unnoticed.
OutputsRight ==
  status = "success" => \A f \in Products(cs) : f \in DOMAIN fl /\ fl[f] = Content(cs, f)

\* Nothing of an earlier invocation, whose files have the same names, gets
\* into a new file, whichever jobs fail: no command reads an output of this
\* invocation unless the job that makes it has succeeded.
NothingStale == \A f \in DOMAIN fl : <<"old", 0>> \in fl[f] => fl[f] = {<<"old", 0>>}

\* The script ends, successfully if and only if it could run and no job that
\* it has started failed.
ReportsOutcome ==
  <>(\/ status = "success" /\ Failed = {} /\ Running = {}
     \/ status = "failure" /\ (Failed # {} \/ ~Permissible(cs)))

\* The manual has --dpt and --dpt_fl add a depth coordinate: a script fails only
\* for a job that has failed or for a job_nbr it does not permit.
FailsForCause == status = "failure" => Failed # {} \/ ~Permissible(cs)

\* The comments at ncclimo:3560, 3624, 3692, 3937 (exiting parent here creates
\* orphans, kill live children then exit): when the script has failed, none
\* of its jobs is left.
NoOrphans == status = "failure" => Running = {}
-----------------------------------------------------------------------------
(* Why nothing stale gets in: the order of the starts and waits of a       *)
(* script.                                                                 *)

IsSequence(s) == s \in Seq({s[k] : k \in DOMAIN s})

Starts(c) == {k \in DOMAIN Scripts[c] : Scripts[c][k].op = "start"}
JobOf(c, k) == Scripts[c][k].job
CmdOf(c, k) == Scripts[c][k].cmd

\* The script waits, before instruction l, for the job it has started at k.
AwaitedBy(c, k, l) ==
  \E w \in DOMAIN Scripts[c] :
    k < w /\ w < l /\ Scripts[c][w].op = "wait" /\ JobOf(c, w) = JobOf(c, k)

\* A command writes f before operation i; a job that has been waited for
\* before instruction l has written it.
PutBefore(cmd, i, f) == \E h \in DOMAIN cmd : h < i /\ cmd[h].op = "put" /\ f \in cmd[h].fls
Secured(c, f, l) ==
  \E k \in Starts(c) : AwaitedBy(c, k, l) /\ PutBefore(CmdOf(c, k), Len(CmdOf(c, k)) + 1, f)

\* Files of an earlier invocation.
Inherited(c) == (OldFls(c) \union LeftFls(c)) \ InputFls(c)

\* A job is not started again before the script has waited for it, and no
\* command reads a file that may be of an earlier invocation unless it has
\* written it itself or the script has waited for a job that writes it.
InOrder(c) ==
  /\ IsSequence(Scripts[c])
  /\ \A k \in Starts(c) :
       /\ IsSequence(CmdOf(c, k)) /\ CmdOf(c, k) # <<>>
       /\ \A h \in Starts(c) : h < k /\ JobOf(c, h) = JobOf(c, k) => AwaitedBy(c, h, k)
       /\ \A i \in DOMAIN CmdOf(c, k) : CmdOf(c, k)[i].op = "open" =>
            /\ <<"old", 0>> \notin CmdOf(c, k)[i].own
            /\ \A f \in CmdOf(c, k)[i].fls \intersect Inherited(c) :
                 Secured(c, f, k) \/ PutBefore(CmdOf(c, k), i, f)

Ordered == \A c \in Cases : InOrder(c)

\* The script waits for each job it starts.
AwaitsAll(c) == \A k \in Starts(c) : AwaitedBy(c, k, Len(Scripts[c]) + 1)

Clean(f) == <<"old", 0>> \notin fl[f]

\* The instruction at k has started the latest job of its name.
Latest(k) ==
  /\ k \in Starts(cs) /\ k < pc
  /\ \A h \in Starts(cs) : k < h /\ h < pc => JobOf(cs, h) # JobOf(cs, k)

\* A job that has not failed has done the first n operations of its command.
Progress(j, cmd) ==
  \E n \in 0..Len(cmd) :
    /\ jobs[j].cmd = [i \in 1..(Len(cmd) - n) |-> cmd[n + i]]
    /\ jobs[j].end = "run" => n < Len(cmd)
    /\ jobs[j].end = "ok" => n = Len(cmd)
    /\ \A f \in DOMAIN fl : PutBefore(cmd, n + 1, f) => Clean(f)

\* The latest job of each name is known and gets on with its command; a job
\* that has been waited for has succeeded.
JobsInv ==
  /\ \A j \in DOMAIN jobs : \E k \in Starts(cs) : Latest(k) /\ JobOf(cs, k) = j
  /\ \A k \in Starts(cs) : Latest(k) =>
       LET j == JobOf(cs, k) IN
       /\ j \in DOMAIN jobs
       /\ <<"old", 0>> \notin jobs[j].val
       /\ jobs[j].end \in {"run", "ok", "fail"}
       /\ jobs[j].end # "fail" => Progress(j, CmdOf(cs, k))
       /\ AwaitedBy(cs, k, pc) => jobs[j].end = "ok"

\* What has been written by a job that was waited for is new for good.
BatchInv ==
  /\ cs \in Cases /\ pc \in 1..(Len(Scripts[cs]) + 1)
  /\ status \in {"run", "success", "failure"}
  /\ status = "success" => pc > Len(Scripts[cs])
  /\ JobsInv
  /\ \A f \in DOMAIN fl : Secured(cs, f, pc) => Clean(f)
  /\ \A f \in DOMAIN fl : <<"old", 0>> \in fl[f] => fl[f] = {<<"old", 0>>} /\ f \in Inherited(cs)

\* When the script reports success, all its jobs have succeeded.
SuccessIsEveryJobs == status = "success" => \A j \in DOMAIN jobs : jobs[j].end = "ok"

-----------------------------------------------------------------------------
(* Why the outputs are right: no two commands race for a file, so that     *)
(* every command reads what it would read if the script did one operation  *)
(* after another.                                                          *)

\* Operations <<instruction, place in its command>>.
Operations(c) == UNION {{k} \X DOMAIN CmdOf(c, k) : k \in Starts(c)}
OpOf(c, a) == CmdOf(c, a[1])[a[2]]
Writes(c, f) == {a \in Operations(c) : OpOf(c, a).op \in {"put", "rm"} /\ f \in OpOf(c, a).fls}

\* The script and the commands put a before b.
Before(c, a, b) == IF a[1] = b[1] THEN a[2] < b[2] ELSE AwaitedBy(c, a[1], b[1])
Earlier(c, b) == {a \in Operations(c) : Before(c, a, b)}

RaceFree(c) ==
  \A a, b \in Operations(c) :
    a # b /\ OpOf(c, a).op # "open" /\ OpOf(c, a).fls \intersect OpOf(c, b).fls # {} =>
      Before(c, a, b) \/ Before(c, b, a)

\* A file after the operations S, as the set of its content, empty if there is
\* no file; plan has what each operation writes.
LastOf(c, S) == CHOOSE a \in S : \A b \in S : b = a \/ Before(c, b, a)
Seen(c, plan, f, S) ==
  LET wrt == Writes(c, f) \intersect S
  IN  IF wrt = {} THEN {FirstFls(c)[g] : g \in {f} \intersect DOMAIN FirstFls(c)}
      ELSE plan[LastOf(c, wrt)]

\* plan is what the operations write, each from what those before it have
\* written, and in the end the products hold what they should.
Follows(c, plan) ==
  \A k \in Starts(c) : \A i \in DOMAIN CmdOf(c, k) :
    LET o == CmdOf(c, k)[i]
        p == CmdOf(c, k)[i - 1]
    IN  /\ o.op \in {"open", "put", "rm"}
        /\ o.op = "rm" => plan[<<k, i>>] = {}
        /\ o.op = "put" =>
             /\ i > 1 /\ p.op = "open"
             /\ plan[<<k, i>>] =
                  {p.own \union UNION UNION {Seen(c, plan, f, Earlier(c, <<k, i - 1>>)) : f \in p.fls}}
RightPlan(c, plan) ==
  /\ Follows(c, plan)
  /\ \A f \in Products(c) : Seen(c, plan, f, Operations(c)) = {Content(c, f)}

\* What the theorem about OutputsRight asks of the scripts.
Serializable(plan) ==
  \A c \in Cases : InOrder(c) /\ AwaitsAll(c) /\ RaceFree(c) /\ RightPlan(c, plan[c])

\* The operations done, when no job has failed; what a job writes next.
Count(k) == Len(CmdOf(cs, k)) - Len(jobs[JobOf(cs, k)].cmd)
Performed == {a \in Operations(cs) : a[1] < pc /\ (Latest(a[1]) => a[2] <= Count(a[1]))}
Held(f) == {fl[g] : g \in {f} \intersect DOMAIN fl}
ContentInv(plan) ==
  Failed = {} =>
    /\ \A f : Held(f) = Seen(cs, plan, f, Performed)
    /\ \A k \in Starts(cs) :
         (/\ Latest(k) /\ Count(k) + 1 \in DOMAIN CmdOf(cs, k)
          /\ CmdOf(cs, k)[Count(k) + 1].op = "put") =>
            plan[<<k, Count(k) + 1>>] = {jobs[JobOf(cs, k)].val}
=============================================================================
