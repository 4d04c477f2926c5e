----------------------------- MODULE ClimoProofs -----------------------------
(***************************************************************************)
(* Theorems about ClimoBatch, for every set of invocations whose scripts   *)
(* start and wait for their commands in order (Ordered, Serializable: of   *)
(* the text of the scripts alone), and for every number of commands that   *)
(* fail.                                                                   *)
(*                                                                         *)
(* The argument: the latest job of each name has done an initial part of   *)
(* its command (Progress).  So a script that gets past the wait for it has *)
(* all that the job writes, from the new invocation; InOrder is what makes *)
(* "the latest job" the one that is meant.  Without races the operations   *)
(* done are, for each file, an initial part of one order, whatever the     *)
(* schedule, so that the file holds what the last of them has written.     *)
(***************************************************************************)
EXTENDS ClimoBatch, TLAPS

-----------------------------------------------------------------------------
(* Positions in a script.                                                  *)

\* What has been waited for stays so.
LEMMA AwaitedMonotonic ==
  ASSUME NEW c, NEW k \in Int, NEW l \in Int, NEW m \in Int, l <= m, AwaitedBy(c, k, l),
         IsSequence(Scripts[c])
  PROVE  AwaitedBy(c, k, m)
<1>1. \A w \in DOMAIN Scripts[c] : w \in Int
  BY DEF IsSequence
<1>2. QED
  BY <1>1 DEF AwaitedBy

LEMMA SecuredMonotonic ==
  ASSUME NEW c, NEW f, NEW l \in Int, NEW m \in Int, l <= m, Secured(c, f, l),
         IsSequence(Scripts[c])
  PROVE  Secured(c, f, m)
<1>1. PICK k \in Starts(c) : AwaitedBy(c, k, l) /\ PutBefore(CmdOf(c, k), Len(CmdOf(c, k)) + 1, f)
  BY DEF Secured
<1>2. k \in Int
  BY DEF Starts, IsSequence
<1>3. AwaitedBy(c, k, m)
  BY <1>1, <1>2, AwaitedMonotonic
<1>4. QED
  BY <1>1, <1>3 DEF Secured

\* An instruction that is no wait makes no job one that has been waited for.
LEMMA AwaitedAcross ==
  ASSUME NEW c, NEW k \in Int, NEW l \in Int, IsSequence(Scripts[c]),
         AwaitedBy(c, k, l + 1), ~(Scripts[c][l].op = "wait" /\ JobOf(c, l) = JobOf(c, k) /\ k < l)
  PROVE  AwaitedBy(c, k, l)
<1>1. PICK w \in DOMAIN Scripts[c] :
        k < w /\ w < l + 1 /\ Scripts[c][w].op = "wait" /\ JobOf(c, w) = JobOf(c, k)
  BY DEF AwaitedBy
<1>2. w \in Int
  BY DEF IsSequence
<1>3. w # l
  BY <1>1
<1>4. w < l
  BY <1>1, <1>2, <1>3
<1>5. QED
  BY <1>1, <1>4 DEF AwaitedBy

LEMMA Arithmetic ==
  \A l, n \in Nat : n < l => IF l - n = 1 THEN n + 1 = l ELSE n + 1 < l
OBVIOUS

\* What is left of a command after n operations.
LEMMA RestOfCommand ==
  ASSUME NEW cmd, IsSequence(cmd), NEW n \in 0..Len(cmd), n < Len(cmd),
         NEW rest, rest = [i \in 1..(Len(cmd) - n) |-> cmd[n + i]]
  PROVE  /\ Len(rest) = Len(cmd) - n
         /\ Head(rest) = cmd[n + 1]
         /\ Tail(rest) = [i \in 1..(Len(cmd) - (n + 1)) |-> cmd[n + 1 + i]]
         /\ n + 1 \in DOMAIN cmd
<1>1. Len(cmd) \in Nat /\ DOMAIN cmd = 1..Len(cmd)
  BY DEF IsSequence
<1>2. Len(rest) = Len(cmd) - n
  BY <1>1
<1>3. Head(rest) = cmd[n + 1]
  <2>1. 1 \in 1..(Len(cmd) - n) /\ n + 1 \in Nat
    BY <1>1
  <2>2. rest[1] = cmd[n + 1]
    BY <2>1
  <2>3. QED
    BY <1>2, <2>2
<1>4. Tail(rest) = [i \in 1..(Len(rest) - 1) |-> rest[i + 1]]
  BY <1>1, <1>2
<1>5. Len(rest) - 1 = Len(cmd) - (n + 1)
  BY <1>1, <1>2
<1>6. \A i \in 1..(Len(cmd) - (n + 1)) : rest[i + 1] = cmd[n + 1 + i]
  BY <1>1, <1>2
<1>7. QED
  BY <1>1, <1>2, <1>3, <1>4, <1>5, <1>6

-----------------------------------------------------------------------------
(* The steps of the script.                                                *)

LEMMA OrderedCase ==
  ASSUME Ordered, BatchInv
  PROVE  /\ InOrder(cs) /\ IsSequence(Scripts[cs])
         /\ pc \in Int /\ DOMAIN Scripts[cs] = 1..Len(Scripts[cs]) /\ Len(Scripts[cs]) \in Nat
         /\ \A k \in Starts(cs) : k \in Int /\ k \in DOMAIN Scripts[cs]
<1>1. InOrder(cs)
  BY DEF Ordered, BatchInv
<1>2. IsSequence(Scripts[cs])
  BY <1>1 DEF InOrder
<1>3. DOMAIN Scripts[cs] = 1..Len(Scripts[cs]) /\ Len(Scripts[cs]) \in Nat
  BY <1>2 DEF IsSequence
<1>4. pc \in Int
  BY <1>3 DEF BatchInv
<1>5. QED
  BY <1>1, <1>2, <1>3, <1>4 DEF Starts

LEMMA BatchInit ==
  ASSUME Ordered, Init PROVE BatchInv
<1>1. cs \in Cases /\ pc = 1 /\ jobs = <<>> /\ status = "run"
  BY DEF Init
<1>2. IsSequence(Scripts[cs])
  BY <1>1 DEF Ordered, InOrder
<1>3. Len(Scripts[cs]) \in Nat /\ \A k \in DOMAIN Scripts[cs] : k \in Nat \ {0}
  BY <1>2 DEF IsSequence
<1>4. \A k \in Starts(cs) : ~(k < pc)
  BY <1>1, <1>3 DEF Starts
<1>5. JobsInv
  BY <1>1, <1>4 DEF JobsInv, Latest
<1>6. \A f : ~Secured(cs, f, pc)
  BY <1>1, <1>3 DEF Secured, AwaitedBy, Starts
<1>7. \A f \in DOMAIN fl : <<"old", 0>> \in fl[f] =>
        fl[f] = {<<"old", 0>>} /\ f \in Inherited(cs)
  BY DEF Init, FirstFls, Inherited
<1>8. QED
  BY <1>1, <1>3, <1>5, <1>6, <1>7 DEF BatchInv

\* Past an instruction that is neither a start nor a wait nothing changes.
LEMMA LatestAcross ==
  ASSUME Ordered, BatchInv, UNCHANGED cs, pc' = pc + 1, pc \notin Starts(cs), NEW k \in Starts(cs)
  PROVE  Latest(k)' <=> Latest(k)
<1>1. pc \in Int /\ \A h \in Starts(cs) : h \in Int
  BY OrderedCase
<1>2. Starts(cs)' = Starts(cs) /\ \A h : JobOf(cs, h)' = JobOf(cs, h)
  BY DEF Starts, JobOf
<1>3. \A h \in Starts(cs) : h < pc' <=> h < pc
  BY <1>1
<1>4. QED
  BY <1>2, <1>3 DEF Latest

LEMMA StartStep ==
  ASSUME Ordered, BatchInv, StartJob PROVE BatchInv'
<1> SUFFICES ASSUME NEW job, NEW cmd, job = JobOf(cs, pc), cmd = CmdOf(cs, pc)
             PROVE  BatchInv'
  OBVIOUS
<1>1. /\ Ready("start")
      /\ jobs' = [j \in DOMAIN jobs \union {job} |-> IF j = job THEN Job0(cmd) ELSE jobs[j]]
      /\ pc' = pc + 1 /\ UNCHANGED <<cs, fl, faults, status>>
  BY DEF StartJob, Instr, JobOf, CmdOf
<1>2. /\ InOrder(cs) /\ IsSequence(Scripts[cs])
      /\ pc \in Int /\ DOMAIN Scripts[cs] = 1..Len(Scripts[cs]) /\ Len(Scripts[cs]) \in Nat
      /\ \A k \in Starts(cs) : k \in Int /\ k \in DOMAIN Scripts[cs]
  BY OrderedCase
<1>3. pc \in DOMAIN Scripts[cs] /\ pc \in Starts(cs) /\ status = "run"
      /\ Scripts[cs][pc].op = "start"
  BY <1>1, <1>2 DEF Ready, BatchInv, Starts
<1>4. pc' \in 1..(Len(Scripts[cs]) + 1)
  BY <1>1, <1>2, <1>3
<1>5. /\ DOMAIN jobs' = DOMAIN jobs \union {job} /\ jobs'[job] = Job0(cmd)
      /\ \A j \in DOMAIN jobs \ {job} : jobs'[j] = jobs[j]
  BY <1>1
<1>6. \A k \in Int : AwaitedBy(cs, k, pc') => AwaitedBy(cs, k, pc)
  BY <1>1, <1>2, <1>3, AwaitedAcross
<1>7. /\ Starts(cs)' = Starts(cs)
      /\ \A h : JobOf(cs, h)' = JobOf(cs, h) /\ CmdOf(cs, h)' = CmdOf(cs, h)
  BY <1>1 DEF Starts, JobOf, CmdOf
<1>8. ASSUME NEW k, k = pc PROVE Latest(k)'
  BY <1>1, <1>2, <1>3, <1>7, <1>8 DEF Latest
<1>9. \A k \in Starts(cs) : Latest(k)' /\ k # pc => Latest(k) /\ JobOf(cs, k) # job
  BY <1>1, <1>2, <1>3, <1>7 DEF Latest
<1>10. \A k \in Starts(cs) : Latest(k) /\ JobOf(cs, k) # job => Latest(k)'
  BY <1>1, <1>2, <1>3, <1>7 DEF Latest
<1>11. \A j \in DOMAIN jobs' : \E k \in Starts(cs) : Latest(k)' /\ JobOf(cs, k) = j
  <2>1. ASSUME NEW j \in DOMAIN jobs', j # job
        PROVE  \E k \in Starts(cs) : Latest(k)' /\ JobOf(cs, k) = j
    BY <2>1, <1>5, <1>10 DEF BatchInv, JobsInv
  <2>2. \E k \in Starts(cs) : Latest(k)' /\ JobOf(cs, k) = job
    BY <1>3, <1>8
  <2>3. QED
    BY <2>1, <2>2
<1>12. ASSUME NEW k \in Starts(cs), Latest(k)'
       PROVE  LET j == JobOf(cs, k) IN
              /\ j \in DOMAIN jobs'
              /\ <<"old", 0>> \notin jobs'[j].val
              /\ jobs'[j].end \in {"run", "ok", "fail"}
              /\ jobs'[j].end # "fail" => Progress(j, CmdOf(cs, k))'
              /\ AwaitedBy(cs, k, pc') => jobs'[j].end = "ok"
  <2>1. CASE k = pc
    <3>1. IsSequence(cmd) /\ cmd # <<>>
      BY <1>2, <1>3 DEF InOrder
    <3>2. Len(cmd) \in Nat /\ Len(cmd) > 0 /\ cmd = [i \in 1..Len(cmd) |-> cmd[i]]
      BY <3>1 DEF IsSequence
    <3>3. \A f : ~PutBefore(cmd, 0 + 1, f)
      BY <3>1 DEF PutBefore, IsSequence
    <3>4. jobs'[job] = [cmd |-> cmd, val |-> {}, end |-> "run"]
      BY <1>5 DEF Job0
    <3>5. jobs'[job].cmd = [i \in 1..(Len(cmd) - 0) |-> cmd[0 + i]]
      BY <3>2, <3>4
    <3>6. Progress(job, cmd)'
      <4>1. 0 \in 0..Len(cmd) /\ 0 < Len(cmd)
        BY <3>2
      <4>2. /\ jobs'[job].end = "run" => 0 < Len(cmd)
            /\ jobs'[job].end = "ok" => 0 = Len(cmd)
        BY <3>2, <3>4
      <4>3. \A f \in DOMAIN fl' : PutBefore(cmd, 0 + 1, f) => Clean(f)'
        BY <3>3
      <4>4. QED
        BY <3>5, <4>1, <4>2, <4>3 DEF Progress
    <3>7. ~AwaitedBy(cs, pc, pc')
      BY <1>2, <1>6 DEF AwaitedBy
    <3>8. QED
      BY <2>1, <3>4, <3>6, <3>7, <1>5, <1>7
  <2>2. CASE k # pc
    <3>1. Latest(k) /\ JobOf(cs, k) # job /\ k \in Int
      BY <1>2, <1>9, <1>12, <2>2
    <3>2. JobOf(cs, k) \in DOMAIN jobs /\ jobs'[JobOf(cs, k)] = jobs[JobOf(cs, k)]
      BY <1>5, <3>1 DEF BatchInv, JobsInv
    <3>3. Progress(JobOf(cs, k), CmdOf(cs, k)) => Progress(JobOf(cs, k), CmdOf(cs, k))'
      BY <1>1, <1>7, <3>2 DEF Progress, Clean
    <3>4. QED
      BY <1>5, <1>6, <3>1, <3>2, <3>3 DEF BatchInv, JobsInv
  <2>3. QED
    BY <2>1, <2>2
<1>13. JobsInv'
  BY <1>1, <1>7, <1>11, <1>12 DEF JobsInv, AwaitedBy
<1>14. \A f \in DOMAIN fl : Secured(cs, f, pc') => Secured(cs, f, pc)
  BY <1>2, <1>6 DEF Secured
<1>15. QED
  BY <1>1, <1>2, <1>3, <1>4, <1>13, <1>14 DEF BatchInv, Secured, Clean, Inherited

\* What the wait for a job shows: all the files of all jobs of its name are
\* new.  The latest job has succeeded; the earlier ones had been waited for.
LEMMA WaitSecures ==
  ASSUME Ordered, BatchInv, WaitJob, pc' = pc + 1, NEW f \in DOMAIN fl, Secured(cs, f, pc')
  PROVE  Clean(f)
<1>1. /\ InOrder(cs) /\ IsSequence(Scripts[cs])
      /\ pc \in Int /\ DOMAIN Scripts[cs] = 1..Len(Scripts[cs]) /\ Len(Scripts[cs]) \in Nat
      /\ \A k \in Starts(cs) : k \in Int /\ k \in DOMAIN Scripts[cs]
  BY OrderedCase
<1>2. PICK k \in Starts(cs) :
        AwaitedBy(cs, k, pc') /\ PutBefore(CmdOf(cs, k), Len(CmdOf(cs, k)) + 1, f)
  BY DEF Secured, WaitJob
<1>3. k \in Int /\ k \in DOMAIN Scripts[cs]
  BY <1>1
<1>4. CASE AwaitedBy(cs, k, pc)
  BY <1>2, <1>4 DEF Secured, BatchInv
<1>5. CASE ~AwaitedBy(cs, k, pc)
  <2>1. JobOf(cs, pc) = JobOf(cs, k) /\ k < pc
    BY <1>1, <1>2, <1>3, <1>5, AwaitedAcross
  <2>2. Latest(k)
    <3>1. SUFFICES ASSUME NEW h \in Starts(cs), k < h, h < pc, JobOf(cs, h) = JobOf(cs, k)
                   PROVE  FALSE
      BY <2>1 DEF Latest
    <3>2. AwaitedBy(cs, k, h)
      BY <1>1, <3>1 DEF InOrder
    <3>3. AwaitedBy(cs, k, pc)
      BY <1>1, <1>3, <3>1, <3>2, AwaitedMonotonic
    <3>4. QED
      BY <1>5, <3>3
  <2>3. /\ JobOf(cs, k) \in DOMAIN jobs
        /\ jobs[JobOf(cs, k)].end \in {"run", "ok", "fail"}
        /\ jobs[JobOf(cs, k)].end # "fail" => Progress(JobOf(cs, k), CmdOf(cs, k))
    BY <2>2 DEF BatchInv, JobsInv
  <2>4. JobOf(cs, k) \notin Running /\ JobOf(cs, k) \notin Failed
    <3>1. JobOf(cs, k) \notin Running
      BY <2>1 DEF WaitJob, Instr, JobOf
    <3>2. JobOf(cs, k) \notin Failed
      BY <1>1, <2>1 DEF WaitJob, Instr, JobOf
    <3>3. QED
      BY <3>1, <3>2
  <2>5. jobs[JobOf(cs, k)].end = "ok"
    BY <2>3, <2>4 DEF Running, Failed
  <2>6. PutBefore(CmdOf(cs, k), Len(CmdOf(cs, k)) + 1, f) => Clean(f)
    BY <2>3, <2>5 DEF Progress
  <2>7. QED
    BY <1>2, <2>6
<1>6. QED
  BY <1>4, <1>5

LEMMA WaitStep ==
  ASSUME Ordered, BatchInv, WaitJob PROVE BatchInv'
<1>1. /\ InOrder(cs) /\ IsSequence(Scripts[cs])
      /\ pc \in Int /\ DOMAIN Scripts[cs] = 1..Len(Scripts[cs]) /\ Len(Scripts[cs]) \in Nat
      /\ \A k \in Starts(cs) : k \in Int /\ k \in DOMAIN Scripts[cs]
  BY OrderedCase
<1>2. /\ UNCHANGED <<cs, jobs, fl, faults>> /\ Ready("wait")
      /\ Starts(cs)' = Starts(cs)
      /\ \A h : JobOf(cs, h)' = JobOf(cs, h) /\ CmdOf(cs, h)' = CmdOf(cs, h)
      /\ \A j, cmd : Progress(j, cmd)' <=> Progress(j, cmd)
  BY DEF WaitJob, Starts, JobOf, CmdOf, Progress, Clean
<1>3. CASE pc' = pc
  <2>1. \A k : Latest(k)' <=> Latest(k)
    BY <1>2, <1>3 DEF Latest
  <2>2. JobsInv'
    BY <1>2, <1>3, <2>1 DEF BatchInv, JobsInv, AwaitedBy
  <2>3. status' \in {"run", "failure"}
    BY <1>3 DEF WaitJob, Ready
  <2>4. QED
    BY <1>2, <1>3, <2>2, <2>3 DEF BatchInv, Secured, Clean, Inherited
<1>4. CASE pc' = pc + 1 /\ status' = status /\ Instr.job \notin Running /\ Instr.job \notin Failed
  <2>1. pc \in DOMAIN Scripts[cs] /\ pc \notin Starts(cs) /\ status = "run"
    BY <1>1, <1>2 DEF Ready, BatchInv, Starts
  <2>2. \A k \in Starts(cs) : Latest(k)' <=> Latest(k)
    BY <1>2, <1>4, <2>1, LatestAcross
  <2>3. ASSUME NEW k \in Starts(cs), Latest(k), AwaitedBy(cs, k, pc')
        PROVE  jobs[JobOf(cs, k)].end = "ok"
    <3>1. CASE AwaitedBy(cs, k, pc)
      BY <2>3, <3>1 DEF BatchInv, JobsInv
    <3>2. CASE ~AwaitedBy(cs, k, pc)
      <4>1. JobOf(cs, pc) = JobOf(cs, k)
        BY <1>1, <1>4, <2>3, <3>2, AwaitedAcross
      <4>2. JobOf(cs, k) \notin Running /\ JobOf(cs, k) \notin Failed
        BY <1>4, <4>1 DEF Instr, JobOf
      <4>3. JobOf(cs, k) \in DOMAIN jobs /\ jobs[JobOf(cs, k)].end \in {"run", "ok", "fail"}
        BY <2>3 DEF BatchInv, JobsInv
      <4>4. QED
        BY <4>2, <4>3 DEF Running, Failed
    <3>3. QED
      BY <3>1, <3>2
  <2>4. JobsInv'
    <3>1. \A j \in DOMAIN jobs : \E k \in Starts(cs) : Latest(k)' /\ JobOf(cs, k) = j
      BY <2>2 DEF BatchInv, JobsInv
    <3>2. ASSUME NEW k \in Starts(cs), Latest(k)'
          PROVE  LET j == JobOf(cs, k) IN
                 /\ j \in DOMAIN jobs
                 /\ <<"old", 0>> \notin jobs[j].val
                 /\ jobs[j].end \in {"run", "ok", "fail"}
                 /\ jobs[j].end # "fail" => Progress(j, CmdOf(cs, k))
                 /\ AwaitedBy(cs, k, pc') => jobs[j].end = "ok"
      BY <2>2, <2>3, <3>2 DEF BatchInv, JobsInv
    <3>3. QED
      BY <1>2, <3>1, <3>2 DEF JobsInv, AwaitedBy
  <2>5. \A f \in DOMAIN fl : Secured(cs, f, pc') => Clean(f)
    BY <1>4, WaitSecures
  <2>6. pc' \in 1..(Len(Scripts[cs]) + 1)
    BY <1>1, <1>4, <2>1
  <2>7. QED
    BY <1>2, <1>4, <2>1, <2>4, <2>5, <2>6 DEF BatchInv, Secured, Clean, Inherited
<1>5. QED
  BY <1>3, <1>4 DEF WaitJob

\* wait without arguments, a refusal, the end of the script.
LEMMA OtherStep ==
  ASSUME Ordered, BatchInv, WaitJobs \/ ExitFailure \/ EndScript PROVE BatchInv'
<1>1. /\ InOrder(cs) /\ IsSequence(Scripts[cs])
      /\ pc \in Int /\ DOMAIN Scripts[cs] = 1..Len(Scripts[cs]) /\ Len(Scripts[cs]) \in Nat
      /\ \A k \in Starts(cs) : k \in Int /\ k \in DOMAIN Scripts[cs]
  BY OrderedCase
<1>2. /\ UNCHANGED <<cs, jobs, fl, faults>>
      /\ Starts(cs)' = Starts(cs)
      /\ \A h : JobOf(cs, h)' = JobOf(cs, h) /\ CmdOf(cs, h)' = CmdOf(cs, h)
      /\ \A j, cmd : Progress(j, cmd)' <=> Progress(j, cmd)
  BY DEF WaitJobs, ExitFailure, EndScript, Starts, JobOf, CmdOf, Progress, Clean
<1>3. CASE ExitFailure \/ EndScript
  <2>1. pc' = pc
    BY <1>3 DEF ExitFailure, EndScript
  <2>2. \A k : Latest(k)' <=> Latest(k)
    BY <1>2, <2>1 DEF Latest
  <2>3. JobsInv'
    BY <1>2, <2>1, <2>2 DEF BatchInv, JobsInv, AwaitedBy
  <2>4. status' \in {"success", "failure"} /\ (status' = "success" => pc > Len(Scripts[cs]))
    BY <1>3 DEF ExitFailure, EndScript
  <2>5. QED
    BY <1>2, <2>1, <2>3, <2>4 DEF BatchInv, Secured, Clean, Inherited
<1>4. CASE WaitJobs
  <2>1. pc' = pc + 1 /\ status' = status /\ Scripts[cs][pc].op = "waitall" /\ status = "run"
        /\ pc \in DOMAIN Scripts[cs]
    BY <1>1, <1>4 DEF WaitJobs, Ready, BatchInv
  <2>2. pc \notin Starts(cs)
    BY <2>1 DEF Starts
  <2>3. \A k \in Starts(cs) : Latest(k)' <=> Latest(k)
    BY <1>2, <2>1, <2>2, LatestAcross
  <2>4. \A k \in Int : AwaitedBy(cs, k, pc') => AwaitedBy(cs, k, pc)
    BY <1>1, <2>1, AwaitedAcross
  <2>5. JobsInv'
    <3>1. \A j \in DOMAIN jobs : \E k \in Starts(cs) : Latest(k)' /\ JobOf(cs, k) = j
      BY <2>3 DEF BatchInv, JobsInv
    <3>2. \A k \in Starts(cs) : Latest(k)' => Latest(k) /\ k \in Int
      BY <1>1, <2>3
    <3>3. QED
      BY <1>2, <2>4, <3>1, <3>2 DEF BatchInv, JobsInv, AwaitedBy
  <2>6. \A f \in DOMAIN fl : Secured(cs, f, pc') => Secured(cs, f, pc)
    BY <1>1, <2>4 DEF Secured
  <2>7. pc' \in 1..(Len(Scripts[cs]) + 1)
    BY <1>1, <2>1
  <2>8. QED
    BY <1>2, <2>1, <2>5, <2>6, <2>7 DEF BatchInv, Secured, Clean, Inherited
<1>5. QED
  BY <1>3, <1>4

-----------------------------------------------------------------------------
(* The steps of the jobs.                                                  *)

\* An operation done: the job is one operation further, if no file has lost
\* its being new, and if the files are new that the operation has put.
LEMMA DoneStep ==
  ASSUME Ordered, BatchInv, NEW j \in Running, NEW val, Done(j, val), <<"old", 0>> \notin val,
         UNCHANGED <<cs, pc, status>>,
         \A f \in DOMAIN fl' :
           \/ f \in DOMAIN fl /\ fl'[f] = fl[f]
           \/ <<"old", 0>> \notin fl'[f],
         Op(j).op = "put" => \A f \in Op(j).fls \intersect DOMAIN fl' : <<"old", 0>> \notin fl'[f]
  PROVE  BatchInv'
<1>1. /\ InOrder(cs) /\ IsSequence(Scripts[cs])
      /\ \A k \in Starts(cs) : k \in Int /\ k \in DOMAIN Scripts[cs]
  BY OrderedCase
<1>2. /\ Starts(cs)' = Starts(cs)
      /\ \A h : JobOf(cs, h)' = JobOf(cs, h) /\ CmdOf(cs, h)' = CmdOf(cs, h)
      /\ \A k : Latest(k)' <=> Latest(k)
      /\ \A k : AwaitedBy(cs, k, pc)' <=> AwaitedBy(cs, k, pc)
  BY DEF Starts, JobOf, CmdOf, Latest, AwaitedBy
<1>3. /\ DOMAIN jobs' = DOMAIN jobs /\ j \in DOMAIN jobs /\ jobs[j].end = "run"
      /\ \A i \in DOMAIN jobs \ {j} : jobs'[i] = jobs[i]
      /\ jobs'[j] = [cmd |-> Tail(jobs[j].cmd), val |-> val,
                     end |-> IF Len(jobs[j].cmd) = 1 THEN "ok" ELSE "run"]
  BY DEF Done, Running
<1>4. \A f \in DOMAIN fl' : (f \in DOMAIN fl => Clean(f)) => Clean(f)'
  BY DEF Clean
<1>5. ASSUME NEW k \in Starts(cs), Latest(k), JobOf(cs, k) # j
      PROVE  LET i == JobOf(cs, k) IN
             /\ i \in DOMAIN jobs'
             /\ <<"old", 0>> \notin jobs'[i].val
             /\ jobs'[i].end \in {"run", "ok", "fail"}
             /\ jobs'[i].end # "fail" => Progress(i, CmdOf(cs, k))'
             /\ AwaitedBy(cs, k, pc) => jobs'[i].end = "ok"
  <2>1. jobs'[JobOf(cs, k)] = jobs[JobOf(cs, k)] /\ JobOf(cs, k) \in DOMAIN jobs
    BY <1>3, <1>5 DEF BatchInv, JobsInv
  <2>2. Progress(JobOf(cs, k), CmdOf(cs, k)) => Progress(JobOf(cs, k), CmdOf(cs, k))'
    BY <1>2, <1>4, <2>1 DEF Progress
  <2>3. QED
    BY <1>3, <1>5, <2>1, <2>2 DEF BatchInv, JobsInv
<1>6. ASSUME NEW k \in Starts(cs), Latest(k), JobOf(cs, k) = j
      PROVE  /\ jobs'[j].end \in {"run", "ok"}
             /\ Progress(j, CmdOf(cs, k))'
             /\ ~AwaitedBy(cs, k, pc)
  <2> SUFFICES ASSUME NEW cmd, cmd = CmdOf(cs, k)
               PROVE  /\ jobs'[j].end \in {"run", "ok"}
                      /\ Progress(j, cmd)'
                      /\ ~AwaitedBy(cs, k, pc)
    BY <1>2
  <2>1. ~AwaitedBy(cs, k, pc) /\ Progress(j, cmd)
    BY <1>3, <1>6 DEF BatchInv, JobsInv
  <2>2. IsSequence(cmd)
    BY <1>1 DEF InOrder
  <2>3. PICK n \in 0..Len(cmd) :
          /\ jobs[j].cmd = [i \in 1..(Len(cmd) - n) |-> cmd[n + i]]
          /\ n < Len(cmd)
          /\ \A f \in DOMAIN fl : PutBefore(cmd, n + 1, f) => Clean(f)
    BY <1>3, <2>1 DEF Progress
  <2>4. /\ Len(jobs[j].cmd) = Len(cmd) - n /\ Op(j) = cmd[n + 1]
        /\ Tail(jobs[j].cmd) = [i \in 1..(Len(cmd) - (n + 1)) |-> cmd[n + 1 + i]]
        /\ n + 1 \in DOMAIN cmd
    BY <2>2, <2>3, RestOfCommand DEF Op
  <2>5. Len(cmd) \in Nat /\ n \in Nat /\ DOMAIN cmd = 1..Len(cmd)
    BY <2>2, <2>3 DEF IsSequence
  <2>6. /\ n + 1 \in 0..Len(cmd)
        /\ jobs'[j].end = "run" => n + 1 < Len(cmd)
        /\ jobs'[j].end = "ok" => n + 1 = Len(cmd)
        /\ jobs'[j].end \in {"run", "ok"}
    <3>1. jobs'[j].end = IF Len(cmd) - n = 1 THEN "ok" ELSE "run"
      BY <1>3, <2>4
    <3>2. n + 1 \in 0..Len(cmd)
      BY <2>3, <2>5
    <3>3. CASE Len(cmd) - n = 1
      <4>1. n + 1 = Len(cmd)
        BY <2>3, <2>5, <3>3, Arithmetic
      <4>2. QED
        BY <3>1, <3>2, <3>3, <4>1
    <3>4. CASE Len(cmd) - n # 1
      <4>1. n + 1 < Len(cmd)
        BY <2>3, <2>5, <3>4, Arithmetic
      <4>2. QED
        BY <3>1, <3>2, <3>4, <4>1
    <3>5. QED
      BY <3>3, <3>4
  <2>7. ASSUME NEW f \in DOMAIN fl', PutBefore(cmd, n + 1 + 1, f) PROVE Clean(f)'
    <3>1. PICK h \in DOMAIN cmd : h < n + 1 + 1 /\ cmd[h].op = "put" /\ f \in cmd[h].fls
      BY <2>7 DEF PutBefore
    <3>2. CASE h = n + 1
      BY <2>4, <3>1, <3>2 DEF Clean
    <3>3. CASE h # n + 1
      <4>1. PutBefore(cmd, n + 1, f)
        BY <2>5, <3>1, <3>3 DEF PutBefore
      <4>2. QED
        BY <1>4, <2>3, <4>1
    <3>4. QED
      BY <3>2, <3>3
  <2>8. jobs'[j].cmd = [i \in 1..(Len(cmd) - (n + 1)) |-> cmd[n + 1 + i]]
    BY <1>3, <2>4
  <2>9. Progress(j, cmd)'
    BY <2>6, <2>7, <2>8 DEF Progress
  <2>10. QED
    BY <2>1, <2>6, <2>9
<1>7. JobsInv'
  <2>1. \A i \in DOMAIN jobs' : \E k \in Starts(cs) : Latest(k) /\ JobOf(cs, k) = i
    BY <1>3 DEF BatchInv, JobsInv
  <2>2. ASSUME NEW k \in Starts(cs), Latest(k)
        PROVE  LET i == JobOf(cs, k) IN
               /\ i \in DOMAIN jobs'
               /\ <<"old", 0>> \notin jobs'[i].val
               /\ jobs'[i].end \in {"run", "ok", "fail"}
               /\ jobs'[i].end # "fail" => Progress(i, CmdOf(cs, k))'
               /\ AwaitedBy(cs, k, pc) => jobs'[i].end = "ok"
    BY <1>2, <1>3, <1>5, <1>6, <2>2
  <2>3. QED
    BY <1>2, <2>1, <2>2 DEF JobsInv
<1>8. \A f \in DOMAIN fl' : Secured(cs, f, pc)' => Clean(f)'
  BY <1>4 DEF Secured, BatchInv
<1>9. \A f \in DOMAIN fl' : <<"old", 0>> \in fl'[f] =>
        fl'[f] = {<<"old", 0>>} /\ f \in Inherited(cs)
  BY DEF BatchInv
<1>10. QED
  BY <1>7, <1>8, <1>9 DEF BatchInv, Inherited

\* A job that runs is at an operation of the command of the latest start of
\* its name.
LEMMA AtOperation ==
  ASSUME Ordered, BatchInv, NEW j \in Running
  PROVE  \E k \in Starts(cs) : \E i \in DOMAIN CmdOf(cs, k) :
           /\ k < pc /\ k \in Int /\ Op(j) = CmdOf(cs, k)[i]
           /\ \A f \in DOMAIN fl : PutBefore(CmdOf(cs, k), i, f) => Clean(f)
<1>1. j \in DOMAIN jobs /\ jobs[j].end = "run"
  BY DEF Running
<1>2. PICK k \in Starts(cs) : Latest(k) /\ JobOf(cs, k) = j
  BY <1>1 DEF BatchInv, JobsInv
<1>3. Progress(j, CmdOf(cs, k))
  BY <1>1, <1>2 DEF BatchInv, JobsInv
<1>4. IsSequence(CmdOf(cs, k)) /\ k \in Int
  BY OrderedCase DEF InOrder
<1>5. PICK n \in 0..Len(CmdOf(cs, k)) :
        /\ jobs[j].cmd = [i \in 1..(Len(CmdOf(cs, k)) - n) |-> CmdOf(cs, k)[n + i]]
        /\ n < Len(CmdOf(cs, k))
        /\ \A f \in DOMAIN fl : PutBefore(CmdOf(cs, k), n + 1, f) => Clean(f)
  BY <1>1, <1>3 DEF Progress
<1>6. Op(j) = CmdOf(cs, k)[n + 1] /\ n + 1 \in DOMAIN CmdOf(cs, k)
  BY <1>4, <1>5, RestOfCommand DEF Op
<1>7. QED
  BY <1>2, <1>4, <1>5, <1>6 DEF Latest

LEMMA OpenStep ==
  ASSUME Ordered, BatchInv, NEW j \in DOMAIN jobs, OpenFls(j) PROVE BatchInv'
<1> DEFINE val == Op(j).own \union UNION {fl[f] : f \in Op(j).fls \intersect DOMAIN fl}
<1>1. j \in Running /\ Op(j).op = "open" /\ Done(j, val) /\ UNCHANGED <<cs, pc, fl, status>>
  BY DEF OpenFls
<1>0. PICK k \in Starts(cs) : \E i \in DOMAIN CmdOf(cs, k) :
        /\ k < pc /\ k \in Int /\ Op(j) = CmdOf(cs, k)[i]
        /\ \A f \in DOMAIN fl : PutBefore(CmdOf(cs, k), i, f) => Clean(f)
  BY <1>1, AtOperation
<1>2. PICK i \in DOMAIN CmdOf(cs, k) :
        /\ k < pc /\ k \in Int /\ Op(j) = CmdOf(cs, k)[i]
        /\ \A f \in DOMAIN fl : PutBefore(CmdOf(cs, k), i, f) => Clean(f)
  BY <1>0
<1>3. InOrder(cs) /\ IsSequence(Scripts[cs]) /\ pc \in Int
  BY OrderedCase
<1>4. /\ <<"old", 0>> \notin Op(j).own
      /\ \A f \in Op(j).fls \intersect Inherited(cs) :
           Secured(cs, f, k) \/ PutBefore(CmdOf(cs, k), i, f)
  BY <1>1, <1>2, <1>3 DEF InOrder
<1>5. ASSUME NEW f \in Op(j).fls \intersect DOMAIN fl PROVE <<"old", 0>> \notin fl[f]
  <2>1. CASE f \notin Inherited(cs)
    BY <1>5, <2>1 DEF BatchInv
  <2>2. CASE Secured(cs, f, k)
    <3>1. Secured(cs, f, pc)
      BY <1>2, <1>3, <2>2, SecuredMonotonic
    <3>2. QED
      BY <1>5, <3>1 DEF BatchInv, Clean
  <2>3. CASE PutBefore(CmdOf(cs, k), i, f)
    BY <1>2, <1>5, <2>3 DEF Clean
  <2>4. QED
    BY <1>4, <1>5, <2>1, <2>2, <2>3
<1>6. <<"old", 0>> \notin val
  BY <1>4, <1>5
<1>7. \A f \in DOMAIN fl' : f \in DOMAIN fl /\ fl'[f] = fl[f]
  BY <1>1
<1> HIDE DEF val
<1>8. QED
  BY <1>1, <1>6, <1>7, DoneStep

LEMMA ValueClean ==
  ASSUME Ordered, BatchInv, NEW j \in DOMAIN jobs PROVE <<"old", 0>> \notin jobs[j].val
BY DEF BatchInv, JobsInv

LEMMA PutStep ==
  ASSUME Ordered, BatchInv, NEW j \in DOMAIN jobs, PutFl(j) PROVE BatchInv'
<1>1. /\ j \in Running /\ Op(j).op = "put" /\ Done(j, {}) /\ UNCHANGED <<cs, pc, status>>
      /\ fl' = [f \in DOMAIN fl \union Op(j).fls |->
                  IF f \in Op(j).fls THEN jobs[j].val ELSE fl[f]]
  BY DEF PutFl
<1>2. <<"old", 0>> \notin jobs[j].val
  BY ValueClean
<1>3. \A f \in DOMAIN fl' : (f \in DOMAIN fl /\ fl'[f] = fl[f]) \/ <<"old", 0>> \notin fl'[f]
  BY <1>1, <1>2
<1>4. \A f \in Op(j).fls \intersect DOMAIN fl' : <<"old", 0>> \notin fl'[f]
  BY <1>1, <1>2
<1>5. QED
  BY <1>1, <1>3, <1>4, DoneStep

LEMMA RmStep ==
  ASSUME Ordered, BatchInv, NEW j \in DOMAIN jobs, RmFls(j) PROVE BatchInv'
<1>1. /\ j \in Running /\ Op(j).op = "rm" /\ Done(j, {}) /\ UNCHANGED <<cs, pc, status>>
      /\ fl' = [f \in DOMAIN fl \ Op(j).fls |-> fl[f]]
  BY DEF RmFls
<1>2. \A f \in DOMAIN fl' : f \in DOMAIN fl /\ fl'[f] = fl[f]
  BY <1>1
<1>3. QED
  BY <1>1, <1>2, DoneStep

LEMMA FailStep ==
  ASSUME Ordered, BatchInv, NEW j \in DOMAIN jobs, Fail(j) PROVE BatchInv'
<1>1. /\ UNCHANGED <<cs, pc, fl, status>> /\ jobs[j].end = "run"
      /\ DOMAIN jobs' = DOMAIN jobs
      /\ \A i \in DOMAIN jobs \ {j} : jobs'[i] = jobs[i]
      /\ jobs'[j] = [cmd |-> <<>>, val |-> {}, end |-> "fail"]
  BY DEF Fail, Running
<1>2. /\ Starts(cs)' = Starts(cs)
      /\ \A h : JobOf(cs, h)' = JobOf(cs, h) /\ CmdOf(cs, h)' = CmdOf(cs, h)
      /\ \A k : Latest(k)' <=> Latest(k)
      /\ \A k : AwaitedBy(cs, k, pc)' <=> AwaitedBy(cs, k, pc)
      /\ \A f : Secured(cs, f, pc)' <=> Secured(cs, f, pc)
  BY <1>1 DEF Starts, JobOf, CmdOf, Latest, AwaitedBy, Secured
<1>3. \A i \in DOMAIN jobs \ {j} : \A cmd : Progress(i, cmd)' <=> Progress(i, cmd)
  BY <1>1 DEF Progress, Clean
<1>4. ASSUME NEW k \in Starts(cs), Latest(k)
      PROVE  LET i == JobOf(cs, k) IN
             /\ i \in DOMAIN jobs'
             /\ <<"old", 0>> \notin jobs'[i].val
             /\ jobs'[i].end \in {"run", "ok", "fail"}
             /\ jobs'[i].end # "fail" => Progress(i, CmdOf(cs, k))'
             /\ AwaitedBy(cs, k, pc) => jobs'[i].end = "ok"
  <2>1. CASE JobOf(cs, k) = j
    <3>1. ~AwaitedBy(cs, k, pc)
      BY <1>1, <1>4, <2>1 DEF BatchInv, JobsInv
    <3>2. QED
      BY <1>1, <2>1, <3>1
  <2>2. CASE JobOf(cs, k) # j
    <3>1. JobOf(cs, k) \in DOMAIN jobs \ {j} /\ jobs'[JobOf(cs, k)] = jobs[JobOf(cs, k)]
      BY <1>1, <1>4, <2>2 DEF BatchInv, JobsInv
    <3>2. Progress(JobOf(cs, k), CmdOf(cs, k)) => Progress(JobOf(cs, k), CmdOf(cs, k))'
      BY <1>2, <1>3, <3>1
    <3>3. QED
      BY <1>1, <1>4, <3>1, <3>2 DEF BatchInv, JobsInv
  <2>3. QED
    BY <2>1, <2>2
<1>5. JobsInv'
  <2>1. \A i \in DOMAIN jobs' : \E k \in Starts(cs) : Latest(k) /\ JobOf(cs, k) = i
    BY <1>1 DEF BatchInv, JobsInv
  <2>2. QED
    BY <1>2, <1>4, <2>1 DEF JobsInv
<1>6. QED
  BY <1>1, <1>2, <1>5 DEF BatchInv, Clean, Inherited

-----------------------------------------------------------------------------
(* The theorems.                                                           *)

LEMMA BatchPreserved ==
  ASSUME Ordered, BatchInv, [Next]_vars PROVE BatchInv'
<1>1. CASE StartJob
  BY <1>1, StartStep
<1>2. CASE WaitJob
  BY <1>2, WaitStep
<1>3. CASE WaitJobs \/ ExitFailure \/ EndScript
  BY <1>3, OtherStep
<1>4. ASSUME NEW j \in DOMAIN jobs, JobStep(j) PROVE BatchInv'
  BY <1>4, OpenStep, PutStep, RmStep, FailStep DEF JobStep
<1>5. CASE UNCHANGED vars
  <2>1. UNCHANGED <<cs, pc, jobs, fl, faults, status>>
    BY <1>5 DEF vars
  <2>2. /\ Starts(cs)' = Starts(cs)
        /\ \A h : JobOf(cs, h)' = JobOf(cs, h) /\ CmdOf(cs, h)' = CmdOf(cs, h)
        /\ \A k : Latest(k)' <=> Latest(k)
        /\ \A k : AwaitedBy(cs, k, pc)' <=> AwaitedBy(cs, k, pc)
        /\ \A j, cmd : Progress(j, cmd)' <=> Progress(j, cmd)
    BY <2>1 DEF Starts, JobOf, CmdOf, Latest, AwaitedBy, Progress, Clean
  <2>3. JobsInv'
    BY <2>1, <2>2 DEF BatchInv, JobsInv
  <2>4. QED
    BY <2>1, <2>3 DEF BatchInv, Secured, Clean, Inherited
<1>6. QED
  BY <1>1, <1>2, <1>3, <1>4, <1>5 DEF Next, ScriptStep

\* The invariant: whatever jobs fail and however they overlap, the latest job
\* of each name does its command one operation after another, what has been
\* waited for has succeeded, and what it has written is new.
THEOREM BatchInvariant ==
  ASSUME Ordered PROVE Spec => []BatchInv
<1>1. Init => BatchInv
  BY BatchInit
<1>2. BatchInv /\ [Next]_vars => BatchInv'
  BY BatchPreserved
<1>3. QED
  BY <1>1, <1>2, PTL DEF Spec

\* No product of an invocation has anything in it of a file that an earlier
\* invocation left under the same name.
THEOREM NoStaleContent ==
  ASSUME Ordered PROVE Spec => []NothingStale
<1>1. BatchInv => NothingStale
  BY DEF BatchInv, NothingStale
<1>2. QED
  BY <1>1, BatchInvariant, PTL

\* A script that waits for all its jobs reports success only when each of
\* them has succeeded: none still runs and no failure goes unnoticed.
THEOREM SuccessIsComplete ==
  ASSUME Ordered, \A c \in Cases : AwaitsAll(c) PROVE Spec => []SuccessIsEveryJobs
<1>1. BatchInv => SuccessIsEveryJobs
  <2> SUFFICES ASSUME BatchInv, status = "success", NEW j \in DOMAIN jobs
               PROVE  jobs[j].end = "ok"
    BY DEF SuccessIsEveryJobs
  <2>1. PICK k \in Starts(cs) : Latest(k) /\ JobOf(cs, k) = j
    BY DEF BatchInv, JobsInv
  <2>2. /\ IsSequence(Scripts[cs]) /\ pc \in Int /\ k \in Int /\ Len(Scripts[cs]) \in Nat
    BY OrderedCase
  <2>3. Len(Scripts[cs]) + 1 <= pc
    BY <2>2 DEF BatchInv
  <2>4. AwaitedBy(cs, k, pc)
    <3>1. AwaitedBy(cs, k, Len(Scripts[cs]) + 1)
      BY DEF AwaitsAll, BatchInv
    <3>2. QED
      BY <2>2, <2>3, <3>1, AwaitedMonotonic
  <2>5. QED
    BY <2>1, <2>4 DEF BatchInv, JobsInv
<1>2. QED
  BY <1>1, BatchInvariant, PTL

-----------------------------------------------------------------------------
(* The order of the operations of a script.                                *)

LEMMA OperationFacts ==
  ASSUME NEW c, InOrder(c)
  PROVE  /\ \A a \in Operations(c) :
              /\ a[1] \in Starts(c) /\ a[2] \in DOMAIN CmdOf(c, a[1]) /\ a = <<a[1], a[2]>>
              /\ a[1] \in Int /\ a[2] \in Int
         /\ \A k \in Starts(c) : \A i \in DOMAIN CmdOf(c, k) : <<k, i>> \in Operations(c)
<1>1. \A k \in Starts(c) : k \in Int /\ \A i \in DOMAIN CmdOf(c, k) : i \in Int
  BY DEF InOrder, IsSequence, Starts
<1>2. QED
  BY <1>1 DEF Operations

LEMMA BeforeAsymmetric ==
  ASSUME NEW c, InOrder(c), NEW a \in Operations(c), NEW b \in Operations(c),
         Before(c, a, b), Before(c, b, a)
  PROVE  FALSE
<1>1. a[1] \in Int /\ a[2] \in Int /\ b[1] \in Int /\ b[2] \in Int
  BY OperationFacts
<1>2. \A w \in DOMAIN Scripts[c] : w \in Int
  BY DEF InOrder, IsSequence
<1>3. QED
  BY <1>1, <1>2 DEF Before, AwaitedBy

\* The last of the operations S, if there is one that is after all others.
LEMMA LastIs ==
  ASSUME NEW c, InOrder(c), NEW S \in SUBSET Operations(c), NEW a \in S,
         \A b \in S : b = a \/ Before(c, b, a)
  PROVE  LastOf(c, S) = a
<1>1. ASSUME NEW x \in S, \A b \in S : b = x \/ Before(c, b, x), x # a PROVE FALSE
  BY <1>1, BeforeAsymmetric
<1>2. QED
  BY <1>1 DEF LastOf

LEMMA LengthOfRest ==
  ASSUME NEW cmd, IsSequence(cmd), NEW n \in 0..Len(cmd)
  PROVE  /\ Len([i \in 1..(Len(cmd) - n) |-> cmd[n + i]]) = Len(cmd) - n
         /\ Len(cmd) - (Len(cmd) - n) = n
<1>1. Len(cmd) \in Nat
  BY DEF IsSequence
<1>2. QED
  BY <1>1

\* How far the latest job of a name has got, when none has failed.
LEMMA CountFacts ==
  ASSUME Ordered, BatchInv, Failed = {}, NEW k \in Starts(cs), Latest(k)
  PROVE  LET j == JobOf(cs, k)
             cmd == CmdOf(cs, k)
         IN  /\ j \in DOMAIN jobs /\ Count(k) \in 0..Len(cmd)
             /\ Count(k) \in Nat /\ Count(k) \in Int /\ Len(cmd) \in Nat /\ DOMAIN cmd = 1..Len(cmd)
             /\ jobs[j].cmd = [i \in 1..(Len(cmd) - Count(k)) |-> cmd[Count(k) + i]]
             /\ Len(jobs[j].cmd) = Len(cmd) - Count(k)
             /\ jobs[j].end = "run" => Count(k) < Len(cmd)
             /\ jobs[j].end = "ok" => Count(k) = Len(cmd)
             /\ jobs[j].end \in {"run", "ok"}
             /\ AwaitedBy(cs, k, pc) => Count(k) = Len(cmd)
<1> DEFINE j == JobOf(cs, k)
           cmd == CmdOf(cs, k)
<1>1. IsSequence(cmd)
  BY OrderedCase DEF InOrder
<1>2. j \in DOMAIN jobs /\ jobs[j].end \in {"run", "ok"} /\ Progress(j, cmd)
      /\ (AwaitedBy(cs, k, pc) => jobs[j].end = "ok")
  BY DEF BatchInv, JobsInv, Failed
<1>3. PICK n \in 0..Len(cmd) :
        /\ jobs[j].cmd = [i \in 1..(Len(cmd) - n) |-> cmd[n + i]]
        /\ jobs[j].end = "run" => n < Len(cmd)
        /\ jobs[j].end = "ok" => n = Len(cmd)
  BY <1>2 DEF Progress
<1>4. Len(jobs[j].cmd) = Len(cmd) - n
  BY <1>1, <1>3, LengthOfRest
<1>5. Count(k) = n
  BY <1>1, <1>4, LengthOfRest DEF Count
<1>6. Len(cmd) \in Nat /\ DOMAIN cmd = 1..Len(cmd) /\ n \in Nat /\ n \in Int
  BY <1>1 DEF IsSequence
<1>7. QED
  BY <1>2, <1>3, <1>4, <1>5, <1>6

\* What comes before an operation that is done is done.
LEMMA DoneBefore ==
  ASSUME Ordered, BatchInv, Failed = {}, NEW k \in Starts(cs), k < pc,
         NEW i \in DOMAIN CmdOf(cs, k), Latest(k) => i <= Count(k) + 1,
         NEW b \in Operations(cs), Before(cs, b, <<k, i>>)
  PROVE  b \in Performed
<1>1. /\ InOrder(cs) /\ IsSequence(Scripts[cs]) /\ pc \in Int /\ k \in Int
      /\ b[1] \in Starts(cs) /\ b[2] \in DOMAIN CmdOf(cs, b[1]) /\ b[1] \in Int /\ b[2] \in Int
      /\ i \in Int
  <2>1. InOrder(cs) /\ IsSequence(Scripts[cs]) /\ pc \in Int /\ k \in Int
    BY OrderedCase
  <2>2. i \in Int
    BY <2>1 DEF InOrder, IsSequence
  <2>3. QED
    BY <2>1, <2>2, OperationFacts
<1>2. CASE b[1] = k
  <2>1. b[2] < i
    BY <1>2 DEF Before
  <2>2. Latest(k) => Count(k) \in Int
    BY CountFacts
  <2>3. QED
    BY <1>1, <1>2, <2>1, <2>2 DEF Performed
<1>3. CASE b[1] # k
  <2>1. AwaitedBy(cs, b[1], k)
    BY <1>3 DEF Before
  <2>2. b[1] < pc
    <3>1. \A w \in DOMAIN Scripts[cs] : w \in Int
      BY <1>1 DEF IsSequence
    <3>2. QED
      BY <1>1, <2>1, <3>1 DEF AwaitedBy
  <2>3. AwaitedBy(cs, b[1], pc)
    BY <1>1, <2>1, AwaitedMonotonic
  <2>4. ASSUME Latest(b[1]) PROVE b[2] <= Count(b[1])
    <3>1. Count(b[1]) = Len(CmdOf(cs, b[1])) /\ DOMAIN CmdOf(cs, b[1]) = 1..Len(CmdOf(cs, b[1]))
      BY <1>1, <2>3, <2>4, CountFacts
    <3>2. QED
      BY <1>1, <3>1
  <2>5. QED
    BY <2>2, <2>4 DEF Performed
<1>4. QED
  BY <1>2, <1>3

\* The next operation of a job comes after all that it could race with, and
\* nothing done comes after it.
LEMMA NextOperation ==
  ASSUME Ordered, RaceFree(cs), BatchInv, Failed = {}, NEW k \in Starts(cs), Latest(k),
         Count(k) + 1 \in DOMAIN CmdOf(cs, k), NEW a, a = <<k, Count(k) + 1>>
  PROVE  /\ a \in Operations(cs) /\ a \notin Performed
         /\ Earlier(cs, a) \subseteq Performed
         /\ \A b \in Performed :
              (OpOf(cs, a).op # "open" \/ OpOf(cs, b).op # "open")
              /\ OpOf(cs, a).fls \intersect OpOf(cs, b).fls # {} => Before(cs, b, a)
<1>1. InOrder(cs) /\ k < pc
  BY OrderedCase DEF Latest
<1>2. a \in Operations(cs) /\ a[1] = k /\ a[2] = Count(k) + 1
  BY <1>1, OperationFacts
<1>3. Count(k) \in Int
  BY CountFacts
<1>4. a \notin Performed
  BY <1>2, <1>3 DEF Performed
<1>5. Earlier(cs, a) \subseteq Performed
  BY <1>1, <1>3, DoneBefore DEF Earlier
<1>6. ASSUME NEW b \in Performed, Before(cs, a, b) PROVE FALSE
  <2>1. /\ b[1] \in Starts(cs) /\ b[2] \in DOMAIN CmdOf(cs, b[1]) /\ b = <<b[1], b[2]>>
        /\ b[1] < pc /\ b[1] \in Int /\ b[2] \in Int /\ (Latest(b[1]) => b[2] <= Count(b[1]))
    BY <1>1, OperationFacts DEF Performed
  <2>2. Latest(b[1]) => Count(b[1]) \in Int
    BY <2>1, CountFacts
  <2>3. Latest(b[1]) => b[2] <= Count(b[1]) + 1
    BY <2>1, <2>2
  <2>4. a \in Performed
    BY <1>2, <1>6, <2>1, <2>3, DoneBefore
  <2>5. QED
    BY <1>4, <2>4
<1>7. ASSUME NEW b \in Performed, OpOf(cs, a).op # "open" \/ OpOf(cs, b).op # "open",
             OpOf(cs, a).fls \intersect OpOf(cs, b).fls # {}
      PROVE  Before(cs, b, a)
  <2>1. b \in Operations(cs) /\ b # a
    BY <1>4 DEF Performed
  <2>2. OpOf(cs, b).fls \intersect OpOf(cs, a).fls # {}
    BY <1>7
  <2>3. Before(cs, a, b) \/ Before(cs, b, a)
    BY <1>2, <1>7, <2>1, <2>2 DEF RaceFree
  <2>4. QED
    BY <1>6, <2>3
<1>8. QED
  BY <1>2, <1>4, <1>5, <1>7

-----------------------------------------------------------------------------
(* What is in a file after one more operation.                             *)

LEMMA SeenElsewhere ==
  ASSUME NEW c, NEW plan, NEW f, NEW S, NEW a, a \notin Writes(c, f)
  PROVE  Seen(c, plan, f, S \union {a}) = Seen(c, plan, f, S)
<1>1. Writes(c, f) \intersect (S \union {a}) = Writes(c, f) \intersect S
  OBVIOUS
<1>2. QED
  BY <1>1 DEF Seen

LEMMA SeenWritten ==
  ASSUME NEW c, NEW plan, NEW f, NEW S, InOrder(c), NEW a \in Writes(c, f),
         \A b \in Writes(c, f) \intersect S : Before(c, b, a)
  PROVE  Seen(c, plan, f, S \union {a}) = plan[a]
<1> DEFINE wrt == Writes(c, f) \intersect (S \union {a})
<1>1. a \in wrt /\ wrt \in SUBSET Operations(c)
  BY DEF Writes
<1>2. \A b \in wrt : b = a \/ Before(c, b, a)
  OBVIOUS
<1> HIDE DEF wrt
<1>3. LastOf(c, wrt) = a
  BY <1>1, <1>2, LastIs
<1>4. wrt # {}
  BY <1>1
<1>5. QED
  BY <1>3, <1>4 DEF Seen, wrt

\* An operation of the latest job of a name is done.
LEMMA OperationDone ==
  ASSUME Ordered, BatchInv, Failed = {}, NEW k \in Starts(cs), Latest(k),
         NEW j, j = JobOf(cs, k), j \in Running, NEW val, Done(j, val), UNCHANGED <<cs, pc>>,
         NEW a, a = <<k, Count(k) + 1>>
  PROVE  /\ Count(k) + 1 \in DOMAIN CmdOf(cs, k) /\ Op(j) = OpOf(cs, a)
         /\ Count(k)' = Count(k) + 1 /\ jobs'[j].val = val
         /\ \A h \in Starts(cs) : Latest(h) /\ h # k =>
              JobOf(cs, h) # j /\ Count(h)' = Count(h) /\ jobs'[JobOf(cs, h)] = jobs[JobOf(cs, h)]
         /\ Performed' = Performed \union {a}
<1>1. /\ InOrder(cs) /\ IsSequence(CmdOf(cs, k)) /\ pc \in Int
      /\ \A h \in Starts(cs) : h \in Int
  BY OrderedCase DEF InOrder
<1>2. /\ j \in DOMAIN jobs /\ jobs[j].end = "run" /\ DOMAIN jobs' = DOMAIN jobs
      /\ \A i \in DOMAIN jobs \ {j} : jobs'[i] = jobs[i]
      /\ jobs'[j] = [cmd |-> Tail(jobs[j].cmd), val |-> val,
                     end |-> IF Len(jobs[j].cmd) = 1 THEN "ok" ELSE "run"]
  BY DEF Done, Running
<1>3. /\ Starts(cs)' = Starts(cs)
      /\ \A h : JobOf(cs, h)' = JobOf(cs, h) /\ CmdOf(cs, h)' = CmdOf(cs, h)
      /\ \A h : Latest(h)' <=> Latest(h)
  BY DEF Starts, JobOf, CmdOf, Latest
<1>4. /\ Count(k) \in 0..Len(CmdOf(cs, k)) /\ Count(k) < Len(CmdOf(cs, k))
      /\ jobs[j].cmd = [i \in 1..(Len(CmdOf(cs, k)) - Count(k)) |-> CmdOf(cs, k)[Count(k) + i]]
      /\ Count(k) \in Nat /\ Len(CmdOf(cs, k)) \in Nat
  BY <1>2, CountFacts
<1>5. /\ Op(j) = CmdOf(cs, k)[Count(k) + 1] /\ Count(k) + 1 \in DOMAIN CmdOf(cs, k)
      /\ Tail(jobs[j].cmd) = [i \in 1..(Len(CmdOf(cs, k)) - (Count(k) + 1)) |->
                                CmdOf(cs, k)[Count(k) + 1 + i]]
  <2>1. SUFFICES ASSUME NEW n, n = Count(k), NEW rest, rest = jobs[j].cmd
                 PROVE  /\ Head(rest) = CmdOf(cs, k)[n + 1] /\ n + 1 \in DOMAIN CmdOf(cs, k)
                        /\ Tail(rest) = [i \in 1..(Len(CmdOf(cs, k)) - (n + 1)) |->
                                           CmdOf(cs, k)[n + 1 + i]]
    BY DEF Op
  <2>2. n \in 0..Len(CmdOf(cs, k)) /\ n < Len(CmdOf(cs, k))
        /\ rest = [i \in 1..(Len(CmdOf(cs, k)) - n) |-> CmdOf(cs, k)[n + i]]
    BY <1>4, <2>1
  <2>3. QED
    BY <1>1, <2>2, RestOfCommand
<1>6. Op(j) = OpOf(cs, a)
  BY <1>5 DEF OpOf
<1>7. Count(k)' = Count(k) + 1
  <2>1. Count(k) + 1 \in 0..Len(CmdOf(cs, k))
    BY <1>4
  <2>2. Len(jobs'[j].cmd) = Len(CmdOf(cs, k)) - (Count(k) + 1)
    <3>1. SUFFICES ASSUME NEW n, n = Count(k) + 1, NEW rest, rest = jobs'[j].cmd
                   PROVE  Len(rest) = Len(CmdOf(cs, k)) - n
      OBVIOUS
    <3>2. n \in 0..Len(CmdOf(cs, k))
          /\ rest = [i \in 1..(Len(CmdOf(cs, k)) - n) |-> CmdOf(cs, k)[n + i]]
      BY <1>2, <1>5, <2>1, <3>1
    <3>3. QED
      BY <1>1, <3>2, LengthOfRest
  <2>3. Count(k)' = Len(CmdOf(cs, k)) - Len(jobs'[j].cmd)
    BY <1>3 DEF Count
  <2>4. QED
    BY <1>1, <2>1, <2>2, <2>3, LengthOfRest
<1>8. ASSUME NEW h \in Starts(cs), Latest(h), h # k
      PROVE  JobOf(cs, h) # j /\ Count(h)' = Count(h) /\ jobs'[JobOf(cs, h)] = jobs[JobOf(cs, h)]
  <2>1. JobOf(cs, h) # j
    BY <1>1, <1>8 DEF Latest
  <2>2. JobOf(cs, h) \in DOMAIN jobs
    BY <1>8 DEF BatchInv, JobsInv
  <2>3. jobs'[JobOf(cs, h)] = jobs[JobOf(cs, h)]
    BY <1>2, <2>1, <2>2
  <2>4. QED
    BY <1>3, <2>1, <2>3 DEF Count
<1>9. Performed' = Performed \union {a}
  <2>1. a \in Operations(cs) /\ a[1] = k /\ a[2] = Count(k) + 1 /\ k < pc
    BY <1>1, <1>5, OperationFacts DEF Latest
  <2>2. Operations(cs)' = Operations(cs)
    OBVIOUS
  <2>3. ASSUME NEW b \in Operations(cs), b # a PROVE b \in Performed' <=> b \in Performed
    <3>1. /\ b[1] \in Starts(cs) /\ b[2] \in Int /\ b = <<b[1], b[2]>>
      BY <1>1, OperationFacts
    <3>2. CASE b[1] = k
      <4>1. b[2] # Count(k) + 1
        BY <2>3, <3>1, <3>2
      <4>2. b[2] <= Count(k)' <=> b[2] <= Count(k)
        BY <1>4, <1>7, <3>1, <4>1
      <4>3. QED
        BY <1>3, <2>2, <3>2, <4>2 DEF Performed
    <3>3. CASE b[1] # k
      <4>1. Latest(b[1]) => Count(b[1])' = Count(b[1])
        BY <1>8, <3>1, <3>3
      <4>2. QED
        BY <1>3, <2>2, <4>1 DEF Performed
    <3>4. QED
      BY <3>2, <3>3
  <2>4. a \in Performed'
    <3>1. a[2] <= Count(k)'
      BY <1>4, <1>7, <2>1
    <3>2. QED
      BY <1>3, <2>1, <2>2, <3>1 DEF Performed
  <2>5. Performed \subseteq Operations(cs) /\ Performed' \subseteq Operations(cs)
    BY <2>2 DEF Performed
  <2>6. QED
    BY <2>3, <2>4, <2>5
<1>10. QED
  BY <1>2, <1>5, <1>6, <1>7, <1>8, <1>9

-----------------------------------------------------------------------------
(* The contents, step by step.                                             *)

LEMMA ContentInit ==
  ASSUME Ordered, Init, NEW plan PROVE ContentInv(plan)
<1>1. cs \in Cases /\ pc = 1 /\ jobs = <<>> /\ fl = FirstFls(cs)
  BY DEF Init
<1>2. IsSequence(Scripts[cs])
  BY <1>1 DEF Ordered, InOrder
<1>3. \A k \in Starts(cs) : ~(k < pc)
  BY <1>1, <1>2 DEF IsSequence, Starts
<1>4. Performed = {}
  <2>1. \A a \in Operations(cs) : a[1] \in Starts(cs)
    BY DEF Operations
  <2>2. QED
    BY <1>3, <2>1 DEF Performed
<1>5. \A f : Held(f) = Seen(cs, plan, f, Performed)
  BY <1>1, <1>4 DEF Held, Seen
<1>6. QED
  BY <1>3, <1>5 DEF ContentInv, Latest

\* The position of the script only matters for what it has started.
LEMMA ContentAcross ==
  ASSUME Ordered, BatchInv, NEW plan, ContentInv(plan), UNCHANGED <<cs, jobs, fl>>,
         \A k \in Starts(cs) : (k < pc' <=> k < pc) /\ (Latest(k)' <=> Latest(k))
  PROVE  ContentInv(plan)'
<1>1. /\ Starts(cs)' = Starts(cs) /\ Failed' = Failed /\ Operations(cs)' = Operations(cs)
      /\ \A h : JobOf(cs, h)' = JobOf(cs, h) /\ CmdOf(cs, h)' = CmdOf(cs, h)
      /\ \A h : Count(h)' = Count(h)
      /\ \A f : Held(f)' = Held(f)
  BY DEF Starts, JobOf, CmdOf, Count, Failed, Held
<1>2. Performed' = Performed
  <2>1. \A a \in Operations(cs) : a[1] \in Starts(cs)
    BY DEF Operations
  <2>2. QED
    BY <1>1, <2>1 DEF Performed
<1>3. \A f : Seen(cs, plan, f, Performed)' = Seen(cs, plan, f, Performed)
  BY <1>2
<1>4. QED
  BY <1>1, <1>3 DEF ContentInv

\* A job that has failed has not been waited for, and so its name is not used
\* again.
LEMMA StartKeepsFailed ==
  ASSUME Ordered, BatchInv, StartJob, Failed' = {}
  PROVE  /\ Failed = {}
         /\ \A k \in Starts(cs) : Latest(k) /\ JobOf(cs, k) = JobOf(cs, pc) => AwaitedBy(cs, k, pc)
<1>1. /\ InOrder(cs) /\ pc \in Int /\ DOMAIN Scripts[cs] = 1..Len(Scripts[cs])
      /\ Len(Scripts[cs]) \in Nat
  BY OrderedCase
<1>2. pc \in Starts(cs)
  BY <1>1 DEF StartJob, Ready, BatchInv, Starts
<1>3. \A k \in Starts(cs) : Latest(k) /\ JobOf(cs, k) = JobOf(cs, pc) => AwaitedBy(cs, k, pc)
  BY <1>1, <1>2 DEF InOrder, Latest
<1>4. ASSUME NEW j \in Failed PROVE FALSE
  <2>1. j \in DOMAIN jobs /\ jobs[j].end = "fail"
    BY <1>4 DEF Failed
  <2>2. PICK k \in Starts(cs) : Latest(k) /\ JobOf(cs, k) = j
    BY <2>1 DEF BatchInv, JobsInv
  <2>3. j # JobOf(cs, pc)
    BY <1>3, <2>1, <2>2 DEF BatchInv, JobsInv
  <2>4. j \in Failed'
    BY <2>1, <2>3 DEF StartJob, Instr, JobOf, Failed
  <2>5. QED
    BY <2>4
<1>5. QED
  BY <1>3, <1>4

LEMMA PutFollows ==
  ASSUME NEW c, NEW plan, Follows(c, plan), NEW k \in Starts(c), NEW i \in DOMAIN CmdOf(c, k),
         CmdOf(c, k)[i].op = "put"
  PROVE  /\ i > 1 /\ CmdOf(c, k)[i - 1].op = "open"
         /\ plan[<<k, i>>] = {CmdOf(c, k)[i - 1].own \union
              UNION UNION {Seen(c, plan, f, Earlier(c, <<k, i - 1>>)) : f \in CmdOf(c, k)[i - 1].fls}}
BY Zenon DEF Follows

LEMMA ContentStart ==
  ASSUME Ordered, BatchInv, NEW plan, Follows(cs, plan), ContentInv(plan), StartJob
  PROVE  ContentInv(plan)'
<1> SUFFICES ASSUME Failed' = {},
                    NEW job, NEW cmd, NEW p, job = JobOf(cs, pc), cmd = CmdOf(cs, pc), p = pc
             PROVE  /\ \A f : Held(f)' = Seen(cs, plan, f, Performed)'
                    /\ \A k \in Starts(cs)' :
                         (/\ Latest(k)' /\ Count(k)' + 1 \in DOMAIN CmdOf(cs, k)'
                          /\ CmdOf(cs, k)'[Count(k)' + 1].op = "put") =>
                            plan[<<k, Count(k)' + 1>>] = {jobs'[JobOf(cs, k)'].val}
  BY DEF ContentInv
<1>1. /\ Failed = {}
      /\ \A k \in Starts(cs) : Latest(k) /\ JobOf(cs, k) = job => AwaitedBy(cs, k, pc)
  BY StartKeepsFailed
<1>2. /\ InOrder(cs) /\ pc \in Int /\ DOMAIN Scripts[cs] = 1..Len(Scripts[cs])
      /\ Len(Scripts[cs]) \in Nat /\ \A k \in Starts(cs) : k \in Int
  BY OrderedCase
<1>3. /\ jobs' = [j \in DOMAIN jobs \union {job} |-> IF j = job THEN Job0(cmd) ELSE jobs[j]]
      /\ pc' = p + 1 /\ UNCHANGED <<cs, fl>> /\ Ready("start")
  BY DEF StartJob, Instr, JobOf, CmdOf
<1>4. p \in Starts(cs)
  BY <1>2, <1>3 DEF Ready, BatchInv, Starts
<1>5. /\ Starts(cs)' = Starts(cs) /\ Operations(cs)' = Operations(cs)
      /\ \A h : JobOf(cs, h)' = JobOf(cs, h) /\ CmdOf(cs, h)' = CmdOf(cs, h)
      /\ \A f : Held(f)' = Held(f)
  BY <1>3 DEF Starts, JobOf, CmdOf, Held
<1>6. \A k \in Starts(cs) : k # p => (Latest(k)' <=> Latest(k) /\ JobOf(cs, k) # job)
  BY <1>2, <1>3, <1>4, <1>5 DEF Latest
<1>7. \A k \in Starts(cs) : Latest(k) /\ JobOf(cs, k) # job =>
        Count(k)' = Count(k) /\ jobs'[JobOf(cs, k)] = jobs[JobOf(cs, k)]
  <2>1. ASSUME NEW k \in Starts(cs), Latest(k), JobOf(cs, k) # job
        PROVE  jobs'[JobOf(cs, k)] = jobs[JobOf(cs, k)]
    <3>1. JobOf(cs, k) \in DOMAIN jobs
      BY <2>1 DEF BatchInv, JobsInv
    <3>2. QED
      BY <1>3, <2>1, <3>1
  <2>2. QED
    BY <1>5, <2>1 DEF Count
<1>8. Latest(p)' /\ Count(p)' = 0
  <2>1. Latest(p)'
    BY <1>2, <1>3, <1>4, <1>5 DEF Latest
  <2>2. jobs'[job].cmd = cmd
    BY <1>3 DEF Job0
  <2>3. IsSequence(cmd)
    BY <1>2, <1>4 DEF InOrder
  <2>4. Len(cmd) - Len(cmd) = 0
    BY <2>3 DEF IsSequence
  <2>5. QED
    BY <1>5, <2>1, <2>2, <2>4 DEF Count
<1>9. Performed' = Performed
  <2>1. ASSUME NEW a \in Operations(cs) PROVE a \in Performed' <=> a \in Performed
    <3>1. a[1] \in Starts(cs) /\ a[2] \in DOMAIN CmdOf(cs, a[1]) /\ a[1] \in Int /\ a[2] \in Int
      BY <1>2, OperationFacts
    <3>2. CASE a[1] = p
      <4>1. a[2] > 0
        <5>1. IsSequence(CmdOf(cs, a[1]))
          BY <1>2, <3>1 DEF InOrder
        <5>2. QED
          BY <3>1, <5>1 DEF IsSequence
      <4>2. a \notin Performed'
        BY <1>5, <1>8, <3>1, <3>2, <4>1 DEF Performed
      <4>3. a \notin Performed
        BY <1>2, <3>2 DEF Performed
      <4>4. QED
        BY <4>2, <4>3
    <3>3. CASE a[1] # p /\ ~(Latest(a[1]) /\ JobOf(cs, a[1]) = job)
      <4>1. /\ Latest(a[1])' <=> Latest(a[1])
            /\ Latest(a[1]) => Count(a[1])' = Count(a[1])
            /\ a[1] < pc' <=> a[1] < pc
        <5>1. a[1] < pc' <=> a[1] < pc
          BY <1>2, <1>3, <3>1, <3>3
        <5>2. QED
          BY <1>6, <1>7, <3>1, <3>3, <5>1
      <4>2. QED
        BY <1>5, <4>1 DEF Performed
    <3>4. CASE a[1] # p /\ Latest(a[1]) /\ JobOf(cs, a[1]) = job
      <4>1. ~Latest(a[1])' /\ (a[1] < pc' <=> a[1] < pc)
        BY <1>2, <1>3, <1>6, <3>1, <3>4
      <4>2. AwaitedBy(cs, a[1], pc)
        BY <1>1, <3>1, <3>4
      <4>3. Count(a[1]) = Len(CmdOf(cs, a[1])) /\ DOMAIN CmdOf(cs, a[1]) = 1..Len(CmdOf(cs, a[1]))
        BY <1>1, <3>1, <3>4, <4>2, CountFacts
      <4>4. a[2] <= Count(a[1])
        BY <3>1, <4>3
      <4>5. QED
        BY <1>5, <4>1, <4>4 DEF Performed
    <3>5. QED
      BY <3>2, <3>3, <3>4
  <2>2. QED
    BY <1>5, <2>1 DEF Performed
<1>10. \A f : Held(f)' = Seen(cs, plan, f, Performed)'
  BY <1>1, <1>3, <1>5, <1>9 DEF ContentInv
<1>11. ASSUME NEW k \in Starts(cs), Latest(k)', Count(k)' + 1 \in DOMAIN CmdOf(cs, k),
              CmdOf(cs, k)[Count(k)' + 1].op = "put"
       PROVE  plan[<<k, Count(k)' + 1>>] = {jobs'[JobOf(cs, k)].val}
  <2>1. CASE k = p
    <3>1. Count(k)' + 1 = 1
      BY <1>8, <2>1
    <3>2. 1 \in DOMAIN CmdOf(cs, k) /\ CmdOf(cs, k)[1].op = "put"
      BY <1>11, <3>1
    <3>3. 1 > 1
      BY <3>2, PutFollows
    <3>4. QED
      BY <3>3
  <2>2. CASE k # p
    BY <1>1, <1>6, <1>7, <1>11, <2>2 DEF ContentInv
  <2>3. QED
    BY <2>1, <2>2
<1>12. QED
  BY <1>5, <1>10, <1>11

LEMMA SeenAfter ==
  ASSUME Ordered, RaceFree(cs), BatchInv, Failed = {}, NEW k \in Starts(cs), Latest(k),
         Count(k) + 1 \in DOMAIN CmdOf(cs, k), NEW a, a = <<k, Count(k) + 1>>,
         NEW plan, NEW f, a \in Writes(cs, f)
  PROVE  Seen(cs, plan, f, Performed \union {a}) = plan[a]
<1>1. ASSUME NEW b \in Writes(cs, f) \intersect Performed PROVE Before(cs, b, a)
  <2>1. /\ OpOf(cs, a).op # "open"
        /\ OpOf(cs, a).fls \intersect OpOf(cs, b).fls # {}
    BY <1>1 DEF Writes
  <2>2. QED
    BY <1>1, <2>1, NextOperation
<1>2. InOrder(cs)
  BY OrderedCase
<1>3. \A c, S : InOrder(c) /\ a \in Writes(c, f)
                /\ (\A b \in Writes(c, f) \intersect S : Before(c, b, a)) =>
        Seen(c, plan, f, S \union {a}) = plan[a]
  BY SeenWritten
<1>4. QED
  BY <1>1, <1>2, <1>3, Zenon

LEMMA PutAfterOpen ==
  ASSUME NEW c, NEW plan, Follows(c, plan), NEW k \in Starts(c), NEW i \in DOMAIN CmdOf(c, k),
         CmdOf(c, k)[i].op = "put"
  PROVE  \A o, a, val :
           /\ o = CmdOf(c, k)[i - 1] /\ a = <<k, i - 1>>
           /\ o.op = "open" =>
                val = o.own \union UNION UNION {Seen(c, plan, f, Earlier(c, a)) : f \in o.fls}
           => o.op = "open" /\ plan[<<k, i>>] = {val}
<1> DEFINE read(b, p) == {Seen(c, plan, f, Earlier(c, b)) : f \in p.fls}
<1>1. /\ CmdOf(c, k)[i - 1].op = "open"
      /\ plan[<<k, i>>] =
           {CmdOf(c, k)[i - 1].own \union UNION UNION read(<<k, i - 1>>, CmdOf(c, k)[i - 1])}
  BY Zenon DEF Follows
<1> HIDE DEF read
<1>2. \A o, a, val :
        /\ o = CmdOf(c, k)[i - 1] /\ a = <<k, i - 1>>
        /\ o.op = "open" => val = o.own \union UNION UNION read(a, o)
        => o.op = "open" /\ plan[<<k, i>>] = {val}
  BY <1>1
<1>3. QED
  BY <1>2 DEF read

\* An operation done keeps the contents, if the files hold what it writes and
\* if, having read, the job has what the plan has it read.
LEMMA ContentDone ==
  ASSUME Ordered, RaceFree(cs), BatchInv, NEW plan, Follows(cs, plan), ContentInv(plan),
         Failed = {}, NEW k \in Starts(cs), Latest(k), NEW j, j = JobOf(cs, k), j \in Running,
         NEW val, Done(j, val), UNCHANGED <<cs, pc>>, NEW a, a = <<k, Count(k) + 1>>,
         \A f : a \notin Writes(cs, f) => Held(f)' = Held(f),
         \A f : a \in Writes(cs, f) => Held(f)' = plan[a],
         Op(j).op = "open" =>
           val = Op(j).own \union
                 UNION UNION {Seen(cs, plan, f, Earlier(cs, a)) : f \in Op(j).fls}
  PROVE  ContentInv(plan)'
<1>1. /\ Count(k) + 1 \in DOMAIN CmdOf(cs, k) /\ Op(j) = OpOf(cs, a)
      /\ Count(k)' = Count(k) + 1 /\ jobs'[j].val = val
      /\ \A h \in Starts(cs) : Latest(h) /\ h # k =>
           JobOf(cs, h) # j /\ Count(h)' = Count(h) /\ jobs'[JobOf(cs, h)] = jobs[JobOf(cs, h)]
      /\ Performed' = Performed \union {a}
  BY OperationDone
<1>2. /\ Starts(cs)' = Starts(cs)
      /\ \A h : JobOf(cs, h)' = JobOf(cs, h) /\ CmdOf(cs, h)' = CmdOf(cs, h)
      /\ \A h : Latest(h)' <=> Latest(h)
      /\ \A f : Seen(cs, plan, f, Performed)' = Seen(cs, plan, f, Performed')
  BY DEF Starts, JobOf, CmdOf, Latest
<1>3. ASSUME NEW f PROVE Held(f)' = Seen(cs, plan, f, Performed')
  <2>1. CASE a \notin Writes(cs, f)
    BY <1>1, <2>1, SeenElsewhere DEF ContentInv
  <2>2. CASE a \in Writes(cs, f)
    <3>1. Seen(cs, plan, f, Performed \union {a}) = plan[a]
      BY <1>1, <2>2, SeenAfter
    <3>2. QED
      BY <1>1, <2>2, <3>1
  <2>3. QED
    BY <2>1, <2>2
<1>4. ASSUME NEW h \in Starts(cs), Latest(h), Count(h)' + 1 \in DOMAIN CmdOf(cs, h),
             CmdOf(cs, h)[Count(h)' + 1].op = "put"
      PROVE  plan[<<h, Count(h)' + 1>>] = {jobs'[JobOf(cs, h)].val}
  <2>1. CASE h # k
    BY <1>1, <1>4, <2>1 DEF ContentInv
  <2>2. CASE h = k
    <3>1. Count(k) \in Int
      BY CountFacts
    <3>2. plan[<<k, Count(k)' + 1>>] = {val}
      <4>1. PICK i : i = Count(k)' + 1
        OBVIOUS
      <4>2. i \in DOMAIN CmdOf(cs, k) /\ CmdOf(cs, k)[i].op = "put"
        BY <1>4, <2>2, <4>1
      <4>3. i - 1 = Count(k) + 1
        BY <1>1, <3>1, <4>1
      <4>4. <<k, i - 1>> = a /\ CmdOf(cs, k)[i - 1] = Op(j)
        BY <1>1, <4>3 DEF OpOf
      <4>5. Op(j).op = "open" /\ plan[<<k, i>>] = {val}
        BY <4>2, <4>4, PutAfterOpen
      <4>6. QED
        BY <4>1, <4>5
    <3>3. QED
      BY <1>1, <2>2, <3>2
  <2>3. QED
    BY <2>1, <2>2
<1>5. QED
  BY <1>2, <1>3, <1>4 DEF ContentInv

\* What an operation reads is what the plan has it read.
LEMMA ReadsAsPlanned ==
  ASSUME Ordered, RaceFree(cs), BatchInv, NEW plan, ContentInv(plan), Failed = {},
         NEW k \in Starts(cs), Latest(k), Count(k) + 1 \in DOMAIN CmdOf(cs, k),
         NEW a, a = <<k, Count(k) + 1>>, OpOf(cs, a).op = "open",
         NEW f \in OpOf(cs, a).fls
  PROVE  Held(f) = Seen(cs, plan, f, Earlier(cs, a))
<1>1. /\ a \in Operations(cs) /\ Earlier(cs, a) \subseteq Performed
      /\ \A b \in Performed :
           (OpOf(cs, a).op # "open" \/ OpOf(cs, b).op # "open")
           /\ OpOf(cs, a).fls \intersect OpOf(cs, b).fls # {} => Before(cs, b, a)
  BY NextOperation
<1>2. ASSUME NEW b \in Writes(cs, f), b \in Performed PROVE b \in Earlier(cs, a)
  <2>1. b \in Operations(cs) /\ OpOf(cs, b).op # "open" /\ f \in OpOf(cs, b).fls
    BY DEF Writes
  <2>2. Before(cs, b, a)
    BY <1>1, <1>2, <2>1
  <2>3. QED
    BY <2>1, <2>2 DEF Earlier
<1>3. Writes(cs, f) \intersect Earlier(cs, a) = Writes(cs, f) \intersect Performed
  BY <1>1, <1>2
<1>4. Seen(cs, plan, f, Earlier(cs, a)) = Seen(cs, plan, f, Performed)
  BY <1>3 DEF Seen
<1>5. QED
  BY <1>4 DEF ContentInv

LEMMA ContentStep ==
  ASSUME Ordered, RaceFree(cs), BatchInv, NEW plan, Follows(cs, plan), ContentInv(plan),
         NEW j \in DOMAIN jobs, OpenFls(j) \/ PutFl(j) \/ RmFls(j)
  PROVE  ContentInv(plan)'
<1> SUFFICES ASSUME Failed' = {} PROVE ContentInv(plan)'
  BY DEF ContentInv
<1>1. j \in Running /\ UNCHANGED <<cs, pc>>
  BY DEF OpenFls, PutFl, RmFls
<1>2. Failed = {}
  <2>1. DOMAIN jobs' = DOMAIN jobs /\ \A i \in DOMAIN jobs \ {j} : jobs'[i] = jobs[i]
    BY DEF OpenFls, PutFl, RmFls, Done
  <2>2. j \notin Failed
    BY <1>1 DEF Running, Failed
  <2>3. QED
    BY <2>1, <2>2 DEF Failed
<1>3. PICK k \in Starts(cs) : Latest(k) /\ JobOf(cs, k) = j
  BY DEF BatchInv, JobsInv
<1>4. PICK a : a = <<k, Count(k) + 1>>
  OBVIOUS
<1>5. ASSUME NEW val, Done(j, val)
      PROVE  /\ Op(j) = OpOf(cs, a) /\ Count(k) + 1 \in DOMAIN CmdOf(cs, k)
             /\ a \in Operations(cs)
  <2>1. Op(j) = OpOf(cs, a) /\ Count(k) + 1 \in DOMAIN CmdOf(cs, k)
    BY <1>1, <1>2, <1>3, <1>4, <1>5, OperationDone
  <2>2. QED
    BY <1>2, <1>3, <1>4, <2>1, NextOperation
<1>6. CASE OpenFls(j)
  <2>1. PICK val : /\ val = Op(j).own \union UNION {fl[f] : f \in Op(j).fls \intersect DOMAIN fl}
                   /\ Done(j, val) /\ Op(j).op = "open" /\ UNCHANGED fl
    BY <1>6 DEF OpenFls
  <2>2. Op(j) = OpOf(cs, a) /\ Count(k) + 1 \in DOMAIN CmdOf(cs, k)
    BY <1>5, <2>1
  <2>3. \A f : a \notin Writes(cs, f) /\ Held(f)' = Held(f)
    BY <2>1, <2>2 DEF Writes, Held
  <2>4. \A f \in Op(j).fls : Held(f) = Seen(cs, plan, f, Earlier(cs, a))
    BY <1>2, <1>3, <1>4, <2>1, <2>2, ReadsAsPlanned
  <2>5. UNION {fl[f] : f \in Op(j).fls \intersect DOMAIN fl}
          = UNION UNION {Held(f) : f \in Op(j).fls}
    BY DEF Held
  <2>6. {Held(f) : f \in Op(j).fls} = {Seen(cs, plan, f, Earlier(cs, a)) : f \in Op(j).fls}
    BY <2>4
  <2>7. val = Op(j).own \union UNION UNION {Seen(cs, plan, f, Earlier(cs, a)) : f \in Op(j).fls}
    BY <2>1, <2>5, <2>6
  <2>8. QED
    BY <1>1, <1>2, <1>3, <1>4, <2>1, <2>3, <2>7, ContentDone
<1>7. CASE PutFl(j)
  <2>1. /\ Op(j).op = "put" /\ Done(j, {})
        /\ fl' = [f \in DOMAIN fl \union Op(j).fls |-> IF f \in Op(j).fls THEN jobs[j].val ELSE fl[f]]
    BY <1>7 DEF PutFl
  <2>2. Op(j) = OpOf(cs, a) /\ Count(k) + 1 \in DOMAIN CmdOf(cs, k) /\ a \in Operations(cs)
    BY <1>5, <2>1
  <2>3. plan[a] = {jobs[j].val}
    BY <1>2, <1>3, <1>4, <2>1, <2>2 DEF ContentInv, OpOf
  <2>4. ASSUME NEW f, a \notin Writes(cs, f) PROVE Held(f)' = Held(f)
    <3>1. f \notin Op(j).fls
      BY <2>1, <2>2, <2>4 DEF Writes
    <3>2. QED
      BY <2>1, <3>1 DEF Held
  <2>5. ASSUME NEW f, a \in Writes(cs, f) PROVE Held(f)' = plan[a]
    <3>1. f \in Op(j).fls
      BY <2>2, <2>5 DEF Writes
    <3>2. f \in DOMAIN fl' /\ fl'[f] = jobs[j].val
      BY <2>1, <3>1
    <3>3. QED
      BY <2>3, <3>2 DEF Held
  <2>6. QED
    BY <1>1, <1>2, <1>3, <1>4, <2>1, <2>4, <2>5, ContentDone
<1>8. CASE RmFls(j)
  <2>1. /\ Op(j).op = "rm" /\ Done(j, {})
        /\ fl' = [f \in DOMAIN fl \ Op(j).fls |-> fl[f]]
    BY <1>8 DEF RmFls
  <2>2. Op(j) = OpOf(cs, a) /\ Count(k) + 1 \in DOMAIN CmdOf(cs, k) /\ a \in Operations(cs)
    BY <1>5, <2>1
  <2>3. plan[a] = {}
    BY <1>4, <2>1, <2>2 DEF Follows, OpOf
  <2>4. ASSUME NEW f, a \notin Writes(cs, f) PROVE Held(f)' = Held(f)
    <3>1. f \notin Op(j).fls
      BY <2>1, <2>2, <2>4 DEF Writes
    <3>2. QED
      BY <2>1, <3>1 DEF Held
  <2>5. ASSUME NEW f, a \in Writes(cs, f) PROVE Held(f)' = plan[a]
    <3>1. f \in Op(j).fls
      BY <2>2, <2>5 DEF Writes
    <3>2. QED
      BY <2>1, <2>3, <3>1 DEF Held
  <2>6. QED
    BY <1>1, <1>2, <1>3, <1>4, <2>1, <2>4, <2>5, ContentDone
<1>9. QED
  BY <1>6, <1>7, <1>8

-----------------------------------------------------------------------------
(* The theorem about the contents.                                         *)

LEMMA ScriptStepContent ==
  ASSUME Ordered, BatchInv, NEW plan, ContentInv(plan),
         WaitJob \/ WaitJobs \/ ExitFailure \/ EndScript
  PROVE  ContentInv(plan)'
<1>1. UNCHANGED <<cs, jobs, fl>>
  BY DEF WaitJob, WaitJobs, ExitFailure, EndScript
<1>2. pc' = pc \/ (pc' = pc + 1 /\ pc \notin Starts(cs))
  BY DEF WaitJob, WaitJobs, ExitFailure, EndScript, Ready, Starts
<1>3. \A k \in Starts(cs) : (k < pc' <=> k < pc) /\ (Latest(k)' <=> Latest(k))
  <2>1. pc \in Int /\ \A k \in Starts(cs) : k \in Int
    BY OrderedCase
  <2>2. CASE pc' = pc
    <3>1. Starts(cs)' = Starts(cs) /\ \A h : JobOf(cs, h)' = JobOf(cs, h)
      BY <1>1 DEF Starts, JobOf
    <3>2. QED
      BY <2>2, <3>1 DEF Latest
  <2>3. CASE pc' = pc + 1 /\ pc \notin Starts(cs)
    BY <1>1, <2>1, <2>3, LatestAcross
  <2>4. QED
    BY <1>2, <2>2, <2>3
<1>4. QED
  BY <1>1, <1>3, ContentAcross

LEMMA ContentNext ==
  ASSUME NEW plan, Serializable(plan), BatchInv, ContentInv(plan[cs]), [Next]_vars
  PROVE  ContentInv(plan[cs])'
<1> SUFFICES ASSUME NEW p, p = plan[cs] PROVE ContentInv(p)' /\ cs' = cs
  OBVIOUS
<1>1. Ordered /\ RaceFree(cs) /\ Follows(cs, p) /\ ContentInv(p)
  BY DEF Ordered, Serializable, RightPlan, BatchInv
<1>2. cs' = cs
  BY DEF Next, ScriptStep, JobStep, StartJob, WaitJob, WaitJobs, ExitFailure, EndScript,
         OpenFls, PutFl, RmFls, Fail, vars
<1>3. CASE StartJob
  BY <1>1, <1>2, <1>3, ContentStart
<1>4. CASE WaitJob \/ WaitJobs \/ ExitFailure \/ EndScript
  BY <1>1, <1>2, <1>4, ScriptStepContent
<1>5. ASSUME NEW j \in DOMAIN jobs, JobStep(j) PROVE ContentInv(p)'
  <2>1. CASE OpenFls(j) \/ PutFl(j) \/ RmFls(j)
    BY <1>1, <2>1, ContentStep
  <2>2. CASE Fail(j)
    <3>1. j \in Failed'
      BY <2>2 DEF Fail, Failed
    <3>2. QED
      BY <3>1 DEF ContentInv
  <2>3. QED
    BY <1>5, <2>1, <2>2 DEF JobStep
<1>6. CASE UNCHANGED vars
  <2>1. UNCHANGED <<cs, jobs, fl, pc>>
    BY <1>6 DEF vars
  <2>2. \A k \in Starts(cs) : (k < pc' <=> k < pc) /\ (Latest(k)' <=> Latest(k))
    BY <2>1 DEF Latest, Starts, JobOf
  <2>3. QED
    BY <1>1, <1>2, <2>1, <2>2, ContentAcross
<1>7. QED
  BY <1>2, <1>3, <1>4, <1>5, <1>6 DEF Next, ScriptStep

\* When nothing has failed and the script has waited for all its jobs, all
\* operations are done.
LEMMA AllDone ==
  ASSUME NEW plan, Serializable(plan), BatchInv, status = "success"
  PROVE  Failed = {} /\ Performed = Operations(cs)
<1>1. Ordered /\ AwaitsAll(cs)
  BY DEF Ordered, Serializable, BatchInv
<1>2. /\ InOrder(cs) /\ IsSequence(Scripts[cs]) /\ pc \in Int /\ Len(Scripts[cs]) \in Nat
      /\ DOMAIN Scripts[cs] = 1..Len(Scripts[cs])
      /\ \A k \in Starts(cs) : k \in Int /\ k \in DOMAIN Scripts[cs]
  BY <1>1, OrderedCase
<1>3. Len(Scripts[cs]) + 1 <= pc
  BY <1>2 DEF BatchInv
<1>4. ASSUME NEW k \in Starts(cs) PROVE k < pc /\ AwaitedBy(cs, k, pc)
  <2>1. AwaitedBy(cs, k, Len(Scripts[cs]) + 1)
    BY <1>1 DEF AwaitsAll
  <2>2. AwaitedBy(cs, k, pc)
    BY <1>2, <1>3, <2>1, AwaitedMonotonic
  <2>3. QED
    BY <1>2, <1>3, <2>2
<1>5. Failed = {}
  BY <1>4 DEF Failed, BatchInv, JobsInv
<1>6. ASSUME NEW a \in Operations(cs) PROVE a \in Performed
  <2>1. a[1] \in Starts(cs) /\ a[2] \in DOMAIN CmdOf(cs, a[1]) /\ a[2] \in Int
    BY <1>2, OperationFacts
  <2>2. ASSUME Latest(a[1]) PROVE a[2] <= Count(a[1])
    <3>1. Count(a[1]) = Len(CmdOf(cs, a[1])) /\ DOMAIN CmdOf(cs, a[1]) = 1..Len(CmdOf(cs, a[1]))
      BY <1>1, <1>4, <1>5, <2>1, <2>2, CountFacts
    <3>2. QED
      BY <2>1, <3>1
  <2>3. QED
    BY <1>4, <2>1, <2>2 DEF Performed
<1>7. QED
  BY <1>5, <1>6 DEF Performed

\* However the jobs overlap and whichever fail, a script that reports success
\* has made all products, each with what it would hold if the operations had
\* been done one after another.
THEOREM ProductsRight ==
  ASSUME NEW CONSTANT plan, Serializable(plan) PROVE Spec => []OutputsRight
<1> DEFINE Inv == BatchInv /\ ContentInv(plan[cs])
<1>1. Ordered
  BY DEF Ordered, Serializable
<1>2. Init => Inv
  BY <1>1, BatchInit, ContentInit
<1>3. BatchInv /\ [Next]_vars => BatchInv'
  BY <1>1, BatchPreserved
<1>4. Inv /\ [Next]_vars => Inv'
  BY <1>3, ContentNext
<1>5. Inv => OutputsRight
  <2> SUFFICES ASSUME Inv, status = "success", NEW f \in Products(cs)
               PROVE  f \in DOMAIN fl /\ fl[f] = Content(cs, f)
    BY DEF OutputsRight
  <2>1. Failed = {} /\ Performed = Operations(cs)
    BY AllDone
  <2>2. Held(f) = Seen(cs, plan[cs], f, Operations(cs))
    BY <2>1 DEF ContentInv
  <2>3. Seen(cs, plan[cs], f, Operations(cs)) = {Content(cs, f)}
    BY DEF Serializable, RightPlan, BatchInv
  <2>4. Held(f) = {Content(cs, f)}
    BY <2>2, <2>3
  <2>5. QED
    BY <2>4 DEF Held
<1> HIDE DEF Inv
<1>6. QED
  BY <1>2, <1>4, <1>5, PTL DEF Spec
==============================================================================
