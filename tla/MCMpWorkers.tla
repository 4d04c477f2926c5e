---------------------------- MODULE MCMpWorkers ----------------------------
(* Small instances of MpWorkers, and the properties only TLC checks.       *)
EXTENDS MpCounting

\* The protocol implements the work pool: every variable is written exactly
\* once, the file is moved afterwards, and that happens under every fair
\* scheduling of the ranks.
WorkPoolSpec == Pool!FairSpec

\* Every rank reaches MPI_Finalize(), no worker waits for an answer of a
\* manager that has left its loop.
Termination == <>Finished

\* Write access to the output file is exclusive: when a request for work
\* arrives, the file is closed.  (Does not hold: section 5 of the README.)
OneWriter == \A w1, w2 \in opn : w1 = w2
=============================================================================
