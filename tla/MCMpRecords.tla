---------------------------- MODULE MCMpRecords ----------------------------
(***************************************************************************)
(* Model-checking instances of MpRecords.                                  *)
(***************************************************************************)
EXTENDS MpRecords

NoLimit == [usr_min |-> FALSE, usr_max |-> FALSE, min |-> 0, max |-> 0,
            srd |-> 0, ssc |-> 0, ilv |-> 0, ftn |-> FALSE]

\* No -d option: a file that leaves nothing for the second pass, and three
\* records in one file or two.
WholeFiles == {[arg |-> NoLimit, fl |-> f] : f \in {<<1>>, <<3>>, <<1, 2>>}}

\* The hypothesis of MpRecProofs on the requests, which LaterRecords is not
\* under.
ASSUME EveryRecordAssumption == EveryRecord

\* -d time,1,: every record but the first.  The manager waits for ever for
\* the record it believes is left (section 5 of the README).
LaterRecords == {[arg |-> [NoLimit EXCEPT !.usr_min = TRUE, !.min = 1], fl |-> <<2>>]}
=============================================================================
