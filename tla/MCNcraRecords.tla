--------------------------- MODULE MCNcraRecords ---------------------------
(* Small instances of NcraRecords: every request within the bounds below.  *)
EXTENDS NcraStride, SequencesExt

CONSTANTS
  Modes,     \* programs and flags: "ncrcat", "ncra" or "ncra --mro"
  Apns,      \* records already in the output file
  MaxFl,     \* number of input files
  Szs,       \* records of a dimension in one file
  Mins, Maxs, \* limits; Blank for none
  Srds, Sscs, Ilvs \* stride, sub-cycle and interleave; 0 for none

Blank == 99

Args ==
  {[usr_min |-> mn # Blank, min |-> mn, usr_max |-> mx # Blank, max |-> mx,
    srd |-> sr, ssc |-> ss, ilv |-> il, ftn |-> FALSE] :
     mn \in Mins, mx \in Maxs, sr \in Srds, ss \in Sscs, il \in Ilvs}

\* The same -d option applies to all dimensions of one name.
AllRequests ==
  {[prg |-> IF m = "ncrcat" THEN "ncrcat" ELSE "ncra",
    mro |-> m = "ncra --mro", apn |-> n, fl |-> f, arg |-> [d \in Dmn |-> a]] :
     m \in Modes, n \in Apns, a \in Args,
     f \in UNION {[1..k -> [Dmn -> Szs]] : k \in 1..MaxFl}}

-----------------------------------------------------------------------------
(* The requests for which the program keeps the promise of                 *)
(* RecordSelection.  Each conjunct is a documented limit of the code, or   *)
(* excludes requests for which a result differs from the promise; the      *)
(* README says how.                                                        *)

\* Last record of file f, as an absolute index.
FlEnd(r, d, f) == Selection!RecCml(r, d)[f] - 1

\* Groups do not overlap.
Disjoint(r, d) == Ssc(r.arg[d]) <= Srd(r.arg[d])

\* Every interleaved sub-cycle lies in one file, as the code demands.
IlvAligned(r, d) ==
  FlgIlv(r.arg[d]) =>
    \A k \in 1..Selection!GrpNbr(r, d) :
      \E f \in DOMAIN r.fl :
        /\ FlEnd(r, d, f) - r.fl[f][d] < Selection!GrpSrt(r, d, k)
        /\ Selection!GrpSrt(r, d, k) + Ssc(r.arg[d]) - 1 <= FlEnd(r, d, f)

\* A sub-cycle that the maximum cuts short ends in the last file.
CutInLastFile(r, d) ==
  LET n == Selection!GrpNbr(r, d)
  IN  (~FlgIlv(r.arg[d]) /\ n > 0 /\ Selection!GrpSz(r, d, n) < Ssc(r.arg[d]))
        => Selection!LastRec(r, d) > FlEnd(r, d, Len(r.fl) - 1)

\* After a sub-cycle of more than two records has started with the last
\* record of a file, the next file is too short to complete it or holds the
\* first record of the next sub-cycle.
CarryFits(r, d) ==
  Ssc(r.arg[d]) > 2 /\ ~FlgIlv(r.arg[d]) =>
    \A k \in 1..Selection!GrpNbr(r, d), f \in 1..(Len(r.fl) - 1) :
      Selection!GrpSrt(r, d, k) = FlEnd(r, d, f) =>
        \/ r.fl[f + 1][d] < Ssc(r.arg[d]) - 1
        \/ /\ k < Selection!GrpNbr(r, d)
           /\ Selection!GrpSrt(r, d, k + 1) <= FlEnd(r, d, f + 1)

\* An empty range is noticed: it lies behind the last record, or there is
\* only one file.
EmptyNoticed(r, d) ==
  \/ Selection!FirstRec(r, d) <= Selection!LastRec(r, d)
  \/ Selection!FirstRec(r, d) >= Selection!RecTtl(r, d)
  \/ Len(r.fl) = 1

RegularRequests ==
  {r \in AllRequests : \A d \in Dmn :
     /\ Disjoint(r, d) /\ IlvAligned(r, d) /\ CutInLastFile(r, d)
     /\ CarryFits(r, d) /\ EmptyNoticed(r, d)}

\* With several record dimensions or groups: every dimension ends with a
\* write inside the record loop, so that nothing is left to the trailing
\* normalisation after the file loop.
EndsWritten(r, d) ==
  LET n == Selection!GrpNbr(r, d)
      whole == n > 0 /\ Selection!GrpSz(r, d, n) = Ssc(r.arg[d])
  IN  \/ r.prg = "ncrcat" \/ n = 0
      \/ r.mro /\ whole
      \/ /\ Selection!GrpSrt(r, d, n) > FlEnd(r, d, Len(r.fl) - 1)
         /\ whole \/ Selection!LastRec(r, d) = FlEnd(r, d, Len(r.fl))

WrittenRequests == {r \in RegularRequests : \A d \in Dmn : EndsWritten(r, d)}

-----------------------------------------------------------------------------
(* Properties.                                                             *)

\* main() ends: the record loop always leaves a file, the file loop and the
\* trailing write loop always end.
Termination == <>(pc \in {"done", "exit"})

-----------------------------------------------------------------------------
(* What comments and the manual say, and requests of DisjointRequests      *)
(* violate (section 5 of the README).                                      *)

\* idx_end_max_abs is the maximum allowed index: no record behind the
\* user-specified maximum is used.
NoRecordPastMax ==
  \A d \in Dmn : \A i \in DOMAIN usd[d] :
    rqs.arg[d].usr_max => usd[d][i] <= rqs.arg[d].max

\* If the last input file is superfluous, FLG_BFR_NRM still makes ncra
\* normalise and write what it has accumulated.
AveragesWritten ==
  pc = "done" /\ rqs.prg = "ncra" => \A v \in Var : out[v] # <<>>

\* The program dies if no records were read.
NoEmptyOutput == pc = "done" => \A d \in Dmn : usd[d] # <<>>

-----------------------------------------------------------------------------
OneVar == << [dmn |-> 1, grp |-> "/", nm |-> "v"] >>
\* A record dimension in each of two groups.
TwoDmns == << [dmn |-> 1, grp |-> "/g1", nm |-> "v"],
              [dmn |-> 2, grp |-> "/g2", nm |-> "v"] >>
DisjointRequests == {r \in AllRequests : \A d \in Dmn : Disjoint(r, d)}
=============================================================================
