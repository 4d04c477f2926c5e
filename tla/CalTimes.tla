------------------------------ MODULE CalTimes ------------------------------
(***************************************************************************)
(* What NCO does with the dates and times of Calendar:                     *)
(*                                                                         *)
(*   print  ncra and ncrcat convert the time coordinate of a file to the   *)
(*          units of the first (src/nco/ncra.c), nco_cln_var_prs() makes   *)
(*          time stamps of it                                              *)
(*   climo  nco_clm_nfo_to_tm_bnds() computes the times and bounds of a    *)
(*          climatology                                                    *)
(*   date   nco_newdate() adds days to a date YYMMDD in the 365-day        *)
(*          calendar, for the averaged variable date of CCM files          *)
(***************************************************************************)
EXTENDS Calendar

CONSTANTS
  CalRequests,  \* calls
  Junk          \* what memory may hold that has not been written, in seconds

ASSUME JunkAssumption == Junk \subseteq Int

VARIABLES
  cl_rqs,  \* the call
  cl_pc,   \* what is next
  cl_val,  \* the values of the coordinate, or of the times
  cl_bnd,  \* the bounds
  cl_tms,  \* the time stamps; <<>> for a missing value
  cl_dt    \* year, month, day, days to go and rounds of the loop of nco_newdate()

cl_vars == <<cl_rqs, cl_pc, cl_val, cl_bnd, cl_tms, cl_dt>>

ClInit ==
  /\ cl_rqs \in CalRequests /\ cl_pc = cl_rqs.fnc
  /\ cl_val = IF cl_rqs.fnc = "print" THEN cl_rqs.val ELSE <<>>
  /\ cl_bnd = <<>> /\ cl_tms = <<>> /\ cl_dt = [ncr |-> 0]

-----------------------------------------------------------------------------
(* print                                                                   *)

\* lrint(): the nearest integer, of two the even one.
Rint(v) ==
  LET near == (2 * v[1] + v[2]) \div (2 * v[2])
      tie == (2 * v[1] + v[2]) % (2 * v[2]) = 0
  IN Val(IF tie /\ near % 2 = 1 THEN near - 1 ELSE near)

\* nco_cln_clc_tm() leaves missing values alone and returns values of the
\* type it was given; nco_cln_var_prs() has made them floating-point before.
OfType(v, typ) == IF typ = "int" THEN Rint(v) ELSE v
Converted(unt, bs, typ) ==
  [i \in DOMAIN cl_val |->
    IF Missing(cl_val[i], cl_rqs.mss) THEN cl_val[i] ELSE OfType(ClcTm(cl_rqs.cln, cl_val[i], unt, bs), typ)]

Rebase ==
  /\ cl_pc = "print" /\ cl_pc' = "base"
  /\ cl_val' = Converted(cl_rqs.unt, cl_rqs.rbs, cl_rqs.typ)
  /\ UNCHANGED <<cl_rqs, cl_bnd, cl_tms, cl_dt>>

ToBase ==
  /\ cl_pc = "base" /\ cl_pc' = "stamp"
  /\ cl_val' = Converted(cl_rqs.rbs, BsUnit, "dbl")
  /\ UNCHANGED <<cl_rqs, cl_bnd, cl_tms, cl_dt>>

Stamp ==
  LET v == cl_val[Len(cl_tms) + 1]
  IN /\ cl_pc = "stamp" /\ cl_pc' = IF Len(cl_tms) + 1 = Len(cl_val) THEN "done" ELSE "stamp"
     /\ cl_tms' = Append(cl_tms, IF Missing(v, cl_rqs.mss) THEN <<>> ELSE PopTm(cl_rqs.cln, v))
     /\ UNCHANGED <<cl_rqs, cl_val, cl_bnd, cl_dt>>

-----------------------------------------------------------------------------
(* climo                                                                   *)

Midnight(yr, mth, day) == Time(yr, mth, day, 0, 0, 0)
Since(tm) == Unit("sec", tm)

\* The month after the last.  (EndSameYear: a faulty variant.)
EndSameYear == [year |-> cl_rqs.yr_end, month |-> (cl_rqs.mth_end % 12) + 1]
End ==
  IF cl_rqs.mth_end = 12 THEN [year |-> cl_rqs.yr_end + 1, month |-> 1]
  ELSE [year |-> cl_rqs.yr_end, month |-> cl_rqs.mth_end + 1]
SrtUnt == Since(Midnight(cl_rqs.yr_srt, cl_rqs.mth_srt, 1))
EndUnt == Since(Midnight(End.year, End.month, 1))
ToUnt(v, unt) == ClcTm(cl_rqs.cln, v, unt, cl_rqs.unt)

\* Monthly.
ClmMonth ==
  /\ cl_pc = "climo" /\ cl_rqs.tpd = 0 /\ cl_pc' = "done"
  /\ cl_val' = <<ToUnt(Zero, Since(Midnight(cl_rqs.yr_srt, cl_rqs.mth_srt, 15)))>>
  /\ cl_bnd' = <<<<ToUnt(Zero, SrtUnt), ToUnt(Zero, EndUnt)>>>>
  /\ UNCHANGED <<cl_rqs, cl_tms, cl_dt>>

\* Daily or several times a day: the times are those of the first day ...
Step == 86400 \div cl_rqs.tpd
ClmTimes ==
  LET sec(i) == CASE cl_rqs.lcn = "ctr" -> Step \div 2 + Step * i
                  [] cl_rqs.lcn = "rhs" -> Step * (i + 1)
                  [] cl_rqs.lcn = "lhs" -> Step * i
  IN /\ cl_pc = "climo" /\ cl_rqs.tpd > 0 /\ cl_pc' = "bounds"
     /\ cl_val' = [i \in 1..cl_rqs.tpd |-> ToUnt(Val(sec(i - 1)), SrtUnt)]
     /\ UNCHANGED <<cl_rqs, cl_bnd, cl_tms, cl_dt>>

\* ... and the bounds extend from the first day to the last.  What is
\* converted to the difference of first and last is not initialized.
ClmBounds ==
  /\ cl_pc = "bounds" /\ cl_pc' = "done"
  /\ \E junk \in Junk :
       LET dff == ClcTm(cl_rqs.cln, Val(junk), EndUnt, SrtUnt)[1] - (86400 - Step)
           from(i) == IF cl_rqs.lcn = "rhs" THEN Step * (i + 1) ELSE Step * i
           to(i) == from(i) + dff - (IF cl_rqs.lcn = "ctr" THEN 0 ELSE Step)
       IN cl_bnd' = [i \in 1..cl_rqs.tpd |-> <<ToUnt(Val(from(i - 1)), SrtUnt), ToUnt(Val(to(i - 1)), SrtUnt)>>]
  /\ UNCHANGED <<cl_rqs, cl_val, cl_tms, cl_dt>>

-----------------------------------------------------------------------------
(* date                                                                    *)

\* The division of C.
Quot(a, b) == IF a < 0 THEN -((-a) \div b) ELSE a \div b
Abs(a) == IF a < 0 THEN -a ELSE a
Nd2Endm(mth, day) == DaysPerMonth("365")[mth] - day

StartDate ==
  LET mag == Abs(cl_rqs.date)
      yr == Quot(cl_rqs.date, 10000) + Quot(cl_rqs.day, 365)
  IN /\ cl_pc = "date"
     /\ cl_pc' = IF cl_rqs.day = 0 THEN "done" ELSE IF cl_rqs.day > 0 THEN "ahead" ELSE "back"
     /\ cl_dt' = [year |-> IF cl_rqs.day = 0 THEN Quot(cl_rqs.date, 10000) ELSE yr,
                  month |-> (mag % 10000) \div 100, day |-> mag % 100,
                  ncr |-> Abs(cl_rqs.day) % 365, round |-> 0]
     /\ UNCHANGED <<cl_rqs, cl_val, cl_bnd, cl_tms>>

\* A round of the loop for each month, at most thirteen.
NextMonth == [year |-> IF cl_dt.month = 12 THEN cl_dt.year + 1 ELSE cl_dt.year, month |-> (cl_dt.month % 12) + 1]
PriorMonth == [year |-> IF cl_dt.month = 1 THEN cl_dt.year - 1 ELSE cl_dt.year, month |-> ((cl_dt.month + 10) % 12) + 1]
RoundDone(left) == IF left = 0 \/ cl_dt.round = 12 THEN "done" ELSE cl_pc

\* (NewMonthLate: a faulty variant that forgets that the first of a month
\* is a day after the last.)
NewMonthLate(ncr, left) == ncr - left
NewMonth(ncr, left) == ncr - (left + 1)
Ahead ==
  LET left == Nd2Endm(cl_dt.month, cl_dt.day)
      ncr == NewMonth(cl_dt.ncr, left)
  IN /\ cl_pc = "ahead"
     /\ IF cl_dt.ncr > left
        THEN /\ cl_dt' = [year |-> NextMonth.year, month |-> NextMonth.month, day |-> 1,
                          ncr |-> ncr, round |-> cl_dt.round + 1]
             /\ cl_pc' = RoundDone(ncr)
        ELSE cl_dt' = [cl_dt EXCEPT !.day = @ + cl_dt.ncr, !.ncr = 0] /\ cl_pc' = "done"
     /\ UNCHANGED <<cl_rqs, cl_val, cl_bnd, cl_tms>>

Back ==
  LET ncr == cl_dt.ncr - cl_dt.day
      prior == PriorMonth
  IN /\ cl_pc = "back"
     /\ IF cl_dt.ncr >= cl_dt.day
        THEN /\ cl_dt' = [year |-> prior.year, month |-> prior.month, day |-> DaysPerMonth("365")[prior.month],
                          ncr |-> ncr, round |-> cl_dt.round + 1]
             /\ cl_pc' = RoundDone(ncr)
        ELSE cl_dt' = [cl_dt EXCEPT !.day = @ - cl_dt.ncr, !.ncr = 0] /\ cl_pc' = "done"
     /\ UNCHANGED <<cl_rqs, cl_val, cl_bnd, cl_tms>>

\* The date as it is returned.
NewDate == LET mmdd == cl_dt.month * 100 + cl_dt.day
           IN IF cl_dt.year >= 0 THEN cl_dt.year * 10000 + mmdd ELSE -(-cl_dt.year * 10000 + mmdd)

ClNext == \/ Rebase \/ ToBase \/ Stamp
          \/ ClmMonth \/ ClmTimes \/ ClmBounds
          \/ StartDate \/ Ahead \/ Back

ClSpec == ClInit /\ [][ClNext]_cl_vars
=============================================================================
