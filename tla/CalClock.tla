------------------------------ MODULE CalClock ------------------------------
(***************************************************************************)
(* A calendar as a clock, which shows the next second, minute, hour, day   *)
(* or year, without counting from an origin; and that CalTimes agrees with *)
(* it.                                                                     *)
(***************************************************************************)
EXTENDS CalTimes

NextDay(cln, tm) ==
  IF tm.day < DaysPerMonth(cln)[tm.month] THEN [tm EXCEPT !.day = @ + 1]
  ELSE IF tm.month < 12 THEN [tm EXCEPT !.month = @ + 1, !.day = 1]
  ELSE [tm EXCEPT !.year = @ + 1, !.month = 1, !.day = 1]
NextHour(cln, tm) ==
  IF tm.hour < 23 THEN [tm EXCEPT !.hour = @ + 1] ELSE [NextDay(cln, tm) EXCEPT !.hour = 0]
NextMin(cln, tm) ==
  IF tm.min < 59 THEN [tm EXCEPT !.min = @ + 1] ELSE [NextHour(cln, tm) EXCEPT !.min = 0]
NextSec(cln, tm) ==
  IF tm.sec < 59 THEN [tm EXCEPT !.sec = @ + 1] ELSE [NextMin(cln, tm) EXCEPT !.sec = 0]

\* One period on; months only where all are as long (elsewhere a period of a
\* month is a twelfth of a year, as UDUnits has it).
Tick(cln, prd, tm) ==
  CASE prd = "year" -> [tm EXCEPT !.year = @ + 1]
    [] prd = "month" -> IF tm.month < 12 THEN [tm EXCEPT !.month = @ + 1]
                        ELSE [tm EXCEPT !.year = @ + 1, !.month = 1]
    [] prd = "day" -> NextDay(cln, tm)
    [] prd = "hour" -> NextHour(cln, tm)
    [] prd = "min" -> NextMin(cln, tm)
    [] prd = "sec" -> NextSec(cln, tm)

-----------------------------------------------------------------------------
(* print                                                                   *)

ASSUME PrintsAssumption ==
  \A r \in CalRequests : r.fnc = "print" =>
    /\ r.cln \in Calendars /\ IsUnit(r.cln, r.unt) /\ IsUnit(r.cln, r.rbs)
    /\ r.unt.prd = "month" => r.cln = "360"
    /\ r.typ \in {"dbl", "int"}
    /\ r.val \in Seq(Int \X (Nat \ {0})) /\ r.val # <<>>

\* Coordinates that survive the conversions: integers do not lose a fraction
\* of the other units, no value turns into the missing value on its way, and
\* none is before the year 0.
Exact(r) ==
  \A i \in DOMAIN r.val : ~Missing(r.val[i], r.mss) =>
    LET new == ClcTm(r.cln, r.val[i], r.unt, r.rbs)
        sec == ClcTm(r.cln, OfType(new, r.typ), r.rbs, BsUnit)
    IN /\ r.typ = "int" => new[1] % new[2] = 0
       /\ ~Missing(OfType(new, r.typ), r.mss) /\ ~Missing(sec, r.mss)
       /\ (sec[1] \div sec[2]) + OriginYear * Seconds(r.cln, "year") >= 0

\* Whatever units ncra or ncrcat convert a time coordinate to, the time
\* stamp printed of 0 is the one its own units count from, that of each
\* value one period after that of the value one less, and exactly missing
\* values have none (nco_cln_clc_tm(), nco_cln_pop_val(), nco_cln_pop_tm()).
StampsTick ==
  LET n == Len(cl_tms)
      there(i) == ~Missing(cl_rqs.val[i], cl_rqs.mss)
  IN cl_rqs.fnc = "print" /\ n > 0 =>
       /\ there(n) <=> cl_tms[n] # <<>>
       /\ there(n) /\ Same(cl_rqs.val[n], Zero) => cl_tms[n] = cl_rqs.unt.ref
       /\ \A i \in {n - 1} \ {0} :
            there(i) /\ there(n) /\ Same(cl_rqs.val[n], Plus(cl_rqs.val[i], Val(1))) =>
              cl_tms[n] = Tick(cl_rqs.cln, cl_rqs.unt.prd, cl_tms[i])

-----------------------------------------------------------------------------
(* climo                                                                   *)

ASSUME ClimosAssumption ==
  \A r \in CalRequests : r.fnc = "climo" =>
    /\ r.cln \in Calendars /\ IsUnit(r.cln, r.unt)
    /\ r.yr_srt \in Nat /\ r.yr_end \in Nat /\ r.mth_srt \in 1..12 /\ r.mth_end \in 1..12
    /\ r.tpd \in Nat /\ r.lcn \in {"ctr", "rhs", "lhs"}

\* The time stamp of a value, and that of so many seconds before it.
Stamped(v) == PopTm(cl_rqs.cln, ClcTm(cl_rqs.cln, v, cl_rqs.unt, BsUnit))
StampedBefore(v, sec) ==
  PopTm(cl_rqs.cln, Minus(ClcTm(cl_rqs.cln, v, cl_rqs.unt, BsUnit), Val(sec)))
FirstDay == Midnight(cl_rqs.yr_srt, cl_rqs.mth_srt, 1)
LastDay == Midnight(cl_rqs.yr_end, cl_rqs.mth_end, DaysPerMonth(cl_rqs.cln)[cl_rqs.mth_end])

\* The k-th step of a day, 24:00 being the next midnight; and half a step
\* after it.
StepOf(day, k) ==
  LET sec == k * Step
  IN IF sec = 86400 THEN NextDay(cl_rqs.cln, day)
     ELSE [day EXCEPT !.hour = sec \div 3600, !.min = (sec \div 60) % 60, !.sec = sec % 60]
HalfStepOf(day, k) ==
  LET sec == k * Step + Step \div 2
  IN [day EXCEPT !.hour = sec \div 3600, !.min = (sec \div 60) % 60, !.sec = sec % 60]

\* Where the bounds of the k-th time begin and end, and where it is: from
\* beginning to end of the step if the time is its middle, otherwise from and
\* to the time itself.
FromIdx(k) == IF cl_rqs.lcn = "rhs" THEN k ELSE k - 1
ToIdx(k) == IF cl_rqs.lcn = "lhs" THEN k - 1 ELSE k
TimeShown(k) == IF cl_rqs.lcn = "ctr" THEN HalfStepOf(FirstDay, k - 1) ELSE StepOf(FirstDay, FromIdx(k))

\* The time of a monthly climatology is the 15th of its first month and its
\* bounds extend from the first midnight of its months to the last.  Those
\* of the k-th step of the day begin with this step of the first day, and
\* end with the same of the last day but for what memory held that the code
\* adds to it (nco_cln_utl.c 569-571): one number of seconds, the same for
\* all steps.
BoundsSpan ==
  cl_rqs.fnc = "climo" /\ cl_pc = "done" =>
    IF cl_rqs.tpd = 0
    THEN /\ Stamped(cl_val[1]) = Midnight(cl_rqs.yr_srt, cl_rqs.mth_srt, 15)
         /\ Stamped(cl_bnd[1][1]) = FirstDay
         /\ Stamped(cl_bnd[1][2]) = NextDay(cl_rqs.cln, LastDay)
    ELSE /\ \A k \in 1..cl_rqs.tpd :
              Stamped(cl_bnd[k][1]) = StepOf(FirstDay, FromIdx(k)) /\ Stamped(cl_val[k]) = TimeShown(k)
         /\ \E junk \in Junk : \A k \in 1..cl_rqs.tpd :
              StampedBefore(cl_bnd[k][2], junk) = StepOf(LastDay, ToIdx(k))

\* The bounds end on the last day whatever memory holds: srt_end_dff is the
\* "Seconds difference between srt_sng and end_sng" (nco_cln_utl.c 568).
BoundsRight ==
  cl_rqs.fnc = "climo" /\ cl_pc = "done" =>
    \A k \in 1..cl_rqs.tpd : Stamped(cl_bnd[k][2]) = StepOf(LastDay, ToIdx(k))

-----------------------------------------------------------------------------
(* date                                                                    *)

\* The days of a year, and how many precede a date.
YearDays == {x \in (1..12) \X (1..31) : x[2] <= DaysPerMonth("365")[x[1]]}
DayNumber(date) ==
  LET md == <<(Abs(date) % 10000) \div 100, Abs(date) % 100>>
  IN Quot(date, 10000) * 365
     + Cardinality({x \in YearDays : x[1] < md[1] \/ (x[1] = md[1] /\ x[2] < md[2])})
InYear(date) == <<(Abs(date) % 10000) \div 100, Abs(date) % 100>> \in YearDays

ASSUME DatesAssumption ==
  \A r \in CalRequests : r.fnc = "date" => r.date \in Int /\ r.day \in Int /\ InYear(r.date)

\* The new date is a day of the calendar and as many days from the old as
\* asked for, over any number of months and years, forth or back, and across
\* the year 0 (nco_newdate()).
DateAdvanced ==
  cl_rqs.fnc = "date" /\ cl_pc = "done" =>
    InYear(NewDate) /\ DayNumber(NewDate) = DayNumber(cl_rqs.date) + cl_rqs.day
=============================================================================
