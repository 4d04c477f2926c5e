------------------------------ MODULE Calendar ------------------------------
(***************************************************************************)
(* Dates and times in the calendars NCO converts itself (360_day, 365_day  *)
(* or noleap, 366_day or all_leap): src/nco/nco_cln_utl.c.  The others are *)
(* converted by UDUnits.                                                   *)
(*                                                                         *)
(* A time stamp is a record of six fields, a unit of a time coordinate a   *)
(* record of its period and the time stamp it counts from ("hours since    *)
(* 2001-01-01").  Values are the fractions of NcoRth; fractions of seconds *)
(* are left out.                                                           *)
(***************************************************************************)
EXTENDS NcoRth, FiniteSetsExt

CONSTANT OriginYear  \* 2001 in the code

ASSUME OriginYearAssumption == OriginYear \in Nat \ {0}

Time(yr, mth, day, hr, mn, sc) ==
  [year |-> yr, month |-> mth, day |-> day, hour |-> hr, min |-> mn, sec |-> sc]
Unit(prd, ref) == [prd |-> prd, ref |-> ref]

-----------------------------------------------------------------------------
(* The tables: days of the months, seconds of the periods.                 *)

Calendars == {"360", "365", "366"}
Periods == {"year", "month", "day", "hour", "min", "sec"}

DaysPerMonth(cln) ==
  CASE cln = "360" -> [m \in 1..12 |-> 30]
    [] cln = "365" -> <<31, 28, 31, 30, 31, 30, 31, 31, 30, 31, 30, 31>>
    [] cln = "366" -> <<31, 29, 31, 30, 31, 30, 31, 31, 30, 31, 30, 31>>

\* nco_cln_val_tm_typ(): a month is a twelfth of a year; of a period that is
\* not known, one.
Seconds(cln, prd) ==
  CASE prd = "year" -> (CASE cln = "360" -> 31104000 [] cln = "365" -> 31536000
                          [] cln = "366" -> 31622400)
    [] prd = "month" -> (CASE cln = "360" -> 2592000 [] cln = "365" -> 2628000
                           [] cln = "366" -> 2635200)
    [] prd = "day" -> 86400
    [] prd = "hour" -> 3600
    [] prd = "min" -> 60
    [] OTHER -> 1

\* nco_cln_days_in_year_prior_to_given_month()
\* (DaysThroughMonth: a faulty variant that counts the month, too.)
DaysSum(cln) ==
  LET sum[m \in 0..12] == IF m = 0 THEN 0 ELSE sum[m - 1] + DaysPerMonth(cln)[m]
  IN  sum
DaysThroughMonth(cln, mth) == DaysSum(cln)[mth]
DaysPrior(cln, mth) == DaysSum(cln)[mth - 1]

-----------------------------------------------------------------------------
(* Time stamps and seconds from the origin.                                *)

\* nco_cln_pop_val(): the code numbers years from 1 here, and takes off the
\* origin as if from 0.
PopVal(cln, tm) ==
  Seconds(cln, "year") * (tm.year - 1 - OriginYear)
  + (IF cln = "360" THEN Seconds(cln, "month") * (tm.month - 1)
                    ELSE Seconds(cln, "day") * DaysPrior(cln, tm.month))
  + Seconds(cln, "day") * (tm.day - 1) + Seconds(cln, "hour") * tm.hour
  + Seconds(cln, "min") * tm.min + tm.sec

\* nco_cln_pop_tm(): of seconds since January 1 of the year of origin; of a
\* sum that is not negative.
PopTm(cln, value) ==
  LET ivalue == (value[1] \div value[2]) + OriginYear * Seconds(cln, "year")
      days == (ivalue % Seconds(cln, "year")) \div Seconds(cln, "day") + 1
      month == Min({m \in 1..12 : days <= DaysPrior(cln, m) + DaysPerMonth(cln)[m]})
  IN Time(ivalue \div Seconds(cln, "year"), month, days - DaysPrior(cln, month),
          (ivalue % Seconds(cln, "day")) \div Seconds(cln, "hour"),
          (ivalue % Seconds(cln, "hour")) \div Seconds(cln, "min"),
          ivalue % 60)

\* Time stamps and units that stand for a time of the calendar.
IsTime(cln, tm) ==
  /\ tm \in [year : Nat, month : 1..12, day : 1..31, hour : 0..23, min : 0..59, sec : 0..59]
  /\ tm.day <= DaysPerMonth(cln)[tm.month]
IsUnit(cln, unt) == unt.prd \in Periods /\ IsTime(cln, unt.ref)

-----------------------------------------------------------------------------
(* nco_cln_clc_dbl_var_dff() and nco_cln_clc_tm(): a value in other units. *)

\* value * unit, in seconds.
InSeconds(value, unit) == IF value[2] = unit THEN Val(value[1]) ELSE Times(value, Val(unit))

ClcTm(cln, value, unt, bs) ==
  LET offset == PopVal(cln, unt.ref) - PopVal(cln, bs.ref)
      sec == InSeconds(value, Seconds(cln, unt.prd))
  IN IF unt = bs THEN value ELSE <<sec[1] + offset * sec[2], sec[2] * Seconds(cln, bs.prd)>>

\* The units nco_cln_var_prs() converts to before it takes values apart.
BsUnit == Unit("sec", Time(OriginYear, 1, 1, 0, 0, 0))
=============================================================================
