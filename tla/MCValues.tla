------------------------------ MODULE MCValues ------------------------------
(***************************************************************************)
(* The machines that compute values: ncra and nces (RecStat), ncwa         *)
(* (NcwaVar), ncbo and ncflint (BinaryVar), ncpdq (DmnRdr), and the        *)
(* calendars (CalTimes).  A run is one command or call: the other machines *)
(* stay idle.                                                              *)
(***************************************************************************)
EXTENDS MCStatistics, MCDmnRdr, CalClock

(* Calls for CalTimes.  The origin is the year 3: TLC's integers do not     *)
(* hold the seconds of two thousand years.                                  *)

Range0(lo, hi) == [i \in 1..(hi - lo + 1) |-> Val(lo + i - 1)]
Gap == Val(-20000)

Day(yr, mth, day) == Time(yr, mth, day, 0, 0, 0)
Refs(cln) ==
  {Day(3, 1, 1), Time(3, 12, DaysPerMonth(cln)[12], 23, 59, 45),
   Time(2, 2, DaysPerMonth(cln)[2], 21, 58, 50), Time(4, 3, 1, 1, 0, 10)}
Bases(cln) == {Unit("day", Day(3, 2, 1)), Unit("hour", Time(4, 3, 1, 7, 30, 0)),
               Unit("sec", Day(3, 1, 1))}

Coord(cln, typ, unt, rbs, v, mss) ==
  [fnc |-> "print", cln |-> cln, typ |-> typ, unt |-> unt, rbs |-> rbs, val |-> v, mss |-> mss]
FewValues == Append(Range0(-30, 2), Gap) \o Range0(3, 30)

\* A whole year of days around the reference date; a few values of each
\* period, with a gap among them; whole days as integers in other units.
PrintDays(cln) ==
  {Coord(cln, "dbl", Unit("day", ref), rbs, Range0(-40, 400), {}) : ref \in Refs(cln), rbs \in Bases(cln)}
PrintPeriods(cln) ==
  {Coord(cln, "dbl", Unit(prd, ref), rbs, FewValues, {Gap}) :
     prd \in {"day", "hour", "min", "sec"}, ref \in Refs(cln), rbs \in Bases(cln)}
PrintLong(cln) ==
  {Coord(cln, "dbl", Unit(prd, ref), rbs, Range0(-1, 2), {}) :
     prd \in {"year"} \union (IF cln = "360" THEN {"month"} ELSE {}),
     ref \in Refs(cln), rbs \in Bases(cln) \union {Unit("year", Day(3, 1, 1))}}
PrintInts(cln) ==
  {Coord(cln, "int", Unit("day", Day(3, 3, 1)), Unit(prd, Day(2, 12, 30)), FewValues, {Gap}) :
     prd \in {"day", "hour", "min"}}
Prints == UNION {PrintDays(c) \union PrintPeriods(c) \union PrintLong(c) \union PrintInts(c) : c \in Calendars}

\* All of them survive the conversions.
ASSUME PrintsExact == \A r \in Prints : Exact(r)

\* Within a year, a season across its end, several years; times of day.
Spans == {<<3, 3, 1, 1>>, <<3, 3, 2, 2>>, <<2, 4, 12, 12>>, <<2, 4, 12, 2>>, <<3, 5, 6, 8>>}
ClimoUnits == {Unit("day", Day(3, 1, 1)), Unit("hour", Time(2, 12, 1, 6, 0, 0)), Unit("sec", Day(3, 1, 1))}
Climos ==
  {[fnc |-> "climo", cln |-> cln, unt |-> unt, yr_srt |-> s[1], yr_end |-> s[2],
    mth_srt |-> s[3], mth_end |-> s[4], tpd |-> tpd, lcn |-> lcn] :
     cln \in Calendars, unt \in ClimoUnits, s \in Spans, tpd \in {0, 1, 2, 3, 7, 8, 24},
     lcn \in {"ctr", "rhs", "lhs"}}

Dates == {101, 228, 1231, 10101, 10228, 10301, 10430, 10715, 11231, -10101, -10301, -11231}
DayNumbers == (-62..62) \union {k * 365 + d : k \in {-2, -1, 1, 2}, d \in -62..62 \ {0}}
NewDates == {[fnc |-> "date", date |-> date, day |-> day] : date \in Dates, day \in DayNumbers}

Calls == Prints \union Climos \union NewDates

\* Memory that happens to hold 0; an hour; some negative number.
Anything == {0, 3600, -100000}

\* Integers and a longer period (nco.texi, "Rebasing Time Coordinate": days
\* in the first file, hours in the next).
IntegerHours ==
  {Coord("365", "int", Unit("hour", Day(3, 3, 10)), Unit("day", Day(3, 3, 1)), Range0(0, 200), {})}

-----------------------------------------------------------------------------
(* One machine at a time. *)

RsIdle == /\ rs_rqs = <<>> /\ rs_pc = "idle" /\ fl_idx = 0 /\ idx_rec = 0
          /\ idx_rec_crr_in = 0 /\ rec_usd_cml = <<>> /\ acc = <<>>
          /\ rec_out = <<>>
WaIdle == /\ wa_rqs = <<>> /\ wa_pc = "idle" /\ wa_var = <<>> /\ wa_out = <<>>
          /\ wgt_out = <<>>
BnIdle == /\ bn_rqs = <<>> /\ bn_pc = "idle" /\ bn_idx = 0 /\ bn_wgt = <<>>
          /\ bn_wgt_out = <<>> /\ bn_out = <<>>
DrIdle == /\ dr_rqs = [vars |-> <<>>] /\ dr_pc = "idle" /\ dr_idx = 0 /\ dr_dim = <<>>
          /\ is_rec_var = <<>> /\ dmn_idx_out_in = <<>> /\ dmn_rvr_in = <<>>
          /\ rec_dmn_nm_out = <<>> /\ udm = <<>> /\ dr_fl = <<>>
ClIdle == /\ cl_rqs = [fnc |-> "idle"] /\ cl_pc = "idle" /\ cl_val = <<>>
          /\ cl_bnd = <<>> /\ cl_tms = <<>> /\ cl_dt = <<>>

Init == \/ RsInit /\ WaIdle /\ BnIdle /\ DrIdle /\ ClIdle
        \/ RsIdle /\ WaInit /\ BnIdle /\ DrIdle /\ ClIdle
        \/ RsIdle /\ WaIdle /\ BnInit /\ DrIdle /\ ClIdle
        \/ RsIdle /\ WaIdle /\ BnIdle /\ DrInit /\ ClIdle
        \/ RsIdle /\ WaIdle /\ BnIdle /\ DrIdle /\ ClInit

Next == \/ RsNext /\ UNCHANGED <<wa_vars, bn_vars, dr_vars, cl_vars>>
        \/ WaNext /\ UNCHANGED <<rs_vars, bn_vars, dr_vars, cl_vars>>
        \/ BnNext /\ UNCHANGED <<rs_vars, wa_vars, dr_vars, cl_vars>>
        \/ DrNext /\ UNCHANGED <<rs_vars, wa_vars, bn_vars, cl_vars>>
        \/ ClNext /\ UNCHANGED <<rs_vars, wa_vars, bn_vars, dr_vars>>

Spec == Init /\ [][Next]_<<rs_vars, wa_vars, bn_vars, dr_vars, cl_vars>>
=============================================================================
