------------------------------- MODULE NcoLmt -------------------------------
(***************************************************************************)
(* Evaluation of one index-valued hyperslab limit of the record dimension  *)
(* in a multi-file operator: nco_lmt_evl() in src/nco/nco_lmt.c, the       *)
(* branch for lmt_dmn_idx limits.                                          *)
(*                                                                         *)
(* An argument is the parsed -d dim,min,max,srd,ssc,ilv option: the record *)
(*   [usr_min, usr_max : BOOLEAN, min, max, srd, ssc, ilv : Int,           *)
(*    ftn : BOOLEAN]                                                       *)
(* where srd, ssc and ilv are 0 when the option leaves them blank (the     *)
(* program refuses values below 1) and ftn is FORTRAN_IDX_CNV.  A record   *)
(* dimension without any -d option is the argument with nothing given:     *)
(* nco_lmt_evl() then assigns 0 .. dmn_sz-1, which is also what the branch *)
(* for user limits computes for it.                                        *)
(***************************************************************************)
EXTENDS Integers

ArgType == [usr_min : BOOLEAN, usr_max : BOOLEAN, min : Int, max : Int,
            srd : Nat, ssc : Nat, ilv : Nat, ftn : BOOLEAN]

\* Context-sensitive defaults: a blank stride is the sub-cycle, a blank
\* sub-cycle is the interleave, a blank interleave is 1.
Ilv(arg) == IF arg.ilv # 0 THEN arg.ilv ELSE 1
Ssc(arg) == IF arg.ssc # 0 THEN arg.ssc ELSE Ilv(arg)
Srd(arg) == IF arg.srd # 0 THEN arg.srd ELSE Ssc(arg)
FlgIlv(arg) == Ilv(arg) > 1

-----------------------------------------------------------------------------
(* Index limits.  Negative indices count from the end of the CURRENT file. *)

CnvIdx(arg, idx, dmn_sz) ==
  LET c == IF arg.ftn /\ idx > 0 THEN idx - 1 ELSE idx
  IN  IF c < 0 THEN c + dmn_sz ELSE c

MinIdx(arg, dmn_sz) == IF arg.usr_min THEN CnvIdx(arg, arg.min, dmn_sz) ELSE 0
MaxIdx(arg, dmn_sz) ==
  IF arg.usr_max THEN CnvIdx(arg, arg.max, dmn_sz) ELSE dmn_sz - 1

\* Conditions on which nco_lmt_evl() exits with an error.
SyntaxError(arg, dmn_sz) ==
  \/ dmn_sz < 1
  \/ arg.ftn /\ arg.usr_min /\ arg.min = 0
  \/ arg.ftn /\ arg.usr_max /\ arg.max = 0
  \/ MinIdx(arg, dmn_sz) < 0
  \/ MaxIdx(arg, dmn_sz) < 0
  \/ FlgIlv(arg) /\ Ssc(arg) > Srd(arg)
  \/ Ssc(arg) % Ilv(arg) # 0

-----------------------------------------------------------------------------
(* The members of lmt_sct that survive from one input file to the next.    *)

LmtType ==
  [srt : Int, end : Int, rec_in_cml : Nat, rec_skp_vld_prv : Int,
   rec_skp_ntl_spf : Nat, rec_rmn_prv_ssc : Nat, idx_end_max_abs : Int,
   flg_input_complete : BOOLEAN]

LmtInit ==
  [srt |-> 0, end |-> 0, rec_in_cml |-> 0, rec_skp_vld_prv |-> 0,
   rec_skp_ntl_spf |-> 0, rec_rmn_prv_ssc |-> 0, idx_end_max_abs |-> 0,
   flg_input_complete |-> FALSE]

\* First and last index wanted, counted from the first record of the first
\* file (srt_min_lcl and end_max_lcl).
SrtMinLcl(lmt, arg, dmn_sz) ==
  IF arg.usr_min THEN MinIdx(arg, dmn_sz) ELSE lmt.rec_in_cml
EndMaxLcl(lmt, arg, dmn_sz) ==
  IF arg.usr_max THEN MaxIdx(arg, dmn_sz) ELSE lmt.rec_in_cml + dmn_sz - 1

\* rec_skp_vld_prv is reset on the call for the first file.
SkpVldPrv(lmt, rec_usd_cml) ==
  IF rec_usd_cml = 0 /\ lmt.rec_skp_ntl_spf = 0 THEN 0
  ELSE lmt.rec_skp_vld_prv

\* Until a record has been used the start is absolute; thereafter only the
\* records skipped since the last strided one matter.  (SrtCrrLate: a faulty
\* variant, one record off.)
SrtCrrLate(lmt, arg, dmn_sz, rec_usd_cml) ==
  IF rec_usd_cml = 0 THEN SrtMinLcl(lmt, arg, dmn_sz) - lmt.rec_in_cml
  ELSE Srd(arg) - (SkpVldPrv(lmt, rec_usd_cml) % Srd(arg))
SrtCrr(lmt, arg, dmn_sz, rec_usd_cml) ==
  IF rec_usd_cml = 0 THEN SrtMinLcl(lmt, arg, dmn_sz) - lmt.rec_in_cml
  ELSE Srd(arg) - 1 - (SkpVldPrv(lmt, rec_usd_cml) % Srd(arg))

EndCrr(lmt, arg, dmn_sz) ==
  LET end_max_lcl == EndMaxLcl(lmt, arg, dmn_sz)
  IN  IF end_max_lcl < lmt.rec_in_cml + dmn_sz
      THEN end_max_lcl - lmt.rec_in_cml ELSE dmn_sz - 1

\* The start lies in a later file: initially, or because of a long stride.
SrtInLaterFile(lmt, arg, dmn_sz, rec_usd_cml) ==
  \/ SrtMinLcl(lmt, arg, dmn_sz) > lmt.rec_in_cml + dmn_sz - 1
  \/ SrtCrr(lmt, arg, dmn_sz, rec_usd_cml) > dmn_sz - 1

\* Every requested record has been read in earlier files.
InputComplete(lmt, arg, dmn_sz, rec_usd_cml) ==
  /\ ~SrtInLaterFile(lmt, arg, dmn_sz, rec_usd_cml)
  /\ \/ EndMaxLcl(lmt, arg, dmn_sz) < lmt.rec_in_cml
     \/ SrtCrr(lmt, arg, dmn_sz, rec_usd_cml) > EndCrr(lmt, arg, dmn_sz)

\* The file is superfluous (flg_no_data_ok).
NoDataOk(lmt, arg, dmn_sz, rec_usd_cml) ==
  \/ SrtInLaterFile(lmt, arg, dmn_sz, rec_usd_cml)
  \/ InputComplete(lmt, arg, dmn_sz, rec_usd_cml)

\* The last strided index not after the end of the range.  (LastSloppy: a
\* faulty variant that keeps a user-specified end between two strides.)
LastSloppy(srt, end, srd) == end
LastStrided(srt, end, srd) == srt + ((end - srt) \div srd) * srd

\* nco_lmt_evl() for one file of dmn_sz records, after rec_usd_cml records
\* have been used.
LmtEvl(lmt, arg, dmn_sz, rec_usd_cml) ==
  LET no_data == NoDataOk(lmt, arg, dmn_sz, rec_usd_cml)
      skp == SkpVldPrv(lmt, rec_usd_cml)
      srt == SrtCrr(lmt, arg, dmn_sz, rec_usd_cml)
      end == LastStrided(srt, EndCrr(lmt, arg, dmn_sz), Srd(arg))
  IN  [srt |-> IF no_data THEN -1 ELSE srt,
       end |-> IF no_data THEN -2 ELSE end,
       rec_in_cml |-> lmt.rec_in_cml + dmn_sz,
       rec_skp_vld_prv |-> IF no_data THEN skp + dmn_sz ELSE dmn_sz - 1 - end,
       rec_skp_ntl_spf |-> IF no_data /\ rec_usd_cml = 0
                           THEN lmt.rec_skp_ntl_spf + dmn_sz
                           ELSE lmt.rec_skp_ntl_spf,
       rec_rmn_prv_ssc |-> lmt.rec_rmn_prv_ssc,
       idx_end_max_abs |-> EndMaxLcl(lmt, arg, dmn_sz),
       flg_input_complete |-> InputComplete(lmt, arg, dmn_sz, rec_usd_cml)]
=============================================================================
