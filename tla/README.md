# A verification model of NCO

NCO (the netCDF Operators) is a set of command-line programs over one C
library.  Each program opens one or many netCDF files, selects part of them
(hyperslabs, record ranges, groups), combines variables and writes one output
file.  This directory holds TLA+ modules that model the parts whose behaviour
depends on *sequences of steps*, the TLC runs that check them on small
instances, and proofs of the most important properties for every instance.

Line numbers refer to the files under `src/src/nco/` of this repository unless
another path is given.  `PROJECT.json` maps every definition to the lines it
stands for.

## 1. Inventory

### Modelled, in full or in part

| Part | Source | State | Operations | Hard behaviour | What makes it correct |
|---|---|---|---|---|---|
| Record machine | `ncra.c` main() 1393-2240 | per record dimension: records in finished files, records used, next output record, last-desired and input-complete flags; one carried sub-cycle; accumulators; output records | evaluate limit, use one record, end dimension, close file, normalise, write rest | state carried from file to file and shared by dimensions; three nested loops whose ends depend on index arithmetic | exactly the wanted records, in order, over all file boundaries; one average per group; nothing written twice; the loops end |
| Record limits | `nco_lmt.c` nco_lmt_evl() 1083-1408 | `lmt_sct`: start, end, records skipped, records in earlier files | evaluate one limit for one file | long strides over short or superfluous files | start and end of every file continue the stride of the previous one |
| MPI operators | `mpncflint.c` 669-1047, and the same loops in `mpncbo.c`, `mpncwa.c`, `mpncecat.c`, `mpncpdq.c`, first pass of `mpncra.c`; `nco_mpi.h` | manager: next variable, count of requests, write token; worker: its variable; messages under way; the output file | create and broadcast, assign variable, grant or deny token, open, write, close, move | messages of all workers in any order; a count stands for an event nobody reports | every variable written once, file moved afterwards, every rank finishes, token never lost |
| Output files | `nco_fl_utl.c` nco_fl_out_open(), nco_fl_out_cls(), nco_fl_cp(), nco_fl_mv() | the files at the output name and at the temporary names; who has which file open; options | vet, test for existence, ask, copy, open, create, write, close, move, abort | commands that overlap; a crash between any two steps; process IDs used again; failing shell commands | the output name never shows an unfinished file; readers are undisturbed; nothing is lost unasked; success means published |
| Limits of other dimensions | `nco_lmt.c` nco_lmt_evl_dmn_crd() 1411-2190 | one `lmt_sct` | evaluate one -d option | increasing and decreasing coordinates, wrapped ranges, strides, blank ends | the elements asked for, or an error if there are none |
| Multi-slab algorithm | `nco_grp_utl.c` nco_bld_lmt() 7844-8160, `nco_msa.c` | list of slabs; next index of each; the slab being collected; the buffer | split wrapped limits, sort, count, merge, read, copy, print | three merges of the same slabs (count, read, print) that must agree; nested dimensions copied by offsets | every wanted element once, in order, where C order puts it, under its own index |
| Record loop of `mpncra` | `mpncra.c` 1093-1466 | trips of manager and workers, token, count, the files | as the MPI operators, once per record, then the averages | notifications nobody answers; manager and workers count trips separately | no record lost, one writer at a time, all ranks finish |
| OpenMP loop over variables | `ncra.c` 1594-1736, `ncpdq.c` 893-1000, `nco_omp.c` | identifiers each iteration looks up, shared or private; accumulators | look up, accumulate, write, per variable and thread | every interleaving of the steps of an iteration | the output of the serial loop |
| Batch scripts | `src/data/ncclimo`, `src/data/ncremap` | jobs running, files, position in the script | start, wait, exit, per mode | jobs that overlap, fail, share names | products right when success is reported; no stale input; failures reported |
| Arithmetic of records | `ncra.c` (element by element), `nco_var_rth.c`, `nco_rth_utl.c` | value, tally and sum of weights per element | initialise, accumulate, normalise, each of 13 statistics | missing values, weights, state kept between groups and dimensions | the statistic of the valid values of the group |
| Averages over dimensions | `ncwa.c` 1000-1232, `nco_var_avg.c`, `nco_cnf_dmn.c` | variable, weight, mask, tally | mask, transform, weigh, reduce, normalise | subscript arithmetic, weights that do not conform, normalisation options | the statistic of the unmasked values of each block |
| Operators on two files | nco_prc_cmn() `nco_grp_utl.c` 4642-4900, `ncflint.c` 807-990, `nco_mss_val.c` | two operands, weights kept for the next variable | stretch, unify missing values, combine | operands of different rank and missing value | elements with the same subscripts combined; missing exactly where one is |
| Re-ordering of dimensions | `ncpdq.c`, nco_var_dmn_rdr_mtd() `nco_cnf_dmn.c` 470-600, nco_var_dmn_rdr_mtd_trv() and nco_var_dmn_rdr_val_trv() `nco_grp_utl.c` 6137-6768, nco_cpy_var_dfn_trv() 5387-5900 | per variable: dimensions, map from output to input, reversals, record flag, new record dimension; dimensions defined in the output | move dimensions, choose a record dimension, move again, define, transpose | one variable's request changes others; two moves in one map | each element under its own subscripts; the order asked for; one record dimension, first in every variable |
| Calendars | `nco_cln_utl.c` | values of a time coordinate, bounds, a date | convert between units, take apart into a time stamp, bounds of a climatology, add days to a date | ends of months and years, years before the origin, several units | the same instant in every unit; bounds that span the period; the right day |
| Traversal table and extraction | `nco_grp_utl.c` nco_grp_itr() 3218-3638, nco_bld_crd_var_trv() to nco_bld_var_dmn() 3683-4327, nco_xtr_mk() to nco_xtr_grp_mrk() 610-2084, nco_bld_trv_tbl() 7631-7801 | flags of each object of the table | match strings, combine, invert, add coordinates and CF-associated variables, check, mark | a dozen passes that communicate by flags; names searched as parts of strings; scope of names in groups | what the command line asks for, all that belongs to it, and nothing else |

Interaction.  Every operator but `ncatted` and `ncrename` brackets its work by
nco_fl_out_open() and nco_fl_out_cls(); the record machine calls nco_lmt_evl()
once per file and record dimension and gives back two members of the limit
(`rec_rmn_prv_ssc` and, through the counters, `rec_usd_cml`); the MPI operators
replace the loop over variables of their serial counterparts by the protocol,
and call nco_fl_mv() at its end.  Every variable
but the record variables of ncra is read through the multi-slab algorithm, whose
slabs nco_lmt_evl_dmn_crd() has evaluated; the arithmetic works on what it
delivers.  Which variables there are to loop over, and which coordinate evaluates
a limit, the traversal table says.  Scripts start operators as jobs; an operator appears to them as one
reading and one whole output, which is what FlOut shows.  `ncra` and `ncrcat`
convert the time coordinate of each file to the units of the first before they
accumulate it, and `ncpdq` transposes what it has read with the map that the
definition of the output uses as well.

### Not modelled

| Part | Source | Why |
|---|---|---|
| In-place editing | `ncatted.c`, `ncrename.c` | one pass of metadata edits; the only hazard is dying while the library writes, which the code does not handle |
| Packing | `nco_pck.c` | its subject is rounding to scaled integers, which exact arithmetic does not have |
| Other calendars | `nco_cln_utl.c` | strings given to UDUnits |
| Rest of the traversal table | `nco_grp_trv.c`, the rest of `nco_grp_utl.c` | printing and copying metadata, editing of group paths (-G), ensembles of groups, auxiliary coordinates, the pairs of objects ncbo makes |
| Regridder, maps, polygons, kd-tree | `nco_rgr.c`, `nco_map.c`, `nco_s1d.c`, `nco_sph.c`, `nco_ply.c`, `nco_kd.c`, ... | numerical geometry on floating-point numbers |
| Chunking, filters, precision | `nco_cnk.c`, `nco_flt.c`, `nco_ppc.c` | option parsing, library calls and bit masks |
| `ncap2` | `src/src/nco++/` | an interpreter; lexer, parser and tree walker are generated |
| netCDF wrappers, utilities, C++ interface | `nco_netcdf.c`, `nco_ctl.c`, `nco_sng_utl.c`, ..., `src/src/nco_c++/` | one call each, strings and memory; no state |
| Tests, manual, build system | `src/bm/`, `src/doc/`, autotools | read for what the program promises |

## 2. Modules

| Module | Models | Extends |
|---|---|---|
| `NcoLmt` | nco_lmt_evl() for index-valued limits, as operators on the surviving members of `lmt_sct` | |
| `NcraRecords` | main() of `ncra`/`ncrcat` from the file loop to the closing of the output, one action per loop iteration; that no output record is rewritten | `NcoLmt` |
| `RecordSelection` | abstract: the records a hyperslab promises, whatever the files | `NcoLmt` (only to read arguments) |
| `NcraStride` | the property "the stride is kept" and its inductive invariant; the refinement mapping to `RecordSelection` and its invariant | `NcraRecords` |
| `NcraStrideProofs` | proofs | `NcraStride` |
| `MCNcraRecords` | instances and the properties only TLC checks | `NcraStride` |
| `MpWorkers` | the manager/worker protocol | |
| `WorkPool` | abstract: every item written once, then published | |
| `MpCounting` | the inductive invariant, the refinement mapping to `WorkPool` | `MpWorkers` |
| `MpProofs` | proofs | `MpCounting` |
| `MCMpWorkers` | instances | `MpCounting` |
| `FlOut` | the life of an output file among overlapping commands; its properties and inductive invariant | |
| `MCFlOut` | instances; behaviours in which commands do not overlap (`alone`), what holds of them and its inductive invariant | `FlOut` |
| `FlOutProofs` | proofs | `MCFlOut` |
| `DmnLmt` | nco_lmt_evl_dmn_crd(): one -d option to one slab, as operators | |
| `MsaMerge` | counting, reading and printing one dimension by any list of slabs; the properties of the merge and its inductive invariant | |
| `MsaRead` | nco_bld_lmt(): the list of slabs a command line gives; implements `MsaMerge`; what the manual promises of -d, and the properties of one dimension | `MsaMerge`, `DmnLmt` |
| `MsaArray` | the recursion over dimensions that copies pieces into one buffer | `MsaRead` |
| `MsaProofs` | proofs about any list of slabs and about command lines | `MsaRead` |
| `MCMsa` | the property of arrays, instances | `MsaArray` |
| `MpRecords` | second and third passes of `mpncra`; its properties and inductive invariants | `NcoLmt` |
| `MpRecProofs` | proofs | `MpRecords` |
| `MCMpRecords` | instances | `MpRecords` |
| `OmpVars` | the team of threads in the loop over variables; its inductive invariant | |
| `OmpProofs` | proofs | `OmpVars` |
| `MCOmpVars` | instances | `OmpVars` |
| `ClimoBatch` | the jobs of `ncclimo` and `ncremap`; what is asked of the text of a script, and the inductive invariants | |
| `ClimoProofs` | proofs | `ClimoBatch` |
| `MCClimoBatch` | instances | `ClimoBatch` |
| `NcoRth` | exact rational numbers; the functions of `nco_var_rth.c` on one element | |
| `RecStat` | `ncra` and `nces` element by element | `NcoRth` |
| `VarDmn` | arrays: stretching and reducing | `NcoRth` |
| `NcwaVar` | `ncwa`, one variable | `VarDmn` |
| `BinaryVar` | `ncbo` and `ncflint` | `VarDmn` |
| `MCStatistics` | the definitions of the statistics, instances | `RecStat`, `NcwaVar`, `BinaryVar` |
| `DmnRdr` | `ncpdq -a`: dimensions, record dimension and values of all variables; its properties | `VarDmn` |
| `MCDmnRdr` | instances | `DmnRdr` |
| `Calendar` | dates, units and conversions in the calendars NCO has tables for, as operators | `NcoRth` |
| `CalTimes` | what `ncra`, `ncks` and nco_newdate() do with them | `Calendar` |
| `CalClock` | a calendar as a clock; the properties | `CalTimes` |
| `ValueProofs` | proofs about the dimensions and elements of ncpdq, about dates, time stamps and climatologies | `DmnRdr`, `CalClock` |
| `MCValues` | the machines that compute values, one at a time; instances of the calendars | `MCStatistics`, `MCDmnRdr`, `CalClock` |
| `TrvTbl` | the traversal table, scope of names and coordinates, as operators | |
| `Extraction` | nco_bld_trv_tbl(): the passes that set the flags, one action each | `TrvTbl` |
| `XtrAsked` | what a command line asks for; the properties | `Extraction` |
| `MCExtraction` | instances | `XtrAsked` |

### NcraRecords

A value is the sequence of what went into it: absolute record indices (counted
from the first record of the first file) and `NRM` for each normalisation, so
`<<3, 4, 5, NRM>>` is the mean of records 3, 4 and 5, and the average a user
waits for can be told from one that lacks a record, has one twice or was
normalised twice.  The actions follow main():

- `Evl`, `EvlError`: nco_lmt_evl(), the resumption of a carried sub-cycle, the
  output record with `--rec_apn`, and the exit when an interleaved sub-cycle
  crosses a file boundary;
- `Record`: one iteration of the loop at 1516, that is the first- and
  last-in-group flags, the variables of the dimension, the write, and the next
  index or `break`;
- `EndDmn`, `CloseFile`: the bookkeeping after a dimension and after a file,
  with the exit when no record was found and the early end of the file loop;
- `Normalise`, `PutVar`, `CloseOutput`: what follows the file loop.

The variables keep their names.  Per-dimension members of `lmt_rec[idx_rec]`
that the loop only reads and writes under one name (`rec_in_cml`,
`rec_usd_cml`, `idx_rec_out`, `REC_LST_DSR`) are functions on dimensions.
`usd` is a history variable: the records used, in order.  Variables of a
dimension are processed in one action because nothing in the loop over
variables depends on their order except `grp_out_fll`, which keeps the group of
the last one.  Abstracted: the arithmetic, weights, missing values, type
promotion, `ncfe`/`ncge`, climatology bounds.

### MpWorkers

A worker sends and then waits for the answer, so one request and one answer
per worker are all the messages there can be, and a function on workers holds
them.  The manager's blocking receive from `MPI_ANY_SOURCE` is the choice of
any worker with a request.  Worker and manager loops have one action per
message.  The history variable `wrt` counts how often a variable was written,
`opn` holds the ranks that have the output file open.

### FlOut

Names and contents are separate, as a file system has it: `out` and `tmp[p]`
say which file a name stands for, `fl` what is in the file, and a file that
was replaced is still there for those who have it open.  Contents are the set
of commands whose results are in the file (`parts`), the commands that have not
closed it yet (`dirty`), and whether a command with `--no_tmp_fl` wrote to it
(`direct`).  A process is a process ID: after its command has ended or died, it
may be used by another command, and the temporary file left behind is still
there under its name.  `Abort` at any step stands for a crash, an interrupt
and every fatal error.  With `SystemFails`, `/bin/cp` copies any part of the
contents or nothing and only -1 is noticed, and `/bin/mv` fails noticed or, with
-1, unnoticed.  External: `cp`, `mv`, the netCDF library and the operator's own
work, reduced to what the code in `src/src/nco` expects of them.

### DmnLmt, MsaMerge, MsaRead, MsaArray

`DmnLmt` evaluates a limit as the code does, branch by branch; strings have been
parsed.  `MsaRead!NextRead` evaluates the limits of a dimension one after the other,
splits wrapped ones (`Splt`), orders them and tests for overlap, and starts the
counting.  `MsaMerge` has one action per pass of the loops of nco_msa_clc_cnt()
(`CountMin`) and nco_msa_clc_idx() (`Collect`, `Return`), one per slab where no merge
is needed (`Copy`), and one per element printed (`PrnIdx`). Its `Prepare` takes *any*
list of slabs, so that what is proved about it does not depend on the evaluation of
limits; `MergeSpec` says that `MsaRead` is an instance (run msa, theorem
`ReadMerges`).  `phase = "undefined"` stands for memory read before it is set.
`ReadError` is the exit of nc_get_vars(): nco_lmt_evl_dmn_crd() refuses a minimum
beyond the dimension only (2031), so that with a maximum beyond it what counts is
whether an element that is selected lies outside (`Past`): `-d x,0,3,2` reads the
elements 0 and 2 of a dimension of 3, `-d x,0,3` ends with an error. `reads` is what
went to memory, in order.  `MsaArray` then computes, by the recursion of
nco_msa_rcr_clc(), where each byte of a two-dimensional array ends up.

### MpRecords

Messages are as in `MpWorkers`, except that msg_tag_wrk_done is not answered, so
that a worker may run ahead into the next record.  Manager and workers evaluate
the record limit themselves (`Lcl`, `Trips`, with the operators of `NcoLmt`), each
with its own `rec_usd_cml`.  A file has, for each variable, the records written to
it, and the ranks that have it open.  After the last record every worker writes
the averages of its variables in order of rank (`WrkFinal`, `WrkAverages`).

### OmpVars

One action per statement of the loop body that reads or assigns a variable other
iterations may see: the group, the name, the output identifiers, the record put.
`Slot(t)` is where a thread keeps these: one place for all threads in `ncra`,
where the directive at 1594 lists none of them as private, one per thread in
`ncpdq`.  `nco_openmp_ini()` gives the number of threads.  External: how netCDF
numbers variables.

### ClimoBatch

A script is a sequence of instructions made from the options as the script makes
it: start a job or run a command, wait for a job or for all, the test of job_nbr,
the end.  A job is a sequence of reads, writes and removals of files.  A file is
its kind and number; its content is the set of inputs it was made from, `"old"`
if an earlier invocation left it.  Both scripts have `set -o errexit`, so that a
failing `wait` ends the script at once and what follows it in the text is not
reached.  `FaultMax` commands fail for reasons of their own, at any time.  A line of the script
itself that fails, and an exit with an error, are the instruction `FailHere`.

### NcoRth, RecStat, VarDmn, NcwaVar, BinaryVar

A number is a pair (numerator, denominator), and an element a value, a tally and a
sum of weights; roots are kept as their squares (`Root`).  The state machines
have one action per record, per variable or per stage of main(), and call the
functions of `nco_var_rth.c` in the order of the code.  `MCStatistics` states each
statistic once, by the formula of the manual over the set of valid values, and
compares.

### DmnRdr

The loops of nco_var_dmn_rdr_mtd_trv() over variables (`Mtd`, `Mrk`), its last one
over pairs of them (`Prp`), the definition of the output variables (`Dfn`) and the
loop of main() over their values (`Put`), one action per variable except for `Prp`.
There are three records of where a dimension goes, and the properties are about
their agreement: `dr_dim`, the dimensions of `var_prc_out`, whose sizes weigh the
subscripts of the output; `dmn_idx_out_in`, the map in the traversal table, which
moves subscripts and orders the dimensions that are defined; and `udm`, what was
defined as a record dimension when a variable first needed it.  `slot` is the
offset to which each element goes.  `dr_pc = "undefined"` stands for the use of
memory that has not been set, as in the multi-slab algorithm; `"error"` for the
exit when netCDF3 refuses a second record dimension or one that is not the first.
External: what netCDF refuses.

### Calendar, CalTimes, CalClock

A time stamp is six numbers, a unit of time a period and the time stamp it counts
from, a value a fraction (`NcoRth`).  `Calendar` translates the conversions, which
count seconds from an origin and take them apart by division.  `CalTimes` has three
kinds of behaviours: `Rebase`, `ToBase`, `Stamp`, the way of a time coordinate from
ncra.c 1630 to the time stamps of nco_cln_var_prs(); `ClmMonth`, `ClmTimes`,
`ClmBounds` for nco_clm_nfo_to_tm_bnds(), where `Junk` are the numbers the
uninitialised `srt_end_dff` may hold (whole seconds; what is not a number is left
out); `StartDate`, `Ahead`, `Back` for nco_newdate(), one action per round of its
loops.  `CalClock` knows of no origin and no division: the next second is the next
minute after 59, and so on up to the year, and what `CalTimes` prints, spans or
returns must agree with this clock.  Of the bounds of a climatology that are computed
with the uninitialised number `BoundsSpan` says what is right whatever it is: where
they begin, and that they all end as much too late; `BoundsRight`, that they end where
they should, is the promise that does not hold (run climo_bounds).  `Exact` says which
coordinates survive the conversions; all those of the run do (`PrintsExact`),
`IntegerHours` does not.

### TrvTbl, Extraction, XtrAsked

A path is a sequence of names and a name a sequence of letters, because the code
compares full names as strings and finds components in them with strstr():
`Fll` is the string, `Occurs` the search.  `GrpItr` builds the table by the recursion
of nco_grp_itr(); the indices of its objects are their order, on which the passes
depend.  `Extraction` has one action per call of nco_bld_trv_tbl(), and
nco_xtr_mk() one per string (`MchStr`) and one for the flags that follow from
`flg_mch` (`XtrMk`).  A flag is the set of the objects that have it; `flg_vsg`,
`flg_gcv`, `flg_nsx` and `flg_dfl` are functions of other flags where they are read, and
operators.  `Pass` is a pass over the table that adds to the flags it reads.
A request is a file, the strings of `-g` and `-v` as components with their slashes
(or, for a regular expression, the set of names it matches: regexec() is
external), the options, and whether the file follows the CF conventions.
`XtrAsked` states what the manual promises on paths and names, without strings,
flags or passes: the selection by set operations, what belongs to it by
reachability.

## 3. Runs

| Run | Configuration | Checks | Result |
|---|---|---|---|
| records | MCNcraRecords.cfg | `SelectionSpec` (refinement of RecordSelection), `Termination` | holds, 122,237 states |
| dimensions | MCNcraDimensions.cfg | `SelectionSpec`, `StrideKept`, `OutputNeverRewritten` | holds, 312,314 states |
| mp_pool | MCMpWorkers.cfg | `MovedComplete`, `TokenReturns`, `WorkPoolSpec` (refinement of WorkPool with liveness), `Termination` | holds, 46,899 states |
| mp_records | MCMpRecords.cfg | `RecordsComplete`, `OneAtATime`, `AllFinish` | holds, 209,229 states |
| out_files | MCFlOut.cfg | `NeverPartial`, `ReadersSafe`, `KeepsData`, `SuccessPublishes` | holds, 3,349,693 states |
| msa | MCMsa.cfg | `MergeDelivers`, `MergeAscending`, `DeliversWanted`, `RefusesOnlyEmpty`, `CountMatches`, `PrintsDisk`, `ArrayInOrder`, `MergeSpec` (refinement) | holds, 86,690 states |
| omp_vars | MCOmpVars.cfg | `SameAsSerial` | holds, 15,520 states |
| climo | MCClimo.cfg | `OutputsRight`, `NothingStale`, `ReportsOutcome` | holds, 35,552 states |
| values | MCValues.cfg | `RecordStatistics`, `AverageRight`, `BinaryRight`, `ElementsInPlace`, `OrderedAsAsked`, `OneRecordDimension`, `StampsTick`, `BoundsSpan`, `DateAdvanced` | holds, 751,519 states |
| extraction | MCExtraction.cfg | `SelectsAsAsked`, `TreeComplete`, `CoordinatesInScope` | holds, 341,388 states |
| climo_bounds | MCClimoBounds.cfg | `BoundsRight` | violated |
| reorder | MCDmnRdrTwice.cfg | `ElementsInPlace` | violated |

What the properties say is in the comment above each definition.  The inductive
invariants `StrideInv`, `MpInv`, `FlInv` and `MergeInv` are proved (section 4); a
configuration of their module that lists them as INVARIANT checks them.  `values`
composes machines that share no state: a run is one command or call, and the other
machines stay idle.

### Bounds and why they are enough

*Record machine.*  What can go wrong depends on where a file boundary falls in a
stride, a sub-cycle or an interleaved group.  Three files of 1, 2 or 4 records
with strides up to 4, sub-cycles up to 3 and interleave 2 put a boundary at
every position of a group, make groups span three files, files without any
wanted record, limits that end before, at and after the last record, and
negative room at the end.  `dimensions` adds a second record dimension in
another group, appending, and strides longer than a file, with fewer sizes.
99 in the configurations stands for a blank limit.
Each run starts from *every* request within its bounds, as initial states.

*Requests.*  `RegularRequests` are those for which the promise of
`RecordSelection` is checked; each conjunct leaves out a class for which the
program documents a limit or differs from the promise (section 5).  They are
conditions on requests, not on behaviours: within them every behaviour is
checked.  `Disjoint` (sub-cycles no longer than the stride) and `IlvAligned`
(interleaved sub-cycles lie in one file) are limits of the program;
`CutInLastFile`, `CarryFits` and `EmptyNoticed` leave out what is found
otherwise; `EndsWritten`, with several dimensions only, leaves out requests
that depend on the trailing normalisation.

*MPI.*  Three workers and four variables give: more and fewer workers than
variables left, two denied workers while one writes, a worker that starts after
all variables are assigned.  The safety properties are proved for all numbers.

*Output files.*  Two process IDs and three commands: two commands that overlap
in any way and a third that uses a process ID again, next to what the first left
behind.  The safety properties that hold of them are proved for all numbers.
`KeepsData` and `SuccessPublishes` are about the other behaviours of the run
(`alone`): four commands one after the other, for which create, append, append,
overwrite is the longest case, whose copies are whole and whose moves are not
reported as done when they are not.
Deadlock is not checked in `FlOut` because the users may stop after `MaxCmd`
commands, nor in the runs climo, extraction and values, whose behaviours are those
of one command: they stop when its result is there, and the properties are about
this result (`ReportsOutcome` says that a script gets there).  The other models may
only stop where they say so (`Terminated`, `Finished`).

*Record loop of mpncra.*  Three workers and three variables, so that a worker may
have one variable or two, and one to three records in one or two files: the last
record, whose count ends the manager's loop, with and without one before it.

*Multi-slabs.*  Dimensions of 1, 2, 3, 5 and 7 elements; one limit with every
minimum and maximum inside and outside, maxima beyond the dimension that the stride
reaches or does not, strides to 3, zero- and one-based, or on a
rising, falling or single-valued coordinate with values at, between and beyond its
own; two limits of all kinds of overlap, in file and in user order; three; and a
wrapped limit next to another.  A larger dimension adds no new relation between
two slabs.  The properties of the merge are proved for all lists.

*Threads.*  Three variables and up to three threads: two threads suffice for an
identifier to be overwritten between its look-up and its use, the third variable
for a thread to come back.

*Scripts.*  Three variables, files or days and four months in batches of 1 to 4
with a last batch that is full, short or the only one; two seasons of which one
needs the last month; two failures.  `--dpt`, which no script
survives, is left out (`DptCases`, section 5).

*Statistics.*  One to three files of one or two records of the values -1, 0, 2 and
9, where 0, 2 or 9 stands for missing; arrays of 2 x 3 and 2 x 3 x 2 elements
with every set of missing elements; weights and masks of every combination of
dimensions.  Sizes that differ tell row and column apart.

*Re-ordering.*  Dimensions of 2, 2, 3 and 4 elements, so that rows and columns
differ and the two that do not are the record dimension and a level; files of two
variables, with and without the record dimension, in both orders, and of three;
every order of one to three of the dimensions t, y and x in -a, and four lists with
z; minus signs on none, one and all; netCDF3, netCDF4 and `--mrd`.  A third
variable matters only if it stands between two others (`Triples`).  `MovesTwice` is
left to run reorder.

*Calendars.*  TLC's integers do not hold the seconds of two thousand years, so the
origin is the year 3 instead of 2001; every use of the origin is the constant. Time
coordinates around the end of a year and of February, before and after the origin:
every day of a year and more, a month's worth of each other period, converted to three
units; integers in whole days.  Climatologies within a year, over its end and of
several years, of 1 to 24 times a day.  Dates at both ends of months and of the year,
in the years -1, 0 and 1, and up to 62 days more or less than whole years. Unset
memory holds 0, an hour, or a negative number of seconds.

*Extraction.*  Three families of files and command lines (`RegularRequests`).
Strings: two trees in which a group name (`g`) is part of others (`ga`, `ag`), names
several groups or only one at the root, and in which a group holds only metadata;
up to two strings of one kind and one of the other, among them anchored, not
recursive, of several components, missing, `//`, `/` and regular expressions, with
every combination of -x, --unn and --gxvx that section 5 does not name.  CF files:
a variable, its auxiliary coordinate and the bounds of it in a group, coordinate
and bounds in the root group, in both orders, so that a pass meets the namer before
and after what it names; every attribute and every form of path.  Coordinates: every
choice of groups on a path of three that hold a coordinate of the dimension, and the
dimension defined once or twice.  What is left out is named by the definitions:
`RegularStrings` leaves out strings that occur twice in a name or, if anchored, not
at its start, and missing names that are part of a name; -x with associated
variables is asked with one list only, --gxvx with two; and no chain of attributes
is longer than two.

### Fairness

- `NcraRecords!FairSpec`: weak fairness of `Next`.  A single thread computes
  until it exits; reading and writing files is assumed to return.
- `MpWorkers!FairSpec`: weak fairness of each worker, of the manager, and of
  serving each worker.  The first two are the scheduling of processes.  The last
  is an assumption on MPI_Recv() from `MPI_ANY_SOURCE`: a pending message of one
  worker is not passed over for ever.  A worker has one message under way at a
  time and the denied ones wait between requests (`tkn_wrt_rqs_ntv`, 927), so an
  implementation that takes messages in order of arrival satisfies it; without
  it, denied workers that keep asking could starve the one that has the token.
- `FlOut` has no fairness: its properties are safety properties.
- `MpRecords!FairMpSpec`: weak fairness of the manager, of each worker and of
  serving each worker, as in `MpWorkers`.
- `ClimoBatch!FairSpec`: weak fairness of the script and of the jobs together: the
  shell goes on, and some command that can finish does.  No single job is
  favoured.
- The other models have none.  Their properties are about what has been done at the
  end, or so far, and TLC reports a deadlock in those that may only stop where they
  say so.

## 4. Proofs

All theorems hold for every value of the constants that satisfies the named
assumptions: `NbrRecAssumption`, `VarPrcAssumption`, `RequestsAssumption` (shape of
the requests only), `WorkerAssumption` (a finite, non-empty set of workers),
`NbrVarAssumption`, `MaxCmdAssumption`, `FlagsAssumption`, `ThrNbrMaxAssumption`,
`ProblemsAssumption` (shape of the limits; a coordinate has as many values as its
dimension), `RdrAssumption` (shape of a request to ncpdq: sizes are natural numbers,
minus signs stand on dimensions of -a), `DatesAssumption` (a date given to
nco_newdate() is a day of the 365-day year), `OriginYearAssumption`, `JunkAssumption`
(unset memory holds whole seconds), `PrintsAssumption` and `ClimosAssumption` (the
times that units count from are times of one of the three calendars, not before the
year 0; a month is a unit only where all are as long; the types of the rest).  What is
said of `MsaMerge` alone needs none. A hypothesis that is not about the shape of a
constant is part of the theorem it is needed for:

| Theorem | Hypothesis | What it excludes |
|---|---|---|
| `ThreadsAgree` | `IsolatedCases` | command lines that give several threads one set of identifiers (section 5) |
| `NeverRewritten` | `ncrcat` only, or `OneDimension` | nothing the code calls wrong: `ncra` with several record dimensions stays with TLC |
| `SelectsWanted` | `Strides(r)` for every request | sub-cycles, interleaves and limits that count from the end; with several files a maximum before the minimum (section 5); one average of `ncra` over several record dimensions or groups (section 5), which is `NeverRewritten`'s exception, too |
| `MpRecordsComplete` | `EveryRecord` | requests in which the workers' second pass leaves records out (section 5); TLC finds it true of the run's requests |
| `DeliversKept`, `RefusesKept` | `Kept(prb)` | a coordinate that is not strictly monotonic; three kinds of -d options, and a wrapped range before another limit of `--msa_usr_rdr`, for which the program does something else (section 5) |
| `StampsFollowClock` | `Exact(cl_rqs)` | coordinates that do not survive: integers that lose a fraction of the other units (section 5), values that turn into the missing value on their way, times before the year 0 |
| `ElementsFollow` | `~MovesTwice(dr_rqs)` | that -a has already moved, and not to the head, a dimension which then becomes the record dimension of the variable: run reorder shows what goes wrong (section 5) |
| `NoStaleContent` | `Ordered` | scripts that start a job before the one it reads from was waited for |
| `ProductsRight` | `Serializable(plan)` | scripts in which two commands race for a file, or whose serial execution would not make the right products |

`Ordered` and `Serializable` speak of the text of a script only, not of jobs, states
or steps: TLC evaluates them once for the cases of the run (`ScriptsSerializable`),
which satisfy them, and finds them false of the cases that section 5 shows to go
wrong (`VrtCases`, `AnnCases`, `ZnlCases`, `LeftCases`).  `Kept` speaks of the request only,
too; the run's requests are those of a larger set for which it is true (`GoodRequests`),
and `OddRequests` are the others.

**NcraStrideProofs.**  `TypeCorrect`: types.  `StrideCorrect`: for a limit with a
stride but without sub-cycle, `StrideKept` holds for any number of files of any
sizes, any number of record dimensions and any mixture with dimensions that
have sub-cycles.  `StrideKept` is not inductive: whether the next file starts at
the right record depends on `rec_skp_vld_prv`.  `StrideInv` says of every
dimension, between files (`Behind`): nothing wanted lies in the files seen so
far, and `rec_skp_vld_prv` is the number of records after the last one used;
and while a file is read: no wanted record in it (`NoData`), or the current index
is the next wanted record and `end` is a whole number of strides away
(`MoreData`), or the last used record is at `end` (`DataUsed`).  The arithmetic
of nco_lmt_evl() is isolated in the lemma `LmtEvlUnit`, which turns its
quotients and remainders into these facts; the other lemmas treat one action
each (`StrideEvl`, `StrideRecord`, `StrideEndDmn`), and the dimension the action
does not touch (`OtherDmn`).

`NotRewrittenInLoop`, `NeverRewritten`: an output record once written never changes
(`OutputNeverRewritten`).  In the file loop this is true of every request, because
all variables of a dimension have the same number of records and the next one is
written behind them (`OutInv`), also where the dimension resumes after `--rec_apn`.
The write after the loop is another matter: it takes whatever start the last use of a
record left in each variable (`srt_out`), and looks variables up by name in one
group.  `TrailInv` is what makes it right where there is one dimension and no name
occurs twice: as long as a normalisation is due, this start is behind the records of
the variable.

`SelectsWanted`: for a limit with a stride and no sub-cycle the record machine implements
`RecordSelection`, for any files, strides, limits from the start, `--rec_apn`, and for
`ncrcat` and `ncra --mro` any number of record dimensions and variables.  The abstract
specification defines the wanted records of all files as one sequence, by recursive
functions over the files (`RecCml`) and over the groups (`FlattenSeq`).  `CmlFacts` and
`FlattenOnes` say what these are, by the least counterexample (`NatMin`, `UpTo`) instead
of an induction rule; `GrpIn` that the quotient in the number of groups counts exactly the
strided records that exist (`Within`).  With it the facts `StrideInv` knows of each file
become facts about the whole: the record read next is the next one wanted (`NextWanted`),
and when none is left in the files, all wanted ones are used (`AllUsed`).  `SelectInv`
adds the records of the files accounted for (`FilesInv`) and what has been written: each
record at once (`EachInv`), or one average (`OneInv`), which is written either in the
loop, when the last desired record of the last file comes by, or after it.  That exactly
one of the two happens is the hard part: the last file may be superfluous, so that no
record of it is desired, and `FLG_BFR_NRM` must say so.  The program exits only where
`RecordSelection` allows a failure (`SelectFail`); the lookup of a variable in the
trailing write never fails.

**MpProofs.**  `MpTypeCorrect`: types.  `MovedAfterAllWritten`: when the file is moved,
every variable has been written exactly once and nobody has the file open.  The
manager knows neither; it compares `var_wrt_nbr` with the number of variables.
`MpInv` says what this number means: the workers that have started, plus the
variables whose worker has asked for more work since, minus all workers
(`CountInv`).  With `AssignInv` (no variable is held by two workers, and an
acknowledged one is written once) and at most as many started workers as
workers, a count of all variables implies that all are acknowledged.
`TokenComesBack`: while the token is taken, some worker has it, is being sent it,
or has closed the file and is about to ask for work, which frees it.
`ImplementsPool`: every step is a step of `WorkPool` or a stutter (safety part).

**MpRecProofs.**  `MpOneAtATime`: at most one rank has the output file open, with the
two exceptions `OneAtATime` names, for every request, also those for which the
manager stops too early.  `OneInv` follows both tokens.  `PassInv`: the final token is at
one rank, the workers before it are done, and only where it is are averages
written.  `TokenInv`: where every worker has a variable, a worker has the write token
from the grant for its first variable of a record until the manager has received
its msg_tag_wrk_done (`Has`), and all that time the manager believes that it is the one.
`MpRecordsComplete`: when the file is moved, it holds every variable of every record,
or every average of all of them, exactly once.  The manager knows a number of
answers, per record; the workers run ahead of it, because msg_tag_wrk_done is not
answered.  `RecInv` therefore says nothing of the manager's counts: it ties the records a worker has been
through and those it has left (`CountInv`), and of the one it is at the variables it
has still to write (`Reached`), to what is in the file, as a bag (`FileInv`); the file
is moved after the last rank has passed on the final token, which it does with no
record left.

**FlOutProofs.**  `FlTypeCorrect`: types, and a process has a file open exactly while it
writes.  `FlInvariant`, and from it `NeverPartialOutput` and `ReadersAreSafe`.
`NeverPartial` needs three facts about names that no single function of the
code establishes: no file has two names, a temporary file is written to by no
process but its own, and a file to be moved is closed (`NameInv`, `TmpInv`).
They survive crashes and the re-use of process IDs because of the test at 2124:
without it a second command would empty a file left behind; and because a file
number, like an inode, is used once.  `ReadersAreSafe` is an action property: the
only action that gives the output name other contents without `--no_tmp_fl` is
the move, which gives the name another file.

`KeepsTheData`, `SuccessHasPublished`: commands that do not overlap lose nothing but
what their user agreed to overwrite, and a success has been published, for any
number of commands and process IDs, whatever they leave behind when they are stopped.
`AloneInv` says of the one command at work, at each line, why what it is about to do
loses nothing: it makes a file anew only with the user's consent or where there was
none (`create`, `create_new`), and a copy it appends to holds all the output holds
(`open` to `mv`).  Neither holds where commands overlap (section 5).

**MsaProofs.**  `MsaTypeCorrect`: types.  `MergeDeliversAll`: an element of any slab is
in memory once the merge has passed it, and nothing else is; `MergeAscends`: in
strictly ascending order.  Both hold for any number of slabs of any extent and
stride.  Neither is inductive: they say nothing of the indices from which the
next element is taken.  `MergeInv` adds three facts: each index is an element of
its slab, and all slabs agree which elements are behind (`IndicesInv`: an element
passed in the slab that holds it is passed in all); the hyperslab being collected
is a run of one slab that goes on with that slab's index (`CrrInv`), so that
returning it adds a run and no more; and what is in memory or being collected is
exactly what is passed (`TakenInv`).  That `Advance` moves every index equal to the
minimum (498-503) is what keeps `IndicesInv`: `AdvanceFacts` isolates the
arithmetic of one step of a stride.

The second half of the module is about what a command line does, for any dimension,
coordinate and list of -d options, wrapped or not.  `ReadMerges`: every step of `MsaRead` is a step of
`MsaMerge`, or a stutter while limits are being evaluated; that is, nco_bld_lmt()
hands over a list of slabs that start within the dimension, have a positive stride
and, where `WRP` is set, are two.  The invariant `ReadInv` is small; the work is in the
operators, which make slabs of slabs (`EvlType`, `WrpSpltCpyType`, `WrpSpltTrvType`),
unless a slot stays unset.  With it `RequestDelivers` carries `MergeDelivers` over to
command lines.

`CountRight`: the size of the memory, counted by one merge, is what the other merge
fills, and is never exceeded on the way.  Neither merge knows the set it goes through.
`CountInv` ties both to it: `Behind` is what all indices have passed, a pass puts
exactly one element behind, above all those already there (`BehindNext`), so that
`dmn_cnt` is the number of elements behind while counting (`CountNext`), and what
is in memory or being collected lists them in ascending order while reading
(`Collected`).  Where no merge is needed the count is a sum; the two halves of a
wrapped slab are the exception: counted by a merge, copied one after the other.  That
both give one number is arithmetic: the halves share no element
(`ListInv`, `HalvedFacts`).  `PrintsRight`: the third merge, which ncks prints disk
indices with, agrees with memory element by element; for a wrapped slab, because the
index of the first half leaves the dimension exactly after its last element
(`HalvesWithin`), unless the half has one element and thereby lost its stride
(`LoneFirst`, section 5).  `PrintInv` says where the indices are after each element.

`DeliversKept` and `RefusesKept` close the gap between the slabs and the command line:
what is in memory at the end is what the manual promises for the -d options
(`DeliversWanted`), and a request is given up only if an option asks for nothing
(`RefusesOnlyEmpty`), for a dimension of any size, any strictly monotonic coordinate
and any number of options, strided, wrapped and overlapping.  The argument has four parts.
*One limit*: a slab and the promise are both described by an arc, from one index to
another around the end of the dimension (`Means`); for indices `IdxMeans`, for values
`UpMeans` and `DownMeans`, because on a monotonic coordinate the values from a point on
are an interval of indices (`UpRanges`, `DownRanges`), so that the search for the
bracketing elements and the set the promise speaks of meet; the number of elements nco_lmt.c
computes is that of a stride along the arc (`ArcWalk`, `SlabWanted`).  A range of indices may
end beyond the dimension: its slab lists the same indices as the stride (`UpWalk`), a command
whose stride meets an index beyond the dimension is given up when the slab is read (`Past`),
and a slab that is read lists only elements (`LastIsFirst`), those the request
means; a half of a wrapped slab is never given up (`HalfStays`).  *Splitting*: the halves
of a wrapped slab, read one behind the other, are this walk (`HalvesWalk`), and both
splitting routines make lists with exactly these parts (`CpyParts`, `TrvLast`,
`SpltParts`); a half without elements adds none, though merging takes its start
for one, because the first half has it as well.  *The list*: `OriginInv` says of every
moment where the list in use comes from, and that a command is given up for a limit, not for
a part.  *Order*: the elements are the union of the parts, ascending, by `CountInv`;
slabs copied in order are ascending where they do not overlap (`CopyAscends`), and
in the order of the options where only the last one wraps (`CopyInOrder`), which is why
`--msa_usr_rdr` needs `Kept`.

**OmpProofs.**  `ThreadsAgree`: the team leaves what one thread leaves, for any number of
threads, variables and groups, where every thread has identifiers of its own
(`ncpdq`) or there is one thread; where there are two and shared identifiers it
is false (section 5).  `OptionsIsolate` says which options lead there: those that
leave the number of threads to NCO, and any `--thr_nbr` of `ncrcat` or `ncpdq` where
netCDF4 is built in.  `SameAsSerial` speaks of the end of the loop only, and is far from
inductive.  `OmpInv` adds, for every moment: each iteration is begun by one thread
of the team (`IterationInv`); what a thread finds in its slot is what it looked up
for its own iteration, and the critical section holds the place of the variable
its thread is at (`SlotInv`); and a variable is untouched while its iteration is
`Pending` and right afterwards (`ResultInv`).  Two lemmas carry the argument:
`SlotsDistinct`, through which a step of one thread leaves what the others have
found (`OthersKeep`), and `PlaceInjective`, that no two variables have the same
group and ID, through which it leaves what they have written.

**ClimoProofs.**  `NoStaleContent`: nothing an earlier invocation left gets into a
product, in any interleaving and whatever fails.  The invariant `BatchInv` says of the
latest job of each name that it has done some of its operations, in order, unless it
has failed, and that a job the script has waited for has succeeded, because a failing
`wait` ends the script (`JobsInv`); what such a job has written is new and stays new,
although other jobs may write the same name again.  `Ordered` is used once, where a
command opens its files: what may be old has been written by the command
itself or by a job that was waited for.  `SuccessIsComplete`: if the script waits for
all its jobs, none has failed or still runs when it reports success.  `ProductsRight`:
if moreover no two operations on one file, one of them a write, are unordered, the
products are right.  The plan is what each operation writes when the operations
are done one after another.  `ContentInv`: as long as no job has failed, a file holds
what the last performed operation in the order of the script has written, for
`RaceFree` makes the performed writers of a file a chain, and what a command reads is
not changed by what is still to come.  TLC checks `BatchInv` and `ContentInv` on the
cases of the run.  Why the hypotheses hold of a script is not proved for every number
of months or variables: `Scripts` is made by concatenation of sequences.

**ValueProofs.**  `OrderHolds` and `OneRecordDimensionHolds`: the dimensions of every
variable are arranged as -a asks, with the exchange the manual describes where a new
record dimension has come to the head; and unless record variables require different
record dimensions, no error occurs, the output has the record dimensions it should
have, and they lead the variables that have them.  Both hold for any number of
variables with any number of dimensions, every -a and every format.  The assumption is
`IsRequest`: dimensions of a variable are distinct and have sizes, the record
dimension is its first, -a names none twice and gives minus signs to its own
dimensions only.  `ShrFacts` to `OutFacts` are about one variable: the shared
dimensions go to the places they had together, so that the map is a permutation and
what -a names comes in the order of -a, first of all that of -a which the variable has
(`LeadIsFirst`).  Hence without conflict all requests name one dimension (`OneWish`).
`RdrInv` says for each loop what the variables passed by it have: after the first, the
dimensions -a gives; after the second, `Final`, in which the new record dimension has
moved to the head; after the third, its name.  That a dimension is defined by
whichever variable needs it first is harmless because all would define it alike
(`SameForAll`). The fault of section 5, by which `Final` may be no permutation, is not
assumed away: there the operator reads memory that was never set (`"undefined"`), and
where the swapped map is a permutation nonetheless, it is the right one (`JoinFacts`).

`ElementsFollow`: every element of every variable is written at the offset of the
subscripts it had, in the order of the output's dimensions, counted from the end along
those with a minus sign.  What it excludes, `MovesTwice`, speaks of the request only; it
is the fault of section 5, and without it the swap leaves the map a permutation
(`StaysOneToOne`).  `PlaceInv` says for each loop which variables have the reversed
dimensions, the sizes and the offsets they should have; it uses `RdrInv` for the maps.
That dividing an offset returns its subscripts is a fact about numbers in mixed bases
(`Digits`): a place is a whole multiple of each weight before it, and what comes behind
stays below the weight (`Carried`, `Borne`).  The offset and the weights are folds of
the community modules, whose recursion is bound to a CHOOSE over functions on sets of
places: `OverPlaces` shows that such a function exists, and `SumIs` and `SizeIs` that
it does along `1..n` what a sum or a product does step by step, by induction on a set of
numbers instead of an operator.

`DateIsAdvanced`: the date nco_newdate() returns is a day of the year, as many days
from the given one as asked for, for every date, before or after the year 0, and any
number of days of either sign (integers do not overflow here; in the code a date has
the width of `nco_int`).  `DateInv` says that in each round the day reached and the
days to go make the day sought, and how far the loop has come.  The second part is
what the first cannot do without: a loop of thirteen rounds that ended with days left
would return a wrong date.  Less than a year is to go from the start, each round
counts one month (`Months`), and in the thirteenth the loop is again in the month it
started in, at its edge, with fewer days left than the month has (`AheadStep`,
`BackStep`).  What a property counts, days before a date in the set of all days of
the year, is tied to the loop's arithmetic by a bijection (`DaysBefore`), and the
packing of year, month and day into one number by `Encode` and `Decode`.

`StampsFollowClock`: in each of the three calendars, the time stamps of a coordinate
of any length, in any units and rebased to any other, are those of a clock that starts
at the time its own units count from and ticks once per unit; missing values, and no
others, have none.  `BoundsFollowClock`: the times and bounds of a climatology of any
months and years, monthly or with any number of steps of the day, written in any
units, are read back as the midnights and steps they stand for, except for the number
that unset memory adds to the ends of the sub-daily ones, whichever it is.  The
argument has three parts.  `Count`, the seconds from the year 0 to a time, is one to
one: nco_cln_pop_val() is `Count` but for a constant (`PopValCounts`; it counts years
from 1 and the origin from 0, which cancels in a difference), every number of seconds
is the count of a time (`CountsAll`), and nco_cln_pop_tm() finds this time
(`PopTmInverts`), with `ThruSums` for the loop over the months.  A tick moves `Count`
by the seconds of its period, whatever rolls over (`TickMoves`, `DayMoves`, ...).  And
a conversion multiplies and shifts a fraction without moving the instant it stands for
(`Converts`, `ThroughUnits`), nor does lrint() where nothing is lost (`RintExact`);
two values 1 apart are a period apart (`OneApart`). `StampInv` and `ClimoInv` carry
this over the steps.  For bounds, the difference of first and last day is that of
their counts and the unset number (`DffCounts`), which taken off again leaves the step
of the last day (`StampedBeforeOf`), and a step of the day taken apart into hour,
minute and second is that second of the day (`StepMoves`), 24:00 being the next
midnight.  A step of a number that does not divide 86400 is cut off, which the
argument allows for; the run has 7 steps a day for this.

**Only model-checked.**  Liveness (`Termination`, `AllFinish`, `ReportsOutcome`, the
liveness half of `WorkPoolSpec`): beyond the provers used.  `OutputNeverRewritten` for
`ncra` with several record dimensions.  `ArrayInOrder`: `MsaArray` recurs over
dimensions with a RECURSIVE operator.  (`MsaRead`'s own recursive functions on
sequences are proved about by the lemmas `Induct` and `Recursion`, which take a set
and a function instead of an operator.)  The statistics: folds of fractions over
sequences of any length; not attempted. `SelectionSpec` with sub-cycles, interleaves
or limits counted from the end: there the promise holds of some requests only, those
that `RegularRequests` describes record by record, and an invariant for sub-cycles
that files cut was not attempted.  `Extraction`: the table is built and its scopes are
searched by recursion over trees and paths.

## 5. Differences between program and promise

Shown by a run that TLC ends with a violation:

- *reorder*: when -a gives a record variable another first dimension, this becomes
  the record dimension, and in other variables it changes places with the first
  (nco_grp_utl.c 6411-6416).  What 6415 stores in the map from output to input is a
  place in the output.  The two are the same unless -a has moved the dimension, as
  `-a lon,lat,time` does in v2(lev,lat,lon) when there is a v1(time,lat,lon): the
  map becomes [1,0,1], its inverse (5867-5873) has a place that was never set, and
  the elements go to wrong offsets.
- *climo_bounds*: `srt_end_dff` (nco_cln_utl.c 569), "Seconds difference between srt_sng
  and end_sng", is passed as the value to convert without having been set (571): the
  bounds of a climatology of one or more times a day end too late by what the memory
  held.

The following are seen in the models as well.  Each row is reproduced by giving
the constant of the configuration the definition named (kept in the MC modules
for this purpose), with the property shown; they are not among the runs, whose
requests exclude them.

| Configuration | Give | TLC reports |
|---|---|---|
| MCNcraRecords.cfg | `Requests <- DisjointRequests` | `NoRecordPastMax`, `AveragesWritten`, `NoEmptyOutput` violated |
| MCMpWorkers.cfg | INVARIANT `OneWriter` | violated |
| MCMpRecords.cfg | `Requests <- LaterRecords` | deadlock |
| MCFlOut.cfg | PROPERTY `AlwaysKeepsData` | violated |
| MCFlOut.cfg | PROPERTY `AlwaysPublishes` | violated |
| MCMsa.cfg | `Problems <- OddRequests` | `DeliversWanted` violated |
| MCMsa.cfg | INVARIANT `AlwaysPrintsDisk` | violated |
| MCMsa.cfg | `Problems <- WrappedUser` | `DeliversWanted` violated |
| MCOmpVars.cfg | `Cases <- ThreadedNcrcat` | `SameAsSerial` violated |
| MCClimo.cfg | `Cases <- VrtCases` | `OutputsRight` violated |
| MCClimo.cfg | `Cases <- OrphanCases`, INVARIANT `NoOrphans` | violated |
| MCClimo.cfg | `Cases <- AnnCases` | `OutputsRight`, `NothingStale`, `ReportsOutcome` violated |
| MCClimo.cfg | `Cases <- ZnlCases` | `OutputsRight` violated |
| MCClimo.cfg | `Cases <- LeftCases` | `OutputsRight`, `NothingStale` violated |
| MCClimo.cfg | `Cases <- DptCases`, INVARIANT `FailsForCause` | `FailsForCause`, `ReportsOutcome` violated |
| MCValues.cfg | `StatRequests <- TwoDmns` | `RecordStatistics` violated |
| MCValues.cfg | `BnRequests <- Broadcasts` | `BinaryRight` violated |
| MCValues.cfg | INVARIANT `FailsOnConflict` | violated |
| MCValues.cfg | `CalRequests <- IntegerHours` | `StampsTick` violated |
| MCExtraction.cfg | `XtrRequests <- Anchored` | `SelectsAsAsked` violated |
| MCExtraction.cfg | `XtrRequests <- Repeated` | `SelectsAsAsked` violated |
| MCExtraction.cfg | `XtrRequests <- PartOfFound` | `SelectsAsAsked` violated |
| MCExtraction.cfg | `XtrRequests <- XclBoth` | `TreeComplete` violated |
| MCExtraction.cfg | `XtrRequests <- LongChain` | `TreeComplete`, `CoordinatesInScope` violated |

**Record machine.**

- A sub-cycle carried over into the next file resumes at record 0 without a look
  at the maximum (1505), and `end_max_crr` is tested only after a record has been
  used (1838): records behind the user's maximum are read (`NoRecordPastMax`),
  although nco_lmt.c 1208 calls `idx_end_max_abs` the "Maximum allowed index in
  record dimension".
- `FLG_BFR_NRM` is one flag for all record dimensions.  When trailing files are
  superfluous for one dimension and another one is normalised later (1751), the
  average of the first is never written (`AveragesWritten`; the comment at
  2101-2102 expects it to be).
- The test for "no records" (1893) runs in the last file; a range whose maximum
  lies before its minimum completes the input in an earlier one (2082), and the
  program ends successfully without a record (`NoEmptyOutput`).
- A sub-cycle of more than two records that starts with the last record of a
  file is cut short in the next file when no sub-cycle starts there, because
  `end` is -2 then and `end_max_crr` becomes `ssc`-3 (1838) (`CarryFits`).
- nco_opr_nrm() after the file loop normalises the buffers of all dimensions,
  also those normalised in the loop (2106) (`EndsWritten`).
- The trailing write looks every variable up in the group of the last variable
  of the record loop (2143), so variables of other groups keep no average, or
  overwrite each other (`EndsWritten`).
- In interleave mode the index may equal the last desired one before the group
  is complete (1570), and the group is then normalised early.

**MPI operators.**

- Every request for work frees the token (mpncflint.c 832), also the first
  request of a worker that starts late, while another worker has the file open
  (`OneWriter`; 831 says the worker has closed the file).  The count, and so the
  move, is not affected (`MovedComplete` holds).
- In `mpncra.c` only workers increase `rec_usd_cml` (1260), and nco_lmt_evl()
  stores it for the next file (nco_lmt.c 1190).  With a limit that skips records
  (`-d time,1,`) the manager expects a record more than its workers process, and
  waits for a request that nobody sends.

**Output files.**

- The existence of the output file is tested before the work (nco_fl_utl.c 2181),
  `mv -f` (1592) comes after it.  Of two overlapping commands, one result is lost
  without a question (nco.texi 1913-1916 promises one); overlapping appends are the
  likely case.
- nco_fl_mv() takes only a positive result of system() for a failure (1634): with
  -1 nothing is moved and the command ends with success.
- A failing `cp` is not noticed in nco_fl_cp() (361): an append then replaces the
  output file by the part that was copied and the new results (`SystemFails`).

**Limits and multi-slabs.**

- On a decreasing coordinate the test for limits that bracket nothing compares
  `min_val > max_val` where it should compare the other way round (nco_lmt.c
  1897-1902): a range between two neighbours is not refused but read backwards,
  all the way round (the comment at 1871-1876 describes this fault as mended), and
  a wrapped range is refused (`OddRequests`).
- A minimum above the highest value and a blank maximum, which becomes that value, are
  taken for a wrapped range (1811-1813, 1908), and so are a maximum below the lowest
  value and a blank minimum: instead of nothing, everything is read (`OddRequests`).
- A wrapped limit among several of a dimension without coordinate leaves slabs
  unset (nco_msa.c 947-966); nco.texi 6497 does not exclude it.
- nco.texi 6586-6589 promises the order of the options with `--msa_usr_rdr`.
  nco_msa_wrp_splt_cpy() (nco_msa.c 1140-1257) puts the second half of a wrapped slab at
  the end of the list: `-d x,3,1 -d x,2,2` reads 3,4,2,0,1 (`WrappedUser`).
- nco_msa_ram_2_dsk() (393-466) takes no notice of `MSA_USR_RDR`: with `--msa` the
  printed indices are those of the sorted slabs; and if the first half of a
  wrapped slab has one element, its stride is lost (`AlwaysPrintsDisk`).

**Threads.**

- The manual (nco.texi 2964) expects the same answers with and without threads.  The
  directive at ncra.c 1594 shares `grp_id`, `grp_out_fll`, `grp_out_id`, `var_out_id`
  and `var_trv`, which every iteration assigns and uses later: a thread writes its
  record to the variable another thread has just looked up (`ThreadedNcrcat`).  By
  default nco_openmp_ini() gives `ncra` one thread; `--thr_nbr` gives more.

**Batch scripts.**

- With `--dpt` or `--dpt_fl` ncremap should add a depth coordinate (help at ncremap 835;
  nco.texi 20179).  Line 3527 has `${fl_in[${fl_idx}]}=` where a name must stand; bash
  runs the line as a command, which does not exist (status 127), and errexit (69)
  ends the script before the first depth coordinate is added (`DptCases`).
- The file into which ncremap interpolates vertically is called after the position
  of the input file only (ncremap 3771, 3859), always 0 in the background jobs of
  ncclimo: jobs read each other's (`VrtCases`).  All other temporary files have a
  unique suffix (nco.texi 29658-29664).
- With `set -o errexit` (ncclimo 56, ncremap 69) a failing `wait` ends the script;
  the loops that kill the remaining jobs (ncclimo 3560, 3624, 3692, 3937; ncremap)
  are never reached, and the jobs go on writing (`OrphanCases`).
- The annual mode waits with a plain `wait` (3752, 3768), whose status is 0
  whatever the jobs did: a failure is reported as success (`AnnCases`).
- `ncwa_fl` is shared by the background jobs of `ncremap -P` with zonal means; the
  comment at 3917 knows (`ZnlCases`).
- In high-frequency mode the per-time-step files are found by `${MM}_tpd*`
  (ncclimo 3099), which also finds one left by earlier years (`LeftCases`).
- `job_nbr` is documented as the number of simultaneous jobs (nco.texi
  20311-20316); monthly mode starts all its regridding at once (4025-4058).

**Arithmetic.**  The requests of `MCStatistics` leave out what follows, each next to
the condition that does so or by not having the option:

- `ncra -w` with two record dimensions multiplies all variables, those of other
  dimensions included (1753-1759) (`TwoDmns`); without `_FillValue` it divides by
  the number of records, not by the sum of the weights, which differs when files
  have different numbers of records; coordinates have no sum of weights, and with
  missing values are divided by zero (`WgtWorks`); `wgt_avg` is increased only with
  the last variable (1691).
- nco_var_cnf_dmn() stretches the operand of lesser rank into a duplicate of the
  greater one (nco_cnf_dmn.c 209) and so changes its `missing_value` before
  nco_mss_val_cnf() could translate the values; missing values of the lesser
  operand are then used as numbers, although nco_grp_utl.c 4859 says they are
  changed (`Broadcasts`).
- `ncflint -N` divides the second weight by a sum that contains the first one
  after its normalisation (880-881).
- `ncwa -y tabs` takes no absolute values (1051-1055; nco.texi 12080).
- ncbo combines operands of equal rank and sizes element by element even if the
  order of the dimensions differs, and does not compare sizes when the ranks
  differ.  If only one operand has a missing value it may be lost in the output's
  metadata.
- A sum or product that happens to equal the missing value counts as missing in
  what follows (`MssVals`).

**Re-ordering.**

- The manual (nco.texi 25827) says that a re-ordering fails if it requires more than
  one record dimension.  The code honours the first request and goes on, with a
  warning at debugging levels only (nco_grp_utl.c 6217-6222); in netCDF3 it then
  depends on the order of the variables whether the library refuses the output
  (`FailsOnConflict`).

**Calendars.**

- Converted values go back to the type of the coordinate (1125, nco_cnf_typ.c 362).
  For integers, days since one date and hours since another become whole days:
  times of a day coincide, where nco.texi 8875 gives just this example
  (`IntegerHours`).
- The return code of nco_clm_nfo_to_tm_bnds() is ignored (ncra.c 1309).  A converted
  time that equals the missing value is printed as missing (nco_cln_utl.c 1350).

**Extraction.**

- nco.texi 4848 says that `-g /g1` does not extract `/g2/g1`, and 4888 that `-v /g1/v1`
  does not extract `/g2/g1/v1`.  The string, slash included, is searched anywhere in
  the full name (nco_grp_utl.c 764); the test for anchoring (805) asks whether the
  match begins at a slash, as it always does for such a string; variables are not
  tested.  Both are extracted (`Anchored`).
- For groups only the first occurrence of a string in a full name is looked at
  (nco_grp_utl.c 769): `-g g` does not find `/ga/g`, whose first g is part of `ga`
  (`Repeated`; the comment at 757-761 speaks of such names).  For variables only
  the last is, and its end is compared with the string, not with the name: `-v a/v`
  also selects `/a/v/b/v`.
- A string counts as found if it is part of the full name of an object that any
  string has matched (828): `-v tb,b` reports nothing although there is no `b`
  (`PartOfFound`).  A regular expression that matches nothing is no error (734),
  although the message at 851 mentions it.
- With `-x`, `-g` and `-v` the variables of `flg_mch` are more than those excluded, and
  nco_xtr_xcl_chk() (1038) stops the command because of others (`XclBoth`).  With `-x` all
  groups get `flg_xcl` (1006), and groups that hold only metadata are dropped whatever
  was to be excluded.  `--gxvx` with `--unn` or with one list toggles what it has just
  selected, and extracts nothing of it.
- Two passes over the CF attributes (7749-7766) reach what is named through two
  attributes, not always through three; and the coordinates of variables added by
  them are not added, since nco_xtr_crd_ass_add() comes before (7738)
  (`LongChain`).
- nco_crd_var_dmn_scp() (3982) and nco_scp_var_crd() (4114) compare depths and
  lengths of names, not ancestry: a variable without a coordinate of its own gets
  that of a group beside it if that is less deep (`LongChain`, in the file `Odd`).

**Seen in the code, outside the models.**

- nco_var_dmn_rdr_val_trv() sizes `dmn_idx_out_in` by the dimensions of the variable it
  visits (nco_grp_utl.c 6315) and fills as many places as the other variable has
  (6366-6367), which may be more.  In `DmnRdr` a map has the length it needs (`Mrk`).
- The loop over variables also shares `var_prc_typ_pre_prm` (ncra.c 1594, set at 1669,
  used at 1730), the type of packed data.  `OmpVars` has the shared identifiers only.
- The list in `cell_measures` and `formula_terms` is taken apart by looking for `": "`
  (nco_grp_utl.c 1552-1559); where a second blank follows, the name found is empty.
  `Extraction` starts from the names an attribute lists (`CfAss`).
- `ncwa` and `ncbo` keep an operand stretched to one variable for the next (nco_cnf_dmn.c 78).
  `NcwaVar` and `BinaryVar` process one variable, and do not show what that may spoil.

**Faults the properties above do not speak of.**  `KeepsData` and `SuccessPublishes` hold
until commands overlap or a system command fails, and so do not catch the loss of an
output file by two commands (nco_fl_utl.c 2181), a `cp` that fails half-way (361) or a
result of -1 of system() (1634), which the models contain: `AlwaysKeepsData` and
`AlwaysPublishes` do.  `CoordinatesInScope` is checked on trees in which no coordinate stands
in a group beside the variable's path; `LongChain` has one.

## 6. What is left

1. `FlOut` extended by in-place editing, and a script of several operators over it.
2. The pairs of objects `ncbo` makes of two traversal tables; the ensembles of `ncge`;
   several variables in `NcwaVar` and `BinaryVar`, with the weight they share.
3. Proofs: `SelectionSpec` with sub-cycles, first within one file, then cut by files;
   `OutputNeverRewritten` for `ncra` with several record dimensions; that every script of
   `ClimoBatch` is `Ordered` and `Serializable`, for any number of months and variables.
4. Out of the prover's reach: liveness, and what is computed by RECURSIVE operators
   (`MsaArray`, `Extraction`).
