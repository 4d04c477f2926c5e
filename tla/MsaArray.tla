------------------------------ MODULE MsaArray ------------------------------
(***************************************************************************)
(* The reading of a whole variable: nco_msa_rcr_clc() recurses over the    *)
(* dimensions and copies the buffers of the slabs together in memory.      *)
(* Memory is a function from 0 .. size - 1 to the element stored there, a  *)
(* sequence of disk indices, one per dimension.                            *)
(***************************************************************************)
EXTENDS MsaRead

-----------------------------------------------------------------------------
(* One dimension of a variable: its slabs, its size in memory and the      *)
(* pieces it is put together from.                                         *)

Lst(lmt, cnt, rds) == [lmt |-> lmt, dmn_cnt |-> cnt, rds |-> rds]
OneByOne(lmt) ==
  [i \in DOMAIN lmt |-> [slb |-> i, srt |-> 0, cnt |-> lmt[i].cnt]]
ElementsOf(d) == Elements(d.lmt, d.rds)

Product(s) == FoldFunction(LAMBDA x, y : x * y, 1, s)

\* What nco_get_vars() returns for one slab in every dimension.
ReadLbl(lmt) ==
  LET lcnt(d) == Product([i \in 1..(Len(lmt) - d) |-> lmt[d + i].cnt])
  IN  [p \in 0..(lcnt(0) - 1) |->
         [d \in DOMAIN lmt |->
            lmt[d].srt + lmt[d].srd * ((p \div lcnt(d)) % lmt[d].cnt)]]

\* memcpy() of every piece into memory: row n of a piece starts at
\* fst + n * cp_inc and comes from its slab's buffer at srt * lcnt + n * stp,
\* where stp is the size of a row of that buffer.
CopiedFrom(d, bufs, lcnt, var_sz, row(_)) ==
  LET cp_inc == lcnt * d.dmn_cnt
      fst(r) == lcnt * FoldFunction(+, 0, [i \in 1..(r - 1) |-> d.rds[i].cnt])
      at(r, p) ==
        LET rd == d.rds[r]
            src == rd.srt * lcnt + (p \div cp_inc) * lcnt * row(rd.slb)
                     + ((p % cp_inc) - fst(r))
        IN  IF src \in DOMAIN bufs[rd.slb] THEN bufs[rd.slb][src] ELSE "overrun"
      holds(r, p) == (p % cp_inc) \in fst(r)..(fst(r) + lcnt * d.rds[r].cnt - 1)
  IN  IF fst(Len(d.rds) + 1) > cp_inc THEN "overrun"
      ELSE [p \in 0..(var_sz - 1) |->
              IF \E r \in DOMAIN d.rds : holds(r, p)
              THEN at(CHOOSE r \in DOMAIN d.rds : holds(r, p), p) ELSE "unset"]
\* (CopiedWide: a faulty variant that takes rows of the size of the result.)
CopiedWide(d, bufs, lcnt, var_sz) ==
  CopiedFrom(d, bufs, lcnt, var_sz, LAMBDA slb : d.dmn_cnt)
Copied(d, bufs, lcnt, var_sz) ==
  CopiedFrom(d, bufs, lcnt, var_sz, LAMBDA slb : d.lmt[slb].cnt)

\* lmt holds the slab chosen in each dimension in front of dpt.
RECURSIVE RcrClc(_, _, _)
RcrClc(dpt, lmt, lst) ==
  IF dpt > Len(lst) THEN ReadLbl(lmt)
  ELSE LET d == lst[dpt]
           buf(i) == RcrClc(dpt + 1, Append(lmt, d.lmt[i]), lst)
           lcnt == Product([i \in 1..(Len(lst) - dpt) |-> lst[dpt + i].dmn_cnt])
           var_sz == Product([i \in DOMAIN lst |->
                                IF i < dpt THEN lmt[i].cnt ELSE lst[i].dmn_cnt])
       IN  IF Len(d.lmt) = 1 THEN buf(1)
           ELSE Copied(d, [i \in DOMAIN d.lmt |-> buf(i)], lcnt, var_sz)
VarGet(lst) == RcrClc(1, <<>>, lst)

RowMajor(s, t) ==
  [p \in 0..(Len(s) * Len(t) - 1) |->
     <<s[1 + (p \div Len(t))], t[1 + (p % Len(t))]>>]
=============================================================================
