------------------------------- MODULE MCMsa -------------------------------
(* Small instances of MsaRead, and what a user is promised: which elements  *)
(* of the dimension arrive in memory, in which order, however the request   *)
(* is split, sorted, merged and read.                                       *)
EXTENDS MsaArray

CONSTANTS Ends, Strides, Values, Coordinates, Users

Blank == 99
Given(x) == IF x = Blank THEN <<>> ELSE <<x>>
Idx(mn, mx, sr) ==
  [typ |-> "idx", min |-> Given(mn), max |-> Given(mx), srd |-> sr, fort |-> FALSE]
Crd(mn, mx, sr) == [Idx(mn, mx, sr) EXCEPT !.typ = "crd"]
Request(sz, crd, lmt, usr) == [sz |-> sz, crd |-> crd, lmt |-> lmt, usr |-> usr]
Rising(sz) == [i \in 1..sz |-> 10 * i]

-----------------------------------------------------------------------------
(* Properties; those of one dimension are in MsaRead *)

\* In a two-dimensional variable whose other dimension is read through one
\* slab, merged slabs or a wrapped slab, in front or behind, every element is
\* where C order puts it, and no copy runs over the end of the memory.
Others ==
  LET one == <<Piece(1, 2, 1)>>
      two == <<Piece(0, 2, 1), Piece(0, 2, 2)>>
      wrp == <<Piece(2, 2, 1), Piece(0, 1, 1)>>
  IN  {Lst(one, 2, OneByOne(one)), Lst(wrp, 3, OneByOne(wrp)),
       Lst(two, 3, <<[slb |-> 1, srt |-> 0, cnt |-> 2],
                     [slb |-> 2, srt |-> 1, cnt |-> 1]>>)}
ArrayInOrder ==
  phase = "done" =>
    LET this == Lst(lmt_dmn, dmn_cnt, reads)
    IN  \A other \in Others :
          \A lst \in {<<this, other>>, <<other, this>>} :
            VarGet(lst) = RowMajor(ElementsOf(lst[1]), ElementsOf(lst[2]))

-----------------------------------------------------------------------------
(* Instances *)

SmallCoordinates == {<<10>>, <<10, 20, 30, 40, 50>>, <<50, 40, 30, 20, 10>>}

OneIdx ==
  {Request(sz, <<>>, <<[Idx(mn, mx, sr) EXCEPT !.fort = f]>>, FALSE) :
     sz \in {1, 2, 3, 7}, mn \in Ends \cup {-2, Blank}, mx \in Ends \cup {-1, Blank},
     sr \in Strides, f \in BOOLEAN}
OneCrd ==
  {Request(Len(c), c, <<Crd(mn, mx, sr)>>, FALSE) :
     c \in Coordinates, mn \in Values \cup {Blank}, mx \in Values \cup {Blank},
     sr \in Strides}
Straight == {Idx(mn, mx, sr) : mn \in Ends, mx \in Ends, sr \in {1, 2}}
Slabs == {l \in Straight : l.min[1] <= l.max[1] /\ {l.min[1], l.max[1]} \subseteq {0, 1, 2, 4}}
Two == {Request(5, c, <<l, m>>, u) :
          c \in {<<>>, Rising(5)}, l \in Slabs, m \in Slabs, u \in Users}
Three == {Request(5, Rising(5), <<l, m, n>>, FALSE) :
            l \in Slabs, m \in Slabs, n \in {Idx(1, 4, 3), Idx(0, 4, 2), Idx(2, 2, 1)}}
WrappedOfTwo ==
  {Request(5, Rising(5), p, FALSE) :
     p \in {<<Idx(3, 1, sr), l>> : l \in Slabs, sr \in {1, 2}}
           \cup {<<l, Idx(4, 0, sr)>> : l \in Slabs, sr \in {1, 2}}
           \cup {<<Idx(3, 0, 1), Idx(4, 2, 2)>>}}

\* A maximum beyond the dimension, which the stride steps over or meets.
Far == {Request(5, c, <<l, m>>, u) :
          c \in {<<>>, Rising(5)}, l \in Slabs, m \in {Idx(0, 6, 4), Idx(1, 6, 2)},
          u \in Users}

Requests == OneIdx \cup OneCrd \cup Two \cup Three \cup WrappedOfTwo \cup Far
GoodRequests == {p \in Requests : Kept(p)}
OddRequests == Requests \ GoodRequests

\* A wrapped limit before another one, in the order of the user.
WrappedUser == {Request(5, Rising(5), <<Idx(3, 1, 1), Idx(2, 2, 1)>>, TRUE)}
=============================================================================
