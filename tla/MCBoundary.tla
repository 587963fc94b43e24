----------------------------- MODULE MCBoundary -----------------------------
(***************************************************************************)
(* Instance of Boundary: the values of its constants.                      *)
(***************************************************************************)
EXTENDS Boundary

-----------------------------------------------------------------------------
(* Tensors: every rank up to three, compact and not, empty, broadcast and  *)
(* negative; sub-byte elements, also described as tensors of reads and     *)
(* maps; offsets; overrides that fit and do not.                           *)

Described(layouts, bits, lanes, offsets) ==
  {[shape |-> l[1], strides |-> l[2], bits |-> b, lanes |-> n, offset |-> f, backing |-> None] :
     l \in layouts, b \in bits, n \in lanes, f \in offsets}

MCNative ==
  Described({<<<<2>>, <<1>>>>, <<<<0>>, <<1>>>>, <<<<2, 3>>, <<3, 1>>>>,
             <<<<2, 2, 2>>, <<4, 2, 1>>>>, <<<<1, 4, 1>>, <<4, 1, 1>>>>}, {8}, {1}, {0, 1})

MCForeign ==
  LET shapes == {<<>>, <<2>>, <<2, 2>>, <<2, 3>>, <<2, 1, 2>>, <<0, 2>>, <<-1>>, <<-2, -1>>}
      strides == {<<>>, <<1>>, <<2>>, <<0>>, <<-1>>, <<1, 2>>, <<0, 1>>, <<2, 1>>, <<3, 1>>, <<4, 1>>,
                  <<2, 2, 1>>, <<4, 2, 1>>}
  IN  Described({l \in shapes \X ({None} \cup strides) : l[2] # None => Len(l[2]) = Len(l[1])},
                {6, 8}, {0, 1, 2, 5}, {0, 1})

MCArrays == Described({<<<<2>>, None>>, <<<<4>>, None>>, <<<<2, 2>>, None>>}, {8, 16}, {1}, {0})

MCRedescriptions ==
  [bits : {None}, lanes : {1}, shape : {None, <<2>>, <<1>>, <<2, 2>>, <<3>>}, ndim : {None, 1, 2},
   strides : {None, <<1>>, <<2>>, <<2, 1>>, <<0, 1>>}]
    \cup [bits : {6, 8}, lanes : {0, 1, 2, 4, 5}, shape : {None, <<2>>, <<1>>, <<2, 2>>}, ndim : {None, 1, 2},
          strides : {None, <<1>>, <<2>>, <<2, 1>>}]

(* Names: none at all, the empty one, one, and two.                        *)
MCStrings == {<<>>, <<"">>, <<"a">>, <<"b", "a">>}

(* Writes: integers on both sides of 0 and of 2^2, which stands for the    *)
(* 32 bits of counts and map entries and the 64 of mask words.             *)
UpTo(n, S1) == UNION {[1 .. k -> S1] : k \in 0 .. n}
MCCounts == {None} \cup (-1 .. 6)
MCMaps == {None} \cup UpTo(3, {-1, 0, 1, 2, 4})
MCMasks == {None} \cup UpTo(2, {-1, 1, 2, 4})

(* Arguments: on both sides of 0, of -2^4, of 2^5, which stands for 2^32,  *)
(* and of 2^6, which stands for 2^64.                                      *)
MCValues == (-40) .. 72

=============================================================================
