------------------------------- MODULE Writes -------------------------------
(***************************************************************************)
(* Which rows a write puts at which prims (Stage._build_write_data, and    *)
(* the checks of types.py it relies on).                                   *)
(*                                                                         *)
(* The caller may bound a write by a count and thin it out by an index map *)
(* or a mask.  The C structure has a field for each, fixed-width and        *)
(* without a length: a zero count means the whole query, map and mask are  *)
(* read as far as the count says, and an integer that does not fit becomes *)
(* another one that does.  The instance narrows the integers so that these *)
(* cases are a few values away.                                            *)
(***************************************************************************)
EXTENDS Integers, Sequences

CONSTANTS
  None,     \* an argument left out
  Modulus,  \* 2^32: the count and the entries of a map are uint32
  WordBits, \* 64: the bits of a word of the mask
  Counts,   \* the counts,
  Maps,     \* index maps,
  Masks,    \* masks
  Tensors,  \* and numbers of tensors, or of rows of one, callers pass
  Prims     \* how many prims the query may cover when the write runs

VARIABLES
  ask,     \* the arguments
  phase,   \* "asked", "refused", "passed", "rejected" or "done"
  data,    \* the C structure, once it is passed
  query,   \* prims of the query, once the write runs
  written  \* prim -> row, once the write is done

vars == <<ask, phase, data, query, written>>

-----------------------------------------------------------------------------
(* The checks                                                              *)

Fits(value, bound) == value \in 0 .. (bound - 1)

(* Slip: the upper bound is not checked.                                   *)
CheckedCountSlip(count) == count # None => count >= 0

(* check_write_count                                                       *)
CheckedCount(count) == count # None => Fits(count, Modulus)

(* check_index_map, check_mask                                             *)
CheckedMap(map) == \A i \in DOMAIN map : Fits(map[i], Modulus)
CheckedMask(mask) == \A i \in DOMAIN mask : Fits(mask[i], 2 ^ WordBits)

(* The count a map comes with: its own length if the caller gives none.    *)
Resolved(a) == IF a.count = None THEN Len(a.map) ELSE a.count

Accepted(a) ==
  /\ a.map = None \/ a.mask = None
  /\ CheckedCount(a.count)
  /\ a.rows > 0
  /\ a.map # None => CheckedMap(a.map) /\ Resolved(a) \in 1 .. Len(a.map)
  /\ a.mask # None => /\ CheckedMask(a.mask)
                      /\ a.count # None /\ a.count \in 1 .. (Len(a.mask) * WordBits)
  /\ a.map = None /\ a.mask = None => a.count # 0

(* The structure: what does not fit its field wraps, as ctypes does.       *)
Marshalled(a) ==
  [count |-> (IF a.map # None THEN Resolved(a) ELSE IF a.count = None THEN 0 ELSE a.count) % Modulus,
   map   |-> IF a.map = None THEN None ELSE [i \in DOMAIN a.map |-> a.map[i] % Modulus],
   mask  |-> IF a.mask = None THEN None ELSE [i \in DOMAIN a.mask |-> a.mask[i] % 2 ^ WordBits],
   rows  |-> a.rows]

Build ==
  /\ phase = "asked"
  /\ IF Accepted(ask) THEN phase' = "passed" /\ data' = Marshalled(ask)
                      ELSE phase' = "refused" /\ UNCHANGED data
  /\ UNCHANGED <<ask, query, written>>

-----------------------------------------------------------------------------
(* The native side (ovstage_write_data_t)                                  *)

Elements(d, prims) == IF d.count = 0 THEN prims ELSE d.count

Bit(mask, i) == (mask[i \div WordBits + 1] \div 2 ^ (i % WordBits)) % 2 = 1

(* Entries of the map, and words of the mask, that it reads; a zero count  *)
(* leaves both unread.                                                     *)
MapReads(d) == IF d.map = None THEN 0 ELSE d.count
MaskReads(d) == IF d.mask = None THEN 0 ELSE (d.count + WordBits - 1) \div WordBits

InBounds(d) ==
  /\ d.map # None => MapReads(d) <= Len(d.map)
  /\ d.mask # None => MaskReads(d) <= Len(d.mask)

Row(d, i) == IF d.map = None \/ d.count = 0 THEN i ELSE d.map[i + 1]

Selected(d, prims) ==
  {i \in 0 .. (Elements(d, prims) - 1) : d.mask = None \/ d.count = 0 \/ Bit(d.mask, i)}

Rejected(d, prims) ==
  \/ d.count > prims
  \/ d.map = None /\ d.rows # Elements(d, prims)
  \/ d.map # None /\ \E i \in 0 .. (Elements(d, prims) - 1) : Row(d, i) >= d.rows

Execute ==
  /\ phase = "passed"
  /\ query' \in Prims
  /\ IF Rejected(data, query')
     THEN phase' = "rejected" /\ UNCHANGED written
     ELSE /\ phase' = "done"
          /\ written' = [i \in Selected(data, query') |-> Row(data, i)]
  /\ UNCHANGED <<ask, data>>

Init ==
  /\ ask \in [count : Counts, map : Maps, mask : Masks, rows : Tensors]
  /\ phase = "asked" /\ data = None /\ query = None /\ written = <<>>

Next == Build \/ Execute

Spec == Init /\ [][Next]_vars

-----------------------------------------------------------------------------
(* Correctness                                                             *)

(* What the arguments mean: prims are counted from the start of the query, *)
(* all of it unless a count, or the length of the map, says how many; the  *)
(* map says which row goes where and the mask which prims are left alone.  *)
Addressed(a) ==
  CASE a.count # None -> 0 .. (a.count - 1)
    [] a.count = None /\ a.map # None -> 0 .. (Len(a.map) - 1)
    [] OTHER -> 0 .. (query - 1)

Asked(a) ==
  [i \in {i \in Addressed(a) : a.mask = None \/ Bit(a.mask, i)} |->
     IF a.map = None THEN i ELSE a.map[i + 1]]

(* A write that is carried out puts at every prim the row the caller       *)
(* asked for and leaves the others alone: no zero count, wrapped count,    *)
(* wrapped row or short mask turns it into another one, and the native     *)
(* side never reads past the end of a map or a mask (_build_write_data     *)
(* 556-649, check_write_count 108-130).                                    *)
WritesAsAsked ==
  /\ phase = "passed" => InBounds(data)
  /\ phase = "done" => written = Asked(ask)

=============================================================================
