------------------------------- MODULE Tensors -------------------------------
(***************************************************************************)
(* Tensor descriptors and what the binding makes of them (dlpack.py).      *)
(*                                                                         *)
(* A tensor is described by shape, strides, element type and byte offset;  *)
(* the storage is somebody else's.  Descriptors are rewritten on the way:  *)
(* a producer's is copied, trailing dimensions are folded into vector      *)
(* lanes, the tensors of reads and maps become write input, lanes become a *)
(* dimension when a capsule is made, and a flat numpy view forgets shape   *)
(* and strides.  None of this may change which bits of the storage are     *)
(* read, or in which order, as long as what callers describe as a tensor   *)
(* of a read or map has scalars of whole bytes, as those have; and a view  *)
(* must stay inside the storage.                                           *)
(*                                                                         *)
(* The state is one descriptor, and what it was when it came in.           *)
(***************************************************************************)
EXTENDS Integers, Sequences

CONSTANTS
  None,          \* an optional field that is not there
  MaxLanes,      \* _MAX_DLPACK_LANES, 255
  NativeTensors, \* tensors of reads and maps: one lane, compact strides
  ForeignTensors,\* what DLPack producers describe
  Arrays,        \* numpy arrays: contiguous, one lane
  Redescriptions,\* layout overrides callers pass: records of bits, lanes,
                 \* shape, ndim and strides, None where one is not given
  MaxSteps       \* bound: conversions in a row

VARIABLES
  tensor,    \* the descriptor
  form,      \* whose it is: "native", "array", "described", "foreign",
             \* "typed", "view", or "none" once it was refused
  room,      \* bytes of storage behind it
  positions, \* where the bits were that the descriptor first spoke of, or
             \* speaks of since a caller redescribed or moved them
  steps

vars == <<tensor, form, room, positions, steps>>

(* A descriptor: strides may be None, for compact row-major; backing is    *)
(* what the binding knows of the size of the storage, None for a raw one.  *)
Descriptor(shape, strides, bits, lanes, offset, backing) ==
  [shape |-> shape, strides |-> strides, bits |-> bits, lanes |-> lanes,
   offset |-> offset, backing |-> backing]

-----------------------------------------------------------------------------
(* Reference: which bits a descriptor speaks of                            *)

(* The product of the last n dimensions, for every n.                      *)
Spans(shape) ==
  LET P[n \in 0 .. Len(shape)] == IF n = 0 THEN 1 ELSE shape[Len(shape) - n + 1] * P[n - 1]
  IN  P

Product(shape) == Spans(shape)[Len(shape)]

Total(s) ==
  LET S[n \in 0 .. Len(s)] == IF n = 0 THEN 0 ELSE s[Len(s) - n + 1] + S[n - 1]
  IN  S[Len(s)]

ItemBytes(t) == (t.bits * t.lanes + 7) \div 8
Count(t) == Product(t.shape)

(* _compact_row_major_strides                                              *)
Compact(shape) == [d \in DOMAIN shape |-> Spans(shape)[Len(shape) - d]]

Strides(t) == IF t.strides = None THEN Compact(t.shape) ELSE t.strides

(* The offset, in elements, of the k-th element in row-major order.        *)
Element(t, k) ==
  Total([d \in DOMAIN t.shape |->
           ((k \div Compact(t.shape)[d]) % t.shape[d]) * Strides(t)[d]])

IsCompact(t) == t.strides \in {None, Compact(t.shape)}

Nonnegative(t) == \A d \in DOMAIN t.shape : t.shape[d] >= 0

(* The bit at which the k-th scalar, lane by lane, starts.  A negative     *)
(* dimension names no elements.                                            *)
Positions(t) ==
  [k \in {n \in 0 .. (Count(t) * t.lanes - 1) : Nonnegative(t)} |->
     8 * (t.offset + Element(t, k \div t.lanes) * ItemBytes(t)) + (k % t.lanes) * t.bits]

-----------------------------------------------------------------------------
(* Ingest (from_dlpack, make_dltensor)                                     *)

LanesOK(lanes) == lanes \in 1 .. MaxLanes

(* What the producer says its buffer holds, None when it cannot be told.   *)
DescribedExtent(t) ==
  IF \/ ~Nonnegative(t)
     \/ t.strides # None /\ \E d \in DOMAIN t.strides : t.strides[d] < 0
  THEN None
  ELSE t.offset + ItemBytes(t)
         * (IF t.strides = None THEN Count(t)
            ELSE IF \E d \in DOMAIN t.shape : t.shape[d] = 0 THEN 0
            ELSE 1 + Total([d \in DOMAIN t.shape |-> (t.shape[d] - 1) * t.strides[d]]))

Backed(t, size) == Descriptor(t.shape, t.strides, t.bits, t.lanes, t.offset, size)

Ingested(t) == Backed(t, DescribedExtent(t))

(* A numpy array is described as the caller says, checked only so that     *)
(* every slot of shape and strides the native side reads exists.           *)
CanDescribe(a, o) ==
  LET shape == IF o.shape = None THEN a.shape ELSE o.shape
      ndim == IF o.ndim = None THEN Len(shape) ELSE o.ndim
  IN  /\ ndim <= Len(shape)
      /\ o.strides # None => Len(o.strides) >= ndim
      /\ o.bits # None => LanesOK(o.lanes)

Described(a, o) ==
  LET shape == IF o.shape = None THEN a.shape ELSE o.shape
      ndim == IF o.ndim = None THEN Len(shape) ELSE o.ndim
  IN  Descriptor(SubSeq(shape, 1, ndim),
                 IF o.strides = None THEN None ELSE SubSeq(o.strides, 1, ndim),
                 IF o.bits = None THEN a.bits ELSE o.bits,
                 IF o.bits = None THEN 1 ELSE o.lanes, a.offset, a.backing)

-----------------------------------------------------------------------------
(* Folding trailing dimensions into lanes (_fold_dlpack_producer_layout)   *)

Factor(t, lanes) == lanes \div t.lanes

(* The number of trailing dimensions that make up the factor; complete     *)
(* ones, and no more than are needed.                                      *)
Foldable(t, lanes) == {m \in 0 .. Len(t.shape) : Spans(t.shape)[m] = Factor(t, lanes)}

FoldedShape(t, lanes) ==
  LET m == CHOOSE m \in Foldable(t, lanes) : \A n \in Foldable(t, lanes) : m <= n
  IN  IF Factor(t, lanes) > 1 /\ m = Len(t.shape) THEN <<1>>
      ELSE SubSeq(t.shape, 1, Len(t.shape) - m)

(* Slip: sub-byte elements, which are padded, are folded like any other.   *)
AlignedSlip(t, lanes) == TRUE

Aligned(t, lanes) == Factor(t, lanes) > 1 => (t.bits * t.lanes) % 8 = 0

Folded(t, o) ==
  Descriptor(FoldedShape(t, o.lanes), o.strides, t.bits, o.lanes, t.offset, t.backing)

CanFold(t, o) ==
  /\ o.bits # None
  /\ Nonnegative(t) /\ IsCompact(t)
  /\ o.bits > 0 /\ o.bits = t.bits
  /\ LanesOK(o.lanes) /\ o.lanes >= t.lanes /\ o.lanes % t.lanes = 0
  /\ Aligned(t, o.lanes)
  /\ Foldable(t, o.lanes) # {}
  /\ o.shape \in {None, FoldedShape(t, o.lanes)}
  /\ o.ndim \in {None, Len(FoldedShape(t, o.lanes))}
  /\ o.strides \in {None, Compact(FoldedShape(t, o.lanes))}
  /\ Count(t) * ItemBytes(t) = Count(Folded(t, o)) * ItemBytes(Folded(t, o))

-----------------------------------------------------------------------------
(* Read and map tensors as write input (typed_tensor_to_write)             *)

(* Lanes are packed, whereas an element starts at a whole byte.  Putting   *)
(* several scalars of a fraction of a byte into lanes, or taking them out, *)
(* speaks of other bits.  Neither typed_tensor_to_write nor the capsule    *)
(* looks at the width: the former is for "a known OVStage read/map         *)
(* descriptor", whose scalars are whole bytes, and a caller who describes  *)
(* others as one is on his own.                                            *)
Moves(t, lanes) == t.bits % 8 # 0 /\ lanes > 1

Components(t) == Spans(t.shape)[Len(t.shape) - 1]

CanType(t) ==
  /\ Len(t.shape) \in 1 .. 3 /\ t.lanes = 1 /\ t.shape[1] >= 0
  /\ \A d \in 2 .. Len(t.shape) : t.shape[d] > 0
  /\ Components(t) <= MaxLanes
  /\ t.strides # None =>
       /\ \A d \in 2 .. Len(t.shape) : t.strides[d] = Compact(t.shape)[d]
       /\ t.strides[1] >= 0 /\ t.strides[1] % Components(t) = 0

Typed(t) ==
  Descriptor(<<t.shape[1]>>,
             <<(IF t.strides = None THEN Components(t) ELSE t.strides[1]) \div Components(t)>>,
             t.bits, Components(t), t.offset, None)

-----------------------------------------------------------------------------
(* Export: a capsule has one lane and no strides (_to_dlpack_capsule)      *)

Exported(t) ==
  Descriptor(IF t.lanes > 1 THEN Append(t.shape, t.lanes) ELSE t.shape, None,
             t.bits, 1, t.offset, t.backing)

-----------------------------------------------------------------------------
(* A flat numpy view (dltensor_to_numpy)                                   *)

ViewBytes(t) == t.offset + (Count(t) * t.lanes * t.bits) \div 8

(* Slip: the offset is not counted.                                        *)
FitsSlip(t) == t.backing # None => ViewBytes(t) - t.offset <= t.backing

Fits(t) == t.backing # None => ViewBytes(t) <= t.backing

CanView(t) == /\ t.bits \in {8, 16, 32, 64} /\ LanesOK(t.lanes)
              /\ Count(t) >= 0 /\ (Count(t) = 0 \/ Fits(t))

View(t) == Descriptor(<<Count(t) * t.lanes>>, None, t.bits, 1, t.offset, t.backing)

-----------------------------------------------------------------------------
Start(t, f, size) ==
  /\ tensor = t /\ form = f /\ room = size
  /\ positions = Positions(t)
  /\ steps = 0

Init ==
  \/ \E t \in NativeTensors : Start(t, "native", t.offset + Count(t) * ItemBytes(t))
  \/ \E t \in Arrays :
       LET size == Count(t) * ItemBytes(t) IN Start(Backed(t, size), "array", size)
  \/ \E t \in ForeignTensors :
       IF LanesOK(t.lanes)
       THEN Start(Ingested(t), "foreign", IF DescribedExtent(t) = None THEN 0 ELSE DescribedExtent(t))
       ELSE Start(t, "none", 0)

Becomes(t, f, moved) ==
  /\ steps < MaxSteps /\ steps' = steps + 1
  /\ tensor' = t /\ form' = f
  /\ positions' = IF moved THEN Positions(t) ELSE positions
  /\ UNCHANGED room

(* A refused conversion raises; the descriptor is thrown away.             *)
Refused ==
  /\ form' = "none"
  /\ UNCHANGED <<tensor, room, positions, steps>>

(* make_dltensor with overrides: the caller's word replaces what the array *)
(* said of itself; a producer's layout may only be folded.                 *)
Redescribe(o) ==
  /\ form = "array" /\ steps < MaxSteps
  /\ IF CanDescribe(tensor, o)
     THEN /\ tensor' = Described(tensor, o)
          /\ positions' = Positions(Described(tensor, o))
          /\ form' = "described" /\ steps' = steps + 1
          /\ UNCHANGED room
     ELSE Refused

Fold(o) ==
  /\ form = "foreign"
  /\ IF CanFold(tensor, o) THEN Becomes(Folded(tensor, o), "foreign", FALSE) ELSE Refused

(* For tensors of reads and maps, or an array described as one.             *)
TypeForWrite ==
  /\ form \in {"native", "described"}
  /\ IF CanType(tensor)
     THEN Becomes(Typed(tensor), "typed", Moves(tensor, Components(tensor)))
     ELSE Refused

(* A ManagedDLTensor of a compact tensor, taken in again by from_dlpack,   *)
(* which believes what it says: a caller does not pass on more than it has. *)
PassOn ==
  /\ form \in {"native", "typed"} /\ IsCompact(tensor) /\ DescribedExtent(Exported(tensor)) <= room
  /\ Becomes(Ingested(Exported(tensor)), "foreign", Moves(tensor, tensor.lanes))

(* The view of a strided tensor, or of one whose negative dimensions       *)
(* cancel, is its raw buffer.                                              *)
ViewFlat ==
  /\ form \notin {"none", "view"}
  /\ IF CanView(tensor)
     THEN /\ tensor' = View(tensor) /\ form' = "view"
          /\ positions' = IF IsCompact(tensor) /\ Nonnegative(tensor)
                       THEN positions ELSE Positions(View(tensor))
          /\ UNCHANGED <<room, steps>>
     ELSE Refused

Next ==
  \/ \E o \in Redescriptions : Redescribe(o) \/ Fold(o)
  \/ TypeForWrite \/ PassOn \/ ViewFlat

Spec == Init /\ [][Next]_vars

-----------------------------------------------------------------------------
(* Correctness                                                             *)

PositionsKept == form # "none" => Positions(tensor) = positions

ViewInside ==
  form = "view" /\ tensor.backing # None =>
    \A k \in DOMAIN Positions(tensor) :
      Positions(tensor)[k] \in 0 .. (8 * room - tensor.bits)

(* However descriptors are copied, folded, typed and passed on, they speak *)
(* of the bits they spoke of when they came in, in the same order: no fold *)
(* of padded sub-byte elements, of part of a dimension or of a strided     *)
(* tensor is let through (_fold_dlpack_producer_layout 789-922,            *)
(* typed_tensor_to_write 1006-1046, _to_dlpack_capsule 489-512).  The fold *)
(* keeps this for every width; the other two keep it unless a caller made  *)
(* a read or map tensor of sub-byte scalars (Moves), from where on they    *)
(* speak of the bits they moved to.  And a numpy view of storage whose     *)
(* size the binding knows stays inside it, whatever the caller, or a       *)
(* producer with strides, offsets or broadcasts, says the layout is        *)
(* (dltensor_to_numpy 1099-1113, "can never extend past it";               *)
(* _described_byte_extent 148-179).                                        *)
StorageRespected == PositionsKept /\ ViewInside

=============================================================================
