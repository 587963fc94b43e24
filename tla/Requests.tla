------------------------------ MODULE Requests ------------------------------
(***************************************************************************)
(* What the calls of the binding hand to the native side: integers, which  *)
(* C fields narrow without a word, and the addresses of buffers Python     *)
(* owns (stage.py, population.py, population_export.py, types.py,          *)
(* path_dictionary.py, bindings.py).                                       *)
(*                                                                         *)
(* Every entry point is a record: its integers with the check each gets    *)
(* and the C field each ends in; the buffers whose addresses it passes,    *)
(* every optional argument given; those of them the native side has read   *)
(* when the call returns; and what the operation it returns keeps alive.   *)
(* The machine makes one call of one entry point, with at most one integer *)
(* that is out of the ordinary.  When, under several threads, an operation *)
(* lets go of what it keeps is the module Operations; the inside of the    *)
(* population descriptions is the module Selectors.                        *)
(***************************************************************************)
EXTENDS Integers

CONSTANTS
  Word,   \* 2^32
  Long,   \* 2^64, also of size_t
  Values, \* the integers callers pass
  None    \* no such thing

VARIABLES
  entry,    \* the entry point called
  args,     \* its integers
  phase,    \* "asked", "refused", "called", "pending", "complete" or "done"
  received, \* the integers as the native side has them
  kept,     \* Python objects the operation keeps alive
  owned,    \* those the program itself holds on to
  event     \* availability event: "none", "due" or "fired"

vars == <<entry, args, phase, received, kept, owned, event>>

-----------------------------------------------------------------------------
(* The checks: what each lets through, and the C field the value ends in.  *)

Arg(accepts, field) == [accepts |-> accepts, field |-> field]

Ints == (-(Word \div 2)) .. (Word \div 2 - 1)
Words == 0 .. (Word - 1)
Longs == 0 .. (Long - 1)

Ordinal == Arg(Longs, "long")
Token == Arg(Longs, "long")
Handle == Arg(Longs, "long")
Uint64 == Arg(Longs, "long")
Timeout == Arg(Longs, "long")
ElementSize == Arg(Longs, "long")

(* Slip: the bound of the wider field.                                     *)
UnsignedSlip == Arg(Longs, "word")

(* _check_unsigned, for fields of 32 bits.                                 *)
Unsigned == Arg(Words, "word")

Uint32 == Unsigned
Domains == Unsigned
Open == Arg(Ints, "int")               \* check_enum: any int of C's width
Closed(members) == Arg(members, "int") \* check_enum_member

(* Not checked at all: a stream or an event of CUDA's.                     *)
Opaque == Arg(Values, "opaque")

(* What ctypes stores of an integer.                                       *)
Stored(field, value) ==
  CASE field \in {"long", "opaque"} -> value % Long
    [] field = "word" -> value % Word
    [] field = "int" -> ((value + Word \div 2) % Word) - Word \div 2

-----------------------------------------------------------------------------
(* Buffers.  C memory points at C memory; Python objects refer to Python   *)
(* objects.  ctypes makes an array or structure refer to what it was made  *)
(* from, so the two agree but for raw addresses: the DLTensor array holds  *)
(* the address of the data, and only the DLTensor object holds the owner.  *)

Points ==
  [list |-> {}, text |-> {}, texts |-> {"text"}, name |-> {}, names |-> {"name"}, tokens |-> {}, sizes |-> {},
   shape |-> {}, payload |-> {}, map |-> {}, mask |-> {}, placement |-> {},
   tensor |-> {"shape", "payload"}, tensors |-> {"shape", "payload"},
   writes |-> {"name", "tensors", "map", "mask"}, filter |-> {"name", "texts"},
   mapping |-> {"name"}, floor |-> {"tokens"}, descs |-> {"texts"}, export |-> {"texts"}]

Refers == [Points EXCEPT !["tensors"] = {"shape"}]

(* Three steps are enough for the longest chain.                           *)
Closure(graph, from) ==
  LET one(s) == s \cup UNION {graph[n] : n \in s} IN one(one(one(from)))

-----------------------------------------------------------------------------
(* Entry points                                                            *)

(* The arguments of both.                                                  *)
a ++ b == [n \in DOMAIN a \cup DOMAIN b |-> IF n \in DOMAIN a THEN a[n] ELSE b[n]]

Call(a, passed, copied, keep, writes, pends) ==
  [args |-> a, passed |-> passed, copied |-> copied, kept |-> keep, writes |-> writes, pends |-> pends]

(* Nothing is pending when the call returns: the locals hold the buffers.  *)
Sync(a, passed) == Call(a, passed, {}, {}, FALSE, FALSE)

(* An operation is returned.                                               *)
Async(a, passed, keep) == Call(a, passed, {}, keep, FALSE, TRUE)

(* The native side reads some of it before it returns.                     *)
Copied(a, passed, copied, keep) == Call(a, passed, copied, keep, FALSE, TRUE)

(* An operation that writes.                                               *)
Write(a, passed, keep) == Call(a, passed, {}, keep, TRUE, TRUE)

(* A placement adds four integers and a buffer (_require_placement,         *)
(* Placement.__post_init__); the device types are those ovstage serves.    *)
Placement == [device_type |-> Arg({0, 1, 2, 13}, "int"), device_id |-> Arg(Ints \cap Nat, "int"),
              stream |-> Uint64, availability_event |-> Uint64]

OnDevice(e) ==
  Call(e.args ++ Placement, e.passed \cup {"placement"}, e.copied, e.kept \cup {"placement"}, e.writes, e.pends)

(* Stage: configuration and queries.                                       *)
Config == Sync([model |-> Arg(1 .. 4, "long"), policy |-> Arg(0 .. 3, "long")], {})
Filtered == [predicate |-> Token, op |-> Closed(0 .. 7)]
Query == Async(Filtered ++ [attrs |-> Token], {"filter", "tokens"}, {"filter", "name", "texts", "tokens"})
QueryFromPathList == Sync([path_list |-> Handle], {})
FetchQueryResult == Sync([query |-> Handle, timeout |-> Timeout], {})

(* The path list a query was made from is kept until the release ran.      *)
ReleaseQuery == Async([query |-> Handle], {"list"}, {"list"})

(* Reads.  The range is refused when it ends before it starts.             *)
Range == [start_ordinal |-> Ordinal, end_ordinal |-> Ordinal]
ReadAttributes == Async(Range ++ [query |-> Handle, attrs |-> Token], {"tokens"}, {"tokens"})
FetchReadNext == Sync([read |-> Handle, timeout |-> Timeout], {})

(* Writes.                                                                 *)
Binary == 0 .. 1
WriteData == [semantic |-> Open, attribute_mode |-> Closed(Binary), cuda_stream |-> Opaque, cuda_event |-> Opaque]
Target == [query |-> Handle, attribute |-> Token, ordinal |-> Ordinal, prim_mode |-> Closed(Binary)]

(* Slip: the array of descriptors is kept, the tensors are not.            *)
WriteKeptSlip == {"tensors", "map", "mask"}

(* What _build_write_data keeps: the tensors, their array, map and mask.   *)
WriteKept == {"tensor", "tensors", "map", "mask"}

WriteAttribute == Write(WriteData ++ Target, {"name", "tensors", "map", "mask"}, WriteKept \cup {"name"})
WriteAttributes == Write(WriteData ++ Target, {"writes"}, WriteKept \cup {"writes", "name"})
DeleteAttributes == Async([query |-> Handle, attributes |-> Token, ordinal |-> Ordinal], {"names"}, {"name", "names"})

(* Clone and hierarchy.                                                    *)
Clone == Async([ordinal |-> Ordinal], {"text", "texts"}, {"text", "texts"})
FetchCloneResult == Sync([op_id |-> Handle, timeout |-> Timeout], {})
ComputeHierarchy == Async([model |-> Open, input_ordinal |-> Ordinal, output_ordinal |-> Ordinal], {}, {})
GetHierarchy == Async([path_list |-> Handle, ordinal |-> Ordinal, relation |-> Open], {}, {})
FetchHierarchyResult == Sync([hierarchy |-> Handle], {})
ReleaseHierarchy == Async([hierarchy |-> Handle], {}, {})

(* Maps, and the write floor, whose description is read during the call.   *)
MapAttribute ==
  Async(Target ++ [semantic |-> Open, attribute_mode |-> Closed(Binary), element_sizes |-> ElementSize],
        {"mapping", "sizes"}, {"mapping", "name", "sizes"})
FetchMapNext == Sync([map |-> Handle, timeout |-> Timeout], {})
AdvanceWriteFloor ==
  Copied([ordinal |-> Ordinal, scope |-> Closed(0 .. 2), attributes |-> Token], {"floor"}, {"floor"}, {"tokens"})
GetOldestPreservedOrdinal == Async(<<>>, {}, {})
GetAttributeWriteFloor == Copied([attribute |-> Token], {"name"}, {"name"}, {})
FetchOrdinal == Sync([ordinal_query |-> Handle, timeout |-> Timeout], {})
ReleaseOrdinalQuery == Async([ordinal_query |-> Handle], {}, {})

(* Population.                                                             *)
OpenUsd == Async([ordinal |-> Ordinal, domains |-> Domains], {"text"}, {"text"})
OpenUsdFromString == OpenUsd
OpenUsdWithDesc == Async([ordinal |-> Ordinal], {"text", "descs"}, {"text", "descs"})
OpenUsdFromStringWithDesc == OpenUsdWithDesc
RepopulateUsdWithDesc == Async([ordinal |-> Ordinal], {"descs"}, {"descs"})
AddUsdReference == Async(<<>>, {"text"}, {"text"})
AddUsdReferenceFromString == AddUsdReference
RemoveUsd == Async([handle |-> Handle], {}, {})
ResetUsd == Async(<<>>, {}, {})
UpdateFromUsdTime == Async([ordinal |-> Ordinal], {}, {})
ApplyUsdChanges == UpdateFromUsdTime
RegisterUsdSchemas == Sync(<<>>, {"texts"})

(* Export.  Asynchronous exports keep nothing: the native side copies the  *)
(* identifier and the whole description before it returns.                 *)
AttributeRules == [attribute_path_match |-> Closed(Binary), attribute_name_match |-> Closed(Binary), attribute_flags |-> Uint32]
PropertyRules == [property_path_match |-> Closed(Binary), property_kind |-> Closed(1 .. 3), property_flags |-> Uint32]
PrimRules == [prim_path_match |-> Closed(Binary)]
ApiSchemaRules == [schema_path_match |-> Closed(Binary), schema_flags |-> Uint32]
MetadataRules == [metadata_path_match |-> Closed(Binary), metadata_kind |-> Closed(0 .. 3), metadata_flags |-> Uint32]

ExportDesc ==
  AttributeRules ++ PropertyRules ++ PrimRules ++ ApiSchemaRules ++ MetadataRules ++
  [ordinal |-> Ordinal, since_ordinal |-> Uint64, selection |-> Closed(Binary), layer_mode |-> Closed(Binary),
   transform_policy |-> Closed(0 .. 2), unknown_metadata_policy |-> Closed(0 .. 2),
   source_api_schema_policy |-> Closed(Binary), projection |-> Closed(Binary)]

ExportToIdentifier == Sync(ExportDesc, {"text", "export"})
EnqueueToIdentifier == Copied(ExportDesc, {"text", "export"}, {"text", "texts", "export"}, {})

ExportToUsdLayer == ExportToIdentifier
ExportToUsdStage == ExportToIdentifier
ExportToUsdFile == ExportToIdentifier
ExportToUsdLayerAsync == EnqueueToIdentifier
ExportToUsdStageAsync == EnqueueToIdentifier
ExportToUsdFileAsync == EnqueueToIdentifier
ExportToDestination == Sync([destination |-> Handle] ++ ExportDesc, {"export"})
ExportToDestinationAsync ==
  Copied([destination |-> Handle] ++ ExportDesc, {"export"}, {"texts", "text", "export"}, {})

(* The typed exports choose everything else themselves.                    *)
Typed(e) ==
  Call([a \in {"ordinal", "transform_policy", "unknown_metadata_policy"} |-> e.args[a]],
       e.passed, e.copied, e.kept, e.writes, e.pends)

CreateExportDestination == Sync([mode |-> Closed(Binary)], {"text"})
CreateExportDestinationAsync == Async([mode |-> Closed(Binary)], {"text"}, {"text"})

(* Path dictionary and logging.                                            *)
InternToken == Sync(<<>>, {"texts"})
TokenToString == Sync([token |-> Token], {"tokens"})
InternPath == Sync(<<>>, {"texts"})
PathToString == Sync([primpath |-> Handle], {"tokens"})
PathListCount == Sync([path_list |-> Handle], {})
GetPaths == Sync([path_list |-> Handle], {})
SetLogCallback == Sync([severity |-> Closed({-2, -1, 0, 1, 3})], {"text"})
FlushLog == Sync([timeout |-> Timeout], {})

-----------------------------------------------------------------------------
Entries ==
  {Config, Query, QueryFromPathList, FetchQueryResult, ReleaseQuery,
   ReadAttributes, OnDevice(ReadAttributes), FetchReadNext,
   WriteAttribute, OnDevice(WriteAttribute), WriteAttributes, OnDevice(WriteAttributes), DeleteAttributes,
   Clone, FetchCloneResult, ComputeHierarchy, GetHierarchy, FetchHierarchyResult, ReleaseHierarchy,
   MapAttribute, OnDevice(MapAttribute), FetchMapNext,
   AdvanceWriteFloor, GetOldestPreservedOrdinal, GetAttributeWriteFloor, FetchOrdinal, ReleaseOrdinalQuery,
   OpenUsd, OpenUsdFromString, OpenUsdWithDesc, OpenUsdFromStringWithDesc, RepopulateUsdWithDesc,
   AddUsdReference, AddUsdReferenceFromString, RemoveUsd, ResetUsd, UpdateFromUsdTime, ApplyUsdChanges,
   RegisterUsdSchemas,
   ExportToUsdLayer, ExportToUsdStage, ExportToUsdFile, ExportToDestination,
   ExportToUsdLayerAsync, ExportToUsdStageAsync, ExportToUsdFileAsync, ExportToDestinationAsync,
   Typed(ExportToUsdLayer), Typed(ExportToUsdFile), Typed(ExportToUsdLayerAsync), Typed(ExportToUsdFileAsync),
   CreateExportDestination, CreateExportDestinationAsync,
   InternToken, TokenToString, InternPath, PathToString, PathListCount, GetPaths, SetLogCallback, FlushLog}

(* 1 is let through by every check.                                        *)
Usual(e) == [a \in DOMAIN e.args |-> 1]

Init ==
  /\ entry \in Entries
  /\ args \in {Usual(entry)} \cup {[Usual(entry) EXCEPT ![a] = v] : a \in DOMAIN entry.args, v \in Values}
  /\ phase = "asked" /\ received = None /\ kept = {}
  /\ owned = (IF entry.writes THEN {"payload"} ELSE {})
  /\ event = "none"

Accepted(e, a) ==
  /\ \A n \in DOMAIN e.args : a[n] \in e.args[n].accepts
  /\ "start_ordinal" \in DOMAIN a => a.start_ordinal <= a.end_ordinal

(* Integers are checked, buffers made; any check that fails raises.        *)
Marshal ==
  /\ phase = "asked"
  /\ IF Accepted(entry, args)
     THEN /\ phase' = "called"
          /\ received' = [n \in DOMAIN args |-> Stored(entry.args[n].field, args[n])]
     ELSE phase' = "refused" /\ UNCHANGED received
  /\ UNCHANGED <<entry, args, kept, owned, event>>

(* The call returns and its locals go: with a value or an error, or with   *)
(* an operation.                                                           *)
Answer ==
  /\ phase = "called" /\ phase' = "done"
  /\ UNCHANGED <<entry, args, received, kept, owned, event>>

Enqueued ==
  /\ phase = "called" /\ entry.pends
  /\ phase' = "pending" /\ kept' = entry.kept
  /\ event' \in (IF entry.writes /\ "availability_event" \in DOMAIN args THEN {"none", "due"} ELSE {"none"})
  /\ UNCHANGED <<entry, args, received, owned>>

(* The native side executes it ...                                         *)
Complete ==
  /\ phase = "pending" /\ phase' = "complete"
  /\ UNCHANGED <<entry, args, received, kept, owned, event>>

(* ... and what the device still reads is read once the event fires.       *)
Fire ==
  /\ phase \in {"complete", "done"} /\ event = "due" /\ event' = "fired"
  /\ UNCHANGED <<entry, args, phase, received, kept, owned>>

Wait ==
  /\ phase = "complete" /\ phase' = "done" /\ kept' = {}
  /\ UNCHANGED <<entry, args, received, owned, event>>

(* The program lets go of the data it wrote, which it may at any time but  *)
(* while an event it asked for is due (types.py 800-811).                  *)
Forget ==
  /\ phase \notin {"asked", "called"} /\ owned # {} /\ event # "due"
  /\ owned' = {}
  /\ UNCHANGED <<entry, args, phase, received, kept, event>>

Next == Marshal \/ Answer \/ Enqueued \/ Complete \/ Fire \/ Wait \/ Forget

Spec == Init /\ [][Next]_vars

-----------------------------------------------------------------------------
(* Correctness                                                             *)

(* Whatever integer is passed anywhere, the native side has that integer,  *)
(* or the call was refused before it: none is narrowed to an ordinal, a    *)
(* handle, a flag or an enumerator that means something else               *)
(* (_check_unsigned 89-105: "ctypes never raises on an out-of-range int"). *)
(* CUDA streams and events of writes are the exception: they are passed on *)
(* unchecked (stage.py 652-655).                                           *)
ExactOrRefused ==
  received # None =>
    \A n \in DOMAIN args : entry.args[n].field # "opaque" => received[n] = args[n]

(* What the native side may still read of a call that has returned.        *)
StillRead ==
  (IF phase = "pending" THEN Closure(Points, entry.passed) \ entry.copied ELSE {})
    \cup (IF event = "due" THEN {"payload"} ELSE {})

(* While an operation is pending every buffer the native side can still    *)
(* reach from what it was passed is alive, whatever the program and the    *)
(* returned call have dropped, and the data of a write with an event is    *)
(* alive until the event fires (the keepalive every enqueue hands to its   *)
(* Operation, types.py 1173-1181, population.py 310-314).                  *)
InputsLive == StillRead \subseteq Closure(Refers, kept \cup owned)

=============================================================================
