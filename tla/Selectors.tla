----------------------------- MODULE Selectors -----------------------------
(***************************************************************************)
(* Population descriptions: predicates, selectors, and the C structures    *)
(* made of them for one call (selectors.py).                               *)
(*                                                                         *)
(* Predicates are immutable and refer only to predicates built before, so  *)
(* they form a graph without cycles in which subtrees may be shared.  For  *)
(* a call every predicate becomes one C node; nodes are copied by value    *)
(* into the arrays of their parents and point, unguarded, at arrays that   *)
(* Python frees unless they are in the keepalive of the call.  Which array *)
(* a node points at is told by its kind alone.                             *)
(***************************************************************************)
EXTENDS Integers, Sequences, FiniteSets

CONSTANTS
  PrimKinds,     \* the prim kinds, and
  PropertyKinds, \* the property kinds, an instance looks at
  Strings,       \* sequences of values callers pass; "" is the empty string
  None,          \* no predicate
  MaxPredicates, \* bound: predicates built
  MaxSelectors   \* bound: selectors in a description

VARIABLES
  predicates, \* those built, in order
  selectors,  \* the description passed to the call
  phase,      \* "composing", "building" or "passed"
  memo,       \* C nodes built so far
  heap,       \* arrays the C nodes point at
  keepalive,  \* those of them the call keeps
  roots       \* the C selectors handed over

vars == <<predicates, selectors, phase, memo, heap, keepalive, roots>>

-----------------------------------------------------------------------------
(* Predicates                                                              *)

(* PrimPredicate._KIND_SLOTS; every constructor fills the slot of its kind. *)
PrimSlot(kind) ==
  CASE kind \in {"NONE", "ALL"} -> "empty"
    [] kind \in {"AND", "OR", "NOT", "HAS_PARENT", "HAS_ANCESTOR"} -> "subpredicates"
    [] kind = "HAS_PROPERTY" -> "nested"
    [] kind \in {"HAS_TYPE", "IS_A_TYPE", "HAS_SCHEMA", "HAS_APPLIED_SCHEMA",
                 "HAS_APPLIED_SCHEMA_IN_NAMESPACE", "HAS_PATH", "IS_UNDER_PATH",
                 "HAS_KIND", "HAS_PURPOSE", "HAS_METADATA"} -> "strings"

(* PropertyPredicate._KIND_SLOTS.                                          *)
PropertySlot(kind) ==
  CASE kind \in {"NONE", "ALL", "IS_ATTRIBUTE", "IS_RELATIONSHIP", "IS_CUSTOM",
                 "IS_AUTHORED"} -> "empty"
    [] kind \in {"AND", "OR", "NOT"} -> "subpredicates"
    [] kind \in {"DECLARED_BY_SCHEMA", "HAS_NAME", "IN_NAMESPACE", "HAS_METADATA"} -> "strings"

Slot(type, kind) == IF type = "prim" THEN PrimSlot(kind) ELSE PropertySlot(kind)

Filled(p) ==
  {slot \in {"strings", "subpredicates"} : p[slot] # <<>>}
    \cup (IF p.nested # None THEN {"nested"} ELSE {})

(* Slip: the kind and the populated slot may disagree.                     *)
SlotMatchesSlip(p) == Cardinality(Filled(p)) <= 1

(* _check_kind_slot: what is filled is the slot of the kind, and only it.  *)
SlotMatches(p) == Filled(p) = {Slot(p.type, p.kind)} \ {"empty"}

(* _Predicate.__init__: values are non-empty strings, subpredicates are of *)
(* the same type, and only a prim predicate nests, a property one.         *)
WellFormed(p) ==
  /\ \A i \in DOMAIN p.strings : p.strings[i] # ""
  /\ \A i \in DOMAIN p.subpredicates : predicates[p.subpredicates[i]].type = p.type
  /\ p.nested # None => p.type = "prim" /\ predicates[p.nested].type = "property"
  /\ SlotMatches(p)

Types == {"prim", "property"}

Kinds(type) == IF type = "prim" THEN PrimKinds ELSE PropertyKinds

(* What a constructor can be given: predicates are made of those there are. *)
Offered ==
  LET built == DOMAIN predicates
      subs == {<<>>} \cup {<<i>> : i \in built} \cup {<<i, j>> : i, j \in built}
  IN  [type : Types, kind : PrimKinds \cup PropertyKinds, strings : Strings,
       subpredicates : subs, nested : {None} \cup built]

(* A predicate that is not well-formed raises, and no object is left.      *)
Construct ==
  /\ phase = "composing" /\ Len(predicates) < MaxPredicates
  /\ \E p \in Offered :
       p.kind \in Kinds(p.type) /\ WellFormed(p) /\ predicates' = Append(predicates, p)
  /\ UNCHANGED <<selectors, phase, memo, heap, keepalive, roots>>

OfType(type) == {i \in DOMAIN predicates : predicates[i].type = type}

(* Selector: a predicate left out is NONE; metadata paths may be empty.    *)
Select ==
  /\ phase = "composing" /\ Len(selectors) < MaxSelectors
  /\ \E prim \in {None} \cup OfType("prim"), property \in {None} \cup OfType("property"),
        paths \in Strings :
       /\ \A i \in DOMAIN paths : paths[i] # ""
       /\ selectors' = Append(selectors, [prim |-> prim, property |-> property, paths |-> paths])
  /\ UNCHANGED <<predicates, phase, memo, heap, keepalive, roots>>

-----------------------------------------------------------------------------
(* Conversion                                                              *)

Node(kind, to, count) == [kind |-> kind, to |-> to, count |-> count]

NoNode == Node("NONE", None, 0)

(* Slip: nodes are found again by their kind.                              *)
KeySlip(i) == predicates[i].kind

(* What a node is found again by: the identity of its predicate.           *)
Key(i) == i

Built(i) == Key(i) \in DOMAIN memo

CNode(i) == IF i = None THEN NoNode ELSE memo[Key(i)]

Children(i) ==
  LET p == predicates[i]
  IN  {p.subpredicates[k] : k \in DOMAIN p.subpredicates} \cup ({p.nested} \ {None})

(* The predicates the description refers to, directly or not.              *)
Wanted ==
  LET named == {selectors[k].prim : k \in DOMAIN selectors}
                 \cup {selectors[k].property : k \in DOMAIN selectors}
      Closed(s) == named \ {None} \subseteq s /\ \A i \in s : Children(i) \subseteq s
  IN  {i \in DOMAIN predicates : \A s \in SUBSET DOMAIN predicates : Closed(s) => i \in s}

(* Arrays are known by what they hold and whose they are; an empty one is  *)
(* a null pointer.                                                         *)
Address(slot, owner, content) == IF content = <<>> THEN None ELSE <<slot, owner>>

(* The slot that is filled, and the array made of it.                      *)
SlotOf(p) == IF Filled(p) = {} THEN "empty" ELSE CHOOSE slot \in Filled(p) : TRUE

Content(i) ==
  LET p == predicates[i]
  IN  CASE SlotOf(p) = "subpredicates" -> [k \in DOMAIN p.subpredicates |-> CNode(p.subpredicates[k])]
        [] SlotOf(p) = "nested" -> <<CNode(p.nested)>>
        [] OTHER -> p.strings

With(f, x, y) == [z \in DOMAIN f \cup {x} |-> IF z = x THEN y ELSE f[z]]

(* _build_prim_predicate, _build_property_predicate: the children first,   *)
(* their nodes copied into an array; a predicate met again is not rebuilt. *)
Build(i) ==
  LET address == Address(SlotOf(predicates[i]), i, Content(i))
  IN  /\ phase = "building" /\ ~Built(i) /\ \A j \in Children(i) : Built(j)
      /\ memo' = With(memo, Key(i), Node(predicates[i].kind, address, Len(Content(i))))
      /\ heap' = IF address = None THEN heap ELSE With(heap, address, Content(i))
      /\ keepalive' = keepalive \cup ({address} \ {None})
      /\ UNCHANGED <<predicates, selectors, phase, roots>>

BeginBuild ==
  /\ phase = "composing" /\ phase' = "building"
  /\ UNCHANGED <<predicates, selectors, memo, heap, keepalive, roots>>

(* build_descs: one array of selectors, each with its array of paths; then *)
(* the call, which the native side copies all of it during.                *)
Pass ==
  LET to(k) == Address("paths", k, selectors[k].paths)
      paths == {to(k) : k \in DOMAIN selectors} \ {None}
  IN  /\ phase = "building" /\ \A i \in Wanted : Built(i)
      /\ phase' = "passed"
      /\ roots' = [k \in DOMAIN selectors |->
                     [prim |-> CNode(selectors[k].prim), property |-> CNode(selectors[k].property),
                      to |-> to(k), count |-> Len(selectors[k].paths)]]
      /\ heap' = [a \in DOMAIN heap \cup paths |->
                    IF a \in paths THEN selectors[a[2]].paths ELSE heap[a]]
      /\ keepalive' = keepalive \cup paths
      /\ UNCHANGED <<predicates, selectors, memo>>

Init ==
  /\ predicates = <<>> /\ selectors = <<>> /\ phase = "composing"
  /\ memo = <<>> /\ heap = <<>> /\ keepalive = {} /\ roots = <<>>

Next == Construct \/ Select \/ BeginBuild \/ (\E i \in Wanted : Build(i)) \/ Pass

Spec == Init /\ [][Next]_vars

-----------------------------------------------------------------------------
(* Correctness                                                             *)

(* What the native side finds where it expects an array of that kind;      *)
(* garbage, if there is another or none any more.                          *)
Find(slot, address, count) ==
  IF count = 0 THEN <<>>
  ELSE IF address \in keepalive /\ address[1] = slot THEN SubSeq(heap[address], 1, count)
  ELSE <<NoNode>>

(* The values of a node: its kind tells the native side which member of    *)
(* the union they are.                                                     *)
ValuesOf(type, node) ==
  LET slot == Slot(type, node.kind)
  IN  IF slot = "empty" THEN <<>> ELSE Find(slot, node.to, node.count)

(* The type of the nodes below a node, None if there are none.             *)
Below(type, node) ==
  CASE Slot(type, node.kind) = "subpredicates" -> type
    [] Slot(type, node.kind) = "nested" -> "property"
    [] OTHER -> None

Nodes == {NoNode} \cup {memo[key] : key \in DOMAIN memo}

(* A node as the native side reads it, its children as in trees.           *)
ReadNode(type, node, trees) ==
  LET values == ValuesOf(type, node)
      below == Below(type, node)
  IN  <<type, node.kind,
        IF below = None THEN values ELSE [k \in DOMAIN values |-> trees[below][values[k]]]>>

(* The trees it reads, down to a depth: no tree is deeper than there are   *)
(* predicates.                                                             *)
Read[depth \in 0 .. Len(predicates)] ==
  [type \in Types |-> [node \in Nodes |->
     IF depth = 0 THEN <<type, node.kind, ValuesOf(type, node)>> ELSE ReadNode(type, node, Read[depth - 1])]]

(* The tree the caller built.                                              *)
Meant[i \in DOMAIN predicates] ==
  LET p == predicates[i]
      below == IF p.nested # None THEN <<p.nested>> ELSE p.subpredicates
  IN  <<p.type, p.kind,
        IF below = <<>> THEN p.strings ELSE [k \in DOMAIN below |-> Meant[below[k]]]>>

MeantOr(type, i) == IF i = None THEN <<type, "NONE", <<>>>> ELSE Meant[i]

ReadTree(type, node) == Read[Len(predicates)][type][node]

(* However predicates are shared between subtrees and selectors, the       *)
(* native side reads the trees and paths the caller composed, all of it    *)
(* from storage the call keeps, and every predicate was converted once     *)
(* (_check_kind_slot 123-136, _build_prim_predicate 487-516, build_descs   *)
(* 542-584).                                                               *)
SelectorsFaithful ==
  phase = "passed" =>
    /\ \A k \in DOMAIN selectors :
         /\ ReadTree("prim", roots[k].prim) = MeantOr("prim", selectors[k].prim)
         /\ ReadTree("property", roots[k].property) = MeantOr("property", selectors[k].property)
         /\ Find("paths", roots[k].to, roots[k].count) = selectors[k].paths
    /\ Cardinality(DOMAIN heap) <= Cardinality(Wanted) + Len(selectors)

=============================================================================
