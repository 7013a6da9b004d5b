---------------------------- MODULE ClassFormats ----------------------------
(***************************************************************************)
(* A contract class on its way between nodes: declared on the network,      *)
(* fetched from the feeder gateway, then served to and fetched by other     *)
(* nodes over p2p, RPC or as feeder JSON (which is also what the compiler    *)
(* and the virtual machine read).  Each node stores the class under the     *)
(* hash in the state diff.  Sierra classes are verified against it, Cairo 0 *)
(* classes are not, and p2p sync takes the hash of the class it received.   *)
(*                                                                         *)
(* A field holds 0 or 1, two values that must not be mixed up.  Bytecode of *)
(* n felts is <<1, ..., n>>, a hash is the value hashed.                    *)
(***************************************************************************)
EXTENDS Integers, Sequences, FiniteSets

CONSTANTS MaxHops,       \* nodes the class passes after the first one
          MaxBytecode    \* felts of bytecode

VARIABLES origin,    \* the class as it was declared
          form,      \* "sn", "core", "p2p", "rpc", "refused"
          class,     \* its present contents
          hash,      \* the hash it is stored under or was requested by
          route      \* the protocols crossed

vars == <<origin, form, class, hash, route>>

-----------------------------------------------------------------------------
(* Segments of bytecode: a tree whose leaves are lengths.                  *)

Leaf(n) == [length |-> n, children |-> <<>>]
Node(cs) == [length |-> 0, children |-> cs]
IsLeaf(s) == s.children = <<>>
NoSegments == Leaf(0)

RECURSIVE LengthOf(_)
LengthOf(s) ==
  IF IsLeaf(s) THEN s.length
  ELSE LengthOf(s.children[1]) +
         IF Len(s.children) = 1 THEN 0 ELSE LengthOf(Node(Tail(s.children)))

\* The hash of a tree that starts at an offset, from its definition.
RECURSIVE SegmentsFrom(_, _)
SegmentsFrom(cs, offset) ==
  IF cs = <<>> THEN <<>>
  ELSE LET c == Head(cs) IN
       << <<LengthOf(c), IF IsLeaf(c) THEN [i \in 1..c.length |-> offset + i]
                                      ELSE SegmentsFrom(c.children, offset)>> >>
         \o SegmentsFrom(Tail(cs), offset + LengthOf(c))

\* digestSegment: the hashes so far, the length so far and startingOffset, which
\* the calls for nested segments share and advance, before the caller does.
RECURSIVE digestSegment(_, _)
digestSegment(cs, acc) ==
  IF cs = <<>> THEN acc
  ELSE LET c == Head(cs)
           inner == digestSegment(c.children, [hash |-> <<>>, total |-> 0, start |-> acc.start])
           cur == IF IsLeaf(c)
                  THEN [len |-> c.length, start |-> acc.start,
                        hash |-> [i \in 1..c.length |-> acc.start + i]]
                  ELSE [len |-> inner.total, start |-> inner.start, hash |-> inner.hash]
       IN digestSegment(Tail(cs),
            [hash |-> Append(acc.hash, <<cur.len, cur.hash>>),
             total |-> acc.total + cur.len,
             start |-> cur.start + cur.len])

SegmentedBytecodeHash(cs) == digestSegment(cs, [hash |-> <<>>, total |-> 0, start |-> 0]).hash

\* CasmClass.Hash; only what depends on the version differs between versions.
CasmHash(casm) ==
  <<casm.entryPoints, IsLeaf(casm.segments),
    IF IsLeaf(casm.segments) THEN [i \in 1..casm.bytecode |-> i]
    ELSE SegmentedBytecodeHash(casm.segments.children)>>

\* SierraClass.Hash
SierraHash(c) == <<c.version, c.entryPoints, c.abi, c.program>>

\* The ABI of a Cairo 0 class is hashed as JSON text: the order of keys counts.
deprecatedCairoClassHash(c) == <<c.entryPoints, c.program, c.abi, c.sorted>>

Hash(c) == IF c.kind = "sierra" THEN SierraHash(c) ELSE deprecatedCairoClassHash(c)

VerifyClassHashes(c, h) == c.kind = "cairo0" \/ Hash(c) = h

-----------------------------------------------------------------------------
(* The conversions.                                                        *)

\* Feeder JSON: the segments are an optional field, a list of at most one tree.
AdaptCasmClass(casm) ==
  [casm EXCEPT !.segments = IF @ = NoSegments THEN <<>> ELSE <<@>>]
AdaptCompiledClass(casm) ==
  [casm EXCEPT !.segments = IF @ = <<>> THEN NoSegments ELSE @[1]]

ToSNForm(c) == IF c.kind = "sierra" THEN [c EXCEPT !.casm = AdaptCasmClass(c.casm)] ELSE c
FromSNForm(c) == IF c.kind = "sierra" THEN [c EXCEPT !.casm = AdaptCompiledClass(c.casm)] ELSE c

RECURSIVE collectSegmentLengths(_)
collectSegmentLengths(s) ==
  IF IsLeaf(s) THEN <<s.length>>
  ELSE collectSegmentLengths(s.children[1]) \o
         IF Len(s.children) = 1 THEN <<>> ELSE collectSegmentLengths(Node(Tail(s.children)))

Sum(lengths) == LengthOf(Node([i \in 1..Len(lengths) |-> Leaf(lengths[i])]))

SegmentsAsListed(lengths, n) == Node([i \in 1..Len(lengths) |-> Leaf(lengths[i])])

adaptSegmentLengths(lengths, n) ==
  IF lengths = <<0>> /\ n > 0 THEN NoSegments
  ELSE IF lengths = <<n>> THEN Leaf(n)
  ELSE Node([i \in 1..Len(lengths) |-> Leaf(lengths[i])])

SumsUp(lengths, n) == Sum(lengths) = n

SegmentsFit(lengths, n) == lengths = <<0>> \/ Sum(lengths) = n

adaptCasmClass(casm) == [casm EXCEPT !.segments = collectSegmentLengths(casm.segments)]

adaptCasm(casm) ==
  [casm EXCEPT !.segments = adaptSegmentLengths(casm.segments, casm.bytecode),
               !.pythonicHints = 0]

\* The compiler makes the same bytecode of the same class.
Compile(c) == [origin.casm EXCEPT !.pythonicHints = 0]

ToRPCForm(c) == IF c.kind = "sierra" THEN [c EXCEPT !.casm = adaptCasmClass(c.casm)] ELSE c

\* adaptDeprecatedClass writes the ABI anew, with the keys of objects sorted.
adaptDeprecatedClass(c) == [c EXCEPT !.sorted = 1]
adaptSierraClass(c) == [c EXCEPT !.casm = adaptCasm(c.casm)]
AdaptClass(c) == IF c.kind = "sierra" THEN adaptSierraClass(c) ELSE adaptDeprecatedClass(c)

\* p2p: a Sierra class travels without its compiled form.
AdaptSierraClass(c) == [c EXCEPT !.casm = Compile(c)]

-----------------------------------------------------------------------------
Compositions == UNION {[1..k -> 1..MaxBytecode] : k \in 1..MaxBytecode}

\* Segments of n felts: none, one leaf (never a list of one), a list of leaves,
\* or a list with one more level.
Trees(n) ==
  LET lists == {l \in Compositions : Len(l) > 1 /\ Sum(l) = n} IN
  {NoSegments, Leaf(n)}
    \cup {Node([i \in 1..Len(l) |-> Leaf(l[i])]) : l \in lists}
    \cup {Node([i \in 1..Len(l) |->
                 IF i = j /\ l[i] > 1 THEN Node(<<Leaf(1), Leaf(l[i] - 1)>>) ELSE Leaf(l[i])]) :
            l \in lists, j \in 1..2}

Casms ==
  UNION {[bytecode : {n}, segments : Trees(n), entryPoints : {0, 1}, pythonicHints : {0, 1}] :
           n \in 1..MaxBytecode}

Declared ==
  [kind : {"sierra"}, abi : {0, 1}, sorted : {1}, entryPoints : {0, 1}, program : {0, 1},
   version : {0, 1}, casm : Casms] \cup
  [kind : {"cairo0"}, abi : {0, 1}, sorted : {0, 1}, entryPoints : {0, 1}, program : {0, 1},
   version : {0}, casm : {NoSegments}]

Init ==
  /\ origin \in Declared
  /\ form = "sn"
  /\ class = ToSNForm(origin)
  /\ hash = Hash(origin)
  /\ route = <<>>

\* sn2core.AdaptSierraClass and AdaptDeprecatedCairoClass, with the class as the
\* feeder gateway or the JSON given to the compiler and the machine has it.
FromSN ==
  /\ form = "sn"
  /\ class' = FromSNForm(class)
  /\ form' = IF VerifyClassHashes(FromSNForm(class), hash) THEN "core" ELSE "refused"
  /\ UNCHANGED <<origin, hash, route>>

Forward(protocol, c) ==
  /\ form = "core"
  /\ Len(route) < MaxHops
  /\ route' = Append(route, protocol)
  /\ form' = protocol
  /\ class' = c
  /\ UNCHANGED <<origin, hash>>

ToSN == Forward("sn", ToSNForm(class))
ToP2P == Forward("p2p", class)
ToRPC == Forward("rpc", ToRPCForm(class))

\* The class hash of the state diff is the hash of the class received.
FromP2P ==
  /\ form = "p2p"
  /\ class' = IF class.kind = "sierra" THEN AdaptSierraClass(class) ELSE class
  /\ hash' = Hash(class)
  /\ form' = "core"
  /\ UNCHANGED <<origin, route>>

FromRPC ==
  /\ form = "rpc"
  /\ IF class.kind = "sierra" => SegmentsFit(class.casm.segments, class.casm.bytecode)
       THEN class' = AdaptClass(class) /\ form' = IF VerifyClassHashes(AdaptClass(class), hash)
                                                  THEN "core" ELSE "refused"
       ELSE form' = "refused" /\ class' = class
  /\ UNCHANGED <<origin, hash, route>>

Next == FromSN \/ ToSN \/ ToP2P \/ ToRPC \/ FromP2P \/ FromRPC

Spec == Init /\ [][Next]_vars

-----------------------------------------------------------------------------
(* Properties.                                                             *)

Crossed(p) == \E i \in 1..Len(route) : route[i] = p

Nested(s) == \E i \in 1..Len(s.children) : ~IsLeaf(s.children[i])

\* The compiled class hash every node computes (CasmClass.Hash, the value state
\* roots and state diffs carry) is the hash of the bytecode cut into the class's
\* segments, each felt of it once.  Nested segments are excepted: their length
\* is added to the offset twice.
SegmentsHashed(casm) ==
  ~IsLeaf(casm.segments) /\ ~Nested(casm.segments) =>
    SegmentedBytecodeHash(casm.segments.children) = SegmentsFrom(casm.segments.children, 0)

\* Whatever chain of protocols a class has come through, the node that stores
\* it has the declared class under the declared hash, and computes the compiled
\* class hash every other node computes.  Exceptions: nested segments come back
\* from RPC as a flat list, and RPC sorts the keys of a Cairo 0 ABI, which
\* changes the hash that the next node takes over p2p.
ClassSurvives ==
  form = "core" =>
    LET resorted == class.kind = "cairo0" /\ origin.sorted = 0 /\ Crossed("rpc") IN
    /\ ~resorted => hash = Hash(origin) /\ class.abi = origin.abi
                    /\ class.sorted = origin.sorted
    /\ resorted => hash \in {Hash(origin), Hash([origin EXCEPT !.sorted = 1])}
    /\ class.entryPoints = origin.entryPoints /\ class.program = origin.program
    /\ class.kind = "sierra" =>
         /\ SegmentsHashed(class.casm)
         /\ ~(Nested(origin.casm.segments) /\ Crossed("rpc")) =>
              CasmHash(class.casm) = CasmHash(origin.casm)

\* No protocol refuses a class that was declared (the segment lengths RPC lists
\* always add up, and every class verified once is verified again).
ClassNeverRefused == form # "refused"
=============================================================================
