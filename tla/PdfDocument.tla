----------------------------- MODULE PdfDocument -----------------------------
(* apps/web/src/lib/pdf/document.ts: PdfDocument.load finds the objects of a  *)
(* file through its cross-reference sections, or by a scan when those fail,   *)
(* unpacks the object streams and walks the page tree.  Every await of load   *)
(* ends an action.  The stream of a hybrid section is read by a call that     *)
(* nobody awaits: when its data are compressed it may finish at any time.     *)
(*                                                                            *)
(* A file is a record of its cross-reference sections (by offset), its        *)
(* objects in file order (an object's offset is its index) and the pages its  *)
(* writer put in.  The cache of parsed objects holds what came out of object  *)
(* streams: for other objects it repeats the file.                            *)
EXTENDS Integers, Sequences, FiniteSets, FiniteSetsExt, TLC

CONSTANTS
    Files,      \* the files under study
    MaxHops     \* resolve() follows this many references; 32 in the code

ASSUME DocumentAssumption == MaxHops \in Nat \ {0}

\* A file is a buffer of bytes: what it holds is finite.
ASSUME FilesAssumption ==
    \A f \in Files :
        /\ IsFiniteSet(DOMAIN f.sections) /\ IsFiniteSet(DOMAIN f.objects)
        /\ \A offset \in DOMAIN f.sections : IsFiniteSet(DOMAIN f.sections[offset].entries)

VARIABLES
    file,
    xref,       \* object number -> entry
    trailer,    \* the merged trailer: its Root (0: none) and whether it has Encrypt
    cache,      \* object number -> object, from object streams
    pages,      \* the leaves of the page tree
    phase,      \* where load() stands
    at,         \* the offset of the section to read, or that is being decoded
    visited,    \* the offsets readXrefChain has seen
    inflight,   \* hybrid streams that are being decoded
    groups,     \* object stream still to unpack -> the objects xref puts there
    overtaken   \* history: a section or an object stream was read while a hybrid stream was in flight

docVars == <<file, xref, trailer, cache, pages, phase, at, visited, inflight, groups, overtaken>>

NoObject == [type |-> "null"]
Inheritable == {"MediaBox", "Resources", "Rotate"}

------------------------------------------------------------------------------
(* Objects *)

Fetch(num) ==
    IF num \in DOMAIN cache THEN cache[num]
    ELSE IF num \notin DOMAIN xref \/ xref[num].kind # "n" THEN NoObject
    ELSE IF xref[num].offset \in DOMAIN file.objects THEN file.objects[xref[num].offset].value
    ELSE NoObject

\* Follows references; what is still a reference after MaxHops has no use.
Resolve(num) ==
    LET hop[k \in 0..MaxHops] ==
            LET o == IF k = 0 THEN [type |-> "ref", num |-> num] ELSE hop[k - 1]
            IN IF k > 0 /\ o.type = "ref" THEN Fetch(o.num) ELSE o
    IN hop[MaxHops]

InUse(section) ==
    [n \in {m \in DOMAIN section.entries : section.entries[m].kind # "f"} |-> section.entries[n]]

\* What f has, and of g what f has not.
Over(f, g) == [n \in DOMAIN f \cup DOMAIN g |-> IF n \in DOMAIN f THEN f[n] ELSE g[n]]

\* Mutant: each section overwrites those before it.
MergeEntries_Last(known, section) == InUse(section) @@ known

\* Each section is older than those read before it: what is there stays.
MergeEntries(known, section) == Over(known, InUse(section))

MergeTrailer(known, section) ==
    [root |-> IF known.root # 0 THEN known.root ELSE section.root,
     encrypt |-> known.encrypt \/ section.encrypt]

------------------------------------------------------------------------------
(* The cross-reference chain *)

LoadInit ==
    /\ file \in Files
    /\ xref = <<>> /\ cache = <<>>
    /\ trailer = [root |-> 0, encrypt |-> FALSE]
    /\ pages = <<>>
    /\ phase = "chain" /\ at = file.startxref /\ visited = {}
    /\ inflight = {} /\ groups = <<>> /\ overtaken = FALSE

IsSection(offset) == offset \in DOMAIN file.sections

\* Mutant: offsets are not remembered.
InChain_Again == phase = "chain" /\ IsSection(at)

InChain == phase = "chain" /\ IsSection(at) /\ at \notin visited

\* readClassicXref, with the head of the readXrefStream it starts for a hybrid
\* file; an unfiltered stream is read before the await returns.
ReadTable ==
    LET s == file.sections[at]
        hybrid == IsSection(s.xrefStm)
        stm == file.sections[s.xrefStm]
        own == MergeEntries(xref, s)
    IN /\ InChain /\ s.kind = "table"
       /\ visited' = visited \cup {at}
       /\ overtaken' = (overtaken \/ inflight # {})
       /\ trailer' = IF s.cut THEN trailer
                     ELSE IF hybrid THEN MergeTrailer(MergeTrailer(trailer, s), stm)
                     ELSE MergeTrailer(trailer, s)
       /\ xref' = IF ~s.cut /\ hybrid /\ ~stm.flate THEN MergeEntries(own, stm) ELSE own
       /\ inflight' = IF ~s.cut /\ hybrid /\ stm.flate THEN inflight \cup {s.xrefStm} ELSE inflight
       /\ at' = IF s.cut THEN 0 ELSE s.prev
       /\ UNCHANGED <<file, cache, pages, phase, groups>>

\* readXrefStream up to its await.
ReadStream ==
    /\ InChain /\ file.sections[at].kind = "stream"
    /\ visited' = visited \cup {at}
    /\ trailer' = MergeTrailer(trailer, file.sections[at])
    /\ phase' = "decoding"
    /\ UNCHANGED <<file, xref, cache, pages, at, inflight, groups, overtaken>>

\* The rest of it; a stream that does not decode ends the chain.
StreamDecoded ==
    LET s == file.sections[at]
    IN /\ phase = "decoding"
       /\ phase' = "chain"
       /\ xref' = IF s.cut THEN xref ELSE MergeEntries(xref, s)
       /\ at' = IF s.cut THEN 0 ELSE s.prev
       /\ overtaken' = (overtaken \/ inflight # {})
       /\ UNCHANGED <<file, trailer, cache, pages, visited, inflight, groups>>

HybridDecoded(offset) ==
    /\ offset \in inflight
    /\ inflight' = inflight \ {offset}
    /\ xref' = IF file.sections[offset].cut THEN xref ELSE MergeEntries(xref, file.sections[offset])
    /\ UNCHANGED <<file, trailer, cache, pages, phase, at, visited, groups, overtaken>>

------------------------------------------------------------------------------
(* Recovery *)

\* The last object of each number in the file.
Scanned ==
    LET numbers == {file.objects[i].num : i \in DOMAIN file.objects}
        last(n) == Max({i \in DOMAIN file.objects : file.objects[i].num = n})
    IN [n \in numbers |-> [kind |-> "n", offset |-> last(n)]]

\* rebuildByScan: the root is the first object found that is a catalog.
Rebuilt == Over(Scanned, xref)

\* What the chain had read comes first in the map, in an order of its own.
RecoveredRoots ==
    LET isCatalog(n) == file.objects[Scanned[n].offset].value.type = "Catalog"
        found == {n \in DOMAIN Scanned : isCatalog(n)}
        first(n) == Min({i \in DOMAIN file.objects : file.objects[i].num = n})
    IN IF found = {} THEN {0}
       ELSE {n \in found : xref # <<>> \/ \A m \in found : first(n) <= first(m)}

\* preloadObjectStreams groups what is compressed by its stream.
Compressed(known) ==
    LET in == {m \in DOMAIN known : known[m].kind = "c"}
    IN [g \in {known[n].stream : n \in in} |-> {n \in in : known[n].stream = g}]

\* load() after readXrefChain has returned or thrown.
ChainEnds ==
    LET lost == trailer.root = 0 \/ xref = <<>>
        known == IF lost THEN Rebuilt ELSE xref
    IN /\ phase = "chain" /\ ~InChain
       /\ xref' = known
       /\ \E root \in RecoveredRoots :
              trailer' = [trailer EXCEPT !.root = IF @ = 0 /\ lost THEN root ELSE @]
       /\ phase' = IF trailer.encrypt THEN "done" ELSE "preload"
       /\ groups' = IF trailer.encrypt THEN <<>> ELSE Compressed(known)
       /\ overtaken' = (overtaken \/ inflight # {})
       /\ UNCHANGED <<file, cache, pages, at, visited, inflight>>

\* One turn of preloadObjectStreams: entries that arrive after the grouping
\* are not unpacked.
Unpack(stream) ==
    LET o == Resolve(stream)
        there == {n \in groups[stream] : o.type = "ObjStm" /\ o.ok /\ xref[n].index \in DOMAIN o.objects}
    IN /\ phase = "preload" /\ \A g \in DOMAIN groups : stream <= g
       /\ groups' = [g \in DOMAIN groups \ {stream} |-> groups[g]]
       /\ cache' = [n \in there |-> o.objects[xref[n].index]] @@ cache
       /\ UNCHANGED <<file, xref, trailer, pages, phase, at, visited, inflight, overtaken>>

------------------------------------------------------------------------------
(* The page tree *)

IsNode(o) == o.type \in {"Catalog", "Pages", "Page"}

Merged(node, inherited) == node.attrs @@ inherited

\* walkPageTree: a node that was seen is not entered again.
WalkStep(s) ==
    LET num == Head(s.todo).num
        rest == Tail(s.todo)
        node == Resolve(num)
        merged == Merged(node, Head(s.todo).inherited)
        skip == [s EXCEPT !.todo = rest, !.seen = @ \cup {num}]
    IN IF s.todo = <<>> THEN s
       ELSE IF num \in s.seen \/ ~IsNode(node) THEN skip
       ELSE IF node.hasKids
            THEN [skip EXCEPT !.todo = [k \in DOMAIN node.kids |->
                                            [num |-> node.kids[k], inherited |-> merged]] \o rest]
       ELSE IF node.type = "Page" \/ node.contents # <<>>
            THEN [skip EXCEPT !.pages = Append(@, [contents |-> node.contents, attrs |-> merged])]
       ELSE skip

\* The walk enters each node once: it has ended after all kids of all nodes.
\* (The set of one state makes TLC evaluate it once.)
Walk(pagesRoot) ==
    LET steps == 1 + Cardinality(DOMAIN file.objects) * (1 + file.maxKids)
        after[k \in 0..steps] ==
            IF k = 0 THEN [todo |-> <<[num |-> pagesRoot, inherited |-> <<>>]>>, seen |-> {}, pages |-> <<>>]
            ELSE CHOOSE t \in {WalkStep(s) : s \in {after[k - 1]}} : TRUE
    IN after[steps].pages

Leaves ==
    LET root == Resolve(trailer.root)
        single == Resolve(root.pages)
        walked == Walk(root.pages)
    IN IF trailer.root = 0 \/ root.type # "Catalog" THEN <<>>
       ELSE IF walked = <<>> /\ IsNode(single)
            THEN <<[contents |-> single.contents, attrs |-> single.attrs]>>
       ELSE walked

BuildPages ==
    /\ phase = "preload" /\ groups = <<>>
    /\ pages' = Leaves
    /\ phase' = "done"
    /\ UNCHANGED <<file, xref, trailer, cache, at, visited, inflight, groups, overtaken>>

Load ==
    \/ ReadTable \/ ReadStream \/ StreamDecoded \/ ChainEnds \/ BuildPages
    \/ \E stream \in DOMAIN groups : Unpack(stream)

LoadNext == Load \/ \E offset \in inflight : HybridDecoded(offset)

------------------------------------------------------------------------------
(* Progress: the stages of load() ahead, and what this one still has to read. *)

StagesAhead == CASE phase \in {"chain", "decoding"} -> 2
                 [] phase = "preload" -> 1
                 [] phase = "done" -> 0

ToRead == 2 * Cardinality(DOMAIN file.sections \ visited) + Cardinality(inflight)
          + Cardinality(DOMAIN groups) + (IF phase = "decoding" THEN 1 ELSE 0)

(* Every step of the load brings it nearer to its end, also in a file whose   *)
(* cross-reference sections refer to each other in a circle: it comes to the  *)
(* next stage, or stays in one and has less to read there.                    *)
LoadGetsOn ==
    [][ \/ StagesAhead' < StagesAhead
        \/ StagesAhead' = StagesAhead /\ ToRead' \in 0 .. ToRead - 1 ]_docVars
=============================================================================
