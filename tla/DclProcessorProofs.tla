------------------------- MODULE DclProcessorProofs -------------------------
(***************************************************************************)
(* Proofs about MemoryMap and DclProcessor, for segments of any layout and *)
(* any number of servers and blocks: the zones of a segment are apart,     *)
(* nobody uses a segment older than its server, and a server whose name is *)
(* left alone, with its blocks, finds what it needs.                       *)
(*                                                                         *)
(* IInv holds whoever removes the name.  Sound adds, server by server, the *)
(* order in which a segment is filled, and what is found under the name as *)
(* long as it stands for that segment: a name that was lost never stands   *)
(* for the same segment again.                                             *)
(***************************************************************************)
EXTENDS DclProcessor, TLAPS

-----------------------------------------------------------------------------
(* The layout of a segment.                                                *)

LEMMA ProductInNat ==
  ASSUME NEW a \in Nat, NEW b \in Nat
  PROVE  a * b \in Nat
  OBVIOUS

\* Entries of the same size follow one another within the place for all of them.
LEMMA EntryWithin ==
  ASSUME NEW cnt \in Nat, NEW size \in Nat, NEW i \in 0..(cnt - 1)
  PROVE  /\ i * size \in Nat
         /\ i * size + size <= cnt * size
<1>1. i \in Nat /\ cnt - 1 - i \in Nat
  OBVIOUS
<1>2. (cnt - 1 - i) * size \in Nat /\ i * size \in Nat
  BY <1>1, ProductInNat
<1>3. cnt * size = (cnt - 1 - i) * size + i * size + size
  BY <1>1
<1> QED
  BY <1>2, <1>3

\* MEMORY_ALIGN never makes smaller.
LEMMA AlignCovers ==
  ASSUME NEW size \in Nat
  PROVE  Align(size) \in Nat /\ size <= Align(size)
  BY DEF Align

Areas == [first : Nat, end : Nat]

LEMMA SizesInNat ==
  ASSUME NEW map \in Maps
  PROVE  /\ memory_get_process_size(map) \in Nat
         /\ memory_get_data_size(map) \in Nat
         /\ memory_get_description_size(map) \in Nat
         /\ memory_get_data_offset(map) \in Nat
         /\ memory_get_description_offset(map) \in Nat
         /\ memory_get_size(map) \in Nat
<1>1. /\ map.process_size * map.process_cnt \in Nat
      /\ map.data_size * map.data_cnt \in Nat
      /\ map.description_zone_cnt * map.description_zone_size \in Nat
  BY ProductInNat DEF Maps
<1>2. /\ memory_get_process_size(map) \in Nat
      /\ memory_get_data_size(map) \in Nat
      /\ memory_get_description_size(map) \in Nat
  BY <1>1, AlignCovers DEF memory_get_process_size, memory_get_data_size,
                           memory_get_description_size
<1>3. memory_get_process_offset \in Nat
  BY DEF memory_get_process_offset, Align, SizeofMap
<1> QED
  BY <1>2, <1>3 DEF memory_get_data_offset, memory_get_description_offset, memory_get_size

\* Entries, chunks and descriptions stay in their zones.
LEMMA ProcessWithin ==
  ASSUME NEW map \in Maps, NEW i \in 0..(map.process_cnt - 1)
  PROVE  /\ ProcessArea(map, i) \in Areas
         /\ SizeofMap <= ProcessArea(map, i).first
         /\ ProcessArea(map, i).end <= memory_get_data_offset(map)
<1>1. map.process_cnt \in Nat /\ map.process_size \in Nat
  BY DEF Maps
<1>2. /\ i * map.process_size \in Nat
      /\ i * map.process_size + map.process_size <= map.process_cnt * map.process_size
  BY <1>1, EntryWithin
<1>3. map.process_cnt * map.process_size = map.process_size * map.process_cnt
  BY <1>1
<1>4. map.process_size * map.process_cnt \in Nat
  BY <1>1, ProductInNat
<1>5. map.process_size * map.process_cnt <= memory_get_process_size(map)
  BY <1>4, AlignCovers DEF memory_get_process_size
<1>6. memory_get_process_offset = 256 /\ SizeofMap = 48
  BY DEF memory_get_process_offset, Align, SizeofMap
<1>7. memory_get_process_size(map) \in Nat
  BY SizesInNat
<1> QED
  BY <1>1, <1>2, <1>3, <1>4, <1>5, <1>6, <1>7 DEF ProcessArea, Area, Areas,
                                                  memory_get_data_offset

LEMMA ChunkWithin ==
  ASSUME NEW map \in Maps, NEW j \in 0..(map.data_cnt - 1)
  PROVE  /\ ChunkArea(map, j) \in Areas
         /\ memory_get_data_offset(map) <= ChunkArea(map, j).first
         /\ ChunkArea(map, j).end <= memory_get_description_offset(map)
<1>1. map.data_cnt \in Nat /\ map.data_size \in Nat
  BY DEF Maps
<1>2. /\ j * map.data_size \in Nat
      /\ j * map.data_size + map.data_size <= map.data_cnt * map.data_size
  BY <1>1, EntryWithin
<1>3. map.data_cnt * map.data_size = map.data_size * map.data_cnt
  BY <1>1
<1>4. map.data_size * map.data_cnt \in Nat
  BY <1>1, ProductInNat
<1>5. map.data_size * map.data_cnt <= memory_get_data_size(map)
  BY <1>4, AlignCovers DEF memory_get_data_size
<1>6. memory_get_data_offset(map) \in Nat /\ memory_get_data_size(map) \in Nat
  BY SizesInNat
<1> QED
  BY <1>1, <1>2, <1>3, <1>4, <1>5, <1>6 DEF ChunkArea, Area, Areas,
                                             memory_get_description_offset

LEMMA DescriptionWithin ==
  ASSUME NEW map \in Maps, NEW k \in 0..(map.description_zone_cnt - 1)
  PROVE  /\ DescriptionArea(map, k) \in Areas
         /\ memory_get_description_offset(map) <= DescriptionArea(map, k).first
         /\ DescriptionArea(map, k).end <= memory_get_size(map)
<1> DEFINE cnt == map.description_zone_cnt
           size == map.description_zone_size
<1>1. cnt \in Nat /\ size \in Nat
  BY DEF Maps
<1> HIDE DEF cnt, size
<1>2. k * size \in Nat /\ k * size + size <= cnt * size
  BY <1>1, EntryWithin DEF cnt
<1>3. cnt * size \in Nat
  BY <1>1, ProductInNat
<1>4. cnt * size <= memory_get_description_size(map)
  BY <1>3, AlignCovers DEF memory_get_description_size, cnt, size
<1>5. memory_get_description_offset(map) \in Nat /\ memory_get_description_size(map) \in Nat
  BY SizesInNat
<1>6. DescriptionArea(map, k) = Area(memory_get_description_offset(map) + k * size, size)
  BY DEF DescriptionArea, size
<1> QED
  BY <1>1, <1>2, <1>3, <1>4, <1>5, <1>6 DEF Area, Areas, memory_get_size

\* The areas of a segment that is as large as memory_get_size says, whatever the
\* counts and sizes of its map are (memory_map.h).
Apart(map, size) ==
    /\ \A i \in 0..(map.process_cnt - 1), j \in 0..(map.data_cnt - 1) :
          /\ SizeofMap <= ProcessArea(map, i).first
          /\ Before(ProcessArea(map, i), ChunkArea(map, j))
    /\ \A j \in 0..(map.data_cnt - 1), k \in 0..(map.description_zone_cnt - 1) :
          Before(ChunkArea(map, j), DescriptionArea(map, k))
    /\ \A k \in 0..(map.description_zone_cnt - 1) :
          DescriptionArea(map, k).end <= size

THEOREM LayoutApart ==
  ASSUME NEW map \in Maps
  PROVE  Apart(map, memory_get_size(map))

<1>1. /\ memory_get_data_offset(map) \in Nat
      /\ memory_get_description_offset(map) \in Nat
  BY SizesInNat
<1>2. ASSUME NEW i \in 0..(map.process_cnt - 1), NEW j \in 0..(map.data_cnt - 1)
      PROVE  /\ SizeofMap <= ProcessArea(map, i).first
             /\ Before(ProcessArea(map, i), ChunkArea(map, j))
  BY <1>1, ProcessWithin, ChunkWithin DEF Before, Areas
<1>3. ASSUME NEW j \in 0..(map.data_cnt - 1), NEW k \in 0..(map.description_zone_cnt - 1)
      PROVE  Before(ChunkArea(map, j), DescriptionArea(map, k))
  BY <1>1, ChunkWithin, DescriptionWithin DEF Before, Areas
<1>4. ASSUME NEW k \in 0..(map.description_zone_cnt - 1)
      PROVE  DescriptionArea(map, k).end <= memory_get_size(map)
  BY DescriptionWithin
<1> QED
  BY <1>2, <1>3, <1>4 DEF Apart

-----------------------------------------------------------------------------
(* The inductive invariant.                                                *)

\* A run that has not begun has nothing.
Fresh ==
    \A s \in Servers : pc[s] = "off" =>
        /\ mine[s] = 0 /\ pl[s] = 0
        /\ \A m \in Modules(s) :
              child[s][m] = "none" /\ source[s][m] = 0 /\ table[s][m] = 0

\* The name is removed when a run begins, and then given to new segments only.
NameYounger == \A s \in Servers : pc[s] # "off" /\ name # 0 => name > since[s]

\* So is what a run made itself.
MineYounger == \A s \in Servers : mine[s] # 0 => mine[s] > since[s]

\* A segment has one maker.
Owned == \A s, t \in Servers : mine[s] # 0 /\ mine[s] = mine[t] => s = t

\* The map is written into a segment of the size that it needs.
Staged ==
    \A s \in Servers :
        /\ pc[s] = "create" => mine[s] = 0
        /\ pc[s] \in {"truncate", "header"} =>
              mine[s] # 0 /\ segments[mine[s]].map = NoMap
        /\ pc[s] = "header" => segments[mine[s]].size = Mapped(s)
        /\ pc[s] \in {"size", "text"} => mine[s] # 0
        /\ pc[s] = "table" => pl[s] # 0

Layout ==
    \A g \in DOMAIN segments :
        \/ segments[g].map = NoMap
        \/ segments[g].size = memory_get_size(segments[g].map)

IInv == TypeOK /\ Fresh /\ NameYounger /\ MineYounger /\ NeverOlder /\ Owned /\ Staged /\ Layout

\* Servers that still set up their segments have made them, each its own.
LEMMA StagedSegment ==
  ASSUME TypeOK, Staged, NEW r \in Servers, pc[r] \in {"truncate", "header"}
  PROVE  mine[r] \in DOMAIN segments /\ mine[r] # 0
  BY DEF TypeOK, Staged, Numbers

LEMMA StagedApart ==
  ASSUME TypeOK, Staged, Owned, NEW r \in Servers, pc[r] \in {"truncate", "header"},
         NEW s \in Servers, r # s
  PROVE  mine[r] # mine[s]
  BY StagedSegment DEF Owned

LEMMA MapsOfServers ==
  ASSUME ProcessorAssumption, common \in [Servers -> BOOLEAN], NEW s \in Servers
  PROVE  MapOf(s) \in Maps /\ Mapped(s) \in Nat
<1>1. MapOf(s) \in Maps
  BY DEF ProcessorAssumption, MapOf, CommonMap, PipelineMap, Maps, PROCESS_MAX_CNT
<1> QED
  BY <1>1, SizesInNat DEF Mapped

LEMMA NoMapIsMap == NoMap \in Maps
  BY DEF NoMap, Maps

LEMMA InitInv ==
  ASSUME ProcessorAssumption, Init
  PROVE  IInv
<1> USE DEF Init
<1>1. TypeOK
  BY DEF TypeOK, Numbers, ServerPlaces, ChildPlaces, Segments
<1>2. Fresh /\ NameYounger /\ MineYounger /\ NeverOlder /\ Owned
  BY DEF Fresh, NameYounger, MineYounger, NeverOlder, Owned
<1>3. Staged /\ Layout
  BY DEF Staged, Layout
<1> QED
  BY <1>1, <1>2, <1>3 DEF IInv

-----------------------------------------------------------------------------
(* The steps of a server.                                                  *)

LEMMA UnlinkInv ==
  ASSUME ProcessorAssumption, IInv, NEW s \in Servers, Unlink(s),
         UNCHANGED <<common, descLen, childVars>>
  PROVE  IInv'
<1> USE DEF Unlink, Goto, childVars, IInv
<1>1. TypeOK'
  <2>1. pc' \in [Servers -> ServerPlaces]
    BY DEF TypeOK, ServerPlaces
  <2>2. since' \in [Servers -> Numbers] /\ name' \in Numbers
    BY DEF TypeOK, Numbers
  <2> QED
    BY <2>1, <2>2 DEF TypeOK, Numbers
<1>2. Fresh' /\ NameYounger' /\ MineYounger'
  <2>1. Fresh'
    BY DEF TypeOK, Fresh
  <2>2. MineYounger'
    BY DEF TypeOK, Fresh, MineYounger
  <2> QED
    BY <2>1, <2>2 DEF NameYounger
<1>3. NeverOlder'
  BY DEF TypeOK, Fresh, NeverOlder
<1>4. Owned' /\ Layout'
  BY DEF TypeOK, Owned, Layout
<1>5. Staged'
  BY DEF TypeOK, Staged, Fresh, Mapped, MapOf
<1> QED
  BY <1>1, <1>2, <1>3, <1>4, <1>5

LEMMA CreateInv ==
  ASSUME ProcessorAssumption, IInv, NEW s \in Servers, Create(s),
         UNCHANGED <<common, descLen, childVars>>
  PROVE  IInv'
<1> USE DEF Create, Goto, childVars, IInv
<1>1. NewSegment \in Segments
  BY NoMapIsMap DEF NewSegment, Segments
<1>2. /\ segments' \in Seq(Segments) /\ Len(segments') = Len(segments) + 1
      /\ \A g \in DOMAIN segments : segments'[g] = segments[g]
      /\ segments'[Len(segments) + 1] = NewSegment
      /\ DOMAIN segments = 1..Len(segments) /\ DOMAIN segments' = 1..(Len(segments) + 1)
      /\ Len(segments) \in Nat
  BY <1>1 DEF TypeOK
<1>3. TypeOK'
  <2>1. Numbers \subseteq Numbers' /\ Len(segments) + 1 \in Numbers'
    BY <1>2 DEF Numbers
  <2>2. name' \in Numbers' /\ mine' \in [Servers -> Numbers'] /\ pc' \in [Servers -> ServerPlaces]
    BY <2>1 DEF TypeOK, ServerPlaces
  <2>3. since' \in [Servers -> Numbers'] /\ pl' \in [Servers -> Numbers']
    BY <2>1 DEF TypeOK
  <2>4. ASSUME NEW r \in Servers
        PROVE  /\ source'[r] \in [Modules(r) -> Numbers']
               /\ table'[r] \in [Modules(r) -> Numbers']
    BY <2>1 DEF TypeOK
  <2> QED
    BY <1>2, <2>2, <2>3, <2>4 DEF TypeOK
<1>4. Fresh' /\ NameYounger' /\ MineYounger'
  <2>1. Fresh'
    BY <1>2 DEF TypeOK, Fresh
  <2>2. ASSUME NEW r \in Servers
        PROVE  since'[r] = since[r] /\ since[r] < Len(segments) + 1
    <3>1. since[r] \in 0..Len(segments)
      BY DEF TypeOK, Numbers
    <3> HIDE DEF IInv
    <3> QED
      BY <1>2, <3>1
  <2>3. NameYounger'
    BY <2>2 DEF NameYounger
  <2>4. MineYounger'
    BY <2>2 DEF TypeOK, MineYounger
  <2> QED
    BY <2>1, <2>3, <2>4
<1>5. NeverOlder'
  BY <1>2 DEF TypeOK, NeverOlder
<1>6. Owned'
  <2>1. \A r \in Servers : mine[r] # Len(segments) + 1
    BY <1>2 DEF TypeOK, Numbers
  <2> QED
    BY <2>1 DEF TypeOK, Owned
<1>7. Staged'
  BY <1>2 DEF TypeOK, Staged, Mapped, MapOf, NewSegment, Numbers
<1>8. Layout'
  BY <1>2 DEF Layout, NewSegment
<1> QED
  BY <1>3, <1>4, <1>5, <1>6, <1>7, <1>8

\* What is written into a segment keeps it one.
LEMMA SegmentFields ==
  ASSUME TypeOK, NEW g \in DOMAIN segments, NEW n \in Nat, NEW map \in Maps,
         NEW d \in {"none", "length", "whole"}
  PROVE  /\ [segments[g] EXCEPT !.size = n] \in Segments
         /\ [segments[g] EXCEPT !.size = n].size = n
         /\ [segments[g] EXCEPT !.size = n].map = segments[g].map
         /\ [segments[g] EXCEPT !.map = map] \in Segments
         /\ [segments[g] EXCEPT !.map = map].map = map
         /\ [segments[g] EXCEPT !.map = map].size = segments[g].size
         /\ [segments[g] EXCEPT !.desc = d] \in Segments
         /\ [segments[g] EXCEPT !.desc = d].map = segments[g].map
         /\ [segments[g] EXCEPT !.desc = d].size = segments[g].size
         /\ [segments[g] EXCEPT !.ready = TRUE] \in Segments
         /\ [segments[g] EXCEPT !.ready = TRUE].map = segments[g].map
         /\ [segments[g] EXCEPT !.ready = TRUE].size = segments[g].size
<1>1. segments[g] \in Segments
  BY DEF TypeOK
<1> HIDE DEF TypeOK
<1> DEFINE y == segments[g]
<1>2. y \in Segments
  BY <1>1
<1> HIDE DEF y
<1>3. /\ [y EXCEPT !.size = n] \in Segments
      /\ [y EXCEPT !.size = n].size = n /\ [y EXCEPT !.size = n].map = y.map
  BY <1>2 DEF Segments
<1>4. /\ [y EXCEPT !.map = map] \in Segments
      /\ [y EXCEPT !.map = map].map = map /\ [y EXCEPT !.map = map].size = y.size
  BY <1>2 DEF Segments
<1>5. /\ [y EXCEPT !.desc = d] \in Segments
      /\ [y EXCEPT !.desc = d].map = y.map /\ [y EXCEPT !.desc = d].size = y.size
  BY <1>2 DEF Segments
<1>6. /\ [y EXCEPT !.ready = TRUE] \in Segments
      /\ [y EXCEPT !.ready = TRUE].map = y.map /\ [y EXCEPT !.ready = TRUE].size = y.size
  BY <1>2 DEF Segments
<1> QED
  BY <1>3, <1>4, <1>5, <1>6 DEF y

\* A step that changes one segment makes none.
LEMMA SegmentChanges ==
  ASSUME TypeOK, NEW g \in DOMAIN segments, NEW x \in Segments,
         segments' = [segments EXCEPT ![g] = x]
  PROVE  /\ segments' \in Seq(Segments)
         /\ Len(segments') = Len(segments) /\ DOMAIN segments' = DOMAIN segments
         /\ Numbers' = Numbers
         /\ segments'[g] = x
         /\ \A h \in DOMAIN segments : h # g => segments'[h] = segments[h]
  BY DEF TypeOK, Numbers

LEMMA TruncateInv ==
  ASSUME ProcessorAssumption, IInv, NEW s \in Servers, Truncate(s),
         UNCHANGED <<common, descLen, childVars>>
  PROVE  IInv'
<1> USE DEF Truncate, Goto, childVars, IInv
<1> DEFINE g == mine[s]
           x == [segments[g] EXCEPT !.size = Mapped(s)]
<1>1. g \in DOMAIN segments /\ Len(segments) \in Nat
  BY DEF TypeOK, Staged, Numbers
<1>2. x \in Segments /\ x.map = NoMap /\ x.size = Mapped(s)
  <2>1. Mapped(s) \in Nat /\ segments[g].map = NoMap
    BY MapsOfServers DEF TypeOK, Staged
  <2> QED
    BY <1>1, <2>1, NoMapIsMap, SegmentFields
<1>3. /\ segments' \in Seq(Segments) /\ Len(segments') = Len(segments)
      /\ DOMAIN segments' = DOMAIN segments /\ Numbers' = Numbers
      /\ segments'[g] = x
      /\ \A h \in DOMAIN segments : h # g => segments'[h] = segments[h]
  <2>1. segments' = [segments EXCEPT ![g] = x]
    OBVIOUS
  <2> QED
    BY <1>1, <1>2, <2>1, SegmentChanges
<1> HIDE DEF x
<1>4. TypeOK'
  BY <1>3 DEF TypeOK, ServerPlaces
<1>5. Fresh' /\ NameYounger' /\ MineYounger'
  BY DEF TypeOK, Fresh, NameYounger, MineYounger
<1>6. NeverOlder' /\ Owned'
  BY DEF TypeOK, NeverOlder, Owned
<1>7. Staged'
  <2>1. ASSUME NEW r \in Servers, r # s, pc[r] \in {"truncate", "header"}
        PROVE  mine[r] \in DOMAIN segments /\ mine[r] # g
    BY <2>1, StagedSegment, StagedApart
  <2> QED
    BY <1>1, <1>2, <1>3, <2>1 DEF TypeOK, Staged, Mapped, MapOf
<1>8. Layout'
  BY <1>1, <1>2, <1>3 DEF Layout
<1> QED
  BY <1>4, <1>5, <1>6, <1>7, <1>8

LEMMA WriteMapInv ==
  ASSUME ProcessorAssumption, IInv, NEW s \in Servers, WriteMap(s),
         UNCHANGED <<common, descLen, childVars>>
  PROVE  IInv'
<1> USE DEF WriteMap, Goto, childVars, IInv
<1> DEFINE g == mine[s]
           x == [segments[g] EXCEPT !.map = MapOf(s)]
<1>1. g \in DOMAIN segments /\ g # 0 /\ Len(segments) \in Nat
  BY DEF TypeOK, Staged, Numbers
<1>2. x \in Segments /\ x.map = MapOf(s) /\ x.size = memory_get_size(MapOf(s))
  <2>1. MapOf(s) \in Maps /\ segments[g].size = memory_get_size(MapOf(s)) /\ TypeOK
    BY MapsOfServers DEF TypeOK, Staged, Mapped
  <2> DEFINE map == MapOf(s)
  <2> HIDE DEF map, IInv, WriteMap
  <2>2. /\ [segments[g] EXCEPT !.map = map] \in Segments
        /\ [segments[g] EXCEPT !.map = map].map = map
        /\ [segments[g] EXCEPT !.map = map].size = segments[g].size
    BY <1>1, <2>1, SegmentFields DEF map
  <2> QED
    BY <2>1, <2>2 DEF map
<1>3. /\ segments' \in Seq(Segments) /\ Len(segments') = Len(segments)
      /\ DOMAIN segments' = DOMAIN segments /\ Numbers' = Numbers
      /\ segments'[g] = x
      /\ \A h \in DOMAIN segments : h # g => segments'[h] = segments[h]
  <2>1. segments' = [segments EXCEPT ![g] = x]
    OBVIOUS
  <2> QED
    BY <1>1, <1>2, <2>1, SegmentChanges
<1> HIDE DEF x
<1>4. TypeOK'
  BY <1>3 DEF TypeOK, ServerPlaces
<1>5. Fresh' /\ NameYounger' /\ MineYounger'
  BY DEF TypeOK, Fresh, NameYounger, MineYounger
<1>6. NeverOlder' /\ Owned'
  BY <1>1 DEF TypeOK, NeverOlder, MineYounger, Owned
<1>7. Staged'
  <2>1. ASSUME NEW r \in Servers, r # s, pc[r] \in {"truncate", "header"}
        PROVE  mine[r] \in DOMAIN segments /\ mine[r] # g
    BY <2>1, StagedSegment, StagedApart
  <2> QED
    BY <1>1, <1>3, <2>1 DEF TypeOK, Staged, Mapped, MapOf
<1>8. Layout'
  BY <1>1, <1>2, <1>3 DEF Layout
<1> QED
  BY <1>4, <1>5, <1>6, <1>7, <1>8

\* A step that writes into segment g, but neither its size nor its map.
LEMMA OthersStay ==
  ASSUME IInv, NEW g \in DOMAIN segments, NEW x \in Segments,
         x.size = segments[g].size, x.map = segments[g].map,
         segments' = [segments EXCEPT ![g] = x]
  PROVE  /\ segments' \in Seq(Segments) /\ Len(segments') = Len(segments)
         /\ Numbers' = Numbers
         /\ \A h \in DOMAIN segments : /\ segments'[h].map = segments[h].map
                                       /\ segments'[h].size = segments[h].size
         /\ Layout'
<1>1. /\ segments' \in Seq(Segments) /\ Len(segments') = Len(segments)
      /\ DOMAIN segments' = DOMAIN segments /\ Numbers' = Numbers
      /\ segments'[g] = x
      /\ \A h \in DOMAIN segments : h # g => segments'[h] = segments[h]
  BY SegmentChanges DEF IInv
<1> QED
  BY <1>1 DEF IInv, Layout

LEMMA ContentInv ==
  ASSUME ProcessorAssumption, IInv, NEW s \in Servers, UNCHANGED <<common, descLen, childVars>>,
         NEW g \in DOMAIN segments, NEW x \in Segments,
         x.size = segments[g].size, x.map = segments[g].map,
         segments' = [segments EXCEPT ![g] = x],
         UNCHANGED <<name, since, mine, pl>>, pc[s] # "off",
         NEW place \in ServerPlaces, pc' = [pc EXCEPT ![s] = place],
         place \notin {"off", "create", "truncate", "header", "table"},
         place \in {"size", "text"} => mine[s] # 0
  PROVE  IInv'
<1> USE DEF childVars, IInv
<1>1. /\ segments' \in Seq(Segments) /\ Len(segments') = Len(segments)
      /\ Numbers' = Numbers
      /\ \A h \in DOMAIN segments : /\ segments'[h].map = segments[h].map
                                    /\ segments'[h].size = segments[h].size
      /\ Layout'
  BY OthersStay
<1>2. TypeOK'
  BY <1>1 DEF TypeOK
<1>3. Fresh' /\ NameYounger' /\ MineYounger'
  BY DEF TypeOK, Fresh, NameYounger, MineYounger
<1>4. NeverOlder' /\ Owned'
  BY DEF TypeOK, NeverOlder, Owned
<1>5. Staged'
  <2>1. ASSUME NEW r \in Servers, pc[r] \in {"truncate", "header"}
        PROVE  mine[r] \in DOMAIN segments
    BY <2>1, StagedSegment
  <2> QED
    BY <1>1, <2>1 DEF TypeOK, Staged, Mapped, MapOf
<1> QED
  BY <1>1, <1>2, <1>3, <1>4, <1>5

LEMMA WriteSizeInv ==
  ASSUME ProcessorAssumption, IInv, NEW s \in Servers, WriteSize(s),
         UNCHANGED <<common, descLen, childVars>>
  PROVE  IInv'
<1> DEFINE g == mine[s]
           x == [segments[g] EXCEPT !.desc = "length"]
<1>1. g \in DOMAIN segments /\ g # 0
  BY DEF WriteSize, IInv, TypeOK, Staged, Numbers
<1>2. x \in Segments /\ x.size = segments[g].size /\ x.map = segments[g].map
  BY <1>1, NoMapIsMap, SegmentFields DEF IInv
<1>3. segments' = [segments EXCEPT ![g] = x]
  BY DEF WriteSize
<1>4. /\ UNCHANGED <<name, since, mine, pl>> /\ pc[s] # "off"
      /\ pc' = [pc EXCEPT ![s] = "text"] /\ mine[s] # 0
  BY <1>1 DEF WriteSize, Goto
<1> HIDE DEF x, g
<1> QED
  BY <1>1, <1>2, <1>3, <1>4, ContentInv DEF ServerPlaces

LEMMA WriteTextInv ==
  ASSUME ProcessorAssumption, IInv, NEW s \in Servers, WriteText(s),
         UNCHANGED <<common, descLen, childVars>>
  PROVE  IInv'
<1> DEFINE g == mine[s]
           x == [segments[g] EXCEPT !.desc = "whole"]
<1>1. g \in DOMAIN segments /\ g # 0
  BY DEF WriteText, IInv, TypeOK, Staged, Numbers
<1>2. x \in Segments /\ x.size = segments[g].size /\ x.map = segments[g].map
  BY <1>1, NoMapIsMap, SegmentFields DEF IInv
<1>3. segments' = [segments EXCEPT ![g] = x]
  BY DEF WriteText
<1>4. /\ UNCHANGED <<name, since, mine, pl>> /\ pc[s] # "off"
      /\ pc' = [pc EXCEPT ![s] = "attach"] /\ mine[s] # 0
  BY <1>1 DEF WriteText, Goto
<1> HIDE DEF x, g
<1> QED
  BY <1>1, <1>2, <1>3, <1>4, ContentInv DEF ServerPlaces

LEMMA TableReadyInv ==
  ASSUME ProcessorAssumption, IInv, NEW s \in Servers, InitTable(s), Reaches(s, pl[s]),
         UNCHANGED <<common, descLen, childVars>>
  PROVE  IInv'
<1> DEFINE g == pl[s]
           x == [segments[g] EXCEPT !.ready = TRUE]
<1>1. g \in DOMAIN segments
  BY DEF InitTable, IInv, TypeOK, Staged, Numbers
<1>2. x \in Segments /\ x.size = segments[g].size /\ x.map = segments[g].map
  BY <1>1, NoMapIsMap, SegmentFields DEF IInv
<1>3. segments' = [segments EXCEPT ![g] = x]
  BY DEF InitTable
<1>4. /\ UNCHANGED <<name, since, mine, pl>> /\ pc[s] # "off"
      /\ pc' = [pc EXCEPT ![s] = "fork"]
  BY DEF InitTable, Goto
<1> HIDE DEF x, g
<1> QED
  BY <1>1, <1>2, <1>3, <1>4, ContentInv DEF ServerPlaces

\* A step of a server that leaves the segments as they are, and gives no name.
LEMMA QuietServerInv ==
  ASSUME ProcessorAssumption, IInv, NEW s \in Servers, UNCHANGED <<common, descLen, childVars>>,
         \/ CreateFails(s) \/ ServerInitFails(s) \/ Attach(s) \/ NoSuchName(s) \/ AttachFails(s)
         \/ WriteOverruns(s) \/ (InitTable(s) /\ ~Reaches(s, pl[s])) \/ GoLive(s)
         \/ (\E m \in 0..Finalization(s) : StartFails(s, m)) \/ End(s) \/ Destroy(s)
  PROVE  IInv'
<1> USE DEF Goto, childVars, IInv
<1>1. /\ UNCHANGED <<segments, since, mine>> /\ name' \in {name, 0}
      /\ pl' = pl \/ (name # 0 /\ pl' = [pl EXCEPT ![s] = name])
      /\ pc[s] # "off"
      /\ \E place \in ServerPlaces :
            /\ pc' = [pc EXCEPT ![s] = place]
            /\ place \notin {"off", "create", "truncate", "header", "size", "text"}
            /\ place = "table" => pl' = [pl EXCEPT ![s] = name] /\ name # 0
  BY DEF CreateFails, ServerInitFails, WriteOverruns, Attach, NoSuchName, AttachFails, InitTable,
         Turn, GoLive, StartFails, End, Destroy, ServerPlaces, memory
<1>2. TypeOK'
  <2>1. Numbers' = Numbers
    BY <1>1 DEF Numbers
  <2>2. name' \in Numbers /\ pl' \in [Servers -> Numbers]
    <3>1. 0 \in Numbers /\ name \in Numbers /\ pl \in [Servers -> Numbers]
      BY DEF TypeOK, Numbers
    <3> HIDE DEF IInv
    <3> QED
      BY <1>1, <3>1
  <2>3. pc' \in [Servers -> ServerPlaces]
    BY <1>1 DEF TypeOK
  <2> QED
    BY <1>1, <2>1, <2>2, <2>3 DEF TypeOK
<1>3. Fresh' /\ NameYounger' /\ MineYounger'
  <2>1. \A r \in Servers : (pc'[r] = "off") <=> (pc[r] = "off")
    BY <1>1 DEF TypeOK
  <2>2. Fresh'
    BY <1>1, <2>1 DEF TypeOK, Fresh
  <2> QED
    BY <1>1, <2>1, <2>2 DEF NameYounger, MineYounger
<1>4. NeverOlder' /\ Owned' /\ Layout'
  <2>1. \A r \in Servers : pl'[r] = pl[r] \/ (r = s /\ pl'[r] = name /\ name # 0)
    BY <1>1 DEF TypeOK
  <2>2. name # 0 => name > since[s]
    BY <1>1 DEF NameYounger
  <2>3. NeverOlder'
    BY <1>1, <2>1, <2>2 DEF NeverOlder
  <2>4. Owned' /\ Layout'
    BY <1>1 DEF Owned, Layout
  <2> QED
    BY <2>3, <2>4
<1>5. Staged'
  BY <1>1 DEF TypeOK, Staged, Mapped, MapOf
<1> QED
  BY <1>2, <1>3, <1>4, <1>5

LEMMA ServerInv ==
  ASSUME ProcessorAssumption, IInv, NEW s \in Servers, ServerStep(s) \/ ServerMay(s)
  PROVE  IInv'
<1>1. UNCHANGED <<common, descLen, childVars>>
  BY DEF ServerStep, ServerMay, program
<1>2. CASE InitTable(s)
  BY <1>1, <1>2, TableReadyInv, QuietServerInv
<1> QED
  BY <1>1, <1>2, UnlinkInv, CreateInv, TruncateInv, WriteMapInv, WriteSizeInv, WriteTextInv,
     QuietServerInv DEF ServerStep, ServerMay

-----------------------------------------------------------------------------
(* The steps of the blocks.                                                *)

LEMMA ChildInv ==
  ASSUME ProcessorAssumption, IInv, NEW s \in Servers, NEW m \in Modules(s),
         ChildStep(s, m) \/ ChildMapFails(s, m)
  PROVE  IInv'
<1> USE DEF IInv
<1>1. /\ UNCHANGED <<common, descLen, segments, serverVars>> /\ name' \in {name, 0}
      /\ pc[s] # "off"
      /\ \E place \in ChildPlaces : child' = [child EXCEPT ![s][m] = place]
      /\ source' = source \/ (name # 0 /\ source' = [source EXCEPT ![s][m] = name])
      /\ table' = table \/ (name # 0 /\ table' = [table EXCEPT ![s][m] = name])
      /\ \/ known' = known
         \/ \E k \in {"whole", "blank"} : known' = [known EXCEPT ![s][m] = k]
  <2>1. child[s][m] # "none" => pc[s] # "off"
    BY DEF TypeOK, Fresh
  <2> QED
    BY <2>1 DEF ChildStep, ChildMapFails, Fork, Turn, Get, NoMemory, ReadDescription, AttachTable,
                WaitJob, Move, ChildPlaces, program
<1>2. TypeOK'
  <2>1. Numbers' = Numbers /\ name' \in Numbers
    BY <1>1 DEF TypeOK, Numbers
  <2>2. /\ DOMAIN child' = Servers /\ DOMAIN source' = Servers
        /\ DOMAIN known' = Servers /\ DOMAIN table' = Servers
    BY <1>1 DEF TypeOK
  <2>3. ASSUME NEW r \in Servers
        PROVE  child'[r] \in [Modules(r) -> ChildPlaces]
    BY <1>1 DEF TypeOK
  <2>4. ASSUME NEW r \in Servers
        PROVE  source'[r] \in [Modules(r) -> Numbers]
    <3>1. source[r] \in [Modules(r) -> Numbers] /\ name \in Numbers
      BY DEF TypeOK
    <3>2. \/ source'[r] = source[r]
          \/ r = s /\ source'[r] = [source[s] EXCEPT ![m] = name]
      BY <1>1 DEF TypeOK
    <3> QED
      BY <3>1, <3>2
  <2>5. ASSUME NEW r \in Servers
        PROVE  known'[r] \in [Modules(r) -> {"none", "whole", "blank"}]
    <3>1. known[r] \in [Modules(r) -> {"none", "whole", "blank"}]
      BY DEF TypeOK
    <3>2. \/ known'[r] = known[r]
          \/ \E k \in {"whole", "blank"} : r = s /\ known'[r] = [known[s] EXCEPT ![m] = k]
      BY <1>1 DEF TypeOK
    <3> QED
      BY <3>1, <3>2
  <2>6. ASSUME NEW r \in Servers
        PROVE  table'[r] \in [Modules(r) -> Numbers]
    <3>1. table[r] \in [Modules(r) -> Numbers] /\ name \in Numbers
      BY DEF TypeOK
    <3>2. \/ table'[r] = table[r]
          \/ r = s /\ table'[r] = [table[s] EXCEPT ![m] = name]
      BY <1>1 DEF TypeOK
    <3> QED
      BY <3>1, <3>2
  <2> QED
    BY <1>1, <2>1, <2>2, <2>3, <2>4, <2>5, <2>6 DEF TypeOK, serverVars
<1>3. Fresh' /\ NameYounger' /\ MineYounger'
  BY <1>1 DEF TypeOK, Fresh, NameYounger, MineYounger, serverVars
<1>4. NeverOlder'
  <2>1. name # 0 => name > since[s]
    BY <1>1 DEF NameYounger
  <2>2. ASSUME NEW r \in Servers, NEW k \in Modules(r)
        PROVE  source'[r][k] # 0 => source'[r][k] > since[r]
    <3>1. source'[r][k] = source[r][k] \/ (r = s /\ source'[r][k] = name /\ name # 0)
      BY <1>1 DEF TypeOK
    <3> QED
      BY <2>1, <3>1 DEF NeverOlder
  <2>3. ASSUME NEW r \in Servers, NEW k \in Modules(r)
        PROVE  table'[r][k] # 0 => table'[r][k] > since[r]
    <3>1. table'[r][k] = table[r][k] \/ (r = s /\ table'[r][k] = name /\ name # 0)
      BY <1>1 DEF TypeOK
    <3> QED
      BY <2>1, <3>1 DEF NeverOlder
  <2> QED
    BY <1>1, <2>2, <2>3 DEF NeverOlder, serverVars
<1>5. Owned' /\ Staged' /\ Layout'
  BY <1>1 DEF TypeOK, Owned, Staged, Layout, Mapped, MapOf, serverVars
<1> QED
  BY <1>2, <1>3, <1>4, <1>5

LEMMA NextInv ==
  ASSUME ProcessorAssumption, IInv, [Next]_vars
  PROVE  IInv'
<1>1. CASE Next
  BY <1>1, ServerInv, ChildInv DEF Next
<1>2. CASE UNCHANGED vars
  BY <1>2 DEF IInv, TypeOK, Numbers, Fresh, NameYounger, MineYounger, NeverOlder, Owned, Staged,
     Layout, Mapped, MapOf, vars, program, memory, serverVars, childVars
<1> QED
  BY <1>1, <1>2

\* The layout of every segment keeps its zones apart.
LEMMA LayoutKeepsApart ==
  ASSUME IInv
  PROVE  ZonesApart
<1> SUFFICES ASSUME NEW g \in DOMAIN segments,
                    NEW map, map = segments[g].map
             PROVE  /\ \A i \in 0..(map.process_cnt - 1), j \in 0..(map.data_cnt - 1) :
                          /\ SizeofMap <= ProcessArea(map, i).first
                          /\ Before(ProcessArea(map, i), ChunkArea(map, j))
                    /\ \A j \in 0..(map.data_cnt - 1), k \in 0..(map.description_zone_cnt - 1) :
                          Before(ChunkArea(map, j), DescriptionArea(map, k))
                    /\ \A k \in 0..(map.description_zone_cnt - 1) :
                          DescriptionArea(map, k).end <= segments[g].size
  BY DEF ZonesApart
<1>1. map \in Maps
  <2>1. segments[g] \in Segments
    BY DEF IInv, TypeOK
  <2> QED
    BY <2>1 DEF Segments
<1>2. CASE map = NoMap
  BY <1>2 DEF NoMap
<1>3. CASE segments[g].size = memory_get_size(map)
  BY <1>1, <1>3, LayoutApart DEF Apart
<1> QED
  BY <1>2, <1>3 DEF IInv, Layout

-----------------------------------------------------------------------------
(* What a server has done to its own segment, and what it and its blocks   *)
(* find while the name stands for it.                                      *)

\* A block of s was started.
Born(s) == \E m \in Modules(s) : child[s][m] # "none"

\* Without a segment of its own a run has found none either.
EmptyHanded(s) == mine[s] = 0 =>
    /\ pc[s] \in {"off", "create", "taken", "ended"}
    /\ pl[s] = 0
    /\ \A m \in Modules(s) : child[s][m] = "none" /\ known[s][m] = "none"

\* The name was taken by a segment made since.
TakenLate(s) == pc[s] = "taken" => mine[s] = 0 /\ Len(segments) > since[s]

Served == {"attach", "table", "fork", "live"}
Starting == {"fork", "live", "polls", "full", "ended"}

\* The order of the work: the map, the description, the table, the blocks.
Filled(s) ==
    /\ Born(s) => pc[s] \in Starting
    /\ pc[s] \in {"size", "text"} \cup Served \/ Born(s) =>
          segments[mine[s]].size = Mapped(s) /\ segments[mine[s]].map = MapOf(s)
    /\ common[s] /\ (pc[s] \in Served \/ Born(s)) => segments[mine[s]].desc = "whole"
    /\ pc[s] \in {"fork", "live"} \/ Born(s) => pl[s] # 0 /\ segments[pl[s]].ready
    /\ \A m \in Modules(s) : child[s][m] \in {"get", "read"} => common[s]

\* Who follows the name finds the segment of s, and all that is in it.
Found(s) == mine[s] # 0 /\ name = mine[s] /\ DescriptionFits(s) =>
    /\ pc[s] # "lost"
    /\ pl[s] \in {0, mine[s]}
    /\ \A m \in Modules(s) :
          /\ child[s][m] # "gone" /\ known[s][m] # "blank"
          /\ child[s][m] = "read" => source[s][m] = mine[s]
          /\ child[s][m] \in {"entry", "waits"} => table[s][m] = mine[s]
          /\ child[s][m] # "none" => m < MapOf(s).process_cnt

Sound(s) == EmptyHanded(s) /\ TakenLate(s) /\ Filled(s) /\ Found(s)

LEMMA InitSound ==
  ASSUME Init, NEW s \in Servers
  PROVE  Sound(s)
<1>1. pc[s] = "off" /\ mine[s] = 0 /\ pl[s] = 0
  BY DEF Init
<1>2. \A m \in Modules(s) : child[s][m] = "none" /\ known[s][m] = "none"
  BY DEF Init
<1>3. ~Born(s)
  BY <1>2 DEF Born
<1> QED
  BY <1>1, <1>2, <1>3 DEF Sound, EmptyHanded, TakenLate, Filled, Found, Served, Starting

\* The description and the table of a segment that is written to.
LEMMA SegmentContents ==
  ASSUME TypeOK, NEW g \in DOMAIN segments, NEW n \in Nat, NEW map \in Maps,
         NEW d \in {"none", "length", "whole"}
  PROVE  /\ [segments[g] EXCEPT !.size = n].ready = segments[g].ready
         /\ [segments[g] EXCEPT !.map = map].ready = segments[g].ready
         /\ [segments[g] EXCEPT !.desc = d].ready = segments[g].ready
         /\ [segments[g] EXCEPT !.desc = d].desc = d
         /\ [segments[g] EXCEPT !.ready = TRUE].desc = segments[g].desc
         /\ [segments[g] EXCEPT !.ready = TRUE].ready = TRUE
<1>1. segments[g] \in Segments
  BY DEF TypeOK
<1> HIDE DEF TypeOK
<1> DEFINE y == segments[g]
<1>2. y \in Segments
  BY <1>1
<1> HIDE DEF y
<1>3. /\ [y EXCEPT !.size = n].ready = y.ready
      /\ [y EXCEPT !.map = map].ready = y.ready
      /\ [y EXCEPT !.desc = d].ready = y.ready /\ [y EXCEPT !.desc = d].desc = d
      /\ [y EXCEPT !.ready = TRUE].desc = y.desc /\ [y EXCEPT !.ready = TRUE].ready = TRUE
  BY <1>2 DEF Segments
<1> QED
  BY <1>3 DEF y

\* What a step of s does to the segments: others only see that a table is set up.
Kept(s) ==
    /\ Len(segments') \in Nat /\ Len(segments') >= Len(segments)
    /\ DOMAIN segments = 1..Len(segments)
    /\ \A g \in DOMAIN segments :
          /\ segments[g].ready => segments'[g].ready
          /\ g # mine[s] => /\ segments'[g].size = segments[g].size
                            /\ segments'[g].map = segments[g].map
                            /\ segments'[g].desc = segments[g].desc
    /\ name' \in {name, 0, Len(segments) + 1}

\* The step of a server that writes into its own segment.
LEMMA OwnSegmentKept ==
  ASSUME ProcessorAssumption, IInv, NEW s \in Servers,
         Truncate(s) \/ WriteMap(s) \/ WriteSize(s) \/ WriteText(s)
  PROVE  /\ Kept(s) /\ mine[s] \in DOMAIN segments
         /\ segments'[mine[s]].ready = segments[mine[s]].ready
         /\ ~Truncate(s) => segments'[mine[s]].size = segments[mine[s]].size
         /\ WriteMap(s) => segments'[mine[s]].map = MapOf(s)
         /\ WriteSize(s) \/ WriteText(s) => segments'[mine[s]].map = segments[mine[s]].map
         /\ WriteText(s) => segments'[mine[s]].desc = "whole"
<1> DEFINE g == mine[s]
<1>1. g \in DOMAIN segments /\ DOMAIN segments = 1..Len(segments) /\ Len(segments) \in Nat
  BY DEF Truncate, WriteMap, WriteSize, WriteText, IInv, TypeOK, Staged, Numbers
<1>2. Mapped(s) \in Nat /\ MapOf(s) \in Maps /\ UNCHANGED name
  BY MapsOfServers DEF IInv, TypeOK, Truncate, WriteMap, WriteSize, WriteText
<1> HIDE DEF g
<1>3. ASSUME NEW x \in Segments, segments' = [segments EXCEPT ![g] = x], x.ready = segments[g].ready
      PROVE  /\ Kept(s) /\ segments'[g] = x
  <2>1. /\ Len(segments') = Len(segments) /\ segments'[g] = x
        /\ \A h \in DOMAIN segments : h # g => segments'[h] = segments[h]
    BY <1>1, <1>3, SegmentChanges DEF IInv
  <2> QED
    BY <1>1, <1>2, <1>3, <2>1 DEF Kept, g
<1>4. CASE Truncate(s)
  <2> DEFINE x == [segments[g] EXCEPT !.size = Mapped(s)]
  <2>1. x \in Segments /\ x.ready = segments[g].ready
    BY <1>1, <1>2, NoMapIsMap, SegmentFields, SegmentContents DEF IInv
  <2>2. segments' = [segments EXCEPT ![g] = x] /\ ~WriteMap(s) /\ ~WriteSize(s) /\ ~WriteText(s)
    BY <1>4 DEF Truncate, WriteMap, WriteSize, WriteText, g
  <2>3. Kept(s) /\ segments'[g] = x
    BY <1>3, <2>1, <2>2
  <2> HIDE DEF x
  <2> QED
    BY <1>1, <1>4, <2>1, <2>2, <2>3 DEF g
<1>5. CASE WriteMap(s)
  <2> DEFINE x == [segments[g] EXCEPT !.map = MapOf(s)]
  <2>1. /\ x \in Segments /\ x.ready = segments[g].ready
        /\ x.size = segments[g].size /\ x.map = MapOf(s)
    <3> DEFINE map == MapOf(s)
    <3>1. map \in Maps /\ TypeOK
      BY <1>2 DEF IInv
    <3> HIDE DEF map
    <3>2. /\ [segments[g] EXCEPT !.map = map] \in Segments
          /\ [segments[g] EXCEPT !.map = map].map = map
          /\ [segments[g] EXCEPT !.map = map].size = segments[g].size
      BY <1>1, <1>2, <3>1, SegmentFields
    <3>3. [segments[g] EXCEPT !.map = map].ready = segments[g].ready
      BY <1>1, <1>2, <3>1, SegmentContents
    <3> QED
      BY <3>2, <3>3 DEF map
  <2>2. segments' = [segments EXCEPT ![g] = x] /\ ~Truncate(s) /\ ~WriteSize(s) /\ ~WriteText(s)
    BY <1>5 DEF Truncate, WriteMap, WriteSize, WriteText, g
  <2>3. Kept(s) /\ segments'[g] = x
    BY <1>3, <2>1, <2>2
  <2> HIDE DEF x
  <2> QED
    BY <1>1, <1>5, <2>1, <2>2, <2>3 DEF g
<1>6. CASE WriteSize(s)
  <2> DEFINE x == [segments[g] EXCEPT !.desc = "length"]
  <2>1. /\ x \in Segments /\ x.ready = segments[g].ready
        /\ x.size = segments[g].size /\ x.map = segments[g].map
    BY <1>1, NoMapIsMap, SegmentFields, SegmentContents DEF IInv
  <2>2. segments' = [segments EXCEPT ![g] = x] /\ ~Truncate(s) /\ ~WriteMap(s) /\ ~WriteText(s)
    BY <1>6 DEF Truncate, WriteMap, WriteSize, WriteText, g
  <2>3. Kept(s) /\ segments'[g] = x
    BY <1>3, <2>1, <2>2
  <2> HIDE DEF x
  <2> QED
    BY <1>1, <1>6, <2>1, <2>2, <2>3 DEF g
<1>7. CASE WriteText(s)
  <2> DEFINE x == [segments[g] EXCEPT !.desc = "whole"]
  <2>1. /\ x \in Segments /\ x.ready = segments[g].ready
        /\ x.size = segments[g].size /\ x.map = segments[g].map /\ x.desc = "whole"
    BY <1>1, NoMapIsMap, SegmentFields, SegmentContents DEF IInv
  <2>2. segments' = [segments EXCEPT ![g] = x] /\ ~Truncate(s) /\ ~WriteMap(s) /\ ~WriteSize(s)
    BY <1>7 DEF Truncate, WriteMap, WriteSize, WriteText, g
  <2>3. Kept(s) /\ segments'[g] = x
    BY <1>3, <2>1, <2>2
  <2> HIDE DEF x
  <2> QED
    BY <1>1, <1>7, <2>1, <2>2, <2>3 DEF g
<1> QED
  BY <1>4, <1>5, <1>6, <1>7

LEMMA TableKept ==
  ASSUME IInv, NEW s \in Servers, InitTable(s), Reaches(s, pl[s])
  PROVE  /\ Kept(s) /\ segments'[pl[s]].ready
         /\ \A g \in DOMAIN segments : /\ segments'[g].size = segments[g].size
                                       /\ segments'[g].map = segments[g].map
                                       /\ segments'[g].desc = segments[g].desc
<1> DEFINE g == pl[s]
           x == [segments[g] EXCEPT !.ready = TRUE]
<1>1. g \in DOMAIN segments /\ DOMAIN segments = 1..Len(segments) /\ Len(segments) \in Nat
  BY DEF InitTable, IInv, TypeOK, Staged, Numbers
<1>2. /\ x \in Segments /\ x.size = segments[g].size /\ x.map = segments[g].map
      /\ x.desc = segments[g].desc /\ x.ready
  BY <1>1, NoMapIsMap, SegmentFields, SegmentContents DEF IInv
<1>3. segments' = [segments EXCEPT ![g] = x] /\ UNCHANGED name
  BY DEF InitTable
<1> HIDE DEF x, g
<1>4. /\ Len(segments') = Len(segments) /\ segments'[g] = x
      /\ \A h \in DOMAIN segments : h # g => segments'[h] = segments[h]
  BY <1>1, <1>2, <1>3, SegmentChanges DEF IInv
<1> QED
  BY <1>1, <1>2, <1>3, <1>4 DEF Kept, g

LEMMA ServerKept ==
  ASSUME ProcessorAssumption, IInv, NEW s \in Servers, ServerStep(s) \/ ServerMay(s)
  PROVE  Kept(s)
<1>1. DOMAIN segments = 1..Len(segments) /\ Len(segments) \in Nat
  BY DEF IInv, TypeOK
<1>2. CASE Create(s)
  <2>1. /\ Len(segments') = Len(segments) + 1
        /\ \A g \in DOMAIN segments : segments'[g] = segments[g]
    BY <1>1, <1>2 DEF Create, IInv, TypeOK
  <2> QED
    BY <1>1, <1>2, <2>1 DEF Kept, Create
<1>3. CASE UNCHANGED segments /\ name' \in {name, 0}
  BY <1>1, <1>3 DEF Kept
<1>4. CASE InitTable(s)
  BY <1>3, <1>4, TableKept DEF InitTable
<1> QED
  BY <1>2, <1>3, <1>4, OwnSegmentKept
     DEF ServerStep, ServerMay, CreateFails, WriteOverruns, NoSuchName, Attach, GoLive, StartFails,
         Unlink, ServerInitFails, AttachFails, End, Destroy, memory

\* What another server does disturbs, or is not noticed.
LEMMA OthersSound ==
  ASSUME ProcessorAssumption, IInv, NEW s \in Servers, NEW r \in Servers, r # s, Sound(r),
         ServerStep(s) \/ ServerMay(s)
  PROVE  Sound(r)'
<1>1. /\ pc'[r] = pc[r] /\ since'[r] = since[r] /\ mine'[r] = mine[r] /\ pl'[r] = pl[r]
      /\ UNCHANGED <<common, descLen, childVars>>
  <2>1. /\ \E place : pc' = [pc EXCEPT ![s] = place]
        /\ \E g : since' = [since EXCEPT ![s] = g] \/ since' = since
        /\ \E g : mine' = [mine EXCEPT ![s] = g] \/ mine' = mine
        /\ \E g : pl' = [pl EXCEPT ![s] = g] \/ pl' = pl
        /\ UNCHANGED <<common, descLen, childVars>>
    BY DEF ServerStep, ServerMay, Unlink, Create, CreateFails, Truncate, ServerInitFails,
           WriteMap, WriteSize, WriteText, WriteOverruns, Attach, NoSuchName, AttachFails, InitTable,
           GoLive, StartFails, End, Destroy, Goto, program
  <2> QED
    BY <2>1 DEF IInv, TypeOK
<1>2. Kept(s) /\ Len(segments) \in Nat /\ mine[r] \in Numbers /\ pl[r] \in Numbers
      /\ since[r] \in Numbers
  <2>1. Kept(s)
    BY ServerKept
  <2>2. /\ Len(segments) \in Nat /\ mine[r] \in Numbers /\ pl[r] \in Numbers
        /\ since[r] \in Numbers
    BY DEF IInv, TypeOK
  <2> QED
    BY <2>1, <2>2
<1>3. /\ MapOf(r)' = MapOf(r) /\ Mapped(r)' = Mapped(r) /\ (Born(r)' <=> Born(r))
      /\ DescriptionFits(r)' <=> DescriptionFits(r)
  BY <1>1 DEF MapOf, Mapped, Born, DescriptionFits, childVars
<1>4. EmptyHanded(r)' /\ TakenLate(r)'
  BY <1>1, <1>2 DEF Sound, EmptyHanded, TakenLate, childVars, Kept, Numbers
<1>5. Filled(r)'
  <2>1. mine[r] = 0 => ~Born(r) /\ pc[r] \notin {"size", "text"} \cup Served
    BY DEF Sound, EmptyHanded, Born, Served
  <2>2. ASSUME mine[r] # 0
        PROVE  /\ segments'[mine[r]].size = segments[mine[r]].size
               /\ segments'[mine[r]].map = segments[mine[r]].map
               /\ segments'[mine[r]].desc = segments[mine[r]].desc
    <3>1. mine[r] \in DOMAIN segments /\ mine[r] # mine[s]
      BY <1>2, <2>2 DEF IInv, Owned, Kept, Numbers
    <3> QED
      BY <1>2, <3>1 DEF Kept
  <2>3. pl[r] # 0 /\ segments[pl[r]].ready => segments'[pl[r]].ready
    BY <1>2 DEF Kept, Numbers
  <2> QED
    BY <1>1, <1>3, <2>1, <2>2, <2>3 DEF Sound, Filled, childVars, Served
<1>6. Found(r)'
  <2>1. mine[r] # 0 /\ name' = mine[r] => name = mine[r]
    BY <1>2 DEF Kept, Numbers
  <2> QED
    BY <1>1, <1>3, <2>1 DEF Sound, Found, childVars
<1> QED
  BY <1>4, <1>5, <1>6 DEF Sound

\* The segment that a server has filled is all that its pipeline and its blocks need.
LEMMA EnoughInIt ==
  ASSUME ProcessorAssumption, IInv, NEW s \in Servers,
         segments[mine[s]].size = Mapped(s), segments[mine[s]].map = MapOf(s)
  PROVE  /\ Reaches(s, mine[s])
         /\ segments[mine[s]].size # 0 /\ segments[mine[s]].map # NoMap
         /\ DescriptionFits(s) => ~Overruns(s)
         /\ \A m \in 0..(MapOf(s).process_cnt - 1) : ProcessArea(MapOf(s), m).end <= Mapped(s)
<1> DEFINE map == MapOf(s)
<1>1. /\ map \in Maps /\ Mapped(s) = memory_get_size(map)
      /\ map.description_zone_cnt = 1 /\ map.description_zone_size = DescMaxLen
  BY MapsOfServers DEF Mapped, MapOf, CommonMap, PipelineMap, IInv, TypeOK
<1> HIDE DEF map
<1>2. /\ memory_get_data_offset(map) \in Nat /\ memory_get_description_offset(map) \in Nat
      /\ memory_get_process_size(map) \in Nat /\ memory_get_data_size(map) \in Nat
      /\ memory_get_description_size(map) \in Nat
  BY <1>1, SizesInNat
<1>3. memory_get_data_offset(map) >= 256
  <2>1. memory_get_process_offset = 256
    BY DEF memory_get_process_offset, Align, SizeofMap
  <2> QED
    BY <1>2, <2>1 DEF memory_get_data_offset
<1>4. /\ memory_get_data_offset(map) <= memory_get_description_offset(map)
      /\ memory_get_description_offset(map) <= Mapped(s)
  BY <1>1, <1>2 DEF memory_get_description_offset, memory_get_size
<1>5. ASSUME DescriptionFits(s)
      PROVE  memory_get_description_offset(map) + descLen[s] <= Mapped(s)
  <2>1. DescMaxLen \in Nat /\ descLen[s] \in Nat /\ descLen[s] <= DescMaxLen
    BY <1>5 DEF ProcessorAssumption, DescriptionFits, IInv, TypeOK
  <2>2. 1 * DescMaxLen = DescMaxLen
    BY <2>1
  <2>3. DescMaxLen <= memory_get_description_size(map)
    BY <1>1, <2>1, <2>2, AlignCovers DEF memory_get_description_size
  <2> QED
    BY <1>1, <1>2, <2>1, <2>3 DEF memory_get_size
<1>6. Mapped(s) # 0 /\ map # NoMap
  <2>1. NoMap.description_zone_cnt = 0
    BY DEF NoMap
  <2>2. Mapped(s) \in Nat
    BY <1>1, SizesInNat
  <2> QED
    BY <1>1, <1>2, <1>3, <1>4, <2>1, <2>2
<1>7. ASSUME NEW m \in 0..(map.process_cnt - 1)
      PROVE  ProcessArea(map, m).end <= Mapped(s)
  <2>1. ProcessArea(map, m).end \in Nat /\ Mapped(s) \in Nat
    BY <1>1, ProcessWithin, SizesInNat DEF Areas
  <2>2. ProcessArea(map, m).end <= memory_get_data_offset(map)
    BY <1>1, ProcessWithin
  <2> QED
    BY <1>2, <1>4, <2>1, <2>2
<1>8. memory_get_data_offset(map) <= Mapped(s)
  <2>1. Mapped(s) \in Nat
    BY <1>1, SizesInNat
  <2> QED
    BY <1>2, <1>4, <2>1
<1>9. segments[mine[s]].size = Mapped(s) /\ segments[mine[s]].map = map
  BY DEF map
<1>10. Reaches(s, mine[s])
  BY <1>6, <1>8, <1>9 DEF Reaches
<1>11. DescriptionFits(s) => ~Overruns(s)
  <2>1. /\ memory_get_description_offset(map) + descLen[s] \in Nat
        /\ Mapped(s) \in Nat
    BY <1>1, <1>2, SizesInNat DEF IInv, TypeOK
  <2> QED
    BY <1>5, <2>1 DEF Overruns, map
<1> QED
  BY <1>6, <1>7, <1>9, <1>10, <1>11 DEF map

\* Nobody else's length is in front of the description.
LEMMA AnnouncedByMaker ==
  ASSUME IInv, NEW s \in Servers, mine[s] # 0, segments[mine[s]].desc = "whole"
  PROVE  Announced(mine[s]) = descLen[s]
<1>1. \A r \in Servers : mine[r] = mine[s] => r = s
  BY DEF IInv, Owned
<1>2. (CHOOSE r \in Servers : mine[r] = mine[s]) = s
  BY <1>1
<1> QED
  BY <1>2 DEF Announced

LEMMA WholeIsDescribed ==
  ASSUME ProcessorAssumption, IInv, NEW s \in Servers, mine[s] # 0, DescriptionFits(s),
         segments[mine[s]].size = Mapped(s), segments[mine[s]].map = MapOf(s),
         segments[mine[s]].desc = "whole"
  PROVE  Described(s, mine[s])
<1>1. segments[mine[s]].map # NoMap /\ ~Overruns(s)
  BY EnoughInIt
<1>2. Announced(mine[s]) = descLen[s]
  BY AnnouncedByMaker
<1>3. /\ MapOf(s) \in Maps /\ Mapped(s) \in Nat /\ descLen[s] \in Nat
      /\ memory_get_description_offset(MapOf(s)) \in Nat
  BY MapsOfServers, SizesInNat DEF IInv, TypeOK
<1>4. memory_get_description_offset(MapOf(s)) + descLen[s] <= Mapped(s)
  BY <1>1, <1>3 DEF Overruns
<1> QED
  BY <1>1, <1>2, <1>4 DEF Described

LEMMA OwnStepSound ==
  ASSUME ProcessorAssumption, IInv, IInv', NEW s \in Servers, Sound(s),
         ServerStep(s) \/ ServerMay(s)
  PROVE  Sound(s)'
<1>1. /\ UNCHANGED <<common, descLen, childVars>>
      /\ MapOf(s)' = MapOf(s) /\ Mapped(s)' = Mapped(s) /\ (Born(s)' <=> Born(s))
      /\ DescriptionFits(s)' <=> DescriptionFits(s)
      /\ \A place \in ServerPlaces : Goto(s, place) => pc'[s] = place
      /\ mine[s] \in Numbers /\ pl[s] \in Numbers /\ Len(segments) \in Nat
      /\ name \in Numbers /\ since[s] \in Numbers
  <2>1. UNCHANGED <<common, descLen, childVars>>
    BY DEF ServerStep, ServerMay, program
  <2>2. /\ MapOf(s)' = MapOf(s) /\ Mapped(s)' = Mapped(s) /\ (Born(s)' <=> Born(s))
        /\ DescriptionFits(s)' <=> DescriptionFits(s)
    BY <2>1 DEF MapOf, Mapped, Born, DescriptionFits, childVars
  <2>3. /\ pc \in [Servers -> ServerPlaces] /\ segments \in Seq(Segments)
        /\ mine[s] \in Numbers /\ pl[s] \in Numbers
        /\ name \in Numbers /\ since[s] \in Numbers
    BY DEF IInv, TypeOK
  <2>4. \A place \in ServerPlaces : Goto(s, place) => pc'[s] = place
    BY <2>3 DEF Goto
  <2> QED
    BY <2>1, <2>2, <2>3, <2>4
<1>2. /\ mine[s] = 0 => ~Born(s)
      /\ pc[s] \notin Starting => ~Born(s)
  BY DEF Sound, EmptyHanded, Filled, Born
<1>3. CASE Unlink(s)
  <2>1. pc[s] = "off" /\ mine[s] = 0 /\ mine'[s] = 0 /\ pl'[s] = pl[s] /\ pc'[s] = "create"
    BY <1>1, <1>3 DEF Unlink, IInv, Fresh, ServerPlaces
  <2> QED
    BY <1>1, <1>2, <2>1 DEF Sound, EmptyHanded, TakenLate, Filled, Found, Served, Starting, childVars
<1>4. CASE Create(s)
  <2>1. pc[s] = "create" /\ mine[s] = 0 /\ pl'[s] = pl[s] /\ pc'[s] = "truncate" /\ mine'[s] # 0
    BY <1>1, <1>4 DEF Create, IInv, TypeOK, Staged, ServerPlaces
  <2>2. pl'[s] = 0 /\ \A m \in Modules(s) : child[s][m] = "none" /\ known[s][m] = "none"
    BY <2>1 DEF Sound, EmptyHanded
  <2> QED
    BY <1>1, <1>2, <2>1, <2>2
       DEF Sound, EmptyHanded, TakenLate, Filled, Found, Served, Starting, childVars
<1>5. CASE CreateFails(s)
  <2>1. /\ pc[s] = "create" /\ mine[s] = 0 /\ pc'[s] = "taken" /\ name > since[s]
        /\ UNCHANGED <<memory, since, mine, pl>>
    BY <1>1, <1>5 DEF CreateFails, IInv, Staged, NameYounger, ServerPlaces
  <2>2. Len(segments) > since[s]
    BY <1>1, <2>1 DEF Numbers
  <2> QED
    BY <1>1, <1>2, <2>1, <2>2
       DEF Sound, EmptyHanded, TakenLate, Filled, Found, Served, Starting, childVars, memory
<1>6. CASE Truncate(s)
  <2>1. /\ mine[s] # 0 /\ pc[s] = "truncate" /\ pc'[s] = "header" /\ UNCHANGED <<name, mine, pl>>
    BY <1>1, <1>6 DEF Truncate, IInv, Staged, ServerPlaces
  <2> QED
    BY <1>1, <1>2, <2>1 DEF Sound, EmptyHanded, TakenLate, Filled, Found, Served, Starting, childVars
<1>7. CASE WriteMap(s)
  <2>1. /\ mine[s] # 0 /\ pc[s] = "header" /\ segments[mine[s]].size = Mapped(s)
        /\ UNCHANGED <<name, mine>>
        /\ IF common[s] THEN pc'[s] = "size" /\ pl' = pl ELSE pc'[s] = "table" /\ pl'[s] = mine[s]
    BY <1>1, <1>7 DEF WriteMap, IInv, TypeOK, Staged, ServerPlaces
  <2>2. segments'[mine[s]].size = Mapped(s) /\ segments'[mine[s]].map = MapOf(s)
    BY <1>7, <2>1, OwnSegmentKept DEF Truncate
  <2> QED
    BY <1>1, <1>2, <2>1, <2>2
       DEF Sound, EmptyHanded, TakenLate, Filled, Found, Served, Starting, childVars
<1>8. CASE WriteSize(s)
  <2>1. /\ mine[s] # 0 /\ pc[s] = "size" /\ pc'[s] = "text" /\ UNCHANGED <<name, mine, pl>>
    BY <1>1, <1>8 DEF WriteSize, IInv, Staged, ServerPlaces
  <2>2. segments'[mine[s]].size = Mapped(s) /\ segments'[mine[s]].map = MapOf(s)
    BY <1>8, <2>1, OwnSegmentKept DEF Truncate, WriteSize, Sound, Filled
  <2> QED
    BY <1>1, <1>2, <2>1, <2>2
       DEF Sound, EmptyHanded, TakenLate, Filled, Found, Served, Starting, childVars
<1>9. CASE WriteText(s)
  <2>1. /\ mine[s] # 0 /\ pc[s] = "text" /\ pc'[s] = "attach" /\ UNCHANGED <<name, mine, pl>>
    BY <1>1, <1>9 DEF WriteText, IInv, Staged, ServerPlaces
  <2>2. /\ segments'[mine[s]].size = Mapped(s) /\ segments'[mine[s]].map = MapOf(s)
        /\ segments'[mine[s]].desc = "whole"
    BY <1>9, <2>1, OwnSegmentKept DEF Truncate, WriteText, Sound, Filled
  <2> QED
    BY <1>1, <1>2, <2>1, <2>2
       DEF Sound, EmptyHanded, TakenLate, Filled, Found, Served, Starting, childVars
<1>10. CASE Attach(s)
  <2>1. /\ pc[s] = "attach" /\ pc'[s] = "table" /\ pl'[s] = name /\ UNCHANGED <<memory, mine>>
        /\ mine[s] # 0
    BY <1>1, <1>10 DEF Attach, IInv, TypeOK, ServerPlaces, Sound, EmptyHanded
  <2> QED
    BY <1>1, <1>2, <2>1
       DEF Sound, EmptyHanded, TakenLate, Filled, Found, Served, Starting, childVars, memory
<1>11. CASE NoSuchName(s)
  <2>1. /\ pc[s] = "attach" /\ pc'[s] = "lost" /\ name = 0 /\ UNCHANGED <<memory, mine, pl>>
        /\ mine[s] # 0
    BY <1>1, <1>11 DEF NoSuchName, ServerPlaces, Sound, EmptyHanded
  <2> QED
    BY <1>1, <1>2, <2>1
       DEF Sound, EmptyHanded, TakenLate, Filled, Found, Served, Starting, childVars, memory
<1>12. CASE InitTable(s) /\ Reaches(s, pl[s])
  <2>1. /\ pc[s] = "table" /\ pc'[s] = "fork" /\ UNCHANGED <<name, mine, pl>>
        /\ pl[s] # 0 /\ mine[s] # 0
    BY <1>1, <1>12 DEF InitTable, ServerPlaces, Sound, EmptyHanded, IInv, Staged
  <2>2. mine[s] \in DOMAIN segments
    BY <1>1, <2>1 DEF Numbers, IInv, TypeOK
  <2>3. /\ segments'[mine[s]].size = Mapped(s) /\ segments'[mine[s]].map = MapOf(s)
        /\ common[s] => segments'[mine[s]].desc = "whole"
        /\ segments'[pl[s]].ready
    BY <1>12, <2>1, <2>2, TableKept DEF Sound, Filled, Served
  <2> QED
    BY <1>1, <1>2, <2>1, <2>3
       DEF Sound, EmptyHanded, TakenLate, Filled, Found, Served, Starting, childVars
<1>13. CASE InitTable(s) /\ ~Reaches(s, pl[s])
  <2>1. /\ pc[s] = "table" /\ pc'[s] = "lost" /\ UNCHANGED <<name, segments, mine, pl>>
        /\ pl[s] # 0 /\ mine[s] # 0
    BY <1>1, <1>13 DEF InitTable, ServerPlaces, Sound, EmptyHanded, IInv, Staged
  <2>2. DescriptionFits(s) => name # mine[s]
    <3>1. segments[mine[s]].size = Mapped(s) /\ segments[mine[s]].map = MapOf(s)
      BY <2>1 DEF Sound, Filled, Served
    <3>2. pl[s] # mine[s]
      BY <1>13, <3>1, EnoughInIt
    <3> QED
      BY <2>1, <3>2 DEF Sound, Found
  <2> QED
    BY <1>1, <1>2, <2>1, <2>2
       DEF Sound, EmptyHanded, TakenLate, Filled, Found, Served, Starting, childVars
<1>14. CASE GoLive(s) \/ \E m \in 0..Finalization(s) : StartFails(s, m)
  <2>1. /\ pc[s] = "fork" /\ pc'[s] \in {"live", "polls", "full"}
        /\ UNCHANGED <<memory, mine, pl>>
    BY <1>1, <1>14 DEF GoLive, StartFails, Turn, ServerPlaces
  <2> QED
    BY <1>1, <1>2, <2>1
       DEF Sound, EmptyHanded, TakenLate, Filled, Found, Served, Starting, childVars, memory
<1>15. CASE ServerInitFails(s) \/ AttachFails(s)
  <2>1. /\ pc[s] \in {"truncate", "header", "attach"} /\ pc'[s] = "failed" /\ name' = 0
        /\ UNCHANGED <<segments, mine, pl>> /\ mine[s] # 0
    BY <1>1, <1>15 DEF ServerInitFails, AttachFails, ServerPlaces, Sound, EmptyHanded
  <2> QED
    BY <1>1, <1>2, <2>1 DEF Sound, EmptyHanded, TakenLate, Filled, Found, Served, Starting, childVars
<1>16. CASE End(s) \/ Destroy(s)
  <2>1. /\ pc'[s] = "ended" /\ name' \in {name, 0} /\ UNCHANGED <<segments, mine, pl>>
    BY <1>1, <1>16 DEF End, Destroy, ServerPlaces, memory
  <2>2. mine[s] # 0 /\ name' = mine[s] => name = mine[s]
    BY <2>1
  <2> QED
    BY <1>1, <1>2, <2>1, <2>2
       DEF Sound, EmptyHanded, TakenLate, Filled, Found, Served, Starting, childVars
<1>17. CASE WriteOverruns(s)
  <2>1. /\ pc[s] = "text" /\ pc'[s] = "lost" /\ UNCHANGED <<memory, mine, pl>> /\ mine[s] # 0
    BY <1>1, <1>17 DEF WriteOverruns, IInv, Staged, ServerPlaces
  <2>2. segments[mine[s]].size = Mapped(s) /\ segments[mine[s]].map = MapOf(s)
    BY <2>1 DEF Sound, Filled
  <2>3. ~DescriptionFits(s)
    BY <1>17, <2>2, EnoughInIt DEF WriteOverruns
  <2> QED
    BY <1>1, <1>2, <2>1, <2>3
       DEF Sound, EmptyHanded, TakenLate, Filled, Found, Served, Starting, childVars, memory
<1> QED
  BY <1>3, <1>4, <1>5, <1>6, <1>7, <1>8, <1>9, <1>10, <1>11, <1>12, <1>13, <1>14, <1>15, <1>16, <1>17
     DEF ServerStep, ServerMay

LEMMA ChildSound ==
  ASSUME ProcessorAssumption, IInv, NEW s \in Servers, NEW m \in Modules(s), Sound(s),
         ChildStep(s, m) \/ ChildMapFails(s, m)
  PROVE  Sound(s)'
<1>1. /\ UNCHANGED <<common, descLen, segments, serverVars>> /\ name' \in {name, 0}
      /\ MapOf(s)' = MapOf(s) /\ Mapped(s)' = Mapped(s)
      /\ DescriptionFits(s)' <=> DescriptionFits(s)
      /\ mine[s] \in Numbers /\ pl[s] \in Numbers
  BY DEF ChildStep, ChildMapFails, Fork, Get, NoMemory, ReadDescription, AttachTable, WaitJob,
         program, serverVars, MapOf, Mapped, DescriptionFits, IInv, TypeOK
<1>2. /\ child[s] \in [Modules(s) -> ChildPlaces] /\ s \in DOMAIN child
      /\ source[s] \in [Modules(s) -> Numbers] /\ s \in DOMAIN source
      /\ known[s] \in [Modules(s) -> {"none", "whole", "blank"}] /\ s \in DOMAIN known
      /\ table[s] \in [Modules(s) -> Numbers] /\ s \in DOMAIN table
  BY DEF IInv, TypeOK
\* The block had been started, or is now.
<1>3. /\ mine[s] # 0 /\ pc[s] \in Starting
      /\ Fork(s, m) \/ child[s][m] # "none"
      /\ segments[mine[s]].size = Mapped(s) /\ segments[mine[s]].map = MapOf(s)
      /\ common[s] => segments[mine[s]].desc = "whole"
      /\ pl[s] # 0 /\ segments[pl[s]].ready
  <2>1. Fork(s, m) \/ child[s][m] # "none"
    BY DEF ChildStep, ChildMapFails, Get, NoMemory, ReadDescription, AttachTable, WaitJob
  <2>2. pc[s] = "fork" \/ Born(s)
    BY <2>1 DEF Fork, Turn, Born
  <2> QED
    BY <2>1, <2>2 DEF Sound, EmptyHanded, Filled, Born, Served, Starting
<1>4. \A k \in Modules(s) : k # m => /\ child'[s][k] = child[s][k] /\ source'[s][k] = source[s][k]
                                     /\ known'[s][k] = known[s][k] /\ table'[s][k] = table[s][k]
  BY <1>2 DEF ChildStep, ChildMapFails, Fork, Get, NoMemory, ReadDescription, AttachTable,
              WaitJob, Move
<1>5. EmptyHanded(s)' /\ TakenLate(s)'
  BY <1>1, <1>3 DEF Sound, EmptyHanded, TakenLate, serverVars
\* What becomes of the block, while the name stands for the segment.
<1>6. /\ child'[s][m] \in {"get", "read"} => common[s]
      /\ mine[s] # 0 /\ name' = mine[s] /\ DescriptionFits(s) =>
            /\ child'[s][m] # "gone" /\ known'[s][m] # "blank"
            /\ child'[s][m] = "read" => source'[s][m] = mine[s]
            /\ child'[s][m] \in {"entry", "waits"} => table'[s][m] = mine[s]
            /\ m < MapOf(s).process_cnt
  <2>1. /\ child[s][m] \in {"get", "read"} => common[s]
        /\ name = mine[s] /\ DescriptionFits(s) =>
              /\ pl[s] = mine[s]
              /\ child[s][m] # "gone" /\ known[s][m] # "blank"
              /\ child[s][m] = "read" => source[s][m] = mine[s]
              /\ child[s][m] \in {"entry", "waits"} => table[s][m] = mine[s]
              /\ child[s][m] # "none" => m < MapOf(s).process_cnt
    BY <1>3 DEF Sound, Filled, Found
  <2>2. CASE Fork(s, m)
    <3>1. /\ child'[s][m] = IF common[s] THEN "get" ELSE "attach"
          /\ UNCHANGED <<name, source, known, table>>
      BY <1>2, <2>2 DEF Fork, Move
    <3>2. name = mine[s] /\ DescriptionFits(s) => m < MapOf(s).process_cnt
      BY <1>3, <2>1, <2>2 DEF Fork, HasEntry
    <3> QED
      BY <2>1, <3>1, <3>2
  <2>3. CASE Get(s, m)
    <3>1. /\ child[s][m] = "get" /\ child'[s][m] = "read" /\ source'[s][m] = name
          /\ UNCHANGED <<name, known, table>>
      BY <1>2, <2>3 DEF Get, Move
    <3> QED
      BY <2>1, <3>1
  <2>4. CASE NoMemory(s, m) \/ ChildMapFails(s, m)
    <3>1. name' = 0 /\ child'[s][m] = "gone"
      BY <1>2, <2>4 DEF NoMemory, ChildMapFails, Move
    <3> QED
      BY <1>3, <3>1
  <2>5. CASE ReadDescription(s, m)
    <3>1. child[s][m] = "read" /\ UNCHANGED <<name, source, table>>
      BY <2>5 DEF ReadDescription
    <3>2. child'[s][m] \in {"attach", "gone"}
      BY <1>2, <2>5 DEF ReadDescription, Move
    <3>3. CASE name = mine[s] /\ DescriptionFits(s)
      <4>1. source[s][m] = mine[s] /\ segments[mine[s]].desc = "whole"
        BY <1>3, <2>1, <3>1, <3>3
      <4>2. Described(s, mine[s])
        BY <1>3, <3>3, <4>1, WholeIsDescribed
      <4>3. child'[s][m] = "attach" /\ known'[s][m] = "whole"
        BY <1>2, <2>5, <4>1, <4>2 DEF ReadDescription, Move
      <4> QED
        BY <2>1, <3>1, <3>3, <4>3
    <3> QED
      BY <3>1, <3>2, <3>3
  <2>6. CASE AttachTable(s, m)
    <3>1. /\ child[s][m] = "attach" /\ child'[s][m] = "entry" /\ table'[s][m] = name
          /\ UNCHANGED <<name, source, known>>
      BY <1>2, <2>6 DEF AttachTable, Move
    <3> QED
      BY <2>1, <3>1
  <2>7. CASE WaitJob(s, m)
    <3>1. /\ child[s][m] = "entry" /\ UNCHANGED <<name, source, known, table>>
          /\ child'[s][m] = IF segments[table[s][m]].size = 0 THEN "gone" ELSE "waits"
      BY <1>2, <2>7 DEF WaitJob, Move
    <3>2. segments[mine[s]].size # 0
      BY <1>3, EnoughInIt
    <3> QED
      BY <2>1, <3>1, <3>2
  <2> QED
    BY <2>2, <2>3, <2>4, <2>5, <2>6, <2>7 DEF ChildStep
<1>7. Filled(s)'
  <2>1. \A k \in Modules(s) : child'[s][k] \in {"get", "read"} => common[s]
    BY <1>4, <1>6 DEF Sound, Filled
  <2> QED
    BY <1>1, <1>3, <2>1 DEF Filled, serverVars, Served, Starting
<1>8. Found(s)'
  <2>1. mine[s] # 0 /\ name' = mine[s] => name = mine[s]
    BY <1>1
  <2>2. pc'[s] = pc[s] /\ mine'[s] = mine[s] /\ pl'[s] = pl[s]
    BY <1>1 DEF serverVars
  <2>3. ASSUME mine[s] # 0, name' = mine[s], DescriptionFits(s), NEW k \in Modules(s)
        PROVE  /\ child'[s][k] # "gone" /\ known'[s][k] # "blank"
               /\ child'[s][k] = "read" => source'[s][k] = mine[s]
               /\ child'[s][k] \in {"entry", "waits"} => table'[s][k] = mine[s]
               /\ child'[s][k] # "none" => k < MapOf(s).process_cnt
    <3>1. CASE k = m
      BY <1>6, <2>3, <3>1
    <3>2. CASE k # m
      BY <1>4, <2>1, <2>3, <3>2 DEF Sound, Found
    <3> QED
      BY <3>1, <3>2
  <2> QED
    BY <1>1, <2>1, <2>2, <2>3 DEF Sound, Found
<1> QED
  BY <1>5, <1>7, <1>8 DEF Sound

\* The blocks of another server remove the name at most.
LEMMA OtherChildSound ==
  ASSUME ProcessorAssumption, IInv, NEW s \in Servers, NEW m \in Modules(s),
         ChildStep(s, m) \/ ChildMapFails(s, m), NEW r \in Servers, r # s, Sound(r)
  PROVE  Sound(r)'
<1>1. UNCHANGED <<common, descLen, segments, serverVars>> /\ name' \in {name, 0}
  BY DEF ChildStep, ChildMapFails, Fork, Get, NoMemory, ReadDescription, AttachTable, WaitJob,
         program
<1>2. /\ child'[r] = child[r] /\ source'[r] = source[r]
      /\ known'[r] = known[r] /\ table'[r] = table[r]
  BY DEF ChildStep, ChildMapFails, Fork, Get, NoMemory, ReadDescription, AttachTable, WaitJob,
         Move, IInv, TypeOK
<1>3. /\ MapOf(r)' = MapOf(r) /\ Mapped(r)' = Mapped(r) /\ (Born(r)' <=> Born(r))
      /\ DescriptionFits(r)' <=> DescriptionFits(r)
  BY <1>1, <1>2 DEF MapOf, Mapped, Born, DescriptionFits
<1>4. EmptyHanded(r)' /\ TakenLate(r)' /\ Filled(r)'
  BY <1>1, <1>2, <1>3 DEF Sound, EmptyHanded, TakenLate, Filled, serverVars
<1>5. Found(r)'
  <2>1. mine[r] # 0 /\ name' = mine[r] => name = mine[r]
    BY <1>1
  <2> QED
    BY <1>1, <1>2, <1>3, <2>1 DEF Sound, Found, serverVars
<1> QED
  BY <1>4, <1>5 DEF Sound

AllSound == IInv /\ \A s \in Servers : Sound(s)

LEMMA NextSound ==
  ASSUME ProcessorAssumption, AllSound, [Next]_vars
  PROVE  AllSound'
<1> USE DEF AllSound
<1>1. IInv'
  BY NextInv
<1>2. SUFFICES ASSUME NEW r \in Servers
               PROVE  Sound(r)'
  BY <1>1
<1>3. ASSUME NEW s \in Servers, ServerStep(s) \/ ServerMay(s)
      PROVE  Sound(r)'
  BY <1>1, <1>3, OwnStepSound, OthersSound
<1>4. ASSUME NEW s \in Servers, NEW m \in Modules(s), ChildStep(s, m) \/ ChildMapFails(s, m)
      PROVE  Sound(r)'
  BY <1>4, ChildSound, OtherChildSound
<1>5. CASE UNCHANGED vars
  BY <1>5 DEF vars, program, memory, serverVars, childVars, Sound, EmptyHanded, TakenLate, Filled,
              Found, Born, MapOf, Mapped, DescriptionFits
<1> QED
  BY <1>3, <1>4, <1>5 DEF Next

LEMMA SoundMeansNoTrouble ==
  ASSUME ProcessorAssumption, AllSound
  PROVE  TroubleNeedsDisturbance
<1> SUFFICES ASSUME NEW s \in Servers, ~Disturbed(s), DescriptionFits(s)
             PROVE  /\ pc[s] \notin {"taken", "lost"}
                    /\ pl[s] \in {0, mine[s]}
                    /\ \A m \in Modules(s) :
                          /\ child[s][m] # "gone" /\ known[s][m] # "blank"
                          /\ child[s][m] = "waits" =>
                                LET g == segments[table[s][m]]
                                IN  /\ table[s][m] = mine[s] /\ g.ready
                                    /\ m < g.map.process_cnt
                                    /\ ProcessArea(g.map, m).end <= Mapped(s)
  BY DEF TroubleNeedsDisturbance
<1>1. Sound(s) /\ IInv
  BY DEF AllSound
<1>2. CASE mine[s] = 0
  BY <1>1, <1>2 DEF Disturbed, Sound, EmptyHanded, TakenLate
<1>3. CASE mine[s] # 0
  <2>1. name = mine[s] /\ pc[s] # "taken"
    BY <1>1, <1>3 DEF Disturbed, Sound, TakenLate
  <2>2. ASSUME NEW m \in Modules(s), child[s][m] = "waits"
        PROVE  /\ table[s][m] = mine[s] /\ segments[mine[s]].ready
               /\ m < segments[mine[s]].map.process_cnt
               /\ ProcessArea(segments[mine[s]].map, m).end <= Mapped(s)
    <3>1. Born(s)
      BY <2>2 DEF Born
    <3>2. /\ segments[mine[s]].size = Mapped(s) /\ segments[mine[s]].map = MapOf(s)
          /\ pl[s] # 0 /\ segments[pl[s]].ready
      BY <1>1, <3>1 DEF Sound, Filled
    <3>3. table[s][m] = mine[s] /\ pl[s] = mine[s] /\ m < MapOf(s).process_cnt
      BY <1>1, <1>3, <2>1, <2>2, <3>2 DEF Sound, Found
    <3>4. m \in 0..(MapOf(s).process_cnt - 1)
      <4>1. MapOf(s) \in Maps
        BY <1>1, MapsOfServers DEF IInv, TypeOK
      <4>2. MapOf(s).process_cnt \in Nat /\ m \in Nat
        BY <4>1 DEF Maps, Modules, ProcessorAssumption
      <4> QED
        BY <3>3, <4>2
    <3> QED
      BY <1>1, <3>2, <3>3, <3>4, EnoughInIt
  <2> QED
    BY <1>1, <1>3, <2>1, <2>2 DEF Sound, Found
<1> QED
  BY <1>2, <1>3

-----------------------------------------------------------------------------
(* The theorems about every behaviour.                                     *)

LEMMA Invariance == Spec => []IInv
<1>1. Init => IInv
  BY ProcessorAssumption, InitInv
<1>2. IInv /\ [Next]_vars => IInv'
  BY ProcessorAssumption, NextInv
<1> QED
  BY <1>1, <1>2, PTL DEF Spec

\* Every variable keeps its type, the numbers of segments among those made
\* (dclprocessor_init, pipeline_init and their processes).
THEOREM TypeCorrect == Spec => []TypeOK
<1>1. IInv => TypeOK
  BY DEF IInv
<1> QED
  BY <1>1, Invariance, PTL

\* However many servers run, crash and unlink each other's names, no pipeline and
\* no block ever maps a segment made before its server began
\* (dclprocessor.c:186, shared_memory.c:23, pipeline.c:149, pipeline_client.c:89).
THEOREM NeverOlderAlways == Spec => []NeverOlder
<1>1. IInv => NeverOlder
  BY DEF IInv
<1> QED
  BY <1>1, Invariance, PTL

\* The zones of every segment that a server lays out are apart, for any counts and
\* sizes of its description (memory_map.h, dclprocessor.c:189-203, pipeline.c:120-135).
THEOREM ZonesAlwaysApart == Spec => []ZonesApart
<1>1. IInv => ZonesApart
  BY LayoutKeepsApart
<1> QED
  BY <1>1, Invariance, PTL

\* However many servers of the same name run, crash, fail half way or remove the name,
\* and whatever others write: the pipeline and the blocks of a server get stuck, lose
\* their segment, or read less than all of it, only if the name does not stand for the
\* segment of the server, or if its description is longer than the zone, which the code
\* does not test (dclprocessor.c:205-221, :279-287, pipeline_client.c:96-99).
THEOREM TroubleAlwaysNeedsDisturbance == Spec => []TroubleNeedsDisturbance
<1>1. Init => AllSound
  BY ProcessorAssumption, InitInv, InitSound DEF AllSound
<1>2. AllSound /\ [Next]_vars => AllSound'
  BY ProcessorAssumption, NextSound
<1>3. AllSound => TroubleNeedsDisturbance
  BY ProcessorAssumption, SoundMeansNoTrouble
<1> QED
  BY <1>1, <1>2, <1>3, PTL DEF Spec
=============================================================================
