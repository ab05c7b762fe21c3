------------------------------ MODULE MemoryMap ------------------------------
(***************************************************************************)
(* The layout of a shared memory segment (dclprocessor/shmem, the header   *)
(* memory_map.h): the map itself, the table of processes, the chunks of    *)
(* data and the descriptions, each zone beginning at a multiple of 256.    *)
(* A map is a record with the fields of memory_map_t.  The operators have  *)
(* the names of the functions.                                             *)
(***************************************************************************)
EXTENDS Integers

Maps == [process_cnt : Nat, process_size : Nat, data_cnt : Nat, data_size : Nat,
         description_zone_cnt : Nat, description_zone_size : Nat]

\* sizeof(memory_map_t): three pairs of an int, padded, and a size_t
SizeofMap == 48

Align(size) == ((size + 255) \div 256) * 256

-----------------------------------------------------------------------------
(* A faulty variant of a definition below: it shows that the property can  *)
(* tell the code from a wrong one.                                         *)

\* The chunks follow the table, but the place of the map itself is forgotten.
DataBehindTable(map) == Align(map.process_size * map.process_cnt)
-----------------------------------------------------------------------------

memory_get_process_size(map) == Align(map.process_size * map.process_cnt)
memory_get_data_size(map) == Align(map.data_size * map.data_cnt)
memory_get_description_size(map) ==
    Align(map.description_zone_cnt * map.description_zone_size)

memory_get_process_offset == Align(SizeofMap)
memory_get_data_offset(map) == memory_get_process_offset + memory_get_process_size(map)
memory_get_description_offset(map) == memory_get_data_offset(map) + memory_get_data_size(map)

memory_get_size(map) == memory_get_description_offset(map) + memory_get_description_size(map)

\* An area of a segment, from its first byte to the one behind its last.
Area(first, size) == [first |-> first, end |-> first + size]

\* The entry of process i: (struct process_info *) + i.
ProcessArea(map, i) ==
    Area(memory_get_process_offset + i * map.process_size, map.process_size)

\* Chunk i, counted from 0.
ChunkArea(map, i) == Area(memory_get_data_offset(map) + i * map.data_size, map.data_size)

\* Description zone i, counted from 0.
DescriptionArea(map, i) ==
    Area(memory_get_description_offset(map) + i * map.description_zone_size,
         map.description_zone_size)

Before(a, b) == a.end <= b.first
=============================================================================
