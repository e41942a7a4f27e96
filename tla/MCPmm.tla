------------------------------- MODULE MCPmm -------------------------------
(* A machine of ten frames of two bytes.  One map has no holes; in         *)
(* another, as in a PC, a hole separates two conventional areas.           *)
EXTENDS Pmm

Desc(t, s, n)  == [type |-> t, start |-> s, pages |-> n]
Region(b, n)   == [base |-> b, size |-> n]

Packed == [memory_map |-> {Desc("conventional", 0, 8), Desc("loader", 16, 2)},
           regions    |-> {Region(5, 2), Region(18, 2)}]
Holed  == [memory_map |-> {Desc("conventional", 0, 2), Desc("reserved", 4, 2),
                           Desc("conventional", 8, 5)},
           regions    |-> {Region(9, 1), Region(18, 1)}]
(* More kernel pages than conventional ones: the counter wraps.            *)
Tight  == [memory_map |-> {Desc("conventional", 0, 3), Desc("loader", 6, 4)},
           regions    |-> {Region(2, 1), Region(6, 7)}]
(* The handoff record has no memory map, or a descriptor size of 0.        *)
NoMap  == [memory_map |-> {}, regions |-> {}]

MCBootInfos == {Packed, Holed, Tight, NoMap}
MCReserves  == {<<6, 2>>, <<7, 3>>, <<0, 0>>, <<19, 4>>}
=============================================================================
