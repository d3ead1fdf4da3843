------------------------------ MODULE MCPaging ------------------------------
(***************************************************************************)
(* Two directories of two tables of four pages; pages 0 to 7 are the       *)
(* identity map, frame 16 is the first one above 4 GB.                     *)
(***************************************************************************)
EXTENDS Paging

\* Two pages of one table, and one of another.
MCMapPages == {8, 9, 12}
MCHeapPages == {1, 2}
DeviceFrames == {14, 16}
MCFlags == {{"PRESENT", "WRITABLE"}, {"PRESENT", "USER", "NX"}, {"WRITABLE"}}
=============================================================================
