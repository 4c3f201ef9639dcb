----------------------------- MODULE MCPedDisk -----------------------------
(* Small devices.  The regions asked for are short, long, adjacent and     *)
(* overlapping, and neither starts nor ends are aligned to the cylinders   *)
(* of 2 tracks of 2 sectors.                                               *)
EXTENDS DosTable

R(start, end) == [start |-> start, end |-> end]

EditWishes == {R(1, 3), R(3, 11), R(5, 6), R(6, 7), R(8, 9), R(10, 12)}

ResizeWishes == {R(3, 11), R(5, 6), R(8, 9), R(10, 12)}

GptWishes == {R(0, 3), R(2, 8), R(4, 5), R(5, 6), R(7, 12)}
=============================================================================
