------------------------------ MODULE MCAgent ------------------------------
(* The board of the code and an opponent that plays in one column.         *)
EXTENDS SystemAgent

SecondColumn == {2} \X Coord
=============================================================================
