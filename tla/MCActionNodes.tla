--------------------------- MODULE MCActionNodes ---------------------------
(* Two nodes with the default output file: the first may be split in two.    *)
EXTENDS ActionNodes
DefaultFile == [n \in 1 .. LastNode |-> 1]
FirstSplits == <<2, 1>>
=============================================================================
