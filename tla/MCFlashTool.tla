----------------------------- MODULE MCFlashTool -------------------------------
(* Two files: one of a unit, and one of six in three blocks, which fills out_buf *)
(* three times and whose last two sectors are erased in one operation.  The two *)
(* sectors between them and the last belong to neither.  A changed place is that *)
(* of the first file and of the two.                                            *)
EXTENDS FlashTool

MCFile == <<[at |-> 0, ends |-> <<1>>], [at |-> 6, ends |-> <<1, 3, 6>>]>>
MCData == {<<1, 1>>, Old} \union {<<2, i>> : i \in 1 .. 6}
MCLastUnit == 13
MCSectorStarts == {0, 2, 4, 6, 8, 10, 12}
MCMisplaced == {[at |-> 0, size |-> 6]}
===============================================================================
