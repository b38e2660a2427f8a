------------------------------ MODULE MCFwUpdate ------------------------------
(* FwUpdate on a partition of two sectors, of two units and of one, and, for the *)
(* run with every fault, of one sector of two units.                             *)
EXTENDS FwUpdate

MCLastUnit == 2
MCSectorStarts == {0, 2}
TinyLastUnit == 1
OneSector == {0}
MCData == {"rom", "code"}
MCRomUnits == {"rom"}
===============================================================================
