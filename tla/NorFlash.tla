------------------------------- MODULE NorFlash -------------------------------
(* The SPI flash chip as the firmware sees it through SPIRead, SPIEraseSector  *)
(* and SPIWrite (ROM functions, outside src/).  A partition is a row of units, *)
(* a unit being any fixed fraction of a sector; the sectors need not have the  *)
(* same number of units.  Erasing sets a whole sector; programming only clears *)
(* bits, so it yields the wanted content on erased units alone; an operation   *)
(* that is cut (by power loss or by an error) leaves any mixture.              *)
EXTENDS Naturals

CONSTANTS LastUnit,      \* index of the last unit of a 0x7E000-byte partition
          SectorStarts,  \* the units whose address has (address & 0xFFF) == 0
          Data,          \* what a unit of a ROM file can contain
          Erased,        \* a unit of 0xFF bytes
          Garbage        \* a unit whose programming or erasure was cut

Unit == 0 .. LastUnit
NUnits == LastUnit + 1
Content == Data \union {Erased, Garbage}

ASSUME FlashAssumption ==
    /\ LastUnit \in Nat
    /\ SectorStarts \subseteq Unit
    /\ 0 \in SectorStarts
    /\ Data # {}
    /\ Erased \notin Data
    /\ Garbage \notin Data
    /\ Erased # Garbage

\* The units from p to the end of the sector p lies in.
SectorRest(p) == {k \in Unit : k >= p /\ \A b \in SectorStarts : b <= p \/ k < b}

EraseUnits(mem, R) == [k \in Unit |-> IF k \in R THEN Erased ELSE mem[k]]

\* NOR programming: erased bits take the value, others can only be cleared.
Burn(old, new) == IF old = Erased THEN new
                  ELSE IF new \in {old, Erased} THEN old ELSE Garbage

ProgramUnits(mem, R, src) ==
    [k \in Unit |-> IF k \in R THEN Burn(mem[k], src[k]) ELSE mem[k]]

\* Every content an operation on R can leave when it is cut.
Cut(before, after, R) ==
    {[k \in Unit |-> IF k \in whole THEN after[k]
                     ELSE IF k \in torn THEN Garbage ELSE before[k]] :
        whole \in SUBSET R, torn \in SUBSET R}
===============================================================================
