------------------------- MODULE MCGroupNegotiation -------------------------
(***************************************************************************)
(* The scenario's candidates (Tue 13:00, Tue 15:30, Wed 11:30, as minutes  *)
(* from Tue 00:00) against every schedule made of the blocks below: one    *)
(* that ends when the first candidate starts, one that lies inside it, and *)
(* the two kinds that take out the others in _BUSY_BLOCKS.                 *)
(***************************************************************************)
EXTENDS GroupNegotiation, TLC

CONSTANTS iris, marius, wren, atlas

MCOrder == <<marius, wren, atlas>>
MCCandidates == {780, 930, 2130}
MCBlocks == {<<720, 780>>, <<795, 800>>, <<930, 990>>, <<2040, 2160>>}
MCSchedules == [{marius, wren, atlas} -> SUBSET MCBlocks]

=============================================================================
