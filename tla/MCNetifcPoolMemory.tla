------------------------- MODULE MCNetifcPoolMemory -------------------------
(* Two sessions whose pages lie back to back, pointers handed back at the *)
(* first and at the last byte an eth_get_buffer caller was granted.       *)
EXTENDS NetifcPoolMemory

MCBases == {8192, 8192 + REGION_SIZE}

MCOffsets == {0, ETH_BUFFER_SIZE - 1}
==============================================================================
