----------------------------- MODULE MCNetifcIO -----------------------------
(* A small instance of NetifcIO: three buffers, a two-entry transmit ring, *)
(* a short frame and a full-size one, requests around ETH_BUFFER_SIZE.     *)
EXTENDS NetifcIO

MCRxLens == {60, 1514}
MCGetSizes == {1516, 1517}
=============================================================================
