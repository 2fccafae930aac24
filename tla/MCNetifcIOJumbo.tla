--------------------------- MODULE MCNetifcIOJumbo ---------------------------
(* A device whose largest frame (MaxPacketSize + MediaHeaderSize) is 1518, *)
(* e.g. one that passes VLAN-tagged frames.                               *)
EXTENDS NetifcIO

MCRxLens == {60, 1518}
MCGetSizes == {1516}
=============================================================================
