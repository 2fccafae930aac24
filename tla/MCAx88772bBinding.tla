------------------------- MODULE MCAx88772bBinding -------------------------
(* Three USB handles, two of them ASIX adapters, for the binding model. *)
EXTENDS Ax88772bBinding

CONSTANTS u1, u2, u3

MCControllers == {u1, u2, u3}
MCAsix == {u1, u2}
==============================================================================
