----------------------------- MODULE BufferPool -----------------------------
(***************************************************************************)
(* What the frame buffer pool promises (spec section 4.1): a fixed set of  *)
(* slots, each either free or outstanding.  acquire hands out some free    *)
(* slot and never one that is outstanding; release makes an outstanding    *)
(* slot free again.  Which slot is reused first is not part of the promise *)
(* (the code reuses the most recently freed one).  Who holds an            *)
(* outstanding slot -- the caller or the device -- is not visible here.    *)
(***************************************************************************)
CONSTANT Slot

VARIABLES free, out

Init ==
  /\ free = Slot
  /\ out = {}

Acquire(s) ==
  /\ s \in free
  /\ free' = free \ {s}
  /\ out' = out \cup {s}

Release(s) ==
  /\ s \in out
  /\ out' = out \ {s}
  /\ free' = free \cup {s}

Next == \E s \in Slot : Acquire(s) \/ Release(s)

Spec == Init /\ [][Next]_<<free, out>>

=============================================================================
