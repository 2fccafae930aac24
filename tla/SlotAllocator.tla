---------------------------- MODULE SlotAllocator ----------------------------
(***************************************************************************)
(* What the frame buffer pool promises across sessions.  Each slot is      *)
(* free, held by the user (the upper layer) or held by the device.         *)
(* acquire hands a free slot to the user and release takes it back; the    *)
(* user may pass a slot to the device while a session is open, and the     *)
(* device gives it back to the free slots.  Unlike BufferPool the set of   *)
(* slots is not fixed: opening a session adds slots that nobody holds,     *)
(* and closing it forgets the slots the device held.  Nothing else ever    *)
(* loses a slot, and no step takes a slot from its holder.                 *)
(***************************************************************************)
VARIABLES free, user, device, session

vars == <<free, user, device, session>>

Init ==
  /\ free = {}
  /\ user = {}
  /\ device = {}
  /\ session = FALSE

(* Opening adds the slots free' \ free, none of them held. *)
Open ==
  /\ ~session
  /\ session' = TRUE
  /\ free \subseteq free'
  /\ (free' \ free) \cap (user \cup device) = {}
  /\ UNCHANGED <<user, device>>

Acquire(s) ==
  /\ s \in free
  /\ free' = free \ {s}
  /\ user' = user \cup {s}
  /\ UNCHANGED <<device, session>>

Release(s) ==
  /\ s \in user
  /\ user' = user \ {s}
  /\ free' = free \cup {s}
  /\ UNCHANGED <<device, session>>

Send(s) ==
  /\ session
  /\ s \in user
  /\ user' = user \ {s}
  /\ device' = device \cup {s}
  /\ UNCHANGED <<free, session>>

Reclaim(s) ==
  /\ session
  /\ s \in device
  /\ device' = device \ {s}
  /\ free' = free \cup {s}
  /\ UNCHANGED <<user, session>>

(* Closing forgets what the device held. *)
Close ==
  /\ session
  /\ session' = FALSE
  /\ device' = {}
  /\ UNCHANGED <<free, user>>

Next ==
  \/ Open
  \/ \E s \in free : Acquire(s)
  \/ \E s \in user : Release(s) \/ Send(s)
  \/ \E s \in device : Reclaim(s)
  \/ Close

Spec == Init /\ [][Next]_vars
=============================================================================
