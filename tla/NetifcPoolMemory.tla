--------------------------- MODULE NetifcPoolMemory ---------------------------
(***************************************************************************)
(* netifc.c's buffer pool at the level of addresses, across sessions.      *)
(* NetifcIO identifies a buffer with its slot; this module keeps the       *)
(* pointers themselves: the headers netifc_open writes into the pages      *)
(* AllocatePages returns, the data pointers eth_get_buffer hands out, and  *)
(* the pointers that come back to eth_put_buffer, from the upper layer,    *)
(* from a failed eth_send or from the device through netifc_poll.  Each    *)
(* is turned back into a header by the ~2047 mask, checked for the magic   *)
(* and pushed.                                                             *)
(*                                                                         *)
(* netifc_open allocates fresh pages on every call and pushes their slots  *)
(* on top of whatever the free list still holds; netifc_close frees        *)
(* nothing.  So after a reopen the pool spans the pages of several         *)
(* sessions, and a pointer from an earlier session may still be returned.  *)
(*                                                                         *)
(* Only the memory is modelled: discovery and filters are in               *)
(* NetifcSession.  A request larger than ETH_BUFFER_SIZE, or a call on an  *)
(* empty pool, returns NULL and changes nothing, so it is a stutter here.  *)
(***************************************************************************)
EXTENDS Naturals, Sequences, FiniteSets, Functions, EthBuffer

CONSTANTS
  Bases,        \* the page-aligned addresses AllocatePages may return
  Offsets,      \* where, in the bytes it was granted, a pointer handed back
                \* by the upper layer may point
  MaxHeld,      \* bound on the buffers the upper layer holds at once
  TxCapacity    \* transmit buffers the device holds before NOT_READY

\* The pages of one carving.
REGION_SIZE == NUM_BUFFER_PAGES * PAGE_SIZE

ASSUME NetifcPoolMemoryAssumption ==
  /\ Bases \subseteq Nat
  /\ \A b \in Bases : b % PAGE_SIZE = 0
  /\ \A b1, b2 \in Bases : b1 < b2 => b1 + REGION_SIZE <= b2
  /\ Offsets \subseteq 0 .. ETH_BUFFER_SIZE - 1
  /\ MaxHeld \in Nat
  /\ TxCapacity \in Nat

VARIABLES
  phase,        \* "closed" or "open"
  carved,       \* the bases netifc_open has carved
  magic,        \* the addresses that hold ETH_BUFFER_MAGIC
  eth_buffers,  \* the free list, head first
  held,         \* data pointers the upper layer holds
  inflight,     \* pointers Transmit accepted, to come back via GetStatus
  halted        \* eth_put_buffer spun in its for(;;) on a bad magic

vars == <<phase, carved, magic, eth_buffers, held, inflight, halted>>

(* The headers of the slots carved from the pages at base, in the order    *)
(* the loop of netifc_open writes them.                                    *)
Headers(base) == {SlotBase(base, k) : k \in 0 .. SLOTS_PER_CARVE - 1}

(* eth_put_buffer(p): mask, check the magic, push; or hang.                *)
PutBuffer(p) ==
  LET buf == MaskPtr(p) IN
  IF buf \in magic
  THEN eth_buffers' = <<buf>> \o eth_buffers /\ UNCHANGED halted
  ELSE halted' = TRUE /\ UNCHANGED eth_buffers

-----------------------------------------------------------------------------
Init ==
  /\ phase = "closed"
  /\ carved = {}
  /\ magic = {}
  /\ eth_buffers = <<>>
  /\ held = {}
  /\ inflight = {}
  /\ halted = FALSE

(* netifc_open, lines 216-227, on a device already found: AllocatePages    *)
(* returns pages no earlier call returned; for ret = 0 .. 15 the loop      *)
(* writes the magic of the header at ptr and calls eth_put_buffer(buf),    *)
(* whose mask and magic check see the headers written so far.  An          *)
(* AllocatePages failure returns before the loop and changes nothing.      *)
CarveFits(base) ==
  \A k \in 0 .. SLOTS_PER_CARVE - 1 :
    MaskPtr(SlotBase(base, k)) \in magic \cup {SlotBase(base, j) : j \in 0 .. k}

NetifcOpen ==
  /\ phase = "closed"
  /\ ~halted
  /\ \E base \in Bases \ carved :
       /\ carved' = carved \cup {base}
       /\ magic' = magic \cup Headers(base)
       /\ IF CarveFits(base)
          THEN /\ eth_buffers' =
                    [i \in 1 .. SLOTS_PER_CARVE |->
                       MaskPtr(SlotBase(base, SLOTS_PER_CARVE - i))]
                    \o eth_buffers
               /\ UNCHANGED halted
          ELSE halted' = TRUE /\ UNCHANGED eth_buffers
  /\ phase' = "open"
  /\ UNCHANGED <<held, inflight>>

(* eth_get_buffer(sz), sz <= ETH_BUFFER_SIZE: pop the head, return its     *)
(* data.  It does not look at the session.                                 *)
EthGetBuffer ==
  /\ ~halted
  /\ eth_buffers # <<>>
  /\ Cardinality(held) < MaxHeld
  /\ held' = held \cup {DataPtr(Head(eth_buffers))}
  /\ eth_buffers' = Tail(eth_buffers)
  /\ UNCHANGED <<phase, carved, magic, inflight, halted>>

(* The upper layer releases a buffer it holds, through a pointer into the  *)
(* bytes it was granted.                                                   *)
EthPutBuffer(d, off) ==
  /\ ~halted
  /\ d \in held
  /\ held' = held \ {d}
  /\ PutBuffer(d + off)
  /\ UNCHANGED <<phase, carved, magic, inflight>>

(* Mutant: a failed Transmit drops the buffer instead of putting it back. *)
EthSendFailLeaks(d, off) ==
  /\ ~halted
  /\ d \in held
  /\ held' = held \ {d}
  /\ \/ /\ phase = "open"
        /\ Cardinality(inflight) < TxCapacity
        /\ inflight' = inflight \cup {d + off}
        /\ UNCHANGED <<eth_buffers, halted>>
     \/ UNCHANGED <<eth_buffers, halted, inflight>>
  /\ UNCHANGED <<phase, carved, magic>>

(* eth_send(data, len): Transmit keeps the pointer, or fails and the       *)
(* buffer is put back.  On a closed session the device is stopped and      *)
(* Transmit always fails.                                                  *)
EthSend(d, off) ==
  /\ ~halted
  /\ d \in held
  /\ held' = held \ {d}
  /\ \/ /\ phase = "open"
        /\ Cardinality(inflight) < TxCapacity
        /\ inflight' = inflight \cup {d + off}
        /\ UNCHANGED <<eth_buffers, halted>>
     \/ /\ PutBuffer(d + off)
        /\ UNCHANGED inflight
  /\ UNCHANGED <<phase, carved, magic>>

(* netifc_poll: GetStatus hands back a transmitted pointer, which goes to  *)
(* eth_put_buffer.  The receive half copies into a stack buffer and leaves *)
(* the pool alone; a poll with no txdone changes nothing here.             *)
NetifcPoll(p) ==
  /\ ~halted
  /\ phase = "open"
  /\ p \in inflight
  /\ inflight' = inflight \ {p}
  /\ PutBuffer(p)
  /\ UNCHANGED <<phase, carved, magic, held>>

(* netifc_close: Shutdown and Stop drop what the transmit ring held; no    *)
(* page is freed and the free list stays.                                  *)
NetifcClose ==
  /\ ~halted
  /\ phase = "open"
  /\ phase' = "closed"
  /\ inflight' = {}
  /\ UNCHANGED <<carved, magic, eth_buffers, held, halted>>

Next ==
  \/ NetifcOpen
  \/ EthGetBuffer
  \/ \E d \in held, off \in Offsets : EthPutBuffer(d, off) \/ EthSend(d, off)
  \/ \E p \in inflight : NetifcPoll(p)
  \/ NetifcClose

Spec == Init /\ [][Next]_vars

-----------------------------------------------------------------------------
(* Type invariant. *)
TypeOK ==
  /\ phase \in {"closed", "open"}
  /\ carved \subseteq Bases
  /\ magic \subseteq Nat
  /\ eth_buffers \in Seq(Nat)
  /\ held \subseteq Nat
  /\ inflight \subseteq Nat
  /\ halted \in BOOLEAN

(* The slot a pointer lies in, by the layout alone: the carved header h    *)
(* with h <= p < h + SLOT_SIZE.                                            *)
CarvedHeaders == UNION {Headers(b) : b \in carved}

SlotOf(p) == CHOOSE h \in CarvedHeaders : h <= p /\ p < h + SLOT_SIZE

(* The mask of eth_put_buffer sends every pointer that comes back, from    *)
(* the upper layer at any offset in its bytes, from a failed eth_send or   *)
(* from the device, and every header netifc_open seeds, to its own slot:   *)
(* across reopens the free list holds carved headers, each once, none of   *)
(* them the slot of a buffer the upper layer or the device still has, and  *)
(* no two outstanding buffers share a slot.  No release ever hangs.        *)
HeaderRecovered ==
  /\ ~halted
  /\ IsInjective(eth_buffers)
  /\ Range(eth_buffers) \subseteq CarvedHeaders
  /\ \A d \in held : DataPtr(SlotOf(d)) = d
  /\ Range(eth_buffers) \cap {SlotOf(p) : p \in held \cup inflight} = {}
  /\ \A p, q \in held \cup inflight : p # q => SlotOf(p) # SlotOf(q)

(* The code implements the allocator contract of SlotAllocator: the free  *)
(* slots are the headers on the list, the user's the slots of the buffers  *)
(* the upper layer holds and the device's those of the buffers Transmit    *)
(* kept, as eth_put_buffer's mask computes them.  netifc_open opens a      *)
(* session with fresh slots, eth_get_buffer acquires, eth_put_buffer and a *)
(* failed eth_send release, a successful eth_send passes the slot to the   *)
(* device, netifc_poll reclaims it and netifc_close forgets the device's   *)
(* slots.  So no buffer is ever lost except those the device held at a     *)
(* close, and no slot is handed out while someone holds it.                *)
Alloc == INSTANCE SlotAllocator WITH
           free    <- Range(eth_buffers),
           user    <- {MaskPtr(p) : p \in held},
           device  <- {MaskPtr(p) : p \in inflight},
           session <- (phase = "open")

AllocSpec == Alloc!Spec
==============================================================================
