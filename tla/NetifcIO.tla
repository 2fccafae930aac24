------------------------------ MODULE NetifcIO ------------------------------
(***************************************************************************)
(* The frame I/O layer of gigaboot's netifc.c while an interface is open:  *)
(* the hand-rolled pool of 2048-byte Ethernet buffers (eth_get_buffer,     *)
(* eth_put_buffer), the transmit path (eth_send) and the poll cycle        *)
(* (netifc_poll), together with the Simple Network device they talk to.    *)
(*                                                                         *)
(* The free list of the code is a chain of eth_buffer headers linked by    *)
(* their 'next' field and rooted at the global eth_buffers.  It is         *)
(* represented here by the sequence of the slots met along that chain,     *)
(* head first: popping the head is Tail, pushing a buffer is <<b>> \o _.   *)
(* A buffer is identified with its slot; eth_put_buffer recovers the slot  *)
(* header from a data pointer by masking with ~2047, which is exact for    *)
(* every pointer into a slot's data area (see NetifcIOProofs!MaskExact).   *)
(*                                                                         *)
(* The device keeps the buffers it accepted for transmission in a FIFO     *)
(* transmit ring (txq); a completed buffer moves to the recycle queue and  *)
(* is handed back, one per call, by GetStatus.  Inbound frames wait in the *)
(* device's receive queue until Receive copies one out.                    *)
(***************************************************************************)
EXTENDS Naturals, Sequences, FiniteSets, Functions, EthBuffer

CONSTANTS
  NumSlots,      \* buffers carved from the pages: NUM_BUFFER_PAGES * 2 = 16
  TxCapacity,    \* transmit buffers the device can hold before NOT_READY
  RxLens,        \* lengths of the frames the wire may deliver
  GetSizes,      \* sizes the upper layer asks eth_get_buffer for
  MaxRx,         \* bound on the number of frames that arrive
  CallerMisuse,  \* may the upper layer release a buffer it does not hold?
  WildPtr        \* a pointer that does not point into the pool

ASSUME NetifcIOAssumption ==
  /\ NumSlots \in Nat \ {0}
  /\ TxCapacity \in Nat \ {0}
  /\ RxLens \subseteq Nat \ {0}
  /\ GetSizes \subseteq Nat
  /\ MaxRx \in Nat
  /\ CallerMisuse \in BOOLEAN
  /\ WildPtr \notin Nat

\* netifc.c constant
RX_BUFFER_SIZE  == 1514    \* sizeof(data) in netifc_poll

Slots == 0 .. (NumSlots - 1)

VARIABLES
  eth_buffers,   \* the free list, head first
  upper,         \* buffers the upper layer holds (from eth_get_buffer)
  txq,           \* buffers accepted by Transmit, not yet sent, in order
  recycled,      \* sent buffers the device will hand back via GetStatus
  rxq,           \* lengths of the frames waiting in the device
  rxArrived,     \* number of frames that have arrived from the wire
  rxDelivered,   \* number of frames handed to eth_recv
  halted         \* eth_put_buffer spun in its for(;;) on a bad magic

vars == <<eth_buffers, upper, txq, recycled, rxq, rxArrived, rxDelivered,
          halted>>

(* eth_put_buffer's magic check: only a pool slot carries ETH_BUFFER_MAGIC. *)
HasMagic(p) == p \in Slots

(* The buffers the device owns. *)
DeviceOwned == Range(txq) \cup Range(recycled)

-----------------------------------------------------------------------------
(* netifc_open, lines 216-227: the pages are carved into NumSlots buffers  *)
(* in address order and each is pushed with eth_put_buffer, so the last    *)
(* slot ends up at the head of the free list.                              *)
Init ==
  /\ eth_buffers = [k \in 1 .. NumSlots |-> NumSlots - k]
  /\ upper = {}
  /\ txq = <<>>
  /\ recycled = <<>>
  /\ rxq = <<>>
  /\ rxArrived = 0
  /\ rxDelivered = 0
  /\ halted = FALSE

(* eth_put_buffer(p) as a state transformer of the free list: a buffer     *)
(* without the magic hangs the program, otherwise it becomes the new head. *)
PutBuffer(p) ==
  IF HasMagic(p)
  THEN /\ eth_buffers' = <<p>> \o eth_buffers
       /\ halted' = FALSE
  ELSE /\ halted' = TRUE
       /\ UNCHANGED eth_buffers

(* eth_get_buffer(sz): a request that fits and a non-empty free list pops  *)
(* the head.  The two NULL returns change no state.                        *)
(* Mutant: the pop 'eth_buffers = buf->next' is lost. *)
EthGetBufferNoPop(sz) ==
  /\ ~halted
  /\ sz <= ETH_BUFFER_SIZE
  /\ eth_buffers # <<>>
  /\ upper' = upper \cup {Head(eth_buffers)}
  /\ UNCHANGED <<eth_buffers, txq, recycled, rxq, rxArrived, rxDelivered, halted>>

EthGetBuffer(sz) ==
  /\ ~halted
  /\ sz <= ETH_BUFFER_SIZE
  /\ eth_buffers # <<>>
  /\ eth_buffers' = Tail(eth_buffers)
  /\ upper' = upper \cup {Head(eth_buffers)}
  /\ UNCHANGED <<txq, recycled, rxq, rxArrived, rxDelivered, halted>>

(* The upper layer returns buffer p with eth_put_buffer.  A correct caller *)
(* only returns what it holds; a misbehaving one may pass any pointer.     *)
ReleaseCandidates ==
  IF CallerMisuse THEN Slots \cup {WildPtr} ELSE upper

EthPutBuffer(p) ==
  /\ ~halted
  /\ PutBuffer(p)
  /\ upper' = upper \ {p}
  /\ UNCHANGED <<txq, recycled, rxq, rxArrived, rxDelivered>>

(* eth_send(p): Transmit either accepts the buffer, which then belongs to  *)
(* the device, or fails (ring full, device error) and eth_send puts the    *)
(* buffer back on the free list itself.                                    *)
TxRoom == Len(txq) + Len(recycled) < TxCapacity

(* Mutant: the buffer is put back whatever Transmit returned. *)
EthSendFreesAlways(p) ==
  /\ ~halted
  /\ p \in upper
  /\ upper' = upper \ {p}
  /\ PutBuffer(p)
  /\ \/ /\ TxRoom
        /\ txq' = Append(txq, p)
     \/ UNCHANGED txq
  /\ UNCHANGED <<recycled, rxq, rxArrived, rxDelivered>>

EthSend(p) ==
  /\ ~halted
  /\ p \in upper
  /\ upper' = upper \ {p}
  /\ \/ /\ TxRoom
        /\ txq' = Append(txq, p)
        /\ UNCHANGED <<eth_buffers, halted>>
     \/ /\ PutBuffer(p)
        /\ UNCHANGED txq
  /\ UNCHANGED <<recycled, rxq, rxArrived, rxDelivered>>

(* netifc_poll: GetStatus hands back at most one recycled buffer, which is *)
(* put on the free list; then Receive copies the first waiting frame into  *)
(* the 1514-byte stack buffer and it goes to eth_recv.  A frame longer     *)
(* than the buffer makes Receive fail with BUFFER_TOO_SMALL and stay in    *)
(* the device.  A failed GetStatus returns at once and changes nothing.    *)
(* What eth_recv does in turn (reply with eth_get_buffer/eth_send) runs    *)
(* after the pool update, so it is the upper layer's steps that follow.    *)
(* Mutant: the recycled buffer is dropped instead of put back. *)
ReclaimLeaks ==
  IF recycled = <<>>
  THEN UNCHANGED <<recycled, eth_buffers, halted>>
  ELSE /\ recycled' = Tail(recycled)
       /\ UNCHANGED <<eth_buffers, halted>>

Reclaim ==
  IF recycled = <<>>
  THEN UNCHANGED <<recycled, eth_buffers, halted>>
  ELSE /\ recycled' = Tail(recycled)
       /\ PutBuffer(Head(recycled))

(* Mutant: the receive buffer is one byte short of a full frame. *)
ReceiveOneShort ==
  IF rxq # <<>> /\ Head(rxq) < RX_BUFFER_SIZE
  THEN /\ rxq' = Tail(rxq)
       /\ rxDelivered' = rxDelivered + 1
  ELSE UNCHANGED <<rxq, rxDelivered>>

(* Mutant: eth_recv is called even when Receive failed. *)
ReceiveOneUnchecked ==
  /\ rxq' = IF rxq # <<>> /\ Head(rxq) <= RX_BUFFER_SIZE THEN Tail(rxq) ELSE rxq
  /\ rxDelivered' = rxDelivered + 1

ReceiveOne ==
  IF rxq # <<>> /\ Head(rxq) <= RX_BUFFER_SIZE
  THEN /\ rxq' = Tail(rxq)
       /\ rxDelivered' = rxDelivered + 1
  ELSE UNCHANGED <<rxq, rxDelivered>>

NetifcPoll ==
  /\ ~halted
  /\ Reclaim
  /\ ReceiveOne
  /\ UNCHANGED <<upper, txq, rxArrived>>

-----------------------------------------------------------------------------
(* The device and the wire.                                                *)

(* The NIC finishes the oldest pending transmission. *)
TxComplete ==
  /\ txq # <<>>
  /\ txq' = Tail(txq)
  /\ recycled' = Append(recycled, Head(txq))
  /\ UNCHANGED <<eth_buffers, upper, rxq, rxArrived, rxDelivered, halted>>

(* A frame of length len arrives and is queued by the NIC. *)
FrameArrives(len) ==
  /\ rxArrived < MaxRx
  /\ rxq' = Append(rxq, len)
  /\ rxArrived' = rxArrived + 1
  /\ UNCHANGED <<eth_buffers, upper, txq, recycled, rxDelivered, halted>>

Next ==
  \/ \E sz \in GetSizes : EthGetBuffer(sz)
  \/ \E p \in ReleaseCandidates : EthPutBuffer(p)
  \/ \E p \in upper : EthSend(p)
  \/ NetifcPoll
  \/ TxComplete
  \/ \E len \in RxLens : FrameArrives(len)

(* The netboot loop calls netifc_poll again and again, and a GetStatus     *)
(* failure is transient; the NIC eventually finishes what it accepted.     *)
Fairness ==
  /\ WF_vars(NetifcPoll)
  /\ WF_vars(TxComplete)

Spec == Init /\ [][Next]_vars /\ Fairness

-----------------------------------------------------------------------------
(* Type invariant. *)
TypeOK ==
  /\ eth_buffers \in Seq(Slots)
  /\ upper \subseteq Slots
  /\ txq \in Seq(Slots)
  /\ recycled \in Seq(Slots)
  /\ rxq \in Seq(RxLens)
  /\ rxArrived \in 0 .. MaxRx
  /\ rxDelivered \in 0 .. MaxRx
  /\ halted \in BOOLEAN

(* Every buffer has exactly one owner: it is on the free list exactly      *)
(* once, or held by the upper layer, or in the device's transmit ring, or  *)
(* waiting in its recycle queue.  This is what keeps eth_get_buffer from   *)
(* handing one buffer to two users; it depends on eth_send returning a     *)
(* buffer only when Transmit rejected it, and on netifc_poll putting back  *)
(* exactly the buffers GetStatus recycles.                                 *)
OwnershipPartition ==
  /\ IsInjective(eth_buffers)
  /\ IsInjective(txq)
  /\ IsInjective(recycled)
  /\ Range(eth_buffers) \cup upper \cup Range(txq) \cup Range(recycled) = Slots
  /\ Range(eth_buffers) \cap upper = {}
  /\ Range(eth_buffers) \cap DeviceOwned = {}
  /\ upper \cap DeviceOwned = {}
  /\ Range(txq) \cap Range(recycled) = {}

(* Every buffer accepted by Transmit comes back to the free list: the NIC  *)
(* finishes it, GetStatus recycles it and netifc_poll puts it back.        *)
TxReclaimed ==
  \A s \in Slots : s \in DeviceOwned ~> s \in Range(eth_buffers)

(* Every frame that arrives is eventually handed to eth_recv by some       *)
(* netifc_poll, however many polls it takes.                               *)
RxDelivered ==
  \A n \in 1 .. MaxRx : rxArrived >= n ~> rxDelivered >= n

(* The code implements the pool contract of BufferPool: the free slots are *)
(* those on the list, the outstanding ones those the caller or the device  *)
(* hold.  Handing a buffer to the device is invisible at that level.       *)
Pool == INSTANCE BufferPool WITH
          Slot <- Slots,
          free <- Range(eth_buffers),
          out  <- upper \cup DeviceOwned

PoolSpec == Pool!Spec

=============================================================================
