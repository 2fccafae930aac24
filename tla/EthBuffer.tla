------------------------------ MODULE EthBuffer ------------------------------
(***************************************************************************)
(* The memory layout of netifc.c's Ethernet buffers.  netifc_open carves  *)
(* NUM_BUFFER_PAGES pages into 2048-byte slots; a slot is an eth_buffer    *)
(* header (the 8-byte magic and the 8-byte next link) followed by the      *)
(* data area whose address eth_get_buffer hands out.  eth_put_buffer       *)
(* recovers the header from any pointer into the slot by masking.          *)
(***************************************************************************)
EXTENDS Naturals

NUM_BUFFER_PAGES == 8
PAGE_SIZE        == 4096
ETH_BUFFER_SIZE  == 1516    \* largest request eth_get_buffer grants
ETH_HEADER_SIZE  == 16      \* offsetof(eth_buffer, data)
SLOT_SIZE        == 2048    \* the stride of the carving loop

\* The slots one carving yields: NUM_BUFFER_PAGES * 2.
SLOTS_PER_CARVE == NUM_BUFFER_PAGES * 2

(* Mutant: the mask clears twelve bits instead of eleven. *)
MaskPtrWide(x) == x - (x % PAGE_SIZE)

(* The address eth_put_buffer computes from a data pointer,                *)
(* ((uint64_t)data) & ~2047: the low eleven bits are cleared.              *)
MaskPtr(x) == x - (x % SLOT_SIZE)

(* The header address of slot k of the pages AllocatePages returned.       *)
SlotBase(base, k) == base + SLOT_SIZE * k

(* The data pointer eth_get_buffer returns for the slot at header h:       *)
(* buf->data.                                                              *)
DataPtr(h) == h + ETH_HEADER_SIZE
==============================================================================
