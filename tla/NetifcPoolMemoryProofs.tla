----------------------- MODULE NetifcPoolMemoryProofs -----------------------
(***************************************************************************)
(* Proof that the ~2047 mask of eth_put_buffer sends every pointer back to *)
(* its own slot, across any number of sessions and for any page-aligned    *)
(* bases AllocatePages returns (HeaderRecovered of NetifcPoolMemory), and  *)
(* that the pool implements the SlotAllocator contract (AllocSpec).        *)
(***************************************************************************)
EXTENDS NetifcPoolMemory, SequenceTheorems, TLAPS

(* The slot a pointer names, as eth_put_buffer computes it. *)
Slot(p) == MaskPtr(p)

(* The buffers outside the free list: held by the upper layer or kept by   *)
(* the device.                                                             *)
Outstanding == held \cup inflight

(* The inductive invariant.  Every header carved holds the magic and no    *)
(* other address does; each free header, each held data pointer and each  *)
(* pointer the device keeps lies in a carved slot at the offsets the code  *)
(* hands out; and the slots of the free list, of the held buffers and of  *)
(* the device's buffers are pairwise distinct.                             *)
PInv ==
  /\ TypeOK
  /\ ~halted
  /\ magic = CarvedHeaders
  /\ Range(eth_buffers) \subseteq CarvedHeaders
  /\ IsInjective(eth_buffers)
  /\ \A d \in held : d = DataPtr(Slot(d)) /\ Slot(d) \in CarvedHeaders
  /\ \A p \in inflight :
       \E h \in CarvedHeaders, off \in Offsets : p = DataPtr(h) + off
  /\ \A p \in Outstanding : Slot(p) \notin Range(eth_buffers)
  /\ \A p, q \in Outstanding : p # q => Slot(p) # Slot(q)
  /\ \A d \in held, p \in inflight : Slot(d) # Slot(p)

-----------------------------------------------------------------------------
(* The slot arithmetic.  Masking any address of a 2048-aligned slot gives  *)
(* the slot's header.                                                      *)
LEMMA AlignedMask ==
  ASSUME NEW h \in Nat, h % SLOT_SIZE = 0, NEW o \in 0 .. SLOT_SIZE - 1
  PROVE  MaskPtr(h + o) = h
<1>1. (h + o) % SLOT_SIZE = o
  BY DEF SLOT_SIZE
<1>2. QED
  BY <1>1 DEF MaskPtr

(* A header the carving loop writes is 2048-aligned and lies, with its     *)
(* whole slot, inside the pages of its carving.                            *)
LEMMA HeaderAligned ==
  ASSUME NetifcPoolMemoryAssumption, NEW b \in Bases,
         NEW k \in 0 .. SLOTS_PER_CARVE - 1
  PROVE  /\ SlotBase(b, k) \in Nat
         /\ SlotBase(b, k) % SLOT_SIZE = 0
         /\ b <= SlotBase(b, k)
         /\ SlotBase(b, k) + SLOT_SIZE <= b + REGION_SIZE
<1>1. b \in Nat /\ b % PAGE_SIZE = 0
  BY DEF NetifcPoolMemoryAssumption
<1>2. b = 4096 * (b \div 4096)
  BY <1>1 DEF PAGE_SIZE
<1>3. (4096 * (b \div 4096) + 2048 * k) % 2048 = 0
  BY <1>1
<1>4. QED
  BY <1>1, <1>2, <1>3 DEF SlotBase, SLOT_SIZE, REGION_SIZE, NUM_BUFFER_PAGES,
                         PAGE_SIZE, SLOTS_PER_CARVE

(* The headers of a set of carvings. *)
HeadersOf(C) == UNION {Headers(b) : b \in C}

LEMMA CarvedAligned ==
  ASSUME NetifcPoolMemoryAssumption, NEW C \in SUBSET Bases,
         NEW h \in HeadersOf(C)
  PROVE  h \in Nat /\ h % SLOT_SIZE = 0
<1>1. PICK b \in C, k \in 0 .. SLOTS_PER_CARVE - 1 : h = SlotBase(b, k)
  BY DEF HeadersOf, Headers
<1>2. QED
  BY <1>1, HeaderAligned

(* The pages of a new carving hold no header of an earlier one. *)
LEMMA HeadersFresh ==
  ASSUME NetifcPoolMemoryAssumption, NEW C \in SUBSET Bases,
         NEW b \in Bases \ C
  PROVE  Headers(b) \cap HeadersOf(C) = {}
<1> SUFFICES ASSUME NEW k \in 0 .. SLOTS_PER_CARVE - 1, NEW c \in C,
                    NEW j \in 0 .. SLOTS_PER_CARVE - 1,
                    SlotBase(b, k) = SlotBase(c, j)
             PROVE  FALSE
  BY DEF Headers, HeadersOf
<1>1. b \in Nat /\ c \in Nat /\ b # c
  BY DEF NetifcPoolMemoryAssumption
<1>2. c < b => c + REGION_SIZE <= b
  BY DEF NetifcPoolMemoryAssumption
<1>3. b < c => b + REGION_SIZE <= c
  BY DEF NetifcPoolMemoryAssumption
<1>4. /\ b <= SlotBase(b, k) /\ SlotBase(b, k) + SLOT_SIZE <= b + REGION_SIZE
      /\ c <= SlotBase(c, j) /\ SlotBase(c, j) + SLOT_SIZE <= c + REGION_SIZE
      /\ SlotBase(b, k) \in Nat
  BY HeaderAligned
<1>5. QED
  BY <1>1, <1>2, <1>3, <1>4 DEF SLOT_SIZE, REGION_SIZE, NUM_BUFFER_PAGES,
                                PAGE_SIZE

(* Two aligned slots that share an address are the same slot. *)
LEMMA AlignedUnique ==
  ASSUME NEW g \in Nat, g % SLOT_SIZE = 0, NEW h \in Nat, h % SLOT_SIZE = 0,
         NEW p \in Nat, g <= p, p < g + SLOT_SIZE, h <= p, p < h + SLOT_SIZE
  PROVE  g = h
<1>1. p - g \in 0 .. SLOT_SIZE - 1 /\ p - h \in 0 .. SLOT_SIZE - 1
  BY DEF SLOT_SIZE
<1>2. MaskPtr(g + (p - g)) = g /\ MaskPtr(h + (p - h)) = h
  BY <1>1, AlignedMask
<1>3. QED
  BY <1>2

(* The slot the layout assigns to an address of a carved slot is the slot  *)
(* the mask computes.                                                      *)
LEMMA SlotOfExact ==
  ASSUME NetifcPoolMemoryAssumption, carved \in SUBSET Bases,
         NEW h \in CarvedHeaders, NEW o \in 0 .. SLOT_SIZE - 1
  PROVE  SlotOf(h + o) = h /\ Slot(h + o) = h
<1>1. h \in Nat /\ h % SLOT_SIZE = 0
  BY CarvedAligned DEF CarvedHeaders, HeadersOf
<1>2. Slot(h + o) = h
  BY <1>1, AlignedMask DEF Slot
<1>3. h <= h + o /\ h + o < h + SLOT_SIZE
  BY <1>1 DEF SLOT_SIZE
<1>4. \E g \in CarvedHeaders : g <= h + o /\ h + o < g + SLOT_SIZE
  BY <1>3
<1>5. PICK g \in CarvedHeaders :
        g = SlotOf(h + o) /\ g <= h + o /\ h + o < g + SLOT_SIZE
  BY <1>4 DEF SlotOf
<1>6. g \in Nat /\ g % SLOT_SIZE = 0
  BY <1>5, CarvedAligned DEF CarvedHeaders, HeadersOf
<1>7. g = h
  BY <1>1, <1>3, <1>5, <1>6, AlignedUnique
<1>8. QED
  BY <1>2, <1>5, <1>7

-----------------------------------------------------------------------------
(* The free list as a sequence without repetitions. *)
LEMMA ConcatInjective ==
  ASSUME NEW s1 \in Seq(Nat), NEW s2 \in Seq(Nat),
         IsInjective(s1), IsInjective(s2), Range(s1) \cap Range(s2) = {}
  PROVE  /\ s1 \o s2 \in Seq(Nat)
         /\ IsInjective(s1 \o s2)
         /\ Range(s1 \o s2) = Range(s1) \cup Range(s2)
<1> DEFINE c == s1 \o s2
           n1 == Len(s1)
<1>1. /\ c \in Seq(Nat)
      /\ Len(c) = n1 + Len(s2)
      /\ \A i \in 1 .. n1 + Len(s2) :
           c[i] = IF i <= n1 THEN s1[i] ELSE s2[i - n1]
  BY ConcatProperties
<1>2. Range(c) = Range(s1) \cup Range(s2)
  BY RangeConcatenation
<1>3. IsInjective(c)
  <2> SUFFICES ASSUME NEW a \in DOMAIN c, NEW b \in DOMAIN c, c[a] = c[b]
               PROVE  a = b
    BY DEF IsInjective
  <2>1. a \in 1 .. n1 + Len(s2) /\ b \in 1 .. n1 + Len(s2)
    BY <1>1
  <2>2. CASE a <= n1 /\ b <= n1
    BY <1>1, <2>1, <2>2 DEF IsInjective
  <2>3. CASE a > n1 /\ b > n1
    <3>1. a - n1 \in DOMAIN s2 /\ b - n1 \in DOMAIN s2
      BY <2>1, <2>3
    <3>2. s2[a - n1] = s2[b - n1]
      BY <1>1, <2>1, <2>3
    <3>3. QED
      BY <3>1, <3>2, <2>1 DEF IsInjective
  <2>4. CASE a <= n1 /\ b > n1
    <3>1. c[a] \in Range(s1) /\ c[b] \in Range(s2)
      BY <1>1, <2>1, <2>4 DEF Range
    <3>2. QED
      BY <3>1
  <2>5. CASE a > n1 /\ b <= n1
    <3>1. c[b] \in Range(s1) /\ c[a] \in Range(s2)
      BY <1>1, <2>1, <2>5 DEF Range
    <3>2. QED
      BY <3>1
  <2>6. QED
    BY <2>1, <2>2, <2>3, <2>4, <2>5
<1>4. QED
  BY <1>1, <1>2, <1>3

(* eth_put_buffer's push of a header not on the list. *)
LEMMA PushInjective ==
  ASSUME NEW s \in Seq(Nat), IsInjective(s), NEW x \in Nat, x \notin Range(s)
  PROVE  /\ <<x>> \o s \in Seq(Nat)
         /\ IsInjective(<<x>> \o s)
         /\ Range(<<x>> \o s) = {x} \cup Range(s)
<1>1. <<x>> \in Seq(Nat) /\ IsInjective(<<x>>) /\ Range(<<x>>) = {x}
  BY DEF IsInjective, Range
<1>2. Range(<<x>>) \cap Range(s) = {}
  BY <1>1
<1>3. /\ <<x>> \o s \in Seq(Nat)
      /\ IsInjective(<<x>> \o s)
      /\ Range(<<x>> \o s) = Range(<<x>>) \cup Range(s)
  BY <1>1, <1>2, ConcatInjective, Zenon
<1>4. QED
  BY <1>1, <1>3

(* eth_get_buffer's pop. *)
LEMMA PopInjective ==
  ASSUME NEW s \in Seq(Nat), s # <<>>, IsInjective(s)
  PROVE  /\ Head(s) \in Range(s)
         /\ Tail(s) \in Seq(Nat)
         /\ IsInjective(Tail(s))
         /\ Range(Tail(s)) = Range(s) \ {Head(s)}
<1>1. /\ Tail(s) \in Seq(Nat)
      /\ Len(Tail(s)) = Len(s) - 1
      /\ \A i \in 1 .. Len(Tail(s)) : Tail(s)[i] = s[i + 1]
      /\ Len(s) \in Nat \ {0}
  BY HeadTailProperties, EmptySeq, LenProperties
<1>2. Head(s) = s[1] /\ 1 \in DOMAIN s
  BY <1>1
<1>3. Head(s) \in Range(s)
  BY <1>2 DEF Range
<1>4. IsInjective(Tail(s))
  BY <1>1 DEF IsInjective
<1>5. Range(Tail(s)) = Range(s) \ {Head(s)}
  <2>1. ASSUME NEW i \in 1 .. Len(s) - 1
        PROVE  Tail(s)[i] = s[i + 1] /\ s[i + 1] # s[1]
    BY <1>1, <1>2 DEF IsInjective
  <2>2. DOMAIN Tail(s) = 1 .. Len(s) - 1 /\ DOMAIN s = 1 .. Len(s)
    BY <1>1
  <2>3. Range(Tail(s)) \subseteq Range(s) \ {Head(s)}
    BY <1>2, <2>1, <2>2 DEF Range
  <2>4. ASSUME NEW j \in 1 .. Len(s), s[j] # s[1]
        PROVE  s[j] \in Range(Tail(s))
    <3>1. j - 1 \in 1 .. Len(s) - 1
      BY <2>4, <1>1
    <3>2. Tail(s)[j - 1] = s[j]
      BY <3>1, <2>1
    <3>3. QED
      BY <3>1, <3>2, <2>2 DEF Range
  <2>5. QED
    BY <1>2, <2>2, <2>3, <2>4 DEF Range
<1>6. QED
  BY <1>1, <1>3, <1>4, <1>5

(* The slots netifc_open pushes, top first: each header once, the headers  *)
(* of the new pages and nothing else.                                      *)
Carving(base) ==
  [i \in 1 .. SLOTS_PER_CARVE |-> MaskPtr(SlotBase(base, SLOTS_PER_CARVE - i))]

LEMMA CarveSeq ==
  ASSUME NetifcPoolMemoryAssumption, NEW b \in Bases
  PROVE  /\ Carving(b) \in Seq(Nat)
         /\ IsInjective(Carving(b))
         /\ Range(Carving(b)) = Headers(b)
         /\ CarveFits(b)
<1>1. ASSUME NEW k \in 0 .. SLOTS_PER_CARVE - 1
      PROVE  MaskPtr(SlotBase(b, k)) = SlotBase(b, k) /\ SlotBase(b, k) \in Nat
  <2>1. SlotBase(b, k) \in Nat /\ SlotBase(b, k) % SLOT_SIZE = 0
    BY HeaderAligned
  <2>2. 0 \in 0 .. SLOT_SIZE - 1 /\ SlotBase(b, k) + 0 = SlotBase(b, k)
    BY <2>1 DEF SLOT_SIZE
  <2>3. QED
    BY <2>1, <2>2, AlignedMask
<1>2. SLOTS_PER_CARVE = 16
  BY DEF SLOTS_PER_CARVE, NUM_BUFFER_PAGES
<1>3. \A i \in 1 .. SLOTS_PER_CARVE :
        SLOTS_PER_CARVE - i \in 0 .. SLOTS_PER_CARVE - 1
  BY <1>2
<1>4. Carving(b) =
        [i \in 1 .. SLOTS_PER_CARVE |-> SlotBase(b, SLOTS_PER_CARVE - i)]
  BY <1>1, <1>3 DEF Carving
<1>5. b \in Nat
  BY DEF NetifcPoolMemoryAssumption
<1>6. Carving(b) \in Seq(Nat)
  BY <1>1, <1>2, <1>3, <1>4
<1>7. IsInjective(Carving(b))
  BY <1>2, <1>4, <1>5 DEF IsInjective, SlotBase, SLOT_SIZE
<1>8. Range(Carving(b)) = Headers(b)
  <2>1. Range(Carving(b)) \subseteq Headers(b)
    BY <1>3, <1>4 DEF Range, Headers
  <2>2. ASSUME NEW k \in 0 .. SLOTS_PER_CARVE - 1
        PROVE  SlotBase(b, k) \in Range(Carving(b))
    <3>1. SLOTS_PER_CARVE - k \in 1 .. SLOTS_PER_CARVE
      BY <1>2
    <3>2. Carving(b)[SLOTS_PER_CARVE - k] = SlotBase(b, k)
      BY <1>2, <1>4, <3>1
    <3>3. QED
      BY <1>4, <3>1, <3>2 DEF Range
  <2>3. QED
    BY <2>1, <2>2 DEF Headers
<1>9. CarveFits(b)
  BY <1>1 DEF CarveFits
<1>10. QED
  BY <1>6, <1>7, <1>8, <1>9

-----------------------------------------------------------------------------
(* Every outstanding pointer lies in the carved slot its mask names.       *)
LEMMA OutstandingSlot ==
  ASSUME NetifcPoolMemoryAssumption, PInv, NEW p \in Outstanding
  PROVE  /\ Slot(p) \in CarvedHeaders
         /\ \E o \in 0 .. SLOT_SIZE - 1 : p = Slot(p) + o
<1>1. carved \in SUBSET Bases
  BY DEF PInv, TypeOK
<1>2. CASE p \in held
  <2>1. p = DataPtr(Slot(p)) /\ Slot(p) \in CarvedHeaders
    BY <1>2 DEF PInv
  <2>2. Slot(p) \in Nat
    BY <1>1, <2>1, CarvedAligned DEF CarvedHeaders, HeadersOf
  <2>3. 16 \in 0 .. SLOT_SIZE - 1 /\ p = Slot(p) + 16
    BY <2>1, <2>2 DEF DataPtr, ETH_HEADER_SIZE, SLOT_SIZE
  <2>4. QED
    BY <2>1, <2>3
<1>3. CASE p \in inflight
  <2>1. PICK h \in CarvedHeaders, off \in Offsets : p = DataPtr(h) + off
    BY <1>3 DEF PInv
  <2>2. h \in Nat /\ off \in 0 .. ETH_BUFFER_SIZE - 1
    BY <1>1, CarvedAligned DEF CarvedHeaders, HeadersOf,
       NetifcPoolMemoryAssumption
  <2>3. 16 + off \in 0 .. SLOT_SIZE - 1 /\ p = h + (16 + off)
    BY <2>1, <2>2 DEF DataPtr, ETH_HEADER_SIZE, SLOT_SIZE, ETH_BUFFER_SIZE
  <2>4. Slot(p) = h
    BY <1>1, <2>3, SlotOfExact
  <2>5. QED
    BY <2>3, <2>4
<1>4. QED
  BY <1>2, <1>3 DEF Outstanding

(* A buffer comes back: it leaves the outstanding set and its slot goes on *)
(* top of the free list.  eth_put_buffer, a failed eth_send and            *)
(* netifc_poll all end this way.                                           *)
LEMMA ReleaseStep ==
  ASSUME NetifcPoolMemoryAssumption, PInv, NEW x \in Outstanding,
         held' = held \ {x}, inflight' = inflight \ {x},
         eth_buffers' = <<Slot(x)>> \o eth_buffers, halted' = halted,
         UNCHANGED <<phase, carved, magic>>
  PROVE  PInv'
<1>1. Slot(x) \in CarvedHeaders
  BY OutstandingSlot
<1>2. CarvedHeaders' = CarvedHeaders
  BY DEF CarvedHeaders
<1>3. Slot(x) \in Nat
  BY <1>1, CarvedAligned DEF PInv, TypeOK, CarvedHeaders, HeadersOf
<1>4. /\ eth_buffers \in Seq(Nat)
      /\ IsInjective(eth_buffers)
      /\ Slot(x) \notin Range(eth_buffers)
  BY DEF PInv, TypeOK
<1>5. /\ eth_buffers' \in Seq(Nat)
      /\ IsInjective(eth_buffers')
      /\ Range(eth_buffers') = {Slot(x)} \cup Range(eth_buffers)
  BY <1>3, <1>4, PushInjective
<1>6. TypeOK'
  BY <1>5 DEF PInv, TypeOK
<1>7. Outstanding' = Outstanding \ {x}
  BY DEF Outstanding
<1>8. \A p \in Outstanding' : Slot(p) \notin Range(eth_buffers')
  <2> SUFFICES ASSUME NEW p \in Outstanding'
               PROVE  Slot(p) \notin Range(eth_buffers')
    OBVIOUS
  <2>1. p \in Outstanding /\ p # x
    BY <1>7
  <2>2. Slot(p) # Slot(x) /\ Slot(p) \notin Range(eth_buffers)
    BY <2>1 DEF PInv
  <2>3. QED
    BY <1>5, <2>2
<1>9. Range(eth_buffers') \subseteq CarvedHeaders'
  BY <1>1, <1>2, <1>5 DEF PInv
<1>10. /\ \A d \in held' : d = DataPtr(Slot(d)) /\ Slot(d) \in CarvedHeaders'
       /\ \A p \in inflight' :
            \E h \in CarvedHeaders', off \in Offsets : p = DataPtr(h) + off
  BY <1>2 DEF PInv
<1>11. /\ \A p, q \in Outstanding' : p # q => Slot(p) # Slot(q)
       /\ \A d \in held', p \in inflight' : Slot(d) # Slot(p)
  BY <1>7 DEF PInv
<1>12. ~halted' /\ magic' = CarvedHeaders'
  BY <1>2 DEF PInv
<1>13. QED
  BY <1>5, <1>6, <1>8, <1>9, <1>10, <1>11, <1>12 DEF PInv

(* A pointer into the bytes of a held buffer masks to that buffer's slot.  *)
LEMMA HeldOffset ==
  ASSUME NetifcPoolMemoryAssumption, PInv, NEW d \in held, NEW off \in Offsets
  PROVE  Slot(d + off) = Slot(d)
<1>1. carved \in SUBSET Bases
  BY DEF PInv, TypeOK
<1>2. d = DataPtr(Slot(d)) /\ Slot(d) \in CarvedHeaders
  BY DEF PInv
<1>3. Slot(d) \in Nat /\ off \in 0 .. ETH_BUFFER_SIZE - 1
  BY <1>1, <1>2, CarvedAligned DEF CarvedHeaders, HeadersOf,
     NetifcPoolMemoryAssumption
<1>4. 16 + off \in 0 .. SLOT_SIZE - 1 /\ d + off = Slot(d) + (16 + off)
  BY <1>2, <1>3 DEF DataPtr, ETH_HEADER_SIZE, SLOT_SIZE, ETH_BUFFER_SIZE
<1>5. QED
  BY <1>1, <1>2, <1>4, SlotOfExact

(* The magic check passes for the slot of an outstanding buffer, so        *)
(* eth_put_buffer pushes it and does not hang.                             *)
LEMMA PutBufferPush ==
  ASSUME NetifcPoolMemoryAssumption, PInv, NEW x \in Outstanding, NEW p,
         Slot(p) = Slot(x), PutBuffer(p)
  PROVE  eth_buffers' = <<Slot(x)>> \o eth_buffers /\ halted' = halted
<1>1. MaskPtr(p) \in magic
  BY OutstandingSlot DEF PInv, Slot
<1>2. QED
  BY <1>1 DEF PutBuffer, Slot

(* A held buffer is not also with the device. *)
LEMMA HeldNotInflight ==
  ASSUME PInv, NEW d \in held
  PROVE  d \notin inflight
BY DEF PInv

LEMMA EthPutBufferStep ==
  ASSUME NetifcPoolMemoryAssumption, PInv, NEW d \in held, NEW off \in Offsets,
         EthPutBuffer(d, off)
  PROVE  PInv'
<1>1. d \in Outstanding /\ inflight' = inflight \ {d}
  BY HeldNotInflight DEF EthPutBuffer, Outstanding
<1>2. Slot(d + off) = Slot(d)
  BY HeldOffset
<1>3. eth_buffers' = <<Slot(d)>> \o eth_buffers /\ halted' = halted
  BY <1>1, <1>2, PutBufferPush DEF EthPutBuffer
<1>4. QED
  BY <1>1, <1>3, ReleaseStep DEF EthPutBuffer

LEMMA NetifcPollStep ==
  ASSUME NetifcPoolMemoryAssumption, PInv, NEW p \in inflight, NetifcPoll(p)
  PROVE  PInv'
<1>1. p \in Outstanding /\ held' = held \ {p}
  BY HeldNotInflight DEF NetifcPoll, Outstanding
<1>2. eth_buffers' = <<Slot(p)>> \o eth_buffers /\ halted' = halted
  BY <1>1, PutBufferPush DEF NetifcPoll
<1>3. QED
  BY <1>1, <1>2, ReleaseStep DEF NetifcPoll

(* Transmit keeps the pointer: it moves from the upper layer to the device *)
(* with its slot.                                                          *)
LEMMA TransmitStep ==
  ASSUME NetifcPoolMemoryAssumption, PInv, NEW d \in held, NEW off \in Offsets,
         held' = held \ {d}, inflight' = inflight \cup {d + off},
         UNCHANGED <<eth_buffers, halted, phase, carved, magic>>
  PROVE  PInv'
<1>1. /\ Slot(d + off) = Slot(d)
      /\ d \notin inflight
      /\ d = DataPtr(Slot(d)) /\ Slot(d) \in CarvedHeaders
      /\ Slot(d) \notin Range(eth_buffers)
  BY HeldOffset, HeldNotInflight DEF PInv, Outstanding
<1>2. CarvedHeaders' = CarvedHeaders
  BY DEF CarvedHeaders
<1>3. d + off \in Nat
  BY DEF PInv, TypeOK, NetifcPoolMemoryAssumption
<1>4. TypeOK'
  BY <1>3 DEF PInv, TypeOK
<1>5. Outstanding' = (Outstanding \ {d}) \cup {d + off}
  BY <1>1 DEF Outstanding
<1>6. \A p \in inflight' :
        \E h \in CarvedHeaders', off2 \in Offsets : p = DataPtr(h) + off2
  BY <1>1, <1>2 DEF PInv
<1>7. \A p \in Outstanding' : Slot(p) \notin Range(eth_buffers')
  BY <1>1, <1>5 DEF PInv
<1>8. \A p, q \in Outstanding' : p # q => Slot(p) # Slot(q)
  <2> SUFFICES ASSUME NEW p \in Outstanding', NEW q \in Outstanding', p # q
               PROVE  Slot(p) # Slot(q)
    OBVIOUS
  <2>1. \A r \in Outstanding \ {d} : Slot(r) # Slot(d)
    BY DEF PInv, Outstanding
  <2>2. CASE p \in Outstanding \ {d} /\ q \in Outstanding \ {d}
    BY <2>2 DEF PInv
  <2>3. CASE p = d + off
    BY <1>1, <1>5, <2>1, <2>3
  <2>4. CASE q = d + off
    BY <1>1, <1>5, <2>1, <2>4
  <2>5. QED
    BY <1>5, <2>2, <2>3, <2>4
<1>9. \A d2 \in held', p \in inflight' : Slot(d2) # Slot(p)
  <2>1. \A r \in held \ {d} : Slot(r) # Slot(d)
    BY DEF PInv, Outstanding
  <2>2. QED
    BY <1>1, <2>1 DEF PInv
<1>10. /\ \A d2 \in held' :
            d2 = DataPtr(Slot(d2)) /\ Slot(d2) \in CarvedHeaders'
       /\ ~halted' /\ magic' = CarvedHeaders'
       /\ Range(eth_buffers') \subseteq CarvedHeaders'
       /\ IsInjective(eth_buffers')
  BY <1>2 DEF PInv
<1>11. QED
  BY <1>4, <1>6, <1>7, <1>8, <1>9, <1>10 DEF PInv

LEMMA EthSendStep ==
  ASSUME NetifcPoolMemoryAssumption, PInv, NEW d \in held, NEW off \in Offsets,
         EthSend(d, off)
  PROVE  PInv'
<1>1. CASE /\ phase = "open"
           /\ Cardinality(inflight) < TxCapacity
           /\ inflight' = inflight \cup {d + off}
           /\ UNCHANGED <<eth_buffers, halted>>
  BY <1>1, TransmitStep DEF EthSend
<1>2. CASE PutBuffer(d + off) /\ UNCHANGED inflight
  <2>1. d \in Outstanding /\ inflight' = inflight \ {d}
    BY <1>2, HeldNotInflight DEF Outstanding
  <2>2. Slot(d + off) = Slot(d)
    BY HeldOffset
  <2>3. eth_buffers' = <<Slot(d)>> \o eth_buffers /\ halted' = halted
    BY <1>2, <2>1, <2>2, PutBufferPush
  <2>4. QED
    BY <2>1, <2>3, ReleaseStep DEF EthSend
<1>3. QED
  BY <1>1, <1>2 DEF EthSend

(* eth_get_buffer pops a free slot that no outstanding buffer has, and     *)
(* hands out its data pointer, which masks back to it.                     *)
LEMMA EthGetBufferStep ==
  ASSUME NetifcPoolMemoryAssumption, PInv, EthGetBuffer
  PROVE  PInv'
<1> DEFINE h == Head(eth_buffers)
<1>1. /\ eth_buffers \in Seq(Nat) /\ eth_buffers # <<>>
      /\ IsInjective(eth_buffers)
      /\ carved \in SUBSET Bases
  BY DEF PInv, TypeOK, EthGetBuffer
<1>2. /\ h \in Range(eth_buffers)
      /\ Tail(eth_buffers) \in Seq(Nat)
      /\ IsInjective(Tail(eth_buffers))
      /\ Range(Tail(eth_buffers)) = Range(eth_buffers) \ {h}
  BY <1>1, PopInjective
<1>3. h \in CarvedHeaders
  BY <1>2 DEF PInv
<1>4. h \in Nat
  BY <1>1, <1>3, CarvedAligned DEF CarvedHeaders, HeadersOf
<1>5. 16 \in 0 .. SLOT_SIZE - 1 /\ DataPtr(h) = h + 16
  BY DEF DataPtr, ETH_HEADER_SIZE, SLOT_SIZE
<1>6. Slot(DataPtr(h)) = h
  BY <1>1, <1>3, <1>5, SlotOfExact
<1>7. /\ held' = held \cup {DataPtr(h)}
      /\ eth_buffers' = Tail(eth_buffers)
      /\ UNCHANGED <<phase, carved, magic, inflight, halted>>
  BY DEF EthGetBuffer
<1>8. CarvedHeaders' = CarvedHeaders
  BY <1>7 DEF CarvedHeaders
<1>9. Outstanding' = Outstanding \cup {DataPtr(h)}
  BY <1>7 DEF Outstanding
<1>10. \A r \in Outstanding : Slot(r) # h
  BY <1>2 DEF PInv
<1>11. TypeOK'
  <2>1. DataPtr(h) \in Nat
    BY <1>4, <1>5
  <2>2. QED
    BY <1>2, <1>7, <2>1 DEF PInv, TypeOK
<1>12. \A d \in held' : d = DataPtr(Slot(d)) /\ Slot(d) \in CarvedHeaders'
  BY <1>3, <1>6, <1>7, <1>8 DEF PInv
<1>13. \A p \in Outstanding' : Slot(p) \notin Range(eth_buffers')
  BY <1>2, <1>6, <1>7, <1>9 DEF PInv
<1>14. \A p, q \in Outstanding' : p # q => Slot(p) # Slot(q)
  BY <1>6, <1>9, <1>10 DEF PInv
<1>15. \A d \in held', p \in inflight' : Slot(d) # Slot(p)
  BY <1>6, <1>7, <1>10 DEF PInv, Outstanding
<1>16. /\ ~halted' /\ magic' = CarvedHeaders'
       /\ Range(eth_buffers') \subseteq CarvedHeaders'
       /\ IsInjective(eth_buffers')
       /\ \A p \in inflight' :
            \E g \in CarvedHeaders', off \in Offsets : p = DataPtr(g) + off
  BY <1>2, <1>7, <1>8 DEF PInv
<1>17. QED
  BY <1>11, <1>12, <1>13, <1>14, <1>15, <1>16 DEF PInv

(* netifc_open carves pages no earlier call returned: their headers are    *)
(* new, get the magic, and go on top of the free list, each once.          *)
LEMMA NetifcOpenStep ==
  ASSUME NetifcPoolMemoryAssumption, PInv, NetifcOpen
  PROVE  PInv'
<1>1. PICK base \in Bases \ carved :
        /\ carved' = carved \cup {base}
        /\ magic' = magic \cup Headers(base)
        /\ IF CarveFits(base)
           THEN /\ eth_buffers' =
                     [i \in 1 .. SLOTS_PER_CARVE |->
                        MaskPtr(SlotBase(base, SLOTS_PER_CARVE - i))]
                     \o eth_buffers
                /\ UNCHANGED halted
           ELSE halted' = TRUE /\ UNCHANGED eth_buffers
  BY DEF NetifcOpen
<1>2. /\ Carving(base) \in Seq(Nat)
      /\ IsInjective(Carving(base))
      /\ Range(Carving(base)) = Headers(base)
      /\ CarveFits(base)
  BY CarveSeq
<1>3. eth_buffers' = Carving(base) \o eth_buffers /\ halted' = halted
  BY <1>1, <1>2 DEF Carving
<1>4. /\ carved \in SUBSET Bases
      /\ eth_buffers \in Seq(Nat)
      /\ IsInjective(eth_buffers)
      /\ Range(eth_buffers) \subseteq CarvedHeaders
  BY DEF PInv, TypeOK
<1>5. Headers(base) \cap CarvedHeaders = {}
  BY <1>4, HeadersFresh DEF CarvedHeaders, HeadersOf
<1>6. /\ eth_buffers' \in Seq(Nat)
      /\ IsInjective(eth_buffers')
      /\ Range(eth_buffers') = Headers(base) \cup Range(eth_buffers)
  BY <1>2, <1>3, <1>4, <1>5, ConcatInjective
<1>7. CarvedHeaders' = CarvedHeaders \cup Headers(base)
  BY <1>1 DEF CarvedHeaders
<1>8. Headers(base) \subseteq Nat
  BY HeaderAligned DEF Headers
<1>9. /\ UNCHANGED <<held, inflight>>
      /\ phase' = "open"
  BY DEF NetifcOpen
<1>10. TypeOK'
  BY <1>1, <1>3, <1>6, <1>8, <1>9 DEF PInv, TypeOK
<1>11. \A p \in Outstanding : Slot(p) \notin Headers(base)
  BY <1>5, OutstandingSlot
<1>12. \A p \in Outstanding' : Slot(p) \notin Range(eth_buffers')
  BY <1>6, <1>9, <1>11 DEF PInv, Outstanding
<1>13. /\ ~halted' /\ magic' = CarvedHeaders'
       /\ Range(eth_buffers') \subseteq CarvedHeaders'
  BY <1>1, <1>3, <1>6, <1>7 DEF PInv
<1>14. /\ \A d \in held' : d = DataPtr(Slot(d)) /\ Slot(d) \in CarvedHeaders'
       /\ \A p \in inflight' :
            \E h \in CarvedHeaders', off \in Offsets : p = DataPtr(h) + off
       /\ \A p, q \in Outstanding' : p # q => Slot(p) # Slot(q)
       /\ \A d \in held', p \in inflight' : Slot(d) # Slot(p)
  BY <1>7, <1>9 DEF PInv, Outstanding
<1>15. QED
  BY <1>6, <1>10, <1>12, <1>13, <1>14 DEF PInv

LEMMA NetifcCloseStep ==
  ASSUME PInv, NetifcClose
  PROVE  PInv'
<1>1. CarvedHeaders' = CarvedHeaders
  BY DEF NetifcClose, CarvedHeaders
<1>2. TypeOK'
  BY DEF PInv, TypeOK, NetifcClose
<1>3. QED
  BY <1>1, <1>2 DEF PInv, NetifcClose, Outstanding

LEMMA StutterStep ==
  ASSUME PInv, UNCHANGED vars
  PROVE  PInv'
<1>1. CarvedHeaders' = CarvedHeaders
  BY DEF vars, CarvedHeaders
<1>2. QED
  BY <1>1 DEF PInv, TypeOK, vars, Outstanding

-----------------------------------------------------------------------------
LEMMA InitPInv ==
  ASSUME Init
  PROVE  PInv
<1>1. CarvedHeaders = {}
  BY DEF Init, CarvedHeaders
<1>2. Range(eth_buffers) = {} /\ IsInjective(eth_buffers)
  BY DEF Init, Range, IsInjective
<1>3. TypeOK
  BY EmptySeq DEF Init, TypeOK
<1>4. Outstanding = {}
  BY DEF Init, Outstanding
<1>5. QED
  BY <1>1, <1>2, <1>3, <1>4 DEF Init, PInv

LEMMA NextPInv ==
  ASSUME NetifcPoolMemoryAssumption, PInv, [Next]_vars
  PROVE  PInv'
<1>1. CASE NetifcOpen
  BY <1>1, NetifcOpenStep
<1>2. CASE EthGetBuffer
  BY <1>2, EthGetBufferStep
<1>3. CASE \E d \in held, off \in Offsets :
             EthPutBuffer(d, off) \/ EthSend(d, off)
  BY <1>3, EthPutBufferStep, EthSendStep
<1>4. CASE \E p \in inflight : NetifcPoll(p)
  BY <1>4, NetifcPollStep
<1>5. CASE NetifcClose
  BY <1>5, NetifcCloseStep
<1>6. CASE UNCHANGED vars
  BY <1>6, StutterStep
<1>7. QED
  BY <1>1, <1>2, <1>3, <1>4, <1>5, <1>6 DEF Next

(* On an outstanding pointer the layout's slot and the mask's slot agree.  *)
LEMMA SlotOfOutstanding ==
  ASSUME NetifcPoolMemoryAssumption, PInv, NEW p \in Outstanding
  PROVE  SlotOf(p) = Slot(p)
<1>1. PICK o \in 0 .. SLOT_SIZE - 1 : p = Slot(p) + o
  BY OutstandingSlot
<1>2. Slot(p) \in CarvedHeaders /\ carved \in SUBSET Bases
  BY OutstandingSlot DEF PInv, TypeOK
<1>3. QED
  BY <1>1, <1>2, SlotOfExact

LEMMA PInvHeaderRecovered ==
  ASSUME NetifcPoolMemoryAssumption, PInv
  PROVE  HeaderRecovered
<1>1. \A p \in held \cup inflight : SlotOf(p) = Slot(p)
  BY SlotOfOutstanding DEF Outstanding
<1>2. \A d \in held : DataPtr(SlotOf(d)) = d
  BY <1>1 DEF PInv
<1>3. Range(eth_buffers) \cap {SlotOf(p) : p \in held \cup inflight} = {}
  BY <1>1 DEF PInv, Outstanding
<1>4. \A p, q \in held \cup inflight : p # q => SlotOf(p) # SlotOf(q)
  BY <1>1 DEF PInv, Outstanding
<1>5. QED
  BY <1>2, <1>3, <1>4 DEF PInv, HeaderRecovered

(* For every choice of page-aligned, non-overlapping bases AllocatePages   *)
(* may return, of offsets inside the granted bytes and of bounds:          *)
(* eth_put_buffer's mask sends every returned pointer to its own slot,     *)
(* the free list never holds a slot twice or the slot of a buffer still    *)
(* out, and no release hangs on the magic check, across any number of      *)
(* netifc_open/netifc_close sessions.                                      *)
THEOREM PoolHeaderRecovered == Spec => []HeaderRecovered
<1>1. Init => PInv
  BY InitPInv
<1>2. PInv /\ [Next]_vars => PInv'
  BY NextPInv, NetifcPoolMemoryAssumption
<1>3. PInv => HeaderRecovered
  BY PInvHeaderRecovered, NetifcPoolMemoryAssumption
<1>4. QED
  BY <1>1, <1>2, <1>3, PTL DEF Spec

(* The pool's state keeps its types in every session. *)
THEOREM PoolMemoryTypeCorrect == Spec => []TypeOK
<1>1. PInv => TypeOK
  BY DEF PInv
<1>2. QED
  BY <1>1, InitPInv, NextPInv, NetifcPoolMemoryAssumption, PTL DEF Spec

-----------------------------------------------------------------------------
(* Refinement of the allocator contract.  Each step of the code is an      *)
(* Open, Acquire, Release, Send, Reclaim or Close of SlotAllocator under   *)
(* the mapping, or leaves the four mapped values alone; which one follows  *)
(* from PInv.                                                              *)
AllocFree == Range(eth_buffers)

AllocUser == {MaskPtr(p) : p \in held}

AllocDevice == {MaskPtr(p) : p \in inflight}

AllocSession == phase = "open"

av == <<AllocFree, AllocUser, AllocDevice, AllocSession>>

(* The forms a step of the contract takes under the mapping. *)
LEMMA AllocStepForms ==
  ASSUME NEW s
  PROVE  /\ s \in AllocFree /\ AllocFree' = AllocFree \ {s}
            /\ AllocUser' = AllocUser \cup {s}
            /\ AllocDevice' = AllocDevice /\ AllocSession' = AllocSession
            => [Alloc!Next]_av
         /\ s \in AllocUser /\ AllocUser' = AllocUser \ {s}
            /\ AllocFree' = AllocFree \cup {s}
            /\ AllocDevice' = AllocDevice /\ AllocSession' = AllocSession
            => [Alloc!Next]_av
         /\ AllocSession /\ s \in AllocUser
            /\ AllocUser' = AllocUser \ {s}
            /\ AllocDevice' = AllocDevice \cup {s}
            /\ AllocFree' = AllocFree /\ AllocSession' = AllocSession
            => [Alloc!Next]_av
         /\ AllocSession /\ s \in AllocDevice
            /\ AllocDevice' = AllocDevice \ {s}
            /\ AllocFree' = AllocFree \cup {s}
            /\ AllocUser' = AllocUser /\ AllocSession' = AllocSession
            => [Alloc!Next]_av
         /\ ~AllocSession /\ AllocSession'
            /\ AllocFree \subseteq AllocFree'
            /\ (AllocFree' \ AllocFree) \cap (AllocUser \cup AllocDevice) = {}
            /\ AllocUser' = AllocUser /\ AllocDevice' = AllocDevice
            => [Alloc!Next]_av
         /\ AllocSession /\ ~AllocSession' /\ AllocDevice' = {}
            /\ AllocFree' = AllocFree /\ AllocUser' = AllocUser
            => [Alloc!Next]_av
<1>1. s \in AllocFree /\ AllocFree' = AllocFree \ {s}
      /\ AllocUser' = AllocUser \cup {s}
      /\ AllocDevice' = AllocDevice /\ AllocSession' = AllocSession
      => [Alloc!Next]_av
  BY DEF Alloc!Next, Alloc!Acquire, av, AllocFree, AllocUser, AllocDevice,
         AllocSession
<1>2. s \in AllocUser /\ AllocUser' = AllocUser \ {s}
      /\ AllocFree' = AllocFree \cup {s}
      /\ AllocDevice' = AllocDevice /\ AllocSession' = AllocSession
      => [Alloc!Next]_av
  BY DEF Alloc!Next, Alloc!Release, av, AllocFree, AllocUser, AllocDevice,
         AllocSession
<1>3. AllocSession /\ s \in AllocUser
      /\ AllocUser' = AllocUser \ {s}
      /\ AllocDevice' = AllocDevice \cup {s}
      /\ AllocFree' = AllocFree /\ AllocSession' = AllocSession
      => [Alloc!Next]_av
  BY DEF Alloc!Next, Alloc!Send, av, AllocFree, AllocUser, AllocDevice,
         AllocSession
<1>4. AllocSession /\ s \in AllocDevice
      /\ AllocDevice' = AllocDevice \ {s}
      /\ AllocFree' = AllocFree \cup {s}
      /\ AllocUser' = AllocUser /\ AllocSession' = AllocSession
      => [Alloc!Next]_av
  BY DEF Alloc!Next, Alloc!Reclaim, av, AllocFree, AllocUser, AllocDevice,
         AllocSession
<1>5. ~AllocSession /\ AllocSession'
      /\ AllocFree \subseteq AllocFree'
      /\ (AllocFree' \ AllocFree) \cap (AllocUser \cup AllocDevice) = {}
      /\ AllocUser' = AllocUser /\ AllocDevice' = AllocDevice
      => [Alloc!Next]_av
  BY DEF Alloc!Next, Alloc!Open, av, AllocFree, AllocUser, AllocDevice,
         AllocSession
<1>6. AllocSession /\ ~AllocSession' /\ AllocDevice' = {}
      /\ AllocFree' = AllocFree /\ AllocUser' = AllocUser
      => [Alloc!Next]_av
  BY DEF Alloc!Next, Alloc!Close, av, AllocFree, AllocUser, AllocDevice,
         AllocSession
<1>7. QED
  BY <1>1, <1>2, <1>3, <1>4, <1>5, <1>6

(* Taking one buffer out of a set whose slots are distinct takes exactly   *)
(* its slot out of the set of their slots.                                 *)
LEMMA RemoveSlot ==
  ASSUME NEW S, NEW x \in S, \A p \in S \ {x} : Slot(p) # Slot(x)
  PROVE  {Slot(p) : p \in S \ {x}} = {Slot(p) : p \in S} \ {Slot(x)}
OBVIOUS

(* The slot of a returned buffer goes on the free list, which did not      *)
(* have it.                                                                *)
LEMMA PushFree ==
  ASSUME NetifcPoolMemoryAssumption, PInv, NEW x \in Outstanding,
         eth_buffers' = <<Slot(x)>> \o eth_buffers
  PROVE  AllocFree' = AllocFree \cup {Slot(x)}
<1>1. Slot(x) \in Nat
  BY OutstandingSlot, CarvedAligned DEF PInv, TypeOK, CarvedHeaders, HeadersOf
<1>2. /\ eth_buffers \in Seq(Nat)
      /\ IsInjective(eth_buffers)
      /\ Slot(x) \notin Range(eth_buffers)
  BY DEF PInv, TypeOK
<1>3. QED
  BY <1>1, <1>2, PushInjective DEF AllocFree

(* The upper layer's buffer comes back: eth_put_buffer or a failed         *)
(* eth_send.                                                               *)
LEMMA UserReleaseRefines ==
  ASSUME NetifcPoolMemoryAssumption, PInv, NEW d \in held,
         held' = held \ {d}, inflight' = inflight, phase' = phase,
         eth_buffers' = <<Slot(d)>> \o eth_buffers
  PROVE  [Alloc!Next]_av
<1>1. d \in Outstanding
  BY DEF Outstanding
<1>2. AllocFree' = AllocFree \cup {Slot(d)}
  BY <1>1, PushFree
<1>3. \A p \in held \ {d} : Slot(p) # Slot(d)
  BY DEF PInv, Outstanding
<1>4. AllocUser' = AllocUser \ {Slot(d)}
  BY <1>3, RemoveSlot DEF AllocUser, Slot
<1>5. /\ Slot(d) \in AllocUser
      /\ AllocDevice' = AllocDevice /\ AllocSession' = AllocSession
  BY DEF AllocUser, AllocDevice, AllocSession, Slot
<1>6. QED
  BY <1>2, <1>4, <1>5, AllocStepForms

(* The device's buffer comes back through netifc_poll. *)
LEMMA DeviceReclaimRefines ==
  ASSUME NetifcPoolMemoryAssumption, PInv, NEW p \in inflight,
         phase = "open", inflight' = inflight \ {p}, held' = held,
         phase' = phase, eth_buffers' = <<Slot(p)>> \o eth_buffers
  PROVE  [Alloc!Next]_av
<1>1. p \in Outstanding
  BY DEF Outstanding
<1>2. AllocFree' = AllocFree \cup {Slot(p)}
  BY <1>1, PushFree
<1>3. \A q \in inflight \ {p} : Slot(q) # Slot(p)
  BY DEF PInv, Outstanding
<1>4. AllocDevice' = AllocDevice \ {Slot(p)}
  BY <1>3, RemoveSlot DEF AllocDevice, Slot
<1>5. /\ Slot(p) \in AllocDevice /\ AllocSession
      /\ AllocUser' = AllocUser /\ AllocSession' = AllocSession
  BY DEF AllocUser, AllocDevice, AllocSession, Slot
<1>6. QED
  BY <1>2, <1>4, <1>5, AllocStepForms

LEMMA EthPutBufferRefines ==
  ASSUME NetifcPoolMemoryAssumption, PInv, NEW d \in held, NEW off \in Offsets,
         EthPutBuffer(d, off)
  PROVE  [Alloc!Next]_av
<1>1. d \in Outstanding /\ Slot(d + off) = Slot(d)
  BY HeldOffset DEF Outstanding
<1>2. eth_buffers' = <<Slot(d)>> \o eth_buffers
  BY <1>1, PutBufferPush DEF EthPutBuffer
<1>3. QED
  BY <1>2, UserReleaseRefines DEF EthPutBuffer

LEMMA NetifcPollRefines ==
  ASSUME NetifcPoolMemoryAssumption, PInv, NEW p \in inflight, NetifcPoll(p)
  PROVE  [Alloc!Next]_av
<1>1. p \in Outstanding
  BY DEF Outstanding
<1>2. eth_buffers' = <<Slot(p)>> \o eth_buffers
  BY <1>1, PutBufferPush DEF NetifcPoll
<1>3. QED
  BY <1>2, DeviceReclaimRefines DEF NetifcPoll

(* A successful eth_send passes the slot from the upper layer to the       *)
(* device; a failed one releases it.                                       *)
LEMMA EthSendRefines ==
  ASSUME NetifcPoolMemoryAssumption, PInv, NEW d \in held, NEW off \in Offsets,
         EthSend(d, off)
  PROVE  [Alloc!Next]_av
<1>1. /\ d \in Outstanding /\ held' = held \ {d} /\ phase' = phase
      /\ Slot(d + off) = Slot(d)
  BY HeldOffset DEF EthSend, Outstanding
<1>2. CASE /\ phase = "open"
           /\ inflight' = inflight \cup {d + off}
           /\ UNCHANGED eth_buffers
  <2>1. \A p \in held \ {d} : Slot(p) # Slot(d)
    BY DEF PInv, Outstanding
  <2>2. AllocUser' = AllocUser \ {Slot(d)}
    BY <1>1, <2>1, RemoveSlot DEF AllocUser, Slot
  <2>3. AllocDevice' = AllocDevice \cup {Slot(d)}
    BY <1>1, <1>2 DEF AllocDevice, Slot
  <2>4. /\ Slot(d) \in AllocUser /\ AllocSession
        /\ AllocFree' = AllocFree /\ AllocSession' = AllocSession
    BY <1>1, <1>2 DEF AllocUser, AllocFree, AllocSession, Slot
  <2>5. QED
    BY <2>2, <2>3, <2>4, AllocStepForms
<1>3. CASE PutBuffer(d + off) /\ UNCHANGED inflight
  <2>1. eth_buffers' = <<Slot(d)>> \o eth_buffers
    BY <1>1, <1>3, PutBufferPush
  <2>2. QED
    BY <1>1, <1>3, <2>1, UserReleaseRefines
<1>4. QED
  BY <1>2, <1>3 DEF EthSend

LEMMA EthGetBufferRefines ==
  ASSUME NetifcPoolMemoryAssumption, PInv, EthGetBuffer
  PROVE  [Alloc!Next]_av
<1> DEFINE h == Head(eth_buffers)
<1>1. /\ eth_buffers \in Seq(Nat) /\ eth_buffers # <<>>
      /\ IsInjective(eth_buffers)
      /\ carved \in SUBSET Bases
  BY DEF PInv, TypeOK, EthGetBuffer
<1>2. /\ h \in Range(eth_buffers)
      /\ Range(Tail(eth_buffers)) = Range(eth_buffers) \ {h}
  BY <1>1, PopInjective
<1>3. 16 \in 0 .. SLOT_SIZE - 1 /\ DataPtr(h) = h + 16
  BY DEF DataPtr, ETH_HEADER_SIZE, SLOT_SIZE
<1>4. Slot(DataPtr(h)) = h
  BY <1>1, <1>2, <1>3, SlotOfExact DEF PInv
<1>5. AllocUser' = AllocUser \cup {h}
  BY <1>4 DEF EthGetBuffer, AllocUser, Slot
<1>6. /\ AllocFree' = AllocFree \ {h}
      /\ AllocDevice' = AllocDevice /\ AllocSession' = AllocSession
  BY <1>2 DEF EthGetBuffer, AllocFree, AllocDevice, AllocSession
<1>7. QED
  BY <1>2, <1>5, <1>6, AllocStepForms DEF AllocFree

LEMMA NetifcOpenRefines ==
  ASSUME NetifcPoolMemoryAssumption, PInv, NetifcOpen
  PROVE  [Alloc!Next]_av
<1>1. PICK base \in Bases \ carved :
        /\ IF CarveFits(base)
           THEN /\ eth_buffers' =
                     [i \in 1 .. SLOTS_PER_CARVE |->
                        MaskPtr(SlotBase(base, SLOTS_PER_CARVE - i))]
                     \o eth_buffers
                /\ UNCHANGED halted
           ELSE halted' = TRUE /\ UNCHANGED eth_buffers
  BY DEF NetifcOpen
<1>2. /\ Carving(base) \in Seq(Nat)
      /\ IsInjective(Carving(base))
      /\ Range(Carving(base)) = Headers(base)
      /\ CarveFits(base)
  BY CarveSeq
<1>3. eth_buffers' = Carving(base) \o eth_buffers
  BY <1>1, <1>2 DEF Carving
<1>4. /\ carved \in SUBSET Bases
      /\ eth_buffers \in Seq(Nat)
      /\ IsInjective(eth_buffers)
      /\ Range(eth_buffers) \subseteq CarvedHeaders
  BY DEF PInv, TypeOK
<1>5. Headers(base) \cap CarvedHeaders = {}
  BY <1>4, HeadersFresh DEF CarvedHeaders, HeadersOf
<1>6. AllocFree' = Headers(base) \cup AllocFree
  BY <1>2, <1>3, <1>4, <1>5, ConcatInjective DEF AllocFree
<1>7. \A p \in Outstanding : Slot(p) \in CarvedHeaders
  BY OutstandingSlot
<1>8. Headers(base) \cap (AllocUser \cup AllocDevice) = {}
  BY <1>5, <1>7 DEF AllocUser, AllocDevice, Outstanding, Slot
<1>9. /\ ~AllocSession /\ AllocSession'
      /\ AllocUser' = AllocUser /\ AllocDevice' = AllocDevice
  BY DEF NetifcOpen, AllocUser, AllocDevice, AllocSession
<1>10. QED
  BY <1>6, <1>8, <1>9, AllocStepForms

LEMMA NetifcCloseRefines ==
  ASSUME NetifcClose
  PROVE  [Alloc!Next]_av
<1>1. /\ AllocSession /\ ~AllocSession' /\ AllocDevice' = {}
      /\ AllocFree' = AllocFree /\ AllocUser' = AllocUser
  BY DEF NetifcClose, AllocUser, AllocDevice, AllocFree, AllocSession
<1>2. QED
  BY <1>1, AllocStepForms

LEMMA InitRefines ==
  ASSUME Init
  PROVE  Alloc!Init
<1>1. /\ AllocFree = {} /\ AllocUser = {} /\ AllocDevice = {}
      /\ ~AllocSession
  BY DEF Init, AllocFree, AllocUser, AllocDevice, AllocSession, Range
<1>2. QED
  BY <1>1 DEF Alloc!Init, AllocFree, AllocUser, AllocDevice, AllocSession

LEMMA NextRefines ==
  ASSUME NetifcPoolMemoryAssumption, PInv, [Next]_vars
  PROVE  [Alloc!Next]_av
<1>1. CASE NetifcOpen
  BY <1>1, NetifcOpenRefines
<1>2. CASE EthGetBuffer
  BY <1>2, EthGetBufferRefines
<1>3. CASE \E d \in held, off \in Offsets :
             EthPutBuffer(d, off) \/ EthSend(d, off)
  BY <1>3, EthPutBufferRefines, EthSendRefines
<1>4. CASE \E p \in inflight : NetifcPoll(p)
  BY <1>4, NetifcPollRefines
<1>5. CASE NetifcClose
  BY <1>5, NetifcCloseRefines
<1>6. CASE UNCHANGED vars
  BY <1>6 DEF vars, av, AllocUser, AllocDevice, AllocFree, AllocSession
<1>7. QED
  BY <1>1, <1>2, <1>3, <1>4, <1>5, <1>6 DEF Next

(* The pool code, across any number of sessions, implements the allocator *)
(* contract: netifc_open adds only slots nobody holds, eth_get_buffer      *)
(* acquires a free slot, eth_put_buffer and a failed eth_send give the     *)
(* upper layer's slot back, a successful eth_send passes it to the device, *)
(* netifc_poll gives the device's slot back, and only netifc_close loses   *)
(* slots, those the device held.                                           *)
THEOREM PoolAllocRefinement == Spec => AllocSpec
<1>1. Init => Alloc!Init
  BY InitRefines
<1>2. PInv /\ [Next]_vars => [Alloc!Next]_av
  BY NextRefines, NetifcPoolMemoryAssumption
<1>3. Init => PInv
  BY InitPInv
<1>4. PInv /\ [Next]_vars => PInv'
  BY NextPInv, NetifcPoolMemoryAssumption
<1>5. QED
  BY <1>1, <1>2, <1>3, <1>4, PTL
  DEF Spec, AllocSpec, Alloc!Spec, Alloc!vars, av, AllocFree, AllocUser,
      AllocDevice, AllocSession
==============================================================================
