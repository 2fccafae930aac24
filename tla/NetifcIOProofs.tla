--------------------------- MODULE NetifcIOProofs ---------------------------
(***************************************************************************)
(* Proofs about NetifcIO for every value of the constants: the type        *)
(* invariant, and the ownership partition of the buffer pool when the      *)
(* upper layer only releases what it holds.                                *)
(***************************************************************************)
EXTENDS NetifcIO, SequenceTheorems, TLAPS

-----------------------------------------------------------------------------
(* Facts about the range and injectivity of the sequence operations the    *)
(* free list and the device queues are built from.                         *)

LEMMA RangeEmpty == Range(<<>>) = {}
BY DEF Range

LEMMA ConsRange ==
  ASSUME NEW S, NEW s \in Seq(S), NEW x \in S
  PROVE  /\ <<x>> \o s \in Seq(S)
         /\ Range(<<x>> \o s) = Range(s) \cup {x}
<1>1. <<x>> \in Seq(S)
  OBVIOUS
<1>2. Range(<<x>>) = {x}
  BY DEF Range
<1>3. Range(<<x>> \o s) = Range(<<x>>) \cup Range(s)
  BY <1>1, RangeConcatenation
<1>. QED
  BY <1>1, <1>2, <1>3, ConcatProperties

LEMMA ConsInjective ==
  ASSUME NEW S, NEW s \in Seq(S), NEW x \in S,
         IsInjective(s), x \notin Range(s)
  PROVE  IsInjective(<<x>> \o s)
<1>1. /\ <<x>> \o s \in Seq(S)
      /\ Len(<<x>> \o s) = Len(s) + 1
      /\ \A i \in 1 .. Len(s) + 1 : (<<x>> \o s)[i] = IF i <= 1 THEN x ELSE s[i - 1]
  BY ConcatProperties
<1>2. \A i \in 1 .. Len(s) : s[i] # x
  BY DEF Range
<1>. QED
  BY <1>1, <1>2 DEF IsInjective

LEMMA AppendRange ==
  ASSUME NEW S, NEW s \in Seq(S), NEW x \in S
  PROVE  /\ Append(s, x) \in Seq(S)
         /\ Range(Append(s, x)) = Range(s) \cup {x}
<1>1. <<x>> \in Seq(S)
  OBVIOUS
<1>2. Range(<<x>>) = {x}
  BY DEF Range
<1>3. Append(s, x) = s \o <<x>>
  BY AppendIsConcat
<1>4. Range(s \o <<x>>) = Range(s) \cup Range(<<x>>)
  BY <1>1, RangeConcatenation
<1>. QED
  BY <1>2, <1>3, <1>4, AppendProperties

LEMMA AppendKeepsInjective ==
  ASSUME NEW S, NEW s \in Seq(S), NEW x \in S,
         IsInjective(s), x \notin Range(s)
  PROVE  IsInjective(Append(s, x))
<1>1. \A i \in 1 .. Len(s) : s[i] # x
  BY DEF Range
<1>2. /\ Append(s, x) \in Seq(S)
      /\ Len(Append(s, x)) = Len(s) + 1
      /\ \A i \in 1 .. Len(s) : Append(s, x)[i] = s[i]
      /\ Append(s, x)[Len(s) + 1] = x
  BY AppendProperties
<1>3. DOMAIN Append(s, x) = 1 .. Len(s) + 1
  BY <1>2
<1>4. DOMAIN s = 1 .. Len(s)
  OBVIOUS
<1>. QED
  BY <1>1, <1>2, <1>3, <1>4 DEF IsInjective

LEMMA TailRange ==
  ASSUME NEW S, NEW s \in Seq(S), s # <<>>, IsInjective(s)
  PROVE  /\ Tail(s) \in Seq(S)
         /\ Head(s) \in S
         /\ Head(s) \in Range(s)
         /\ IsInjective(Tail(s))
         /\ Range(Tail(s)) = Range(s) \ {Head(s)}
<1>1. /\ Head(s) \in S
      /\ Tail(s) \in Seq(S)
      /\ Len(Tail(s)) = Len(s) - 1
      /\ \A i \in 1 .. Len(Tail(s)) : Tail(s)[i] = s[i + 1]
  BY HeadTailProperties
<1>2. Head(s) = s[1] /\ Len(s) >= 1
  OBVIOUS
<1>3. Head(s) \in Range(s)
  BY <1>2 DEF Range
<1>4. IsInjective(Tail(s))
  BY <1>1 DEF IsInjective
<1>5. Range(Tail(s)) = Range(s) \ {Head(s)}
  <2>1. DOMAIN Tail(s) = 1 .. Len(s) - 1 /\ DOMAIN s = 1 .. Len(s)
    BY <1>1
  <2>2. ASSUME NEW i \in 1 .. Len(s) - 1
        PROVE  Tail(s)[i] \in Range(s) \ {Head(s)}
    <3>1. Tail(s)[i] = s[i + 1] /\ i + 1 \in DOMAIN s /\ i + 1 # 1
      BY <1>1, <2>1
    <3>2. s[i + 1] # s[1]
      BY <3>1, <2>1 DEF IsInjective
    <3>. QED
      BY <3>1, <3>2, <1>2 DEF Range
  <2>3. ASSUME NEW j \in 1 .. Len(s), s[j] # Head(s)
        PROVE  s[j] \in Range(Tail(s))
    <3>1. j # 1
      BY <2>3, <1>2
    <3>2. j - 1 \in DOMAIN Tail(s) /\ Tail(s)[j - 1] = s[j]
      BY <3>1, <2>1, <1>1
    <3>. QED
      BY <3>2 DEF Range
  <2>. QED
    BY <2>1, <2>2, <2>3 DEF Range
<1>. QED
  BY <1>1, <1>3, <1>4, <1>5

-----------------------------------------------------------------------------
(* Type correctness.  TypeOK alone is not inductive: that rxDelivered stays *)
(* within 0 .. MaxRx rests on every delivered frame having arrived first.   *)

TypeInv ==
  /\ TypeOK
  /\ rxDelivered + Len(rxq) = rxArrived

LEMMA PutBufferType ==
  ASSUME TypeOK, NEW p, PutBuffer(p)
  PROVE  eth_buffers' \in Seq(Slots) /\ halted' \in BOOLEAN
<1>1. CASE HasMagic(p)
  <2>1. p \in Slots
    BY <1>1 DEF HasMagic
  <2>2. eth_buffers' = <<p>> \o eth_buffers /\ halted' = FALSE
    BY <1>1 DEF PutBuffer
  <2>3. eth_buffers \in Seq(Slots)
    BY DEF TypeOK
  <2>4. <<p>> \o eth_buffers \in Seq(Slots)
    BY <2>1, <2>3, ConsRange
  <2>. QED
    BY <2>2, <2>4
<1>2. CASE ~HasMagic(p)
  BY <1>2 DEF PutBuffer, TypeOK
<1>. QED
  BY <1>1, <1>2

(* The free list the seeding loop of netifc_open leaves behind. *)
LEMMA SeededList ==
  /\ [k \in 1 .. NumSlots |-> NumSlots - k] \in Seq(Slots)
  /\ Len([k \in 1 .. NumSlots |-> NumSlots - k]) = NumSlots
<1>1. [k \in 1 .. NumSlots |-> NumSlots - k] \in [1 .. NumSlots -> Slots]
  BY NetifcIOAssumption DEF Slots
<1>2. NumSlots \in Nat
  BY NetifcIOAssumption
<1>3. [k \in 1 .. NumSlots |-> NumSlots - k] \in Seq(Slots)
  BY <1>1, <1>2, SeqDef
<1>. QED
  BY <1>3, <1>2, LenProperties

LEMMA InitTypeInv == Init => TypeInv
<1> SUFFICES ASSUME Init PROVE TypeInv
  OBVIOUS
<1>1. eth_buffers \in Seq(Slots)
  BY SeededList DEF Init
<1>2. <<>> \in Seq(Slots) /\ <<>> \in Seq(RxLens) /\ Len(<<>>) = 0
  BY EmptySeq
<1>3. TypeOK
  <2>1. txq \in Seq(Slots) /\ recycled \in Seq(Slots) /\ rxq \in Seq(RxLens)
    BY <1>2 DEF Init
  <2>2. rxArrived \in 0 .. MaxRx /\ rxDelivered \in 0 .. MaxRx
    BY NetifcIOAssumption DEF Init
  <2>3. upper \subseteq Slots /\ halted \in BOOLEAN
    BY DEF Init
  <2>. QED
    BY <1>1, <2>1, <2>2, <2>3 DEF TypeOK
<1>4. rxDelivered + Len(rxq) = rxArrived
  BY <1>2 DEF Init
<1>. QED
  BY <1>3, <1>4 DEF TypeInv

LEMMA NextTypeInv == TypeInv /\ [Next]_vars => TypeInv'
<1> USE NetifcIOAssumption DEF TypeInv, TypeOK
<1>1. ASSUME TypeInv, NEW sz \in GetSizes, EthGetBuffer(sz) PROVE TypeInv'
  BY <1>1, HeadTailProperties DEF EthGetBuffer
<1>2. ASSUME TypeInv, NEW p \in ReleaseCandidates, EthPutBuffer(p) PROVE TypeInv'
  BY <1>2, PutBufferType DEF EthPutBuffer
<1>3. ASSUME TypeInv, NEW p \in upper, EthSend(p) PROVE TypeInv'
  <2> USE <1>3
  <2>1. CASE TxRoom /\ txq' = Append(txq, p) /\ UNCHANGED <<eth_buffers, halted>>
    BY <1>3, <2>1, AppendProperties DEF EthSend
  <2>2. CASE PutBuffer(p) /\ UNCHANGED txq
    BY <1>3, <2>2, PutBufferType DEF EthSend
  <2>. QED
    BY <1>3, <2>1, <2>2 DEF EthSend
<1>4. ASSUME TypeInv, NetifcPoll PROVE TypeInv'
  <2> USE <1>4
  <2>1. eth_buffers' \in Seq(Slots) /\ recycled' \in Seq(Slots) /\ halted' \in BOOLEAN
    <3>1. CASE recycled = <<>>
      BY <1>4, <3>1 DEF NetifcPoll, Reclaim
    <3>2. CASE recycled # <<>>
      <4>1. recycled' = Tail(recycled) /\ PutBuffer(Head(recycled))
        BY <1>4, <3>2 DEF NetifcPoll, Reclaim
      <4>2. Tail(recycled) \in Seq(Slots)
        BY <3>2, HeadTailProperties
      <4>3. eth_buffers' \in Seq(Slots) /\ halted' \in BOOLEAN
        BY <4>1, PutBufferType
      <4>. QED
        BY <4>1, <4>2, <4>3
    <3>. QED
      BY <3>1, <3>2
  <2>2. rxq' \in Seq(RxLens) /\ rxDelivered' \in 0 .. MaxRx
        /\ rxDelivered' + Len(rxq') = rxArrived'
    <3>1. CASE rxq # <<>> /\ Head(rxq) <= RX_BUFFER_SIZE
      <4>1. rxq' = Tail(rxq) /\ rxDelivered' = rxDelivered + 1 /\ rxArrived' = rxArrived
        BY <1>4, <3>1 DEF NetifcPoll, ReceiveOne
      <4>2. Tail(rxq) \in Seq(RxLens) /\ Len(Tail(rxq)) = Len(rxq) - 1
        BY <3>1, HeadTailProperties
      <4>3. Len(rxq) \in Nat \ {0}
        BY <3>1, EmptySeq
      <4>4. rxDelivered + 1 \in 0 .. MaxRx
        BY <4>3
      <4>5. rxq' \in Seq(RxLens)
        BY <4>1, <4>2
      <4>6. rxDelivered' \in 0 .. MaxRx
        BY <4>1, <4>4
      <4>7. Len(rxq') = Len(rxq) - 1
        BY <4>1, <4>2
      <4>9. rxDelivered + Len(rxq) = rxArrived
        BY <1>4 DEF TypeInv
      <4>10. rxDelivered \in Nat
        BY <1>4 DEF TypeInv, TypeOK
      <4>8. rxDelivered' + Len(rxq') = rxArrived'
        BY ONLY <4>1, <4>3, <4>7, <4>9, <4>10
      <4>. QED
        BY <4>5, <4>6, <4>8
    <3>2. CASE ~(rxq # <<>> /\ Head(rxq) <= RX_BUFFER_SIZE)
      BY <1>4, <3>2 DEF NetifcPoll, ReceiveOne
    <3>. QED
      BY <3>1, <3>2
  <2>. QED
    BY <1>4, <2>1, <2>2 DEF NetifcPoll
<1>5. ASSUME TypeInv, TxComplete PROVE TypeInv'
  <2> USE <1>5
  <2>1. txq' = Tail(txq) /\ recycled' = Append(recycled, Head(txq)) /\ txq # <<>>
    BY <1>5 DEF TxComplete
  <2>2. Tail(txq) \in Seq(Slots) /\ Head(txq) \in Slots
    BY <2>1, HeadTailProperties
  <2>3. recycled' \in Seq(Slots)
    BY <2>1, <2>2, AppendProperties
  <2>. QED
    BY <1>5, <2>1, <2>2, <2>3 DEF TxComplete
<1>6. ASSUME TypeInv, NEW len \in RxLens, FrameArrives(len) PROVE TypeInv'
  <2>1. rxq' = Append(rxq, len) /\ rxArrived' = rxArrived + 1 /\ rxArrived < MaxRx
        /\ UNCHANGED <<eth_buffers, upper, txq, recycled, rxDelivered, halted>>
    BY <1>6 DEF FrameArrives
  <2>2. rxq \in Seq(RxLens) /\ rxArrived \in 0 .. MaxRx /\ rxDelivered \in Nat
        /\ rxDelivered + Len(rxq) = rxArrived
    BY <1>6 DEF TypeInv, TypeOK
  <2>3. Append(rxq, len) \in Seq(RxLens) /\ Len(Append(rxq, len)) = Len(rxq) + 1
    BY <2>2, AppendProperties
  <2>4. Len(rxq) \in Nat
    BY <2>2, LenProperties
  <2>5. rxArrived' \in 0 .. MaxRx /\ rxDelivered' + Len(rxq') = rxArrived'
    BY ONLY <2>1, <2>2, <2>3, <2>4, NetifcIOAssumption
  <2>. QED
    BY <1>6, <2>1, <2>3, <2>5 DEF TypeInv, TypeOK
<1>7. ASSUME TypeInv, UNCHANGED vars PROVE TypeInv'
  BY <1>7 DEF vars
<1>. QED
  BY <1>1, <1>2, <1>3, <1>4, <1>5, <1>6, <1>7 DEF Next

(* Whatever the upper layer passes to eth_put_buffer, the pool and the     *)
(* device queues only ever hold pool slots and the counters stay in range. *)
THEOREM TypeCorrect == Spec => []TypeOK
<1>1. TypeInv => TypeOK
  BY DEF TypeInv
<1>. QED
  BY <1>1, InitTypeInv, NextTypeInv, PTL DEF Spec

-----------------------------------------------------------------------------
(* The ownership partition.  It needs the type invariant and that no       *)
(* eth_put_buffer has hung: with a well-behaved upper layer every pointer  *)
(* reaching eth_put_buffer is a pool slot, so halted stays FALSE.          *)

PartInv ==
  /\ TypeInv
  /\ ~halted
  /\ OwnershipPartition

(* The four owners of the slots, as sets. *)
PoolFree == Range(eth_buffers)
TxSet    == Range(txq)
RecSet   == Range(recycled)
PoolOut  == upper \cup DeviceOwned

(* The owners partition the slots. *)
Cells(F, U, T, R) ==
  /\ F \cup U \cup T \cup R = Slots
  /\ F \cap U = {}
  /\ F \cap (T \cup R) = {}
  /\ U \cap (T \cup R) = {}
  /\ T \cap R = {}

LEMMA PartitionAsCells ==
  OwnershipPartition <=>
    /\ IsInjective(eth_buffers)
    /\ IsInjective(txq)
    /\ IsInjective(recycled)
    /\ Cells(PoolFree, upper, TxSet, RecSet)
BY DEF OwnershipPartition, Cells, DeviceOwned, PoolFree, TxSet, RecSet

(* Every step moves one slot from one owner to another. *)
LEMMA CellsMove ==
  ASSUME NEW F, NEW U, NEW T, NEW R, NEW x, Cells(F, U, T, R)
  PROVE  /\ x \in F => Cells(F \ {x}, U \cup {x}, T, R)
         /\ x \in U => Cells(F \cup {x}, U \ {x}, T, R)
         /\ x \in U => Cells(F, U \ {x}, T \cup {x}, R)
         /\ x \in T => Cells(F, U, T \ {x}, R \cup {x})
         /\ x \in R => Cells(F \cup {x}, U, T, R \ {x})
BY DEF Cells

(* The unprimed facts every step lemma starts from. *)
LEMMA PartFacts ==
  ASSUME PartInv
  PROVE  /\ eth_buffers \in Seq(Slots)
         /\ txq \in Seq(Slots)
         /\ recycled \in Seq(Slots)
         /\ upper \subseteq Slots
         /\ ~halted
         /\ IsInjective(eth_buffers)
         /\ IsInjective(txq)
         /\ IsInjective(recycled)
         /\ Cells(PoolFree, upper, TxSet, RecSet)
<1>1. TypeOK /\ ~halted /\ OwnershipPartition
  BY DEF PartInv, TypeInv
<1>. QED
  BY <1>1, PartitionAsCells DEF TypeOK

(* Pushing a slot that is not on the free list. *)
LEMMA PushStep ==
  ASSUME PartInv, NEW p \in Slots, p \notin PoolFree, PutBuffer(p)
  PROVE  /\ eth_buffers' = <<p>> \o eth_buffers
         /\ halted' = FALSE
         /\ PoolFree' = PoolFree \cup {p}
         /\ IsInjective(eth_buffers')
<1>1. eth_buffers' = <<p>> \o eth_buffers /\ halted' = FALSE
  BY DEF PutBuffer, HasMagic
<1>2. eth_buffers \in Seq(Slots) /\ IsInjective(eth_buffers)
  BY PartFacts
<1>3. Range(<<p>> \o eth_buffers) = Range(eth_buffers) \cup {p}
  BY <1>2, ConsRange
<1>4. IsInjective(<<p>> \o eth_buffers)
  BY <1>2, ConsInjective DEF PoolFree
<1>. QED
  BY <1>1, <1>3, <1>4 DEF PoolFree

(* What each action does to the four owners. *)
LEMMA GetStep ==
  ASSUME PartInv, NEW sz, EthGetBuffer(sz)
  PROVE  LET h == Head(eth_buffers) IN
         /\ h \in PoolFree
         /\ PoolFree' = PoolFree \ {h}
         /\ upper' = upper \cup {h}
         /\ IsInjective(eth_buffers')
         /\ UNCHANGED <<txq, recycled, halted>>
<1>1. eth_buffers # <<>> /\ eth_buffers' = Tail(eth_buffers)
      /\ upper' = upper \cup {Head(eth_buffers)}
      /\ UNCHANGED <<txq, recycled, halted>>
  BY DEF EthGetBuffer
<1>2. eth_buffers \in Seq(Slots) /\ IsInjective(eth_buffers)
  BY PartFacts
<1>3. /\ Head(eth_buffers) \in Range(eth_buffers)
      /\ IsInjective(Tail(eth_buffers))
      /\ Range(Tail(eth_buffers)) = Range(eth_buffers) \ {Head(eth_buffers)}
  BY <1>1, <1>2, TailRange
<1>. QED
  BY <1>1, <1>3 DEF PoolFree

LEMMA PutStep ==
  ASSUME PartInv, ~CallerMisuse, NEW p \in ReleaseCandidates, EthPutBuffer(p)
  PROVE  /\ p \in upper
         /\ PoolFree' = PoolFree \cup {p}
         /\ upper' = upper \ {p}
         /\ IsInjective(eth_buffers')
         /\ halted' = FALSE
         /\ UNCHANGED <<txq, recycled>>
<1>1. p \in upper
  BY DEF ReleaseCandidates
<1>2. p \in Slots /\ p \notin PoolFree
  BY <1>1, PartFacts DEF Cells
<1>3. PutBuffer(p) /\ upper' = upper \ {p} /\ UNCHANGED <<txq, recycled>>
  BY DEF EthPutBuffer
<1>. QED
  BY <1>1, <1>2, <1>3, PushStep, ZenonT(30)

LEMMA SendStep ==
  ASSUME PartInv, NEW p \in upper, EthSend(p)
  PROVE  /\ upper' = upper \ {p}
         /\ UNCHANGED recycled
         /\ \/ /\ TxSet' = TxSet \cup {p}
               /\ IsInjective(txq')
               /\ UNCHANGED <<eth_buffers, halted>>
            \/ /\ PoolFree' = PoolFree \cup {p}
               /\ IsInjective(eth_buffers')
               /\ halted' = FALSE
               /\ UNCHANGED txq
<1>1. p \in Slots /\ p \notin PoolFree /\ p \notin TxSet
  BY PartFacts DEF Cells
<1>2. upper' = upper \ {p} /\ UNCHANGED recycled
  BY DEF EthSend
<1>3. CASE TxRoom /\ txq' = Append(txq, p) /\ UNCHANGED <<eth_buffers, halted>>
  <2>1. txq \in Seq(Slots) /\ IsInjective(txq)
    BY PartFacts
  <2>2. Range(Append(txq, p)) = Range(txq) \cup {p}
    BY <1>1, <2>1, AppendRange
  <2>3. IsInjective(Append(txq, p))
    BY <1>1, <2>1, AppendKeepsInjective DEF TxSet
  <2>. QED
    BY <1>2, <1>3, <2>2, <2>3 DEF TxSet
<1>4. CASE PutBuffer(p) /\ UNCHANGED txq
  BY <1>1, <1>2, <1>4, PushStep, ZenonT(30)
<1>. QED
  BY <1>3, <1>4, Zenon DEF EthSend

LEMMA PollStep ==
  ASSUME PartInv, NetifcPoll
  PROVE  /\ UNCHANGED <<upper, txq>>
         /\ \/ UNCHANGED <<eth_buffers, recycled, halted>>
            \/ LET h == Head(recycled) IN
               /\ h \in RecSet
               /\ RecSet' = RecSet \ {h}
               /\ IsInjective(recycled')
               /\ PoolFree' = PoolFree \cup {h}
               /\ IsInjective(eth_buffers')
               /\ halted' = FALSE
<1>1. UNCHANGED <<upper, txq>> /\ Reclaim
  BY DEF NetifcPoll
<1>2. CASE recycled = <<>>
  BY <1>1, <1>2 DEF Reclaim
<1>3. CASE recycled # <<>>
  <2> DEFINE h == Head(recycled)
  <2>1. recycled' = Tail(recycled) /\ PutBuffer(h)
    BY <1>1, <1>3 DEF Reclaim
  <2>2. recycled \in Seq(Slots) /\ IsInjective(recycled)
    BY PartFacts
  <2>3. /\ h \in Slots
        /\ h \in Range(recycled)
        /\ IsInjective(Tail(recycled))
        /\ Range(Tail(recycled)) = Range(recycled) \ {h}
    BY <1>3, <2>2, TailRange
  <2>4. h \notin PoolFree
    BY <2>3, PartFacts DEF Cells, RecSet
  <2>5. PoolFree' = PoolFree \cup {h} /\ IsInjective(eth_buffers') /\ halted' = FALSE
    BY <2>1, <2>3, <2>4, PushStep, ZenonT(30)
  <2>. QED
    BY <1>1, <2>1, <2>3, <2>5 DEF RecSet
<1>. QED
  BY <1>1, <1>2, <1>3, Zenon

LEMMA CompleteStep ==
  ASSUME PartInv, TxComplete
  PROVE  LET h == Head(txq) IN
         /\ h \in TxSet
         /\ TxSet' = TxSet \ {h}
         /\ RecSet' = RecSet \cup {h}
         /\ IsInjective(txq')
         /\ IsInjective(recycled')
         /\ UNCHANGED <<eth_buffers, upper, halted>>
<1> DEFINE h == Head(txq)
<1>1. txq # <<>> /\ txq' = Tail(txq) /\ recycled' = Append(recycled, h)
      /\ UNCHANGED <<eth_buffers, upper, halted>>
  BY DEF TxComplete
<1>2. txq \in Seq(Slots) /\ IsInjective(txq)
      /\ recycled \in Seq(Slots) /\ IsInjective(recycled)
  BY PartFacts
<1>3. /\ h \in Slots
      /\ h \in Range(txq)
      /\ IsInjective(Tail(txq))
      /\ Range(Tail(txq)) = Range(txq) \ {h}
  BY <1>1, <1>2, TailRange
<1>4. h \notin Range(recycled)
  BY <1>3, PartFacts DEF Cells, TxSet, RecSet
<1>5. Range(Append(recycled, h)) = Range(recycled) \cup {h}
      /\ IsInjective(Append(recycled, h))
  BY <1>2, <1>3, <1>4, AppendRange, AppendKeepsInjective
<1>. QED
  BY <1>1, <1>3, <1>5 DEF TxSet, RecSet

LEMMA InitPartInv == Init => PartInv
<1> SUFFICES ASSUME Init PROVE PartInv
  OBVIOUS
<1>1. TypeInv
  BY InitTypeInv
<1>2. IsInjective(eth_buffers)
  BY NetifcIOAssumption DEF Init, IsInjective
<1>3. Range(eth_buffers) = Slots
  <2>1. \A k \in 1 .. NumSlots : eth_buffers[k] = NumSlots - k
    BY DEF Init
  <2>2. \A j \in Slots : NumSlots - j \in 1 .. NumSlots /\ NumSlots - (NumSlots - j) = j
    BY NetifcIOAssumption DEF Slots
  <2>3. \A k \in 1 .. NumSlots : NumSlots - k \in Slots
    BY NetifcIOAssumption DEF Slots
  <2>. QED
    BY <2>1, <2>2, <2>3 DEF Init, Range
<1>4. IsInjective(txq) /\ IsInjective(recycled)
  BY DEF Init, IsInjective
<1>5. Cells(PoolFree, upper, TxSet, RecSet)
  <2>1. TxSet = {} /\ RecSet = {} /\ upper = {}
    BY RangeEmpty DEF Init, TxSet, RecSet
  <2>2. PoolFree = Slots
    BY <1>3 DEF PoolFree
  <2>. QED
    BY <2>1, <2>2 DEF Cells
<1>6. ~halted
  BY DEF Init
<1>. QED
  BY <1>1, <1>2, <1>4, <1>5, <1>6, PartitionAsCells DEF PartInv

LEMMA NextPartInv ==
  ASSUME ~CallerMisuse
  PROVE  PartInv /\ [Next]_vars => PartInv'
<1> SUFFICES ASSUME PartInv, [Next]_vars PROVE PartInv'
  OBVIOUS
<1>1. TypeInv'
  BY NextTypeInv DEF PartInv
<1>2. /\ Cells(PoolFree, upper, TxSet, RecSet)
      /\ IsInjective(eth_buffers) /\ IsInjective(txq) /\ IsInjective(recycled)
  BY PartFacts
<1>3. SUFFICES /\ ~halted'
               /\ IsInjective(eth_buffers')
               /\ IsInjective(txq')
               /\ IsInjective(recycled')
               /\ Cells(PoolFree', upper', TxSet', RecSet')
  BY <1>1 DEF PartInv, OwnershipPartition, Cells, DeviceOwned, PoolFree, TxSet, RecSet
<1>4. CASE \E sz \in GetSizes : EthGetBuffer(sz)
  <2>1. PICK sz \in GetSizes : EthGetBuffer(sz)
    BY <1>4
  <2> DEFINE h == Head(eth_buffers)
  <2>2. /\ h \in PoolFree
        /\ PoolFree' = PoolFree \ {h}
        /\ upper' = upper \cup {h}
        /\ IsInjective(eth_buffers')
        /\ UNCHANGED <<txq, recycled, halted>>
    BY <2>1, GetStep, Zenon
  <2>3. Cells(PoolFree \ {h}, upper \cup {h}, TxSet, RecSet)
    BY <1>2, <2>2, CellsMove, Zenon
  <2>. QED
    BY <1>2, <2>2, <2>3, PartFacts DEF TxSet, RecSet
<1>5. CASE \E p \in ReleaseCandidates : EthPutBuffer(p)
  <2>1. PICK p \in ReleaseCandidates : EthPutBuffer(p)
    BY <1>5
  <2>2. /\ p \in upper
        /\ PoolFree' = PoolFree \cup {p}
        /\ upper' = upper \ {p}
        /\ IsInjective(eth_buffers')
        /\ halted' = FALSE
        /\ UNCHANGED <<txq, recycled>>
    BY <2>1, PutStep, Zenon
  <2>3. Cells(PoolFree \cup {p}, upper \ {p}, TxSet, RecSet)
    BY <1>2, <2>2, CellsMove, Zenon
  <2>. QED
    BY <1>2, <2>2, <2>3 DEF TxSet, RecSet
<1>6. CASE \E p \in upper : EthSend(p)
  <2>1. PICK p \in upper : EthSend(p)
    BY <1>6
  <2>2. /\ upper' = upper \ {p}
        /\ UNCHANGED recycled
        /\ \/ /\ TxSet' = TxSet \cup {p}
              /\ IsInjective(txq')
              /\ UNCHANGED <<eth_buffers, halted>>
           \/ /\ PoolFree' = PoolFree \cup {p}
              /\ IsInjective(eth_buffers')
              /\ halted' = FALSE
              /\ UNCHANGED txq
    BY <2>1, SendStep, Zenon
  <2>3. /\ Cells(PoolFree, upper \ {p}, TxSet \cup {p}, RecSet)
        /\ Cells(PoolFree \cup {p}, upper \ {p}, TxSet, RecSet)
    BY <1>2, <2>1, CellsMove, Zenon
  <2>4. ~halted
    BY PartFacts
  <2>. QED
    BY <1>2, <2>2, <2>3, <2>4 DEF TxSet, RecSet, PoolFree
<1>7. CASE NetifcPoll
  <2> DEFINE h == Head(recycled)
  <2>1. /\ UNCHANGED <<upper, txq>>
        /\ \/ UNCHANGED <<eth_buffers, recycled, halted>>
           \/ /\ h \in RecSet
              /\ RecSet' = RecSet \ {h}
              /\ IsInjective(recycled')
              /\ PoolFree' = PoolFree \cup {h}
              /\ IsInjective(eth_buffers')
              /\ halted' = FALSE
    BY <1>7, PollStep, Zenon
  <2>2. h \in RecSet => Cells(PoolFree \cup {h}, upper, TxSet, RecSet \ {h})
    BY <1>2, CellsMove, Zenon
  <2>3. ~halted
    BY PartFacts
  <2>. QED
    BY <1>2, <2>1, <2>2, <2>3 DEF TxSet, RecSet, PoolFree
<1>8. CASE TxComplete
  <2> DEFINE h == Head(txq)
  <2>1. /\ h \in TxSet
        /\ TxSet' = TxSet \ {h}
        /\ RecSet' = RecSet \cup {h}
        /\ IsInjective(txq')
        /\ IsInjective(recycled')
        /\ UNCHANGED <<eth_buffers, upper, halted>>
    BY <1>8, CompleteStep, Zenon
  <2>2. Cells(PoolFree, upper, TxSet \ {h}, RecSet \cup {h})
    BY <1>2, <2>1, CellsMove, Zenon
  <2>3. ~halted
    BY PartFacts
  <2>. QED
    BY <1>2, <2>1, <2>2, <2>3 DEF PoolFree
<1>9. CASE \E len \in RxLens : FrameArrives(len)
  <2>1. UNCHANGED <<eth_buffers, upper, txq, recycled, halted>>
    BY <1>9 DEF FrameArrives
  <2>2. ~halted
    BY PartFacts
  <2>. QED
    BY <1>2, <2>1, <2>2 DEF PoolFree, TxSet, RecSet
<1>10. CASE UNCHANGED vars
  <2>1. ~halted
    BY PartFacts
  <2>. QED
    BY <1>2, <1>10, <2>1 DEF vars, PoolFree, TxSet, RecSet
<1>. QED
  BY <1>4, <1>5, <1>6, <1>7, <1>8, <1>9, <1>10 DEF Next

(* With an upper layer that releases only the buffers it holds, no buffer  *)
(* ever has two owners among the free list, the upper layer, the transmit  *)
(* ring and the recycle queue, and none is lost: eth_send and netifc_poll  *)
(* together return every buffer exactly once.                              *)
THEOREM PoolPartition ==
  ASSUME ~CallerMisuse
  PROVE  Spec => []OwnershipPartition
<1>1. PartInv => OwnershipPartition
  BY DEF PartInv
<1>2. Init => PartInv
  BY InitPartInv
<1>3. PartInv /\ [Next]_vars => PartInv'
  BY NextPartInv
<1>. QED
  BY <1>1, <1>2, <1>3, PTL DEF Spec

-----------------------------------------------------------------------------
(* Refinement of the pool contract.  A step of the code is an Acquire, a   *)
(* Release or invisible; which one follows from the partition invariant.   *)

(* The three forms a step of the pool contract takes, in terms of the      *)
(* refinement mapping.                                                     *)
LEMMA PoolStepForms ==
  ASSUME NEW s \in Slots
  PROVE  /\ s \in PoolFree /\ PoolFree' = PoolFree \ {s}
            /\ PoolOut' = PoolOut \cup {s} => [Pool!Next]_<<PoolFree, PoolOut>>
         /\ s \in PoolOut /\ PoolOut' = PoolOut \ {s}
            /\ PoolFree' = PoolFree \cup {s} => [Pool!Next]_<<PoolFree, PoolOut>>
         /\ PoolFree' = PoolFree /\ PoolOut' = PoolOut
            => [Pool!Next]_<<PoolFree, PoolOut>>
BY DEF Pool!Next, Pool!Acquire, Pool!Release, PoolFree, PoolOut

(* The outstanding slots are those of the upper layer and the device. *)
LEMMA PoolOutSplit == PoolOut = upper \cup TxSet \cup RecSet
BY DEF PoolOut, DeviceOwned, TxSet, RecSet

LEMMA InitRefines == Init => Pool!Init
<1> SUFFICES ASSUME Init PROVE PoolFree = Slots /\ PoolOut = {}
  BY DEF Pool!Init, PoolFree, PoolOut
<1>1. PartInv
  BY InitPartInv
<1>2. TxSet = {} /\ RecSet = {} /\ upper = {}
  BY RangeEmpty DEF Init, TxSet, RecSet
<1>3. Cells(PoolFree, upper, TxSet, RecSet)
  BY <1>1, PartFacts
<1>. QED
  BY <1>2, <1>3, PoolOutSplit DEF Cells

LEMMA NextRefines ==
  ASSUME ~CallerMisuse
  PROVE  PartInv /\ [Next]_vars => [Pool!Next]_<<PoolFree, PoolOut>>
<1> SUFFICES ASSUME PartInv, [Next]_vars PROVE [Pool!Next]_<<PoolFree, PoolOut>>
  OBVIOUS
<1>1. Cells(PoolFree, upper, TxSet, RecSet)
  BY PartFacts
<1>2. PoolOut = upper \cup TxSet \cup RecSet /\ PoolOut' = upper' \cup TxSet' \cup RecSet'
  BY DEF PoolOut, DeviceOwned, TxSet, RecSet
<1>3. CASE \E sz \in GetSizes : EthGetBuffer(sz)
  <2>1. PICK sz \in GetSizes : EthGetBuffer(sz)
    BY <1>3
  <2> DEFINE h == Head(eth_buffers)
  <2>2. /\ h \in PoolFree
        /\ PoolFree' = PoolFree \ {h}
        /\ upper' = upper \cup {h}
        /\ UNCHANGED <<txq, recycled>>
    BY <2>1, GetStep, Zenon
  <2>3. h \in Slots /\ PoolOut' = PoolOut \cup {h}
    BY <1>1, <1>2, <2>2 DEF Cells, TxSet, RecSet
  <2>. QED
    BY <2>2, <2>3, PoolStepForms, Zenon
<1>4. CASE \E p \in ReleaseCandidates : EthPutBuffer(p)
  <2>1. PICK p \in ReleaseCandidates : EthPutBuffer(p)
    BY <1>4
  <2>2. /\ p \in upper
        /\ PoolFree' = PoolFree \cup {p}
        /\ upper' = upper \ {p}
        /\ UNCHANGED <<txq, recycled>>
    BY <2>1, PutStep, Zenon
  <2>3. p \in Slots /\ p \in PoolOut /\ PoolOut' = PoolOut \ {p}
    BY <1>1, <1>2, <2>2 DEF Cells, TxSet, RecSet
  <2>. QED
    BY <2>2, <2>3, PoolStepForms, Zenon
<1>5. CASE \E p \in upper : EthSend(p)
  <2>1. PICK p \in upper : EthSend(p)
    BY <1>5
  <2>2. /\ upper' = upper \ {p}
        /\ UNCHANGED recycled
        /\ \/ /\ TxSet' = TxSet \cup {p}
              /\ UNCHANGED eth_buffers
           \/ /\ PoolFree' = PoolFree \cup {p}
              /\ UNCHANGED txq
    BY <2>1, SendStep, Zenon
  <2>3. p \in Slots /\ p \in PoolOut /\ RecSet' = RecSet
    BY <1>1, <1>2, <2>1, <2>2 DEF Cells, RecSet
  <2>4. CASE TxSet' = TxSet \cup {p} /\ UNCHANGED eth_buffers
    <3>1. PoolFree' = PoolFree /\ PoolOut' = PoolOut
      BY <1>2, <2>1, <2>2, <2>3, <2>4 DEF PoolFree
    <3>. QED
      BY <2>3, <3>1, PoolStepForms, Zenon
  <2>5. CASE PoolFree' = PoolFree \cup {p} /\ UNCHANGED txq
    <3>1. PoolOut' = PoolOut \ {p}
      BY <1>1, <1>2, <2>1, <2>2, <2>3, <2>5 DEF Cells, TxSet
    <3>. QED
      BY <2>3, <2>5, <3>1, PoolStepForms, Zenon
  <2>. QED
    BY <2>2, <2>4, <2>5
<1>6. CASE NetifcPoll
  <2> DEFINE h == Head(recycled)
  <2>1. /\ UNCHANGED <<upper, txq>>
        /\ \/ UNCHANGED <<eth_buffers, recycled>>
           \/ /\ h \in RecSet
              /\ RecSet' = RecSet \ {h}
              /\ PoolFree' = PoolFree \cup {h}
    BY <1>6, PollStep, Zenon
  <2>2. CASE UNCHANGED <<eth_buffers, recycled>>
    <3>1. PoolFree' = PoolFree /\ PoolOut' = PoolOut
      BY <2>1, <2>2 DEF PoolFree, PoolOut, DeviceOwned
    <3>2. \E s \in Slots : TRUE
      BY NetifcIOAssumption DEF Slots
    <3>. QED
      BY <3>1, <3>2, PoolStepForms, Zenon
  <2>3. CASE h \in RecSet /\ RecSet' = RecSet \ {h} /\ PoolFree' = PoolFree \cup {h}
    <3>1. h \in Slots /\ h \in PoolOut /\ PoolOut' = PoolOut \ {h}
      BY <1>1, <1>2, <2>1, <2>3 DEF Cells, TxSet
    <3>. QED
      BY <2>3, <3>1, PoolStepForms, Zenon
  <2>. QED
    BY <2>1, <2>2, <2>3
<1>7. CASE TxComplete
  <2> DEFINE h == Head(txq)
  <2>1. /\ h \in TxSet
        /\ TxSet' = TxSet \ {h}
        /\ RecSet' = RecSet \cup {h}
        /\ UNCHANGED <<eth_buffers, upper>>
    BY <1>7, CompleteStep, Zenon
  <2>2. PoolFree' = PoolFree /\ PoolOut' = PoolOut
    BY <1>2, <2>1 DEF PoolFree
  <2>. QED
    BY <2>2 DEF PoolFree, PoolOut
<1>8. CASE \E len \in RxLens : FrameArrives(len)
  BY <1>8 DEF FrameArrives, PoolFree, PoolOut, DeviceOwned
<1>9. CASE UNCHANGED vars
  BY <1>9 DEF vars, PoolFree, PoolOut, DeviceOwned
<1>. QED
  BY <1>3, <1>4, <1>5, <1>6, <1>7, <1>8, <1>9 DEF Next

(* With a well-behaved upper layer the code's pool implements the contract *)
(* of spec section 4.1: every step of eth_get_buffer, eth_put_buffer,      *)
(* eth_send and netifc_poll is an acquire of a free slot, a release of an  *)
(* outstanding one, or changes neither set.                                *)
THEOREM PoolRefinement ==
  ASSUME ~CallerMisuse
  PROVE  Spec => PoolSpec
<1>1. Init => Pool!Init
  BY InitRefines
<1>2. PartInv /\ [Next]_vars => [Pool!Next]_<<PoolFree, PoolOut>>
  BY NextRefines
<1>3. Init => PartInv
  BY InitPartInv
<1>4. PartInv /\ [Next]_vars => PartInv'
  BY NextPartInv
<1>. QED
  BY <1>1, <1>2, <1>3, <1>4, PTL DEF Spec, PoolSpec, Pool!Spec, PoolFree, PoolOut

-----------------------------------------------------------------------------
(* eth_put_buffer finds the header of the slot a data pointer points into  *)
(* by clearing its low eleven bits.  This is exact: the pages come from    *)
(* AllocatePages and so are 4096-aligned, the slots are 2048 bytes apart,  *)
(* and every byte of a slot's header and data (16 + ETH_BUFFER_SIZE of     *)
(* them) lies below the next slot.  This is why the model may identify a   *)
(* buffer with its slot.                                                   *)
THEOREM MaskExact ==
  ASSUME NEW m \in Nat, NEW k \in Nat, NEW o \in 0 .. ETH_HEADER_SIZE + ETH_BUFFER_SIZE - 1
  PROVE  MaskPtr(SlotBase(4096 * m, k) + o) = SlotBase(4096 * m, k)
<1>1. ETH_HEADER_SIZE + ETH_BUFFER_SIZE <= SLOT_SIZE
  BY DEF ETH_HEADER_SIZE, ETH_BUFFER_SIZE, SLOT_SIZE
<1>2. (4096 * m + 2048 * k + o) % 2048 = o
  BY <1>1 DEF ETH_HEADER_SIZE, ETH_BUFFER_SIZE, SLOT_SIZE
<1>. QED
  BY <1>2 DEF MaskPtr, SlotBase, SLOT_SIZE
=============================================================================
