# Formal models of gigaboot's network interface layer

This directory holds TLA+ models of the network code of gigaboot20x6. They are
model-checked with TLC and, where noted, proved with TLAPS. The code covered
is:

- `src/netifc.c`: the frame buffer pool, transmit, poll, and the interface
  session (open, discovery, multicast filters, close, timer);
- the Ax88772b USB NIC driver binding,
  `third_party/edk2/.../Ax88772b/DriverBinding.c`, which produces the Simple
  Network (SNP) handles that netifc opens;
- `efi_strerror` of `lib/utils.c`.

## How the parts interact

- `ax88772_init` installs the driver binding. It then connects every USB
  handle.
- The firmware calls `DriverSupported`, then `DriverStart`. `DriverStart`
  creates a child handle carrying SNP.
- `netifc_open` creates the net timer event. `netifc_find_available` then
  opens each SNP handle EXCLUSIVE, runs Start, Initialize and GetStatus on it,
  and keeps the first one that has a link.
- `netifc_open` then carves 16 buffers of 2048 bytes from 8 pages and runs
  `ip6_init`, which joins multicast groups through `eth_add_mcast_filter`.
- It installs the filter list with ReceiveFilters and reads it back. If the
  table the device reports differs from the list, it falls back to
  promiscuous mode.
- While the session is open, the upper layer takes buffers with
  `eth_get_buffer`, sends them with `eth_send` and gives them back with
  `eth_put_buffer`. `netifc_poll` recycles transmitted buffers and passes
  received frames to `eth_recv`.
- `DriverStop` and `DriverUnload` take the child down again. They have to cope
  with netifc's EXCLUSIVE claim.

## Modules

| module | models | state | actions |
|---|---|---|---|
| `NetifcIO` | the pool, `eth_send`, `netifc_poll`, and the device's tx ring, recycle queue and rx queue | `eth_buffers` (the free list as a sequence, head first), `upper`, `txq`, `recycled`, `rxq`, counters, `halted` (the for(;;) on a bad magic) | `EthGetBuffer`, `EthPutBuffer`, `EthSend`, `NetifcPoll` (= `Reclaim` then `ReceiveOne`), device: `TxComplete`, `FrameArrives` |
| `EthBuffer` | the slot layout and the `~2047` mask of `eth_put_buffer` | none: constants and operators shared by the two pool modules | |
| `NetifcPoolMemory` | the same pool at the level of addresses, across sessions: the carving of fresh pages on every `netifc_open`, the mask on every pointer that comes back | `carved` (the bases AllocatePages returned), `magic` (the headers written), `eth_buffers` (header addresses), `held` (data pointers of the upper layer), `inflight` (pointers Transmit kept), `halted` | `NetifcOpen` (AllocatePages and the carving loop), `EthGetBuffer`, `EthPutBuffer`, `EthSend`, `NetifcPoll` (its GetStatus half), `NetifcClose` |
| `BufferPool` | the abstract contract of a pool: `Acquire`, `Release` of slots | `free`, `out` | |
| `SlotAllocator` | the pool's contract across sessions: each slot is free, held by the upper layer or held by the device; an open adds slots nobody holds, and only a close may lose slots, those the device held | `free`, `user`, `device`, `session` | `Open`, `Acquire`, `Release`, `Send`, `Reclaim`, `Close` |
| `NetifcSession` | `netifc_open`/`find_available`, `eth_add_mcast_filter`, `netifc_close`, `netifc_active`, timer | `phase`, `snp`, the loop index, the SNP state of each device, the devices held EXCLUSIVE, `mcast` (`mcast_filters[0..count-1]`), the device tables, the rx mode, `net_timer` and the live events | `OpenBegin` (CreateEvent and LocateHandle), `ProbeSkip`/`ProbeLinkFail`/`ProbeFound` (one loop iteration each), `ScanExhausted`, `OpenFinish` (everything after discovery, to the return), `NetifcClose`, `NetifcSetTimer`, `NetifcTimerExpired`, environment: `TimerFires`, `LinkChange` |
| `Ax88772bBinding` | DriverBinding.c, composed with the firmware's Connect/DisconnectController and netifc's EXCLUSIVE claim | BY_DRIVER opens per controller; per `DriverStart` call, a record of its controller and its child (alive, held, BY_CHILD open, NIC_DEVICE and MyDevPath allocated) | `Ax88772Init`, `ConnectController` (Supported then Start, with every failure point), `DisconnectController` (DriverStop on the children, then on the controller), `DriverUnload`, `NetifcClaim`, `NetifcRelease` |
| `EfiUtils` | `efi_error_labels`, `efi_strerror` against the UEFI status codes | the status passed in | |

The `MC*` modules and `.cfg` files give the constants. `NetifcIOProofs`,
`NetifcPoolMemoryProofs`, `NetifcSessionProofs` and `Ax88772bBindingProofs`
hold the proofs.

Each action models a whole C function, or one loop iteration of
`netifc_find_available`. Its guard comes from the early returns. Every
failure of a boot-service or SNP call is a disjunct, enabled when the
constant `Faults` is TRUE. Data is abstracted:

- a buffer is its slot number;
- a frame is its length;
- a multicast address is a model value;
- an EFI status is its error bit and its low bits.

`ip6_init` is not in the repository. `Ip6Init` models what netifc needs of
it: one `eth_add_mcast_filter` per group of the device. Since each call
appends while the list is below both limits, and the list only grows, the
loop appends the first `FilterRoom` groups. `Ip6Init` states this closed form.
`MCNetifcSession` checks it against the loop itself (`Ip6InitLoop`, which
applies `EthAddMcastFilter` group by group), for every list of up to 9
addresses (assumption `Ip6InitMatchesLoop`).

## Runs

| run | cfg | expect | what it shows |
|---|---|---|---|
| io_pool | MCNetifcIO.cfg | pass | The pool keeps one owner per buffer, transmitted buffers return, frames that fit are delivered, and the pool refines `BufferPool` (`PoolSpec`). |
| io_double_free | MCNetifcIODoubleFree.cfg | violation | A second `eth_put_buffer` of the same buffer passes the magic check. The buffer is later handed to two users. |
| io_jumbo | MCNetifcIOJumbo.cfg | violation | A frame of more than 1514 bytes blocks reception for good. |
| pool_memory | MCNetifcPoolMemory.cfg | pass | Across two sessions, the mask sends every pointer that comes back, and every header seeded, to its own slot. The free list never holds a slot twice, or the slot of a buffer still out (`HeaderRecovered`). The pool implements `SlotAllocator` under free = the headers on the list, user = the masked slots of the held pointers, device = those of the in-flight pointers (`AllocSpec`), so no path loses a buffer except `netifc_close` dropping the device's. |
| session | MCNetifcSession.cfg | pass | Under faults and repeated open/close, the session state stays well-formed (`TypeOK`) and `netifc_open` always returns (`OpenCompletes`). |
| session_released | MCNetifcSessionReleased.cfg | violation | A failed open, or `netifc_close`, leaves `snp` set, the device held or the event live. |
| session_retry | MCNetifcSessionRetry.cfg | violation | A device probed without a link stays Initialized. After its cable is plugged in, the next open fails Start on it. |
| session_mcast | MCNetifcSessionMcast.cfg | violation | `mcast_filters` persists, so a reopen on another device lacks its own group. |
| binding | MCAx88772bBinding.cfg | pass | With every call able to fail, no NIC_DEVICE or MyDevPath is freed while its child exists or netifc holds it (`NoUseAfterFree`). |
| binding_leak | MCAx88772bBindingLeak.cfg | violation | DriverStart's Install and child-open failure paths leak MyDevPath. |
| binding_orphan | MCAx88772bBindingOrphan.cfg | violation | DriverStop leaves `AllChildrenStopped` TRUE when a child's uninstall fails, so it returns SUCCESS for a child it could not remove, and the controller's UsbIo is closed under it. |
| strerror | MCEfiUtils.cfg | violation | `efi_strerror` mislabels warnings, EFI_END_OF_FILE, EFI_INVALID_LANGUAGE and EFI_COMPROMISED_DATA. |

Each violation is recorded as a finding in `PROJECT.json`. Each property of a
passing run has a mutant in `PROJECT.json`: a plausible bug in the mapped code
(a lost pop, a free on the wrong path, a failed send that drops its buffer,
a restarting loop, a CreateEvent reused) that TLC catches with that
property.

### Bounds

- **io_pool:** 3 buffers, a transmit ring of 2, frames of 60 and 1514 bytes,
  requests of 1516 and 1517 bytes, 2 arrivals. This is enough for:
  - an empty pool while the device holds buffers;
  - a full ring, where Transmit fails and `eth_send` frees the buffer;
  - a recycle on every poll;
  - the boundary lengths on both sides.

  The pool size does not matter to the proofs.
- **pool_memory:** two carvings whose pages lie back to back (bases 8192 and
  40960), so the last slot of one session borders the first of the next.
  - The upper layer holds up to 2 buffers and hands pointers back at offset 0
    or 1515, the last byte `eth_get_buffer` grants.
  - The device holds 1 transmit buffer, and `netifc_close` drops it.
  - This reaches a pointer from the first session returned after the reopen,
    and odd and even slots of both carvings.
- **session:** 2 devices and 3 addresses. Device d1 has three groups and room
  for three filters; device d2 has one group and room for one. There are 3
  opens.
  - This reaches a close followed by a reopen on the other device.
  - The list grows past d2's maximum, so ReceiveFilters is refused.
  - With `Faults`, a device may report any table of up to its maximum length,
    so every way a read-back can differ is tried.
- **binding:** 3 USB handles, 2 of them ASIX adapters, and 4 `DriverStart`
  calls. This reaches:
  - a second `DriverStart` on a controller whose held child survived a
    Disconnect;
  - an unload that stops half-way;
  - every failure point of `DriverStart`.

### Fairness

- **NetifcIO:** weak fairness of `NetifcPoll` (the netboot loop polls
  forever) and of `TxComplete` (the NIC finishes what it accepted).
- **NetifcPoolMemory:** none. No property is about progress. Deadlock is
  checked: `eth_get_buffer` and `eth_put_buffer` stay callable after close.
- **NetifcSession:** weak fairness of the steps inside `netifc_open`, since
  it is a synchronous call that runs to its return.
- **Ax88772bBinding:** no fairness, and `CHECK_DEADLOCK FALSE`. After
  `DriverUnload`, or once the bound on starts is used up, the driver may
  legitimately do nothing more.
- **NetifcIODoubleFree:** `CHECK_DEADLOCK FALSE`, because a wild pointer hangs
  `eth_put_buffer` in its `for(;;)`.

## Proofs (TLAPS)

`NetifcIOProofs` proves the following, for every value of the constants:

- `TypeCorrect: Spec => []TypeOK`. The inductive invariant adds
  `rxDelivered + Len(rxq) = rxArrived`.
- `PoolPartition: Spec => []OwnershipPartition`, assuming `~CallerMisuse`.
  - The invariant is stated as a partition of the slots into four cells: free
    list, upper layer, tx ring and recycle queue.
  - Each action moves one slot between two cells; lemma `CellsMove` says that
    this keeps the partition.
  - The invariant needs `~halted`: without misuse, `eth_put_buffer` only sees
    pool slots.
- `PoolRefinement: Spec => PoolSpec`. Under the mapping `free =
  Range(eth_buffers)`, `out = upper \cup device-owned`, each step is an
  `Acquire`, a `Release` or a stutter. The proof reuses the partition
  invariant.
- `MaskExact`: for a 4096-aligned base, masking any address inside a slot's
  header or data area with `~2047` gives the slot's header. This is what lets
  the model identify a data pointer with its slot.

`NetifcPoolMemoryProofs` proves the following, for every set of page-aligned,
non-overlapping bases, every set of offsets inside the granted bytes and
every bound (`NetifcPoolMemoryAssumption`):

- `PoolHeaderRecovered: Spec => []HeaderRecovered`.
- `PoolMemoryTypeCorrect: Spec => []TypeOK`.
- `PoolAllocRefinement: Spec => AllocSpec`. Each step maps to an `Open`
  (`netifc_open`), an `Acquire` (`eth_get_buffer`), a `Release`
  (`eth_put_buffer`, a failed `eth_send`), a `Send` (a successful
  `eth_send`), a `Reclaim` (`netifc_poll`) or a `Close` (`netifc_close`).
  As the contract loses slots only at `Close` and only the device's, this
  says that no path of the code loses a buffer the upper layer gave back,
  and that no slot is handed out while anyone holds it. The slots of `user`
  and `device` are told apart by the last conjunct of `PInv`, and the
  distinctness of outstanding slots turns removing a pointer into removing
  its slot (`RemoveSlot`).

`HeaderRecovered` is stated with `SlotOf`, the slot the layout assigns to an
address. It is not inductive: it says nothing of the magic, nor of where an
in-flight pointer lies. The inductive invariant `PInv` works with `Slot`
(the mask itself) and adds:

- the magic is on exactly the carved headers;
- each held pointer is the data pointer of its slot;
- each in-flight pointer is a data pointer plus one of `Offsets`;
- a held pointer and an in-flight pointer never share a slot. Without this,
  releasing a pointer that is also in flight would free a slot the device
  still has.

The arithmetic lemmas are `AlignedMask` (masking an address of a 2048-aligned
slot gives its header), `HeaderAligned` and `HeadersFresh`. `HeadersFresh`
says that the headers of a new carving are disjoint from every earlier one.
It needs the assumption that bases lie `REGION_SIZE` apart.
`SlotOfExact` turns `Slot` into `SlotOf` at the end. The sequence lemmas
`ConcatInjective`, `PushInjective`, `PopInjective` and `CarveSeq` say that
the free list never repeats a header. `CarveSeq` also says the carving loop
always passes its magic check on fresh pages (`CarveFits`). `ReleaseStep`
covers the three release paths at once for `PInv`; for the refinement,
`UserReleaseRefines` and `DeviceReclaimRefines` cover the user's two and
the device's one.

`NetifcSessionProofs` proves `SessionTypeCorrect` (`Spec => []TypeOK`). Its
inductive invariant `IInv` adds two conjuncts:

- `SnpBound`: while `netifc_open` is past discovery, or a session is open,
  `snp` names a device. `OpenFinish` and `NetifcClose` index the device
  tables with it.
- `TimerLive`: while `netifc_open` runs or a session is open, `net_timer` is
  the live event, and no more events are live than opens were made. This
  keeps the event count of `NetifcClose` at 0 or more and that of
  `OpenBegin` within its bound.

The lemma `Ip6InitType` carries the data fact: the closed form of
`ip6_init` returns a list of addresses (`SubSeqProperties`,
`ConcatProperties`).

`Ax88772bBindingProofs` proves:

- `BindingTypeCorrect`.
- `BindingNoUseAfterFree`.

Their inductive invariant adds `HeldIsAlive`: a child held by netifc still
exists. This is needed because `NoUseAfterFree` alone does not say that
`DriverStop` only frees a child's memory after removing the child.

The proofs rest on the `ASSUME`s of the modules (`NetifcIOAssumption`,
`NetifcPoolMemoryAssumption`, `AxAssumption`), which the runs evaluate.

## Only model-checked

- **Liveness:** `TxReclaimed`, `RxDelivered` and `OpenCompletes`, and the
  action property `NoDeviceMeansNoLink`. TLAPS does not handle liveness under
  fairness.
- **`Ip6InitMatchesLoop`:** that the closed form equals the loop of
  `eth_add_mcast_filter` calls, over the bounded inputs of `MCNetifcSession`.
  Proving it would need induction over the loop.

## Not modelled

- `eth_dump_status` and all printing.
- The `InitGoodies`, `WaitAnyKey`, `Fatal` and `HandleToString` glue in
  `utils.c`.
- `mnp.h`, which holds declarations only.
- `SN_Setup` and the rest of the Ax88772b driver, which are not in this
  repository. Any buffers `SN_Setup` allocates, and their leak on the later
  failure paths of `DriverStart`, are therefore not covered.
- The contents of frames and of `eth_recv`.
- The page leak of a reopen. `netifc_open` allocates 8 fresh pages on every
  call, and nothing frees them. `NetifcPoolMemory` keeps these pages and
  checks that they stay consistent. The boot environment exits wholesale,
  so the leak itself is not a property.
