--------------------------- MODULE Ax88772bBinding ---------------------------
(***************************************************************************)
(* The UEFI driver-binding life cycle of the Ax88772b USB network driver   *)
(* (third_party/.../Ax88772b/DriverBinding.c), composed with the firmware  *)
(* that calls it and with netifc, which claims the child's Simple Network  *)
(* protocol EXCLUSIVE.                                                     *)
(*                                                                         *)
(* A controller c is a USB handle.  DriverStart opens UsbIo and DevicePath *)
(* on c BY_DRIVER, allocates a NIC_DEVICE and a MyDevPath, installs a      *)
(* child handle carrying CallerId, SimpleNetwork and DevicePath and opens  *)
(* UsbIo BY_CHILD_CONTROLLER for it.  Each DriverStart call has its own   *)
(* NIC_DEVICE, numbered in call order: a controller can have several      *)
(* children when an earlier one survived a DriverStop.                    *)
(***************************************************************************)
EXTENDS Naturals, FiniteSets

CONSTANTS
  Controllers,   \* the USB handles LocateHandleBuffer(UsbIo) returns
  Asix,          \* those whose descriptor matches an ASIX_DONGLES entry
  Faults,        \* whether boot services may fail (allocation, open, ...)
  MaxStarts      \* bound on the DriverStart calls

ASSUME AxAssumption ==
  /\ Controllers # {}
  /\ Asix \subseteq Controllers
  /\ Faults \in BOOLEAN
  /\ MaxStarts \in Nat

(* The DriverStart calls, numbered from 1. *)
Ids == 1 .. MaxStarts

(* What one DriverStart call left behind: the controller it ran on, whether *)
(* its child handle exists, is held EXCLUSIVE by netifc and has UsbIo open *)
(* BY_CHILD_CONTROLLER, and whether its NIC_DEVICE and its MyDevPath are   *)
(* still allocated.                                                        *)
Kid == [ctl : Controllers, alive : BOOLEAN, held : BOOLEAN, open : BOOLEAN,
        nic : BOOLEAN, path : BOOLEAN]

(* The record of a DriverStart call not made yet. *)
Unused == [ctl |-> CHOOSE c \in Controllers : TRUE, alive |-> FALSE,
           held |-> FALSE, open |-> FALSE, nic |-> FALSE, path |-> FALSE]

VARIABLES
  inited,      \* ax88772_init has run
  loaded,      \* gDriverBinding is installed on the image handle
  pending,     \* handles ax88772_install has still to ConnectController
  usbIo,       \* usbIo[c]: UsbIo of c open BY_DRIVER by this driver
  devPath,     \* devPath[c]: DevicePath of c open BY_DRIVER
  kid,         \* kid[k]: what the k-th DriverStart left behind
  nextId       \* the number of the next DriverStart call

vars == <<inited, loaded, pending, usbIo, devPath, kid, nextId>>

Init ==
  /\ inited = FALSE
  /\ loaded = FALSE
  /\ pending = {}
  /\ usbIo = [c \in Controllers |-> FALSE]
  /\ devPath = [c \in Controllers |-> FALSE]
  /\ kid = [k \in Ids |-> Unused]
  /\ nextId = 1

(* The children the firmware finds for c: those with UsbIo of c open       *)
(* BY_CHILD_CONTROLLER.                                                    *)
ChildrenOf(c) == {k \in Ids : kid[k].alive /\ kid[k].open /\ kid[k].ctl = c}

(* DriverSupported: OpenProtocol(UsbIo, BY_DRIVER) fails with              *)
(* ALREADY_STARTED once this driver holds c; the device descriptor must    *)
(* be read and match ASIX_DONGLES.  UsbIo is closed again in every case.   *)
DriverSupported(c) ==
  /\ ~usbIo[c]
  /\ c \in Asix

(* Where DriverStart stops: the boot-service call that fails, or "ok".     *)
(* The descriptor check cannot fail on a controller DriverSupported        *)
(* accepted, unless the descriptor read itself fails.                      *)
StartOutcomes ==
  IF Faults
  THEN {"alloc", "usbio", "snsetup", "descriptor", "devpath", "install",
        "child", "ok"}
  ELSE {"ok"}

(* Outcomes after which MyDevPath has been allocated by                    *)
(* AppendDevicePathNode and is not freed: only pNicDevice is.              *)
LeaksPath == {"install", "child"}

(* DriverStart(c) stopping at k.  On "ok" both protocols stay open         *)
(* BY_DRIVER and the new child exists with its BY_CHILD_CONTROLLER open,   *)
(* owning both allocations.  Every failure path closes what it opened and  *)
(* frees pNicDevice; the two after AppendDevicePathNode leave MyDevPath    *)
(* allocated and unreferenced.                                             *)
DriverStart(c, k) ==
  /\ usbIo' = [usbIo EXCEPT ![c] = (k = "ok")]
  /\ devPath' = [devPath EXCEPT ![c] = (k = "ok")]
  /\ kid' = [kid EXCEPT ![nextId] =
               [ctl |-> c, alive |-> k = "ok", held |-> FALSE, open |-> k = "ok",
                nic |-> k = "ok", path |-> k \in LeaksPath \cup {"ok"}]]
  /\ nextId' = nextId + 1

(* ax88772_init: InstallMultipleProtocolInterfaces(DriverBinding, ...),    *)
(* then ax88772_install, which calls ConnectController on every UsbIo      *)
(* handle whether or not the binding was installed; without the binding    *)
(* the firmware has no driver to run for them.                             *)
Ax88772Init ==
  /\ ~inited
  /\ inited' = TRUE
  /\ \E ok \in (IF Faults THEN BOOLEAN ELSE {TRUE}) :
       /\ loaded' = ok
       /\ pending' = IF ok THEN Controllers ELSE {}
  /\ UNCHANGED <<usbIo, devPath, kid, nextId>>

(* ConnectController(c), from the loop of ax88772_install (which runs to   *)
(* its end before anything else) or later: DriverSupported, then           *)
(* DriverStart.                                                            *)
ConnectController(c) ==
  /\ loaded
  /\ pending = {} \/ c \in pending
  /\ pending' = pending \ {c}
  /\ IF DriverSupported(c)
     THEN /\ nextId \in Ids
          /\ \E k \in StartOutcomes : DriverStart(c, k)
     ELSE UNCHANGED <<usbIo, devPath, kid, nextId>>
  /\ UNCHANGED <<inited, loaded>>

(* Mutant: the NIC_DEVICE is freed even when the uninstall failed. *)
DriverStopChildrenFreesHeld(c) ==
  \E reopen \in [Ids -> IF Faults THEN BOOLEAN ELSE {TRUE}] :
    kid' = [k \in Ids |->
              IF k \notin ChildrenOf(c) THEN kid[k]
              ELSE IF kid[k].held
                   THEN [kid[k] EXCEPT !.open = reopen[k], !.nic = FALSE,
                                       !.path = FALSE]
                   ELSE [kid[k] EXCEPT !.alive = FALSE, !.open = FALSE,
                                       !.nic = FALSE, !.path = FALSE]]

(* DriverStop(c, n, children): GET_PROTOCOL SimpleNetwork on each child    *)
(* succeeds, its BY_CHILD_CONTROLLER open is closed and its protocols are  *)
(* uninstalled.  The uninstall fails while netifc holds the SNP EXCLUSIVE: *)
(* UsbIo is reopened BY_CHILD_CONTROLLER (which may fail in turn) and the  *)
(* child is kept.  Otherwise the rx queue, the test buffers, MyDevPath and *)
(* pNicDevice are freed.  EFI_SUCCESS is returned in every case.           *)
DriverStopChildren(c) ==
  \E reopen \in [Ids -> IF Faults THEN BOOLEAN ELSE {TRUE}] :
    kid' = [k \in Ids |->
              IF k \notin ChildrenOf(c) THEN kid[k]
              ELSE IF kid[k].held
                   THEN [kid[k] EXCEPT !.open = reopen[k]]
                   ELSE [kid[k] EXCEPT !.alive = FALSE, !.open = FALSE,
                                       !.nic = FALSE, !.path = FALSE]]

(* DriverStop(c, 0, NULL) on a controller: GET_PROTOCOL SimpleNetwork on c *)
(* fails (the SNP is on the child), so the "2nd type handle" branch closes *)
(* DevicePath and UsbIo BY_DRIVER and returns EFI_SUCCESS.                 *)
DriverStopController(c) ==
  /\ usbIo' = [usbIo EXCEPT ![c] = FALSE]
  /\ devPath' = [devPath EXCEPT ![c] = FALSE]

(* DisconnectController(c) in the firmware, for the driver holding c       *)
(* BY_DRIVER: DriverStop on the children of c and, as that returned        *)
(* EFI_SUCCESS, DriverStop(c, 0).                                          *)
DisconnectController(c) ==
  /\ loaded
  /\ pending = {}
  /\ usbIo[c]
  /\ DriverStopChildren(c)
  /\ DriverStopController(c)
  /\ UNCHANGED <<inited, loaded, pending, nextId>>

(* DriverUnload: LocateHandle(CallerId) finds the child handles (NOT_FOUND *)
(* when there are none, which counts as success).  With children, the      *)
(* handle buffer is allocated, and DriverStop(child, 0) is called on each  *)
(* in LocateHandle's order until one fails.  On a child GET_PROTOCOL       *)
(* succeeds, so its protocols are uninstalled; that fails while netifc     *)
(* holds the SNP and breaks the loop.  After a successful uninstall the    *)
(* two CloseProtocol calls name the child, not its controller, and fail:   *)
(* the controller stays open BY_DRIVER and BY_CHILD_CONTROLLER, and        *)
(* pNicDevice and MyDevPath are never freed.  The binding is uninstalled   *)
(* only if every DriverStop succeeded.                                     *)
DriverUnload ==
  /\ loaded
  /\ pending = {}
  /\ LET ch   == {k \in Ids : kid[k].alive}
         held == {k \in ch : kid[k].held}
     IN \/ /\ ch # {}
           /\ Faults                               \* AllocatePool fails
           /\ UNCHANGED <<loaded, kid>>
        \/ \E done \in SUBSET (ch \ held) :
             /\ held = {} => done = ch
             /\ loaded' = (held # {})
             /\ kid' = [k \in Ids |->
                          IF k \in done THEN [kid[k] EXCEPT !.alive = FALSE]
                          ELSE kid[k]]
  /\ UNCHANGED <<inited, pending, usbIo, devPath, nextId>>

(* netifc_find_available: OpenProtocol(SimpleNetwork, EXCLUSIVE) on a      *)
(* handle LocateHandle returned; it succeeds on a child nobody holds.      *)
NetifcClaim(k) ==
  /\ pending = {}
  /\ kid[k].alive
  /\ ~kid[k].held
  /\ kid' = [kid EXCEPT ![k].held = TRUE]
  /\ UNCHANGED <<inited, loaded, pending, usbIo, devPath, nextId>>

(* link_fail: CloseProtocol(SimpleNetwork) releases the claim.             *)
NetifcRelease(k) ==
  /\ kid[k].held
  /\ kid' = [kid EXCEPT ![k].held = FALSE]
  /\ UNCHANGED <<inited, loaded, pending, usbIo, devPath, nextId>>

Next ==
  \/ Ax88772Init
  \/ DriverUnload
  \/ \E c \in Controllers : ConnectController(c) \/ DisconnectController(c)
  \/ \E k \in Ids : NetifcClaim(k) \/ NetifcRelease(k)

Spec == Init /\ [][Next]_vars

-----------------------------------------------------------------------------
(* The type of every variable. *)
TypeOK ==
  /\ inited \in BOOLEAN
  /\ loaded \in BOOLEAN
  /\ pending \subseteq Controllers
  /\ usbIo \in [Controllers -> BOOLEAN]
  /\ devPath \in [Controllers -> BOOLEAN]
  /\ kid \in [Ids -> Kid]
  /\ nextId \in 1 .. MaxStarts + 1

(* No use after free: the NIC_DEVICE and MyDevPath of a child, which its   *)
(* CallerId, SimpleNetwork and DevicePath interfaces point into and which  *)
(* netifc uses through the SNP it holds, stay allocated as long as the     *)
(* child exists or is held: DriverStop frees them only after a successful  *)
(* uninstall, and a failed one reopens the child's UsbIo.                  *)
NoUseAfterFree ==
  \A k \in Ids : kid[k].alive \/ kid[k].held => kid[k].nic /\ kid[k].path

(* No pool allocation of the driver becomes unreachable: a NIC_DEVICE or   *)
(* MyDevPath still allocated belongs to a child that exists.               *)
NoLeak ==
  \A k \in Ids : kid[k].nic \/ kid[k].path => kid[k].alive

(* A child exists only on a controller whose UsbIo and DevicePath the      *)
(* driver still holds BY_DRIVER: the NIC behind the child's SNP talks to   *)
(* the device through that UsbIo.                                          *)
ChildBacked ==
  \A k \in Ids : kid[k].alive => usbIo[kid[k].ctl] /\ devPath[kid[k].ctl]
==============================================================================
