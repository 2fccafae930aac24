----------------------- MODULE Ax88772bBindingProofs -----------------------
(***************************************************************************)
(* Proofs about the Ax88772b driver-binding model: it is type correct, a   *)
(* child's NIC_DEVICE and MyDevPath are never freed while the child exists *)
(* or netifc holds it.                                                     *)
(***************************************************************************)
EXTENDS Ax88772bBinding, TLAPS

(* The inductive invariant: besides NoUseAfterFree, a child netifc         *)
(* holds still exists (NetifcClaim needs it alive, and neither DriverStop  *)
(* nor DriverUnload removes a held child).                                 *)
HeldIsAlive == \A k \in Ids : kid[k].held => kid[k].alive

AliveOwns == \A k \in Ids : kid[k].alive => kid[k].nic /\ kid[k].path

BInv == TypeOK /\ HeldIsAlive /\ AliveOwns

(* The record of an unused call is a Kid. *)
LEMMA UnusedIsKid == Unused \in Kid
<1>1. (CHOOSE c \in Controllers : TRUE) \in Controllers
  BY AxAssumption
<1>. QED  BY <1>1 DEF Unused, Kid

(* ax88772_init starts in a state of the invariant. *)
LEMMA InitBInv == Init => BInv
<1>. SUFFICES ASSUME Init PROVE BInv  OBVIOUS
<1>1. kid \in [Ids -> Kid]  BY UnusedIsKid DEF Init
<1>2. nextId \in 1 .. MaxStarts + 1  BY AxAssumption DEF Init
<1>. QED  BY <1>1, <1>2 DEF Init, BInv, TypeOK, HeldIsAlive, AliveOwns, Unused

(* DriverStart keeps the invariant: the new record is a Kid, not held,     *)
(* and owns both allocations when its child exists.                        *)
LEMMA StartStep ==
  ASSUME BInv, NEW c \in Controllers, NEW k \in StartOutcomes,
         nextId \in Ids, DriverStart(c, k),
         UNCHANGED <<inited, loaded>>, pending' \subseteq Controllers
  PROVE  BInv'
<1>. DEFINE r == [ctl |-> c, alive |-> k = "ok", held |-> FALSE,
                  open |-> k = "ok", nic |-> k = "ok",
                  path |-> k \in LeaksPath \cup {"ok"}]
<1>1. kid' = [kid EXCEPT ![nextId] = r]  BY DEF DriverStart
<1>2. r \in Kid  BY DEF Kid
<1>3. kid' \in [Ids -> Kid]  BY <1>1, <1>2 DEF BInv, TypeOK
<1>4. nextId' \in 1 .. MaxStarts + 1  BY AxAssumption DEF DriverStart, Ids
<1>5. usbIo' \in [Controllers -> BOOLEAN] /\ devPath' \in [Controllers -> BOOLEAN]
  BY DEF DriverStart, BInv, TypeOK
<1>7. HeldIsAlive' /\ AliveOwns'
  BY <1>1 DEF BInv, TypeOK, HeldIsAlive, AliveOwns
<1>. QED  BY <1>3, <1>4, <1>5, <1>7 DEF BInv, TypeOK

(* ConnectController keeps the invariant. *)
LEMMA ConnectStep ==
  ASSUME BInv, NEW c \in Controllers, ConnectController(c)
  PROVE  BInv'
<1>1. pending' \subseteq Controllers  BY DEF ConnectController, BInv, TypeOK
<1>2. CASE DriverSupported(c)
  <2>1. PICK k \in StartOutcomes : nextId \in Ids /\ DriverStart(c, k)
    BY <1>2 DEF ConnectController
  <2>. QED  BY <2>1, <1>1, StartStep DEF ConnectController
<1>3. CASE ~DriverSupported(c)
  BY <1>1, <1>3 DEF ConnectController, BInv, TypeOK, HeldIsAlive, AliveOwns
<1>. QED  BY <1>2, <1>3

(* DisconnectController keeps the invariant: a held child keeps its        *)
(* allocations, a removed one was not held.                                *)
LEMMA DisconnectStep ==
  ASSUME BInv, NEW c \in Controllers, DisconnectController(c)
  PROVE  BInv'
<1>1. PICK reopen \in [Ids -> IF Faults THEN BOOLEAN ELSE {TRUE}] :
        kid' = [k \in Ids |->
                  IF k \notin ChildrenOf(c) THEN kid[k]
                  ELSE IF kid[k].held
                       THEN [kid[k] EXCEPT !.open = reopen[k]]
                       ELSE [kid[k] EXCEPT !.alive = FALSE, !.open = FALSE,
                                           !.nic = FALSE, !.path = FALSE]]
  BY DEF DisconnectController, DriverStopChildren
<1>2. \A k \in Ids : reopen[k] \in BOOLEAN  BY AxAssumption
<1>3. kid' \in [Ids -> Kid]  BY <1>1, <1>2 DEF BInv, TypeOK, Kid
<1>4. HeldIsAlive' /\ AliveOwns'
  BY <1>1 DEF BInv, TypeOK, Kid, HeldIsAlive, AliveOwns
<1>5. usbIo' \in [Controllers -> BOOLEAN] /\ devPath' \in [Controllers -> BOOLEAN]
  BY DEF DisconnectController, DriverStopController, BInv, TypeOK
<1>. QED  BY <1>3, <1>4, <1>5 DEF DisconnectController, BInv, TypeOK

(* DriverUnload keeps the invariant: it removes only children nobody       *)
(* holds, and leaves their allocations allocated.                          *)
LEMMA UnloadStep ==
  ASSUME BInv, DriverUnload
  PROVE  BInv'
<1>. DEFINE ch   == {k \in Ids : kid[k].alive}
            held == {k \in ch : kid[k].held}
<1>1. CASE UNCHANGED <<loaded, kid>>
  BY <1>1 DEF DriverUnload, BInv, TypeOK, HeldIsAlive, AliveOwns
<1>2. CASE \E done \in SUBSET (ch \ held) :
             /\ loaded' = (held # {})
             /\ kid' = [k \in Ids |->
                          IF k \in done THEN [kid[k] EXCEPT !.alive = FALSE]
                          ELSE kid[k]]
  <2>1. PICK done \in SUBSET (ch \ held) :
             /\ loaded' = (held # {})
             /\ kid' = [k \in Ids |->
                          IF k \in done THEN [kid[k] EXCEPT !.alive = FALSE]
                          ELSE kid[k]]
    BY <1>2
  <2>2. kid' \in [Ids -> Kid]  BY <2>1 DEF BInv, TypeOK, Kid
  <2>3. HeldIsAlive' /\ AliveOwns'
    BY <2>1 DEF BInv, TypeOK, Kid, HeldIsAlive, AliveOwns
  <2>. QED  BY <2>1, <2>2, <2>3 DEF DriverUnload, BInv, TypeOK
<1>. QED  BY <1>1, <1>2 DEF DriverUnload

(* netifc claiming or releasing a child keeps the invariant. *)
LEMMA ClaimStep ==
  ASSUME BInv, NEW k \in Ids, NetifcClaim(k) \/ NetifcRelease(k)
  PROVE  BInv'
<1>1. CASE NetifcClaim(k)
  <2>1. kid' = [kid EXCEPT ![k].held = TRUE] /\ kid[k].alive
    BY <1>1 DEF NetifcClaim
  <2>2. kid' \in [Ids -> Kid]  BY <2>1 DEF BInv, TypeOK, Kid
  <2>3. HeldIsAlive' /\ AliveOwns'
    BY <2>1 DEF BInv, TypeOK, Kid, HeldIsAlive, AliveOwns
  <2>. QED  BY <1>1, <2>2, <2>3 DEF NetifcClaim, BInv, TypeOK
<1>2. CASE NetifcRelease(k)
  <2>1. kid' = [kid EXCEPT ![k].held = FALSE]  BY <1>2 DEF NetifcRelease
  <2>2. kid' \in [Ids -> Kid]  BY <2>1 DEF BInv, TypeOK, Kid
  <2>3. HeldIsAlive' /\ AliveOwns'
    BY <2>1 DEF BInv, TypeOK, Kid, HeldIsAlive, AliveOwns
  <2>. QED  BY <1>2, <2>2, <2>3 DEF NetifcRelease, BInv, TypeOK
<1>. QED  BY <1>1, <1>2

(* Every step keeps the invariant. *)
LEMMA NextBInv == BInv /\ [Next]_vars => BInv'
<1>. SUFFICES ASSUME BInv, [Next]_vars PROVE BInv'  OBVIOUS
<1>1. CASE Ax88772Init
  BY <1>1 DEF Ax88772Init, BInv, TypeOK, HeldIsAlive, AliveOwns
<1>2. CASE DriverUnload  BY <1>2, UnloadStep
<1>3. CASE \E c \in Controllers : ConnectController(c) \/ DisconnectController(c)
  BY <1>3, ConnectStep, DisconnectStep
<1>4. CASE \E k \in Ids : NetifcClaim(k) \/ NetifcRelease(k)
  BY <1>4, ClaimStep
<1>5. CASE UNCHANGED vars
  BY <1>5 DEF vars, BInv, TypeOK, HeldIsAlive, AliveOwns
<1>. QED  BY <1>1, <1>2, <1>3, <1>4, <1>5 DEF Next

(* The binding model is type correct. *)
THEOREM BindingTypeCorrect == Spec => []TypeOK
<1>1. BInv => TypeOK  BY DEF BInv
<1>. QED  BY InitBInv, NextBInv, <1>1, PTL DEF Spec

(* DriverStop and DriverUnload never free the NIC_DEVICE or MyDevPath of a *)
(* child that exists or that netifc holds, for any number of controllers  *)
(* and calls.                                                              *)
THEOREM BindingNoUseAfterFree == Spec => []NoUseAfterFree
<1>1. BInv => NoUseAfterFree
  BY DEF BInv, TypeOK, Kid, HeldIsAlive, AliveOwns, NoUseAfterFree
<1>. QED  BY InitBInv, NextBInv, <1>1, PTL DEF Spec
==============================================================================
