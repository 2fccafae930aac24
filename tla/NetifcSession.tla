---------------------------- MODULE NetifcSession ----------------------------
(***************************************************************************)
(* The interface lifecycle of gigaboot's netifc.c: netifc_open with its    *)
(* device discovery (netifc_find_available), the multicast filter list and *)
(* its read-back check, netifc_close, netifc_active and the net timer.     *)
(*                                                                         *)
(* The Simple Network devices are modelled by the UEFI state machine the   *)
(* code relies on: Start takes a device from Stopped to Started and fails  *)
(* with ALREADY_STARTED otherwise, Initialize takes it on to Initialized,  *)
(* Shutdown and Stop undo the two.  OpenProtocol EXCLUSIVE fails while the *)
(* protocol is already open by gigaboot or held by another agent.  With    *)
(* Faults, any device call and AllocatePages may also fail, and a device   *)
(* may report back any filter table; without it the firmware is ideal.    *)
(*                                                                         *)
(* The code is single-threaded; the only other actor is the wire, whose    *)
(* link may come and go between calls into this layer.  The buffer pool    *)
(* that netifc_open seeds is modelled in NetifcIO.                         *)
(***************************************************************************)
EXTENDS Naturals, Sequences, FiniteSets, Functions

CONSTANTS
  Devices,      \* the SNP devices of the machine
  Candidates,   \* the handles LocateHandle returns, in enumeration order
  HandleCap,    \* capacity of the handle array h[] of netifc_find_available
  OtherHeld,    \* devices another agent holds exclusively
  Addrs,        \* multicast addresses
  Wanted,       \* Wanted[d]: the multicast groups ip6_init joins on device d
  MaxMcast,     \* MaxMCastFilterCount of each device
  Faults,       \* may device calls and AllocatePages fail?
  MaxOpens,     \* bound on the number of netifc_open calls
  NoDev         \* NULL for snp

ASSUME NetifcSessionAssumption ==
  /\ Candidates \in Seq(Devices)
  /\ HandleCap \in Nat
  /\ OtherHeld \subseteq Devices
  /\ Wanted \in [Devices -> Seq(Addrs)]
  /\ MaxMcast \in [Devices -> Nat]
  /\ Faults \in BOOLEAN
  /\ MaxOpens \in Nat
  /\ NoDev \notin Devices

MAX_FILTER == 8

DevStates == {"Stopped", "Started", "Initialized"}

VARIABLES
  phase,        \* "idle", "scan" (in netifc_find_available), "bound" (a
                \* device was found, netifc_open goes on) or "open"
  snp,          \* the global snp
  scanIdx,      \* the loop index i of netifc_find_available (1-based)
  dev,          \* dev[d]: the SNP state of device d
  ours,         \* devices gigaboot has open EXCLUSIVE
  link,         \* link[d]: MediaPresent of device d
  mcast,        \* mcast_filters[0 .. mcast_filter_count - 1]
  table,        \* table[d]: the filter table device d reports
  rxMode,       \* rxMode[d]: "none", "filtered" or "promisc"
  timerEv,      \* what net_timer refers to: "null", "live" or "closed"
  liveEvents,   \* timer events created and not yet closed
  armed,        \* the live timer event has a deadline set
  fired,        \* the live timer event is signalled
  opens,        \* netifc_open calls so far
  result        \* what the last netifc_open returned

vars == <<phase, snp, scanIdx, dev, ours, link, mcast, table, rxMode,
          timerEv, liveEvents, armed, fired, opens, result>>

(* The tables a device may report after ReceiveFilters(req). *)
SeqUpTo(S, n) == UNION {[1 .. m -> S] : m \in 0 .. n}

ReportedTables(req, d) ==
  IF Faults THEN SeqUpTo(Addrs, MaxMcast[d]) ELSE {req}

-----------------------------------------------------------------------------
Init ==
  /\ phase = "idle"
  /\ snp = NoDev
  /\ scanIdx = 1
  /\ dev = [d \in Devices |-> "Stopped"]
  /\ ours = {}
  /\ link \in [Devices -> BOOLEAN]
  /\ mcast = <<>>
  /\ table = [d \in Devices |-> <<>>]
  /\ rxMode = [d \in Devices |-> "none"]
  /\ timerEv = "null"
  /\ liveEvents = 0
  /\ armed = FALSE
  /\ fired = FALSE
  /\ opens = 0
  /\ result = "none"

(* Mutant: a new event is created only while net_timer is NULL. *)
OpenBeginReuseEvent ==
  /\ phase = "idle"
  /\ opens < MaxOpens
  /\ opens' = opens + 1
  /\ IF timerEv = "null"
     THEN timerEv' = "live" /\ liveEvents' = liveEvents + 1
     ELSE UNCHANGED <<timerEv, liveEvents>>
  /\ armed' = FALSE
  /\ fired' = FALSE
  /\ scanIdx' = 1
  /\ \/ /\ Len(Candidates) > HandleCap \/ Faults
        /\ phase' = "idle"
        /\ snp' = NoDev
        /\ result' = "nodevice"
     \/ /\ Len(Candidates) <= HandleCap
        /\ phase' = "scan"
        /\ UNCHANGED <<snp, result>>
  /\ UNCHANGED <<dev, ours, link, mcast, table, rxMode>>

(* netifc_open up to the return of LocateHandle: CreateEvent replaces      *)
(* net_timer with a new event (an event left live by an earlier open is    *)
(* not closed).  When LocateHandle fails (as it always does when the      *)
(* handles do not fit in h[]), snp = netifc_find_available() is NULL and   *)
(* netifc_open fails.                                                      *)
OpenBegin ==
  /\ phase = "idle"
  /\ opens < MaxOpens
  /\ opens' = opens + 1
  /\ timerEv' = "live"
  /\ liveEvents' = liveEvents + 1
  /\ armed' = FALSE
  /\ fired' = FALSE
  /\ scanIdx' = 1
  /\ \/ /\ Len(Candidates) > HandleCap \/ Faults   \* LocateHandle fails
        /\ phase' = "idle"
        /\ snp' = NoDev
        /\ result' = "nodevice"
     \/ /\ Len(Candidates) <= HandleCap
        /\ phase' = "scan"
        /\ UNCHANGED <<snp, result>>
  /\ UNCHANGED <<dev, ours, link, mcast, table, rxMode>>

(* One iteration of the loop of netifc_find_available on d = h[i].         *)
(* OpenProtocol EXCLUSIVE fails: the candidate is skipped.                 *)
ClaimFails(d) == d \in ours \/ d \in OtherHeld

(* Mutant: a skipped candidate sends the loop back to the first handle. *)
ProbeSkipRestart ==
  /\ phase = "scan"
  /\ scanIdx <= Len(Candidates)
  /\ ClaimFails(Candidates[scanIdx]) \/ Faults
  /\ scanIdx' = 1
  /\ UNCHANGED <<phase, snp, dev, ours, link, mcast, table, rxMode,
                 timerEv, liveEvents, armed, fired, opens, result>>

ProbeSkip ==
  /\ phase = "scan"
  /\ scanIdx <= Len(Candidates)
  /\ ClaimFails(Candidates[scanIdx]) \/ Faults
  /\ scanIdx' = scanIdx + 1
  /\ UNCHANGED <<phase, snp, dev, ours, link, mcast, table, rxMode,
                 timerEv, liveEvents, armed, fired, opens, result>>

(* The claim succeeds but Start, Initialize, GetStatus or the MediaPresent *)
(* check fails; link_fail only calls CloseProtocol, so the device stays in *)
(* whatever state the calls that succeeded left it in.                     *)
LinkFailStates(d) ==
  IF dev[d] # "Stopped"
  THEN {dev[d]}                                     \* Start: ALREADY_STARTED
  ELSE (IF Faults THEN {"Stopped", "Started", "Initialized"} ELSE {})
       \cup (IF link[d] THEN {} ELSE {"Initialized"})  \* no link detected

ProbeLinkFail ==
  /\ phase = "scan"
  /\ scanIdx <= Len(Candidates)
  /\ LET d == Candidates[scanIdx] IN
       /\ ~ClaimFails(d)
       /\ \E st \in LinkFailStates(d) : dev' = [dev EXCEPT ![d] = st]
  /\ scanIdx' = scanIdx + 1
  /\ UNCHANGED <<phase, snp, ours, link, mcast, table, rxMode,
                 timerEv, liveEvents, armed, fired, opens, result>>

(* Every call succeeds and a link is detected: the first such candidate is *)
(* returned, still open EXCLUSIVE, and becomes snp.                        *)
ProbeFound ==
  /\ phase = "scan"
  /\ scanIdx <= Len(Candidates)
  /\ LET d == Candidates[scanIdx] IN
       /\ ~ClaimFails(d)
       /\ dev[d] = "Stopped"
       /\ link[d]
       /\ dev' = [dev EXCEPT ![d] = "Initialized"]
       /\ ours' = ours \cup {d}
       /\ snp' = d
  /\ phase' = "bound"
  /\ UNCHANGED <<scanIdx, link, mcast, table, rxMode, timerEv, liveEvents,
                 armed, fired, opens, result>>

(* The loop ran out of candidates: snp = NULL and netifc_open fails. *)
ScanExhausted ==
  /\ phase = "scan"
  /\ scanIdx > Len(Candidates)
  /\ phase' = "idle"
  /\ snp' = NoDev
  /\ result' = "nodevice"
  /\ UNCHANGED <<scanIdx, dev, ours, link, mcast, table, rxMode,
                 timerEv, liveEvents, armed, fired, opens>>

(* eth_add_mcast_filter(a) on device d: refused when the list is full or   *)
(* the device's maximum is reached.                                        *)
EthAddMcastFilter(m, a, d) ==
  IF Len(m) >= MAX_FILTER \/ Len(m) >= MaxMcast[d] THEN m ELSE Append(m, a)

(* ip6_init joins the groups of the device's address, one                  *)
(* eth_add_mcast_filter each, onto the list left by earlier opens.  Each   *)
(* call appends while the list is below both MAX_FILTER and the device's   *)
(* maximum, and the list only grows, so the calls append the first         *)
(* FilterRoom groups and refuse the rest.                                  *)
FilterRoom(m, d) ==
  LET cap == IF MaxMcast[d] < MAX_FILTER THEN MaxMcast[d] ELSE MAX_FILTER
  IN  IF Len(m) < cap THEN cap - Len(m) ELSE 0

Ip6Init(m, d) ==
  LET w == Wanted[d]
      n == IF FilterRoom(m, d) < Len(w) THEN FilterRoom(m, d) ELSE Len(w)
  IN  m \o SubSeq(w, 1, n)

(* The read-back check of netifc_open: the count matches and each filter   *)
(* asked for is found in the device's table.                               *)
Contains(s, a) == \E j \in 1 .. Len(s) : s[j] = a

FiltersVerified(req, t) ==
  /\ Len(t) = Len(req)
  /\ \A i \in 1 .. Len(req) : Contains(t, req[i])

(* netifc_open after the device was found: AllocatePages, the seeding of   *)
(* the pool (NetifcIO), ip6_init, ReceiveFilters for unicast + multicast   *)
(* with the whole list (which the firmware refuses when it is longer than  *)
(* the device's maximum), the read-back check and, when it fails, the      *)
(* fallback to promiscuous mode.  Every failure returns -1 and nothing is  *)
(* undone: snp, the claim, the device state and the timer event stay.      *)
OpenFail ==
  /\ phase' = "idle"
  /\ result' = "fail"

OpenOK ==
  /\ phase' = "open"
  /\ result' = "ok"

OpenFinish ==
  /\ phase = "bound"
  /\ \/ /\ Faults                                     \* AllocatePages fails
        /\ OpenFail
        /\ UNCHANGED <<mcast, table, rxMode>>
     \/ LET m == Ip6Init(mcast, snp) IN
        /\ mcast' = m
        /\ \/ /\ Faults \/ Len(m) > MaxMcast[snp]     \* ReceiveFilters fails
              /\ OpenFail
              /\ UNCHANGED <<table, rxMode>>
           \/ /\ Len(m) <= MaxMcast[snp]
              /\ \E t \in ReportedTables(m, snp) :
                   /\ table' = [table EXCEPT ![snp] = t]
                   /\ IF FiltersVerified(m, t)
                      THEN /\ rxMode' = [rxMode EXCEPT ![snp] = "filtered"]
                           /\ OpenOK
                      ELSE \/ /\ Faults               \* promiscuous refused
                              /\ rxMode' = [rxMode EXCEPT ![snp] = "filtered"]
                              /\ OpenFail
                           \/ /\ rxMode' = [rxMode EXCEPT ![snp] = "promisc"]
                              /\ OpenOK
  /\ UNCHANGED <<snp, scanIdx, dev, ours, link, timerEv, liveEvents,
                 armed, fired, opens>>

(* netifc_close: SetTimer cancel, CloseEvent, Shutdown, Stop.  snp is not  *)
(* cleared and the protocol is not closed; net_timer keeps the closed      *)
(* event.                                                                  *)
NetifcClose ==
  /\ phase = "open"
  /\ phase' = "idle"
  /\ timerEv' = "closed"
  /\ liveEvents' = liveEvents - 1
  /\ armed' = FALSE
  /\ fired' = FALSE
  /\ dev' = [dev EXCEPT ![snp] = "Stopped"]
  /\ UNCHANGED <<snp, scanIdx, ours, link, mcast, table, rxMode,
                 opens, result>>

(* netifc_active *)
NetifcActive == snp # NoDev

(* netifc_set_timer: ignored while net_timer is NULL; SetTimer on a closed *)
(* event is refused by the firmware.                                       *)
NetifcSetTimer ==
  /\ phase \in {"idle", "open"}
  /\ timerEv = "live"
  /\ armed' = TRUE
  /\ fired' = FALSE
  /\ UNCHANGED <<phase, snp, scanIdx, dev, ours, link, mcast, table,
                 rxMode, timerEv, liveEvents, opens, result>>

(* The relative deadline passes and the firmware signals the event. *)
TimerFires ==
  /\ timerEv = "live"
  /\ armed
  /\ armed' = FALSE
  /\ fired' = TRUE
  /\ UNCHANGED <<phase, snp, scanIdx, dev, ours, link, mcast, table,
                 rxMode, timerEv, liveEvents, opens, result>>

(* netifc_timer_expired returns 1: CheckEvent found the event signalled,   *)
(* which also clears it.  Its other outcomes change nothing.               *)
NetifcTimerExpired ==
  /\ phase \in {"idle", "open"}
  /\ timerEv = "live"
  /\ fired
  /\ fired' = FALSE
  /\ UNCHANGED <<phase, snp, scanIdx, dev, ours, link, mcast, table,
                 rxMode, timerEv, liveEvents, armed, opens, result>>

(* The cable of device d is plugged or unplugged between calls. *)
LinkChange(d) ==
  /\ phase \in {"idle", "open"}
  /\ link' = [link EXCEPT ![d] = ~link[d]]
  /\ UNCHANGED <<phase, snp, scanIdx, dev, ours, mcast, table, rxMode,
                 timerEv, liveEvents, armed, fired, opens, result>>

Next ==
  \/ OpenBegin
  \/ ProbeSkip
  \/ ProbeLinkFail
  \/ ProbeFound
  \/ ScanExhausted
  \/ OpenFinish
  \/ NetifcClose
  \/ NetifcSetTimer
  \/ TimerFires
  \/ NetifcTimerExpired
  \/ \E d \in Devices : LinkChange(d)

(* netifc_open is a synchronous call: once begun it runs to its return.   *)
Fairness ==
  /\ WF_vars(ProbeSkip \/ ProbeLinkFail \/ ProbeFound)
  /\ WF_vars(ScanExhausted)
  /\ WF_vars(OpenFinish)

Spec == Init /\ [][Next]_vars /\ Fairness

-----------------------------------------------------------------------------
(* Type invariant. *)
TypeOK ==
  /\ phase \in {"idle", "scan", "bound", "open"}
  /\ snp \in Devices \cup {NoDev}
  /\ scanIdx \in 1 .. Len(Candidates) + 1
  /\ dev \in [Devices -> DevStates]
  /\ ours \subseteq Devices
  /\ link \in [Devices -> BOOLEAN]
  /\ mcast \in Seq(Addrs)
  /\ table \in [Devices -> Seq(Addrs)]
  /\ rxMode \in [Devices -> {"none", "filtered", "promisc"}]
  /\ timerEv \in {"null", "live", "closed"}
  /\ liveEvents \in 0 .. MaxOpens
  /\ armed \in BOOLEAN
  /\ fired \in BOOLEAN
  /\ opens \in 0 .. MaxOpens
  /\ result \in {"none", "ok", "nodevice", "fail"}

(* Every netifc_open returns: the discovery loop moves past each candidate *)
(* whatever its probe does, and the rest of netifc_open does not loop.     *)
OpenCompletes == phase \in {"scan", "bound"} ~> phase \in {"idle", "open"}

(* After netifc_close, or after a netifc_open that failed, the session     *)
(* holds nothing: netifc_active() is false, no device is left open         *)
(* EXCLUSIVE and no timer event is left live (spec 4.4, 7 and 8).          *)
SessionReleased ==
  phase = "idle" => ~NetifcActive /\ ours = {} /\ liveEvents = 0

(* netifc_open reports that no device was found only when no candidate it  *)
(* could claim has a link: a device whose cable was plugged in after an    *)
(* earlier attempt is found by the next one (spec 4.2, 7: the caller       *)
(* retries open).                                                          *)
NoDeviceMeansNoLink ==
  [][phase = "scan" /\ result' = "nodevice" =>
       \A i \in 1 .. Len(Candidates) :
         ~link[Candidates[i]] \/ ClaimFails(Candidates[i])]_vars

(* While a session is open with targeted filters, the device receives the  *)
(* multicast groups ip6_init joined for it.                                *)
ReceivesOwnMcast ==
  phase = "open" /\ rxMode[snp] = "filtered" =>
    \A i \in 1 .. Len(Wanted[snp]) : Contains(table[snp], Wanted[snp][i])
=============================================================================
