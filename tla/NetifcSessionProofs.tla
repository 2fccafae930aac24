------------------------- MODULE NetifcSessionProofs -------------------------
(***************************************************************************)
(* Proof of the type correctness of NetifcSession for every value of the  *)
(* constants: the filter list, the device tables and the count of live    *)
(* timer events stay in range through every open, failure and close.      *)
(***************************************************************************)
EXTENDS NetifcSession, SequenceTheorems, TLAPS

(* The strengthening TypeOK needs.  While netifc_open runs or a session is *)
(* open, snp names a device (OpenFinish and NetifcClose index the device   *)
(* tables with it), and net_timer refers to the live event CreateEvent     *)
(* made, which NetifcClose closes; every live event was made by an open.   *)
SnpBound == phase \in {"bound", "open"} => snp \in Devices

TimerLive ==
  /\ phase \in {"scan", "bound", "open"} => timerEv = "live" /\ liveEvents >= 1
  /\ liveEvents <= opens

IInv == TypeOK /\ SnpBound /\ TimerLive

-----------------------------------------------------------------------------
(* What ip6_init leaves is a list of addresses. *)
LEMMA Ip6InitType ==
  ASSUME NetifcSessionAssumption, NEW m \in Seq(Addrs), NEW d \in Devices
  PROVE  Ip6Init(m, d) \in Seq(Addrs)
<1> DEFINE w == Wanted[d]
           n == IF FilterRoom(m, d) < Len(w) THEN FilterRoom(m, d) ELSE Len(w)
<1>1. w \in Seq(Addrs)
  BY DEF NetifcSessionAssumption
<1>2. FilterRoom(m, d) \in Nat
  BY DEF NetifcSessionAssumption, FilterRoom, MAX_FILTER
<1>3. n \in 0 .. Len(w)
  BY <1>1, <1>2
<1>4. SubSeq(w, 1, n) \in Seq(Addrs)
  BY <1>1, <1>3, SubSeqProperties
<1>5. QED
  BY <1>4, ConcatProperties DEF Ip6Init

(* Every table a device may report is a list of addresses. *)
LEMMA ReportedType ==
  ASSUME NetifcSessionAssumption, NEW req \in Seq(Addrs), NEW d \in Devices,
         NEW t \in ReportedTables(req, d)
  PROVE  t \in Seq(Addrs)
<1>1. CASE Faults
  <2>1. PICK k \in 0 .. MaxMcast[d] : t \in [1 .. k -> Addrs]
    BY <1>1 DEF ReportedTables, SeqUpTo
  <2>2. k \in Nat
    BY <2>1 DEF NetifcSessionAssumption
  <2>3. QED
    BY <2>1, <2>2
<1>2. CASE ~Faults
  BY <1>2 DEF ReportedTables
<1>3. QED
  BY <1>1, <1>2

-----------------------------------------------------------------------------
LEMMA InitIInv ==
  ASSUME NetifcSessionAssumption
  PROVE  Init => IInv
<1> SUFFICES ASSUME Init PROVE IInv
  OBVIOUS
<1>1. scanIdx \in 1 .. Len(Candidates) + 1
  BY DEF Init, NetifcSessionAssumption
<1>2. mcast \in Seq(Addrs) /\ table \in [Devices -> Seq(Addrs)]
  BY DEF Init
<1>3. liveEvents \in 0 .. MaxOpens /\ opens \in 0 .. MaxOpens
  BY DEF Init, NetifcSessionAssumption
<1>4. TypeOK
  BY <1>1, <1>2, <1>3 DEF Init, TypeOK, DevStates
<1>5. QED
  BY <1>4 DEF Init, IInv, SnpBound, TimerLive

(* A step that moves only the link, the deadline or the signal keeps IInv. *)
LEMMA QuietFrame ==
  ASSUME IInv,
         UNCHANGED <<phase, snp, scanIdx, dev, ours, mcast, table,
                     rxMode, timerEv, liveEvents, opens, result>>,
         link' \in [Devices -> BOOLEAN], armed' \in BOOLEAN, fired' \in BOOLEAN
  PROVE  IInv'
<1>1. TypeOK'
  BY DEF IInv, TypeOK
<1>2. QED
  BY <1>1 DEF IInv, SnpBound, TimerLive

(* The timer steps, LinkChange and stuttering. *)
LEMMA QuietStep ==
  ASSUME IInv,
         \/ NetifcSetTimer \/ TimerFires \/ NetifcTimerExpired
         \/ \E d \in Devices : LinkChange(d)
         \/ UNCHANGED vars
  PROVE  IInv'
<1>1. link \in [Devices -> BOOLEAN] /\ armed \in BOOLEAN /\ fired \in BOOLEAN
  BY DEF IInv, TypeOK
<1>2. CASE NetifcSetTimer \/ TimerFires \/ NetifcTimerExpired
  <2>1. CASE NetifcSetTimer
    BY <1>1, <2>1, QuietFrame DEF NetifcSetTimer
  <2>2. CASE TimerFires
    BY <1>1, <2>2, QuietFrame DEF TimerFires
  <2>3. CASE NetifcTimerExpired
    BY <1>1, <2>3, QuietFrame DEF NetifcTimerExpired
  <2>4. QED
    BY <1>2, <2>1, <2>2, <2>3
<1>3. CASE \E d \in Devices : LinkChange(d)
  <2>1. PICK d \in Devices : LinkChange(d)
    BY <1>3
  <2>2. link' \in [Devices -> BOOLEAN]
    BY <1>1, <2>1 DEF LinkChange
  <2>3. QED
    BY <2>1, <2>2, QuietFrame DEF LinkChange, IInv, TypeOK
<1>4. CASE UNCHANGED vars
  BY <1>1, <1>4, QuietFrame DEF vars, IInv, TypeOK
<1>5. QED
  BY <1>2, <1>3, <1>4

LEMMA ProbeSkipStep ==
  ASSUME IInv, ProbeSkip
  PROVE  IInv'
<1>1. UNCHANGED <<phase, snp, dev, ours, link, mcast, table, rxMode,
                  timerEv, liveEvents, armed, fired, opens, result>>
  BY DEF ProbeSkip
<1>2. scanIdx' \in 1 .. Len(Candidates) + 1
  BY DEF ProbeSkip, IInv, TypeOK
<1>3. TypeOK'
  BY <1>1, <1>2 DEF IInv, TypeOK
<1>4. QED
  BY <1>1, <1>3 DEF IInv, SnpBound, TimerLive

LEMMA OpenBeginStep ==
  ASSUME NetifcSessionAssumption, IInv, OpenBegin
  PROVE  IInv'
<1>1. UNCHANGED <<dev, ours, link, mcast, table, rxMode>>
  BY DEF OpenBegin
<1>2. /\ opens' = opens + 1 /\ liveEvents' = liveEvents + 1
      /\ opens < MaxOpens /\ timerEv' = "live"
      /\ armed' = FALSE /\ fired' = FALSE /\ scanIdx' = 1
  BY DEF OpenBegin
<1>3. \/ phase' = "idle" /\ snp' = NoDev /\ result' = "nodevice"
      \/ phase' = "scan" /\ UNCHANGED <<snp, result>>
  BY DEF OpenBegin
<1>4. /\ opens' \in 0 .. MaxOpens /\ liveEvents' \in 0 .. MaxOpens
      /\ scanIdx' \in 1 .. Len(Candidates) + 1
  BY <1>2 DEF IInv, TypeOK, TimerLive, NetifcSessionAssumption
<1>5. TypeOK'
  <2>1. CASE phase' = "idle" /\ snp' = NoDev /\ result' = "nodevice"
    BY <1>1, <1>2, <1>4, <2>1 DEF IInv, TypeOK
  <2>2. CASE phase' = "scan" /\ UNCHANGED <<snp, result>>
    BY <1>1, <1>2, <1>4, <2>2 DEF IInv, TypeOK
  <2>3. QED
    BY <1>3, <2>1, <2>2
<1>6. TimerLive'
  BY <1>2 DEF IInv, TypeOK, TimerLive
<1>7. QED
  BY <1>1, <1>3, <1>5, <1>6 DEF IInv, SnpBound

LEMMA ProbeLinkFailStep ==
  ASSUME NetifcSessionAssumption, IInv, ProbeLinkFail
  PROVE  IInv'
<1> DEFINE d == Candidates[scanIdx]
<1>1. UNCHANGED <<phase, snp, ours, link, mcast, table, rxMode,
                  timerEv, liveEvents, armed, fired, opens, result>>
  BY DEF ProbeLinkFail
<1>2. d \in Devices /\ scanIdx' \in 1 .. Len(Candidates) + 1
  BY DEF IInv, TypeOK, ProbeLinkFail, NetifcSessionAssumption
<1>3. dev' \in [Devices -> DevStates]
  <2>1. LinkFailStates(d) \subseteq DevStates
    BY <1>2 DEF IInv, TypeOK, LinkFailStates, DevStates
  <2>2. PICK st \in LinkFailStates(d) : dev' = [dev EXCEPT ![d] = st]
    BY DEF ProbeLinkFail
  <2>3. QED
    BY <1>2, <2>1, <2>2 DEF IInv, TypeOK
<1>4. TypeOK'
  BY <1>1, <1>2, <1>3 DEF IInv, TypeOK
<1>5. QED
  BY <1>1, <1>4 DEF IInv, SnpBound, TimerLive

LEMMA ProbeFoundStep ==
  ASSUME NetifcSessionAssumption, IInv, ProbeFound
  PROVE  IInv'
<1> DEFINE d == Candidates[scanIdx]
<1>1. UNCHANGED <<scanIdx, link, mcast, table, rxMode, timerEv, liveEvents,
                  armed, fired, opens, result>>
  BY DEF ProbeFound
<1>2. d \in Devices
  BY DEF IInv, TypeOK, ProbeFound, NetifcSessionAssumption
<1>3. /\ dev' = [dev EXCEPT ![d] = "Initialized"]
      /\ ours' = ours \cup {d}
      /\ snp' = d /\ phase' = "bound" /\ phase = "scan"
  BY DEF ProbeFound
<1>4. TypeOK'
  BY <1>1, <1>2, <1>3 DEF IInv, TypeOK, DevStates
<1>5. QED
  BY <1>1, <1>2, <1>3, <1>4 DEF IInv, SnpBound, TimerLive

LEMMA ScanExhaustedStep ==
  ASSUME IInv, ScanExhausted
  PROVE  IInv'
<1>1. UNCHANGED <<scanIdx, dev, ours, link, mcast, table, rxMode,
                  timerEv, liveEvents, armed, fired, opens>>
  BY DEF ScanExhausted
<1>2. phase' = "idle" /\ snp' = NoDev /\ result' = "nodevice"
  BY DEF ScanExhausted
<1>3. TypeOK'
  BY <1>1, <1>2 DEF IInv, TypeOK
<1>4. QED
  BY <1>1, <1>2, <1>3 DEF IInv, SnpBound, TimerLive

LEMMA NetifcCloseStep ==
  ASSUME NetifcSessionAssumption, IInv, NetifcClose
  PROVE  IInv'
<1>1. UNCHANGED <<snp, scanIdx, ours, link, mcast, table, rxMode,
                  opens, result>>
  BY DEF NetifcClose
<1>2. /\ phase = "open" /\ phase' = "idle" /\ timerEv' = "closed"
      /\ liveEvents' = liveEvents - 1 /\ armed' = FALSE /\ fired' = FALSE
      /\ dev' = [dev EXCEPT ![snp] = "Stopped"]
  BY DEF NetifcClose
<1>3. liveEvents' \in 0 .. MaxOpens /\ liveEvents' <= opens'
  <2>1. /\ liveEvents \in 1 .. MaxOpens /\ liveEvents <= opens
        /\ opens \in 0 .. MaxOpens
    BY <1>2 DEF IInv, TypeOK, TimerLive
  <2>2. MaxOpens \in Nat
    BY DEF NetifcSessionAssumption
  <2>3. opens' = opens /\ liveEvents' = liveEvents - 1
    BY DEF NetifcClose
  <2>4. QED
    BY ONLY <2>1, <2>2, <2>3
<1>4. dev' \in [Devices -> DevStates]
  BY <1>2 DEF IInv, TypeOK, DevStates
<1>5. TypeOK'
  BY <1>1, <1>2, <1>3, <1>4 DEF IInv, TypeOK
<1>6. QED
  BY <1>1, <1>2, <1>3, <1>5 DEF IInv, SnpBound, TimerLive

(* netifc_open after discovery: the list ip6_init leaves and the table the *)
(* device reports are lists of addresses, and targeted filters are kept    *)
(* on an open session only when the read-back check passed.               *)
LEMMA OpenFinishStep ==
  ASSUME NetifcSessionAssumption, IInv, OpenFinish
  PROVE  IInv'
<1>1. snp \in Devices /\ phase = "bound"
  BY DEF IInv, SnpBound, OpenFinish
<1> DEFINE m == Ip6Init(mcast, snp)
<1>2. m \in Seq(Addrs)
  BY <1>1, Ip6InitType DEF IInv, TypeOK
<1>3. UNCHANGED <<snp, scanIdx, dev, ours, link, timerEv, liveEvents,
                  armed, fired, opens>>
  BY DEF OpenFinish
<1>4. phase' \in {"idle", "open"} /\ result' \in {"ok", "fail"}
  BY DEF OpenFinish, OpenOK, OpenFail
<1>5. /\ mcast' \in Seq(Addrs)
      /\ table' \in [Devices -> Seq(Addrs)]
      /\ rxMode' \in [Devices -> {"none", "filtered", "promisc"}]
  <2>1. CASE UNCHANGED <<mcast, table, rxMode>>
    BY <2>1 DEF IInv, TypeOK
  <2>2. CASE mcast' = m /\ UNCHANGED <<table, rxMode>>
    BY <2>2, <1>2 DEF IInv, TypeOK
  <2>3. CASE /\ mcast' = m
             /\ \E t \in ReportedTables(m, snp) :
                  /\ table' = [table EXCEPT ![snp] = t]
                  /\ rxMode' \in {[rxMode EXCEPT ![snp] = "filtered"],
                                   [rxMode EXCEPT ![snp] = "promisc"]}
    <3>1. PICK t \in ReportedTables(m, snp) :
                /\ table' = [table EXCEPT ![snp] = t]
                /\ rxMode' \in {[rxMode EXCEPT ![snp] = "filtered"],
                                 [rxMode EXCEPT ![snp] = "promisc"]}
      BY <2>3
    <3>2. t \in Seq(Addrs)
      BY <1>1, <1>2, ReportedType
    <3>3. QED
      BY <2>3, <3>1, <3>2, <1>1, <1>2 DEF IInv, TypeOK
  <2>4. QED
    BY <2>1, <2>2, <2>3 DEF OpenFinish, OpenOK, OpenFail
<1>6. QED
  BY <1>1, <1>3, <1>4, <1>5
     DEF IInv, TypeOK, SnpBound, TimerLive
LEMMA NextIInv ==
  ASSUME NetifcSessionAssumption, IInv, [Next]_vars
  PROVE  IInv'
<1>1. CASE OpenBegin        BY <1>1, OpenBeginStep
<1>2. CASE ProbeLinkFail    BY <1>2, ProbeLinkFailStep
<1>3. CASE ProbeFound       BY <1>3, ProbeFoundStep
<1>4. CASE ScanExhausted    BY <1>4, ScanExhaustedStep
<1>5. CASE OpenFinish       BY <1>5, OpenFinishStep
<1>6. CASE NetifcClose      BY <1>6, NetifcCloseStep
<1>7. CASE ProbeSkip        BY <1>7, ProbeSkipStep
<1>8. CASE \/ NetifcSetTimer \/ TimerFires \/ NetifcTimerExpired
           \/ \E d \in Devices : LinkChange(d)
           \/ UNCHANGED vars
  BY <1>8, QuietStep
<1>9. QED
  BY <1>1, <1>2, <1>3, <1>4, <1>5, <1>6, <1>7, <1>8 DEF Next

-----------------------------------------------------------------------------
(* netifc_open's types: the filter list, the device tables and the event   *)
(* count stay in range through every open, failure and close.             *)
THEOREM SessionTypeCorrect == Spec => []TypeOK
<1>1. Init => IInv
  BY InitIInv, NetifcSessionAssumption
<1>2. IInv /\ [Next]_vars => IInv'
  BY NextIInv, NetifcSessionAssumption
<1>3. IInv => TypeOK
  BY DEF IInv
<1>4. QED
  BY <1>1, <1>2, <1>3, PTL DEF Spec
==============================================================================
