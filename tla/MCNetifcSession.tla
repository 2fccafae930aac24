--------------------------- MODULE MCNetifcSession ---------------------------
(* Two devices enumerated in the order d1, d2.  d1 can hold three         *)
(* multicast filters and d2 one.  ip6_init joins three groups on d1 and   *)
(* one on d2, so that three opens of d1 would overflow mcast_filters[]    *)
(* without the bounds of eth_add_mcast_filter; MCWantedOne joins a single *)
(* group on each device.                                                  *)
EXTENDS NetifcSession, TLC

CONSTANTS d1, d2, a1, a2, a3

MCDevices == {d1, d2}
MCCandidates == <<d1, d2>>
MCAddrs == {a1, a2, a3}
MCWanted == (d1 :> <<a1, a2, a3>>) @@ (d2 :> <<a2>>)
MCWantedOne == (d1 :> <<a1>>) @@ (d2 :> <<a2>>)
MCMaxMcast == (d1 :> 3) @@ (d2 :> 1)

(* ip6_init as the code runs it: eth_add_mcast_filter on each group of the *)
(* device in turn, starting from the list left by earlier opens.           *)
Ip6InitLoop(m, d) ==
  LET w == Wanted[d]
      add[i \in 0 .. Len(w)] ==
        IF i = 0 THEN m ELSE EthAddMcastFilter(add[i - 1], w[i], d)
  IN  add[Len(w)]

(* The closed form Ip6Init, which the proofs use, computes what the loop   *)
(* of eth_add_mcast_filter calls computes, for every list of up to         *)
(* MAX_FILTER + 1 addresses and every device of the instance.              *)
ASSUME Ip6InitMatchesLoop ==
  \A m \in SeqUpTo(Addrs, MAX_FILTER + 1), d \in Devices :
    Ip6Init(m, d) = Ip6InitLoop(m, d)
=============================================================================
