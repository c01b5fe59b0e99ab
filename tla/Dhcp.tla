-------------------------------- MODULE Dhcp --------------------------------
(***************************************************************************)
(* The DHCP client of dhcp_linux.go: dhcpFirst during the boot, then the   *)
(* goroutine of dhcpRenewLoop for the life of the node, on a network that  *)
(* loses, delays and reorders datagrams; and the other code that writes    *)
(* what the client writes: the static fallback of eth0 in probeOutboundTCP *)
(* and in a join, the node-ip alias, and the files that criPhase and       *)
(* joinFromBundle put at /etc/resolv.conf.                                 *)
(*                                                                         *)
(* Every server has one address to lease, so a lease is named after its    *)
(* server, and all the leases are of one length, which a server may leave  *)
(* out of its ACK.  The clock ticks while the loop sleeps and while a      *)
(* reply is waited for.  A transaction id is the low half of the clock in  *)
(* nanoseconds, taken to be fresh for every exchange.                      *)
(***************************************************************************)
EXTENDS Naturals, FiniteSets

CONSTANTS
    Servers,
    None,          \* no lease
    Static, Alias, \* the fixed slirp address; the /32 alias of the node-ip
    LeaseTicks,    \* the length of a lease
    HourTicks,     \* the length the loop assumes when the ACK has none
    RenewTicks,    \* ASTERKUBE_DHCP_RENEW_SEC; 0: not set, or not positive
    WaitTicks,     \* the 4 s that an ACK is waited for
    OfferTicks,    \* the 2 s that an OFFER is waited for
    BackoffTicks,  \* the 30 s after a failed re-acquisition
    MaxXid,        \* bound: how many exchanges the client makes
    MaxInFlight    \* bound: how many datagrams are on their way; one more is lost

ASSUME DhcpAssumption ==
    /\ Servers \cap {None, Static, Alias} = {}
    /\ None # Static /\ None # Alias /\ Static # Alias
    /\ LeaseTicks \in Nat \ {0} /\ HourTicks \in Nat /\ RenewTicks \in Nat
    /\ WaitTicks \in Nat /\ OfferTicks \in Nat /\ BackoffTicks \in Nat
    /\ WaitTicks < LeaseTicks
    /\ MaxXid \in Nat /\ MaxInFlight \in Nat

VARIABLES
    pc,       \* where dhcpFirst or dhcpRenewLoop is
    cl,       \* the client's variables
    net,      \* the datagrams on their way
    srv,      \* per server: what it knows of its address
    eth0,     \* the addresses of the interface
    resolv,   \* who wrote /etc/resolv.conf last
    boot,     \* where runAsInit is
    networkConfigured,
    lost      \* history: the leases that were neither renewed nor rebound

vars == <<pc, cl, net, srv, eth0, resolv, boot, networkConfigured, lost>>

-----------------------------------------------------------------------------
(* Values.                                                                 *)

\* dur: the lease time of the last ACK, or an hour.
Dur(sec) == IF sec = 0 THEN HourTicks ELSE sec

\* When the loop renews and when it rebinds; the override replaces both.
T1(sec) == IF RenewTicks > 0 THEN RenewTicks ELSE Dur(sec) \div 2
T2(sec) == IF RenewTicks > 0 THEN RenewTicks + RenewTicks \div 2 ELSE (Dur(sec) * 7) \div 8

PCs == {"discover", "offer", "ack", "renew", "renewAck", "rebind", "rebindAck",
        "check", "checkAck", "checkRebind", "checkRebindAck",
        "sleepT1", "sleepT2", "backoff", "ended"}
Sleeping == {"sleepT1", "sleepT2", "backoff"}
Receiving == {"offer", "ack", "checkAck", "checkRebindAck", "renewAck", "rebindAck"}

Lease == Servers \cup {None}
Client == [xid : 0 .. MaxXid, try : 0 .. 3, offer : Lease, lease : Lease,
           sec : {0, LeaseTicks}, timer : Nat]
Message == [type : {"DISCOVER", "OFFER", "REQUEST", "ACK", "NAK"},
            xid : 0 .. MaxXid, server : Lease]
Server == [rem : 0 .. LeaseTicks, other : BOOLEAN]

TypeOK ==
    /\ pc \in PCs
    /\ cl \in Client
    /\ net \subseteq Message
    /\ srv \in [Servers -> Server]
    /\ eth0 \subseteq Servers \cup {Static, Alias}
    /\ resolv \in {"none", "seed", "dhcp", "bundle"}
    /\ boot \in {"dhcp", "cri", "wan", "join", "up"}
    /\ networkConfigured \in BOOLEAN
    /\ lost \subseteq Servers

-----------------------------------------------------------------------------
(* Helpers.                                                                *)

Send(n, m) == IF Cardinality(n \cup {m}) <= MaxInFlight THEN n \cup {m} ELSE n
Msg(t, x, s) == [type |-> t, xid |-> x, server |-> s]

\* A variant for mutation: any reply of the type is taken.
recvAnyXid(m, want) == m \in net /\ m.type = want

\* recvDHCP: a reply is taken if its transaction id and its type match.
recvDHCP(m, want) == m \in net /\ m.xid = cl.xid /\ m.type = want

\* writeResolvConf does nothing when the server sent no option 6.
writeResolvConf == resolv' \in {resolv, "dhcp"}

\* applyLeaseDelta(idx, lease): errors are ignored, and the old address is not
\* removed.
applyLeaseDelta(s) ==
    /\ eth0' \in {eth0, eth0 \cup {s}}
    /\ writeResolvConf

\* The client has the lease s, whose T1 starts.  The ACK has the lease time, or
\* none: dhcpRenew then keeps the last one, dhcpAcquire leaves 0 (was).
Grant(s, was) ==
    /\ \E sec \in {was, LeaseTicks} :
          cl' = [cl EXCEPT !.lease = s, !.offer = None, !.try = 0, !.sec = sec,
                           !.timer = T1(sec)]
    /\ lost' = lost \ {s}

\* dhcpRenew sends a REQUEST for the leased address, unicast or broadcast, and
\* waits 4 s for the ACK.  A REQUEST that cannot be sent is one that is lost,
\* with an error at once.
SendRequest(from, to) ==
    /\ pc = from /\ cl.xid < MaxXid
    /\ cl' = [cl EXCEPT !.xid = @ + 1, !.timer = WaitTicks]
    /\ net' = Send(net, Msg("REQUEST", cl.xid + 1, cl.lease))
    /\ pc' = to
    /\ UNCHANGED <<srv, eth0, resolv, boot, networkConfigured, lost>>

Init ==
    /\ pc = "discover"
    /\ cl = [xid |-> 0, try |-> 0, offer |-> None, lease |-> None, sec |-> 0,
          timer |-> 0]
    /\ net = {}
    /\ srv = [s \in Servers |-> [rem |-> 0, other |-> FALSE]]
    /\ eth0 = {}
    /\ resolv = "none"
    /\ boot = "dhcp"
    /\ networkConfigured = FALSE
    /\ lost = {}

-----------------------------------------------------------------------------
(* dhcpAcquire: DISCOVER, OFFER, REQUEST, ACK.                             *)

Discover ==
    /\ pc = "discover"
    /\ cl' = [cl EXCEPT !.try = @ + 1, !.timer = OfferTicks]
    /\ net' = Send(net, Msg("DISCOVER", cl.xid, None))
    /\ pc' = "offer"
    /\ UNCHANGED <<srv, eth0, resolv, boot, networkConfigured, lost>>

\* A variant for mutation: the offered address is used before it is granted.
RecvOfferApplies(m) ==
    /\ pc = "offer" /\ recvDHCP(m, "OFFER")
    /\ cl' = [cl EXCEPT !.offer = m.server, !.timer = WaitTicks]
    /\ net' = Send(net \ {m}, Msg("REQUEST", cl.xid, m.server))
    /\ eth0' = eth0 \cup {m.server}
    /\ pc' = "ack"
    /\ UNCHANGED <<srv, resolv, boot, networkConfigured, lost>>

\* The first OFFER is taken and its address requested from its server.
RecvOffer(m) ==
    /\ pc = "offer" /\ recvDHCP(m, "OFFER")
    /\ cl' = [cl EXCEPT !.offer = m.server, !.timer = WaitTicks]
    /\ net' = Send(net \ {m}, Msg("REQUEST", cl.xid, m.server))
    /\ pc' = "ack"
    /\ UNCHANGED <<srv, eth0, resolv, boot, networkConfigured, lost>>

\* dhcpAcquire returns an error: dhcpFirst returns false and no loop is
\* started; the loop backs off and keeps the address.
AcquireFails ==
    /\ IF boot = "dhcp"
       THEN /\ pc' = "ended" /\ boot' = "cri"
            /\ cl' = [cl EXCEPT !.try = 0, !.offer = None, !.timer = 0]
       ELSE /\ pc' = "backoff" /\ UNCHANGED boot
            /\ cl' = [cl EXCEPT !.try = 0, !.offer = None, !.timer = BackoffTicks]
    /\ UNCHANGED <<net, srv, eth0, resolv, networkConfigured, lost>>

\* A variant for mutation: there is no limit on the DISCOVERs.
OfferTimeoutRetries ==
    /\ pc = "offer"
    /\ pc' = "discover"
    /\ cl' = [cl EXCEPT !.try = 0]
    /\ UNCHANGED <<net, srv, eth0, resolv, boot, networkConfigured, lost>>

\* No OFFER in 2 s: three DISCOVERs are sent in all.  Here, and wherever a reply
\* is waited for, an error of the socket ends the wait before its time.
OfferTimeout ==
    /\ pc = "offer"
    /\ \/ /\ cl.try < 3
          /\ pc' = "discover"
          /\ cl' = [cl EXCEPT !.timer = 0]
          /\ UNCHANGED <<net, srv, eth0, resolv, boot, networkConfigured, lost>>
       \/ /\ cl.try = 3
          /\ AcquireFails

AckTimeout ==
    /\ pc = "ack"
    /\ AcquireFails

\* No netlink, no interface, no socket on port 68, or a DISCOVER that cannot be
\* sent.
AcquireError ==
    /\ pc = "discover"
    /\ AcquireFails

\* dhcpFirst: the address, the route and the resolver, then the goroutine,
\* which checks at once that the lease can be renewed.
FirstAck(m) ==
    /\ pc = "ack" /\ boot = "dhcp" /\ recvDHCP(m, "ACK")
    /\ eth0' = eth0 \cup {m.server}
    /\ writeResolvConf
    /\ networkConfigured' = TRUE
    /\ Grant(m.server, 0)
    /\ net' = net \ {m}
    /\ pc' = "check" /\ boot' = "cri"
    /\ UNCHANGED <<srv>>

\* dhcpFirst has a lease but cannot put the address on eth0: it returns false.
FirstAckNoAddress(m) ==
    /\ pc = "ack" /\ boot = "dhcp" /\ recvDHCP(m, "ACK")
    /\ net' = net \ {m}
    /\ pc' = "ended" /\ boot' = "cri"
    /\ UNCHANGED <<cl, srv, eth0, resolv, networkConfigured, lost>>

\* The loop takes the lease it re-acquired.
ReacquireAck(m) ==
    /\ pc = "ack" /\ boot # "dhcp" /\ recvDHCP(m, "ACK")
    /\ applyLeaseDelta(m.server)
    /\ Grant(m.server, 0)
    /\ net' = net \ {m}
    /\ pc' = "sleepT1"
    /\ UNCHANGED <<srv, boot, networkConfigured>>

-----------------------------------------------------------------------------
(* dhcpRenewLoop.                                                          *)

\* The immediate check: RENEWING, then REBINDING; nothing is applied.
Check == SendRequest("check", "checkAck")
CheckRebind == SendRequest("checkRebind", "checkRebindAck")

CheckAck(m) ==
    /\ pc \in {"checkAck", "checkRebindAck"} /\ recvDHCP(m, "ACK")
    /\ Grant(m.server, cl.sec)
    /\ net' = net \ {m}
    /\ pc' = "sleepT1"
    /\ UNCHANGED <<srv, eth0, resolv, boot, networkConfigured>>

CheckTimeout ==
    /\ \/ pc = "checkAck" /\ pc' = "checkRebind" /\ cl' = [cl EXCEPT !.timer = 0]
       \/ pc = "checkRebindAck" /\ pc' = "sleepT1" /\ cl' = [cl EXCEPT !.timer = T1(cl.sec)]
    /\ UNCHANGED <<net, srv, eth0, resolv, boot, networkConfigured, lost>>

\* time.Sleep is over.  The loop goes round after the backoff, and so through
\* T1 again.
Wake ==
    /\ pc \in Sleeping /\ cl.timer = 0
    /\ \/ pc = "sleepT1" /\ pc' = "renew" /\ UNCHANGED cl
       \/ pc = "sleepT2" /\ pc' = "rebind" /\ UNCHANGED cl
       \/ pc = "backoff" /\ pc' = "sleepT1" /\ cl' = [cl EXCEPT !.timer = T1(cl.sec)]
    /\ UNCHANGED <<net, srv, eth0, resolv, boot, networkConfigured, lost>>

Renew == SendRequest("renew", "renewAck")
Rebind == SendRequest("rebind", "rebindAck")

RenewAck(m) ==
    /\ pc \in {"renewAck", "rebindAck"} /\ recvDHCP(m, "ACK")
    /\ applyLeaseDelta(m.server)
    /\ Grant(m.server, cl.sec)
    /\ net' = net \ {m}
    /\ pc' = "sleepT1"
    /\ UNCHANGED <<srv, boot, networkConfigured>>

\* A variant for mutation: the whole of T2 is slept on top of T1.
RenewTimeoutFullT2 ==
    /\ pc = "renewAck"
    /\ cl' = [cl EXCEPT !.timer = T2(cl.sec)]
    /\ pc' = "sleepT2"
    /\ UNCHANGED <<net, srv, eth0, resolv, boot, networkConfigured, lost>>

\* RENEWING failed (a NAK is not waited for): sleep until T2.
RenewTimeout ==
    /\ pc = "renewAck"
    /\ cl' = [cl EXCEPT !.timer = T2(cl.sec) - T1(cl.sec)]
    /\ pc' = "sleepT2"
    /\ UNCHANGED <<net, srv, eth0, resolv, boot, networkConfigured, lost>>

\* REBINDING failed: a fresh lease, with a fresh transaction id.
RebindTimeout ==
    /\ pc = "rebindAck" /\ cl.xid < MaxXid
    /\ cl' = [cl EXCEPT !.xid = @ + 1, !.try = 0, !.timer = 0]
    /\ lost' = lost \cup {cl.lease}
    /\ pc' = "discover"
    /\ UNCHANGED <<net, srv, eth0, resolv, boot, networkConfigured>>

-----------------------------------------------------------------------------
(* The servers, the network and the clock.                                 *)

Offer(s, m) ==
    /\ m \in net /\ m.type = "DISCOVER" /\ ~srv[s].other
    /\ net' = Send(net, Msg("OFFER", m.xid, s))
    /\ UNCHANGED <<pc, cl, srv, eth0, resolv, boot, networkConfigured, lost>>

\* A REQUEST is granted unless the address is another host's by now.
Answer(m) ==
    /\ m \in net /\ m.type = "REQUEST"
    /\ IF srv[m.server].other
       THEN /\ net' = Send(net \ {m}, Msg("NAK", m.xid, m.server))
            /\ UNCHANGED srv
       ELSE /\ net' = Send(net \ {m}, Msg("ACK", m.xid, m.server))
            /\ srv' = [srv EXCEPT ![m.server].rem = LeaseTicks]
    /\ UNCHANGED <<pc, cl, eth0, resolv, boot, networkConfigured, lost>>

Lose(m) ==
    /\ m \in net
    /\ net' = net \ {m}
    /\ UNCHANGED <<pc, cl, srv, eth0, resolv, boot, networkConfigured, lost>>

\* An address whose lease has run out may be given to another host.
GiveAway(s) ==
    /\ srv[s].rem = 0 /\ ~srv[s].other
    /\ srv' = [srv EXCEPT ![s].other = TRUE]
    /\ UNCHANGED <<pc, cl, net, eth0, resolv, boot, networkConfigured, lost>>

Tick ==
    /\ pc \in Sleeping \cup Receiving /\ cl.timer > 0
    /\ cl' = [cl EXCEPT !.timer = @ - 1]
    /\ srv' = [s \in Servers |-> [srv[s] EXCEPT !.rem = IF @ = 0 THEN 0 ELSE @ - 1]]
    /\ UNCHANGED <<pc, net, eth0, resolv, boot, networkConfigured, lost>>

-----------------------------------------------------------------------------
(* The rest of the boot.                                                   *)

\* criPhase seeds a resolver unless DHCP has run; a zero-C image skips it.
InitCri ==
    /\ boot = "cri" /\ boot' = "wan"
    /\ \/ UNCHANGED resolv
       \/ ~networkConfigured /\ resolv' = "seed"
    /\ UNCHANGED <<pc, cl, net, srv, eth0, networkConfigured, lost>>

\* probeOutboundTCP applies the static configuration as a fallback.
InitWan ==
    /\ boot = "wan" /\ boot' = "join"
    /\ \/ UNCHANGED eth0
       \/ ~networkConfigured /\ eth0' = eth0 \cup {Static}
    /\ UNCHANGED <<pc, cl, net, srv, resolv, networkConfigured, lost>>

\* A variant for mutation: the static address is added in any case.
configureEth0Always(e) == e \cup {Static}

\* configureEth0BestEffort, on the addresses e.
configureEth0BestEffort(e) == IF networkConfigured THEN e ELSE e \cup {Static}

\* joinFromBundle configures eth0, adds the node-ip as a /32 alias (by default
\* the number of the static address) and puts the bundle's resolver in place;
\* bootArgsJoin only configures eth0.
InitJoin ==
    /\ boot = "join" /\ boot' = "up"
    /\ \/ UNCHANGED <<eth0, resolv>>
       \/ eth0' = configureEth0BestEffort(eth0) /\ UNCHANGED resolv
       \/ /\ eth0' \in {configureEth0BestEffort(eth0), configureEth0BestEffort(eth0) \cup {Alias}}
          /\ resolv' \in {resolv, "bundle"}
    /\ UNCHANGED <<pc, cl, net, srv, networkConfigured, lost>>

-----------------------------------------------------------------------------
(* The specification.                                                      *)

Timeout == AcquireError \/ OfferTimeout \/ AckTimeout \/ CheckTimeout \/ RenewTimeout \/ RebindTimeout

Receive(m) ==
    \/ RecvOffer(m) \/ FirstAck(m) \/ FirstAckNoAddress(m) \/ ReacquireAck(m)
    \/ CheckAck(m) \/ RenewAck(m)

DhcpClient ==
    \/ Discover \/ Check \/ CheckRebind \/ Wake \/ Renew \/ Rebind \/ Timeout
    \/ \E m \in net : Receive(m)

Environment ==
    \/ \E m \in net : (\E s \in Servers : Offer(s, m)) \/ Answer(m) \/ Lose(m)
    \/ \E s \in Servers : GiveAway(s)
    \/ Tick

Next == DhcpClient \/ Environment \/ InitCri \/ InitWan \/ InitJoin

Spec == Init /\ [][Next]_vars

\* The client runs and its timeouts fire.  Nothing is assumed of the network.
FairSpec == Spec /\ WF_vars(DhcpClient)

-----------------------------------------------------------------------------
(* Properties.                                                             *)

\* recvDHCP: whatever is delayed or reordered, a lease the client takes is one
\* that a server has granted in this very exchange: no more of it is gone than
\* the wait for an ACK takes, and its address is nobody else's.
AdoptsFreshGrant ==
    [][ pc' # pc /\ pc' \in {"check", "sleepT1"} /\ net' # net
            => /\ srv[cl'.lease].rem + WaitTicks >= LeaseTicks
               /\ ~srv[cl'.lease].other ]_vars

\* The lease is long enough for the loop: T2 is counted from the end of what
\* comes before it, so the waits for the grant, for both REQUESTs of the check,
\* for the renewal and for the rebinding come on top.  At 7/8 of a lease that
\* is one of more than 160 s.  A lease time the server left out is an hour to the
\* loop, and the override has nothing to do with the lease: both may be too long.
Ample(sec) == T2(sec) + 5 * WaitTicks < LeaseTicks

\* T1 and T2 of dhcpRenewLoop: one unanswered renewal never costs the address.
\* When the lease is long enough for the loop, another host can have the
\* client's address only after the renewal and the rebinding have both failed.
OneMissIsHarmless ==
    cl.lease # None /\ Ample(cl.sec) /\ srv[cl.lease].other => cl.lease \in lost

\* applyLeaseDelta adds and never removes: the addresses the client put on eth0
\* are the lease, and those of leases that were lost.
AddressesAccounted ==
    eth0 \ {Static, Alias} \subseteq lost \cup {cl.lease}

\* networkConfigured keeps the static configuration from fighting DHCP: eth0
\* never has both, whatever the renewal goroutine does beside the boot.
StaticOrDhcp ==
    Static \in eth0 => eth0 \subseteq {Static, Alias} /\ ~networkConfigured

\* What is on eth0 is accounted for, in a well-formed state (applyLeaseDelta,
\* configureEth0BestEffort).
Eth0Accounted == TypeOK /\ AddressesAccounted /\ StaticOrDhcp

\* joinFromBundle: the resolver the join bundle ships stays the node's
\* resolver.
ResolverPinned ==
    [][ resolv = "bundle" => resolv' = "bundle" ]_vars

\* dhcpFirst never holds the boot up, even when nothing answers.
BootGoesOn == <>(boot # "dhcp")
=============================================================================
