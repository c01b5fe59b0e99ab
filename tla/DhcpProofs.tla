----------------------------- MODULE DhcpProofs -----------------------------
(***************************************************************************)
(* The DHCP client, for any number of servers, any lease length, waits and *)
(* override, and any number of messages on their way.  Three arguments are *)
(* put together: a message of the exchange the client is in was sent in    *)
(* that exchange (Unrequested, InExchange); no more of the lease of an ACK *)
(* it can take is gone than it has waited for the ACK (FreshAcks); and     *)
(* what is left of a lease that was not lost is bounded from below by      *)
(* where the loop is in its waits and its sleeps (TimeLeft).               *)
(***************************************************************************)
EXTENDS Dhcp, TLAPS

-----------------------------------------------------------------------------
(* The inductive invariant.                                                *)

Acquiring == {"discover", "offer", "ack"}
Checking == {"check", "checkAck", "checkRebind", "checkRebindAck"}
Waiting == {"checkAck", "checkRebindAck", "renewAck", "rebindAck"}
Awaiting == {"ack"} \cup Waiting

\* The messages name the server they come from or go to, and none is of a later
\* exchange than the client's.
Messages ==
    \A m \in net : /\ m.type = "DISCOVER" <=> m.server = None
                   /\ m.xid <= cl.xid

\* Three DISCOVERs at most.
Tries == pc = "discover" => cl.try < 3

\* Before the first lease there is none, and after a failed one no loop.
FirstLease ==
    /\ boot = "dhcp" => pc \in Acquiring /\ cl.lease = None /\ ~networkConfigured
                          /\ eth0 = {}
    /\ boot # "dhcp" => (pc = "ended" <=> ~networkConfigured)
    /\ boot # "dhcp" /\ pc # "ended" => cl.lease \in Servers
    /\ pc = "ended" => cl.lease = None

\* eth0 has the static configuration or that of DHCP.
OneConfiguration ==
    /\ networkConfigured => Static \notin eth0
    /\ ~networkConfigured => eth0 \subseteq {Static, Alias}

\* A lease that is looked for anew was lost before.
LostFirst == boot # "dhcp" /\ pc \in Acquiring \cup {"backoff"} => cl.lease \in lost

\* The answers to a renewal, a rebinding or the check are about the lease.
InExchange == pc \in Waiting => \A m \in net : m.xid = cl.xid => m.server = cl.lease

\* Before an OFFER is taken nothing was requested in the exchange.
Unrequested ==
    pc \in {"discover", "offer"} =>
        \A m \in net : m.xid = cl.xid => m.type \in {"DISCOVER", "OFFER"}

\* An ACK is waited for at most so long.
Patience == pc \in Awaiting => cl.timer <= WaitTicks

\* An ACK that the client can take is of a lease that was granted in this wait.
FreshAcks ==
    pc \in Awaiting =>
        \A m \in net : m.type = "ACK" /\ m.xid = cl.xid =>
            /\ srv[m.server].rem + WaitTicks >= LeaseTicks + cl.timer
            /\ ~srv[m.server].other

\* What the loop has used of the lease at most, c.timer still to come.
Used(p, c, rem) ==
    /\ p = "check" => rem + WaitTicks >= LeaseTicks
    /\ p = "checkAck" => rem + 2 * WaitTicks >= LeaseTicks + c.timer
    /\ p = "checkRebind" => rem + 2 * WaitTicks >= LeaseTicks
    /\ p = "checkRebindAck" => rem + 3 * WaitTicks >= LeaseTicks + c.timer
    /\ p = "sleepT1" => rem + T1(c.sec) + 3 * WaitTicks >= LeaseTicks + c.timer
    /\ p = "renew" => rem + T1(c.sec) + 3 * WaitTicks >= LeaseTicks
    /\ p = "renewAck" => rem + T1(c.sec) + 4 * WaitTicks >= LeaseTicks + c.timer
    /\ p = "sleepT2" => rem + T2(c.sec) + 4 * WaitTicks >= LeaseTicks + c.timer
    /\ p = "rebind" => rem + T2(c.sec) + 4 * WaitTicks >= LeaseTicks
    /\ p = "rebindAck" => rem + T2(c.sec) + 5 * WaitTicks >= LeaseTicks + c.timer

\* What is left of the lease, unless it was lost.
TimeLeft ==
    cl.lease # None /\ Ample(cl.sec) /\ cl.lease \notin lost =>
        /\ ~srv[cl.lease].other
        /\ Used(pc, cl, srv[cl.lease].rem)

IInv ==
    /\ TypeOK /\ Messages /\ Tries /\ FirstLease /\ OneConfiguration /\ LostFirst
    /\ AddressesAccounted /\ InExchange /\ Unrequested /\ Patience /\ FreshAcks /\ TimeLeft

-----------------------------------------------------------------------------
LEMMA Bounds ==
    /\ LeaseTicks \in Nat /\ HourTicks \in Nat /\ RenewTicks \in Nat
    /\ WaitTicks \in Nat /\ OfferTicks \in Nat /\ BackoffTicks \in Nat
    /\ WaitTicks < LeaseTicks
  BY DhcpAssumption

LEMMA Timers ==
    ASSUME NEW sec \in {0, LeaseTicks}
    PROVE  /\ T1(sec) \in Nat /\ T2(sec) \in Nat /\ T1(sec) <= T2(sec)
           /\ T2(sec) - T1(sec) \in Nat
<1>1. Dur(sec) \in Nat
  BY Bounds DEF Dur
<1>2. ASSUME NEW d \in Nat
      PROVE  d \div 2 \in Nat /\ (d * 7) \div 8 \in Nat /\ d \div 2 <= (d * 7) \div 8
  OBVIOUS
<1>3. T1(sec) \in Nat /\ T2(sec) \in Nat /\ T1(sec) <= T2(sec)
  BY <1>1, <1>2, Bounds DEF T1, T2
<1> HIDE DEF T1, T2
<1> QED BY <1>3

LEMMA Distinct == None \notin Servers /\ Static \notin Servers /\ Alias \notin Servers /\ Static # Alias
  BY DhcpAssumption

\* A datagram that is sent arrives on the network or is dropped.
LEMMA SendIs == ASSUME NEW n, NEW m PROVE Send(n, m) = n \/ Send(n, m) = n \cup {m}
  BY DEF Send

LEMMA MsgIs ==
    ASSUME NEW t, NEW x, NEW s
    PROVE  Msg(t, x, s).type = t /\ Msg(t, x, s).xid = x /\ Msg(t, x, s).server = s
  BY DEF Msg

LEMMA MsgType ==
    ASSUME NEW t \in {"DISCOVER", "OFFER", "REQUEST", "ACK", "NAK"}, NEW x \in 0 .. MaxXid,
           NEW s \in Lease
    PROVE  Msg(t, x, s) \in Message
  BY DEF Msg, Message

-----------------------------------------------------------------------------
(* The client's variables, one assignment after the other.                 *)

Same(c, d, fields) ==
    /\ "xid" \in fields => d.xid = c.xid
    /\ "lease" \in fields => d.lease = c.lease
    /\ "sec" \in fields => d.sec = c.sec
    /\ "timer" \in fields => d.timer = c.timer

LEMMA SetTry ==
    ASSUME NEW c \in Client
    PROVE  LET d == [c EXCEPT !.try = 0]
           IN  d \in Client /\ d.try = 0 /\ Same(c, d, {"xid", "lease", "sec", "timer"})
  BY DhcpAssumption DEF Client, Same

LEMMA SetOffer ==
    ASSUME NEW c \in Client
    PROVE  LET d == [c EXCEPT !.offer = None]
           IN  d \in Client /\ d.try = c.try /\ Same(c, d, {"xid", "lease", "sec", "timer"})
  BY DhcpAssumption DEF Client, Same, Lease

LEMMA SetTimer ==
    ASSUME NEW c \in Client, NEW t \in Nat
    PROVE  LET d == [c EXCEPT !.timer = t]
           IN  d \in Client /\ d.timer = t /\ d.try = c.try /\ Same(c, d, {"xid", "lease", "sec"})
  BY DhcpAssumption DEF Client, Same

LEMMA TimerSet ==
    ASSUME NEW c \in Client, NEW t \in Nat, NEW d, d = [c EXCEPT !.timer = t]
    PROVE  d \in Client /\ d.timer = t /\ d.xid = c.xid /\ d.lease = c.lease /\ d.sec = c.sec
  BY SetTimer DEF Same

LEMMA SetLease ==
    ASSUME NEW c \in Client, NEW s \in Servers
    PROVE  LET d == [c EXCEPT !.lease = s]
           IN  d \in Client /\ d.lease = s /\ d.try = c.try /\ Same(c, d, {"xid", "sec", "timer"})
  BY DhcpAssumption DEF Client, Same, Lease

LEMMA SetSec ==
    ASSUME NEW c \in Client, NEW t \in {0, LeaseTicks}
    PROVE  LET d == [c EXCEPT !.sec = t]
           IN  d \in Client /\ d.sec = t /\ d.try = c.try /\ Same(c, d, {"xid", "lease", "timer"})
  BY DhcpAssumption DEF Client, Same

LEMMA NextXid ==
    ASSUME NEW c \in Client, c.xid < MaxXid
    PROVE  LET d == [c EXCEPT !.xid = @ + 1]
           IN  d \in Client /\ d.xid = c.xid + 1 /\ d.try = c.try /\ Same(c, d, {"lease", "sec", "timer"})
  BY DhcpAssumption DEF Client, Same

\* dhcpAcquire gives up, in the boot and in the loop.
LEMMA GivenUp ==
    ASSUME NEW c \in Client, NEW d,
           NEW t \in Nat, d = [c EXCEPT !.try = 0, !.offer = None, !.timer = t]
    PROVE  d \in Client /\ Same(c, d, {"xid", "lease", "sec"})
<1> DEFINE a == [c EXCEPT !.try = 0]
           b == [a EXCEPT !.offer = None]
           e == [b EXCEPT !.timer = t]
<1>1. d = e
  OBVIOUS
<1>2. a \in Client /\ Same(c, a, {"xid", "lease", "sec"})
  BY SetTry DEF Same
<1> HIDE DEF a
<1>3. b \in Client /\ Same(c, b, {"xid", "lease", "sec"})
  BY <1>2, SetOffer DEF Same
<1> HIDE DEF b
<1>4. e \in Client /\ Same(c, e, {"xid", "lease", "sec"})
  BY <1>3, SetTimer DEF Same
<1> QED BY <1>1, <1>4

\* A lease is taken, with the lease time t.
Taken(c, s, t) ==
    [c EXCEPT !.lease = s, !.offer = None, !.try = 0, !.sec = t, !.timer = T1(t)]

LEMMA Granted ==
    ASSUME NEW c \in Client, NEW s \in Servers, NEW t \in {0, LeaseTicks},
           NEW d, d = Taken(c, s, t)
    PROVE  d \in Client /\ d.lease = s /\ d.sec = t /\ d.timer = T1(t) /\ d.xid = c.xid
<1> DEFINE a == [c EXCEPT !.lease = s]
           b == [a EXCEPT !.offer = None]
           e == [b EXCEPT !.try = 0]
           f == [e EXCEPT !.sec = t]
<1>1. d = [f EXCEPT !.timer = T1(t)]
  BY DEF Taken
<1>2. a \in Client /\ a.lease = s /\ a.xid = c.xid
  BY SetLease DEF Same
<1> HIDE DEF a
<1>3. b \in Client /\ b.lease = s /\ b.xid = c.xid
  BY <1>2, SetOffer DEF Same
<1> HIDE DEF b
<1>4. e \in Client /\ e.lease = s /\ e.xid = c.xid
  BY <1>3, SetTry DEF Same
<1> HIDE DEF e
<1>5. f \in Client /\ f.lease = s /\ f.xid = c.xid /\ f.sec = t
  BY <1>4, SetSec DEF Same
<1> HIDE DEF f
<1>6. LET g == [f EXCEPT !.timer = T1(t)]
      IN  g \in Client /\ g.timer = T1(t) /\ g.xid = f.xid /\ g.lease = f.lease /\ g.sec = f.sec
  BY <1>5, SetTimer, Timers DEF Same
<1> QED BY <1>1, <1>5, <1>6

\* The same lease, a later state: what was used of it need not be looked at.
LEMMA UsedStill ==
    ASSUME NEW p, NEW c \in Client, NEW rem \in Nat, NEW more \in Nat, more >= rem,
           Used(p, c, rem)
    PROVE  Used(p, c, more)
<1>1. T1(c.sec) \in Nat /\ T2(c.sec) \in Nat /\ c.timer \in Nat
  BY Timers DEF Client
<1> QED BY <1>1, Bounds DEF Used

LEMMA InitIInv == Init => IInv
<1> SUFFICES ASSUME Init PROVE IInv
  OBVIOUS
<1>1. TypeOK
  <2>1. cl \in Client
    BY DhcpAssumption DEF Init, Client, Lease
  <2>2. srv \in [Servers -> Server]
    BY DhcpAssumption DEF Init, Server
  <2> QED BY <2>1, <2>2 DEF Init, TypeOK, PCs
<1>2. Messages /\ Tries /\ FirstLease /\ OneConfiguration /\ LostFirst /\ AddressesAccounted
  BY DEF Init, Messages, Tries, FirstLease, OneConfiguration, LostFirst, AddressesAccounted, Acquiring
<1>3. InExchange /\ Unrequested /\ Patience /\ FreshAcks /\ TimeLeft
  BY DEF Init, InExchange, Unrequested, Patience, FreshAcks, TimeLeft, Awaiting, Waiting
<1> QED BY <1>1, <1>2, <1>3 DEF IInv

-----------------------------------------------------------------------------
(* The client: an exchange is begun.                                       *)

LEMMA RequestStep ==
    ASSUME IInv, Check \/ CheckRebind \/ Renew \/ Rebind
    PROVE  IInv'
<1>1. PICK from, to : SendRequest(from, to) /\ <<from, to>> \in {<<"check", "checkAck">>,
          <<"checkRebind", "checkRebindAck">>, <<"renew", "renewAck">>, <<"rebind", "rebindAck">>}
  BY DEF Check, CheckRebind, Renew, Rebind
<1>2. /\ pc = from /\ pc' = to /\ cl.xid < MaxXid
      /\ cl' = [cl EXCEPT !.xid = @ + 1, !.timer = WaitTicks]
      /\ net' = Send(net, Msg("REQUEST", cl.xid + 1, cl.lease))
      /\ UNCHANGED <<srv, eth0, resolv, boot, networkConfigured, lost>>
  BY <1>1 DEF SendRequest
<1>3. from \in {"check", "checkRebind", "renew", "rebind"} /\ to \in Waiting
  BY <1>1 DEF Waiting
<1>4. cl \in Client /\ cl.lease \in Servers
  BY <1>2, <1>3 DEF IInv, TypeOK, FirstLease, Acquiring
<1>5. /\ cl' \in Client /\ cl'.xid = cl.xid + 1 /\ cl'.lease = cl.lease
      /\ cl'.sec = cl.sec /\ cl'.timer = WaitTicks
  <2> DEFINE a == [cl EXCEPT !.xid = @ + 1]
  <2>1. a \in Client /\ a.xid = cl.xid + 1 /\ a.lease = cl.lease /\ a.sec = cl.sec
    BY <1>2, <1>4, NextXid DEF Same
  <2>2. cl' = [a EXCEPT !.timer = WaitTicks]
    BY <1>2
  <2> HIDE DEF a
  <2> QED BY <2>1, <2>2, SetTimer, Bounds DEF Same
<1>6. \A m \in net' : m \in net \/ m = Msg("REQUEST", cl.xid + 1, cl.lease)
  BY <1>2, SendIs
<1>7. TypeOK'
  <2>1. Msg("REQUEST", cl.xid + 1, cl.lease) \in Message
    <3>1. cl.xid + 1 \in 0 .. MaxXid /\ cl.lease \in Lease
      BY <1>2, <1>4, DhcpAssumption DEF Client, Lease
    <3> QED BY <3>1, MsgType
  <2> QED BY <1>2, <1>3, <1>5, <1>6, <2>1 DEF IInv, TypeOK, PCs, Waiting
<1>8. Messages'
  BY <1>4, <1>5, <1>6, MsgIs, Distinct DEF IInv, TypeOK, Messages, Client, Message
<1>9. InExchange'
  BY <1>4, <1>5, <1>6, MsgIs DEF IInv, TypeOK, Messages, InExchange, Client, Message
<1>10. FreshAcks'
  BY <1>4, <1>5, <1>6, MsgIs DEF IInv, TypeOK, Messages, FreshAcks, Client, Message
<1>11. TimeLeft'
  <2> SUFFICES ASSUME Ample(cl.sec), cl.lease \notin lost
               PROVE  ~srv[cl.lease].other /\ Used(pc', cl', srv[cl.lease].rem)
    BY <1>2, <1>5 DEF TimeLeft, Ample
  <2>1. ~srv[cl.lease].other /\ Used(from, cl, srv[cl.lease].rem)
    BY <1>2, <1>4, Distinct DEF IInv, TimeLeft
  <2>2. srv[cl.lease].rem \in Nat /\ T1(cl.sec) \in Nat /\ T2(cl.sec) \in Nat
    BY <1>4, Bounds, Timers DEF IInv, TypeOK, Server, Client
  <2>3. Used(pc', cl', srv[cl.lease].rem)
    BY <1>1, <1>2, <1>5, <2>1, <2>2, Bounds DEF Used
  <2> QED BY <2>1, <2>3
<1>12. Unrequested' /\ Patience'
  BY <1>2, <1>3, <1>5, Bounds DEF Unrequested, Patience, Waiting
<1>13. Tries' /\ FirstLease' /\ OneConfiguration' /\ LostFirst' /\ AddressesAccounted'
  BY <1>2, <1>3, <1>5 DEF IInv, Tries, FirstLease, OneConfiguration, LostFirst,
     AddressesAccounted, Waiting, Acquiring
<1> QED BY <1>7, <1>8, <1>9, <1>10, <1>11, <1>12, <1>13 DEF IInv

LEMMA DiscoverStep ==
    ASSUME IInv, Discover
    PROVE  IInv'
<1>1. /\ pc = "discover" /\ pc' = "offer"
      /\ cl' = [cl EXCEPT !.try = @ + 1, !.timer = OfferTicks]
      /\ net' = Send(net, Msg("DISCOVER", cl.xid, None))
      /\ UNCHANGED <<srv, eth0, resolv, boot, networkConfigured, lost>>
  BY DEF Discover
<1>2. cl \in Client
  BY DEF IInv, TypeOK
<1>3. cl' \in Client /\ cl'.xid = cl.xid /\ cl'.lease = cl.lease /\ cl'.sec = cl.sec
  <2> DEFINE a == [cl EXCEPT !.try = @ + 1]
  <2>1. a \in Client /\ a.xid = cl.xid /\ a.lease = cl.lease /\ a.sec = cl.sec
    BY <1>1, <1>2 DEF Client, IInv, Tries
  <2>2. cl' = [a EXCEPT !.timer = OfferTicks]
    BY <1>1
  <2> HIDE DEF a
  <2> QED BY <2>1, <2>2, SetTimer, Bounds DEF Same
<1>4. \A m \in net' : m \in net \/ m = Msg("DISCOVER", cl.xid, None)
  BY <1>1, SendIs
<1>5. TypeOK'
  <2>1. Msg("DISCOVER", cl.xid, None) \in Message
    BY <1>2, MsgType DEF Client, Lease
  <2> QED BY <1>1, <1>3, <1>4, <2>1 DEF IInv, TypeOK, PCs
<1>6. Messages' /\ Unrequested' /\ Patience' /\ FreshAcks'
  BY <1>1, <1>2, <1>3, <1>4, MsgIs DEF IInv, TypeOK, Messages, Unrequested, Patience, FreshAcks,
     Client, Awaiting, Waiting
<1>7. Tries' /\ FirstLease' /\ OneConfiguration' /\ LostFirst' /\ AddressesAccounted'
      /\ InExchange' /\ TimeLeft'
  BY <1>1, <1>3 DEF IInv, Tries, FirstLease, OneConfiguration, LostFirst, AddressesAccounted,
     InExchange, TimeLeft, Used, Ample, Acquiring, Waiting, Checking
<1> QED BY <1>5, <1>6, <1>7 DEF IInv

LEMMA RecvOfferStep ==
    ASSUME IInv, NEW m \in net, RecvOffer(m)
    PROVE  IInv'
<1>1. /\ pc = "offer" /\ pc' = "ack" /\ m.type = "OFFER"
      /\ cl' = [cl EXCEPT !.offer = m.server, !.timer = WaitTicks]
      /\ net' = Send(net \ {m}, Msg("REQUEST", cl.xid, m.server))
      /\ UNCHANGED <<srv, eth0, resolv, boot, networkConfigured, lost>>
  BY DEF RecvOffer, recvDHCP
<1>2. cl \in Client /\ m.server \in Servers
  BY <1>1 DEF IInv, TypeOK, Messages, Message, Lease
<1>3. /\ cl' \in Client /\ cl'.xid = cl.xid /\ cl'.lease = cl.lease
      /\ cl'.sec = cl.sec /\ cl'.timer = WaitTicks
  <2> DEFINE a == [cl EXCEPT !.offer = m.server]
  <2>1. a \in Client /\ a.xid = cl.xid /\ a.lease = cl.lease /\ a.sec = cl.sec
    BY <1>2 DEF Client, Lease
  <2>2. cl' = [a EXCEPT !.timer = WaitTicks]
    BY <1>1
  <2> HIDE DEF a
  <2> QED BY <2>1, <2>2, SetTimer, Bounds DEF Same
<1>4. \A n \in net' : n \in net \/ n = Msg("REQUEST", cl.xid, m.server)
  BY <1>1, SendIs
<1>5. TypeOK'
  <2>1. Msg("REQUEST", cl.xid, m.server) \in Message
    BY <1>2, MsgType DEF Client, Lease
  <2> QED BY <1>1, <1>3, <1>4, <2>1 DEF IInv, TypeOK, PCs
<1>6. Messages'
  <2>1. LET n == Msg("REQUEST", cl.xid, m.server)
        IN  n.type # "DISCOVER" /\ n.server # None /\ n.xid <= cl.xid
    BY <1>2, MsgIs, Distinct, DhcpAssumption DEF Client
  <2> QED BY <1>3, <1>4, <2>1 DEF IInv, Messages
<1>7. FreshAcks' /\ Unrequested' /\ Patience'
  <2>1. \A n \in net : n.xid = cl.xid => n.type # "ACK"
    BY <1>1 DEF IInv, Unrequested
  <2>2. \A n \in net' : n.xid = cl.xid => n.type # "ACK"
    BY <1>4, <2>1, MsgIs
  <2> QED BY <1>1, <1>3, <2>2, Bounds DEF FreshAcks, Unrequested, Patience
<1>8. Tries' /\ FirstLease' /\ OneConfiguration' /\ LostFirst' /\ AddressesAccounted'
      /\ InExchange' /\ TimeLeft'
  BY <1>1, <1>3 DEF IInv, Tries, FirstLease, OneConfiguration, LostFirst, AddressesAccounted,
     InExchange, TimeLeft, Used, Ample, Acquiring, Waiting, Checking
<1> QED BY <1>5, <1>6, <1>7, <1>8 DEF IInv
-----------------------------------------------------------------------------
(* The client: an exchange ends without an answer.                         *)

LEMMA AcquireFailsStep ==
    ASSUME IInv, pc \in Acquiring, AcquireFails
    PROVE  IInv'
<1>0. cl \in Client
  BY DEF IInv, TypeOK
<1>1. UNCHANGED <<net, srv, eth0, resolv, networkConfigured, lost>>
  BY DEF AcquireFails
<1>2. CASE boot = "dhcp"
  <2>1. pc' = "ended" /\ boot' = "cri" /\ cl' = [cl EXCEPT !.try = 0, !.offer = None, !.timer = 0]
    BY <1>2 DEF AcquireFails
  <2>2. cl' \in Client /\ cl'.xid = cl.xid /\ cl'.lease = cl.lease
    BY <1>0, <2>1, GivenUp, Bounds DEF Same
  <2>3. TypeOK'
    BY <1>1, <2>1, <2>2 DEF IInv, TypeOK, PCs
  <2> QED BY <1>1, <1>2, <2>1, <2>2, <2>3 DEF IInv, Messages, Tries, FirstLease, OneConfiguration,
        LostFirst, AddressesAccounted, InExchange, Unrequested, Patience, FreshAcks, TimeLeft, Used,
        Acquiring, Awaiting, Waiting
<1>3. CASE boot # "dhcp"
  <2>1. /\ pc' = "backoff" /\ boot' = boot
        /\ cl' = [cl EXCEPT !.try = 0, !.offer = None, !.timer = BackoffTicks]
    BY <1>3 DEF AcquireFails
  <2>2. cl' \in Client /\ cl'.xid = cl.xid /\ cl'.lease = cl.lease
    BY <1>0, <2>1, GivenUp, Bounds DEF Same
  <2>3. TypeOK'
    BY <1>1, <2>1, <2>2 DEF IInv, TypeOK, PCs
  <2>4. cl.lease \in lost
    BY <1>3 DEF IInv, LostFirst
  <2> QED BY <1>1, <1>3, <2>1, <2>2, <2>3, <2>4 DEF IInv, Messages, Tries, FirstLease,
        OneConfiguration, LostFirst, AddressesAccounted, InExchange, Unrequested, Patience, FreshAcks,
        TimeLeft, Used, Acquiring, Awaiting, Waiting
<1> QED BY <1>2, <1>3

LEMMA TimeoutStep ==
    ASSUME IInv, Timeout
    PROVE  IInv'
<1>0. cl \in Client
  BY DEF IInv, TypeOK
<1>1. CASE AcquireError \/ AckTimeout \/ (OfferTimeout /\ cl.try = 3)
  BY <1>1, AcquireFailsStep DEF AcquireError, AckTimeout, OfferTimeout, Acquiring
<1>2. CASE OfferTimeout /\ cl.try # 3
  <2>1. /\ pc = "offer" /\ pc' = "discover" /\ cl.try < 3
        /\ cl' = [cl EXCEPT !.timer = 0]
        /\ UNCHANGED <<net, srv, eth0, resolv, boot, networkConfigured, lost>>
    BY <1>2 DEF OfferTimeout
  <2>2. /\ cl' \in Client /\ cl'.xid = cl.xid /\ cl'.lease = cl.lease
        /\ cl'.try = cl.try /\ cl'.sec = cl.sec
    BY <1>0, <2>1, SetTimer DEF Same
  <2> QED BY <2>1, <2>2 DEF IInv, TypeOK, PCs, Messages, Tries, FirstLease, OneConfiguration,
        LostFirst, AddressesAccounted, InExchange, Unrequested, Patience, FreshAcks, TimeLeft, Used,
        Ample, Acquiring, Awaiting, Waiting
<1>3. CASE CheckTimeout \/ RenewTimeout
  <2> DEFINE t == cl'.timer
  <2>1. /\ \/ /\ pc = "checkAck" /\ pc' = "checkRebind"
              /\ cl' = [cl EXCEPT !.timer = 0]
           \/ /\ pc = "checkRebindAck" /\ pc' = "sleepT1"
              /\ cl' = [cl EXCEPT !.timer = T1(cl.sec)]
           \/ /\ pc = "renewAck" /\ pc' = "sleepT2"
              /\ cl' = [cl EXCEPT !.timer = T2(cl.sec) - T1(cl.sec)]
        /\ UNCHANGED <<net, srv, eth0, resolv, boot, networkConfigured, lost>>
    BY <1>3 DEF CheckTimeout, RenewTimeout
  <2>2. /\ T1(cl.sec) \in Nat /\ T2(cl.sec) \in Nat /\ T2(cl.sec) - T1(cl.sec) \in Nat
        /\ cl.timer \in Nat
    BY <1>0, Timers DEF Client
  <2>3. /\ cl' \in Client /\ cl'.xid = cl.xid /\ cl'.lease = cl.lease /\ cl'.sec = cl.sec
        /\ \/ pc = "checkAck" /\ pc' = "checkRebind" /\ t = 0
           \/ pc = "checkRebindAck" /\ pc' = "sleepT1" /\ t = T1(cl.sec)
           \/ pc = "renewAck" /\ pc' = "sleepT2" /\ t = T2(cl.sec) - T1(cl.sec)
    <3> DEFINE Goal(u) == /\ cl' \in Client /\ cl'.xid = cl.xid /\ cl'.lease = cl.lease
                          /\ cl'.sec = cl.sec /\ t = u
    <3>1. ASSUME NEW u \in Nat, cl' = [cl EXCEPT !.timer = u]
          PROVE  Goal(u)
      BY <1>0, <3>1, TimerSet
    <3> HIDE DEF Goal
    <3>2. \/ pc = "checkAck" /\ pc' = "checkRebind" /\ Goal(0)
          \/ pc = "checkRebindAck" /\ pc' = "sleepT1" /\ Goal(T1(cl.sec))
          \/ pc = "renewAck" /\ pc' = "sleepT2" /\ Goal(T2(cl.sec) - T1(cl.sec))
      BY <2>1, <2>2, <3>1
    <3> QED BY <3>2 DEF Goal
  <2>4. TimeLeft'
    <3> SUFFICES ASSUME cl.lease # None, Ample(cl.sec), cl.lease \notin lost
                 PROVE  ~srv[cl.lease].other /\ Used(pc', cl', srv[cl.lease].rem)
      BY <2>1, <2>3 DEF TimeLeft, Ample
    <3>1. ~srv[cl.lease].other /\ Used(pc, cl, srv[cl.lease].rem)
      BY DEF IInv, TimeLeft
    <3>2. srv[cl.lease].rem \in Nat
      BY <1>0, Bounds DEF IInv, TypeOK, Server, Client, Lease
    <3>3. Used(pc', cl', srv[cl.lease].rem)
      <4> HIDE DEF T1, T2
      <4> QED BY <2>2, <2>3, <3>1, <3>2, Bounds DEF Used
    <3> QED BY <3>1, <3>3
  <2> QED BY <2>1, <2>3, <2>4 DEF IInv, TypeOK, PCs, Messages, Tries, FirstLease, OneConfiguration,
        LostFirst, AddressesAccounted, InExchange, Unrequested, Patience, FreshAcks, Acquiring,
        Awaiting, Waiting
<1>4. CASE RebindTimeout
  <2>1. /\ pc = "rebindAck" /\ pc' = "discover" /\ cl.xid < MaxXid
        /\ cl' = [cl EXCEPT !.xid = @ + 1, !.try = 0, !.timer = 0]
        /\ lost' = lost \cup {cl.lease}
        /\ UNCHANGED <<net, srv, eth0, resolv, boot, networkConfigured>>
    BY <1>4 DEF RebindTimeout
  <2>2. /\ cl' \in Client /\ cl'.xid = cl.xid + 1 /\ cl'.lease = cl.lease /\ cl'.try = 0
        /\ cl.xid \in Nat
    <3> DEFINE a == [cl EXCEPT !.xid = @ + 1]
               b == [a EXCEPT !.try = 0]
    <3>1. a \in Client /\ a.xid = cl.xid + 1 /\ a.lease = cl.lease
      BY <1>0, <2>1, NextXid DEF Same
    <3>2. cl' = [b EXCEPT !.timer = 0]
      BY <2>1
    <3> HIDE DEF a
    <3>3. b \in Client /\ b.xid = cl.xid + 1 /\ b.lease = cl.lease /\ b.try = 0
      BY <3>1, SetTry DEF Same
    <3> HIDE DEF b
    <3>4. cl' \in Client /\ cl'.xid = cl.xid + 1 /\ cl'.lease = cl.lease /\ cl'.try = 0
      BY <3>2, <3>3, SetTimer DEF Same
    <3> QED BY <1>0, <3>4, DhcpAssumption DEF Client
  <2>3. cl.lease \in Servers
    BY <2>1 DEF IInv, FirstLease, Acquiring
  <2>4. \A m \in net : m.xid \in Nat /\ m.xid # cl'.xid /\ m.xid <= cl'.xid
    <3>1. \A m \in net : m.xid \in Nat /\ m.xid <= cl.xid
      BY DhcpAssumption DEF IInv, TypeOK, Message, Messages
    <3> QED BY <2>2, <3>1
  <2>5. TypeOK'
    BY <2>1, <2>2, <2>3 DEF IInv, TypeOK, PCs
  <2>6. Messages' /\ FreshAcks' /\ Unrequested' /\ Patience'
    BY <2>1, <2>4 DEF IInv, Messages, FreshAcks, Unrequested, Patience, Awaiting, Waiting
  <2> QED BY <2>1, <2>2, <2>3, <2>5, <2>6 DEF IInv, Tries, FirstLease, OneConfiguration,
        LostFirst, AddressesAccounted, InExchange, TimeLeft, Acquiring, Waiting
<1> QED BY <1>1, <1>2, <1>3, <1>4 DEF Timeout

LEMMA WakeStep ==
    ASSUME IInv, Wake
    PROVE  IInv'
<1>0. cl \in Client
  BY DEF IInv, TypeOK
<1>1. /\ pc \in Sleeping /\ cl.timer = 0
      /\ \/ pc = "sleepT1" /\ pc' = "renew" /\ UNCHANGED cl
         \/ pc = "sleepT2" /\ pc' = "rebind" /\ UNCHANGED cl
         \/ pc = "backoff" /\ pc' = "sleepT1" /\ cl' = [cl EXCEPT !.timer = T1(cl.sec)]
      /\ UNCHANGED <<net, srv, eth0, resolv, boot, networkConfigured, lost>>
  BY DEF Wake
<1>2. /\ T1(cl.sec) \in Nat /\ T2(cl.sec) \in Nat
      /\ cl' \in Client /\ cl'.xid = cl.xid /\ cl'.lease = cl.lease /\ cl'.sec = cl.sec
  <2>1. T1(cl.sec) \in Nat /\ T2(cl.sec) \in Nat
    BY <1>0, Timers DEF Client
  <2>2. CASE cl' = cl
    BY <1>0, <2>1, <2>2
  <2>3. CASE cl' = [cl EXCEPT !.timer = T1(cl.sec)]
    BY <1>0, <2>1, <2>3, TimerSet
  <2> QED BY <1>1, <2>2, <2>3
<1>3. pc = "backoff" => cl.lease \in lost
  BY DEF IInv, LostFirst, FirstLease, Acquiring
<1>4. TimeLeft'
  <2> SUFFICES ASSUME cl.lease # None, Ample(cl.sec), cl.lease \notin lost
               PROVE  ~srv[cl.lease].other /\ Used(pc', cl', srv[cl.lease].rem)
    BY <1>1, <1>2 DEF TimeLeft, Ample
  <2>1. ~srv[cl.lease].other /\ Used(pc, cl, srv[cl.lease].rem)
    BY DEF IInv, TimeLeft
  <2>2. cl' = cl /\ cl.timer = 0
        /\ \/ pc = "sleepT1" /\ pc' = "renew"
           \/ pc = "sleepT2" /\ pc' = "rebind"
    BY <1>1, <1>3
  <2>3. srv[cl.lease].rem \in Nat
    BY <1>0, Bounds DEF IInv, TypeOK, Server, Client, Lease
  <2> QED BY <1>2, <2>1, <2>2, <2>3, Bounds DEF Used
<1> QED BY <1>1, <1>2, <1>4 DEF IInv, TypeOK, PCs, Messages, Tries, FirstLease, OneConfiguration,
      LostFirst, AddressesAccounted, InExchange, Unrequested, Patience, FreshAcks, Acquiring,
      Awaiting, Waiting
-----------------------------------------------------------------------------
(* The client: a lease is granted.                                         *)

\* FirstAck, ReacquireAck, CheckAck and RenewAck have in common that they take an
\* ACK of their exchange and go to sleep or to the check.
TakesAck(m) ==
    /\ recvDHCP(m, "ACK") /\ (\E was \in {0, cl.sec} : Grant(m.server, was)) /\ net' = net \ {m}
    /\ eth0' \in {eth0, eth0 \cup {m.server}} /\ resolv' \in {resolv, "dhcp"}
    /\ \/ /\ pc = "ack" /\ boot = "dhcp"
          /\ pc' = "check" /\ boot' = "cri" /\ networkConfigured' = TRUE
       \/ /\ pc \in {"ack"} \cup Waiting /\ boot # "dhcp"
          /\ pc' = "sleepT1" /\ UNCHANGED <<boot, networkConfigured>>
    /\ UNCHANGED srv

LEMMA AckTaken ==
    ASSUME IInv, NEW m \in net,
           FirstAck(m) \/ ReacquireAck(m) \/ CheckAck(m) \/ RenewAck(m)
    PROVE  TakesAck(m)
<1>1. CASE FirstAck(m)
  BY <1>1 DEF FirstAck, TakesAck, writeResolvConf
<1>2. CASE ReacquireAck(m)
  BY <1>2 DEF ReacquireAck, TakesAck, applyLeaseDelta, writeResolvConf
<1>3. CASE CheckAck(m)
  BY <1>3 DEF IInv, FirstLease, Acquiring, CheckAck, TakesAck, Waiting
<1>4. CASE RenewAck(m)
  BY <1>4 DEF IInv, FirstLease, Acquiring, RenewAck, TakesAck, Waiting, applyLeaseDelta,
     writeResolvConf
<1> QED BY <1>1, <1>2, <1>3, <1>4

\* What is taken is a lease of which no more than the wait is gone.
LEMMA AckIsFresh ==
    ASSUME IInv, NEW m \in net, TakesAck(m)
    PROVE  /\ m.server \in Servers /\ cl' \in Client
           /\ cl'.lease = m.server /\ cl'.timer = T1(cl'.sec) /\ cl'.xid = cl.xid
           /\ lost' = lost \ {m.server}
           /\ srv[m.server].rem + WaitTicks >= LeaseTicks /\ ~srv[m.server].other
<1>1. m.type = "ACK" /\ m.xid = cl.xid
  BY DEF TakesAck, recvDHCP
<1>2. m.server \in Servers
  BY <1>1 DEF IInv, TypeOK, Messages, Message, Lease
<1>3. cl \in Client /\ lost' = lost \ {m.server} /\ cl.sec \in {0, LeaseTicks}
  BY DEF TakesAck, Grant, IInv, TypeOK, Client
<1>4. PICK t \in {0, LeaseTicks} : cl' = Taken(cl, m.server, t)
  BY <1>3 DEF TakesAck, Grant, Taken
<1>5. cl' \in Client /\ cl'.lease = m.server /\ cl'.timer = T1(cl'.sec) /\ cl'.xid = cl.xid
  <2>1. /\ cl' \in Client /\ cl'.lease = m.server /\ cl'.sec = t /\ cl'.timer = T1(t)
        /\ cl'.xid = cl.xid
    BY <1>2, <1>3, <1>4, Granted
  <2> QED BY <2>1
<1>6. pc \in Awaiting
  BY DEF TakesAck, Awaiting
<1>7. srv[m.server].rem + WaitTicks >= LeaseTicks + cl.timer /\ ~srv[m.server].other
  BY <1>1, <1>6 DEF IInv, FreshAcks
<1>8. srv[m.server].rem \in Nat /\ cl.timer \in Nat
  BY <1>2, <1>3, Bounds DEF IInv, TypeOK, Server, Client
<1>9. srv[m.server].rem + WaitTicks >= LeaseTicks
  BY <1>7, <1>8, Bounds
<1> QED BY <1>2, <1>3, <1>5, <1>7, <1>9

LEMMA GrantStep ==
    ASSUME IInv, NEW m \in net, TakesAck(m)
    PROVE  IInv'
<1>1. /\ m.server \in Servers /\ cl' \in Client
      /\ cl'.lease = m.server /\ cl'.timer = T1(cl'.sec) /\ cl'.xid = cl.xid
      /\ lost' = lost \ {m.server}
      /\ srv[m.server].rem + WaitTicks >= LeaseTicks /\ ~srv[m.server].other
  BY AckIsFresh
<1>2. /\ net' = net \ {m} /\ srv' = srv
      /\ eth0' \in {eth0, eth0 \cup {m.server}} /\ resolv' \in {resolv, "dhcp"}
      /\ pc' \in {"check", "sleepT1"} /\ boot' \in {"cri", boot} /\ boot' # "dhcp"
      /\ networkConfigured' \in BOOLEAN
  BY DEF TakesAck, IInv, TypeOK
<1>3. networkConfigured'
  BY DEF TakesAck, IInv, FirstLease, Waiting
<1>4. TypeOK'
  BY <1>1, <1>2 DEF IInv, TypeOK, PCs
<1>5. Messages' /\ InExchange' /\ Unrequested' /\ Patience' /\ FreshAcks' /\ Tries'
  BY <1>1, <1>2 DEF IInv, Messages, InExchange, Unrequested, Patience, FreshAcks, Tries, Awaiting,
     Waiting
<1>6. FirstLease' /\ LostFirst'
  BY <1>1, <1>2, <1>3 DEF FirstLease, LostFirst, Acquiring
<1>7. OneConfiguration'
  <2>1. Static \notin eth0
    BY DEF TakesAck, IInv, FirstLease, OneConfiguration, Waiting
  <2> QED BY <1>1, <1>2, <1>3, <2>1, Distinct DEF OneConfiguration
<1>8. AddressesAccounted'
  <2>1. eth0 = {} \/ cl.lease \in lost \/ cl.lease = m.server
    <3>1. m.xid = cl.xid
      BY DEF TakesAck, recvDHCP
    <3> QED BY <3>1 DEF TakesAck, IInv, FirstLease, LostFirst, InExchange, Acquiring
  <2>2. eth0 \ {Static, Alias} \subseteq lost \cup {cl.lease}
    BY DEF IInv, AddressesAccounted
  <2> QED BY <1>1, <1>2, <2>1, <2>2 DEF AddressesAccounted
<1>9. TimeLeft'
  <2>1. srv[m.server].rem \in Nat /\ T1(cl'.sec) \in Nat /\ cl'.sec \in {0, LeaseTicks}
    BY <1>1, Bounds, Timers DEF IInv, TypeOK, Server, Client
  <2>2. Used(pc', cl', srv[m.server].rem)
    BY <1>1, <1>2, <2>1, Bounds DEF Used
  <2> QED BY <1>1, <1>2, <2>2 DEF TimeLeft
<1> QED BY <1>4, <1>5, <1>6, <1>7, <1>8, <1>9 DEF IInv

\* dhcpFirst has a lease and cannot use it.
LEMMA NoAddressStep ==
    ASSUME IInv, NEW m \in net, FirstAckNoAddress(m)
    PROVE  IInv'
<1>1. /\ pc = "ack" /\ boot = "dhcp" /\ pc' = "ended" /\ boot' = "cri" /\ net' = net \ {m}
      /\ UNCHANGED <<cl, srv, eth0, resolv, networkConfigured, lost>>
  BY DEF FirstAckNoAddress
<1> QED BY <1>1 DEF IInv, TypeOK, PCs, Messages, Tries, FirstLease, OneConfiguration, LostFirst,
      AddressesAccounted, InExchange, Unrequested, Patience, FreshAcks, TimeLeft, Used, Acquiring,
      Awaiting, Waiting

-----------------------------------------------------------------------------
(* The servers, the network and the clock.                                 *)

LEMMA OfferStep ==
    ASSUME IInv, NEW m \in net, NEW s \in Servers, Offer(s, m)
    PROVE  IInv'
<1>1. /\ m.type = "DISCOVER" /\ net' = Send(net, Msg("OFFER", m.xid, s))
      /\ UNCHANGED <<pc, cl, srv, eth0, resolv, boot, networkConfigured, lost>>
  BY DEF Offer
<1>2. \A n \in net' : n \in net \/ n = Msg("OFFER", m.xid, s)
  BY <1>1, SendIs
<1>3. m.xid \in 0 .. MaxXid /\ m.xid <= cl.xid /\ m.server = None
  BY <1>1 DEF IInv, TypeOK, Message, Messages
<1>4. TypeOK'
  <2>1. Msg("OFFER", m.xid, s) \in Message
    BY <1>3, MsgType DEF Lease
  <2> QED BY <1>1, <1>2, <2>1 DEF IInv, TypeOK
<1>5. Messages'
  <2>1. LET n == Msg("OFFER", m.xid, s) IN n.type # "DISCOVER" /\ n.server # None /\ n.xid <= cl.xid
    BY <1>3, MsgIs, Distinct
  <2> QED BY <1>1, <1>2, <2>1 DEF IInv, Messages
<1>6. InExchange'
  <2>1. pc \in Waiting => m.xid # cl.xid
    <3>1. pc \in Waiting => cl.lease \in Servers
      BY DEF IInv, FirstLease, Waiting, Acquiring
    <3> QED BY <1>3, <3>1, Distinct DEF IInv, InExchange
  <2> QED BY <1>1, <1>2, <2>1, MsgIs DEF IInv, InExchange
<1>7. FreshAcks' /\ Unrequested' /\ Patience'
  BY <1>1, <1>2, MsgIs DEF IInv, FreshAcks, Unrequested, Patience
<1> QED BY <1>1, <1>4, <1>5, <1>6, <1>7 DEF IInv, Tries, FirstLease, OneConfiguration, LostFirst,
      AddressesAccounted, TimeLeft

LEMMA AnswerStep ==
    ASSUME IInv, NEW m \in net, Answer(m)
    PROVE  IInv'
<1> DEFINE s == m.server
<1>1. /\ m.type = "REQUEST"
      /\ UNCHANGED <<pc, cl, eth0, resolv, boot, networkConfigured, lost>>
  BY DEF Answer
<1>2. s \in Servers /\ m.xid \in 0 .. MaxXid /\ m.xid <= cl.xid /\ m \in Message
  BY <1>1 DEF IInv, TypeOK, Messages, Message, Lease
<1>3. PICK t \in {"ACK", "NAK"} : /\ net' = Send(net \ {m}, Msg(t, m.xid, s))
                                 /\ IF t = "NAK" THEN srv' = srv
                                    ELSE ~srv[s].other /\ srv' = [srv EXCEPT ![s].rem = LeaseTicks]
  BY DEF Answer
<1>4. \A n \in net' : n \in net \/ n = Msg(t, m.xid, s)
  BY <1>3, SendIs
<1>5. srv' \in [Servers -> Server]
  <2>1. [srv[s] EXCEPT !.rem = LeaseTicks] \in Server
    <3>1. srv[s] \in Server
      BY <1>2 DEF IInv, TypeOK
    <3> QED BY <3>1, DhcpAssumption DEF Server
  <2> QED BY <1>3, <2>1 DEF IInv, TypeOK
<1>6. \A r \in Servers : /\ srv'[r].other <=> srv[r].other
                         /\ srv'[r].rem = srv[r].rem \/ srv'[r].rem = LeaseTicks
                         /\ srv[r].rem \in 0 .. LeaseTicks
  BY <1>3 DEF IInv, TypeOK, Server
<1>7. t = "ACK" => srv'[s].rem = LeaseTicks /\ ~srv'[s].other
  BY <1>2, <1>3 DEF IInv, TypeOK, Server
<1>8. TypeOK'
  <2>1. Msg(t, m.xid, s) \in Message
    BY <1>2, MsgType DEF Lease
  <2> QED BY <1>1, <1>4, <1>5, <2>1 DEF IInv, TypeOK
<1>9. Messages'
  <2>1. LET n == Msg(t, m.xid, s) IN n.type # "DISCOVER" /\ n.server # None /\ n.xid <= cl.xid
    BY <1>2, MsgIs, Distinct
  <2> QED BY <1>1, <1>4, <2>1 DEF IInv, Messages
<1>10. InExchange'
  BY <1>1, <1>4, MsgIs DEF IInv, InExchange
<1>11. FreshAcks'
  <2> SUFFICES ASSUME pc \in Awaiting, NEW n \in net', n.type = "ACK", n.xid = cl.xid
               PROVE  /\ srv'[n.server].rem + WaitTicks >= LeaseTicks + cl.timer
                      /\ ~srv'[n.server].other
    BY <1>1 DEF FreshAcks
  <2>0. cl.timer \in Nat /\ cl.timer <= WaitTicks
    BY DEF IInv, TypeOK, Client, Patience
  <2>1. CASE n \in net
    <3>1. n.server \in Servers
      BY <2>1 DEF IInv, TypeOK, Messages, Message, Lease
    <3>2. srv[n.server].rem + WaitTicks >= LeaseTicks + cl.timer /\ ~srv[n.server].other
      BY <2>1 DEF IInv, FreshAcks
    <3>3. srv'[n.server].rem = srv[n.server].rem \/ srv'[n.server].rem = LeaseTicks
      BY <1>6, <3>1
    <3>4. ~srv'[n.server].other
      BY <1>6, <3>1, <3>2
    <3> QED BY <2>0, <3>2, <3>3, <3>4, Bounds
  <2>2. CASE n = Msg(t, m.xid, s)
    <3>1. srv'[n.server].rem = LeaseTicks /\ ~srv'[n.server].other
      BY <1>7, <2>2, MsgIs
    <3> QED BY <2>0, <3>1, Bounds
  <2> QED BY <1>4, <2>1, <2>2
<1>12. TimeLeft'
  <2> SUFFICES ASSUME cl.lease # None, Ample(cl.sec), cl.lease \notin lost
               PROVE  ~srv'[cl.lease].other /\ Used(pc, cl, srv'[cl.lease].rem)
    BY <1>1 DEF TimeLeft, Ample
  <2>1. cl.lease \in Servers /\ cl \in Client
    BY DEF IInv, TypeOK, Client, Lease
  <2>2. ~srv[cl.lease].other /\ Used(pc, cl, srv[cl.lease].rem)
    BY DEF IInv, TimeLeft
  <2>3. srv'[cl.lease].rem \in Nat /\ srv[cl.lease].rem \in Nat
        /\ srv'[cl.lease].rem >= srv[cl.lease].rem
    BY <1>6, <2>1, Bounds
  <2>4. Used(pc, cl, srv'[cl.lease].rem)
    BY <2>1, <2>2, <2>3, UsedStill
  <2> QED BY <1>6, <2>1, <2>2, <2>4
<1>13. Unrequested'
  BY <1>1, <1>4, MsgIs DEF IInv, Unrequested
<1> QED BY <1>1, <1>8, <1>9, <1>10, <1>11, <1>12, <1>13 DEF IInv, Tries, FirstLease,
      OneConfiguration, LostFirst, AddressesAccounted, Patience

LEMMA LoseStep ==
    ASSUME IInv, NEW m \in net, Lose(m)
    PROVE  IInv'
<1>1. /\ net' = net \ {m}
      /\ UNCHANGED <<pc, cl, srv, eth0, resolv, boot, networkConfigured, lost>>
  BY DEF Lose
<1> QED BY <1>1 DEF IInv, TypeOK, Messages, Tries, FirstLease, OneConfiguration, LostFirst,
      AddressesAccounted, InExchange, Unrequested, Patience, FreshAcks, TimeLeft, Ample

\* An address is given away only when nothing is left of its lease, and that is
\* never so of a lease the client can still take or has not lost.
LEMMA GiveAwayStep ==
    ASSUME IInv, NEW s \in Servers, GiveAway(s)
    PROVE  IInv'
<1>1. /\ srv[s].rem = 0 /\ srv' = [srv EXCEPT ![s].other = TRUE]
      /\ UNCHANGED <<pc, cl, net, eth0, resolv, boot, networkConfigured, lost>>
  BY DEF GiveAway
<1>2. srv' \in [Servers -> Server]
  <2>1. [srv[s] EXCEPT !.other = TRUE] \in Server
    <3>1. srv[s] \in Server
      BY DEF IInv, TypeOK
    <3> QED BY <3>1, DhcpAssumption DEF Server
  <2> QED BY <1>1, <2>1 DEF IInv, TypeOK
<1>3. \A r \in Servers : /\ srv'[r].rem = srv[r].rem /\ srv[r].rem \in Nat
                         /\ r # s => (srv'[r].other <=> srv[r].other)
  BY <1>1, DhcpAssumption DEF IInv, TypeOK, Server
<1>4. TypeOK'
  BY <1>1, <1>2 DEF IInv, TypeOK
<1>5. FreshAcks'
  <2> SUFFICES ASSUME pc \in Awaiting, NEW n \in net, n.type = "ACK", n.xid = cl.xid
               PROVE  /\ srv'[n.server].rem + WaitTicks >= LeaseTicks + cl.timer
                      /\ ~srv'[n.server].other
    BY <1>1 DEF FreshAcks
  <2>1. n.server \in Servers /\ cl.timer \in Nat
    BY DEF IInv, TypeOK, Messages, Message, Lease, Client
  <2>2. srv[n.server].rem + WaitTicks >= LeaseTicks + cl.timer /\ ~srv[n.server].other
    BY DEF IInv, FreshAcks
  <2>3. n.server # s
    BY <1>1, <2>1, <2>2, Bounds
  <2> QED BY <1>3, <2>1, <2>2, <2>3
<1>6. TimeLeft'
  <2> SUFFICES ASSUME cl.lease # None, Ample(cl.sec), cl.lease \notin lost
               PROVE  ~srv'[cl.lease].other /\ Used(pc, cl, srv'[cl.lease].rem)
    BY <1>1 DEF TimeLeft, Ample
  <2>1. /\ cl.lease \in Servers /\ cl.timer \in Nat
        /\ T1(cl.sec) \in Nat /\ T2(cl.sec) \in Nat /\ T1(cl.sec) <= T2(cl.sec)
    BY Timers DEF IInv, TypeOK, Client, Lease
  <2>2. pc \notin Acquiring \cup {"backoff", "ended"}
    BY <2>1, Distinct DEF IInv, LostFirst, FirstLease
  <2>3. pc \in Checking \cup {"sleepT1", "renew", "renewAck", "sleepT2", "rebind", "rebindAck"}
    BY <2>2 DEF IInv, TypeOK, PCs, Acquiring, Checking
  <2>4. ~srv[cl.lease].other /\ Used(pc, cl, srv[cl.lease].rem)
    BY DEF IInv, TimeLeft
  <2>5. srv[cl.lease].rem # 0
    <3>1. srv[cl.lease].rem \in Nat
      BY <1>3, <2>1
    <3>2. T2(cl.sec) + 5 * WaitTicks < LeaseTicks
      BY DEF Ample
    <3> QED BY <2>1, <2>3, <2>4, <3>1, <3>2, Bounds DEF Used, Checking
  <2>6. srv'[cl.lease].rem = srv[cl.lease].rem /\ (srv'[cl.lease].other <=> srv[cl.lease].other)
    BY <1>1, <1>3, <2>1, <2>5
  <2> QED BY <2>4, <2>6
<1> QED BY <1>1, <1>4, <1>5, <1>6 DEF IInv, Messages, Tries, FirstLease, OneConfiguration,
      LostFirst, AddressesAccounted, InExchange, Unrequested, Patience

\* A tick takes as much from the sleep or the wait as from the lease.
LEMMA TickStep ==
    ASSUME IInv, Tick
    PROVE  IInv'
<1>0. cl \in Client /\ cl.timer \in Nat
  BY DEF IInv, TypeOK, Client
<1>1. /\ pc \in Sleeping \cup Receiving /\ cl.timer > 0
      /\ cl' = [cl EXCEPT !.timer = @ - 1]
      /\ srv' = [s \in Servers |-> [srv[s] EXCEPT !.rem = IF @ = 0 THEN 0 ELSE @ - 1]]
      /\ UNCHANGED <<pc, net, eth0, resolv, boot, networkConfigured, lost>>
  BY DEF Tick
<1>2. /\ cl' \in Client /\ cl'.xid = cl.xid /\ cl'.lease = cl.lease
      /\ cl'.try = cl.try /\ cl'.sec = cl.sec /\ cl'.timer = cl.timer - 1
  BY <1>0, <1>1, SetTimer DEF Same
<1>3. \A s \in Servers : /\ srv'[s] \in Server /\ (srv'[s].other <=> srv[s].other)
                         /\ srv[s].rem \in Nat /\ srv'[s].rem \in Nat
                         /\ srv'[s].rem + 1 >= srv[s].rem
  <2> SUFFICES ASSUME NEW s \in Servers
               PROVE  /\ srv'[s] \in Server /\ (srv'[s].other <=> srv[s].other)
                      /\ srv[s].rem \in Nat /\ srv'[s].rem \in Nat
                      /\ srv'[s].rem + 1 >= srv[s].rem
    OBVIOUS
  <2>1. srv[s] \in Server /\ srv[s].rem \in Nat
    BY DhcpAssumption DEF IInv, TypeOK, Server
  <2>2. srv'[s] = [srv[s] EXCEPT !.rem = IF srv[s].rem = 0 THEN 0 ELSE srv[s].rem - 1]
    BY <1>1
  <2>3. srv'[s] \in Server /\ srv'[s].rem = (IF srv[s].rem = 0 THEN 0 ELSE srv[s].rem - 1)
    BY <2>1, <2>2, DhcpAssumption DEF Server
  <2>4. srv'[s].other <=> srv[s].other
    BY <2>1, <2>2 DEF Server
  <2> QED BY <2>1, <2>3, <2>4
<1>4. TypeOK'
  <2>1. srv' \in [Servers -> Server]
    BY <1>1, <1>3
  <2> QED BY <1>1, <1>2, <2>1 DEF IInv, TypeOK
<1>5. FreshAcks'
  <2> SUFFICES ASSUME pc \in Awaiting, NEW n \in net, n.type = "ACK", n.xid = cl.xid
               PROVE  /\ srv'[n.server].rem + WaitTicks >= LeaseTicks + cl'.timer
                      /\ ~srv'[n.server].other
    BY <1>1, <1>2 DEF FreshAcks
  <2>1. n.server \in Servers
    BY DEF IInv, TypeOK, Messages, Message, Lease
  <2>2. srv[n.server].rem + WaitTicks >= LeaseTicks + cl.timer /\ ~srv[n.server].other
    BY DEF IInv, FreshAcks
  <2> DEFINE r == srv[n.server].rem
             q == srv'[n.server].rem
  <2>3. q + 1 >= r /\ q \in Nat /\ r \in Nat /\ ~srv'[n.server].other
    BY <1>3, <2>1, <2>2
  <2>4. q + WaitTicks >= LeaseTicks + cl'.timer
    <3>1. r + WaitTicks >= LeaseTicks + cl.timer
      BY <2>2
    <3> HIDE DEF r, q
    <3> QED BY <1>0, <1>1, <1>2, <2>3, <3>1, Bounds
  <2> QED BY <2>3, <2>4
<1>6. TimeLeft'
  <2> SUFFICES ASSUME cl.lease # None, Ample(cl.sec), cl.lease \notin lost
               PROVE  ~srv'[cl.lease].other /\ Used(pc, cl', srv'[cl.lease].rem)
    BY <1>1, <1>2 DEF TimeLeft, Ample
  <2>1. /\ cl.lease \in Servers /\ T1(cl.sec) \in Nat /\ T2(cl.sec) \in Nat
    BY <1>0, Timers DEF Client, Lease
  <2> DEFINE r == srv[cl.lease].rem
             q == srv'[cl.lease].rem
  <2>2. q + 1 >= r /\ q \in Nat /\ r \in Nat /\ ~srv'[cl.lease].other
    BY <1>3, <2>1 DEF IInv, TimeLeft
  <2>3. Used(pc, cl, r)
    BY DEF IInv, TimeLeft
  <2>4. Used(pc, cl', q)
    <3> HIDE DEF r, q
    <3>1. pc \in {"sleepT1", "sleepT2", "backoff"} \cup Receiving
      BY <1>1 DEF Sleeping
    <3> QED BY <1>0, <1>1, <1>2, <2>1, <2>2, <2>3, <3>1, Bounds DEF Used, Receiving
  <2> QED BY <2>2, <2>4
<1>7. Patience' /\ Unrequested'
  <2>1. pc \in Awaiting => cl'.timer <= WaitTicks
    BY <1>0, <1>2, Bounds DEF IInv, Patience
  <2> QED BY <1>1, <1>2, <2>1 DEF IInv, Unrequested, Patience
<1> QED BY <1>1, <1>2, <1>4, <1>5, <1>6, <1>7 DEF IInv, Messages, Tries, FirstLease,
      OneConfiguration, LostFirst, AddressesAccounted, InExchange

\* The rest of the boot writes eth0 and /etc/resolv.conf.
LEMMA BootStep ==
    ASSUME IInv, InitCri \/ InitWan \/ InitJoin
    PROVE  IInv'
<1>1. /\ UNCHANGED <<pc, cl, net, srv, networkConfigured, lost>>
      /\ boot # "dhcp" /\ boot' \in {"wan", "join", "up"}
      /\ resolv' \in {resolv, "seed", "bundle"}
      /\ \/ eth0' \in {eth0, eth0 \cup {Alias}}
         \/ ~networkConfigured /\ eth0' \in {eth0 \cup {Static}, eth0 \cup {Static} \cup {Alias}}
  BY DEF InitCri, InitWan, InitJoin, configureEth0BestEffort
<1>2. OneConfiguration' /\ AddressesAccounted'
  BY <1>1, Distinct DEF IInv, OneConfiguration, AddressesAccounted
<1>3. TypeOK'
  BY <1>1 DEF IInv, TypeOK
<1> QED BY <1>1, <1>2, <1>3 DEF IInv, Messages, Tries, FirstLease, LostFirst, InExchange,
      Unrequested, Patience, FreshAcks, TimeLeft, Ample

-----------------------------------------------------------------------------
LEMMA Inductive == IInv /\ [Next]_vars => IInv'
<1> SUFFICES ASSUME IInv, [Next]_vars PROVE IInv'
  OBVIOUS
<1>1. CASE DhcpClient
  <2>1. CASE \E m \in net : Receive(m)
    <3>1. PICK m \in net : Receive(m)
      BY <2>1
    <3>2. CASE RecvOffer(m)
      BY <3>2, RecvOfferStep
    <3>3. CASE FirstAckNoAddress(m)
      BY <3>3, NoAddressStep
    <3>4. CASE FirstAck(m) \/ ReacquireAck(m) \/ CheckAck(m) \/ RenewAck(m)
      BY <3>4, AckTaken, GrantStep
    <3> QED BY <3>1, <3>2, <3>3, <3>4 DEF Receive
  <2> QED BY <1>1, <2>1, DiscoverStep, RequestStep, WakeStep, TimeoutStep DEF DhcpClient
<1>2. CASE Environment
  BY <1>2, OfferStep, AnswerStep, LoseStep, GiveAwayStep, TickStep DEF Environment
<1>3. CASE InitCri \/ InitWan \/ InitJoin
  BY <1>3, BootStep
<1>4. CASE UNCHANGED vars
  BY <1>4 DEF vars, IInv, TypeOK, Messages, Tries, FirstLease, OneConfiguration, LostFirst,
     AddressesAccounted, InExchange, Unrequested, Patience, FreshAcks, TimeLeft, Ample
<1> QED BY <1>1, <1>2, <1>3, <1>4 DEF Next

LEMMA Invariant == Spec => []IInv
<1> QED BY InitIInv, Inductive, PTL DEF Spec

\* dhcpRenewLoop: T1 and T2 leave room for one unanswered renewal and all the
\* waits before it, for every lease that is longer than T2 and five waits
\* (Ample): another host has the client's address only after the renewal and the
\* rebinding have both failed.
THEOREM LeaseKept == Spec => []OneMissIsHarmless
<1>1. IInv => OneMissIsHarmless
  BY DEF IInv, TimeLeft, OneMissIsHarmless
<1> QED BY <1>1, Invariant, PTL

\* applyLeaseDelta and configureEth0BestEffort: eth0 has the lease, leases that
\* were lost, and never the static configuration beside that of DHCP.
THEOREM Eth0Explained == Spec => []Eth0Accounted
<1>1. IInv => Eth0Accounted
  BY DEF IInv, TypeOK, OneConfiguration, Eth0Accounted, StaticOrDhcp
<1> QED BY <1>1, Invariant, PTL

\* recvDHCP: with the transaction ids, no delayed or reordered datagram makes the
\* client take a lease that was not granted in this very exchange.
THEOREM GrantsFresh == Spec => AdoptsFreshGrant
<1> DEFINE Fresh == pc' # pc /\ pc' \in {"check", "sleepT1"} /\ net' # net
                      => /\ srv[cl'.lease].rem + WaitTicks >= LeaseTicks
                         /\ ~srv[cl'.lease].other
<1>1. ASSUME IInv, Next PROVE Fresh
  <2>1. ASSUME NEW m \in net, FirstAck(m) \/ ReacquireAck(m) \/ CheckAck(m) \/ RenewAck(m)
        PROVE  Fresh
    BY <1>1, <2>1, AckTaken, AckIsFresh
  <2>2. ASSUME NEW m \in net, RecvOffer(m) \/ FirstAckNoAddress(m)
        PROVE  Fresh
    BY <2>2 DEF RecvOffer, FirstAckNoAddress
  <2>3. CASE Discover \/ Check \/ CheckRebind \/ Wake \/ Renew \/ Rebind
    BY <2>3 DEF Discover, Check, CheckRebind, Wake, Renew, Rebind, SendRequest
  <2>4. CASE Timeout
    BY <2>4 DEF Timeout, AcquireError, OfferTimeout, AckTimeout, AcquireFails, CheckTimeout,
       RenewTimeout, RebindTimeout
  <2>5. CASE Environment \/ InitCri \/ InitWan \/ InitJoin
    BY <2>5 DEF Environment, Offer, Answer, Lose, GiveAway, Tick, InitCri, InitWan, InitJoin
  <2> QED BY <1>1, <2>1, <2>2, <2>3, <2>4, <2>5 DEF Next, DhcpClient, Receive
<1>2. IInv /\ [Next]_vars => [Fresh]_vars
  BY <1>1
<1> QED BY <1>2, Invariant, PTL DEF Spec, AdoptsFreshGrant
=============================================================================
