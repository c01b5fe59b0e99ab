---------------------------- MODULE NetlinkProofs ----------------------------
(***************************************************************************)
(* Proofs about the netlink client, for every manifest, every bound on the *)
(* faults and every number of renewals.                                    *)
(*                                                                         *)
(* TypeInv says which states are well formed: a caller is at a place of    *)
(* its own code, and the kernel gives an index once.  Truth adds what the  *)
(* calls rest on: what is in a queue was so when the kernel sent it and,   *)
(* since indices are not given again, still is; an acknowledged request    *)
(* was done; a caller goes on with the link it asked about.  LinksFit and  *)
(* ReportedMeansDone follow from it, whatever fails.  Calm adds what holds *)
(* as long as there was no fault: a record that is looked for is ahead of  *)
(* the end of its dump, whatever earlier dumps left in the queue, and the  *)
(* kernel refuses only a name that is taken; NoFailureWithoutCause follows.*)
(*                                                                         *)
(* Every action is first shown to be a step of one of a few kinds (Kinds), *)
(* and each part of the invariants is then kept by each kind of step.      *)
(***************************************************************************)
EXTENDS Netlink, FiniteSetTheorems, TLAPS

\* The values of the variables.
Sockets == [seq : Nat, wait : Nat, queue : Seq(Seq(Message))]
LinkSet == [name : LinkNames, idx : Nat, master : Nat, far : {"none", "node"} \cup Pods]
AddrSet == [idx : Nat, ip : Addresses]
RouteSet == [dst : {"subnet", "default"}, gw : Addresses, idx : Nat]
Kernels == [links : [Namespaces -> SUBSET LinkSet], addrs : [Namespaces -> SUBSET AddrSet],
            routes : [Namespaces -> SUBSET RouteSet], next : [Namespaces -> Nat]]

\* The netlink calls of the agent, and where each caller can be.
AgentCalls == {"createBridge", "linkIndexByName", "addAddrV4"}
AgentPlaces == AgentCalls \cup {"idle", "ordinary", "open", "spec", "run", "wait", "closed"}
LeasePlaces == {"open", "linkByName", "reopen", "addAddrV4", "addDefaultRouteV4", "failed",
                "closed"}
HostPlaces(p) == {"idle", "open", "closed"} \cup
    IF p \in Range(Bridged) THEN {"createVethOnBridge"}
    ELSE {"createVethPeerNetns", "linkIndexByName", "addAddrV4"}
ContPlaces == {"idle", "fd5", "linkIndexByName", "addAddrV4", "addDefaultRouteV4",
               "defaultRouteGateway", "up", "failed", "gone"}

Types ==
    /\ pc \in [Callers -> Places]
    /\ sock \in [Callers -> Sockets]
    /\ kern \in Kernels
    /\ idx \in [Callers -> Nat]
    /\ bridgeIdx \in [Bridges -> Nat]
    /\ turn \in Nat \ {0}
    /\ route \in [Pods -> {"none", "failed", "mismatch", "read back"}]
    /\ renewed \in 0..Renewals
    /\ faults \in 0..MaxFaults

\* A caller is at a place of its own code.
Roles ==
    /\ pc[Agent] \in AgentPlaces
    /\ pc[Lease] \in LeasePlaces
    /\ \A p \in Pods : pc[HostOf(p)] \in HostPlaces(p) /\ pc[Cont(p)] \in ContPlaces

\* The loops stay within the manifest, and a bridge is made only when it is not in the map.
Turns ==
    /\ pc[Agent] \in {"idle", "ordinary"} => turn <= Len(Ordinary) + 1
    /\ pc[Agent] \notin {"idle", "ordinary"} => turn <= Len(Bridged) + 1
    /\ pc[Agent] \in AgentCalls => turn <= Len(Bridged) /\ bridgeIdx[Wanted(Agent)] = 0

\* Who waits is in a call, and waits for the request it sent last.
Waits == \A c \in Callers : sock[c].wait # 0 => sock[c].wait = sock[c].seq /\ pc[c] \in Calls

\* The links of a namespace are finitely many, under indices that are given once.
Finite == \A n \in Namespaces : IsFiniteSet(kern.links[n]) /\ IsFiniteSet(kern.routes[n])
Numbered ==
    /\ \A n \in Namespaces : 1 <= kern.next[n] /\ \A l \in kern.links[n] : 1 <= l.idx /\ l.idx < kern.next[n]
    /\ \A n \in Namespaces : \A l, k \in kern.links[n] : l.idx = k.idx => l = k
    /\ \A a \in kern.addrs["node"] : a.idx < kern.next["node"]

\* The pods run one after the other, the bridged ones after the bridges, and a
\* container goes on when the host has done its part.
Phases ==
    /\ \A p \in Pods : (pc[HostOf(p)] = "idle") <=> (pc[Cont(p)] = "idle")
    /\ pc[Agent] = "idle" => \A p \in Pods : pc[HostOf(p)] = "idle"
    /\ pc[Agent] \notin {"wait", "closed"} => \A p \in Range(Bridged) : pc[HostOf(p)] = "idle"
    /\ \A p \in Range(Ordinary) : pc[HostOf(p)] \notin {"idle", "closed"} =>
          pc[Agent] = "ordinary" /\ turn <= Len(Ordinary) /\ p = Ordinary[turn]
    /\ \A p \in Pods : pc[Cont(p)] \notin {"idle", "fd5", "gone"} => pc[HostOf(p)] = "closed"

TypeInv == Types /\ Roles /\ Turns /\ Waits /\ Phases /\ Finite /\ Numbered

\* The host has not made p's pair yet.
Unpaired(p) == \/ pc[HostOf(p)] \in {"idle", "open"}
               \/ pc[HostOf(p)] \in {"createVethPeerNetns", "createVethOnBridge"} /\ sock[HostOf(p)].wait = 0

\* The links of the node are its own, bridges, and ends of pairs to containers that
\* are there; a pod's eth0 comes with its pair.
LinkEnds ==
    /\ \A l \in kern.links["node"] :
          /\ l.far = "none" => l.name \in {"lo", "eth0"} \cup Bridges /\ l.master = 0
          /\ l.far # "none" => l.far \in Pods /\ l.name = HostName[l.far] /\ ~Unpaired(l.far)
                                 /\ pc[Cont(l.far)] # "gone"
    /\ \A p \in Pods : \A l \in kern.links[p] : l.name = "eth0" => l.master = 0 /\ ~Unpaired(p)

\* The messages in a queue.
Unread(q) == UNION {Range(q[i]) : i \in DOMAIN q}


\* What a kernel in state k holds.
Names(k, n, i, name) == \A l \in k.links[n] : l.idx = i => l.name = name
Leads(k, i, far) == \A l \in k.links["node"] : l.idx = i => l.far = far
BridgeLink(k, b, i) == \E l \in k.links["node"] : l.name = b /\ l.far = "none" /\ l.idx = i
BridgeMade(k, b) ==
    /\ \E l \in k.links["node"] : l.name = b /\ l.far = "none"
    /\ \A l \in k.links["node"] : l.name = b => l.far = "none"
GatewayThere(k, b, i) == [idx |-> i, ip |-> GatewayIP(b)] \in k.addrs["node"]
PairLeads(k, p) == \A l \in k.links["node"] : l.name = HostName[p] => l.far = p
HasRoute(k, p, i) == [dst |-> "default", gw |-> Gateway(Cont(p)), idx |-> i] \in k.routes[p]
HasEth0(k, p) == \E l \in k.links[p] : l.name = "eth0"
HasIdx(k, p, i) == \E l \in k.links[p] : l.idx = i

\* What the messages in a queue say of links is so: an index is never given again.
MessageTrue(c, m) ==
    /\ m.seq <= sock[c].seq
    /\ m.type = "NEWLINK" => 1 <= m.idx /\ m.idx < kern.next[Ns(c)] /\ Names(kern, Ns(c), m.idx, m.name)
MessagesTrue == \A c \in Callers : \A m \in Unread(sock[c].queue) : MessageTrue(c, m)

\* What a container is told of its links and of its default route is so.
ContMessage(p, m) ==
    /\ pc[Cont(p)] # "gone"
    /\ m.type = "NEWLINK" => HasIdx(kern, p, m.idx)
    /\ m.type = "NEWROUTE" /\ m.dst = "default" => m.gw = Gateway(Cont(p))
ContMessages == \A p \in Pods : \A m \in Unread(sock[Cont(p)].queue) : ContMessage(p, m)

\* The answers to the request c waits for, when it waits for an acknowledgement.
Acks(c) == {m \in Unread(sock[c].queue) : sock[c].wait # 0 /\ pc[c] \in AckCalls /\ m.seq = sock[c].wait}
AckIsError == \A c \in Callers : \A m \in Acks(c) : m.type = "ERROR"
\* A request that is acknowledged was done, and what it made is still there.
AgentAck == \A m \in Acks(Agent) : ~m.err =>
          /\ (pc[Agent] = "createBridge" => BridgeMade(kern, Wanted(Agent)))
          /\ (pc[Agent] = "addAddrV4" => GatewayThere(kern, Wanted(Agent), idx[Agent]))
HostAck == \A p \in Pods : \A m \in Acks(HostOf(p)) :
          ~m.err /\ pc[HostOf(p)] = "createVethPeerNetns" => PairLeads(kern, p)
ContAck == \A p \in Pods : \A m \in Acks(Cont(p)) :
          ~m.err /\ pc[Cont(p)] = "addDefaultRouteV4" => HasRoute(kern, p, idx[Cont(p)])
\* The record the agent looks for is that of the bridge it made.
AgentLookup ==
    pc[Agent] = "linkIndexByName" /\ sock[Agent].wait # 0 => \A m \in Unread(sock[Agent].queue) :
       m.type = "NEWLINK" /\ m.seq = sock[Agent].wait /\ m.name = Wanted(Agent)
          => BridgeLink(kern, Wanted(Agent), m.idx)
\* The agent goes on with the bridge it made.
AgentDoes ==
    /\ pc[Agent] = "linkIndexByName" => BridgeMade(kern, Wanted(Agent))
    /\ pc[Agent] = "addAddrV4" => BridgeLink(kern, Wanted(Agent), idx[Agent])
\* A bridge in the map is there, with its gateway address.
BridgesMade ==
    \A b \in Bridges : bridgeIdx[b] # 0 => BridgeLink(kern, b, bridgeIdx[b]) /\ GatewayThere(kern, b, bridgeIdx[b])
\* A host part goes on with the pair that leads to its own pod, and the DHCP client
\* with eth0.
HostDoes ==
    /\ \A p \in Pods : pc[HostOf(p)] = "linkIndexByName" => PairLeads(kern, p)
    /\ \A p \in Pods : pc[HostOf(p)] = "addAddrV4" => idx[HostOf(p)] < kern.next["node"] /\ Leads(kern, idx[HostOf(p)], p)
LeaseDoes == idx[Lease] < kern.next["node"] /\ Names(kern, "node", idx[Lease], "eth0")
\* A container goes on with its route, and a route it read back is there.
ContDoes ==
    /\ \A p \in Pods : pc[Cont(p)] = "defaultRouteGateway" => HasRoute(kern, p, idx[Cont(p)])
    /\ \A p \in Pods : route[p] # "none" => pc[Cont(p)] \in {"up", "gone"}
    /\ \A p \in Pods : route[p] = "read back" /\ pc[Cont(p)] # "gone" => HasRoute(kern, p, idx[Cont(p)])
\* An address of the node is on the link it is for.
AddressOwned ==
    \A a \in kern.addrs["node"] :
        /\ a.ip[1] = "host" => Leads(kern, a.idx, a.ip[2])
        /\ a.ip[1] = "gw" => Names(kern, "node", a.idx, a.ip[2])
        /\ a.ip[1] = "lease" => Names(kern, "node", a.idx, "eth0")

\* A container goes on with a link it has, and has a default route only when it asked
\* for one.
ContState ==
    /\ \A p \in Pods : pc[Cont(p)] \in {"addAddrV4", "addDefaultRouteV4", "defaultRouteGateway"} => HasIdx(kern, p, idx[Cont(p)])
    /\ \A p \in Pods : \A r \in kern.routes[p] : r.dst = "default" =>
          /\ r.gw = Gateway(Cont(p))
          /\ pc[Cont(p)] \in {"addDefaultRouteV4", "defaultRouteGateway", "up"}
          /\ pc[Cont(p)] = "addDefaultRouteV4" => sock[Cont(p)].wait # 0

\* What ends a lookup, and that the queue q has what it looks for ahead of anything
\* else that ends it.
EndsFor(wait, call, name, m) ==
    /\ m.seq = wait
    /\ \/ m.type \in {"ERROR", "DONE"}
       \/ m.type = "NEWLINK" /\ call \in LinkDumps /\ m.name = name
       \/ m.type = "NEWROUTE" /\ call = "defaultRouteGateway" /\ m.dst = "default"
Hit(m) == m.type \in {"NEWLINK", "NEWROUTE"}
Finds(q, wait, call, name) ==
    \E i \in DOMAIN q : \E j \in DOMAIN q[i] :
        /\ EndsFor(wait, call, name, q[i][j]) /\ Hit(q[i][j])
        /\ \A k \in 1..i : \A n \in DOMAIN q[k] :
              (k < i \/ n < j) /\ EndsFor(wait, call, name, q[k][n]) => Hit(q[k][n])
Found(c) == Finds(sock[c].queue, sock[c].wait, pc[c], Wanted(c))

\* Without a fault the kernel refuses only what has a cause.
Refusals ==
    /\ \A m \in Acks(Agent) : m.err => pc[Agent] = "createBridge" /\ Wanted(Agent) \in {"lo", "eth0"}
    /\ \A p \in Pods : \A m \in Acks(Cont(p)) : ~m.err
    /\ \A p \in Pods : \A m \in Acks(HostOf(p)) :
          pc[HostOf(p)] \in {"createVethPeerNetns", "createVethOnBridge"} =>
             IF m.err THEN NameTaken(p) ELSE HasEth0(kern, p)
\* Without a fault a lookup finds what it looks for, save a pod's that has no link.
Lookups ==
    /\ pc[Agent] = "linkIndexByName" /\ sock[Agent].wait # 0 => Found(Agent)
    /\ \A p \in Pods : pc[Cont(p)] = "linkIndexByName" /\ sock[Cont(p)].wait # 0 => Found(Cont(p)) \/ NameTaken(p)
    /\ \A p \in Pods : pc[Cont(p)] = "defaultRouteGateway" /\ sock[Cont(p)].wait # 0 => Found(Cont(p))
\* A host part that got past its veth call made the pod's eth0.
PodsReached ==
    /\ \A p \in Pods : pc[Cont(p)] = "gone" => pc[HostOf(p)] = "closed"
    /\ \A p \in Pods : pc[HostOf(p)] \in {"linkIndexByName", "addAddrV4", "closed"} /\ pc[Cont(p)] # "gone"
          => HasEth0(kern, p) \/ NameTaken(p)
\* The bridges of the first specs are in the map, and of all of them.
Done(n, map) == \A i \in 1..(n - 1) : map[Bridge[Bridged[i]]] # 0 \/ Bridge[Bridged[i]] \in {"lo", "eth0"}
AllMade(map) == \A b \in Bridges \ {"lo", "eth0"} : map[b] # 0
SpecsDone ==
    /\ pc[Agent] \in AgentCalls \cup {"open", "spec"} => Done(turn, bridgeIdx)
    /\ pc[Agent] \in {"run", "wait", "closed"} => AllMade(bridgeIdx)
\* While the bridges are made no pod has a pair, save the pod whose turn it is.
PairOfTurn ==
    pc[Agent] \notin {"wait", "closed"} => \A l \in kern.links["node"] : l.far = "none" \/
          (pc[Agent] = "ordinary" /\ turn <= Len(Ordinary) /\ l.far = Ordinary[turn])
\* A bridge of the node is in the map, or it is the one being made.
KnownBridge(b) ==
    \/ b \in {"lo", "eth0"} \/ bridgeIdx[b] # 0
    \/ /\ pc[Agent] \in AgentCalls /\ b = Wanted(Agent)
       /\ pc[Agent] = "createBridge" => sock[Agent].wait # 0
BridgesKnown == \A l \in kern.links["node"] : l.far = "none" => KnownBridge(l.name)
\* A container reads its route back, or the name of its link was taken.
Outcomes ==
    \A p \in Pods : (pc[Cont(p)] = "up" => route[p] = "read back") /\ (pc[Cont(p)] = "failed" => NameTaken(p))

\* What holds as long as there was no fault.
Calm == Refusals /\ Lookups /\ PodsReached /\ SpecsDone /\ PairOfTurn /\ BridgesKnown /\ Outcomes
NoFault == faults = 0 => Calm


\* The callers, their parts and their namespaces.
LEMMA Who ==
    /\ Agent \in Callers /\ Lease \in Callers
    /\ \A p \in Pods : HostOf(p) \in Callers /\ Cont(p) \in Callers
    /\ Agent # Lease
    /\ \A p \in Pods : /\ HostOf(p) # Agent /\ HostOf(p) # Lease
                       /\ Cont(p) # Agent /\ Cont(p) # Lease
    /\ \A p, q \in Pods : /\ HostOf(p) # Cont(q)
                          /\ HostOf(p) = HostOf(q) => p = q
                          /\ Cont(p) = Cont(q) => p = q
    /\ \A c \in Callers : c \in {Agent, Lease} \/ \E p \in Pods : c \in {HostOf(p), Cont(p)}
  BY DEF Callers, Agent, Lease, HostOf, Cont

LEMMA Parts ==
    /\ Agent[1] = "agent" /\ Lease[1] = "lease"
    /\ \A p \in Pods : /\ HostOf(p)[1] = "host" /\ HostOf(p)[2] = p
                       /\ Cont(p)[1] = "cont" /\ Cont(p)[2] = p
  BY DEF Agent, Lease, HostOf, Cont

LEMMA Where ==
    /\ Ns(Agent) = "node" /\ Ns(Lease) = "node"
    /\ \A p \in Pods : Ns(HostOf(p)) = "node" /\ Ns(Cont(p)) = p
    /\ "node" \in Namespaces /\ \A p \in Pods : p \in Namespaces /\ p # "node" /\ p # "none"
    /\ \A c \in Callers : Ns(c) \in Namespaces
  BY Parts, Who, NetlinkAssumption DEF Ns, Namespaces

\* The fields of the messages the kernel sends.
LEMMA MsgFields ==
    ASSUME NEW s \in Nat, NEW t \in {"ERROR", "DONE", "NEWLINK", "NEWROUTE"}
    PROVE /\ Msg(s, t) \in Message
          /\ Msg(s,t).seq = s /\ Msg(s,t).type = t /\ Msg(s,t).gw = None
<1>1. None \in Addresses
  BY Zenon DEF Addresses
<1> QED
  BY <1>1 DEF Msg, Message

LEMMA ErrorFields ==
    ASSUME NEW s \in Nat, NEW e \in BOOLEAN
    PROVE  /\ ErrorMsg(s, e).seq = s /\ ErrorMsg(s, e).type = "ERROR" /\ ErrorMsg(s, e).err = e
           /\ ErrorMsg(s, e) \in Message
<1> DEFINE M == Msg(s, "ERROR")
<1>1. M \in Message /\ M.seq = s /\ M.type = "ERROR"
  BY MsgFields
<1>2. ErrorMsg(s, e) = [M EXCEPT !.err = e]
  BY DEF ErrorMsg
<1> HIDE DEF M
<1> QED
  BY <1>1, <1>2 DEF Message

LEMMA RouteFields ==
    ASSUME NEW s \in Nat, NEW l \in RouteSet
    PROVE  /\ RouteMsg(s, l).seq = s /\ RouteMsg(s, l).type = "NEWROUTE" /\ RouteMsg(s, l).dst = l.dst
           /\ RouteMsg(s, l).gw = l.gw /\ RouteMsg(s, l) \in Message
<1> DEFINE M == Msg(s, "NEWROUTE") N == [M EXCEPT !.dst = l.dst]
<1>0. l.dst \in {"", "subnet", "default"} /\ l.gw \in Addresses
  BY DEF RouteSet
<1>1. M \in Message /\ M.seq = s /\ M.type = "NEWROUTE"
  BY MsgFields
<1>2. RouteMsg(s, l) = [N EXCEPT !.gw = l.gw]
  BY DEF RouteMsg
<1> HIDE DEF M
<1>3. N \in Message /\ N.seq = s /\ N.type = "NEWROUTE" /\ N.dst = l.dst
  BY <1>1, <1>0 DEF Message
<1> HIDE DEF N
<1> QED
  BY <1>0, <1>3, <1>2 DEF Message

LEMMA LinkFields ==
    ASSUME NEW s \in Nat, NEW l \in LinkSet
    PROVE  /\ LinkMsg(s, l).seq = s /\ LinkMsg(s, l).type = "NEWLINK" /\ LinkMsg(s, l).name = l.name
           /\ LinkMsg(s, l).idx = l.idx /\ LinkMsg(s, l) \in Message
<1> DEFINE M == Msg(s, "NEWLINK") N == [M EXCEPT !.name = l.name]
<1>0. l.name \in LinkNames \cup {""} /\ l.idx \in Nat
  BY DEF LinkSet
<1>1. M \in Message /\ M.seq = s /\ M.type = "NEWLINK"
  BY MsgFields
<1>2. LinkMsg(s, l) = [N EXCEPT !.idx = l.idx]
  BY DEF LinkMsg
<1> HIDE DEF M
<1>3. N \in Message /\ N.seq = s /\ N.type = "NEWLINK" /\ N.name = l.name
  BY <1>1, <1>0 DEF Message
<1> HIDE DEF N
<1> QED
  BY <1>0, <1>3, <1>2 DEF Message

\* The kernel's state after a link, an address and a route was added.
LEMMA KernLinks ==
    ASSUME NEW k \in Kernels, NEW n \in Namespaces, NEW l \in LinkSet
    PROVE  /\ WithLink(k, n, l) \in Kernels
           /\ WithLink(k, n, l).links = [k.links EXCEPT ![n] = @ \cup {l}]
           /\ WithLink(k, n, l).addrs = k.addrs /\ WithLink(k, n, l).routes = k.routes
           /\ WithLink(k, n, l).next = [k.next EXCEPT ![n] = @ + 1]
<1> DEFINE A == [k EXCEPT !.links = [k.links EXCEPT ![n] = @ \cup {l}]]
           N == [k.next EXCEPT ![n] = @ + 1]
           K == WithLink(k, n, l)
<1>1. A \in Kernels /\ A.links = [k.links EXCEPT ![n] = @ \cup {l}]
      /\ A.addrs = k.addrs /\ A.routes = k.routes /\ A.next = k.next
  BY DEF Kernels
<1>2. N \in [Namespaces -> Nat]
  BY DEF Kernels
<1>3. K = [A EXCEPT !.next = N]
  BY <1>1 DEF WithLink
<1> HIDE DEF A, N, K
<1>4. /\ K \in Kernels /\ K.links = A.links /\ K.addrs = A.addrs /\ K.routes = A.routes /\ K.next = N
  BY <1>1, <1>2, <1>3 DEF Kernels
<1> QED
  BY <1>1, <1>4 DEF N, K

WithAddr(n, a, r) == [kern EXCEPT !.addrs[n] = @ \cup {a}, !.routes[n] = @ \cup {r}]
LEMMA KernAddr ==
    ASSUME kern \in Kernels, NEW n \in Namespaces, NEW a \in AddrSet, NEW r \in RouteSet
    PROVE  /\ WithAddr(n, a, r) \in Kernels
           /\ WithAddr(n, a, r).links = kern.links /\ WithAddr(n, a, r).next = kern.next
           /\ WithAddr(n, a, r).addrs = [kern.addrs EXCEPT ![n] = @ \cup {a}]
           /\ WithAddr(n, a, r).routes = [kern.routes EXCEPT ![n] = @ \cup {r}]
  BY DEF Kernels, WithAddr

WithRoute(n, r) == [kern EXCEPT !.routes[n] = @ \cup {r}]
LEMMA KernRoute ==
    ASSUME kern \in Kernels, NEW n \in Namespaces, NEW r \in RouteSet
    PROVE  /\ WithRoute(n, r) \in Kernels
           /\ WithRoute(n, r).links = kern.links /\ WithRoute(n, r).next = kern.next
           /\ WithRoute(n, r).addrs = kern.addrs
           /\ WithRoute(n, r).routes = [kern.routes EXCEPT ![n] = @ \cup {r}]
  BY DEF Kernels, WithRoute
-----------------------------------------------------------------------------
(* The queue of a socket and the dumps of the kernel. *)

\* The messages of a queue as datagrams come and go.
LEMMA UnreadEmpty == Unread(<<>>) = {}
  BY DEF Unread

LEMMA UnreadType ==
    ASSUME NEW M, NEW q \in Seq(Seq(M))
    PROVE  Unread(q) \subseteq M
  BY DEF Unread, Range

LEMMA UnreadMember ==
    ASSUME NEW M, NEW q \in Seq(Seq(M)), NEW i \in DOMAIN q, NEW j \in DOMAIN q[i]
    PROVE  q[i][j] \in Unread(q)
  BY DEF Unread, Range

LEMMA UnreadHead ==
    ASSUME NEW M, NEW q \in Seq(Seq(M)), q # <<>>
    PROVE  /\ Head(q) \in Seq(M) /\ Tail(q) \in Seq(Seq(M))
           /\ \A i \in DOMAIN Head(q) : Head(q)[i] \in Unread(q)
           /\ Unread(Tail(q)) \subseteq Unread(q)
<1>1. Head(q) = q[1] /\ 1 \in DOMAIN q /\ Head(q) \in Seq(M)
  OBVIOUS
<1>2. \A i \in DOMAIN Tail(q) : i + 1 \in DOMAIN q /\ Tail(q)[i] = q[i + 1]
  OBVIOUS
<1>3. Unread(Tail(q)) \subseteq Unread(q)
  BY <1>2 DEF Unread
<1>4. \A i \in DOMAIN Head(q) : Head(q)[i] \in Unread(q)
  BY <1>1 DEF Unread, Range
<1> QED
  BY <1>1, <1>3, <1>4

LEMMA UnreadConcat ==
    ASSUME NEW M, NEW q \in Seq(Seq(M)), NEW r \in Seq(Seq(M))
    PROVE  /\ q \o r \in Seq(Seq(M))
           /\ Unread(q \o r) = Unread(q) \cup Unread(r)
<1>1. q \o r \in Seq(Seq(M))
  OBVIOUS
<1>2. \A i \in DOMAIN q : i \in DOMAIN (q \o r) /\ (q \o r)[i] = q[i]
  OBVIOUS
<1>3. \A i \in DOMAIN r : Len(q) + i \in DOMAIN (q \o r) /\ (q \o r)[Len(q) + i] = r[i]
  OBVIOUS
<1>4. \A k \in DOMAIN (q \o r) : \/ k \in DOMAIN q /\ (q \o r)[k] = q[k]
                                 \/ k - Len(q) \in DOMAIN r /\ (q \o r)[k] = r[k - Len(q)]
  OBVIOUS
<1> DEFINE s == q \o r
<1>5. /\ \A i \in DOMAIN q : \E k \in DOMAIN s : s[k] = q[i]
      /\ \A i \in DOMAIN r : \E k \in DOMAIN s : s[k] = r[i]
      /\ \A k \in DOMAIN s : \/ \E i \in DOMAIN q : s[k] = q[i]
                             \/ \E i \in DOMAIN r : s[k] = r[i]
  BY <1>2, <1>3, <1>4
<1> HIDE DEF s
<1>6. Unread(s) = Unread(q) \cup Unread(r)
  BY <1>5, Zenon DEF Unread
<1> QED
  BY <1>1, <1>6 DEF s

LEMMA UnreadOne ==
    ASSUME NEW M, NEW m \in M
    PROVE  /\ <<<<m>>>> \in Seq(Seq(M))
           /\ Unread(<<<<m>>>>) = {m}
  BY DEF Unread, Range

LEMMA UnreadDatagrams ==
    ASSUME NEW M, NEW s \in Seq(M), NEW ds \in Datagrams(s)
    PROVE  /\ ds \in Seq(Seq(M))
           /\ Unread(ds) = Range(s)
<1>1. CASE ds = <<s>>
  BY <1>1 DEF Unread
<1>2. CASE ds = [i \in DOMAIN s |-> <<s[i]>>]
  <2>1. DOMAIN ds = 1..Len(s) /\ DOMAIN s = 1..Len(s) /\ Len(s) \in Nat
    BY <1>2
  <2>2. \A i \in DOMAIN ds : ds[i] = <<s[i]>> /\ s[i] \in M
    BY <1>2, <2>1
  <2>3. \A i \in DOMAIN ds : ds[i] \in Seq(M) /\ Range(ds[i]) = {s[i]}
    <3> SUFFICES ASSUME NEW i \in DOMAIN ds PROVE ds[i] \in Seq(M) /\ Range(ds[i]) = {s[i]}
      OBVIOUS
    <3>1. ds[i] = <<s[i]>> /\ s[i] \in M
      BY <2>2
    <3> QED
      BY <3>1 DEF Range
  <2>4. ds = [i \in 1..Len(s) |-> ds[i]]
    BY <1>2, <2>1
  <2>5. ds \in Seq(Seq(M))
    BY <2>1, <2>3, <2>4
  <2> HIDE <1>2
  <2>6. Unread(ds) = UNION {{s[i]} : i \in DOMAIN s}
    BY <2>1, <2>3, Zenon DEF Unread
  <2> QED
    BY <2>5, <2>6, Zenon DEF Range
<1> QED
  BY <1>1, <1>2 DEF Datagrams

\* A dump has one record for each of the links or routes.
LEMMA SetToSeqType ==
    ASSUME NEW S, IsFiniteSet(S)
    PROVE  /\ SetToSeq(S) \in Seq(S)
           /\ Range(SetToSeq(S)) = S
<1> DEFINE n == Cardinality(S)
<1>1. n \in Nat /\ ExistsBijection(1..n, S)
  BY FS_CardinalityType
<1>2. PICK f \in [1..n -> S] : IsInjective(f)
  BY <1>1, Zenon DEF ExistsBijection, Bijection, Injection
<1> DEFINE g == SetToSeq(S)
<1>3. g \in [1..n -> S] /\ IsInjective(g)
  BY <1>2, Zenon DEF SetToSeq
<1>4. g \in Injection(1..n, S)
  BY <1>3, Zenon DEF Injection
<1>5. Cardinality(1..n) = n
  BY <1>1, FS_Interval
<1>6. g \in Surjection(1..n, S)
  BY <1>4, <1>5, FS_Injection, Zenon
<1> HIDE DEF g, n
<1>7. g \in Seq(S)
  BY <1>1, <1>3
<1>8. Range(g) = S
  BY <1>3, <1>6, Zenon DEF Surjection, Range
<1> QED
  BY <1>7, <1>8 DEF g

LEMMA OrderedType ==
    ASSUME NEW S, IsFiniteSet(S), S \subseteq LinkSet, \A l, k \in S : l.idx = k.idx => l = k
    PROVE  /\ Ordered(S) \in Seq(S)
           /\ Range(Ordered(S)) = S
<1> DEFINE n == Cardinality(S)
           Below(l) == {m \in S : m.idx <= l.idx}
           r == [l \in S |-> Cardinality(Below(l))]
           o == Ordered(S)
<1>1. n \in Nat
  BY FS_CardinalityType
<1>2. IsFiniteSet(1..n) /\ Cardinality(1..n) = n
  BY <1>1, FS_Interval
<1>3. \A l \in S : l.idx \in Nat
  BY DEF LinkSet
<1>4. ASSUME NEW l \in S
      PROVE  /\ l \in Below(l) /\ Below(l) \in SUBSET S /\ IsFiniteSet(Below(l))
             /\ Cardinality(Below(l)) \in 1..n
  <2>1. l \in Below(l) /\ Below(l) \in SUBSET S
    BY <1>3
  <2> HIDE DEF Below
  <2>2. IsFiniteSet(Below(l)) /\ Cardinality(Below(l)) <= n
    BY <2>1, FS_Subset
  <2>3. Cardinality(Below(l)) \in Nat /\ Cardinality(Below(l)) # 0
    BY <2>1, <2>2, FS_CardinalityType, FS_EmptySet
  <2> QED
    BY <1>1, <2>1, <2>2, <2>3
<1>5. ASSUME NEW l \in S, NEW k \in S, l.idx < k.idx
      PROVE  Cardinality(Below(l)) # Cardinality(Below(k))
  <2>1. Below(l) \in SUBSET Below(k) /\ k \notin Below(l)
    BY <1>3, <1>5
  <2>2. k \in Below(k) /\ IsFiniteSet(Below(k))
    BY <1>4
  <2> HIDE DEF Below
  <2> QED
    BY <2>1, <2>2, FS_Subset
<1>6. \A l, k \in S : Cardinality(Below(l)) = Cardinality(Below(k)) => l = k
  <2> SUFFICES ASSUME NEW l \in S, NEW k \in S, Cardinality(Below(l)) = Cardinality(Below(k))
               PROVE  l = k
    OBVIOUS
  <2> HIDE DEF Below
  <2>1. ~(l.idx < k.idx) /\ ~(k.idx < l.idx)
    BY <1>5
  <2> QED
    BY <2>1, <1>3
<1> HIDE DEF Below
<1>7. r \in Injection(S, 1..n)
  BY <1>4, <1>6, Zenon DEF Injection, IsInjective
<1>8. r \in Surjection(S, 1..n)
  <2> HIDE DEF r
  <2> QED
    BY <1>2, <1>7, FS_Injection, Zenon
<1>9. \A i \in 1..n : \E l \in S : Cardinality(Below(l)) = i
  BY <1>8, Zenon DEF Surjection
<1>10. o = [i \in 1..n |-> CHOOSE l \in S : Cardinality(Below(l)) = i]
  BY DEF Ordered, Below
<1>11. \A i \in 1..n : o[i] \in S /\ Cardinality(Below(o[i])) = i
  BY <1>9, <1>10, Zenon
<1> HIDE DEF o
<1>12. DOMAIN o = 1..n /\ o \in [1..n -> S]
  BY <1>10, <1>11
<1> HIDE DEF n
<1>13. o \in Seq(S)
  BY <1>1, <1>12
<1>14. Range(o) \subseteq S
  BY <1>11, <1>12, Zenon DEF Range
<1>15. ASSUME NEW l \in S PROVE l \in Range(o)
  <2>1. PICK i \in 1..n : Cardinality(Below(l)) = i
    BY <1>4
  <2>2. o[i] = l
    BY <2>1, <1>11, <1>6
  <2> QED
    BY <2>1, <2>2, <1>12, Zenon DEF Range
<1> QED
  BY <1>13, <1>14, <1>15, Zenon DEF o

-----------------------------------------------------------------------------
(* The steps. *)

\* The kinds of steps, by what they do for the caller: the socket is opened, the call
\* fails, the kernel refuses or does the request or dumps its table, a datagram has
\* no answer, the call returns.
Grows(n, l) == /\ kern'.links = [kern.links EXCEPT ![n] = @ \cup {l}]
               /\ kern'.next = [kern.next EXCEPT ![n] = @ + 1]

Opened(c) ==
    /\ Opens(c)
    /\ pc' = [pc EXCEPT ![c] = IF pc[c] = "reopen" THEN "addAddrV4" ELSE FirstCall(c)]
    /\ sock' = [sock EXCEPT ![c] = NewSocket]
    /\ UNCHANGED <<kern, idx, bridgeIdx, turn, route, renewed, faults>>

First(c, i) ==
    /\ pc[c] \in Calls /\ sock[c].wait # 0 /\ sock[c].queue # <<>>
    /\ i \in DOMAIN Head(sock[c].queue)
    /\ Ends(c, Head(sock[c].queue)[i])
    /\ \A j \in DOMAIN Head(sock[c].queue) : Ends(c, Head(sock[c].queue)[j]) => i <= j

Failed(c, s) ==
    /\ Fails(c, s)
    /\ pc[c] \in Calls \/ Opens(c)
    /\ s \in Sockets /\ s.wait = 0
    /\ Unread(s.queue) \subseteq Unread(sock[c].queue)
    /\ s = NewSocket \/ s.seq >= sock[c].seq
    /\ \/ faults < MaxFaults /\ faults' = faults + 1
       \/ /\ faults' = faults
          /\ \E i : First(c, i) /\ ~Succeeds(c, Head(sock[c].queue)[i])

Denied(c) ==
    /\ pc[c] \in Calls /\ sock[c].wait = 0
    /\ Answered(c, <<<<ErrorMsg(Sent(c), TRUE)>>>>)
    /\ UNCHANGED kern
    /\ \/ faults < MaxFaults /\ faults' = faults + 1
       \/ /\ faults' = faults
          /\ \/ c = Agent /\ pc[c] = "createBridge" /\ Taken("node", Wanted(c))
             \/ \E p \in Pods : c = HostOf(p) /\ pc[c] \in {"createVethPeerNetns", "createVethOnBridge"}
                                /\ ~PairIsNew(HostName[p], p)
             \/ pc[c] = "addAddrV4" /\ ~\E l \in kern.links[Ns(c)] : l.idx = idx[c]
             \/ pc[c] = "addDefaultRouteV4" /\ ~(/\ \E l \in kern.links[Ns(c)] : l.idx = idx[c]
                                                 /\ ~\E r \in kern.routes[Ns(c)] : r.dst = "default")

\* A request the kernel did and acknowledged.
Acked(c, call) ==
    /\ pc[c] = call /\ sock[c].wait = 0
    /\ Answered(c, <<<<ErrorMsg(Sent(c), FALSE)>>>>)
    /\ kern' \in Kernels
    /\ UNCHANGED faults

NewBridge == Link(Wanted(Agent), kern.next["node"], 0, "none")
MadeBridge ==
    /\ Acked(Agent, "createBridge")
    /\ ~Taken("node", Wanted(Agent))
    /\ Wanted(Agent) \in Bridges /\ NewBridge \in LinkSet
    /\ Grows("node", NewBridge)
    /\ kern'.addrs = kern.addrs /\ kern'.routes = kern.routes

HostEnd(p, master) == Link(HostName[p], kern.next["node"], master, p)
PodEnd(p) == Link("eth0", kern.next[p], 0, "node")
MadePair(p) ==
    /\ Acked(HostOf(p), "createVethPeerNetns") \/ Acked(HostOf(p), "createVethOnBridge")
    /\ PairIsNew(HostName[p], p)
    /\ PodEnd(p) \in LinkSet
    /\ \E master \in Nat :
          /\ HostEnd(p, master) \in LinkSet
          /\ kern'.links = [[kern.links EXCEPT !["node"] = @ \cup {HostEnd(p, master)}]
                                 EXCEPT ![p] = @ \cup {PodEnd(p)}]
    /\ kern'.next = [[kern.next EXCEPT !["node"] = @ + 1] EXCEPT ![p] = @ + 1]
    /\ kern'.addrs = kern.addrs /\ kern'.routes = kern.routes

GaveAddr(c) ==
    /\ Acked(c, "addAddrV4")
    /\ \E l \in kern.links[Ns(c)] : l.idx = idx[c]
    /\ kern'.links = kern.links /\ kern'.next = kern.next
    /\ kern'.addrs = [kern.addrs EXCEPT ![Ns(c)] = @ \cup {[idx |-> idx[c], ip |-> Address(c)]}]
    /\ kern'.routes = [kern.routes EXCEPT ![Ns(c)] =
                          @ \cup {[dst |-> "subnet", gw |-> None, idx |-> idx[c]]}]

GaveRoute(c) ==
    /\ Acked(c, "addDefaultRouteV4")
    /\ \E l \in kern.links[Ns(c)] : l.idx = idx[c]
    /\ ~\E r \in kern.routes[Ns(c)] : r.dst = "default"
    /\ kern'.links = kern.links /\ kern'.next = kern.next /\ kern'.addrs = kern.addrs
    /\ kern'.routes = [kern.routes EXCEPT ![Ns(c)] =
                          @ \cup {[dst |-> "default", gw |-> Gateway(c), idx |-> idx[c]]}]

DumpOf(c) == IF pc[c] = "defaultRouteGateway" THEN RouteDump(c) ELSE LinkDump(c)
Dumped(c) ==
    /\ pc[c] \in LinkDumps \cup {"defaultRouteGateway"} /\ sock[c].wait = 0
    /\ \E ds \in Datagrams(Append(DumpOf(c), Msg(Sent(c), "DONE"))) : Answered(c, ds)
    /\ UNCHANGED <<kern, faults>>

Skipped(c) ==
    /\ pc[c] \in Calls /\ sock[c].wait # 0 /\ sock[c].queue # <<>>
    /\ \A i \in DOMAIN Head(sock[c].queue) : ~Ends(c, Head(sock[c].queue)[i])
    /\ sock' = [sock EXCEPT ![c].queue = Tail(@)]
    /\ UNCHANGED <<pc, kern, idx, bridgeIdx, turn, route, renewed, faults>>

Returned(c, i) ==
    /\ First(c, i)
    /\ Succeeds(c, Head(sock[c].queue)[i])
    /\ Returns(c, Head(sock[c].queue)[i], Socket(sock[c].seq, 0, Tail(sock[c].queue)))
    /\ UNCHANGED faults

\* Which caller makes which call.
LEMMA WhoCalls ==
    ASSUME Roles, NEW c \in Callers
    PROVE  /\ pc[c] = "createBridge" => c = Agent
           /\ pc[c] = "createVethPeerNetns" => \E p \in Pods \ Range(Bridged) : c = HostOf(p)
           /\ pc[c] = "createVethOnBridge" => \E p \in Range(Bridged) : c = HostOf(p)
           /\ pc[c] = "linkByName" => c = Lease
           /\ pc[c] \in {"addDefaultRouteV4"} => c = Lease \/ \E p \in Pods : c = Cont(p)
           /\ pc[c] = "defaultRouteGateway" => \E p \in Pods : c = Cont(p)
           /\ pc[c] = "linkIndexByName" =>
                c = Agent \/ (\E p \in Pods : c = Cont(p)) \/ \E p \in Pods \ Range(Bridged) : c = HostOf(p)
<1> DEFINE Goal ==
        /\ pc[c] = "createBridge" => c = Agent
        /\ pc[c] = "createVethPeerNetns" => \E p \in Pods \ Range(Bridged) : c = HostOf(p)
        /\ pc[c] = "createVethOnBridge" => \E p \in Range(Bridged) : c = HostOf(p)
        /\ pc[c] = "linkByName" => c = Lease
        /\ pc[c] \in {"addDefaultRouteV4"} => c = Lease \/ \E p \in Pods : c = Cont(p)
        /\ pc[c] = "defaultRouteGateway" => \E p \in Pods : c = Cont(p)
        /\ pc[c] = "linkIndexByName" =>
             c = Agent \/ (\E p \in Pods : c = Cont(p)) \/ \E p \in Pods \ Range(Bridged) : c = HostOf(p)
<1> SUFFICES Goal
  OBVIOUS
<1>1. CASE c = Agent
  BY <1>1 DEF Roles, AgentPlaces, AgentCalls
<1>2. CASE c = Lease
  BY <1>2 DEF Roles, LeasePlaces
<1>4. ASSUME NEW p \in Pods, c = HostOf(p) PROVE Goal
  <2>1. pc[c] \in {"idle", "open", "closed"} \/
               IF p \in Range(Bridged) THEN pc[c] = "createVethOnBridge"
               ELSE pc[c] \in {"createVethPeerNetns", "linkIndexByName", "addAddrV4"}
    BY <1>4 DEF Roles, HostPlaces
  <2> QED
    BY <1>4, <2>1
<1>5. ASSUME NEW p \in Pods, c = Cont(p) PROVE Goal
  BY <1>5 DEF Roles, ContPlaces
<1> QED
  BY <1>1, <1>2, <1>4, <1>5, Who

LEMMA NextSpecs ==
    ASSUME TypeInv, pc[Agent] \in AgentCalls
    PROVE  turn \in 1..Len(Bridged) /\ Bridged[turn] \in Range(Bridged)
           /\ Bridge[Bridged[turn]] \in Bridges
<1>0. Bridged \in Seq(Pods) /\ turn \in Nat \ {0} /\ turn <= Len(Bridged)
  BY NetlinkAssumption, Zenon DEF TypeInv, Types, Turns
<1>1. turn \in 1..Len(Bridged) /\ Bridged \in Seq(Pods)
  BY <1>0
<1>2. Bridged[turn] \in Range(Bridged)
  BY <1>1 DEF Range
<1> QED
  BY <1>1, <1>2 DEF Bridges

LEMMA Asks ==
    /\ Wanted(Agent) = Bridge[Bridged[turn]]
    /\ Wanted(Lease) = "eth0"
    /\ \A p \in Pods : Wanted(HostOf(p)) = HostName[p] /\ Wanted(Cont(p)) = "eth0"
    /\ Address(Agent) = GatewayIP(Wanted(Agent))
    /\ Address(Lease) = <<"lease", "node">>
    /\ \A p \in Pods : Address(HostOf(p)) = HostIP(p) /\ Address(Cont(p)) = <<"pod", p>>
    /\ Gateway(Lease) = <<"router", "node">>
    /\ \A p \in Pods : Gateway(Cont(p)) = IF p \in Range(Bridged) THEN GatewayIP(Bridge[p]) ELSE HostIP(p)
<1>1. Wanted(Agent) = Bridge[Bridged[turn]] /\ Address(Agent) = GatewayIP(Wanted(Agent))
  BY Parts DEF Wanted, Address
<1>2. Wanted(Lease) = "eth0" /\ Address(Lease) = <<"lease", "node">> /\ Gateway(Lease) = <<"router", "node">>
  BY Parts DEF Wanted, Address, Gateway
<1>3. ASSUME NEW p \in Pods
      PROVE  /\ Wanted(HostOf(p)) = HostName[p] /\ Wanted(Cont(p)) = "eth0"
             /\ Address(HostOf(p)) = HostIP(p) /\ Address(Cont(p)) = <<"pod", p>>
             /\ Gateway(Cont(p)) = IF p \in Range(Bridged) THEN GatewayIP(Bridge[p]) ELSE HostIP(p)
  BY Parts, Who DEF Wanted, Address, Gateway
<1> QED
  BY <1>1, <1>2, <1>3

\* What is asked for is a value of its kind.
LEMMA AddressTypes ==
    ASSUME TypeInv
    PROVE  /\ \A p \in Pods : Gateway(Cont(p)) \in Addresses
           /\ Gateway(Lease) \in Addresses
           /\ \A c \in Callers : pc[c] = "addAddrV4" => Address(c) \in Addresses
<1>1. ASSUME NEW p \in Pods PROVE Gateway(Cont(p)) \in Addresses
  <2>1. HostIP(p) \in Addresses
    BY DEF Addresses
  <2>2. p \in Range(Bridged) => GatewayIP(Bridge[p]) \in Addresses
    BY Zenon DEF Addresses, Bridges
  <2> QED
    BY <2>1, <2>2, Asks
<1>2. Gateway(Lease) \in Addresses
  BY Asks DEF Addresses
<1>3. ASSUME NEW c \in Callers, pc[c] = "addAddrV4" PROVE Address(c) \in Addresses
  <2>1. CASE c = Agent
    <3>1. Wanted(Agent) \in Bridges
      BY <1>3, <2>1, NextSpecs, Asks DEF AgentCalls
    <3> QED
      BY <2>1, <3>1, Asks, Zenon DEF Addresses
  <2>2. CASE c = Lease
    BY <2>2, Asks DEF Addresses
  <2>3. ASSUME NEW p \in Pods, c = HostOf(p) PROVE Address(c) \in Addresses
    BY <2>3, Asks DEF Addresses
  <2>4. ASSUME NEW p \in Pods, c = Cont(p) PROVE Address(c) \in Addresses
    BY <2>4, Asks DEF Addresses
  <2> QED
    BY <2>1, <2>2, <2>3, <2>4, Who
<1> QED
  BY <1>1, <1>2, <1>3

LEMMA LinkType ==
    ASSUME NEW name \in LinkNames, NEW i \in Nat, NEW master \in Nat,
           NEW far \in {"none", "node"} \cup Pods
    PROVE  /\ Link(name, i, master, far) \in LinkSet
           /\ Link(name, i, master, far).name = name /\ Link(name, i, master, far).idx = i
           /\ Link(name, i, master, far).master = master /\ Link(name, i, master, far).far = far
  BY DEF Link, LinkSet

LEMMA SocketType ==
    ASSUME NEW seq \in Nat, NEW wait \in Nat, NEW queue \in Seq(Seq(Message))
    PROVE  /\ Socket(seq, wait, queue) \in Sockets
           /\ Socket(seq, wait, queue).seq = seq /\ Socket(seq, wait, queue).wait = wait
           /\ Socket(seq, wait, queue).queue = queue
  BY DEF Socket, Sockets

LEMMA SocketFields ==
    ASSUME Types, NEW c \in Callers
    PROVE  /\ sock[c] \in Sockets /\ sock[c].seq \in Nat /\ sock[c].wait \in Nat
           /\ sock[c].queue \in Seq(Seq(Message))
           /\ Sent(c) \in Nat /\ Sent(c) = sock[c].seq + 1
<1>1. sock[c] \in Sockets
  BY DEF Types
<1> QED
  BY <1>1 DEF Sockets, Sent

\* Each action is a step of one of the kinds.
LEMMA StepSendFails ==
    ASSUME TypeInv, NEW c \in Callers, pc[c] \in Calls, SendFails(c)
    PROVE  \E s : Failed(c, s)
<1> DEFINE s == Socket(Sent(c), 0, sock[c].queue)
<1>1. s \in Sockets /\ s.wait = 0 /\ s.seq = sock[c].seq + 1 /\ s.queue = sock[c].queue
  BY SocketFields, SocketType DEF TypeInv
<1>2. Fails(c, s) /\ faults < MaxFaults /\ faults' = faults + 1
  BY DEF SendFails, Fault
<1>3. s.seq >= sock[c].seq
  BY <1>1, SocketFields DEF TypeInv
<1> HIDE DEF s
<1> QED
  BY <1>1, <1>2, <1>3 DEF Failed

\* The steps of the agent's loops.
Phase ==
    \/ AgentStarts \/ RunOrdinary \/ WaitOrdinary \/ RunBridged \/ NextSpec
    \/ LaunchBridged \/ WaitBridged

CallStep(c) ==
    \/ Opened(c) \/ (\E s : Failed(c, s)) \/ Denied(c)
    \/ c = Agent /\ MadeBridge
    \/ \E p \in Pods : c = HostOf(p) /\ MadePair(p)
    \/ GaveAddr(c) \/ GaveRoute(c) \/ Dumped(c)
    \/ Skipped(c) \/ \E i : Returned(c, i)

LEMMA StepOpen ==
    ASSUME TypeInv, NEW c \in Callers, nlOpen(c)
    PROVE  CallStep(c)
<1>1. CASE /\ pc' = [pc EXCEPT ![c] = IF pc[c] = "reopen" THEN "addAddrV4" ELSE FirstCall(c)]
           /\ sock' = [sock EXCEPT ![c] = NewSocket]
           /\ UNCHANGED <<kern, idx, bridgeIdx, turn, route, renewed, faults>>
  <2>1. Opened(c)
    BY <1>1 DEF nlOpen, Opened
  <2> QED
    BY <2>1 DEF CallStep
<1>2. CASE Fault /\ Fails(c, NewSocket)
  <2>1. NewSocket \in Sockets /\ NewSocket.wait = 0 /\ NewSocket.queue = <<>>
    BY DEF NewSocket, Socket, Sockets
  <2>2. Failed(c, NewSocket)
    BY <1>2, <2>1, UnreadEmpty DEF Failed, Fault, nlOpen
  <2> QED
    BY <2>2 DEF CallStep
<1> QED
  BY <1>1, <1>2 DEF nlOpen

LEMMA StepBridge ==
    ASSUME TypeInv, NEW c \in Callers, createBridge(c)
    PROVE  CallStep(c)
<1>1. c = Agent /\ pc[c] = "createBridge" /\ sock[c].wait = 0 /\ pc[c] \in Calls
  BY WhoCalls DEF TypeInv, createBridge, Calling, Calls, AckCalls
<1>2. Wanted(Agent) \in Bridges /\ Wanted(Agent) \in LinkNames
  BY <1>1, NextSpecs, Asks DEF AgentCalls, LinkNames
<1>3. kern \in Kernels /\ kern.next["node"] \in Nat
  BY Where DEF TypeInv, Types, Kernels
<1>4. NewBridge \in LinkSet
  BY <1>2, <1>3, LinkType DEF NewBridge
<1> DEFINE can == ~Taken("node", Wanted(c)) done == WithLink(kern, "node", NewBridge)
<1>5. Request(c, can, done)
  BY <1>1 DEF createBridge, NewBridge
<1>6. CASE /\ can /\ kern' = done
           /\ Answered(c, <<<<ErrorMsg(Sent(c), FALSE)>>>>) /\ UNCHANGED faults
  <2>1. kern' = WithLink(kern, "node", NewBridge)
    BY <1>6
  <2>2. /\ kern' \in Kernels /\ Grows("node", NewBridge)
        /\ kern'.addrs = kern.addrs /\ kern'.routes = kern.routes
    BY <1>3, <1>4, <2>1, Where, KernLinks DEF Grows
  <2> HIDE DEF done
  <2>3. MadeBridge
    BY <1>1, <1>2, <1>4, <1>6, <2>2 DEF MadeBridge, Acked
  <2> QED
    BY <1>1, <2>3 DEF CallStep
<1>7. CASE Refused(c) /\ IF can THEN Fault ELSE UNCHANGED faults
  <2>1. Denied(c)
    BY <1>1, <1>7 DEF Denied, Refused, Fault
  <2> QED
    BY <2>1 DEF CallStep
<1>8. CASE SendFails(c)
  BY <1>1, <1>8, StepSendFails DEF CallStep
<1> QED
  BY <1>5, <1>6, <1>7, <1>8 DEF Request

LEMMA StepPair ==
    ASSUME TypeInv, NEW c \in Callers, NEW p \in Pods, c = HostOf(p), NEW master \in Nat,
           pc[c] \in {"createVethPeerNetns", "createVethOnBridge"}, sock[c].wait = 0,
           Request(c, PairIsNew(HostName[p], p), WithPair(HostName[p], master, p))
    PROVE  CallStep(c)
<1>1. pc[c] \in Calls
  BY DEF Calls, AckCalls
<1>2. HostName[p] \in LinkNames /\ "eth0" \in LinkNames
  BY DEF LinkNames
<1>3. kern \in Kernels /\ kern.next["node"] \in Nat /\ kern.next[p] \in Nat
  BY Where DEF TypeInv, Types, Kernels
<1>4. HostEnd(p, master) \in LinkSet /\ PodEnd(p) \in LinkSet
  <2>1. HostEnd(p, master) \in LinkSet
    <3>1. p \in {"none", "node"} \cup Pods
      OBVIOUS
    <3>2. Link(HostName[p], kern.next["node"], master, p) \in LinkSet
      BY <1>2, <1>3, <3>1, LinkType
    <3> QED
      BY <3>2 DEF HostEnd
  <2>2. PodEnd(p) \in LinkSet
    <3>1. Link("eth0", kern.next[p], 0, "node") \in LinkSet
      BY <1>2, <1>3, LinkType
    <3> QED
      BY <3>1 DEF PodEnd
  <2> QED
    BY <2>1, <2>2
<1> DEFINE can == PairIsNew(HostName[p], p) done == WithPair(HostName[p], master, p)
<1>5. Request(c, can, done)
  OBVIOUS
<1>6. CASE /\ can /\ kern' = done
           /\ Answered(c, <<<<ErrorMsg(Sent(c), FALSE)>>>>) /\ UNCHANGED faults
  <2> DEFINE K == WithLink(kern, "node", HostEnd(p, master))
  <2>1. kern' = WithLink(K, p, PodEnd(p))
    BY <1>6 DEF WithPair, HostEnd, PodEnd
  <2>2. /\ K \in Kernels
        /\ K.links = [kern.links EXCEPT !["node"] = @ \cup {HostEnd(p, master)}]
        /\ K.addrs = kern.addrs /\ K.routes = kern.routes
        /\ K.next = [kern.next EXCEPT !["node"] = @ + 1]
    BY <1>3, <1>4, Where, KernLinks
  <2> HIDE DEF K
  <2>3. /\ kern' \in Kernels
        /\ kern'.links = [K.links EXCEPT ![p] = @ \cup {PodEnd(p)}]
        /\ kern'.addrs = K.addrs /\ kern'.routes = K.routes
        /\ kern'.next = [K.next EXCEPT ![p] = @ + 1]
    <3>1. p \in Namespaces
      BY Where
    <3> DEFINE l == PodEnd(p)
    <3>2. l \in LinkSet /\ K \in Kernels
      BY <1>4, <2>2
    <3> HIDE DEF l
    <3>3. /\ WithLink(K, p, l) \in Kernels
          /\ WithLink(K, p, l).links = [K.links EXCEPT ![p] = @ \cup {l}]
          /\ WithLink(K, p, l).addrs = K.addrs /\ WithLink(K, p, l).routes = K.routes
          /\ WithLink(K, p, l).next = [K.next EXCEPT ![p] = @ + 1]
      BY <3>1, <3>2, KernLinks
    <3> QED
      BY <2>1, <3>3 DEF l
  <2> HIDE DEF done
  <2>4. Acked(HostOf(p), "createVethPeerNetns") \/ Acked(HostOf(p), "createVethOnBridge")
    BY <1>6, <2>3 DEF Acked
  <2>5. /\ kern'.links = [[kern.links EXCEPT !["node"] = @ \cup {HostEnd(p, master)}]
                               EXCEPT ![p] = @ \cup {PodEnd(p)}]
        /\ kern'.addrs = kern.addrs /\ kern'.routes = kern.routes
    BY <2>2, <2>3, Zenon
  <2>7. kern'.next = [[kern.next EXCEPT !["node"] = @ + 1] EXCEPT ![p] = @ + 1]
    BY <2>2, <2>3, Zenon
  <2>6. MadePair(p)
    BY <1>4, <1>6, <2>4, <2>5, <2>7 DEF MadePair
  <2> QED
    BY <2>6 DEF CallStep
<1>7. CASE Refused(c) /\ IF can THEN Fault ELSE UNCHANGED faults
  <2>1. Denied(c)
    BY <1>1, <1>7 DEF Denied, Refused, Fault
  <2> QED
    BY <2>1 DEF CallStep
<1>8. CASE SendFails(c)
  BY <1>1, <1>8, StepSendFails DEF CallStep
<1> QED
  BY <1>5, <1>6, <1>7, <1>8 DEF Request

LEMMA StepPeerNetns ==
    ASSUME TypeInv, NEW c \in Callers, createVethPeerNetns(c) \/ createVethOnBridge(c)
    PROVE  CallStep(c)
<1>1. CASE createVethPeerNetns(c)
  <2>1. PICK p \in Pods : c = HostOf(p)
    BY <1>1, WhoCalls DEF TypeInv, createVethPeerNetns, Calling
  <2>2. c[2] = p
    BY <2>1, Parts
  <2> QED
    BY <1>1, <2>1, <2>2, StepPair DEF createVethPeerNetns, Calling
<1>2. CASE createVethOnBridge(c)
  <2>1. PICK p \in Range(Bridged) : c = HostOf(p)
    BY <1>2, WhoCalls DEF TypeInv, createVethOnBridge, Calling
  <2>2. p \in Pods /\ Bridge[p] \in Bridges
    BY DEF Pods, Bridges
  <2>3. c[2] = p /\ bridgeIdx[Bridge[p]] \in Nat
    BY <2>1, <2>2, Parts DEF TypeInv, Types
  <2> QED
    BY <1>2, <2>1, <2>2, <2>3, StepPair DEF createVethOnBridge, Calling
<1> QED
  BY <1>1, <1>2

LEMMA StepAddr ==
    ASSUME TypeInv, NEW c \in Callers, addAddrV4(c)
    PROVE  CallStep(c)
<1>1. pc[c] = "addAddrV4" /\ pc[c] \in Calls /\ sock[c].wait = 0
  BY DEF addAddrV4, Calling, Calls, AckCalls
<1> DEFINE a == [idx |-> idx[c], ip |-> Address(c)]
           r == [dst |-> "subnet", gw |-> None, idx |-> idx[c]]
           n == Ns(c)
           can == \E l \in kern.links[Ns(c)] : l.idx = idx[c]
           done == WithAddr(n, a, r)
<1>2. a \in AddrSet
  BY <1>1, AddressTypes DEF TypeInv, Types, AddrSet
<1>3. None \in Addresses
  BY Zenon DEF Addresses
<1>4. r \in RouteSet
  BY <1>3 DEF TypeInv, Types, RouteSet
<1>5. kern \in Kernels /\ n \in Namespaces
  BY Where DEF TypeInv, Types
<1>6. Request(c, can, done)
  BY DEF addAddrV4, WithAddr
<1>7. CASE /\ can /\ kern' = done
           /\ Answered(c, <<<<ErrorMsg(Sent(c), FALSE)>>>>) /\ UNCHANGED faults
  <2> HIDE DEF a, r, n, done
  <2>1. kern' = WithAddr(n, a, r)
    BY <1>7 DEF done
  <2>2. /\ kern' \in Kernels
        /\ kern'.links = kern.links /\ kern'.next = kern.next
        /\ kern'.addrs = [kern.addrs EXCEPT ![n] = @ \cup {a}]
        /\ kern'.routes = [kern.routes EXCEPT ![n] = @ \cup {r}]
    BY <1>2, <1>4, <1>5, <2>1, KernAddr
  <2>3. GaveAddr(c)
    BY <1>1, <1>7, <2>2 DEF GaveAddr, Acked, a, r, n
  <2> QED
    BY <2>3 DEF CallStep
<1>8. CASE Refused(c) /\ IF can THEN Fault ELSE UNCHANGED faults
  <2>1. Denied(c)
    BY <1>1, <1>8 DEF Denied, Refused, Fault
  <2> QED
    BY <2>1 DEF CallStep
<1>9. CASE SendFails(c)
  BY <1>1, <1>9, StepSendFails DEF CallStep
<1> QED
  BY <1>6, <1>7, <1>8, <1>9 DEF Request

LEMMA StepRoute ==
    ASSUME TypeInv, NEW c \in Callers, addDefaultRouteV4(c)
    PROVE  CallStep(c)
<1>1. pc[c] = "addDefaultRouteV4" /\ pc[c] \in Calls /\ sock[c].wait = 0
  BY DEF addDefaultRouteV4, Calling, Calls, AckCalls
<1> DEFINE r == [dst |-> "default", gw |-> Gateway(c), idx |-> idx[c]]
           n == Ns(c)
           can == /\ \E l \in kern.links[Ns(c)] : l.idx = idx[c]
                  /\ ~\E d \in kern.routes[Ns(c)] : d.dst = "default"
           done == WithRoute(n, r)
<1>3. Gateway(c) \in Addresses
  BY <1>1, WhoCalls, AddressTypes DEF TypeInv
<1>4. r \in RouteSet
  BY <1>3 DEF TypeInv, Types, RouteSet
<1>5. kern \in Kernels /\ n \in Namespaces
  BY Where DEF TypeInv, Types
<1>6. Request(c, can, done)
  BY DEF addDefaultRouteV4, WithRoute
<1>7. CASE /\ can /\ kern' = done
           /\ Answered(c, <<<<ErrorMsg(Sent(c), FALSE)>>>>) /\ UNCHANGED faults
  <2> HIDE DEF r, n, done
  <2>1. kern' = WithRoute(n, r)
    BY <1>7 DEF done
  <2>2. /\ kern' \in Kernels
        /\ kern'.links = kern.links /\ kern'.next = kern.next /\ kern'.addrs = kern.addrs
        /\ kern'.routes = [kern.routes EXCEPT ![n] = @ \cup {r}]
    BY <1>4, <1>5, <2>1, KernRoute
  <2>3. GaveRoute(c)
    BY <1>1, <1>7, <2>2 DEF GaveRoute, Acked, r, n
  <2> QED
    BY <2>3 DEF CallStep
<1>8. CASE Refused(c) /\ IF can THEN Fault ELSE UNCHANGED faults
  <2>1. Denied(c)
    BY <1>1, <1>8 DEF Denied, Refused, Fault
  <2> QED
    BY <2>1 DEF CallStep
<1>9. CASE SendFails(c)
  BY <1>1, <1>9, StepSendFails DEF CallStep
<1> QED
  BY <1>6, <1>7, <1>8, <1>9 DEF Request

LEMMA StepDump ==
    ASSUME TypeInv, NEW c \in Callers,
           linkIndexByName(c) \/ linkByName(c) \/ defaultRouteGateway(c)
    PROVE  CallStep(c)
<1>1. /\ pc[c] \in LinkDumps \cup {"defaultRouteGateway"} /\ pc[c] \in Calls /\ sock[c].wait = 0
      /\ DumpRequest(c, DumpOf(c))
  BY DEF linkIndexByName, linkByName, defaultRouteGateway, Calling, Calls, LinkDumps, DumpOf
<1>2. CASE \E ds \in Datagrams(Append(DumpOf(c), Msg(Sent(c), "DONE"))) :
              Answered(c, ds) /\ UNCHANGED <<kern, faults>>
  <2>1. Dumped(c)
    BY <1>1, <1>2 DEF Dumped
  <2> QED
    BY <2>1 DEF CallStep
<1>3. CASE Refused(c) /\ Fault
  <2>1. Denied(c)
    BY <1>1, <1>3 DEF Denied, Refused, Fault
  <2> QED
    BY <2>1 DEF CallStep
<1>4. CASE SendFails(c)
  BY <1>1, <1>4, StepSendFails DEF CallStep
<1> QED
  BY <1>1, <1>2, <1>3, <1>4 DEF DumpRequest

LEMMA StepReceive ==
    ASSUME TypeInv, NEW c \in Callers, Receive(c)
    PROVE  CallStep(c)
<1> DEFINE d == Head(sock[c].queue) rest == Tail(sock[c].queue)
           hits == {i \in DOMAIN d : Ends(c, d[i])}
<1>1. /\ pc[c] \in Calls /\ sock[c].wait # 0 /\ sock[c].queue # <<>>
      /\ UNCHANGED faults
  BY DEF Receive
<1>2. CASE /\ hits = {}
           /\ sock' = [sock EXCEPT ![c].queue = rest]
           /\ UNCHANGED <<pc, kern, idx, bridgeIdx, turn, route, renewed>>
  <2>1. Skipped(c)
    BY <1>1, <1>2 DEF Skipped
  <2> QED
    BY <2>1 DEF CallStep
<1>3. ASSUME NEW i \in hits, \A j \in hits : i <= j,
             Returns(c, d[i], Socket(sock[c].seq, 0, rest))
      PROVE  CallStep(c)
  <2>1. First(c, i)
    BY <1>1, <1>3 DEF First
  <2>2. CASE Succeeds(c, d[i])
    <3>1. Returned(c, i)
      BY <1>1, <1>3, <2>1, <2>2 DEF Returned
    <3> QED
      BY <3>1 DEF CallStep
  <2>3. CASE ~Succeeds(c, d[i])
    <3> DEFINE s == Socket(sock[c].seq, 0, rest)
    <3>1. rest \in Seq(Seq(Message)) /\ Unread(rest) \subseteq Unread(sock[c].queue)
      BY <1>1, SocketFields, UnreadHead DEF TypeInv
    <3>2. s \in Sockets /\ s.wait = 0 /\ s.seq = sock[c].seq /\ s.queue = rest
      BY <3>1, SocketFields DEF TypeInv, Socket, Sockets
    <3>3. Fails(c, s)
      BY <1>3, <2>3 DEF Returns
    <3>4. s.seq >= sock[c].seq
      BY <3>2, SocketFields DEF TypeInv
    <3> HIDE DEF s
    <3>5. Failed(c, s)
      BY <1>1, <2>1, <2>3, <3>1, <3>2, <3>3, <3>4 DEF Failed
    <3> QED
      BY <3>5 DEF CallStep
  <2> QED
    BY <2>2, <2>3
<1> QED
  BY <1>2, <1>3 DEF Receive

LEMMA StepReceiveFails ==
    ASSUME TypeInv, NEW c \in Callers, ReceiveFails(c)
    PROVE  CallStep(c)
<1>1. /\ pc[c] \in Calls /\ sock[c].wait # 0 /\ sock[c].queue # <<>>
      /\ faults < MaxFaults /\ faults' = faults + 1
  BY DEF ReceiveFails, Fault
<1>2. PICK q \in {sock[c].queue, Tail(sock[c].queue)} : Fails(c, Socket(sock[c].seq, 0, q))
  BY DEF ReceiveFails
<1>3. q \in Seq(Seq(Message)) /\ Unread(q) \subseteq Unread(sock[c].queue)
  BY <1>1, SocketFields, UnreadHead DEF TypeInv
<1> DEFINE s == Socket(sock[c].seq, 0, q)
<1>4. s \in Sockets /\ s.wait = 0 /\ s.seq = sock[c].seq /\ s.queue = q
  BY <1>3, SocketFields DEF TypeInv, Socket, Sockets
<1>5. Fails(c, s) /\ s.seq >= sock[c].seq
  BY <1>2, <1>4, SocketFields DEF TypeInv
<1> HIDE DEF s
<1>6. Failed(c, s)
  BY <1>1, <1>3, <1>4, <1>5 DEF Failed
<1> QED
  BY <1>6 DEF CallStep

LEMMA Steps ==
    ASSUME TypeInv, Next
    PROVE  (\E c \in Callers : CallStep(c)) \/ Phase \/ (\E p \in Pods : ContainerEnds(p)) \/ Renew
  BY StepOpen, StepBridge, StepPeerNetns, StepAddr, StepRoute, StepDump, StepReceive, StepReceiveFails
  DEF Next, Call, Phase

\* The parts of the kernel's state.
LEMMA KernelFields ==
    ASSUME TypeInv, NEW n \in Namespaces
    PROVE  /\ kern.links[n] \in SUBSET LinkSet /\ IsFiniteSet(kern.links[n])
           /\ kern.addrs[n] \in SUBSET AddrSet
           /\ kern.routes[n] \in SUBSET RouteSet /\ IsFiniteSet(kern.routes[n])
           /\ kern.next[n] \in Nat
           /\ kern.links \in [Namespaces -> SUBSET LinkSet]
           /\ kern.addrs \in [Namespaces -> SUBSET AddrSet]
           /\ kern.routes \in [Namespaces -> SUBSET RouteSet]
           /\ kern.next \in [Namespaces -> Nat]
<1>1. kern \in Kernels
  BY DEF TypeInv, Types
<1>2. IsFiniteSet(kern.links[n]) /\ IsFiniteSet(kern.routes[n])
  BY DEF TypeInv, Finite
<1> QED
  BY <1>1, <1>2 DEF Kernels

\* A dump is a sequence of messages.
LEMMA LinkDumpType ==
    ASSUME TypeInv, NEW c \in Callers
    PROVE  /\ LinkDump(c) \in Seq(Message)
           /\ \A i \in DOMAIN LinkDump(c) : \E l \in kern.links[Ns(c)] :
                 l.master = 0 /\ LinkDump(c)[i] = LinkMsg(Sent(c), l)
           /\ \A l \in kern.links[Ns(c)] : l.master = 0 =>
                 \E i \in DOMAIN LinkDump(c) : LinkDump(c)[i] = LinkMsg(Sent(c), l)
<1> DEFINE S == {l \in kern.links[Ns(c)] : l.master = 0} o == Ordered(S) d == LinkDump(c)
<1>1. Ns(c) \in Namespaces
  BY Where
<1>2. S \in SUBSET kern.links[Ns(c)] /\ S \subseteq LinkSet
  BY <1>1, KernelFields
<1>3. IsFiniteSet(S)
  BY <1>1, <1>2, KernelFields, FS_Subset, Zenon
<1>4. \A l, k \in S : l.idx = k.idx => l = k
  BY <1>1, <1>2 DEF TypeInv, Numbered
<1>5. d = [i \in DOMAIN o |-> LinkMsg(Sent(c), o[i])]
  BY DEF LinkDump
<1>6. Sent(c) \in Nat
  BY SocketFields DEF TypeInv
<1>7. \A l \in S : l \in kern.links[Ns(c)] /\ l.master = 0
  OBVIOUS
<1>8. \A l \in kern.links[Ns(c)] : l.master = 0 => l \in S
  OBVIOUS
<1> HIDE DEF S
<1>9. o \in Seq(S) /\ Range(o) = S
  BY <1>2, <1>3, <1>4, OrderedType, Zenon
<1> HIDE DEF o, d
<1>10. \A i \in DOMAIN o : o[i] \in S /\ LinkMsg(Sent(c), o[i]) \in Message
  BY <1>2, <1>6, <1>9, LinkFields
<1>11. DOMAIN o = 1..Len(o) /\ Len(o) \in Nat
  BY <1>9
<1>12. d \in Seq(Message) /\ DOMAIN d = DOMAIN o
  BY <1>5, <1>10, <1>11
<1>13. ASSUME NEW i \in DOMAIN d
       PROVE  \E l \in kern.links[Ns(c)] : l.master = 0 /\ d[i] = LinkMsg(Sent(c), l)
  BY <1>5, <1>7, <1>10, <1>12
<1>14. ASSUME NEW l \in kern.links[Ns(c)], l.master = 0
       PROVE  \E i \in DOMAIN d : d[i] = LinkMsg(Sent(c), l)
  <2>1. l \in Range(o)
    BY <1>8, <1>9, <1>14
  <2>2. PICK i \in DOMAIN o : o[i] = l
    BY <2>1 DEF Range
  <2> QED
    BY <1>5, <1>12, <2>2
<1> QED
  BY <1>12, <1>13, <1>14 DEF d

LEMMA RouteDumpType ==
    ASSUME TypeInv, NEW c \in Callers
    PROVE  /\ RouteDump(c) \in Seq(Message)
           /\ \A i \in DOMAIN RouteDump(c) : \E r \in kern.routes[Ns(c)] :
                 RouteDump(c)[i] = RouteMsg(Sent(c), r)
           /\ \A r \in kern.routes[Ns(c)] :
                 \E i \in DOMAIN RouteDump(c) : RouteDump(c)[i] = RouteMsg(Sent(c), r)
<1> DEFINE S == kern.routes[Ns(c)] o == SetToSeq(S) d == RouteDump(c)
<1>1. Ns(c) \in Namespaces
  BY Where
<1>2. S \subseteq RouteSet /\ IsFiniteSet(S)
  BY <1>1, KernelFields
<1>5. d = [i \in DOMAIN o |-> RouteMsg(Sent(c), o[i])]
  BY DEF RouteDump
<1>6. Sent(c) \in Nat
  BY SocketFields DEF TypeInv
<1>9. o \in Seq(S) /\ Range(o) = S
  BY <1>2, SetToSeqType, Zenon
<1> HIDE DEF o, d
<1>10. \A i \in DOMAIN o : o[i] \in S /\ RouteMsg(Sent(c), o[i]) \in Message
  BY <1>2, <1>6, <1>9, RouteFields
<1>11. DOMAIN o = 1..Len(o) /\ Len(o) \in Nat
  BY <1>9
<1>12. d \in Seq(Message) /\ DOMAIN d = DOMAIN o
  BY <1>5, <1>10, <1>11
<1>13. ASSUME NEW i \in DOMAIN d
       PROVE  \E r \in S : d[i] = RouteMsg(Sent(c), r)
  BY <1>5, <1>10, <1>12
<1>14. ASSUME NEW r \in S
       PROVE  \E i \in DOMAIN d : d[i] = RouteMsg(Sent(c), r)
  <2>1. PICK i \in DOMAIN o : o[i] = r
    BY <1>9 DEF Range
  <2> QED
    BY <1>5, <1>12, <2>1
<1> QED
  BY <1>12, <1>13, <1>14 DEF d

\* What the kernel answers to a dump.
DumpAnswer(c, m) ==
    \/ m.type = "DONE"
    \/ /\ pc[c] # "defaultRouteGateway"
       /\ m.type = "NEWLINK"
       /\ \E l \in kern.links[Ns(c)] : m.idx = l.idx /\ m.name = l.name
    \/ /\ pc[c] = "defaultRouteGateway"
       /\ m.type = "NEWROUTE"
       /\ \E r \in kern.routes[Ns(c)] : m.dst = r.dst /\ m.gw = r.gw

LEMMA DumpType ==
    ASSUME TypeInv, NEW c \in Callers,
           NEW ds \in Datagrams(Append(DumpOf(c), Msg(Sent(c), "DONE")))
    PROVE  /\ DumpOf(c) \in Seq(Message)
           /\ ds \in Seq(Seq(Message))
           /\ \A m \in Unread(ds) : m.seq = Sent(c) /\ DumpAnswer(c, m)
<1> DEFINE o == DumpOf(c) e == Msg(Sent(c), "DONE") d == Append(o, e)
<1>1. o \in Seq(Message)
  BY LinkDumpType, RouteDumpType DEF DumpOf
<1>2. Sent(c) \in Nat
  BY SocketFields DEF TypeInv
<1>3. e \in Message /\ e.seq = Sent(c) /\ e.type = "DONE"
  BY <1>2, MsgFields
<1>4. ASSUME NEW i \in DOMAIN o PROVE o[i].seq = Sent(c) /\ DumpAnswer(c, o[i])
  <2>1. CASE pc[c] = "defaultRouteGateway"
    <3>1. o = RouteDump(c)
      BY <2>1 DEF DumpOf
    <3>2. PICK r \in kern.routes[Ns(c)] : o[i] = RouteMsg(Sent(c), r)
      BY <3>1, RouteDumpType, <1>4
    <3>3. r \in RouteSet
      BY Where, KernelFields
    <3> QED
      BY <1>2, <2>1, <3>2, <3>3, RouteFields DEF DumpAnswer
  <2>2. CASE pc[c] # "defaultRouteGateway"
    <3>1. o = LinkDump(c)
      BY <2>2 DEF DumpOf
    <3>2. PICK l \in kern.links[Ns(c)] : o[i] = LinkMsg(Sent(c), l)
      BY <3>1, LinkDumpType, <1>4
    <3>3. l \in LinkSet
      BY Where, KernelFields
    <3> QED
      BY <1>2, <2>2, <3>2, <3>3, LinkFields DEF DumpAnswer
  <2> QED
    BY <2>1, <2>2
<1> HIDE DEF o, e
<1>5. d \in Seq(Message) /\ \A k \in DOMAIN d : (k \in DOMAIN o /\ d[k] = o[k]) \/ d[k] = e
  BY <1>1, <1>3
<1>6. \A m \in Range(d) : m.seq = Sent(c) /\ DumpAnswer(c, m)
  BY <1>3, <1>4, <1>5 DEF Range, DumpAnswer
<1>7. ds \in Datagrams(d)
  BY DEF o, e
<1> HIDE DEF d
<1> QED
  BY <1>1, <1>5, <1>6, <1>7, UnreadDatagrams DEF o

\* Every request is sent, and its answer gets its number.
Sends(c, ds) ==
    /\ pc[c] \in Calls /\ sock[c].wait = 0
    /\ ds \in Seq(Seq(Message))
    /\ \A m \in Unread(ds) : m.seq = Sent(c)
    /\ Answered(c, ds)

\* What a request leaves in the socket of its caller.
LEMMA SendsError ==
    ASSUME TypeInv, NEW c \in Callers, NEW e \in BOOLEAN, pc[c] \in Calls, sock[c].wait = 0,
           Answered(c, <<<<ErrorMsg(Sent(c), e)>>>>)
    PROVE  Sends(c, <<<<ErrorMsg(Sent(c), e)>>>>)
<1>1. Sent(c) \in Nat
  BY SocketFields DEF TypeInv
<1>2. ErrorMsg(Sent(c), e) \in Message /\ ErrorMsg(Sent(c), e).seq = Sent(c)
  BY <1>1, ErrorFields
<1> QED
  BY <1>2, UnreadOne DEF Sends

LEMMA SendsEach ==
    ASSUME TypeInv, NEW c \in Callers
    PROVE  /\ Denied(c) => Sends(c, <<<<ErrorMsg(Sent(c), TRUE)>>>>)
           /\ \A call \in AckCalls : Acked(c, call) => Sends(c, <<<<ErrorMsg(Sent(c), FALSE)>>>>)
           /\ Dumped(c) => \E ds \in Datagrams(Append(DumpOf(c), Msg(Sent(c), "DONE"))) : Sends(c, ds)
<1>1. ASSUME Denied(c) PROVE Sends(c, <<<<ErrorMsg(Sent(c), TRUE)>>>>)
  BY <1>1, SendsError DEF Denied
<1>2. ASSUME NEW call \in AckCalls, Acked(c, call) PROVE Sends(c, <<<<ErrorMsg(Sent(c), FALSE)>>>>)
  BY <1>2, SendsError DEF Acked, Calls
<1>3. ASSUME Dumped(c)
      PROVE  \E ds \in Datagrams(Append(DumpOf(c), Msg(Sent(c), "DONE"))) : Sends(c, ds)
  BY <1>3, DumpType DEF Dumped, Sends, Calls
<1> QED
  BY <1>1, <1>2, <1>3

LEMMA SendsFields ==
    ASSUME TypeInv, NEW c \in Callers, NEW ds, Sends(c, ds)
    PROVE  /\ sock' \in [Callers -> Sockets]
           /\ sock'[c].seq = Sent(c) /\ sock'[c].wait = Sent(c)
           /\ sock'[c].queue = sock[c].queue \o ds
           /\ Unread(sock'[c].queue) = Unread(sock[c].queue) \cup Unread(ds)
           /\ \A d \in Callers \ {c} : sock'[d] = sock[d]
           /\ Sent(c) \in Nat /\ Sent(c) # 0 /\ Sent(c) = sock[c].seq + 1 /\ sock[c].seq \in Nat
           /\ UNCHANGED <<pc, idx, bridgeIdx, turn, route, renewed>>
<1>1. /\ sock \in [Callers -> Sockets] /\ sock[c].seq \in Nat /\ sock[c].queue \in Seq(Seq(Message))
      /\ Sent(c) \in Nat /\ Sent(c) = sock[c].seq + 1
  BY SocketFields DEF TypeInv, Types
<1>2. /\ sock[c].queue \o ds \in Seq(Seq(Message))
      /\ Unread(sock[c].queue \o ds) = Unread(sock[c].queue) \cup Unread(ds)
  BY <1>1, UnreadConcat DEF Sends
<1> DEFINE s == Socket(Sent(c), Sent(c), sock[c].queue \o ds)
<1>3. s \in Sockets /\ s.seq = Sent(c) /\ s.wait = Sent(c) /\ s.queue = sock[c].queue \o ds
  BY <1>1, <1>2 DEF Socket, Sockets
<1>4. sock' = [sock EXCEPT ![c] = s] /\ UNCHANGED <<pc, idx, bridgeIdx, turn, route, renewed>>
  BY DEF Sends, Answered
<1> HIDE DEF s
<1>5. sock' \in [Callers -> Sockets] /\ sock'[c] = s /\ \A d \in Callers \ {c} : sock'[d] = sock[d]
  BY <1>1, <1>3, <1>4
<1>6. Sent(c) # 0
  BY <1>1
<1> QED
  BY <1>1, <1>2, <1>3, <1>4, <1>5, <1>6

-----------------------------------------------------------------------------
(* Where a caller goes when its socket is open and when its call is over. *)

\* Nobody but c moves, and nothing is sent.
Moved(c) ==
    /\ sock' \in [Callers -> Sockets] /\ pc' = [pc EXCEPT ![c] = pc'[c]]
    /\ \A d \in Callers \ {c} : pc'[d] = pc[d] /\ sock'[d] = sock[d] /\ idx'[d] = idx[d]
    /\ sock'[c].wait = 0
    /\ Unread(sock'[c].queue) \subseteq Unread(sock[c].queue)
    /\ sock'[c] = NewSocket \/ sock'[c].seq >= sock[c].seq
    /\ UNCHANGED <<kern, renewed>>

\* A socket that was just opened.
LEMMA NewSocketFields ==
    /\ NewSocket \in Sockets /\ NewSocket.wait = 0 /\ NewSocket.seq = 0
    /\ NewSocket.queue = <<>> /\ Unread(NewSocket.queue) = {}
  BY UnreadEmpty DEF NewSocket, Socket, Sockets

LEMMA MovedBy ==
    ASSUME Types, NEW c \in Callers, NEW s \in Sockets, NEW to,
           pc' = [pc EXCEPT ![c] = to], sock' = [sock EXCEPT ![c] = s],
           s.wait = 0, Unread(s.queue) \subseteq Unread(sock[c].queue),
           s = NewSocket \/ s.seq >= sock[c].seq,
           \A d \in Callers \ {c} : idx'[d] = idx[d],
           UNCHANGED <<kern, renewed>>
    PROVE  Moved(c) /\ pc'[c] = to /\ sock'[c] = s
<1>1. pc \in [Callers -> Places] /\ sock \in [Callers -> Sockets]
  BY DEF Types
<1>2. pc'[c] = to /\ \A d \in Callers \ {c} : pc'[d] = pc[d]
  BY <1>1
<1>3. sock' \in [Callers -> Sockets] /\ sock'[c] = s /\ \A d \in Callers \ {c} : sock'[d] = sock[d]
  BY <1>1
<1> QED
  BY <1>2, <1>3 DEF Moved

\* Where a caller goes when its socket is open, and where when its call failed.
LEMMA OpenedTo ==
    ASSUME Types, Roles, NEW c \in Callers, Opened(c)
    PROVE  /\ Moved(c) /\ sock'[c] = NewSocket
           /\ UNCHANGED <<idx, bridgeIdx, turn, route, faults>>
           /\ c = Agent => pc[c] = "open" /\ pc'[c] = "spec"
           /\ c = Lease => pc[c] \in {"open", "reopen"} /\ pc'[c] \in {"linkByName", "addAddrV4"}
           /\ \A p \in Pods : c = HostOf(p) =>
                 /\ pc[c] = "open"
                 /\ pc'[c] = IF p \in Range(Bridged) THEN "createVethOnBridge" ELSE "createVethPeerNetns"
           /\ \A p \in Pods : c = Cont(p) =>
                 pc[c] = "fd5" /\ pc'[c] = "linkIndexByName" /\ pc[HostOf(p)] = "closed"
<1>1. /\ Moved(c) /\ sock'[c] = NewSocket
      /\ pc'[c] = IF pc[c] = "reopen" THEN "addAddrV4" ELSE FirstCall(c)
      /\ UNCHANGED <<idx, bridgeIdx, turn, route, faults>>
  BY NewSocketFields, MovedBy DEF Opened
<1>2. Opens(c)
  BY DEF Opened
<1>3. ASSUME c = Agent PROVE pc[c] = "open" /\ pc'[c] = "spec"
  <2>1. pc[c] = "open"
    BY <1>2, <1>3 DEF Opens, Roles, AgentPlaces, AgentCalls
  <2> QED
    BY <1>1, <1>3, <2>1, Who, Parts DEF FirstCall
<1>4. ASSUME c = Lease PROVE pc[c] \in {"open", "reopen"} /\ pc'[c] \in {"linkByName", "addAddrV4"}
  <2>1. pc[c] \in {"open", "reopen"}
    BY <1>2, <1>4 DEF Opens, Roles, LeasePlaces
  <2> QED
    BY <1>1, <1>4, <2>1, Who, Parts DEF FirstCall
<1>5. ASSUME NEW p \in Pods, c = HostOf(p)
      PROVE  /\ pc[c] = "open"
             /\ pc'[c] = IF p \in Range(Bridged) THEN "createVethOnBridge" ELSE "createVethPeerNetns"
  <2>1. pc[c] = "open"
    BY <1>2, <1>5 DEF Opens, Roles, HostPlaces
  <2> QED
    BY <1>1, <1>5, <2>1, Who, Parts DEF FirstCall
<1>6. ASSUME NEW p \in Pods, c = Cont(p)
      PROVE  pc[c] = "fd5" /\ pc'[c] = "linkIndexByName" /\ pc[HostOf(p)] = "closed"
  <2>1. pc[c] = "fd5" /\ pc[HostOf(c[2])] = "closed"
    BY <1>2, <1>6 DEF Opens, Roles, ContPlaces
  <2> QED
    BY <1>1, <1>6, <2>1, Who, Parts DEF FirstCall
<1> QED
  BY <1>1, <1>3, <1>4, <1>5, <1>6

LEMMA FailedTo ==
    ASSUME Types, Roles, NEW c \in Callers, NEW s, Failed(c, s)
    PROVE  /\ Moved(c)
           /\ UNCHANGED <<idx, bridgeIdx>>
           /\ c = Agent =>
                 /\ pc[c] = "open" => pc'[c] = "closed" /\ turn' = turn
                 /\ pc[c] # "open" => pc[c] \in AgentCalls /\ pc'[c] = "spec" /\ turn' = turn + 1
           /\ c # Agent => turn' = turn
           /\ c = Lease => /\ pc'[c] \in {"failed", "closed", "addDefaultRouteV4"}
                           /\ pc'[c] = "addDefaultRouteV4" => pc[c] = "addAddrV4"
           /\ \A p \in Pods : c = HostOf(p) =>
                 pc'[c] = "closed" /\ pc[c] \notin {"idle", "closed"}
           /\ \A p \in Pods : c = Cont(p) =>
                 /\ pc[c] \in {"fd5", "linkIndexByName", "addAddrV4"} => pc'[c] = "failed" /\ route' = route
                 /\ pc[c] \notin {"fd5", "linkIndexByName", "addAddrV4"} =>
                       /\ pc[c] \in {"addDefaultRouteV4", "defaultRouteGateway"} /\ pc'[c] = "up"
                       /\ route' = [route EXCEPT ![p] = "failed"]
                 /\ pc[c] = "fd5" => pc[HostOf(p)] = "closed"
           /\ (\A p \in Pods : c # Cont(p)) => route' = route
<1>1. /\ Moved(c) /\ pc'[c] = AfterFailure(c)
      /\ UNCHANGED <<idx, bridgeIdx>>
  BY MovedBy DEF Failed, Fails
<1>2. pc[c] \in Calls \/ Opens(c)
  BY DEF Failed
<1>3. /\ turn' = IF c = Agent /\ AfterFailure(c) = "spec" /\ pc[c] \in Calls THEN turn + 1 ELSE turn
      /\ route' = IF c[1] = "cont" /\ pc[c] \in {"addDefaultRouteV4", "defaultRouteGateway"}
                  THEN [route EXCEPT ![c[2]] = "failed"] ELSE route
  BY DEF Failed, Fails, NextTurn
<1>4. ASSUME c = Agent
      PROVE  /\ pc[c] = "open" => pc'[c] = "closed" /\ turn' = turn
             /\ pc[c] # "open" => pc[c] \in AgentCalls /\ pc'[c] = "spec" /\ turn' = turn + 1
             /\ route' = route
  <2>1. pc[c] \in AgentCalls \cup {"open"}
    BY <1>2, <1>4 DEF Opens, Roles, AgentPlaces, AgentCalls, Calls, AckCalls, LinkDumps
  <2>2. pc[c] # "open" => pc[c] \in Calls
    BY <2>1 DEF AgentCalls, Calls, AckCalls, LinkDumps
  <2> QED
    BY <1>1, <1>3, <1>4, <2>1, <2>2, Parts DEF AfterFailure
<1>5. ASSUME c = Lease
      PROVE  /\ pc'[c] \in {"failed", "closed", "addDefaultRouteV4"}
             /\ pc'[c] = "addDefaultRouteV4" => pc[c] = "addAddrV4"
             /\ turn' = turn /\ route' = route
  BY <1>1, <1>3, <1>5, Parts, Who DEF AfterFailure
<1>6. ASSUME NEW p \in Pods, c = HostOf(p)
      PROVE  pc'[c] = "closed" /\ pc[c] \notin {"idle", "closed"} /\ turn' = turn /\ route' = route
  <2>1. pc[c] \notin {"idle", "closed"}
    BY <1>2 DEF Opens, Calls, AckCalls, LinkDumps
  <2> QED
    BY <1>1, <1>3, <1>6, <2>1, Parts, Who DEF AfterFailure
<1>7. ASSUME NEW p \in Pods, c = Cont(p)
      PROVE  /\ pc[c] \in {"fd5", "linkIndexByName", "addAddrV4"} => pc'[c] = "failed" /\ route' = route
             /\ pc[c] \notin {"fd5", "linkIndexByName", "addAddrV4"} =>
                   /\ pc[c] \in {"addDefaultRouteV4", "defaultRouteGateway"} /\ pc'[c] = "up"
                   /\ route' = [route EXCEPT ![p] = "failed"]
             /\ pc[c] = "fd5" => pc[HostOf(p)] = "closed"
             /\ turn' = turn
  <2>1. pc[c] \in {"fd5", "linkIndexByName", "addAddrV4", "addDefaultRouteV4", "defaultRouteGateway"}
    BY <1>2, <1>7 DEF Opens, Roles, ContPlaces, Calls, AckCalls, LinkDumps
  <2>2. c[1] = "cont" /\ c[2] = p /\ c # Agent
    BY <1>7, Parts, Who
  <2>3. pc[c] = "fd5" => pc[HostOf(p)] = "closed"
    BY <1>2, <2>2 DEF Opens, Calls, AckCalls, LinkDumps
  <2> QED
    BY <1>1, <1>3, <2>1, <2>2, <2>3 DEF AfterFailure
<1> QED
  BY <1>1, <1>4, <1>5, <1>6, <1>7, Who

\* The message the call returns for.
LEMMA FirstFields ==
    ASSUME Types, NEW c \in Callers, NEW i, First(c, i)
    PROVE  /\ pc[c] \in Calls /\ sock[c].wait # 0 /\ sock[c].queue # <<>>
           /\ Head(sock[c].queue)[i] \in Message
           /\ Head(sock[c].queue)[i] \in Unread(sock[c].queue)
           /\ Head(sock[c].queue)[i].seq = sock[c].wait
           /\ Ends(c, Head(sock[c].queue)[i])
<1>1. sock[c].queue \in Seq(Seq(Message)) /\ sock[c].queue # <<>> /\ i \in DOMAIN Head(sock[c].queue)
  BY SocketFields DEF First
<1>2. Head(sock[c].queue) \in Seq(Message) /\ Head(sock[c].queue)[i] \in Unread(sock[c].queue)
  BY <1>1, UnreadHead
<1>3. Head(sock[c].queue)[i] \in Message
  BY <1>1, <1>2
<1> QED
  BY <1>2, <1>3 DEF First, Ends

\* Where the callers go when their call succeeded.
AgentReturns ==
    /\ pc[Agent] \in AgentCalls
    /\ pc[Agent] = "createBridge" =>
          pc'[Agent] = "linkIndexByName" /\ turn' = turn /\ UNCHANGED bridgeIdx
    /\ pc[Agent] = "linkIndexByName" =>
          pc'[Agent] = "addAddrV4" /\ turn' = turn /\ UNCHANGED bridgeIdx
    /\ pc[Agent] = "addAddrV4" =>
          /\ pc'[Agent] = "spec" /\ turn' = turn + 1
          /\ bridgeIdx' = [bridgeIdx EXCEPT ![Wanted(Agent)] = idx[Agent]]

LeaseReturns ==
    /\ pc[Lease] \in {"linkByName", "addAddrV4", "addDefaultRouteV4"}
    /\ pc[Lease] = "linkByName" => pc'[Lease] = "reopen"
    /\ pc[Lease] = "addAddrV4" => pc'[Lease] = "addDefaultRouteV4"
    /\ pc[Lease] = "addDefaultRouteV4" => pc'[Lease] = "closed"

HostReturns(p) ==
    /\ pc[HostOf(p)] \in {"createVethPeerNetns", "createVethOnBridge", "linkIndexByName", "addAddrV4"}
    /\ pc[HostOf(p)] = "createVethPeerNetns" => pc'[HostOf(p)] = "linkIndexByName"
    /\ pc[HostOf(p)] = "createVethOnBridge" => pc'[HostOf(p)] = "closed"
    /\ pc[HostOf(p)] = "linkIndexByName" => pc'[HostOf(p)] = "addAddrV4"
    /\ pc[HostOf(p)] = "addAddrV4" => pc'[HostOf(p)] = "closed"

ContReturns(p, m) ==
    /\ pc[Cont(p)] \in {"linkIndexByName", "addAddrV4", "addDefaultRouteV4", "defaultRouteGateway"}
    /\ pc[Cont(p)] = "linkIndexByName" => pc'[Cont(p)] = "addAddrV4"
    /\ pc[Cont(p)] = "addAddrV4" => pc'[Cont(p)] = "addDefaultRouteV4"
    /\ pc[Cont(p)] = "addDefaultRouteV4" => pc'[Cont(p)] = "defaultRouteGateway"
    /\ pc[Cont(p)] = "defaultRouteGateway" => pc'[Cont(p)] = "up"
    /\ route' = IF pc[Cont(p)] = "defaultRouteGateway"
                THEN [route EXCEPT ![p] = IF m.gw = Gateway(Cont(p)) THEN "read back" ELSE "mismatch"]
                ELSE route

LEMMA ReturnedTo ==
    ASSUME Types, Roles, NEW c \in Callers, NEW i, Returned(c, i),
           NEW m, m = Head(sock[c].queue)[i]
    PROVE  /\ Moved(c) /\ UNCHANGED faults
           /\ m \in Message /\ m \in Unread(sock[c].queue) /\ sock[c].wait # 0 /\ m.seq = sock[c].wait
           /\ Ends(c, m) /\ Succeeds(c, m)
           /\ idx' = IF pc[c] \in LinkDumps THEN [idx EXCEPT ![c] = m.idx] ELSE idx
           /\ c = Agent => AgentReturns
           /\ c # Agent => UNCHANGED <<bridgeIdx, turn>>
           /\ c = Lease => LeaseReturns
           /\ \A p \in Pods : c = HostOf(p) => HostReturns(p)
           /\ \A p \in Pods : c = Cont(p) => ContReturns(p, m)
           /\ (\A p \in Pods : c # Cont(p)) => route' = route
<1> DEFINE s == Socket(sock[c].seq, 0, Tail(sock[c].queue))
<1>1. First(c, i) /\ Succeeds(c, m) /\ Returns(c, m, s) /\ UNCHANGED faults
  BY DEF Returned
<1>2. /\ pc[c] \in Calls /\ sock[c].wait # 0 /\ sock[c].queue # <<>> /\ Ends(c, m)
      /\ m \in Message /\ m \in Unread(sock[c].queue) /\ m.seq = sock[c].wait
  BY <1>1, FirstFields
<1>3. /\ sock[c].queue \in Seq(Seq(Message)) /\ sock[c].seq \in Nat
      /\ Tail(sock[c].queue) \in Seq(Seq(Message))
      /\ Unread(Tail(sock[c].queue)) \subseteq Unread(sock[c].queue)
  BY <1>2, SocketFields, UnreadHead
<1>4. s \in Sockets /\ s.wait = 0 /\ s.seq = sock[c].seq /\ s.queue = Tail(sock[c].queue)
  BY <1>3 DEF Socket, Sockets
<1> HIDE DEF s
<1>5. /\ pc' = [pc EXCEPT ![c] = AfterSuccess(c)]
      /\ sock' = [sock EXCEPT ![c] = s]
      /\ idx' = IF pc[c] \in LinkDumps THEN [idx EXCEPT ![c] = m.idx] ELSE idx
      /\ bridgeIdx' = IF c = Agent /\ pc[c] = "addAddrV4"
                      THEN [bridgeIdx EXCEPT ![Wanted(c)] = idx[c]] ELSE bridgeIdx
      /\ route' = IF pc[c] = "defaultRouteGateway"
                  THEN [route EXCEPT ![c[2]] = IF m.gw = Gateway(c) THEN "read back" ELSE "mismatch"]
                  ELSE route
      /\ turn' = IF c = Agent /\ AfterSuccess(c) = "spec" /\ pc[c] \in Calls THEN turn + 1 ELSE turn
      /\ UNCHANGED <<kern, renewed>>
  BY <1>1 DEF Returns, NextTurn
<1>6. \A d \in Callers \ {c} : idx'[d] = idx[d]
  BY <1>5 DEF Types
<1>7. Moved(c) /\ pc'[c] = AfterSuccess(c)
  <2>1. Unread(s.queue) \subseteq Unread(sock[c].queue) /\ s.seq >= sock[c].seq
    BY <1>3, <1>4
  <2> DEFINE to == AfterSuccess(c)
  <2>2. /\ pc' = [pc EXCEPT ![c] = to] /\ sock' = [sock EXCEPT ![c] = s]
        /\ UNCHANGED <<kern, renewed>>
    BY <1>5
  <2> HIDE DEF to
  <2>3. pc'[c] = to /\ \A d \in Callers \ {c} : pc'[d] = pc[d]
    BY <2>2 DEF Types
  <2>4. sock' \in [Callers -> Sockets] /\ sock'[c] = s /\ \A d \in Callers \ {c} : sock'[d] = sock[d]
    BY <1>4, <2>2 DEF Types
  <2>5. pc' = [pc EXCEPT ![c] = pc'[c]]
    BY <2>2, <2>3
  <2>6. Moved(c)
    BY <1>4, <1>6, <2>1, <2>2, <2>3, <2>4, <2>5 DEF Moved
  <2> QED
    BY <2>3, <2>6 DEF to
<1>8. ASSUME c = Agent PROVE AgentReturns /\ route' = route
  <2>1. pc[c] \in AgentCalls
    BY <1>2, <1>8 DEF Roles, AgentPlaces, AgentCalls, Calls, AckCalls, LinkDumps
  <2>2. AfterSuccess(c) = IF pc[c] = "createBridge" THEN "linkIndexByName"
                          ELSE IF pc[c] = "linkIndexByName" THEN "addAddrV4" ELSE "spec"
    <3>1. CASE pc[c] = "createBridge"
      BY <3>1 DEF AfterSuccess
    <3>2. CASE pc[c] = "linkIndexByName"
      BY <3>2 DEF AfterSuccess
    <3>3. CASE pc[c] = "addAddrV4"
      BY <3>3, <1>8, Parts DEF AfterSuccess
    <3> QED
      BY <2>1, <3>1, <3>2, <3>3 DEF AgentCalls
  <2>3. route' = route
    BY <1>5, <2>1 DEF AgentCalls
  <2>4. bridgeIdx' = IF pc[c] = "addAddrV4" THEN [bridgeIdx EXCEPT ![Wanted(Agent)] = idx[Agent]]
                     ELSE bridgeIdx
    BY <1>5, <1>8
  <2>5. turn' = IF pc[c] = "addAddrV4" THEN turn + 1 ELSE turn
    BY <1>2, <1>5, <1>8, <2>1, <2>2 DEF AgentCalls
  <2> QED
    BY <1>7, <1>8, <2>1, <2>2, <2>3, <2>4, <2>5 DEF AgentReturns
<1>9. ASSUME c = Lease PROVE LeaseReturns /\ route' = route
  <2>1. pc[c] \in {"linkByName", "addAddrV4", "addDefaultRouteV4"}
    BY <1>2, <1>9 DEF Roles, LeasePlaces, Calls, AckCalls, LinkDumps
  <2>2. route' = route
    BY <1>5, <2>1
  <2>3. c # Agent /\ c[1] = "lease"
    BY <1>9, Who, Parts
  <2> QED
    BY <1>7, <1>9, <2>1, <2>2, <2>3 DEF AfterSuccess, LeaseReturns
<1>10. ASSUME NEW p \in Pods, c = HostOf(p) PROVE HostReturns(p) /\ route' = route
  <2>1. pc[c] \in {"createVethPeerNetns", "createVethOnBridge", "linkIndexByName", "addAddrV4"}
    <3>1. pc[c] \in HostPlaces(p)
      BY <1>10 DEF Roles
    <3>2. pc[c] \notin {"idle", "open", "closed"}
      BY <1>2 DEF Calls, AckCalls, LinkDumps
    <3> QED
      BY <3>1, <3>2 DEF HostPlaces
  <2>2. route' = route
    BY <1>5, <2>1
  <2>3. c # Agent /\ c[1] = "host"
    BY <1>10, Who, Parts
  <2> QED
    BY <1>7, <1>10, <2>1, <2>2, <2>3 DEF AfterSuccess, HostReturns
<1>11. ASSUME NEW p \in Pods, c = Cont(p) PROVE ContReturns(p, m)
  <2>1. pc[c] \in {"linkIndexByName", "addAddrV4", "addDefaultRouteV4", "defaultRouteGateway"}
    BY <1>2, <1>11 DEF Roles, ContPlaces, Calls, AckCalls, LinkDumps
  <2>2. c # Agent /\ c # Lease /\ c[1] = "cont" /\ c[2] = p
    BY <1>11, Who, Parts
  <2> QED
    BY <1>5, <1>7, <1>11, <2>1, <2>2 DEF AfterSuccess, ContReturns
<1> QED
  <2>1. c # Agent => UNCHANGED <<bridgeIdx, turn>>
    BY <1>5
  <2>2. (\A p \in Pods : c # Cont(p)) => route' = route
    BY <1>8, <1>9, <1>10, Who
  <2> QED
    BY <1>1, <1>2, <1>5, <1>7, <1>8, <1>9, <1>10, <1>11, <2>1, <2>2

-----------------------------------------------------------------------------
(* What the other steps leave. *)

\* A request that was sent, whatever the kernel said to it.
Sending(c) ==
    \/ Denied(c)
    \/ c = Agent /\ MadeBridge
    \/ \E p \in Pods : c = HostOf(p) /\ MadePair(p)
    \/ GaveAddr(c) \/ GaveRoute(c) \/ Dumped(c)

LEMMA SendingTo ==
    ASSUME TypeInv, NEW c \in Callers, Sending(c)
    PROVE  /\ \E ds : Sends(c, ds)
           /\ kern' \in Kernels
           /\ faults' = faults \/ (faults < MaxFaults /\ faults' = faults + 1)
<1>0. kern \in Kernels
  BY DEF TypeInv, Types
<1>1. CASE Denied(c)
  BY <1>0, <1>1, SendsEach DEF Denied
<1>2. ASSUME NEW call \in AckCalls, Acked(c, call)
      PROVE  (\E ds : Sends(c, ds)) /\ kern' \in Kernels /\ faults' = faults
  BY <1>2, SendsEach DEF Acked
<1>3. CASE Dumped(c)
  BY <1>0, <1>3, SendsEach DEF Dumped
<1>4. CASE c = Agent /\ MadeBridge
  BY <1>2, <1>4 DEF MadeBridge, AckCalls
<1>5. CASE \E p \in Pods : c = HostOf(p) /\ MadePair(p)
  BY <1>2, <1>5 DEF MadePair, AckCalls
<1>6. CASE GaveAddr(c)
  BY <1>2, <1>6 DEF GaveAddr, AckCalls
<1>7. CASE GaveRoute(c)
  BY <1>2, <1>7 DEF GaveRoute, AckCalls
<1> QED
  BY <1>1, <1>3, <1>4, <1>5, <1>6, <1>7 DEF Sending

\* A datagram without an answer is dropped.
LEMMA SkippedTo ==
    ASSUME Types, NEW c \in Callers, Skipped(c)
    PROVE  /\ sock' \in [Callers -> Sockets]
           /\ sock'[c].seq = sock[c].seq /\ sock'[c].wait = sock[c].wait
           /\ sock'[c].queue = Tail(sock[c].queue) /\ sock[c].queue # <<>>
           /\ Unread(sock'[c].queue) \subseteq Unread(sock[c].queue)
           /\ \A d \in Callers \ {c} : sock'[d] = sock[d]
           /\ UNCHANGED <<pc, kern, idx, bridgeIdx, turn, route, renewed, faults>>
<1> DEFINE s == [sock[c] EXCEPT !.queue = Tail(sock[c].queue)]
<1>1. sock[c] \in Sockets /\ sock[c].queue \in Seq(Seq(Message)) /\ sock[c].queue # <<>>
  BY SocketFields DEF Skipped
<1>2. Tail(sock[c].queue) \in Seq(Seq(Message)) /\ Unread(Tail(sock[c].queue)) \subseteq Unread(sock[c].queue)
  BY <1>1, UnreadHead
<1>3. s \in Sockets /\ s.seq = sock[c].seq /\ s.wait = sock[c].wait /\ s.queue = Tail(sock[c].queue)
  BY <1>1, <1>2 DEF Sockets
<1>4. sock' = [sock EXCEPT ![c] = s] /\ UNCHANGED <<pc, kern, idx, bridgeIdx, turn, route, renewed, faults>>
  BY DEF Skipped
<1> HIDE DEF s
<1>5. sock' \in [Callers -> Sockets] /\ sock'[c] = s /\ \A d \in Callers \ {c} : sock'[d] = sock[d]
  BY <1>3, <1>4 DEF Types
<1> QED
  BY <1>1, <1>2, <1>3, <1>4, <1>5

\* The pod's namespace is empty, and the host's end of its pair is gone.
LEMMA WithoutPodFields ==
    ASSUME kern \in Kernels, NEW p \in Pods
    PROVE  /\ WithoutPod(p) \in Kernels
           /\ WithoutPod(p).links = [n \in Namespaces |->
                 IF n = p THEN {} ELSE IF n = "node" THEN {l \in kern.links["node"] : l.far # p}
                 ELSE kern.links[n]]
           /\ WithoutPod(p).routes = [n \in Namespaces |-> IF n = p THEN {} ELSE kern.routes[n]]
           /\ WithoutPod(p).addrs = [n \in Namespaces |->
                 IF n = p THEN {}
                 ELSE IF n = "node" THEN {a \in kern.addrs["node"] : a.idx \notin Closed(p).gone}
                 ELSE kern.addrs[n]]
           /\ WithoutPod(p).next = kern.next
<1> DEFINE B == {a \in kern.addrs["node"] : a.idx \notin Closed(p).gone}
           L == {l \in kern.links["node"] : l.far # p}
<1>1. "node" \in Namespaces /\ p \in Namespaces /\ p # "node"
  BY Where
<1>2. Closed(p).links = L
  BY DEF Closed
<1> DEFINE k1 == [kern EXCEPT !.links[p] = {}]
           k2 == [k1 EXCEPT !.addrs[p] = {}]
           k3 == [k2 EXCEPT !.routes[p] = {}]
           k4 == [k3 EXCEPT !.links["node"] = L]
           k5 == [k4 EXCEPT !.addrs["node"] = B]
<1>3. /\ k3 \in Kernels /\ k3.links = [kern.links EXCEPT ![p] = {}]
      /\ k3.addrs = [kern.addrs EXCEPT ![p] = {}]
      /\ k3.routes = [kern.routes EXCEPT ![p] = {}] /\ k3.next = kern.next
  BY <1>1 DEF Kernels
<1>4. WithoutPod(p) = k5
  <2>1. k4.addrs["node"] = kern.addrs["node"]
    BY <1>1, <1>3 DEF Kernels
  <2> QED
    BY <1>2, <2>1 DEF WithoutPod
<1>5. L \in SUBSET LinkSet /\ B \in SUBSET AddrSet
  BY <1>1 DEF Kernels
<1> HIDE DEF k3, L, B
<1>6. /\ k5 \in Kernels /\ k5.links = [k3.links EXCEPT !["node"] = L]
      /\ k5.addrs = [k3.addrs EXCEPT !["node"] = B]
      /\ k5.routes = k3.routes /\ k5.next = k3.next
  BY <1>1, <1>3, <1>5 DEF Kernels
<1> HIDE DEF k5
<1>7. /\ kern.links \in [Namespaces -> SUBSET LinkSet]
      /\ kern.addrs \in [Namespaces -> SUBSET AddrSet]
      /\ kern.routes \in [Namespaces -> SUBSET RouteSet]
  BY DEF Kernels
<1>8. k5.links = [n \in Namespaces |->
                 IF n = p THEN {} ELSE IF n = "node" THEN L ELSE kern.links[n]]
  BY <1>1, <1>3, <1>6, <1>7
<1>9. k5.addrs = [n \in Namespaces |->
                 IF n = p THEN {} ELSE IF n = "node" THEN B ELSE kern.addrs[n]]
  BY <1>1, <1>3, <1>6, <1>7
<1>10. k5.routes = [n \in Namespaces |-> IF n = p THEN {} ELSE kern.routes[n]]
  BY <1>1, <1>3, <1>6, <1>7
<1> QED
  BY <1>3, <1>4, <1>6, <1>8, <1>9, <1>10 DEF L, B

\* A container that ends takes its namespace with it.
LEMMA EndsTo ==
    ASSUME Types, NEW p \in Pods, ContainerEnds(p)
    PROVE  /\ pc' \in [Callers -> Places] /\ pc[Cont(p)] \notin {"idle", "gone"} /\ pc'[Cont(p)] = "gone"
           /\ sock' \in [Callers -> Sockets] /\ sock'[Cont(p)] = NewSocket
           /\ \A d \in Callers \ {Cont(p)} : pc'[d] = pc[d] /\ sock'[d] = sock[d]
           /\ kern' = WithoutPod(p) /\ kern' \in Kernels
           /\ faults' = faults \/ (faults < MaxFaults /\ faults' = faults + 1)
           /\ pc[Cont(p)] \in {"up", "failed"} \/ faults' = faults + 1
           /\ UNCHANGED <<idx, bridgeIdx, turn, route, renewed>>
<1>1. "gone" \in Places /\ Cont(p) \in Callers
  BY Who DEF Places
<1>2. pc' = [pc EXCEPT ![Cont(p)] = "gone"] /\ sock' = [sock EXCEPT ![Cont(p)] = NewSocket]
  BY DEF ContainerEnds, Goto
<1>3. pc' \in [Callers -> Places] /\ pc'[Cont(p)] = "gone" /\ \A d \in Callers \ {Cont(p)} : pc'[d] = pc[d]
  BY <1>1, <1>2 DEF Types
<1>4. /\ sock' \in [Callers -> Sockets] /\ sock'[Cont(p)] = NewSocket
      /\ \A d \in Callers \ {Cont(p)} : sock'[d] = sock[d]
  BY <1>1, <1>2, NewSocketFields DEF Types
<1>5. kern' = WithoutPod(p) /\ kern' \in Kernels
  BY WithoutPodFields DEF ContainerEnds, Types
<1> QED
  BY <1>3, <1>4, <1>5 DEF ContainerEnds, Fault

LEMMA RenewTo ==
    ASSUME Types, Renew
    PROVE  /\ pc' \in [Callers -> Places] /\ pc[Lease] = "closed" /\ pc'[Lease] = "open"
           /\ \A d \in Callers \ {Lease} : pc'[d] = pc[d]
           /\ renewed' \in 0..Renewals
           /\ UNCHANGED <<sock, kern, idx, bridgeIdx, turn, route, faults>>
<1>1. "open" \in Places /\ Lease \in Callers
  BY Who DEF Places
<1>2. pc' = [pc EXCEPT ![Lease] = "open"]
  BY DEF Renew, Goto
<1>3. renewed' \in 0..Renewals
  <2>1. Renewals \in Nat /\ renewed \in 0..Renewals
    BY NetlinkAssumption, Zenon DEF Types
  <2>2. renewed < Renewals /\ renewed' = renewed + 1
    BY Zenon DEF Renew
  <2> QED
    BY <2>1, <2>2
<1> QED
  BY <1>1, <1>2, <1>3 DEF Types, Renew

\* The pod whose turn it is.
LEMMA LoopOrdinary ==
    ASSUME Types, turn <= Len(Ordinary)
    PROVE  Ordinary[turn] \in Range(Ordinary) /\ Ordinary[turn] \in Pods
           /\ Ordinary[turn] \notin Range(Bridged)
<1>0. Ordinary \in Seq(Pods) /\ turn \in Nat \ {0} /\ Range(Ordinary) \cap Range(Bridged) = {}
  BY NetlinkAssumption, Zenon DEF Types
<1>1. turn \in 1..Len(Ordinary) /\ DOMAIN Ordinary = 1..Len(Ordinary)
  BY <1>0
<1>2. Ordinary[turn] \in Range(Ordinary)
  BY <1>1 DEF Range
<1> QED
  BY <1>0, <1>2 DEF Pods

\* Only the agent moves, from one of its waiting points, or it starts the pods
\* that are idle.
LEMMA PhaseTo ==
    ASSUME TypeInv, Phase
    PROVE  /\ UNCHANGED <<sock, kern, idx, bridgeIdx, route, renewed>>
           /\ pc' \in [Callers -> Places] /\ pc'[Lease] = pc[Lease]
           /\ faults' = faults \/ (faults < MaxFaults /\ faults' = faults + 1)
           /\ pc[Agent] \notin AgentCalls /\ sock[Agent].wait = 0
           /\ \/ AgentStarts /\ pc'[Agent] = "ordinary" /\ turn' = turn
              \/ RunOrdinary /\ pc'[Agent] = pc[Agent] /\ turn' = turn
              \/ WaitOrdinary /\ pc' = pc /\ turn' = turn + 1
              \/ RunBridged /\ pc'[Agent] = "open" /\ turn' = 1
              \/ NextSpec /\ turn > Len(Bridged) /\ pc'[Agent] = "run" /\ turn' = turn
              \/ NextSpec /\ turn <= Len(Bridged) /\ bridgeIdx[Bridge[Bridged[turn]]] # 0
                          /\ pc' = pc /\ turn' = turn + 1
              \/ NextSpec /\ turn <= Len(Bridged) /\ bridgeIdx[Bridge[Bridged[turn]]] = 0
                          /\ pc'[Agent] = "createBridge" /\ turn' = turn
              \/ LaunchBridged /\ pc'[Agent] = "wait" /\ turn' = turn
              \/ WaitBridged /\ pc'[Agent] = "closed" /\ turn' = turn
           /\ RunOrdinary \/ LaunchBridged \/ \A p \in Pods : pc'[HostOf(p)] = pc[HostOf(p)] /\ pc'[Cont(p)] = pc[Cont(p)]
           /\ \A p \in Pods :
                 \/ pc'[HostOf(p)] = pc[HostOf(p)] /\ pc'[Cont(p)] = pc[Cont(p)]
                 \/ /\ pc[HostOf(p)] = "idle" /\ pc[Cont(p)] = "idle"
                    /\ pc'[HostOf(p)] = "open" /\ pc'[Cont(p)] = "fd5"
                    /\ \/ RunOrdinary /\ turn <= Len(Ordinary) /\ p = Ordinary[turn]
                       \/ LaunchBridged /\ p \in Launched
<1> DEFINE Same == \A p \in Pods : pc'[HostOf(p)] = pc[HostOf(p)] /\ pc'[Cont(p)] = pc[Cont(p)]
<1>1. /\ pc \in [Callers -> Places] /\ Agent \in Callers /\ Agent # Lease
      /\ \A p \in Pods : HostOf(p) # Agent /\ Cont(p) # Agent /\ HostOf(p) \in Callers /\ Cont(p) \in Callers
      /\ \A p, q \in Pods : HostOf(p) # Cont(q) /\ (HostOf(p) = HostOf(q) => p = q) /\ (Cont(p) = Cont(q) => p = q)
  BY Who, Zenon DEF TypeInv, Types
<1>2. ASSUME NEW to \in {"ordinary", "open", "run", "createBridge", "closed"}, Goto(Agent, to)
      PROVE  pc' \in [Callers -> Places] /\ pc'[Lease] = pc[Lease] /\ pc'[Agent] = to /\ Same
  <2>1. to \in Places
    BY DEF Places, Calls, AckCalls
  <2> QED
    BY <1>1, <1>2, <2>1 DEF Goto
<1>3. sock[Agent].wait # 0 => pc[Agent] \in Calls
  BY <1>1, Zenon DEF TypeInv, Waits
<1>4. ASSUME pc[Agent] \in {"idle", "ordinary", "spec", "run", "wait"}
      PROVE  pc[Agent] \notin AgentCalls /\ sock[Agent].wait = 0
  BY <1>3, <1>4 DEF AgentCalls, Calls, AckCalls, LinkDumps
<1>5. CASE AgentStarts
  BY <1>2, <1>4, <1>5 DEF AgentStarts, OnlyPc
<1>6. CASE RunOrdinary
  <2> DEFINE p == Ordinary[turn]
  <2>1. p \in Pods /\ pc[Cont(p)] = "idle" /\ pc' = [pc EXCEPT ![HostOf(p)] = "open", ![Cont(p)] = "fd5"]
    BY <1>6, LoopOrdinary DEF RunOrdinary, TypeInv
  <2>2. pc[HostOf(p)] = "idle" /\ "open" \in Places /\ "fd5" \in Places
    BY <2>1 DEF TypeInv, Phases, Places
  <2> HIDE DEF p
  <2>3. /\ pc' \in [Callers -> Places] /\ pc'[HostOf(p)] = "open" /\ pc'[Cont(p)] = "fd5"
        /\ \A d \in Callers \ {HostOf(p), Cont(p)} : pc'[d] = pc[d]
    BY <1>1, <2>1, <2>2
  <2>4. pc'[Lease] = pc[Lease] /\ pc'[Agent] = pc[Agent]
    BY <2>1, <2>3, Who
  <2>5. \A q \in Pods : \/ pc'[HostOf(q)] = pc[HostOf(q)] /\ pc'[Cont(q)] = pc[Cont(q)]
                        \/ q = p
    BY <1>1, <2>1, <2>3
  <2>6. turn <= Len(Ordinary) /\ UNCHANGED turn /\ OnlyPc /\ pc[Agent] = "ordinary"
    BY <1>6 DEF RunOrdinary
  <2> QED
    BY <1>4, <1>6, <2>1, <2>2, <2>3, <2>4, <2>5, <2>6 DEF OnlyPc, p
<1>7. CASE WaitOrdinary
  BY <1>1, <1>4, <1>7 DEF WaitOrdinary, Fault
<1>8. CASE RunBridged
  BY <1>2, <1>4, <1>8 DEF RunBridged, OnlyPc
<1>9. CASE NextSpec
  <2>1. pc[Agent] = "spec" /\ OnlyPc /\ turn \in Nat /\ Len(Bridged) \in Nat
    <3>1. Bridged \in Seq(Pods)
      BY NetlinkAssumption, Zenon
    <3>2. pc[Agent] = "spec" /\ OnlyPc /\ turn \in Nat
      BY <1>9, Zenon DEF NextSpec, TypeInv, Types
    <3> QED
      BY <3>1, <3>2
  <2>2. \/ turn > Len(Bridged) /\ Goto(Agent, "run") /\ UNCHANGED turn
        \/ turn <= Len(Bridged) /\ bridgeIdx[Bridge[Bridged[turn]]] # 0 /\ turn' = turn + 1 /\ UNCHANGED pc
        \/ turn <= Len(Bridged) /\ bridgeIdx[Bridge[Bridged[turn]]] = 0 /\ Goto(Agent, "createBridge") /\ UNCHANGED turn
    BY <1>9, <2>1 DEF NextSpec
  <2> QED
    BY <1>1, <1>2, <1>4, <1>9, <2>1, <2>2 DEF OnlyPc
<1>10. CASE LaunchBridged
  <2>1. /\ pc[Agent] = "run" /\ UNCHANGED turn /\ OnlyPc
        /\ pc' = [c \in Callers |-> CASE c = Agent -> "wait"
                                      [] c[1] = "host" /\ c[2] \in Launched -> "open"
                                      [] c[1] = "cont" /\ c[2] \in Launched -> "fd5"
                                      [] OTHER -> pc[c]]
    BY <1>10 DEF LaunchBridged
  <2>2. pc'[Agent] = "wait" /\ pc'[Lease] = pc[Lease]
    BY <2>1, Who, Parts
  <2>3. ASSUME NEW p \in Pods
        PROVE  /\ pc'[HostOf(p)] = IF p \in Launched THEN "open" ELSE pc[HostOf(p)]
               /\ pc'[Cont(p)] = IF p \in Launched THEN "fd5" ELSE pc[Cont(p)]
    <3>1. pc'[HostOf(p)] = IF p \in Launched THEN "open" ELSE pc[HostOf(p)]
      BY <1>1, <2>1, Who, Parts
    <3>2. pc'[Cont(p)] = IF p \in Launched THEN "fd5" ELSE pc[Cont(p)]
      BY <1>1, <2>1, Who, Parts
    <3> QED
      BY <3>1, <3>2
  <2>4. {"open", "fd5", "wait"} \subseteq Places
    BY DEF Places
  <2>5. \A c \in Callers : pc'[c] \in Places
    BY <1>1, <2>2, <2>3, <2>4, Who
  <2>6. pc' \in [Callers -> Places]
    BY <2>1, <2>5
  <2>7. \A p \in Launched : pc[HostOf(p)] = "idle" /\ pc[Cont(p)] = "idle" /\ p \in Pods
    <3>1. \A p \in Launched : p \in Range(Bridged) /\ p \in Pods
      BY DEF Launched, Pods
    <3>2. Phases
      BY DEF TypeInv
    <3> QED
      BY <2>1, <3>1, <3>2 DEF Phases
  <2>8. pc[Agent] \notin AgentCalls /\ sock[Agent].wait = 0
    BY <1>4, <2>1
  <2>9. UNCHANGED <<sock, kern, idx, bridgeIdx, route, renewed, faults, turn>>
    BY <2>1 DEF OnlyPc
  <2>10. \A p \in Pods :
            \/ pc'[HostOf(p)] = pc[HostOf(p)] /\ pc'[Cont(p)] = pc[Cont(p)]
            \/ /\ pc[HostOf(p)] = "idle" /\ pc[Cont(p)] = "idle"
               /\ pc'[HostOf(p)] = "open" /\ pc'[Cont(p)] = "fd5"
               /\ p \in Launched
    BY <2>3, <2>7
  <2> QED
    BY <1>10, <2>2, <2>6, <2>8, <2>9, <2>10, Zenon
<1>11. CASE WaitBridged
  BY <1>2, <1>4, <1>11 DEF WaitBridged, OnlyPc
<1> QED
  BY <1>5, <1>6, <1>7, <1>8, <1>9, <1>10, <1>11 DEF Phase

-----------------------------------------------------------------------------
(* The well-formed states. *)

\* Every step is of one of the kinds.
LEMMA Kinds ==
    ASSUME TypeInv, [Next]_vars
    PROVE  \/ \E c \in Callers : Opened(c)
           \/ \E c \in Callers : \E s : Failed(c, s)
           \/ \E c \in Callers : \E i : Returned(c, i)
           \/ \E c \in Callers : Sending(c)
           \/ \E c \in Callers : Skipped(c)
           \/ Phase
           \/ \E p \in Pods : ContainerEnds(p)
           \/ Renew
           \/ UNCHANGED vars
  BY Steps DEF CallStep, Sending

\* The places of the callers are places of the code.
LEMMA RolePlaces ==
    /\ AgentPlaces \subseteq Places /\ LeasePlaces \subseteq Places /\ ContPlaces \subseteq Places
    /\ \A p : HostPlaces(p) \subseteq Places
<1>1. AgentPlaces \subseteq Places /\ LeasePlaces \subseteq Places /\ ContPlaces \subseteq Places
  BY DEF AgentPlaces, AgentCalls, LeasePlaces, ContPlaces, Places, Calls, AckCalls, LinkDumps
<1>2. ASSUME NEW p PROVE HostPlaces(p) \subseteq Places
  <2>1. {"idle", "open", "closed", "createVethOnBridge", "createVethPeerNetns", "linkIndexByName", "addAddrV4"}
            \subseteq Places
    BY DEF Places, Calls, AckCalls, LinkDumps
  <2> QED
    BY <2>1 DEF HostPlaces
<1> QED
  BY <1>1, <1>2

\* Faults are counted up to their bound.
LEMMA MoreFaults ==
    ASSUME Types, faults' = faults \/ (faults < MaxFaults /\ faults' = faults + 1)
    PROVE  faults' \in 0..MaxFaults
<1>1. MaxFaults \in Nat /\ faults \in 0..MaxFaults
  BY NetlinkAssumption, Zenon DEF Types
<1> QED
  BY <1>1

LEMMA FailedFaults ==
    ASSUME NEW c, NEW s, Failed(c, s)
    PROVE  faults' = faults \/ (faults < MaxFaults /\ faults' = faults + 1)
  BY DEF Failed

\* Every caller stays in the places of its role.
LEMMA RolesStep ==
    ASSUME TypeInv, [Next]_vars
    PROVE  Roles'
<1>0. /\ pc[Agent] \in AgentPlaces /\ pc[Lease] \in LeasePlaces
      /\ \A p \in Pods : pc[HostOf(p)] \in HostPlaces(p) /\ pc[Cont(p)] \in ContPlaces
      /\ Types /\ Roles
  BY DEF TypeInv, Roles
<1> SUFFICES /\ pc'[Agent] \in AgentPlaces /\ pc'[Lease] \in LeasePlaces
             /\ \A p \in Pods : pc'[HostOf(p)] \in HostPlaces(p) /\ pc'[Cont(p)] \in ContPlaces
  BY DEF Roles
<1>m. ASSUME NEW c \in Callers, Moved(c),
             c = Agent => pc'[c] \in AgentPlaces,
             c = Lease => pc'[c] \in LeasePlaces,
             \A p \in Pods : c = HostOf(p) => pc'[c] \in HostPlaces(p),
             \A p \in Pods : c = Cont(p) => pc'[c] \in ContPlaces
      PROVE  /\ pc'[Agent] \in AgentPlaces /\ pc'[Lease] \in LeasePlaces
             /\ \A p \in Pods : pc'[HostOf(p)] \in HostPlaces(p) /\ pc'[Cont(p)] \in ContPlaces
  <2>1. \A d \in Callers : d = c \/ pc'[d] = pc[d]
    BY <1>m DEF Moved
  <2> QED
    BY <1>0, <1>m, <2>1, Who
<1>1. ASSUME NEW c \in Callers, Opened(c)
      PROVE  /\ pc'[Agent] \in AgentPlaces /\ pc'[Lease] \in LeasePlaces
             /\ \A p \in Pods : pc'[HostOf(p)] \in HostPlaces(p) /\ pc'[Cont(p)] \in ContPlaces
  <2>1. \A p \in Pods : c = HostOf(p) => pc'[c] \in HostPlaces(p)
    BY <1>0, <1>1, OpenedTo DEF HostPlaces
  <2>2. /\ c = Agent => pc'[c] \in AgentPlaces
        /\ c = Lease => pc'[c] \in LeasePlaces
        /\ \A p \in Pods : c = Cont(p) => pc'[c] \in ContPlaces
        /\ Moved(c)
    BY <1>0, <1>1, OpenedTo DEF AgentPlaces, LeasePlaces, ContPlaces
  <2> QED
    BY <1>m, <2>1, <2>2
<1>2. ASSUME NEW c \in Callers, NEW s, Failed(c, s)
      PROVE  /\ pc'[Agent] \in AgentPlaces /\ pc'[Lease] \in LeasePlaces
             /\ \A p \in Pods : pc'[HostOf(p)] \in HostPlaces(p) /\ pc'[Cont(p)] \in ContPlaces
  <2>1. \A p \in Pods : c = HostOf(p) => pc'[c] \in HostPlaces(p)
    BY <1>0, <1>2, FailedTo DEF HostPlaces
  <2>2. /\ c = Agent => pc'[c] \in AgentPlaces
        /\ c = Lease => pc'[c] \in LeasePlaces
        /\ \A p \in Pods : c = Cont(p) => pc'[c] \in ContPlaces
        /\ Moved(c)
    BY <1>0, <1>2, FailedTo DEF AgentPlaces, LeasePlaces, ContPlaces
  <2> QED
    BY <1>m, <2>1, <2>2
<1>3. ASSUME NEW c \in Callers, NEW i, Returned(c, i)
      PROVE  /\ pc'[Agent] \in AgentPlaces /\ pc'[Lease] \in LeasePlaces
             /\ \A p \in Pods : pc'[HostOf(p)] \in HostPlaces(p) /\ pc'[Cont(p)] \in ContPlaces
  <2>1. ASSUME NEW p \in Pods, c = HostOf(p) PROVE pc'[c] \in HostPlaces(p)
    <3>1. HostReturns(p)
      BY <1>0, <1>3, <2>1, ReturnedTo
    <3>2. pc[c] \in HostPlaces(p)
      BY <1>0, <2>1
    <3> QED
      BY <2>1, <3>1, <3>2 DEF HostPlaces, HostReturns
  <2>2. c = Agent => pc'[c] \in AgentPlaces
    BY <1>0, <1>3, ReturnedTo DEF AgentPlaces, AgentCalls, AgentReturns
  <2>3. c = Lease => pc'[c] \in LeasePlaces
    BY <1>0, <1>3, ReturnedTo DEF LeasePlaces, LeaseReturns
  <2>4. \A p \in Pods : c = Cont(p) => pc'[c] \in ContPlaces
    BY <1>0, <1>3, ReturnedTo DEF ContPlaces, ContReturns
  <2>5. Moved(c)
    BY <1>0, <1>3, ReturnedTo
  <2> QED
    BY <1>m, <2>1, <2>2, <2>3, <2>4, <2>5
<1>4. ASSUME NEW c \in Callers, Sending(c) PROVE pc' = pc
  BY <1>4, SendingTo, SendsFields
<1>5. ASSUME NEW c \in Callers, Skipped(c) PROVE pc' = pc
  BY <1>5 DEF Skipped
<1>6. ASSUME Phase
      PROVE  /\ pc'[Agent] \in AgentPlaces /\ pc'[Lease] \in LeasePlaces
             /\ \A p \in Pods : pc'[HostOf(p)] \in HostPlaces(p) /\ pc'[Cont(p)] \in ContPlaces
  <2>1. /\ pc'[Lease] = pc[Lease]
        /\ pc' = pc \/ pc'[Agent] \in {pc[Agent], "ordinary", "open", "run", "createBridge", "wait", "closed"}
    BY <1>6, PhaseTo
  <2>2. \A p \in Pods :  \/ pc'[HostOf(p)] = pc[HostOf(p)] /\ pc'[Cont(p)] = pc[Cont(p)]
                         \/ pc'[HostOf(p)] = "open" /\ pc'[Cont(p)] = "fd5"
    BY <1>6, PhaseTo
  <2>3. pc'[Agent] \in AgentPlaces
    BY <1>0, <2>1 DEF AgentPlaces, AgentCalls
  <2>4. \A p \in Pods : "open" \in HostPlaces(p) /\ "fd5" \in ContPlaces
    BY DEF HostPlaces, ContPlaces
  <2> QED
    BY <1>0, <2>1, <2>2, <2>3, <2>4
<1>7. ASSUME NEW p \in Pods, ContainerEnds(p)
      PROVE  /\ pc'[Agent] \in AgentPlaces /\ pc'[Lease] \in LeasePlaces
             /\ \A q \in Pods : pc'[HostOf(q)] \in HostPlaces(q) /\ pc'[Cont(q)] \in ContPlaces
  <2>1. pc'[Cont(p)] = "gone" /\ \A d \in Callers \ {Cont(p)} : pc'[d] = pc[d]
    BY <1>0, <1>7, EndsTo
  <2>2. "gone" \in ContPlaces
    BY DEF ContPlaces
  <2> QED
    BY <1>0, <2>1, <2>2, Who
<1>8. ASSUME Renew
      PROVE  /\ pc'[Agent] \in AgentPlaces /\ pc'[Lease] \in LeasePlaces
             /\ \A q \in Pods : pc'[HostOf(q)] \in HostPlaces(q) /\ pc'[Cont(q)] \in ContPlaces
  <2>1. pc'[Lease] = "open" /\ \A d \in Callers \ {Lease} : pc'[d] = pc[d]
    BY <1>0, <1>8, RenewTo
  <2>2. "open" \in LeasePlaces
    BY DEF LeasePlaces
  <2> QED
    BY <1>0, <2>1, <2>2, Who
<1> QED
  BY <1>0, <1>1, <1>2, <1>3, <1>4, <1>5, <1>6, <1>7, <1>8, Kinds DEF vars

LEMMA MovedPc ==
    ASSUME Types, Roles', NEW c \in Callers, Moved(c)
    PROVE  /\ pc' \in [Callers -> Places] /\ sock' \in [Callers -> Sockets]
           /\ kern' \in Kernels /\ renewed' \in 0..Renewals
<1>1. c \in {Agent, Lease} \/ \E p \in Pods : c \in {HostOf(p), Cont(p)}
  BY Who
<1>2. pc'[c] \in Places
  BY <1>1, RolePlaces DEF Roles
<1> QED
  BY <1>2 DEF Moved, Types

LEMMA TypesStep ==
    ASSUME TypeInv, [Next]_vars
    PROVE  Types'
<1>0. Types /\ Roles /\ Roles'
  BY RolesStep DEF TypeInv
<1>t. turn \in Nat \ {0}
  BY <1>0, Zenon DEF Types
<1>1. ASSUME NEW c \in Callers, Opened(c) PROVE Types'
  <2>1. Moved(c) /\ UNCHANGED <<idx, bridgeIdx, turn, route, faults>>
    BY <1>0, <1>1, OpenedTo
  <2> QED
    BY <1>0, <2>1, MovedPc DEF Types
<1>2. ASSUME NEW c \in Callers, NEW s, Failed(c, s) PROVE Types'
  <2>1. Moved(c) /\ UNCHANGED <<idx, bridgeIdx>> /\ turn' \in {turn, turn + 1}
    BY <1>0, <1>2, FailedTo
  <2>2. route' = route \/ \E p \in Pods : route' = [route EXCEPT ![p] = "failed"]
    BY <1>0, <1>2, FailedTo
  <2>3. turn' \in Nat \ {0}
    BY <1>t, <2>1
  <2>4. route' \in [Pods -> {"none", "failed", "mismatch", "read back"}]
    BY <1>0, <2>2 DEF Types
  <2>5. faults' \in 0..MaxFaults
    BY <1>0, <1>2, FailedFaults, MoreFaults
  <2> QED
    BY <1>0, <2>1, <2>3, <2>4, <2>5, MovedPc DEF Types
<1>3. ASSUME NEW c \in Callers, NEW i, Returned(c, i) PROVE Types'
  <2>m. PICK m : m = Head(sock[c].queue)[i]
    OBVIOUS
  <2>1. /\ Moved(c) /\ m \in Message /\ UNCHANGED faults
        /\ idx' = IF pc[c] \in LinkDumps THEN [idx EXCEPT ![c] = m.idx] ELSE idx
    BY <1>0, <1>3, <2>m, ReturnedTo
  <2>2. route' = route \/ \E p \in Pods : route' = [route EXCEPT ![p] =
                                IF m.gw = Gateway(c) THEN "read back" ELSE "mismatch"]
    <3>1. /\ \A p \in Pods : c = Cont(p) => ContReturns(p, m)
          /\ (\A p \in Pods : c # Cont(p)) => route' = route
      BY <1>0, <1>3, <2>m, ReturnedTo
    <3>2. ASSUME NEW p \in Pods, c = Cont(p)
          PROVE  route' = route \/ route' = [route EXCEPT ![p] =
                                IF m.gw = Gateway(c) THEN "read back" ELSE "mismatch"]
      BY <3>1, <3>2 DEF ContReturns
    <3> QED
      BY <3>1, <3>2
  <2>3. \/ UNCHANGED <<bridgeIdx, turn>>
        \/ /\ bridgeIdx' = [bridgeIdx EXCEPT ![Wanted(Agent)] = idx[Agent]] /\ turn' = turn + 1
           /\ pc[Agent] \in AgentCalls
    BY <1>0, <1>3, <2>m, ReturnedTo DEF AgentCalls, AgentReturns
  <2>4. turn' \in Nat \ {0}
    BY <1>t, <2>3
  <2>5. idx' \in [Callers -> Nat] /\ idx[Agent] \in Nat
    <3>1. m.idx \in Nat
      BY <2>1 DEF Message
    <3> QED
      BY <1>0, <2>1, <3>1, Who DEF Types
  <2>6. route' \in [Pods -> {"none", "failed", "mismatch", "read back"}]
    BY <1>0, <2>2 DEF Types
  <2>7. bridgeIdx' \in [Bridges -> Nat]
    BY <1>0, <2>3, <2>5 DEF Types
  <2> QED
    BY <1>0, <2>1, <2>4, <2>5, <2>6, <2>7, MovedPc DEF Types
<1>4. ASSUME NEW c \in Callers, Sending(c) PROVE Types'
  <2>1. /\ UNCHANGED <<pc, idx, bridgeIdx, turn, route, renewed>> /\ sock' \in [Callers -> Sockets]
        /\ kern' \in Kernels
    BY <1>4, SendingTo, SendsFields
  <2>2. faults' \in 0..MaxFaults
    BY <1>0, <1>4, SendingTo, MoreFaults
  <2> QED
    BY <1>0, <2>1, <2>2 DEF Types
<1>5. ASSUME NEW c \in Callers, Skipped(c) PROVE Types'
  BY <1>0, <1>5, SkippedTo DEF Types
<1>6. ASSUME Phase PROVE Types'
  <2>1. /\ UNCHANGED <<sock, kern, idx, bridgeIdx, route, renewed>>
        /\ pc' \in [Callers -> Places] /\ turn' \in {turn, turn + 1, 1}
    BY <1>6, PhaseTo
  <2>2. faults' \in 0..MaxFaults
    BY <1>0, <1>6, PhaseTo, MoreFaults
  <2>3. turn' \in Nat \ {0}
    BY <1>t, <2>1
  <2> QED
    BY <1>0, <2>1, <2>2, <2>3 DEF Types
<1>7. ASSUME NEW p \in Pods, ContainerEnds(p) PROVE Types'
  <2>1. faults' \in 0..MaxFaults
    BY <1>0, <1>7, EndsTo, MoreFaults
  <2> QED
    BY <1>0, <1>7, <2>1, EndsTo DEF Types
<1>8. ASSUME Renew PROVE Types'
  BY <1>0, <1>8, RenewTo DEF Types
<1>9. ASSUME UNCHANGED vars PROVE Types'
  BY <1>0, <1>9 DEF Types, vars
<1> QED
  BY <1>1, <1>2, <1>3, <1>4, <1>5, <1>6, <1>7, <1>8, <1>9, Kinds

\* The loops stay within the specs, and the agent works on a bridge that is not
\* in the map.
LEMMA TurnsStep ==
    ASSUME TypeInv, [Next]_vars
    PROVE  Turns'
<1>0. Types /\ Roles /\ Turns /\ turn \in Nat
  BY DEF TypeInv, Types
<1>l. Len(Ordinary) \in Nat /\ Len(Bridged) \in Nat
  <2>1. Ordinary \in Seq(Pods) /\ Bridged \in Seq(Pods)
    BY NetlinkAssumption, Zenon
  <2> QED
    BY <2>1
<1> DEFINE W == Bridge[Bridged[turn]]
<1>w. Wanted(Agent) = W /\ Wanted(Agent)' = W'
  <2>1. Agent[1] = "agent"
    BY Parts
  <2> QED
    BY <2>1 DEF Wanted
<1>a. /\ pc[Agent] \in {"idle", "ordinary"} => turn <= Len(Ordinary) + 1
      /\ pc[Agent] \notin {"idle", "ordinary"} => turn <= Len(Bridged) + 1
      /\ pc[Agent] \in AgentCalls => turn <= Len(Bridged) /\ bridgeIdx[W] = 0
  BY <1>0, <1>w, Zenon DEF Turns
<1> DEFINE Goal == /\ pc'[Agent] \in {"idle", "ordinary"} => turn' <= Len(Ordinary) + 1
                   /\ pc'[Agent] \notin {"idle", "ordinary"} => turn' <= Len(Bridged) + 1
                   /\ pc'[Agent] \in AgentCalls => turn' <= Len(Bridged) /\ bridgeIdx'[W'] = 0
<1> SUFFICES Goal
  BY <1>w, Zenon DEF Turns
<1>s. ASSUME pc'[Agent] = pc[Agent], UNCHANGED <<turn, bridgeIdx>> PROVE Goal
  BY <1>a, <1>s
<1>m. ASSUME NEW c \in Callers, Moved(c), c # Agent, UNCHANGED <<turn, bridgeIdx>> PROVE Goal
  <2>1. pc'[Agent] = pc[Agent]
    BY <1>m, Who DEF Moved
  <2> QED
    BY <1>m, <1>s, <2>1
<1>1. ASSUME NEW c \in Callers, Opened(c) PROVE Goal
  <2>1. CASE c = Agent
    <3>1. pc[Agent] = "open" /\ pc'[Agent] = "spec" /\ UNCHANGED turn
      BY <1>0, <1>1, <2>1, OpenedTo
    <3> QED
      BY <1>a, <3>1 DEF AgentCalls
  <2>2. CASE c # Agent
    BY <1>0, <1>1, <1>m, <2>2, OpenedTo
  <2> QED
    BY <2>1, <2>2
<1>2. ASSUME NEW c \in Callers, NEW s, Failed(c, s) PROVE Goal
  <2>1. CASE c = Agent
    <3>1. \/ pc[Agent] = "open" /\ pc'[Agent] = "closed" /\ turn' = turn
          \/ pc[Agent] \in AgentCalls /\ pc'[Agent] = "spec" /\ turn' = turn + 1
      BY <1>0, <1>2, <2>1, FailedTo
    <3> QED
      BY <1>0, <1>a, <1>l, <3>1 DEF AgentCalls
  <2>2. CASE c # Agent
    <3>1. Moved(c) /\ UNCHANGED <<turn, bridgeIdx>>
      BY <1>0, <1>2, <2>2, FailedTo
    <3> QED
      BY <1>m, <2>2, <3>1
  <2> QED
    BY <2>1, <2>2
<1>3. ASSUME NEW c \in Callers, NEW i, Returned(c, i) PROVE Goal
  <2>1. CASE c = Agent
    <3>1. \/ /\ pc[Agent] \in AgentCalls /\ pc'[Agent] \in AgentCalls
             /\ turn' = turn /\ UNCHANGED bridgeIdx
          \/ pc[Agent] \in AgentCalls /\ pc'[Agent] = "spec" /\ turn' = turn + 1
      BY <1>0, <1>3, <2>1, ReturnedTo DEF AgentCalls, AgentReturns
    <3> QED
      BY <1>0, <1>a, <1>l, <3>1 DEF AgentCalls
  <2>2. CASE c # Agent
    <3>1. Moved(c) /\ UNCHANGED <<turn, bridgeIdx>>
      BY <1>0, <1>3, <2>2, ReturnedTo
    <3> QED
      BY <1>m, <2>2, <3>1
  <2> QED
    BY <2>1, <2>2
<1>4. ASSUME NEW c \in Callers, Sending(c) PROVE Goal
  <2>1. UNCHANGED <<pc, bridgeIdx, turn>>
    BY <1>4, SendingTo, SendsFields
  <2> QED
    BY <1>s, <2>1
<1>5. ASSUME NEW c \in Callers, Skipped(c) PROVE Goal
  BY <1>0, <1>5, <1>s DEF Skipped
<1>6. ASSUME Phase PROVE Goal
  <2>1. bridgeIdx' = bridgeIdx
    BY <1>6, PhaseTo
  <2>2. \/ AgentStarts /\ pc'[Agent] = "ordinary" /\ turn' = turn
        \/ RunOrdinary /\ pc'[Agent] = pc[Agent] /\ turn' = turn
        \/ WaitOrdinary /\ pc' = pc /\ turn' = turn + 1
        \/ RunBridged /\ pc'[Agent] = "open" /\ turn' = 1
        \/ NextSpec /\ turn > Len(Bridged) /\ pc'[Agent] = "run" /\ turn' = turn
        \/ NextSpec /\ turn <= Len(Bridged) /\ pc' = pc /\ turn' = turn + 1
        \/ NextSpec /\ turn <= Len(Bridged) /\ bridgeIdx[Bridge[Bridged[turn]]] = 0
                    /\ pc'[Agent] = "createBridge" /\ turn' = turn
        \/ LaunchBridged /\ pc'[Agent] = "wait" /\ turn' = turn
        \/ WaitBridged /\ pc'[Agent] = "closed" /\ turn' = turn
    BY <1>6, PhaseTo
  <2>3. CASE AgentStarts /\ pc'[Agent] = "ordinary" /\ turn' = turn
    BY <1>a, <2>3 DEF AgentStarts, AgentCalls
  <2>4. CASE RunOrdinary /\ pc'[Agent] = pc[Agent] /\ turn' = turn
    BY <1>s, <2>1, <2>4
  <2>5. CASE WaitOrdinary /\ pc' = pc /\ turn' = turn + 1
    <3>1. pc'[Agent] = "ordinary" /\ turn <= Len(Ordinary)
      BY <2>5 DEF WaitOrdinary
    <3> QED
      BY <1>0, <1>l, <2>5, <3>1 DEF AgentCalls
  <2>6. CASE RunBridged /\ pc'[Agent] = "open" /\ turn' = 1
    BY <1>l, <2>6 DEF AgentCalls
  <2>7. CASE NextSpec /\ turn > Len(Bridged) /\ pc'[Agent] = "run" /\ turn' = turn
    BY <1>a, <2>7 DEF NextSpec, AgentCalls
  <2>8. CASE NextSpec /\ turn <= Len(Bridged) /\ pc' = pc /\ turn' = turn + 1
    <3>1. pc'[Agent] = "spec"
      BY <2>8 DEF NextSpec
    <3> QED
      BY <1>0, <1>l, <2>8, <3>1 DEF AgentCalls
  <2>9. CASE NextSpec /\ turn <= Len(Bridged) /\ bridgeIdx[Bridge[Bridged[turn]]] = 0
                    /\ pc'[Agent] = "createBridge" /\ turn' = turn
    BY <1>0, <1>l, <2>1, <2>9
  <2>10. CASE LaunchBridged /\ pc'[Agent] = "wait" /\ turn' = turn
    BY <1>a, <2>10 DEF LaunchBridged, AgentCalls
  <2>11. CASE WaitBridged /\ pc'[Agent] = "closed" /\ turn' = turn
    BY <1>a, <2>11 DEF WaitBridged, AgentCalls
  <2> QED
    BY <2>2, <2>3, <2>4, <2>5, <2>6, <2>7, <2>8, <2>9, <2>10, <2>11
<1>7. ASSUME NEW p \in Pods, ContainerEnds(p) PROVE Goal
  BY <1>0, <1>7, <1>s, EndsTo, Who
<1>8. ASSUME Renew PROVE Goal
  BY <1>0, <1>8, <1>s, RenewTo, Who
<1>9. ASSUME UNCHANGED vars PROVE Goal
  BY <1>9, <1>s DEF vars
<1> HIDE DEF Goal
<1> QED
  BY <1>1, <1>2, <1>3, <1>4, <1>5, <1>6, <1>7, <1>8, <1>9, Kinds

\* A call waits for the request it sent last.
LEMMA WaitsStep ==
    ASSUME TypeInv, [Next]_vars
    PROVE  Waits'
<1>0. Types /\ Roles
      /\ \A d \in Callers : sock[d].wait # 0 => sock[d].wait = sock[d].seq /\ pc[d] \in Calls
  BY DEF TypeInv, Waits
<1> DEFINE Goal == \A d \in Callers : sock'[d].wait # 0 => sock'[d].wait = sock'[d].seq /\ pc'[d] \in Calls
<1> SUFFICES Goal
  BY DEF Waits
<1>m. ASSUME NEW c \in Callers, Moved(c) PROVE Goal
  <2>1. sock'[c].wait = 0 /\ \A d \in Callers \ {c} : pc'[d] = pc[d] /\ sock'[d] = sock[d]
    BY <1>m DEF Moved
  <2> QED
    BY <1>0, <2>1
<1>1. ASSUME NEW c \in Callers, Opened(c) PROVE Goal
  BY <1>0, <1>1, <1>m, OpenedTo
<1>2. ASSUME NEW c \in Callers, NEW s, Failed(c, s) PROVE Goal
  BY <1>0, <1>2, <1>m, FailedTo
<1>3. ASSUME NEW c \in Callers, NEW i, Returned(c, i) PROVE Goal
  BY <1>0, <1>3, <1>m, ReturnedTo
<1>4. ASSUME NEW c \in Callers, Sending(c) PROVE Goal
  <2>1. PICK ds : Sends(c, ds)
    BY <1>4, SendingTo
  <2>2. pc[c] \in Calls
    BY <2>1 DEF Sends
  <2>3. /\ sock'[c].seq = Sent(c) /\ sock'[c].wait = Sent(c) /\ pc' = pc
        /\ \A d \in Callers \ {c} : sock'[d] = sock[d]
    BY <2>1, SendsFields
  <2> QED
    BY <1>0, <2>2, <2>3
<1>5. ASSUME NEW c \in Callers, Skipped(c) PROVE Goal
  <2>1. /\ sock'[c].seq = sock[c].seq /\ sock'[c].wait = sock[c].wait /\ pc' = pc
        /\ \A d \in Callers \ {c} : sock'[d] = sock[d]
    BY <1>0, <1>5, SkippedTo
  <2> QED
    BY <1>0, <2>1
<1>6. ASSUME Phase PROVE Goal
  <2>1. sock' = sock /\ sock[Agent].wait = 0 /\ pc'[Lease] = pc[Lease]
    BY <1>6, PhaseTo
  <2>2. \A p \in Pods : \/ pc'[HostOf(p)] = pc[HostOf(p)] /\ pc'[Cont(p)] = pc[Cont(p)]
                        \/ pc[HostOf(p)] = "idle" /\ pc[Cont(p)] = "idle"
    BY <1>6, PhaseTo
  <2>3. "idle" \notin Calls
    BY DEF Calls, AckCalls, LinkDumps
  <2>4. \A d \in Callers : sock[d].wait = 0 \/ pc'[d] = pc[d]
    BY <1>0, <2>1, <2>2, <2>3, Who
  <2> QED
    BY <1>0, <2>1, <2>4
<1>7. ASSUME NEW p \in Pods, ContainerEnds(p) PROVE Goal
  <2>1. /\ sock'[Cont(p)] = NewSocket
        /\ \A d \in Callers \ {Cont(p)} : pc'[d] = pc[d] /\ sock'[d] = sock[d]
    BY <1>0, <1>7, EndsTo
  <2> QED
    BY <1>0, <2>1, NewSocketFields
<1>8. ASSUME Renew PROVE Goal
  <2>1. pc[Lease] = "closed" /\ sock' = sock /\ \A d \in Callers \ {Lease} : pc'[d] = pc[d]
    BY <1>0, <1>8, RenewTo
  <2>2. "closed" \notin Calls
    BY DEF Calls, AckCalls, LinkDumps
  <2> QED
    BY <1>0, <2>1, <2>2, Who
<1>9. ASSUME UNCHANGED vars PROVE Goal
  BY <1>0, <1>9 DEF vars
<1> HIDE DEF Goal
<1> QED
  BY <1>1, <1>2, <1>3, <1>4, <1>5, <1>6, <1>7, <1>8, <1>9, Kinds

\* The host's part of a pod runs while the agent waits for it, and the
\* container's part after it.
LEMMA PhasesStep ==
    ASSUME TypeInv, [Next]_vars
    PROVE  Phases'
<1>0. Types /\ Roles /\ Roles'
  BY RolesStep DEF TypeInv
<1>l. \A p \in Range(Ordinary) : p \in Pods /\ p \notin Range(Bridged)
  BY NetlinkAssumption, Zenon DEF Pods
<1>b. \A p \in Range(Bridged) : p \in Pods /\ p \notin Range(Ordinary)
  BY NetlinkAssumption, Zenon DEF Pods
<1> DEFINE
      A(p) == (pc[HostOf(p)] = "idle") <=> (pc[Cont(p)] = "idle")
      B(p) == pc[Agent] = "idle" => pc[HostOf(p)] = "idle"
      C(p) == pc[Agent] \notin {"wait", "closed"} /\ p \in Range(Bridged) => pc[HostOf(p)] = "idle"
      D(p) == p \in Range(Ordinary) /\ pc[HostOf(p)] \notin {"idle", "closed"} =>
                pc[Agent] = "ordinary" /\ turn <= Len(Ordinary) /\ p = Ordinary[turn]
      E(p) == pc[Cont(p)] \notin {"idle", "fd5", "gone"} => pc[HostOf(p)] = "closed"
<1>a. \A p \in Pods : A(p) /\ B(p) /\ C(p) /\ D(p) /\ E(p)
  BY DEF TypeInv, Phases
<1> SUFFICES ASSUME NEW p \in Pods PROVE A(p)' /\ B(p)' /\ C(p)' /\ D(p)' /\ E(p)'
  BY <1>l, <1>b DEF Phases
<1> DEFINE Goal == A(p)' /\ B(p)' /\ C(p)' /\ D(p)' /\ E(p)'
<1>s. ASSUME pc'[HostOf(p)] = pc[HostOf(p)], pc'[Cont(p)] = pc[Cont(p)], pc'[Agent] = pc[Agent], turn' = turn
      PROVE  Goal
  BY <1>a, <1>s
\* the agent moves between two of its places
<1>g. ASSUME pc'[HostOf(p)] = pc[HostOf(p)], pc'[Cont(p)] = pc[Cont(p)],
             pc'[Agent] \in {"wait", "closed"} \/ pc[Agent] \notin {"wait", "closed"},
             pc'[Agent] # "idle", pc[Agent] # "ordinary"
      PROVE  Goal
  BY <1>a, <1>g
<1>h. ASSUME pc[HostOf(p)] \notin {"idle", "closed"}, pc'[HostOf(p)] # "idle", pc'[Cont(p)] = pc[Cont(p)],
             pc'[Agent] = pc[Agent], turn' = turn
      PROVE  Goal
  BY <1>a, <1>h
<1>c. ASSUME pc[Cont(p)] # "idle", pc'[Cont(p)] # "idle", pc'[HostOf(p)] = pc[HostOf(p)],
             pc[HostOf(p)] = "closed" \/ pc'[Cont(p)] = "gone",
             pc'[Agent] = pc[Agent], turn' = turn
      PROVE  Goal
  BY <1>a, <1>c
<1>w. /\ Agent \in Callers /\ Lease \in Callers /\ HostOf(p) \in Callers /\ Cont(p) \in Callers
      /\ HostOf(p) # Agent /\ HostOf(p) # Lease /\ Cont(p) # Agent /\ Cont(p) # Lease /\ HostOf(p) # Cont(p)
      /\ Agent # Lease
  BY Who
<1> HIDE DEF Goal
\* c is none of the three
<1>o. ASSUME NEW c \in Callers, Moved(c), c \notin {Agent, HostOf(p), Cont(p)}, turn' = turn PROVE Goal
  <2>1. pc'[HostOf(p)] = pc[HostOf(p)] /\ pc'[Cont(p)] = pc[Cont(p)] /\ pc'[Agent] = pc[Agent]
    BY <1>o, <1>w DEF Moved
  <2> QED
    BY <1>o, <1>s, <2>1
<1>1. ASSUME NEW c \in Callers, Opened(c) PROVE Goal
  <2>0. Moved(c) /\ turn' = turn
    BY <1>0, <1>1, OpenedTo
  <2>m. \A d \in Callers \ {c} : pc'[d] = pc[d]
    BY <2>0 DEF Moved
  <2>1. CASE c = Agent
    <3>1. pc[Agent] = "open" /\ pc'[Agent] = "spec"
      BY <1>0, <1>1, <2>1, OpenedTo
    <3> QED
      BY <1>w, <1>g, <2>m, <2>1, <3>1
  <2>2. CASE c = HostOf(p)
    <3>1. pc[c] = "open" /\ pc'[c] # "idle"
      BY <1>0, <1>1, <2>2, OpenedTo
    <3> QED
      BY <1>w, <1>h, <2>0, <2>m, <2>2, <3>1
  <2>3. CASE c = Cont(p)
    <3>1. pc[c] = "fd5" /\ pc'[c] = "linkIndexByName" /\ pc[HostOf(p)] = "closed"
      BY <1>0, <1>1, <2>3, OpenedTo
    <3> QED
      BY <1>w, <1>c, <2>0, <2>m, <2>3, <3>1
  <2> QED
    BY <1>o, <2>0, <2>1, <2>2, <2>3
<1>2. ASSUME NEW c \in Callers, NEW s, Failed(c, s) PROVE Goal
  <2>0. Moved(c) /\ (c # Agent => turn' = turn)
    BY <1>0, <1>2, FailedTo
  <2>m. \A d \in Callers \ {c} : pc'[d] = pc[d]
    BY <2>0 DEF Moved
  <2>1. CASE c = Agent
    <3>1. \/ pc[Agent] = "open" /\ pc'[Agent] = "closed"
          \/ pc[Agent] \in AgentCalls /\ pc'[Agent] = "spec"
      BY <1>0, <1>2, <2>1, FailedTo
    <3> QED
      BY <1>w, <1>g, <2>m, <2>1, <3>1 DEF AgentCalls
  <2>2. CASE c = HostOf(p)
    <3>1. pc[c] \notin {"idle", "closed"} /\ pc'[c] = "closed"
      BY <1>0, <1>2, <2>2, FailedTo
    <3> QED
      BY <1>w, <1>h, <2>0, <2>m, <2>2, <3>1
  <2>3. CASE c = Cont(p)
    <3>1. /\ pc[c] \in {"fd5", "linkIndexByName", "addAddrV4", "addDefaultRouteV4", "defaultRouteGateway"}
          /\ pc'[c] \in {"failed", "up"} /\ (pc[c] = "fd5" => pc[HostOf(p)] = "closed")
      BY <1>0, <1>2, <2>3, FailedTo
    <3>2. pc[HostOf(p)] = "closed"
      BY <1>a, <2>3, <3>1
    <3> QED
      BY <1>w, <1>c, <2>0, <2>m, <2>3, <3>1, <3>2
  <2> QED
    BY <1>o, <2>0, <2>1, <2>2, <2>3
<1>3. ASSUME NEW c \in Callers, NEW i, Returned(c, i) PROVE Goal
  <2>0. Moved(c) /\ (c # Agent => turn' = turn)
    BY <1>0, <1>3, ReturnedTo
  <2>m. \A d \in Callers \ {c} : pc'[d] = pc[d]
    BY <2>0 DEF Moved
  <2>1. CASE c = Agent
    <3>1. pc[Agent] \in AgentCalls /\ pc'[Agent] \in AgentCalls \cup {"spec"}
      BY <1>0, <1>3, <2>1, ReturnedTo DEF AgentReturns, AgentCalls
    <3> QED
      BY <1>w, <1>g, <2>m, <2>1, <3>1 DEF AgentCalls
  <2>2. CASE c = HostOf(p)
    <3>1. pc[c] \notin {"idle", "closed"} /\ pc'[c] # "idle"
      BY <1>0, <1>3, <2>2, ReturnedTo DEF HostReturns
    <3> QED
      BY <1>w, <1>h, <2>0, <2>m, <2>2, <3>1
  <2>3. CASE c = Cont(p)
    <3>1. pc[c] \notin {"idle", "fd5", "gone"} /\ pc'[c] # "idle"
      BY <1>0, <1>3, <2>3, ReturnedTo DEF ContReturns
    <3>2. pc[HostOf(p)] = "closed"
      BY <1>a, <2>3, <3>1
    <3> QED
      BY <1>w, <1>c, <2>0, <2>m, <2>3, <3>1, <3>2
  <2> QED
    BY <1>o, <2>0, <2>1, <2>2, <2>3
<1>4. ASSUME NEW c \in Callers, Sending(c) PROVE Goal
  <2>1. UNCHANGED <<pc, turn>>
    BY <1>4, SendingTo, SendsFields
  <2> QED
    BY <1>s, <2>1
<1>5. ASSUME NEW c \in Callers, Skipped(c) PROVE Goal
  BY <1>5, <1>s DEF Skipped
<1>6. ASSUME Phase PROVE Goal
  <2>1. \/ pc'[HostOf(p)] = pc[HostOf(p)] /\ pc'[Cont(p)] = pc[Cont(p)]
        \/ /\ pc[HostOf(p)] = "idle" /\ pc[Cont(p)] = "idle"
           /\ pc'[HostOf(p)] = "open" /\ pc'[Cont(p)] = "fd5"
           /\ \/ RunOrdinary /\ turn <= Len(Ordinary) /\ p = Ordinary[turn]
              \/ LaunchBridged /\ p \in Launched
    BY <1>6, PhaseTo
  <2>2. \/ AgentStarts /\ pc'[Agent] = "ordinary" /\ turn' = turn
        \/ RunOrdinary /\ pc'[Agent] = pc[Agent] /\ turn' = turn
        \/ WaitOrdinary /\ pc' = pc /\ turn' = turn + 1
        \/ RunBridged /\ pc'[Agent] = "open" /\ turn' = 1
        \/ NextSpec /\ (pc' = pc \/ pc'[Agent] \in {"run", "createBridge"})
        \/ LaunchBridged /\ pc'[Agent] = "wait" /\ turn' = turn
        \/ WaitBridged /\ pc'[Agent] = "closed" /\ turn' = turn
    BY <1>6, PhaseTo
  <2>r. LaunchBridged => pc[Agent] = "run"
    BY DEF LaunchBridged
  <2>3. CASE RunOrdinary /\ turn <= Len(Ordinary) /\ p = Ordinary[turn] /\ pc'[HostOf(p)] = "open" /\ pc'[Cont(p)] = "fd5"
    <3>1. pc[Agent] = "ordinary"
      BY <2>3 DEF RunOrdinary
    <3>2. p \notin Range(Bridged)
      BY <2>3, <1>0, LoopOrdinary
    <3>3. pc'[Agent] = "ordinary" /\ turn' = turn
      <4>1. pc' = [pc EXCEPT ![HostOf(p)] = "open", ![Cont(p)] = "fd5"] /\ turn' = turn
        BY <2>3 DEF RunOrdinary
      <4>2. pc \in [Callers -> Places]
        BY <1>0 DEF Types
      <4> QED
        BY <1>w, <3>1, <4>1, <4>2
    <3> QED
      BY <2>3, <3>2, <3>3 DEF Goal
  <2>4. CASE LaunchBridged /\ p \in Launched /\ pc'[HostOf(p)] = "open" /\ pc'[Cont(p)] = "fd5"
    <3>1. p \notin Range(Ordinary)
      BY <2>4, <1>b DEF Launched
    <3>2. pc'[Agent] = "wait"
      BY <2>4, <2>2, <2>r DEF RunOrdinary, WaitOrdinary, AgentStarts, RunBridged, NextSpec, WaitBridged
    <3> QED
      BY <2>4, <3>1, <3>2 DEF Goal
  <2>5. CASE pc'[HostOf(p)] = pc[HostOf(p)] /\ pc'[Cont(p)] = pc[Cont(p)]
    <3>1. CASE AgentStarts /\ pc'[Agent] = "ordinary" /\ turn' = turn
      BY <1>g, <2>5, <3>1 DEF AgentStarts
    <3>2. CASE RunOrdinary /\ pc'[Agent] = pc[Agent] /\ turn' = turn
      BY <1>s, <2>5, <3>2
    <3>3. CASE WaitOrdinary /\ pc' = pc /\ turn' = turn + 1
      <4>1. pc[Agent] = "ordinary" /\ pc[HostOf(Ordinary[turn])] = "closed"
        BY <3>3 DEF WaitOrdinary
      <4>2. p \in Range(Ordinary) => pc[HostOf(p)] \in {"idle", "closed"}
        BY <1>a, <4>1
      <4>3. A(p)' /\ B(p)' /\ C(p)' /\ E(p)'
        BY <1>a, <3>3
      <4>4. D(p)'
        BY <4>2, <3>3
      <4> QED
        BY <4>3, <4>4 DEF Goal
    <3>4. CASE RunBridged /\ pc'[Agent] = "open" /\ turn' = 1
      <4>1. pc[Agent] = "ordinary" /\ turn > Len(Ordinary)
        BY <3>4 DEF RunBridged
      <4>2. turn \in Nat /\ Len(Ordinary) \in Nat
        <5>1. Ordinary \in Seq(Pods)
          BY NetlinkAssumption, Zenon
        <5>2. turn \in Nat
          BY <1>0, Zenon DEF Types
        <5> QED
          BY <5>1, <5>2
      <4>3. p \in Range(Ordinary) => pc[HostOf(p)] \in {"idle", "closed"}
        BY <1>a, <4>1, <4>2
      <4> QED
        BY <1>a, <2>5, <3>4, <4>1, <4>3 DEF Goal
    <3>5. CASE NextSpec /\ (pc' = pc \/ pc'[Agent] \in {"run", "createBridge"})
      BY <1>g, <2>5, <3>5 DEF NextSpec
    <3>6. CASE LaunchBridged /\ pc'[Agent] = "wait" /\ turn' = turn
      BY <1>g, <2>5, <3>6 DEF LaunchBridged
    <3>7. CASE WaitBridged /\ pc'[Agent] = "closed" /\ turn' = turn
      BY <1>g, <2>5, <3>7 DEF WaitBridged
    <3> QED
      BY <2>2, <3>1, <3>2, <3>3, <3>4, <3>5, <3>6, <3>7
  <2> QED
    BY <2>1, <2>3, <2>4, <2>5
<1>7. ASSUME NEW q \in Pods, ContainerEnds(q) PROVE Goal
  <2>1. /\ pc[Cont(q)] \notin {"idle", "gone"} /\ pc'[Cont(q)] = "gone" /\ turn' = turn
        /\ \A d \in Callers \ {Cont(q)} : pc'[d] = pc[d]
    BY <1>0, <1>7, EndsTo
  <2>2. pc'[Agent] = pc[Agent] /\ pc'[HostOf(p)] = pc[HostOf(p)]
    BY <2>1, Who
  <2>3. CASE q = p
    BY <1>c, <2>1, <2>2, <2>3
  <2>4. CASE q # p
    <3>1. pc'[Cont(p)] = pc[Cont(p)]
      BY <2>1, <2>4, Who
    <3> QED
      BY <1>s, <2>1, <2>2, <3>1
  <2> QED
    BY <2>3, <2>4
<1>8. ASSUME Renew PROVE Goal
  <2>1. turn' = turn /\ \A d \in Callers \ {Lease} : pc'[d] = pc[d]
    BY <1>0, <1>8, RenewTo
  <2> QED
    BY <1>s, <1>w, <2>1
<1>9. ASSUME UNCHANGED vars PROVE Goal
  BY <1>9, <1>s DEF vars
<1>10. Goal
  BY <1>1, <1>2, <1>3, <1>4, <1>5, <1>6, <1>7, <1>8, <1>9, Kinds
<1> QED
  BY <1>10 DEF Goal

-----------------------------------------------------------------------------
(* The kernel's state. *)

\* How links, addresses and routes come to a namespace.
Added(n, l) ==
    \/ MadeBridge /\ n = "node" /\ l = NewBridge
    \/ \E p \in Pods : MadePair(p) /\ n = "node" /\ \E master \in Nat : l = HostEnd(p, master)
    \/ \E p \in Pods : MadePair(p) /\ n = p /\ l = PodEnd(p)

\* Links are added one at a time under the next index, and go with their pod.
LinksTo(n) ==
    \/ kern'.links[n] = kern.links[n] /\ kern'.next[n] = kern.next[n]
    \/ \E l \in LinkSet :
          /\ kern'.links[n] = kern.links[n] \cup {l} /\ kern'.next[n] = kern.next[n] + 1
          /\ l.idx = kern.next[n] /\ Added(n, l)
    \/ /\ kern'.next[n] = kern.next[n]
       /\ \E p \in Pods : /\ ContainerEnds(p)
                          /\ kern'.links[n] = IF n = p THEN {}
                                              ELSE IF n = "node" THEN {l \in kern.links[n] : l.far # p}
                                              ELSE kern.links[n]

AddrsTo(n) ==
    \/ kern'.addrs[n] = kern.addrs[n]
    \/ \E c \in Callers : /\ GaveAddr(c) /\ n = Ns(c)
                          /\ kern'.addrs[n] = kern.addrs[n] \cup {[idx |-> idx[c], ip |-> Address(c)]}
    \/ \E p \in Pods : /\ ContainerEnds(p)
                       /\ kern'.addrs[n] = IF n = p THEN {}
                             ELSE IF n = "node" THEN {a \in kern.addrs[n] : a.idx \notin Closed(p).gone}
                             ELSE kern.addrs[n]

RoutesTo(n) ==
    \/ kern'.routes[n] = kern.routes[n]
    \/ \E c \in Callers : /\ GaveAddr(c) /\ n = Ns(c)
                          /\ kern'.routes[n] = kern.routes[n] \cup {[dst |-> "subnet", gw |-> None, idx |-> idx[c]]}
    \/ \E c \in Callers : /\ GaveRoute(c) /\ n = Ns(c)
                          /\ kern'.routes[n] = kern.routes[n] \cup {[dst |-> "default", gw |-> Gateway(c), idx |-> idx[c]]}
    \/ \E p \in Pods : /\ ContainerEnds(p)
                       /\ kern'.routes[n] = IF n = p THEN {} ELSE kern.routes[n]

\* The links that are made.
LEMMA BridgeLinkFields ==
    ASSUME NewBridge \in LinkSet
    PROVE  /\ NewBridge.name = Wanted(Agent) /\ NewBridge.idx = kern.next["node"]
           /\ NewBridge.master = 0 /\ NewBridge.far = "none"
  BY DEF NewBridge, Link

LEMMA PairLinkFields ==
    ASSUME NEW p, NEW master
    PROVE  /\ HostEnd(p, master).name = HostName[p] /\ HostEnd(p, master).idx = kern.next["node"]
           /\ HostEnd(p, master).master = master /\ HostEnd(p, master).far = p
           /\ PodEnd(p).name = "eth0" /\ PodEnd(p).idx = kern.next[p]
           /\ PodEnd(p).master = 0 /\ PodEnd(p).far = "node"
  BY DEF HostEnd, PodEnd, Link

\* What happens to the kernel's state in a step.
LEMMA KernelStep ==
    ASSUME TypeInv, [Next]_vars, NEW n \in Namespaces
    PROVE  LinksTo(n) /\ AddrsTo(n) /\ RoutesTo(n)
<1>0. Types /\ Roles
  BY DEF TypeInv
<1>k. /\ kern.links \in [Namespaces -> SUBSET LinkSet]
      /\ kern.addrs \in [Namespaces -> SUBSET AddrSet]
      /\ kern.routes \in [Namespaces -> SUBSET RouteSet]
      /\ kern.next \in [Namespaces -> Nat]
  BY KernelFields
<1>s. ASSUME kern' = kern PROVE LinksTo(n) /\ AddrsTo(n) /\ RoutesTo(n)
  BY <1>s DEF LinksTo, AddrsTo, RoutesTo
<1>1. ASSUME NEW c \in Callers, Opened(c) \/ Skipped(c) \/ Denied(c) \/ Dumped(c) PROVE kern' = kern
  BY <1>1 DEF Opened, Skipped, Denied, Dumped
<1>2. ASSUME NEW c \in Callers, NEW s, Failed(c, s) PROVE kern' = kern
  BY <1>0, <1>2, FailedTo DEF Moved
<1>3. ASSUME NEW c \in Callers, NEW i, Returned(c, i) PROVE kern' = kern
  BY <1>0, <1>3, ReturnedTo DEF Moved
<1>4. ASSUME MadeBridge PROVE LinksTo(n) /\ AddrsTo(n) /\ RoutesTo(n)
  <2>1. /\ kern'.links = [kern.links EXCEPT !["node"] = @ \cup {NewBridge}]
        /\ kern'.next = [kern.next EXCEPT !["node"] = @ + 1]
        /\ kern'.addrs = kern.addrs /\ kern'.routes = kern.routes
        /\ NewBridge \in LinkSet
    BY <1>4 DEF MadeBridge, Grows
  <2>2. NewBridge.idx = kern.next["node"]
    BY <2>1, BridgeLinkFields
  <2>3. CASE n = "node"
    <3>1. kern'.links[n] = kern.links[n] \cup {NewBridge} /\ kern'.next[n] = kern.next[n] + 1
      BY <1>k, <2>1, <2>3
    <3>2. Added(n, NewBridge)
      BY <1>4, <2>3 DEF Added
    <3> QED
      BY <2>1, <2>2, <2>3, <3>1, <3>2 DEF LinksTo, AddrsTo, RoutesTo
  <2>4. CASE n # "node"
    BY <1>k, <2>1, <2>4 DEF LinksTo, AddrsTo, RoutesTo
  <2> QED
    BY <2>3, <2>4
<1>5. ASSUME NEW p \in Pods, MadePair(p) PROVE LinksTo(n) /\ AddrsTo(n) /\ RoutesTo(n)
  <2>0. p # "node" /\ p \in Namespaces /\ "node" \in Namespaces
    BY Where
  <2>1. PICK master \in Nat :
          /\ HostEnd(p, master) \in LinkSet
          /\ kern'.links = [[kern.links EXCEPT !["node"] = @ \cup {HostEnd(p, master)}]
                                 EXCEPT ![p] = @ \cup {PodEnd(p)}]
    BY <1>5 DEF MadePair
  <2>2. /\ kern'.next = [[kern.next EXCEPT !["node"] = @ + 1] EXCEPT ![p] = @ + 1]
        /\ kern'.addrs = kern.addrs /\ kern'.routes = kern.routes
        /\ PodEnd(p) \in LinkSet
    BY <1>5 DEF MadePair
  <2>3. CASE n = "node"
    <3>1. kern'.links[n] = kern.links[n] \cup {HostEnd(p, master)} /\ kern'.next[n] = kern.next[n] + 1
      BY <1>k, <2>0, <2>1, <2>2, <2>3
    <3>2. Added(n, HostEnd(p, master)) /\ HostEnd(p, master).idx = kern.next[n]
      BY <1>5, <2>3, PairLinkFields DEF Added
    <3> QED
      BY <2>1, <2>2, <3>1, <3>2 DEF LinksTo, AddrsTo, RoutesTo
  <2>4. CASE n = p
    <3>1. kern'.links[n] = kern.links[n] \cup {PodEnd(p)} /\ kern'.next[n] = kern.next[n] + 1
      BY <1>k, <2>0, <2>1, <2>2, <2>4
    <3>2. Added(n, PodEnd(p)) /\ PodEnd(p).idx = kern.next[n]
      BY <1>5, <2>4, PairLinkFields DEF Added
    <3> QED
      BY <2>1, <2>2, <3>1, <3>2 DEF LinksTo, AddrsTo, RoutesTo
  <2>5. CASE n # "node" /\ n # p
    <3>1. kern'.links[n] = kern.links[n] /\ kern'.next[n] = kern.next[n]
      BY <1>k, <2>0, <2>1, <2>2, <2>5
    <3> QED
      BY <2>2, <3>1 DEF LinksTo, AddrsTo, RoutesTo
  <2> QED
    BY <2>3, <2>4, <2>5
<1>6. ASSUME NEW c \in Callers, GaveAddr(c) PROVE LinksTo(n) /\ AddrsTo(n) /\ RoutesTo(n)
  <2>1. /\ kern'.links = kern.links /\ kern'.next = kern.next
        /\ kern'.addrs = [kern.addrs EXCEPT ![Ns(c)] = @ \cup {[idx |-> idx[c], ip |-> Address(c)]}]
        /\ kern'.routes = [kern.routes EXCEPT ![Ns(c)] =
                              @ \cup {[dst |-> "subnet", gw |-> None, idx |-> idx[c]]}]
    BY <1>6 DEF GaveAddr
  <2>2. LinksTo(n)
    BY <2>1 DEF LinksTo
  <2>3. AddrsTo(n)
    BY <1>6, <1>k, <2>1 DEF AddrsTo
  <2>4. RoutesTo(n)
    BY <1>6, <1>k, <2>1 DEF RoutesTo
  <2> QED
    BY <2>2, <2>3, <2>4
<1>7. ASSUME NEW c \in Callers, GaveRoute(c) PROVE LinksTo(n) /\ AddrsTo(n) /\ RoutesTo(n)
  <2>1. /\ kern'.links = kern.links /\ kern'.next = kern.next /\ kern'.addrs = kern.addrs
        /\ kern'.routes = [kern.routes EXCEPT ![Ns(c)] =
                              @ \cup {[dst |-> "default", gw |-> Gateway(c), idx |-> idx[c]]}]
    BY <1>7 DEF GaveRoute
  <2>2. LinksTo(n) /\ AddrsTo(n)
    BY <2>1 DEF LinksTo, AddrsTo
  <2>4. RoutesTo(n)
    BY <1>7, <1>k, <2>1 DEF RoutesTo
  <2> QED
    BY <2>2, <2>4
<1>8. ASSUME Phase PROVE kern' = kern
  BY <1>8, PhaseTo
<1>9. ASSUME NEW p \in Pods, ContainerEnds(p) PROVE LinksTo(n) /\ AddrsTo(n) /\ RoutesTo(n)
  <2>0. kern' = WithoutPod(p) /\ kern \in Kernels
    BY <1>0, <1>9, EndsTo DEF Types
  <2>1. /\ kern'.links = [k \in Namespaces |->
                 IF k = p THEN {} ELSE IF k = "node" THEN {l \in kern.links["node"] : l.far # p}
                 ELSE kern.links[k]]
        /\ kern'.routes = [k \in Namespaces |-> IF k = p THEN {} ELSE kern.routes[k]]
        /\ kern'.addrs = [k \in Namespaces |->
                 IF k = p THEN {}
                 ELSE IF k = "node" THEN {a \in kern.addrs["node"] : a.idx \notin Closed(p).gone}
                 ELSE kern.addrs[k]]
        /\ kern'.next = kern.next
    BY <2>0, WithoutPodFields
  <2>2. LinksTo(n)
    BY <1>9, <2>1 DEF LinksTo
  <2>3. AddrsTo(n)
    BY <1>9, <2>1 DEF AddrsTo
  <2>4. RoutesTo(n)
    BY <1>9, <2>1 DEF RoutesTo
  <2> QED
    BY <2>2, <2>3, <2>4
<1>10. ASSUME Renew \/ UNCHANGED vars PROVE kern' = kern
  BY <1>10 DEF Renew, vars
<1> QED
  BY <1>s, <1>1, <1>2, <1>3, <1>4, <1>5, <1>6, <1>7, <1>8, <1>9, <1>10, Kinds DEF Sending

LEMMA FiniteStep ==
    ASSUME TypeInv, [Next]_vars
    PROVE  Finite'
<1> SUFFICES ASSUME NEW n \in Namespaces
             PROVE  IsFiniteSet(kern'.links[n]) /\ IsFiniteSet(kern'.routes[n])
  BY DEF Finite
<1>1. IsFiniteSet(kern.links[n]) /\ IsFiniteSet(kern.routes[n])
  BY KernelFields
<1>2. ASSUME NEW S, NEW x, IsFiniteSet(S) PROVE IsFiniteSet(S \cup {x})
  BY <1>2, FS_AddElement
<1>3. ASSUME NEW S, NEW T, IsFiniteSet(S), T \subseteq S PROVE IsFiniteSet(T)
  BY <1>3, FS_Subset
<1>4. LinksTo(n) /\ RoutesTo(n)
  BY KernelStep
<1>5. \/ kern'.links[n] \subseteq kern.links[n]
      \/ \E l : kern'.links[n] = kern.links[n] \cup {l}
  BY <1>4 DEF LinksTo
<1>6. \/ kern'.routes[n] \subseteq kern.routes[n]
      \/ \E l : kern'.routes[n] = kern.routes[n] \cup {l}
  BY <1>4 DEF RoutesTo
<1>7. IsFiniteSet(kern'.links[n])
  BY <1>1, <1>2, <1>3, <1>5, Zenon
<1>8. IsFiniteSet(kern'.routes[n])
  BY <1>1, <1>2, <1>3, <1>6, Zenon
<1> QED
  BY <1>7, <1>8

\* No index is given twice.
LEMMA NumberedStep ==
    ASSUME TypeInv, [Next]_vars
    PROVE  Numbered'
<1>0. Numbered /\ "node" \in Namespaces
  BY Where DEF TypeInv
<1>1. ASSUME NEW n \in Namespaces
      PROVE  /\ \A l \in kern'.links[n] : 1 <= l.idx /\ l.idx < kern'.next[n]
             /\ \A l, k \in kern'.links[n] : l.idx = k.idx => l = k
             /\ kern.next[n] <= kern'.next[n] /\ 1 <= kern'.next[n]
  <2>0. /\ kern.next[n] \in Nat /\ kern.links[n] \in SUBSET LinkSet
        /\ \A l \in kern.links[n] : l.idx \in Nat
    BY KernelFields DEF LinkSet
  <2>1. /\ \A l \in kern.links[n] : 1 <= l.idx /\ l.idx < kern.next[n]
        /\ \A l, k \in kern.links[n] : l.idx = k.idx => l = k
        /\ 1 <= kern.next[n]
    BY <1>0 DEF Numbered
  <2>2. LinksTo(n)
    BY KernelStep
  <2>3. CASE \E l \in LinkSet : /\ kern'.links[n] = kern.links[n] \cup {l} /\ kern'.next[n] = kern.next[n] + 1
                                /\ l.idx = kern.next[n]
    BY <2>0, <2>1, <2>3
  <2>4. CASE kern'.links[n] \subseteq kern.links[n] /\ kern'.next[n] = kern.next[n]
    BY <2>0, <2>1, <2>4
  <2> QED
    BY <2>2, <2>3, <2>4 DEF LinksTo
<1>2. \A a \in kern'.addrs["node"] : a.idx < kern'.next["node"]
  <2>0. /\ kern.next["node"] \in Nat /\ kern'.next["node"] \in Nat /\ kern.next["node"] <= kern'.next["node"]
        /\ \A a \in kern.addrs["node"] : a.idx \in Nat /\ a.idx < kern.next["node"]
    <3>1. kern' \in Kernels
      BY TypesStep DEF Types
    <3>2. kern.next["node"] \in Nat /\ \A a \in kern.addrs["node"] : a.idx \in Nat
      BY <1>0, KernelFields DEF AddrSet
    <3> QED
      BY <1>0, <1>1, <3>1, <3>2 DEF Numbered, Kernels
  <2>1. AddrsTo("node")
    BY <1>0, KernelStep
  <2>2. ASSUME NEW c \in Callers, GaveAddr(c), Ns(c) = "node"
        PROVE  idx[c] < kern.next["node"] /\ idx[c] \in Nat
    <3>1. PICK l \in kern.links["node"] : l.idx = idx[c]
      BY <2>2 DEF GaveAddr
    <3> QED
      BY <1>0, <2>0, <3>1 DEF Numbered, TypeInv, Types
  <2>3. \A a \in kern'.addrs["node"] : a.idx \in Nat /\ a.idx < kern.next["node"]
    <3>1. \A a \in kern'.addrs["node"] :
             \/ a \in kern.addrs["node"]
             \/ \E c \in Callers : GaveAddr(c) /\ Ns(c) = "node" /\ a = [idx |-> idx[c], ip |-> Address(c)]
      BY <2>1 DEF AddrsTo
    <3> QED
      BY <2>0, <2>2, <3>1
  <2> QED
    BY <2>0, <2>3
<1> QED
  BY <1>1, <1>2 DEF Numbered

\* The invariant holds when the node boots.
LEMMA TypeInit == Init => TypeInv
<1> SUFFICES ASSUME Init PROVE TypeInv
  OBVIOUS
<1>0. Len(Ordinary) \in Nat /\ Len(Bridged) \in Nat /\ MaxFaults \in Nat /\ Renewals \in Nat
  <2>1. Ordinary \in Seq(Pods) /\ Bridged \in Seq(Pods) /\ MaxFaults \in Nat /\ Renewals \in Nat
    BY NetlinkAssumption, Zenon
  <2> QED
    BY <2>1
<1> DEFINE lo == Link("lo", 1, 0, "none") eth == Link("eth0", 2, 0, "none")
<1>1. /\ lo \in LinkSet /\ eth \in LinkSet /\ lo.idx = 1 /\ eth.idx = 2
      /\ lo.name = "lo" /\ eth.name = "eth0"
  BY DEF Link, LinkSet, LinkNames
<1>k. /\ kern.links = [n \in Namespaces |-> IF n = "node" THEN {lo, eth} ELSE {lo}]
      /\ kern.addrs = [n \in Namespaces |-> {}] /\ kern.routes = [n \in Namespaces |-> {}]
      /\ kern.next = [n \in Namespaces |-> IF n = "node" THEN 3 ELSE 2]
  BY DEF Init, NodeLinks
<1> HIDE DEF lo, eth
<1>2. kern \in Kernels
  <2> DEFINE L == [n \in Namespaces |-> IF n = "node" THEN {lo, eth} ELSE {lo}]
             E == [n \in Namespaces |-> {}]
             X == [n \in Namespaces |-> IF n = "node" THEN 3 ELSE 2]
  <2>1. L \in [Namespaces -> SUBSET LinkSet] /\ E \in [Namespaces -> SUBSET AddrSet]
        /\ E \in [Namespaces -> SUBSET RouteSet] /\ X \in [Namespaces -> Nat]
    BY <1>1
  <2>2. kern = [links |-> L, addrs |-> E, routes |-> E, next |-> X]
    BY DEF Init, NodeLinks, lo, eth
  <2> HIDE DEF L, E, X
  <2> QED
    BY <2>1, <2>2 DEF Kernels
<1>3. Types
  <2>1. "open" \in Places /\ "idle" \in Places
    BY DEF Places
  <2>2. pc \in [Callers -> Places]
    BY <2>1 DEF Init
  <2>3. sock \in [Callers -> Sockets]
    BY NewSocketFields DEF Init
  <2>4. renewed \in 0..Renewals /\ faults \in 0..MaxFaults
    BY <1>0 DEF Init
  <2> QED
    BY <1>2, <2>2, <2>3, <2>4 DEF Types, Init
<1>4. pc[Agent] = "idle" /\ pc[Lease] = "open" /\ \A p \in Pods : pc[HostOf(p)] = "idle" /\ pc[Cont(p)] = "idle"
  BY Who DEF Init
<1>5. Roles
  <2>1. \A p \in Pods : "idle" \in HostPlaces(p)
    BY DEF HostPlaces
  <2> QED
    BY <1>4, <2>1 DEF Roles, AgentPlaces, LeasePlaces, ContPlaces
<1>6. Turns
  <2>1. turn = 1
    BY DEF Init
  <2> QED
    BY <1>0, <1>4, <2>1 DEF Turns, AgentCalls
<1>7. Waits
  <2>1. \A c \in Callers : sock[c].wait = 0
    BY NewSocketFields DEF Init
  <2> QED
    BY <2>1 DEF Waits
<1>8. Phases
  <2>1. \A p \in Range(Ordinary) \cup Range(Bridged) : p \in Pods
    BY DEF Pods
  <2> QED
    BY <1>4, <2>1 DEF Phases
<1>9. Finite
  <2>1. IsFiniteSet({}) /\ IsFiniteSet({lo}) /\ IsFiniteSet({lo, eth})
    <3>1. IsFiniteSet({}) /\ IsFiniteSet({lo}) /\ IsFiniteSet({eth})
      BY FS_EmptySet, FS_Singleton
    <3>2. {lo, eth} = {lo} \cup {eth}
      OBVIOUS
    <3> QED
      BY <3>1, <3>2, FS_Union
  <2> QED
    BY <1>k, <2>1 DEF Finite
<1>10. Numbered
  BY <1>1, <1>k, Where DEF Numbered
<1> QED
  BY <1>3, <1>5, <1>6, <1>7, <1>8, <1>9, <1>10 DEF TypeInv

\* Every caller is at a place of its own code, every socket holds messages of the
\* kernel and waits for the request it sent last, and the indices of a namespace are
\* given once (nlOpen, send, runNodeAgent, runBridgedPods).
THEOREM WellFormed == Spec => []TypeInv
<1>1. TypeInv /\ [Next]_vars => TypeInv'
  BY TypesStep, RolesStep, TurnsStep, WaitsStep, PhasesStep, FiniteStep, NumberedStep DEF TypeInv
<1> QED
  BY <1>1, TypeInit, PTL DEF Spec

-----------------------------------------------------------------------------
(* What the kernel holds is lasting. *)

\* Links come one at a time, and go only with their pod.
LEMMA LinksKept ==
    ASSUME TypeInv, [Next]_vars, NEW n \in Namespaces
    PROVE  /\ \A l \in kern'.links[n] : l \in kern.links[n] \/ (l.idx = kern.next[n] /\ Added(n, l))
           /\ kern.next[n] <= kern'.next[n]
           /\ \A l \in kern.links[n] :
                 l \in kern'.links[n] \/ \E p \in Pods : ContainerEnds(p) /\ (n = p \/ l.far = p)
<1>1. LinksTo(n) /\ kern.next[n] \in Nat
  BY KernelStep, KernelFields
<1>2. \A l \in kern'.links[n] : l \in kern.links[n] \/ (l.idx = kern.next[n] /\ Added(n, l))
  BY <1>1 DEF LinksTo
<1>3. kern'.next[n] = kern.next[n] \/ kern'.next[n] = kern.next[n] + 1
  BY <1>1, Zenon DEF LinksTo
<1>4. \A l \in kern.links[n] :
        l \in kern'.links[n] \/ \E p \in Pods : ContainerEnds(p) /\ (n = p \/ l.far = p)
  <2>1. CASE \E p \in Pods : /\ ContainerEnds(p)
                             /\ kern'.links[n] = IF n = p THEN {}
                                                 ELSE IF n = "node" THEN {l \in kern.links[n] : l.far # p}
                                                 ELSE kern.links[n]
    BY <2>1
  <2>2. CASE kern.links[n] \subseteq kern'.links[n]
    BY <2>2
  <2> QED
    BY <1>1, <2>1, <2>2, Zenon DEF LinksTo
<1> QED
  BY <1>1, <1>2, <1>3, <1>4

LEMMA LinkTypes ==
    ASSUME TypeInv, NEW n \in Namespaces
    PROVE  /\ kern.next[n] \in Nat
           /\ \A l \in kern.links[n] : l.idx \in Nat /\ 1 <= l.idx /\ l.idx < kern.next[n]
           /\ \A l, k \in kern.links[n] : l.idx = k.idx => l = k
<1>1. kern.links[n] \in SUBSET LinkSet /\ kern.next[n] \in Nat
  BY KernelFields
<1> QED
  BY <1>1 DEF LinkSet, TypeInv, Numbered

\* An index keeps its name and its other end; bridges and routes stay.
LEMMA KeepsNames ==
    ASSUME TypeInv, [Next]_vars, NEW n \in Namespaces, NEW i \in Nat, i < kern.next[n]
    PROVE  /\ i < kern'.next[n]
           /\ \A name : Names(kern, n, i, name) => Names(kern', n, i, name)
           /\ \A far : n = "node" /\ Leads(kern, i, far) => Leads(kern', i, far)
<1>1. /\ \A l \in kern'.links[n] : l \in kern.links[n] \/ l.idx = kern.next[n]
      /\ kern.next[n] <= kern'.next[n] /\ kern.next[n] \in Nat /\ kern'.next[n] \in Nat
  <2>1. kern' \in Kernels
    BY TypesStep DEF Types
  <2> QED
    BY <2>1, LinksKept, LinkTypes DEF Kernels
<1>2. \A l \in kern'.links[n] : l.idx = i => l \in kern.links[n]
  BY <1>1
<1> QED
  BY <1>1, <1>2 DEF Names, Leads

LEMMA NodeLinkKept ==
    ASSUME TypeInv, [Next]_vars, NEW l \in kern.links["node"], l.far = "none"
    PROVE  l \in kern'.links["node"]
<1>1. "node" \in Namespaces /\ \A p \in Pods : p # "node" /\ p # "none"
  BY Where
<1> QED
  BY <1>1, LinksKept

LEMMA KeepsBridgeLink ==
    ASSUME TypeInv, [Next]_vars, NEW b, NEW i, BridgeLink(kern, b, i)
    PROVE  BridgeLink(kern', b, i)
  BY NodeLinkKept DEF BridgeLink

LEMMA KeepsBridgeMade ==
    ASSUME TypeInv, [Next]_vars, NEW b, BridgeMade(kern, b)
    PROVE  BridgeMade(kern', b)
<1>1. PICK k \in kern.links["node"] : k.name = b /\ k.far = "none"
  BY DEF BridgeMade
<1>2. k \in kern'.links["node"]
  BY <1>1, NodeLinkKept
<1>3. ASSUME NEW l \in kern'.links["node"], l.name = b PROVE l.far = "none"
  <2>1. CASE l \in kern.links["node"]
    BY <1>3, <2>1 DEF BridgeMade
  <2>2. CASE MadeBridge /\ l = NewBridge
    BY <2>2, BridgeLinkFields DEF MadeBridge
  <2>3. ASSUME NEW p \in Pods, MadePair(p), NEW master \in Nat, l = HostEnd(p, master) PROVE FALSE
    <3>1. l.name = HostName[p] /\ ~Taken("node", HostName[p])
      BY <2>3, PairLinkFields DEF MadePair, PairIsNew
    <3> QED
      BY <1>1, <1>3, <3>1 DEF Taken
  <2>4. \A p \in Pods : p # "node"
    BY Where
  <2>5. l \in kern.links["node"] \/ Added("node", l)
    BY Where, LinksKept
  <2> QED
    BY <2>1, <2>2, <2>3, <2>4, <2>5 DEF Added
<1> QED
  BY <1>1, <1>2, <1>3 DEF BridgeMade

\* The gateway's address stays on a bridge: only the addresses of a pair's end go.
LEMMA KeepsGateway ==
    ASSUME TypeInv, [Next]_vars, NEW b, NEW i, BridgeLink(kern, b, i), GatewayThere(kern, b, i)
    PROVE  GatewayThere(kern', b, i)
<1> DEFINE a == [idx |-> i, ip |-> GatewayIP(b)]
<1>1. PICK k \in kern.links["node"] : k.far = "none" /\ k.idx = i
  BY DEF BridgeLink
<1>2. "node" \in Namespaces /\ \A p \in Pods : p # "node" /\ p # "none"
  BY Where
<1>3. AddrsTo("node") /\ a \in kern.addrs["node"] /\ a.idx = i
  BY <1>2, KernelStep DEF GatewayThere
<1>4. \A p \in Pods : i \notin Closed(p).gone
  <2> SUFFICES ASSUME NEW p \in Pods, i \in Closed(p).gone PROVE FALSE
    OBVIOUS
  <2>1. PICK l \in kern.links["node"] : l.far = p /\ l.idx = i
    BY DEF Closed
  <2>2. l = k
    BY <1>1, <1>2, <2>1, LinkTypes
  <2> QED
    BY <1>1, <1>2, <2>1, <2>2
<1> HIDE DEF a
<1>5. a \in kern'.addrs["node"]
  BY <1>2, <1>3, <1>4 DEF AddrsTo
<1> QED
  BY <1>5 DEF GatewayThere, a

\* While an ordinary pod's host part is at work nobody else makes a link.
LEMMA KeepsPairLeads ==
    ASSUME TypeInv, [Next]_vars, NEW p \in Pods, PairLeads(kern, p),
           \/ pc[HostOf(p)] \in {"linkIndexByName", "addAddrV4"}
           \/ pc[HostOf(p)] = "createVethPeerNetns" /\ sock[HostOf(p)].wait # 0
    PROVE  PairLeads(kern', p)
<1>0. Types /\ Roles /\ Phases
  BY DEF TypeInv
<1>1. p \notin Range(Bridged)
  <2>1. pc[HostOf(p)] \in HostPlaces(p)
    BY <1>0 DEF Roles
  <2> QED
    BY <2>1 DEF HostPlaces
<1>2. pc[Agent] = "ordinary" /\ p = Ordinary[turn] /\ p \in Range(Ordinary)
  <2>1. p \in Range(Ordinary)
    BY <1>1 DEF Pods
  <2> QED
    BY <1>0, <2>1 DEF Phases
<1>3. ~MadeBridge
  BY <1>2 DEF MadeBridge, Acked
<1>4. ASSUME NEW q \in Pods, MadePair(q) PROVE FALSE
  <2>1. pc[HostOf(q)] \in {"createVethPeerNetns", "createVethOnBridge"} /\ sock[HostOf(q)].wait = 0
    BY <1>4 DEF MadePair, Acked
  <2>2. q \notin Range(Bridged)
    BY <1>0, <1>2, <2>1 DEF Phases
  <2>3. q \in Range(Ordinary)
    BY <2>2 DEF Pods
  <2>4. q = p
    BY <1>0, <1>2, <2>1, <2>3 DEF Phases
  <2> QED
    BY <2>1, <2>4
<1>5. \A l \in kern'.links["node"] : l \in kern.links["node"]
  BY <1>3, <1>4, Where, LinksKept DEF Added
<1> QED
  BY <1>5 DEF PairLeads

LEMMA KeepsRoute ==
    ASSUME TypeInv, [Next]_vars, NEW p \in Pods, NEW i, HasRoute(kern, p, i), pc'[Cont(p)] # "gone"
    PROVE  HasRoute(kern', p, i)
<1>1. RoutesTo(p)
  BY Where, KernelStep
<1>2. ~ContainerEnds(p)
  BY EndsTo DEF TypeInv
<1> DEFINE r == [dst |-> "default", gw |-> Gateway(Cont(p)), idx |-> i]
<1>3. r \in kern.routes[p]
  BY DEF HasRoute
<1> HIDE DEF r
<1>4. r \in kern'.routes[p]
  BY <1>1, <1>2, <1>3 DEF RoutesTo
<1> QED
  BY <1>4 DEF HasRoute, r

\* The host asks for a pod's pair once.
LEMMA StaysPaired ==
    ASSUME TypeInv, [Next]_vars, NEW p \in Pods, ~Unpaired(p)
    PROVE  ~Unpaired(p)'
<1>0. Types /\ Roles
  BY DEF TypeInv
<1>h. HostOf(p) \in Callers /\ HostOf(p) # Lease /\ \A q \in Pods : HostOf(p) # Cont(q)
  BY Who
<1>u. /\ pc[HostOf(p)] \notin {"idle", "open"}
      /\ pc[HostOf(p)] \in {"createVethPeerNetns", "createVethOnBridge"} => sock[HostOf(p)].wait # 0
  BY DEF Unpaired
<1> DEFINE Goal == /\ pc'[HostOf(p)] \notin {"idle", "open"}
                   /\ pc'[HostOf(p)] \in {"createVethPeerNetns", "createVethOnBridge"} => sock'[HostOf(p)].wait # 0
<1> SUFFICES Goal
  BY DEF Unpaired
<1>m. ASSUME NEW c \in Callers, Moved(c), c # HostOf(p) PROVE Goal
  <2>1. pc'[HostOf(p)] = pc[HostOf(p)] /\ sock'[HostOf(p)] = sock[HostOf(p)]
    BY <1>h, <1>m DEF Moved
  <2> QED
    BY <1>u, <2>1
<1>1. ASSUME NEW c \in Callers, Opened(c) PROVE Goal
  BY <1>0, <1>1, <1>m, <1>u, OpenedTo
<1>2. ASSUME NEW c \in Callers, NEW s, Failed(c, s) PROVE Goal
  <2>1. CASE c = HostOf(p)
    <3>1. pc'[c] = "closed"
      BY <1>0, <1>2, <2>1, FailedTo
    <3> QED
      BY <2>1, <3>1
  <2>2. CASE c # HostOf(p)
    BY <1>0, <1>2, <1>m, <2>2, FailedTo
  <2> QED
    BY <2>1, <2>2
<1>3. ASSUME NEW c \in Callers, NEW i, Returned(c, i) PROVE Goal
  <2>1. CASE c = HostOf(p)
    <3>1. HostReturns(p)
      BY <1>0, <1>3, <2>1, ReturnedTo
    <3> QED
      BY <3>1 DEF HostReturns
  <2>2. CASE c # HostOf(p)
    BY <1>0, <1>3, <1>m, <2>2, ReturnedTo
  <2> QED
    BY <2>1, <2>2
<1>4. ASSUME NEW c \in Callers, Sending(c) PROVE Goal
  <2>1. PICK ds : Sends(c, ds)
    BY <1>4, SendingTo
  <2>2. pc' = pc /\ sock'[c].wait # 0 /\ \A d \in Callers \ {c} : sock'[d] = sock[d]
    BY <2>1, SendsFields
  <2> QED
    BY <1>h, <1>u, <2>2
<1>5. ASSUME NEW c \in Callers, Skipped(c) PROVE Goal
  <2>1. pc' = pc /\ sock'[c].wait = sock[c].wait /\ \A d \in Callers \ {c} : sock'[d] = sock[d]
    BY <1>0, <1>5, SkippedTo
  <2> QED
    BY <1>h, <1>u, <2>1
<1>6. ASSUME Phase PROVE Goal
  <2>1. sock' = sock /\ pc'[HostOf(p)] = pc[HostOf(p)]
    BY <1>6, <1>u, PhaseTo
  <2> QED
    BY <1>u, <2>1
<1>7. ASSUME NEW q \in Pods, ContainerEnds(q) PROVE Goal
  <2>1. sock'[HostOf(p)] = sock[HostOf(p)] /\ pc'[HostOf(p)] = pc[HostOf(p)]
    BY <1>0, <1>7, <1>h, EndsTo
  <2> QED
    BY <1>u, <2>1
<1>8. ASSUME Renew PROVE Goal
  <2>1. sock' = sock /\ pc'[HostOf(p)] = pc[HostOf(p)]
    BY <1>0, <1>8, <1>h, RenewTo
  <2> QED
    BY <1>u, <2>1
<1>9. ASSUME UNCHANGED vars PROVE Goal
  BY <1>9, <1>u DEF vars
<1> HIDE DEF Goal
<1> QED
  BY <1>1, <1>2, <1>3, <1>4, <1>5, <1>6, <1>7, <1>8, <1>9, Kinds

\* Every link is one of the node's, a bridge or an end of the pair of a pod whose
\* host part has made it and whose namespace is there.
LEMMA LinkEndsStep ==
    ASSUME TypeInv, LinkEnds, [Next]_vars
    PROVE  LinkEnds'
<1>0. "node" \in Namespaces /\ \A p \in Pods : p \in Namespaces /\ p # "node" /\ p # "none"
  BY Where
<1>p. ASSUME NEW p \in Pods, MadePair(p)
      PROVE  ~Unpaired(p)' /\ pc'[Cont(p)] # "gone"
  <2>1. Sending(HostOf(p)) /\ HostOf(p) \in Callers /\ pc[HostOf(p)] \in {"createVethPeerNetns", "createVethOnBridge"}
    BY <1>p, Who DEF Sending, MadePair, Acked
  <2>2. PICK ds : Sends(HostOf(p), ds)
    BY <2>1, SendingTo
  <2>3. pc' = pc /\ sock'[HostOf(p)].wait # 0
    BY <2>1, <2>2, SendsFields
  <2>4. pc[Cont(p)] # "gone"
    BY <1>0, <1>p DEF MadePair, PairIsNew, Alive
  <2> QED
    BY <2>1, <2>3, <2>4 DEF Unpaired
<1>g. ASSUME NEW p \in Pods, pc[Cont(p)] # "gone", ~ContainerEnds(p)
      PROVE  pc'[Cont(p)] # "gone"
  <2>0. Types /\ Roles /\ Cont(p) \in Callers
    BY Who DEF TypeInv
  <2>m. ASSUME NEW c \in Callers, Moved(c), c # Cont(p) PROVE pc'[Cont(p)] # "gone"
    BY <1>g, <2>0, <2>m DEF Moved
  <2>1. ASSUME NEW c \in Callers, Opened(c) PROVE pc'[Cont(p)] # "gone"
    BY <2>0, <2>1, <2>m, OpenedTo
  <2>2. ASSUME NEW c \in Callers, NEW s, Failed(c, s) PROVE pc'[Cont(p)] # "gone"
    <3>1. CASE c = Cont(p)
      <4>1. pc'[c] \in {"up", "failed"}
        BY <2>0, <2>2, <3>1, FailedTo
      <4> QED
        BY <3>1, <4>1
    <3>2. CASE c # Cont(p)
      BY <2>0, <2>2, <2>m, <3>2, FailedTo
    <3> QED
      BY <3>1, <3>2
  <2>3. ASSUME NEW c \in Callers, NEW i, Returned(c, i) PROVE pc'[Cont(p)] # "gone"
    <3>1. CASE c = Cont(p)
      <4>1. ContReturns(p, Head(sock[c].queue)[i])
        BY <2>0, <2>3, <3>1, ReturnedTo
      <4> QED
        BY <4>1 DEF ContReturns
    <3>2. CASE c # Cont(p)
      BY <2>0, <2>3, <2>m, <3>2, ReturnedTo
    <3> QED
      BY <3>1, <3>2
  <2>4. ASSUME NEW c \in Callers, Sending(c) PROVE pc'[Cont(p)] # "gone"
    BY <1>g, <2>4, SendingTo, SendsFields
  <2>5. ASSUME NEW c \in Callers, Skipped(c) PROVE pc'[Cont(p)] # "gone"
    BY <1>g, <2>5 DEF Skipped
  <2>6. ASSUME Phase PROVE pc'[Cont(p)] # "gone"
    BY <1>g, <2>6, PhaseTo
  <2>7. ASSUME NEW q \in Pods, ContainerEnds(q) PROVE pc'[Cont(p)] # "gone"
    <3>1. q # p
      BY <1>g, <2>7
    <3>2. pc'[Cont(p)] = pc[Cont(p)]
      BY <2>0, <2>7, <3>1, EndsTo, Who
    <3> QED
      BY <1>g, <3>2
  <2>8. ASSUME Renew PROVE pc'[Cont(p)] # "gone"
    BY <1>g, <2>0, <2>8, RenewTo, Who
  <2>9. ASSUME UNCHANGED vars PROVE pc'[Cont(p)] # "gone"
    BY <1>g, <2>9 DEF vars
  <2> QED
    BY <2>1, <2>2, <2>3, <2>4, <2>5, <2>6, <2>7, <2>8, <2>9, Kinds
<1>1. ASSUME NEW l \in kern'.links["node"]
      PROVE  /\ l.far = "none" => l.name \in {"lo", "eth0"} \cup Bridges /\ l.master = 0
             /\ l.far # "none" => l.far \in Pods /\ l.name = HostName[l.far] /\ ~Unpaired(l.far)'
                                    /\ pc'[Cont(l.far)] # "gone"
  <2>1. CASE l \in kern.links["node"]
    <3>1. /\ l.far = "none" => l.name \in {"lo", "eth0"} \cup Bridges /\ l.master = 0
          /\ l.far # "none" => l.far \in Pods /\ l.name = HostName[l.far] /\ ~Unpaired(l.far)
                                 /\ pc[Cont(l.far)] # "gone"
      BY <2>1 DEF LinkEnds
    <3>2. ASSUME l.far # "none" PROVE ~ContainerEnds(l.far)
      <4>1. SUFFICES ASSUME ContainerEnds(l.far) PROVE FALSE
        OBVIOUS
      <4>2. l.far \in Pods /\ kern \in Kernels
        BY <3>1, <3>2 DEF TypeInv, Types
      <4>3. kern' = WithoutPod(l.far)
        BY <4>1 DEF ContainerEnds
      <4>4. kern'.links["node"] = {k \in kern.links["node"] : k.far # l.far}
        BY <1>0, <4>2, <4>3, WithoutPodFields
      <4> QED
        BY <4>4
    <3> QED
      BY <1>g, <3>1, <3>2, StaysPaired
  <2>2. CASE MadeBridge /\ l = NewBridge
    <3>1. NewBridge \in LinkSet /\ Wanted(Agent) \in Bridges
      BY <2>2 DEF MadeBridge
    <3> QED
      BY <2>2, <3>1, BridgeLinkFields
  <2>3. ASSUME NEW p \in Pods, MadePair(p), NEW master \in Nat, l = HostEnd(p, master)
        PROVE  l.far = p /\ l.name = HostName[p] /\ ~Unpaired(p)' /\ pc'[Cont(p)] # "gone" /\ p # "none"
    BY <1>0, <1>p, <2>3, PairLinkFields
  <2>4. l \in kern.links["node"] \/ Added("node", l)
    BY <1>0, LinksKept
  <2>5. \A p \in Pods : p # "node"
    BY <1>0
  <2>6. \/ l \in kern.links["node"]
        \/ MadeBridge /\ l = NewBridge
        \/ \E p \in Pods : MadePair(p) /\ \E master \in Nat : l = HostEnd(p, master)
    BY <2>4, <2>5 DEF Added
  <2>7. CASE \E p \in Pods : MadePair(p) /\ \E master \in Nat : l = HostEnd(p, master)
    BY <2>3, <2>7
  <2> QED
    BY <2>1, <2>2, <2>6, <2>7
<1>2. ASSUME NEW p \in Pods, NEW l \in kern'.links[p], l.name = "eth0"
      PROVE  l.master = 0 /\ ~Unpaired(p)'
  <2>1. CASE l \in kern.links[p]
    BY <1>2, <2>1, StaysPaired DEF LinkEnds
  <2>2. CASE Added(p, l)
    <3>1. MadePair(p) /\ l = PodEnd(p)
      BY <1>0, <2>2 DEF Added
    <3> QED
      BY <1>p, <3>1, PairLinkFields
  <2> QED
    BY <1>0, <2>1, <2>2, LinksKept
<1> QED
  BY <1>1, <1>2 DEF LinkEnds

-----------------------------------------------------------------------------
(* What the queues hold. *)

\* A request that the kernel did.
Did(c) ==
    \/ c = Agent /\ MadeBridge
    \/ \E p \in Pods : c = HostOf(p) /\ MadePair(p)
    \/ GaveAddr(c) \/ GaveRoute(c)

\* A message that answers the request c sends in this step.
Answer(c, m) ==
    /\ m.seq = Sent(c)
    /\ \/ m.type = "ERROR" /\ m.err /\ Denied(c)
       \/ m.type = "ERROR" /\ ~m.err /\ Did(c)
       \/ Dumped(c) /\ DumpAnswer(c, m)

LEMMA SentStep ==
    ASSUME TypeInv, NEW c \in Callers, Sending(c)
    PROVE  /\ UNCHANGED <<pc, idx, bridgeIdx, turn, route, renewed>>
           /\ pc[c] \in Calls /\ sock[c].wait = 0
           /\ sock'[c].seq = Sent(c) /\ sock'[c].wait = Sent(c)
           /\ sock[c].seq \in Nat /\ Sent(c) = sock[c].seq + 1
           /\ \A d \in Callers \ {c} : sock'[d] = sock[d]
           /\ Unread(sock[c].queue) \subseteq Unread(sock'[c].queue)
           /\ \A m \in Unread(sock'[c].queue) : m \in Unread(sock[c].queue) \/ Answer(c, m)
<1>0. Sent(c) \in Nat
  BY SocketFields DEF TypeInv
<1>1. ASSUME NEW ds, Sends(c, ds), \A m \in Unread(ds) : Answer(c, m)
      PROVE  /\ UNCHANGED <<pc, idx, bridgeIdx, turn, route, renewed>>
             /\ pc[c] \in Calls /\ sock[c].wait = 0
             /\ sock'[c].seq = Sent(c) /\ sock'[c].wait = Sent(c)
             /\ sock[c].seq \in Nat /\ Sent(c) = sock[c].seq + 1
             /\ \A d \in Callers \ {c} : sock'[d] = sock[d]
             /\ Unread(sock[c].queue) \subseteq Unread(sock'[c].queue)
             /\ \A m \in Unread(sock'[c].queue) : m \in Unread(sock[c].queue) \/ Answer(c, m)
  <2>1. pc[c] \in Calls /\ sock[c].wait = 0
    BY <1>1 DEF Sends
  <2>2. /\ UNCHANGED <<pc, idx, bridgeIdx, turn, route, renewed>>
        /\ sock'[c].seq = Sent(c) /\ sock'[c].wait = Sent(c)
        /\ sock[c].seq \in Nat /\ Sent(c) = sock[c].seq + 1
        /\ \A d \in Callers \ {c} : sock'[d] = sock[d]
        /\ Unread(sock'[c].queue) = Unread(sock[c].queue) \cup Unread(ds)
    BY <1>1, SendsFields
  <2> QED
    BY <1>1, <2>1, <2>2
<1>2. ASSUME NEW e \in BOOLEAN
      PROVE  LET m == ErrorMsg(Sent(c), e)
             IN  Unread(<<<<m>>>>) = {m} /\ m.seq = Sent(c) /\ m.type = "ERROR" /\ m.err = e
  BY <1>0, ErrorFields, UnreadOne
<1>3. CASE Denied(c)
  <2> DEFINE ds == <<<<ErrorMsg(Sent(c), TRUE)>>>>
  <2>1. Sends(c, ds)
    BY <1>3, SendsEach
  <2>2. \A m \in Unread(ds) : Answer(c, m)
    BY <1>2, <1>3 DEF Answer
  <2> QED
    BY <1>1, <2>1, <2>2
<1>4. CASE Did(c)
  <2> DEFINE ds == <<<<ErrorMsg(Sent(c), FALSE)>>>>
  <2>1. \E call \in AckCalls : Acked(c, call)
    BY <1>4 DEF Did, MadeBridge, MadePair, GaveAddr, GaveRoute, AckCalls
  <2>2. Sends(c, ds)
    BY <2>1, SendsEach
  <2>3. \A m \in Unread(ds) : Answer(c, m)
    BY <1>2, <1>4 DEF Answer
  <2> QED
    BY <1>1, <2>2, <2>3
<1>5. CASE Dumped(c)
  <2>1. PICK ds \in Datagrams(Append(DumpOf(c), Msg(Sent(c), "DONE"))) : Sends(c, ds)
    BY <1>5, SendsEach
  <2>2. \A m \in Unread(ds) : Answer(c, m)
    BY <1>5, <2>1, DumpType DEF Answer
  <2> QED
    BY <1>1, <2>1, <2>2
<1> QED
  BY <1>3, <1>4, <1>5 DEF Sending, Did

\* What a caller finds in its queue was there or is the answer to what it sent.
LEMMA QueueStep ==
    ASSUME TypeInv, [Next]_vars, NEW d \in Callers, NEW m \in Unread(sock'[d].queue)
    PROVE  \/ m \in Unread(sock[d].queue) /\ sock[d].seq <= sock'[d].seq
           \/ Sending(d) /\ Answer(d, m) /\ sock'[d].seq = Sent(d)
<1>0. Types /\ Roles /\ sock[d].seq \in Nat
  BY SocketFields DEF TypeInv
<1> DEFINE Goal == \/ m \in Unread(sock[d].queue) /\ sock[d].seq <= sock'[d].seq
                   \/ Sending(d) /\ Answer(d, m) /\ sock'[d].seq = Sent(d)
<1>s. ASSUME sock'[d] = sock[d] PROVE Goal
  BY <1>0, <1>s
<1>m. ASSUME NEW c \in Callers, Moved(c) PROVE Goal
  <2>1. CASE c = d
    <3>1. sock'[d] # NewSocket
      BY <2>1, NewSocketFields
    <3>2. m \in Unread(sock[d].queue) /\ sock'[d].seq >= sock[d].seq /\ sock' \in [Callers -> Sockets]
      BY <1>m, <2>1, <3>1 DEF Moved
    <3>3. sock'[d].seq \in Nat
      BY <3>2 DEF Sockets
    <3> QED
      BY <1>0, <3>2, <3>3
  <2>2. CASE c # d
    BY <1>m, <1>s, <2>2 DEF Moved
  <2> QED
    BY <2>1, <2>2
<1>1. ASSUME NEW c \in Callers, Opened(c) PROVE Goal
  BY <1>0, <1>1, <1>m, OpenedTo
<1>2. ASSUME NEW c \in Callers, NEW s, Failed(c, s) PROVE Goal
  BY <1>0, <1>2, <1>m, FailedTo
<1>3. ASSUME NEW c \in Callers, NEW i, Returned(c, i) PROVE Goal
  BY <1>0, <1>3, <1>m, ReturnedTo
<1>4. ASSUME NEW c \in Callers, Sending(c) PROVE Goal
  <2>1. CASE c = d
    <3>1. /\ sock'[d].seq = Sent(d) /\ Sent(d) = sock[d].seq + 1
          /\ m \in Unread(sock[d].queue) \/ Answer(d, m)
      BY <1>4, <2>1, SentStep
    <3>2. sock[d].seq <= sock'[d].seq
      BY <1>0, <3>1
    <3> QED
      BY <1>4, <2>1, <3>1, <3>2
  <2>2. CASE c # d
    BY <1>4, <1>s, <2>2, SentStep
  <2> QED
    BY <2>1, <2>2
<1>5. ASSUME NEW c \in Callers, Skipped(c) PROVE Goal
  <2>1. /\ sock'[c].seq = sock[c].seq /\ Unread(sock'[c].queue) \subseteq Unread(sock[c].queue)
        /\ \A e \in Callers \ {c} : sock'[e] = sock[e]
    BY <1>0, <1>5, SkippedTo
  <2>2. CASE c = d
    BY <1>0, <2>1, <2>2
  <2>3. CASE c # d
    BY <1>s, <2>1, <2>3
  <2> QED
    BY <2>2, <2>3
<1>6. ASSUME Phase PROVE Goal
  BY <1>6, <1>s, PhaseTo
<1>7. ASSUME NEW p \in Pods, ContainerEnds(p) PROVE Goal
  <2>1. sock'[Cont(p)] = NewSocket /\ \A e \in Callers \ {Cont(p)} : sock'[e] = sock[e]
    BY <1>0, <1>7, EndsTo
  <2> QED
    BY <1>s, <2>1, NewSocketFields
<1>8. ASSUME Renew PROVE Goal
  BY <1>0, <1>8, <1>s, RenewTo
<1>9. ASSUME UNCHANGED vars PROVE Goal
  BY <1>9, <1>s DEF vars
<1> HIDE DEF Goal
<1>10. Goal
  BY <1>1, <1>2, <1>3, <1>4, <1>5, <1>6, <1>7, <1>8, <1>9, Kinds
<1> QED
  BY <1>10 DEF Goal

\* A caller that waits for an answer has not moved.
LEMMA WaitStep ==
    ASSUME TypeInv, [Next]_vars, NEW d \in Callers, sock'[d].wait # 0
    PROVE  /\ pc'[d] = pc[d] /\ idx'[d] = idx[d] /\ (d = Agent => turn' = turn)
           /\ \/ sock'[d].wait = sock[d].wait /\ Unread(sock'[d].queue) \subseteq Unread(sock[d].queue)
              \/ Sending(d) /\ sock'[d].wait = Sent(d)
<1>0. Types /\ Roles
  BY DEF TypeInv
<1> DEFINE Goal == /\ pc'[d] = pc[d] /\ idx'[d] = idx[d] /\ (d = Agent => turn' = turn)
                   /\ \/ sock'[d].wait = sock[d].wait /\ Unread(sock'[d].queue) \subseteq Unread(sock[d].queue)
                      \/ Sending(d) /\ sock'[d].wait = Sent(d)
<1>s. ASSUME sock'[d] = sock[d], pc'[d] = pc[d], idx'[d] = idx[d], d = Agent => turn' = turn PROVE Goal
  BY <1>s
<1>m. ASSUME NEW c \in Callers, Moved(c), c # Agent => turn' = turn PROVE Goal
  <2>1. c # d
    BY <1>m DEF Moved
  <2> QED
    BY <1>m, <1>s, <2>1 DEF Moved
<1>1. ASSUME NEW c \in Callers, Opened(c) PROVE Goal
  BY <1>0, <1>1, <1>m, OpenedTo
<1>2. ASSUME NEW c \in Callers, NEW s, Failed(c, s) PROVE Goal
  BY <1>0, <1>2, <1>m, FailedTo
<1>3. ASSUME NEW c \in Callers, NEW i, Returned(c, i) PROVE Goal
  BY <1>0, <1>3, <1>m, ReturnedTo
<1>4. ASSUME NEW c \in Callers, Sending(c) PROVE Goal
  BY <1>4, <1>s, SentStep
<1>5. ASSUME NEW c \in Callers, Skipped(c) PROVE Goal
  <2>1. /\ sock'[c].wait = sock[c].wait /\ Unread(sock'[c].queue) \subseteq Unread(sock[c].queue)
        /\ \A e \in Callers \ {c} : sock'[e] = sock[e]
        /\ UNCHANGED <<pc, idx, turn>>
    BY <1>0, <1>5, SkippedTo
  <2> QED
    BY <2>1
<1>6. ASSUME Phase PROVE Goal
  <2>1. sock' = sock /\ idx' = idx /\ sock[Agent].wait = 0 /\ pc'[Lease] = pc[Lease]
    BY <1>6, PhaseTo
  <2>2. d # Agent /\ pc[d] \in Calls
    BY <2>1 DEF TypeInv, Waits
  <2>3. pc[d] # "idle"
    BY <2>2 DEF Calls, AckCalls, LinkDumps
  <2>4. pc'[d] = pc[d]
    BY <1>6, <2>1, <2>2, <2>3, PhaseTo, Who
  <2> QED
    BY <1>s, <2>1, <2>2, <2>4
<1>7. ASSUME NEW p \in Pods, ContainerEnds(p) PROVE Goal
  <2>1. /\ sock'[Cont(p)] = NewSocket /\ \A e \in Callers \ {Cont(p)} : sock'[e] = sock[e] /\ pc'[e] = pc[e]
        /\ UNCHANGED <<idx, turn>>
    BY <1>0, <1>7, EndsTo
  <2> QED
    BY <1>s, <2>1, NewSocketFields
<1>8. ASSUME Renew PROVE Goal
  <2>1. pc[Lease] = "closed" /\ (\A e \in Callers \ {Lease} : pc'[e] = pc[e]) /\ UNCHANGED <<sock, idx, turn>>
    BY <1>0, <1>8, RenewTo
  <2>2. pc[d] \in Calls
    BY <2>1 DEF TypeInv, Waits
  <2>3. d # Lease
    BY <2>1, <2>2 DEF Calls, AckCalls, LinkDumps
  <2> QED
    BY <1>s, <2>1, <2>3
<1>9. ASSUME UNCHANGED vars PROVE Goal
  BY <1>9, <1>s DEF vars
<1> HIDE DEF Goal
<1>10. Goal
  BY <1>1, <1>2, <1>3, <1>4, <1>5, <1>6, <1>7, <1>8, <1>9, Kinds
<1> QED
  BY <1>10 DEF Goal

\* A message about a link that is still unread is true: a link that has that
\* index has that name.
LEMMA MessagesStep ==
    ASSUME TypeInv, MessagesTrue, [Next]_vars
    PROVE  MessagesTrue'
<1> SUFFICES ASSUME NEW c \in Callers, NEW m \in Unread(sock'[c].queue)
             PROVE  /\ m.seq <= sock'[c].seq
                    /\ m.type = "NEWLINK" => /\ 1 <= m.idx /\ m.idx < kern'.next[Ns(c)]
                                             /\ Names(kern', Ns(c), m.idx, m.name)
  BY DEF MessagesTrue, MessageTrue
<1>0. Ns(c) \in Namespaces
  BY Where
<1>t. m \in Message /\ m.seq \in Nat /\ m.idx \in Nat
  <2>1. sock' \in [Callers -> Sockets]
    BY TypesStep DEF Types
  <2>2. sock'[c].queue \in Seq(Seq(Message))
    BY <2>1 DEF Sockets
  <2>3. m \in Message
    BY <2>2, UnreadType
  <2> QED
    BY <2>3 DEF Message
<1>1. CASE m \in Unread(sock[c].queue) /\ sock[c].seq <= sock'[c].seq
  <2>1. /\ m.seq <= sock[c].seq
        /\ m.type = "NEWLINK" => 1 <= m.idx /\ m.idx < kern.next[Ns(c)] /\ Names(kern, Ns(c), m.idx, m.name)
    BY <1>1 DEF MessagesTrue, MessageTrue
  <2>2. sock[c].seq \in Nat /\ sock'[c].seq \in Nat
    <3>1. sock' \in [Callers -> Sockets]
      BY TypesStep DEF Types
    <3> QED
      BY <3>1, SocketFields DEF Sockets, TypeInv
  <2>3. m.seq <= sock'[c].seq
    BY <1>1, <1>t, <2>1, <2>2
  <2> QED
    BY <1>0, <1>t, <2>1, <2>3, KeepsNames
<1>2. CASE Sending(c) /\ Answer(c, m) /\ sock'[c].seq = Sent(c)
  <2>1. m.seq <= sock'[c].seq
    BY <1>2, <1>t DEF Answer
  <2>2. ASSUME m.type = "NEWLINK"
        PROVE  1 <= m.idx /\ m.idx < kern'.next[Ns(c)] /\ Names(kern', Ns(c), m.idx, m.name)
    <3>1. PICK l \in kern.links[Ns(c)] : m.idx = l.idx /\ m.name = l.name
      BY <1>2, <2>2 DEF Answer, DumpAnswer
    <3>2. 1 <= m.idx /\ m.idx < kern.next[Ns(c)]
      BY <1>0, <3>1, LinkTypes
    <3>3. Names(kern, Ns(c), m.idx, m.name)
      BY <1>0, <3>1, LinkTypes DEF Names
    <3> QED
      BY <1>0, <1>t, <3>2, <3>3, KeepsNames
  <2> QED
    BY <2>1, <2>2
<1> QED
  BY <1>1, <1>2, QueueStep

-----------------------------------------------------------------------------
(* What an answer reports is so. *)

\* An acknowledgement was there before, or is the kernel's answer of this step.
LEMMA AckStep ==
    ASSUME TypeInv, MessagesTrue, [Next]_vars, NEW d \in Callers, NEW m \in Acks(d)'
    PROVE  /\ pc'[d] = pc[d] /\ idx'[d] = idx[d] /\ (d = Agent => turn' = turn)
           /\ \/ m \in Acks(d)
              \/ m.type = "ERROR" /\ m.err /\ Denied(d)
              \/ m.type = "ERROR" /\ ~m.err /\ Did(d)
<1>1. m \in Unread(sock'[d].queue) /\ sock'[d].wait # 0 /\ pc'[d] \in AckCalls /\ m.seq = sock'[d].wait
  BY DEF Acks
<1>2. /\ pc'[d] = pc[d] /\ idx'[d] = idx[d] /\ (d = Agent => turn' = turn)
      /\ \/ sock'[d].wait = sock[d].wait /\ Unread(sock'[d].queue) \subseteq Unread(sock[d].queue)
         \/ Sending(d) /\ sock'[d].wait = Sent(d)
  BY <1>1, WaitStep
<1>3. CASE sock'[d].wait = sock[d].wait /\ Unread(sock'[d].queue) \subseteq Unread(sock[d].queue)
  BY <1>1, <1>2, <1>3 DEF Acks
<1>4. CASE Sending(d) /\ sock'[d].wait = Sent(d)
  <2>1. sock[d].seq \in Nat /\ Sent(d) = sock[d].seq + 1 /\ (m \in Unread(sock[d].queue) \/ Answer(d, m))
    BY <1>1, <1>4, SentStep
  <2>2. m \in Unread(sock[d].queue) => m.seq <= sock[d].seq
    BY DEF MessagesTrue, MessageTrue
  <2>3. Answer(d, m)
    BY <1>1, <1>4, <2>1, <2>2
  <2>4. ~Dumped(d)
    BY <1>1, <1>2 DEF Dumped, AckCalls, LinkDumps
  <2> QED
    BY <1>2, <2>3, <2>4 DEF Answer
<1> QED
  BY <1>2, <1>3, <1>4

LEMMA AckIsErrorStep ==
    ASSUME TypeInv, MessagesTrue, AckIsError, [Next]_vars
    PROVE  AckIsError'
<1> SUFFICES ASSUME NEW c \in Callers, NEW m \in Acks(c)' PROVE m.type = "ERROR"
  BY DEF AckIsError
<1> QED
  BY AckStep DEF AckIsError

\* What the agent asks for changes with its turn alone.
LEMMA WantedSame ==
    ASSUME turn' = turn
    PROVE  Wanted(Agent)' = Wanted(Agent)
<1>1. Agent[1] = "agent"
  BY Parts
<1> QED
  BY <1>1 DEF Wanted

\* A bridge the kernel said it made is there, an address it said it gave is on it.
LEMMA AgentAckStep ==
    ASSUME TypeInv, MessagesTrue, AgentDoes, AgentAck, [Next]_vars
    PROVE  AgentAck'
<1> SUFFICES ASSUME NEW m \in Acks(Agent)', ~m.err
             PROVE  /\ (pc'[Agent] = "createBridge" => BridgeMade(kern', Wanted(Agent)'))
                    /\ (pc'[Agent] = "addAddrV4" => GatewayThere(kern', Wanted(Agent)', idx'[Agent]))
  BY DEF AgentAck
<1>0. Agent \in Callers /\ "node" \in Namespaces
  BY Who, Where
<1>1. /\ pc'[Agent] = pc[Agent] /\ idx'[Agent] = idx[Agent] /\ turn' = turn
      /\ m \in Acks(Agent) \/ Did(Agent)
  BY <1>0, AckStep
<1> DEFINE W == Wanted(Agent)
<1>2. Wanted(Agent)' = W
  BY <1>1, WantedSame
<1> SUFFICES /\ pc[Agent] = "createBridge" => BridgeMade(kern', W)
             /\ pc[Agent] = "addAddrV4" => GatewayThere(kern', W, idx[Agent])
  BY <1>1, <1>2
<1>3. CASE m \in Acks(Agent)
  <2>1. pc[Agent] = "createBridge" => BridgeMade(kern, W)
    BY <1>3 DEF AgentAck
  <2>2. pc[Agent] = "addAddrV4" => GatewayThere(kern, W, idx[Agent]) /\ BridgeLink(kern, W, idx[Agent])
    BY <1>3 DEF AgentAck, AgentDoes
  <2> HIDE DEF W
  <2> QED
    BY <2>1, <2>2, KeepsBridgeMade, KeepsGateway
<1>4. ASSUME Did(Agent), pc[Agent] = "createBridge" PROVE BridgeMade(kern', W)
  <2>1. MadeBridge
    BY <1>4, Who DEF Did, GaveAddr, GaveRoute, Acked
  <2>2. ~Taken("node", W) /\ NewBridge \in LinkSet /\ kern'.links = [kern.links EXCEPT !["node"] = @ \cup {NewBridge}]
    BY <2>1 DEF MadeBridge, Grows
  <2>3. NewBridge.name = W /\ NewBridge.far = "none"
    BY <2>2, BridgeLinkFields
  <2>4. kern'.links["node"] = kern.links["node"] \cup {NewBridge}
    BY <1>0, <2>2, KernelFields
  <2> QED
    BY <2>2, <2>3, <2>4 DEF Taken, BridgeMade
<1>5. ASSUME Did(Agent), pc[Agent] = "addAddrV4" PROVE GatewayThere(kern', W, idx[Agent])
  <2>1. GaveAddr(Agent)
    BY <1>5, Who DEF Did, MadeBridge, GaveRoute, Acked
  <2>2. kern'.addrs = [kern.addrs EXCEPT ![Ns(Agent)] = @ \cup {[idx |-> idx[Agent], ip |-> Address(Agent)]}]
    BY <2>1 DEF GaveAddr
  <2>3. Ns(Agent) = "node" /\ Address(Agent) = GatewayIP(W)
    BY Where, Asks
  <2> HIDE DEF W
  <2>4. kern'.addrs["node"] = kern.addrs["node"] \cup {[idx |-> idx[Agent], ip |-> GatewayIP(W)]}
    BY <1>0, <2>2, <2>3, KernelFields
  <2> QED
    BY <2>4 DEF GatewayThere
<1> HIDE DEF W
<1> QED
  BY <1>1, <1>3, <1>4, <1>5

\* A pair the kernel said it made leads to the pod, and it is the only link by
\* its name.
LEMMA HostAckStep ==
    ASSUME TypeInv, MessagesTrue, HostAck, [Next]_vars
    PROVE  HostAck'
<1> SUFFICES ASSUME NEW p \in Pods, NEW m \in Acks(HostOf(p))', ~m.err, pc'[HostOf(p)] = "createVethPeerNetns"
             PROVE  PairLeads(kern', p)
  BY DEF HostAck
<1>0. HostOf(p) \in Callers /\ "node" \in Namespaces /\ p \in Namespaces /\ p # "node"
  BY Who, Where
<1>1. pc'[HostOf(p)] = pc[HostOf(p)] /\ (m \in Acks(HostOf(p)) \/ Did(HostOf(p)))
  BY <1>0, AckStep
<1>2. CASE m \in Acks(HostOf(p))
  <2>1. PairLeads(kern, p) /\ sock[HostOf(p)].wait # 0
    BY <1>1, <1>2 DEF HostAck, Acks
  <2> QED
    BY <1>1, <2>1, KeepsPairLeads
<1>3. CASE Did(HostOf(p))
  <2>1. MadePair(p)
    BY <1>1, <1>3, Who DEF Did, GaveAddr, GaveRoute, Acked
  <2>2. PICK master \in Nat :
          kern'.links = [[kern.links EXCEPT !["node"] = @ \cup {HostEnd(p, master)}]
                                 EXCEPT ![p] = @ \cup {PodEnd(p)}]
    BY <2>1 DEF MadePair
  <2>3. kern'.links["node"] = kern.links["node"] \cup {HostEnd(p, master)}
    BY <1>0, <2>2, KernelFields
  <2>4. ~Taken("node", HostName[p])
    BY <2>1 DEF MadePair, PairIsNew
  <2> QED
    BY <2>3, <2>4, PairLinkFields DEF Taken, PairLeads
<1> QED
  BY <1>1, <1>2, <1>3

\* A default route the kernel said it added is there.
LEMMA ContAckStep ==
    ASSUME TypeInv, MessagesTrue, ContAck, [Next]_vars
    PROVE  ContAck'
<1> SUFFICES ASSUME NEW p \in Pods, NEW m \in Acks(Cont(p))', ~m.err, pc'[Cont(p)] = "addDefaultRouteV4"
             PROVE  HasRoute(kern', p, idx'[Cont(p)])
  <2>1. \A p \in Pods : Gateway(Cont(p))' = Gateway(Cont(p))
    BY DEF Gateway, Cont, Lease, GatewayIP, HostIP
  <2> QED
    BY <2>1 DEF ContAck, HasRoute
<1>0. Cont(p) \in Callers /\ p \in Namespaces /\ Ns(Cont(p)) = p
  BY Who, Where
<1>1. /\ pc'[Cont(p)] = pc[Cont(p)] /\ idx'[Cont(p)] = idx[Cont(p)] /\ (m \in Acks(Cont(p)) \/ Did(Cont(p)))
  BY <1>0, AckStep
<1>2. CASE m \in Acks(Cont(p))
  <2>1. HasRoute(kern, p, idx[Cont(p)])
    BY <1>1, <1>2 DEF ContAck
  <2> QED
    BY <1>1, <2>1, KeepsRoute
<1>3. CASE Did(Cont(p))
  <2>1. GaveRoute(Cont(p))
    BY <1>1, <1>3, Who DEF Did, GaveAddr, GaveRoute, Acked
  <2> DEFINE r == [dst |-> "default", gw |-> Gateway(Cont(p)), idx |-> idx[Cont(p)]]
  <2>2. kern'.routes = [kern.routes EXCEPT ![Ns(Cont(p))] = @ \cup {r}]
    BY <2>1 DEF GaveRoute
  <2> HIDE DEF r
  <2>3. r \in kern'.routes[p]
    BY <1>0, <2>2, KernelFields
  <2> QED
    BY <1>1, <2>3 DEF HasRoute, r
<1> QED
  BY <1>1, <1>2, <1>3

\* The lookup of the bridge that was just made finds that bridge.
LEMMA AgentLookupStep ==
    ASSUME TypeInv, MessagesTrue, AgentDoes, AgentLookup, [Next]_vars
    PROVE  AgentLookup'
<1> SUFFICES ASSUME pc'[Agent] = "linkIndexByName", sock'[Agent].wait # 0,
                    NEW m \in Unread(sock'[Agent].queue),
                    m.type = "NEWLINK", m.seq = sock'[Agent].wait, m.name = Wanted(Agent)'
             PROVE  BridgeLink(kern', Wanted(Agent)', m.idx)
  BY DEF AgentLookup
<1>0. Agent \in Callers /\ Ns(Agent) = "node"
  BY Who, Where
<1>1. /\ pc[Agent] = "linkIndexByName" /\ turn' = turn
      /\ \/ sock'[Agent].wait = sock[Agent].wait /\ Unread(sock'[Agent].queue) \subseteq Unread(sock[Agent].queue)
         \/ Sending(Agent) /\ sock'[Agent].wait = Sent(Agent)
  BY <1>0, WaitStep
<1> DEFINE W == Wanted(Agent)
<1>2. Wanted(Agent)' = W
  BY <1>1, WantedSame
<1>3. BridgeMade(kern, W)
  BY <1>1 DEF AgentDoes
<1>4. BridgeLink(kern, W, m.idx)
  <2>1. CASE sock'[Agent].wait = sock[Agent].wait /\ Unread(sock'[Agent].queue) \subseteq Unread(sock[Agent].queue)
    BY <1>1, <1>2, <2>1 DEF AgentLookup
  <2>2. CASE Sending(Agent) /\ sock'[Agent].wait = Sent(Agent)
    <3>1. sock[Agent].seq \in Nat /\ Sent(Agent) = sock[Agent].seq + 1
          /\ (m \in Unread(sock[Agent].queue) \/ Answer(Agent, m))
      BY <1>0, <2>2, SentStep
    <3>2. m \in Unread(sock[Agent].queue) => m.seq <= sock[Agent].seq
      BY <1>0 DEF MessagesTrue, MessageTrue
    <3>3. Answer(Agent, m)
      BY <2>2, <3>1, <3>2
    <3>4. PICK l \in kern.links["node"] : m.idx = l.idx /\ m.name = l.name
      BY <1>0, <3>3 DEF Answer, DumpAnswer
    <3> QED
      BY <1>2, <1>3, <3>4 DEF BridgeMade, BridgeLink
  <2> QED
    BY <1>1, <2>1, <2>2
<1> HIDE DEF W
<1> QED
  BY <1>2, <1>4, KeepsBridgeLink

-----------------------------------------------------------------------------
(* What the callers go on with. *)

\* A caller that stays in a call keeps what it looked up.
LEMMA StayStep ==
    ASSUME TypeInv, [Next]_vars, NEW d \in Callers
    PROVE  \/ pc'[d] = pc[d] /\ idx'[d] = idx[d] /\ (d = Agent /\ pc[d] \in AgentCalls => turn' = turn)
           \/ Opened(d) \/ (\E s : Failed(d, s)) \/ (\E i : Returned(d, i))
           \/ pc'[d] \notin Calls \ {"createBridge"} /\ idx'[d] = idx[d]
<1>0. Types /\ Roles
  BY DEF TypeInv
<1> DEFINE Same == pc'[d] = pc[d] /\ idx'[d] = idx[d] /\ (d = Agent /\ pc[d] \in AgentCalls => turn' = turn)
           Else == pc'[d] \notin Calls \ {"createBridge"} /\ idx'[d] = idx[d]
<1>m. ASSUME NEW c \in Callers, Moved(c), c # d, c # Agent => turn' = turn PROVE Same
  BY <1>m DEF Moved
<1>1. ASSUME NEW c \in Callers, Opened(c), c # d PROVE Same
  BY <1>0, <1>1, <1>m, OpenedTo
<1>2. ASSUME NEW c \in Callers, NEW s, Failed(c, s), c # d PROVE Same
  BY <1>0, <1>2, <1>m, FailedTo
<1>3. ASSUME NEW c \in Callers, NEW i, Returned(c, i), c # d PROVE Same
  BY <1>0, <1>3, <1>m, ReturnedTo
<1>4. ASSUME NEW c \in Callers, Sending(c) PROVE Same
  BY <1>4, SentStep
<1>5. ASSUME NEW c \in Callers, Skipped(c) PROVE Same
  BY <1>5 DEF Skipped
<1>6. ASSUME Phase PROVE Same \/ Else
  <2>1. /\ idx' = idx /\ pc[Agent] \notin AgentCalls /\ pc'[Lease] = pc[Lease]
        /\ pc' = pc \/ pc'[Agent] \in {pc[Agent], "ordinary", "open", "run", "createBridge", "wait", "closed"}
        /\ \A p \in Pods : \/ pc'[HostOf(p)] = pc[HostOf(p)] /\ pc'[Cont(p)] = pc[Cont(p)]
                           \/ pc'[HostOf(p)] = "open" /\ pc'[Cont(p)] = "fd5"
    BY <1>6, PhaseTo
  <2>2. {"ordinary", "open", "run", "wait", "closed", "fd5"} \cap Calls = {}
    BY DEF Calls, AckCalls, LinkDumps
  <2>3. CASE d = Agent
    BY <2>1, <2>2, <2>3
  <2>4. CASE d # Agent
    <3>1. pc'[d] = pc[d] \/ pc'[d] \in {"open", "fd5"}
      BY <2>1, <2>4, Who
    <3> QED
      BY <2>1, <2>2, <2>4, <3>1
  <2> QED
    BY <2>3, <2>4
<1>7. ASSUME NEW p \in Pods, ContainerEnds(p) PROVE Same \/ Else
  <2>1. /\ pc'[Cont(p)] = "gone" /\ \A e \in Callers \ {Cont(p)} : pc'[e] = pc[e]
        /\ UNCHANGED <<idx, turn>>
    BY <1>0, <1>7, EndsTo
  <2>2. "gone" \notin Calls
    BY DEF Calls, AckCalls, LinkDumps
  <2> QED
    BY <2>1, <2>2
<1>8. ASSUME Renew PROVE Same \/ Else
  <2>1. pc'[Lease] = "open" /\ (\A e \in Callers \ {Lease} : pc'[e] = pc[e]) /\ UNCHANGED <<idx, turn>>
    BY <1>0, <1>8, RenewTo
  <2>2. "open" \notin Calls
    BY DEF Calls, AckCalls, LinkDumps
  <2> QED
    BY <2>1, <2>2
<1>9. ASSUME UNCHANGED vars PROVE Same
  BY <1>9 DEF vars
<1> HIDE DEF Same, Else
<1>10. Same \/ Else \/ Opened(d) \/ (\E s : Failed(d, s)) \/ (\E i : Returned(d, i))
  BY <1>1, <1>2, <1>3, <1>4, <1>5, <1>6, <1>7, <1>8, <1>9, Kinds
<1> QED
  BY <1>10 DEF Same, Else

\* An acknowledged call that returned without an error was done.
LEMMA SuccessIsAck ==
    ASSUME TypeInv, AckIsError, NEW c \in Callers, NEW i, Returned(c, i), pc[c] \in AckCalls
    PROVE  Head(sock[c].queue)[i] \in Acks(c) /\ ~Head(sock[c].queue)[i].err
<1>1. PICK m : m = Head(sock[c].queue)[i]
  OBVIOUS
<1>2. m \in Unread(sock[c].queue) /\ sock[c].wait # 0 /\ m.seq = sock[c].wait /\ Succeeds(c, m) /\ m \in Message
  BY <1>1, ReturnedTo DEF TypeInv
<1>3. m \in Acks(c)
  BY <1>2 DEF Acks
<1>4. m.type = "ERROR"
  BY <1>3 DEF AckIsError
<1>5. ~m.err
  BY <1>2, <1>4 DEF Succeeds, AckCalls, LinkDumps
<1> QED
  BY <1>1, <1>3, <1>5

\* A lookup that returned an index read it off a link by the name it wanted.
LEMMA SuccessIsLink ==
    ASSUME TypeInv, MessagesTrue, NEW c \in Callers, NEW i, Returned(c, i), pc[c] \in LinkDumps,
           NEW m, m = Head(sock[c].queue)[i]
    PROVE  /\ m.type = "NEWLINK" /\ m.name = Wanted(c) /\ m.seq = sock[c].wait /\ sock[c].wait # 0
           /\ m \in Unread(sock[c].queue) /\ idx'[c] = m.idx /\ m.idx \in Nat
           /\ m.idx < kern.next[Ns(c)] /\ Names(kern, Ns(c), m.idx, Wanted(c))
<1>1. /\ m \in Unread(sock[c].queue) /\ sock[c].wait # 0 /\ m.seq = sock[c].wait
      /\ Ends(c, m) /\ Succeeds(c, m) /\ m \in Message
      /\ idx' = IF pc[c] \in LinkDumps THEN [idx EXCEPT ![c] = m.idx] ELSE idx
  BY ReturnedTo DEF TypeInv
<1>2. m.type = "NEWLINK"
  BY <1>1 DEF Succeeds, AckCalls, LinkDumps
<1>3. m.name = Wanted(c)
  BY <1>1, <1>2 DEF Ends
<1>4. idx'[c] = m.idx /\ m.idx \in Nat
  BY <1>1 DEF TypeInv, Types, Message
<1>5. m.idx < kern.next[Ns(c)] /\ Names(kern, Ns(c), m.idx, Wanted(c))
  BY <1>1, <1>2, <1>3 DEF MessagesTrue, MessageTrue
<1> QED
  BY <1>1, <1>2, <1>3, <1>4, <1>5

\* The agent looks for the bridge when it is made, and gives the gateway's
\* address to that bridge.
LEMMA AgentDoesStep ==
    ASSUME TypeInv, MessagesTrue, AckIsError, AgentAck, AgentLookup, AgentDoes, [Next]_vars
    PROVE  AgentDoes'
<1>0. Agent \in Callers /\ Types /\ Roles
  BY Who DEF TypeInv
<1> SUFFICES ASSUME pc'[Agent] \in {"linkIndexByName", "addAddrV4"}
             PROVE  /\ pc'[Agent] = "linkIndexByName" => BridgeMade(kern', Wanted(Agent)')
                    /\ pc'[Agent] = "addAddrV4" => BridgeLink(kern', Wanted(Agent)', idx'[Agent])
  BY DEF AgentDoes
<1> DEFINE W == Wanted(Agent)
<1>c. {"linkIndexByName", "addAddrV4"} \subseteq Calls \ {"createBridge"}
  BY DEF Calls, AckCalls, LinkDumps
<1>1. CASE pc'[Agent] = pc[Agent] /\ idx'[Agent] = idx[Agent] /\ turn' = turn
  <2>1. Wanted(Agent)' = W
    BY <1>1, WantedSame
  <2>2. /\ pc[Agent] = "linkIndexByName" => BridgeMade(kern, W)
        /\ pc[Agent] = "addAddrV4" => BridgeLink(kern, W, idx[Agent])
    BY DEF AgentDoes
  <2> HIDE DEF W
  <2> QED
    BY <1>1, <2>1, <2>2, KeepsBridgeMade, KeepsBridgeLink
<1>2. ASSUME NEW i, Returned(Agent, i)
      PROVE  /\ pc'[Agent] = "linkIndexByName" => BridgeMade(kern', Wanted(Agent)')
             /\ pc'[Agent] = "addAddrV4" => BridgeLink(kern', Wanted(Agent)', idx'[Agent])
  <2>1. PICK m : m = Head(sock[Agent].queue)[i]
    OBVIOUS
  <2>2. AgentReturns
    BY <1>0, <1>2, ReturnedTo
  <2>3. turn' = turn /\ pc[Agent] \in {"createBridge", "linkIndexByName"}
    BY <2>2 DEF AgentReturns, AgentCalls
  <2>4. Wanted(Agent)' = W
    BY <2>3, WantedSame
  <2>5. CASE pc[Agent] = "createBridge"
    <3>1. m \in Acks(Agent) /\ ~m.err
      BY <1>0, <1>2, <2>1, <2>5, SuccessIsAck DEF AckCalls
    <3>2. BridgeMade(kern, W)
      BY <2>5, <3>1 DEF AgentAck
    <3> HIDE DEF W
    <3>3. BridgeMade(kern', W) /\ pc'[Agent] = "linkIndexByName"
      BY <2>2, <2>5, <3>2, KeepsBridgeMade DEF AgentReturns
    <3> QED
      BY <2>4, <3>3
  <2>6. CASE pc[Agent] = "linkIndexByName"
    <3>1. /\ m.type = "NEWLINK" /\ m.name = W /\ m.seq = sock[Agent].wait /\ sock[Agent].wait # 0
          /\ m \in Unread(sock[Agent].queue) /\ idx'[Agent] = m.idx
      BY <1>0, <1>2, <2>1, <2>6, SuccessIsLink DEF LinkDumps
    <3>2. BridgeLink(kern, W, m.idx)
      BY <2>6, <3>1 DEF AgentLookup
    <3> HIDE DEF W
    <3>3. BridgeLink(kern', W, m.idx) /\ pc'[Agent] = "addAddrV4"
      BY <2>2, <2>6, <3>2, KeepsBridgeLink DEF AgentReturns
    <3> QED
      BY <2>4, <3>1, <3>3
  <2> QED
    BY <2>3, <2>5, <2>6
<1>3. ~Opened(Agent) /\ ~\E s : Failed(Agent, s)
  <2>1. Opened(Agent) => pc'[Agent] = "spec"
    BY <1>0, OpenedTo
  <2>2. ASSUME NEW s, Failed(Agent, s) PROVE pc'[Agent] \in {"closed", "spec"}
    BY <1>0, <2>2, FailedTo
  <2> QED
    BY <2>1, <2>2
<1>4. pc'[Agent] = pc[Agent] => pc[Agent] \in AgentCalls
  BY DEF AgentCalls
<1> QED
  BY <1>0, <1>c, <1>1, <1>2, <1>3, <1>4, StayStep

\* A bridge that is in the map is there, with its gateway's address.
LEMMA BridgesMadeStep ==
    ASSUME TypeInv, AckIsError, AgentAck, AgentDoes, BridgesMade, [Next]_vars
    PROVE  BridgesMade'
<1>0. Agent \in Callers /\ Types /\ Roles
  BY Who DEF TypeInv
<1> SUFFICES ASSUME NEW b \in Bridges, bridgeIdx'[b] # 0
             PROVE  BridgeLink(kern', b, bridgeIdx'[b]) /\ GatewayThere(kern', b, bridgeIdx'[b])
  BY DEF BridgesMade, GatewayThere, GatewayIP
<1> DEFINE Goal == BridgeLink(kern', b, bridgeIdx'[b]) /\ GatewayThere(kern', b, bridgeIdx'[b])
<1>s. ASSUME bridgeIdx'[b] = bridgeIdx[b] PROVE Goal
  <2>1. BridgeLink(kern, b, bridgeIdx[b]) /\ GatewayThere(kern, b, bridgeIdx[b])
    BY <1>s DEF BridgesMade
  <2> QED
    BY <1>s, <2>1, KeepsBridgeLink, KeepsGateway
<1>1. ASSUME NEW c \in Callers, Opened(c) PROVE Goal
  BY <1>0, <1>1, <1>s, OpenedTo
<1>2. ASSUME NEW c \in Callers, NEW s, Failed(c, s) PROVE Goal
  BY <1>0, <1>2, <1>s, FailedTo
<1>3. ASSUME NEW c \in Callers, NEW i, Returned(c, i) PROVE Goal
  <2>1. CASE bridgeIdx' = bridgeIdx
    BY <1>s, <2>1
  <2>2. CASE bridgeIdx' # bridgeIdx
    <3>1. c = Agent
      BY <1>0, <1>3, <2>2, ReturnedTo
    <3>2. AgentReturns
      BY <1>0, <1>3, <3>1, ReturnedTo
    <3>3. pc[Agent] = "addAddrV4" /\ bridgeIdx' = [bridgeIdx EXCEPT ![Wanted(Agent)] = idx[Agent]]
      BY <2>2, <3>2 DEF AgentReturns, AgentCalls
    <3>4. CASE b = Wanted(Agent)
      <4>1. bridgeIdx'[b] = idx[Agent]
        BY <1>0, <3>3, <3>4 DEF Types
      <4>2. PICK m : m = Head(sock[Agent].queue)[i]
        OBVIOUS
      <4>3. m \in Acks(Agent) /\ ~m.err
        BY <1>0, <1>3, <3>1, <3>3, <4>2, SuccessIsAck DEF AckCalls
      <4>4. GatewayThere(kern, b, idx[Agent]) /\ BridgeLink(kern, b, idx[Agent])
        BY <3>3, <3>4, <4>3 DEF AgentAck, AgentDoes
      <4> QED
        BY <4>1, <4>4, KeepsBridgeLink, KeepsGateway
    <3>5. CASE b # Wanted(Agent)
      BY <1>0, <1>s, <3>3, <3>5 DEF Types
    <3> QED
      BY <3>4, <3>5
  <2> QED
    BY <2>1, <2>2
<1>4. ASSUME NEW c \in Callers, Sending(c) PROVE Goal
  BY <1>4, <1>s, SentStep
<1>5. ASSUME NEW c \in Callers, Skipped(c) PROVE Goal
  BY <1>5, <1>s DEF Skipped
<1>6. ASSUME Phase PROVE Goal
  BY <1>6, <1>s, PhaseTo
<1>7. ASSUME NEW p \in Pods, ContainerEnds(p) PROVE Goal
  BY <1>0, <1>7, <1>s, EndsTo
<1>8. ASSUME Renew \/ UNCHANGED vars PROVE Goal
  BY <1>8, <1>s DEF Renew, vars
<1> HIDE DEF Goal
<1>10. Goal
  BY <1>1, <1>2, <1>3, <1>4, <1>5, <1>6, <1>7, <1>8, Kinds
<1> QED
  BY <1>10 DEF Goal

\* The host's part gives its address to a link that leads to its pod.
LEMMA HostDoesStep ==
    ASSUME TypeInv, MessagesTrue, AckIsError, HostAck, HostDoes, [Next]_vars
    PROVE  HostDoes'
<1> SUFFICES ASSUME NEW p \in Pods, pc'[HostOf(p)] \in {"linkIndexByName", "addAddrV4"}
             PROVE  /\ pc'[HostOf(p)] = "linkIndexByName" => PairLeads(kern', p)
                    /\ pc'[HostOf(p)] = "addAddrV4" =>
                          idx'[HostOf(p)] < kern'.next["node"] /\ Leads(kern', idx'[HostOf(p)], p)
  BY DEF HostDoes
<1> DEFINE c == HostOf(p)
<1>0. c \in Callers /\ Types /\ Roles /\ "node" \in Namespaces /\ Ns(c) = "node" /\ idx[c] \in Nat /\ Wanted(c) = HostName[p]
  BY Who, Where, Asks DEF TypeInv, Types
<1>c. {"linkIndexByName", "addAddrV4"} \subseteq Calls \ {"createBridge"}
  BY DEF Calls, AckCalls, LinkDumps
<1>h. c = HostOf(p)
  OBVIOUS
<1> HIDE DEF c
<1>1. ASSUME pc'[c] = pc[c], idx'[c] = idx[c]
      PROVE  /\ pc'[c] = "linkIndexByName" => PairLeads(kern', p)
             /\ pc'[c] = "addAddrV4" => idx'[c] < kern'.next["node"] /\ Leads(kern', idx'[c], p)
  <2>1. /\ pc[c] = "linkIndexByName" => PairLeads(kern, p)
        /\ pc[c] = "addAddrV4" => idx[c] < kern.next["node"] /\ Leads(kern, idx[c], p)
    BY <1>h DEF HostDoes
  <2>2. pc[c] = "linkIndexByName" => PairLeads(kern', p)
    BY <1>h, <2>1, KeepsPairLeads
  <2>3. pc[c] = "addAddrV4" => idx[c] < kern'.next["node"] /\ Leads(kern', idx[c], p)
    BY <1>0, <2>1, KeepsNames
  <2> QED
    BY <1>1, <2>2, <2>3
<1>2. ASSUME NEW i, Returned(c, i)
      PROVE  /\ pc'[c] = "linkIndexByName" => PairLeads(kern', p)
             /\ pc'[c] = "addAddrV4" => idx'[c] < kern'.next["node"] /\ Leads(kern', idx'[c], p)
  <2>1. PICK m : m = Head(sock[c].queue)[i]
    OBVIOUS
  <2>2. HostReturns(p)
    BY <1>0, <1>2, <1>h, ReturnedTo
  <2>3. pc'[c] = "linkIndexByName" => pc[c] = "createVethPeerNetns"
    BY <1>h, <2>2 DEF HostReturns
  <2>4. pc'[c] = "addAddrV4" => pc[c] = "linkIndexByName"
    BY <1>h, <2>2 DEF HostReturns
  <2>5. ASSUME pc[c] = "createVethPeerNetns" PROVE PairLeads(kern', p)
    <3>1. m \in Acks(c) /\ ~m.err
      BY <1>0, <1>2, <2>1, <2>5, SuccessIsAck DEF AckCalls
    <3>2. PairLeads(kern, p) /\ sock[c].wait # 0
      BY <1>h, <2>5, <3>1 DEF HostAck, Acks
    <3> QED
      BY <1>h, <2>5, <3>2, KeepsPairLeads
  <2>6. ASSUME pc[c] = "linkIndexByName" PROVE idx'[c] < kern'.next["node"] /\ Leads(kern', idx'[c], p)
    <3>1. /\ idx'[c] = m.idx /\ m.idx \in Nat /\ m.idx < kern.next["node"]
          /\ Names(kern, "node", m.idx, HostName[p])
      BY <1>0, <1>2, <2>1, <2>6, SuccessIsLink DEF LinkDumps
    <3>2. PairLeads(kern, p)
      BY <1>h, <2>6 DEF HostDoes
    <3>3. Leads(kern, m.idx, p)
      BY <3>1, <3>2 DEF Names, PairLeads, Leads
    <3> QED
      BY <1>0, <3>1, <3>3, KeepsNames
  <2> QED
    BY <2>3, <2>4, <2>5, <2>6
<1>3. ~Opened(c) /\ ~\E s : Failed(c, s)
  <2>1. Opened(c) => pc'[c] \in {"createVethOnBridge", "createVethPeerNetns"}
    BY <1>0, <1>h, OpenedTo
  <2>2. ASSUME NEW s, Failed(c, s) PROVE pc'[c] = "closed"
    BY <1>0, <1>h, <2>2, FailedTo
  <2> QED
    BY <1>h, <2>1, <2>2
<1> QED
  BY <1>0, <1>c, <1>h, <1>1, <1>2, <1>3, StayStep

\* The lease goes to eth0.
LEMMA LeaseDoesStep ==
    ASSUME TypeInv, MessagesTrue, LeaseDoes, [Next]_vars
    PROVE  LeaseDoes'
<1>0. Lease \in Callers /\ Types /\ Roles /\ "node" \in Namespaces /\ Ns(Lease) = "node" /\ idx[Lease] \in Nat /\ Wanted(Lease) = "eth0"
  BY Who, Where, Asks DEF TypeInv, Types
<1> SUFFICES idx'[Lease] < kern'.next["node"] /\ Names(kern', "node", idx'[Lease], "eth0")
  BY DEF LeaseDoes
<1>1. ASSUME idx'[Lease] = idx[Lease]
      PROVE  idx'[Lease] < kern'.next["node"] /\ Names(kern', "node", idx'[Lease], "eth0")
  BY <1>0, <1>1, KeepsNames DEF LeaseDoes
<1>2. ASSUME NEW i, Returned(Lease, i)
      PROVE  idx'[Lease] < kern'.next["node"] /\ Names(kern', "node", idx'[Lease], "eth0")
  <2>1. PICK m : m = Head(sock[Lease].queue)[i]
    OBVIOUS
  <2>2. CASE pc[Lease] \in LinkDumps
    <3>1. /\ idx'[Lease] = m.idx /\ m.idx \in Nat /\ m.idx < kern.next["node"]
          /\ Names(kern, "node", m.idx, "eth0")
      BY <1>0, <1>2, <2>1, <2>2, SuccessIsLink
    <3> QED
      BY <1>0, <3>1, KeepsNames
  <2>3. CASE pc[Lease] \notin LinkDumps
    <3>1. idx' = idx
      BY <1>0, <1>2, <2>3, ReturnedTo
    <3> QED
      BY <1>1, <3>1
  <2> QED
    BY <2>2, <2>3
<1>3. ASSUME Opened(Lease) PROVE idx' = idx
  BY <1>3 DEF Opened
<1>4. ASSUME NEW s, Failed(Lease, s) PROVE idx' = idx
  BY <1>0, <1>4, FailedTo
<1> QED
  BY <1>0, <1>1, <1>2, <1>3, <1>4, StayStep

\* A route a container read back is the default route by its own gateway.
LEMMA ContDoesStep ==
    ASSUME TypeInv, AckIsError, ContAck, ContDoes, [Next]_vars
    PROVE  ContDoes'
<1>0. Types /\ Roles
  BY DEF TypeInv
<1>g. \A p \in Pods : Gateway(Cont(p))' = Gateway(Cont(p))
  BY DEF Gateway, Cont, Lease, GatewayIP, HostIP
<1> SUFFICES ASSUME NEW p \in Pods
             PROVE  /\ pc'[Cont(p)] = "defaultRouteGateway" => HasRoute(kern', p, idx'[Cont(p)])
                    /\ route'[p] # "none" => pc'[Cont(p)] \in {"up", "gone"}
                    /\ route'[p] = "read back" /\ pc'[Cont(p)] # "gone" => HasRoute(kern', p, idx'[Cont(p)])
  BY <1>g DEF ContDoes, HasRoute
<1> DEFINE Goal == /\ pc'[Cont(p)] = "defaultRouteGateway" => HasRoute(kern', p, idx'[Cont(p)])
                   /\ route'[p] # "none" => pc'[Cont(p)] \in {"up", "gone"}
                   /\ route'[p] = "read back" /\ pc'[Cont(p)] # "gone" => HasRoute(kern', p, idx'[Cont(p)])
<1>w. Cont(p) \in Callers /\ Cont(p) # Agent
  BY Who
<1>a. /\ pc[Cont(p)] = "defaultRouteGateway" => HasRoute(kern, p, idx[Cont(p)])
      /\ route[p] # "none" => pc[Cont(p)] \in {"up", "gone"}
      /\ route[p] = "read back" /\ pc[Cont(p)] # "gone" => HasRoute(kern, p, idx[Cont(p)])
  BY DEF ContDoes
<1>s. ASSUME pc'[Cont(p)] = pc[Cont(p)], idx'[Cont(p)] = idx[Cont(p)], route'[p] = route[p] PROVE Goal
  BY <1>a, <1>s, KeepsRoute
<1>m. ASSUME NEW c \in Callers, Moved(c), c # Cont(p), route'[p] = route[p] PROVE Goal
  BY <1>m, <1>s, <1>w DEF Moved
<1>1. ASSUME NEW c \in Callers, Opened(c) PROVE Goal
  <2>1. CASE c = Cont(p)
    <3>1. pc[c] = "fd5" /\ pc'[c] = "linkIndexByName" /\ route' = route
      BY <1>0, <1>1, <2>1, OpenedTo
    <3> QED
      BY <1>a, <2>1, <3>1
  <2>2. CASE c # Cont(p)
    BY <1>0, <1>1, <1>m, <2>2, OpenedTo
  <2> QED
    BY <2>1, <2>2
<1>2. ASSUME NEW c \in Callers, NEW s, Failed(c, s) PROVE Goal
  <2>1. CASE c = Cont(p)
    <3>1. \/ pc[c] \in {"fd5", "linkIndexByName", "addAddrV4"} /\ pc'[c] = "failed" /\ route' = route
          \/ pc'[c] = "up" /\ route' = [route EXCEPT ![p] = "failed"]
      BY <1>0, <1>2, <2>1, FailedTo
    <3>2. route'[p] = "failed" \/ route'[p] = route[p]
      BY <1>0, <3>1 DEF Types
    <3>3. CASE pc'[c] = "up"
      <4>1. route'[p] = "failed"
        BY <1>0, <3>1, <3>3 DEF Types
      <4> QED
        BY <2>1, <3>3, <4>1
    <3>4. CASE pc[c] \in {"fd5", "linkIndexByName", "addAddrV4"} /\ pc'[c] = "failed" /\ route' = route
      BY <1>a, <2>1, <3>4
    <3> QED
      BY <3>1, <3>3, <3>4
  <2>2. CASE c # Cont(p)
    <3>1. Moved(c)
      BY <1>0, <1>2, FailedTo
    <3>2. ASSUME NEW q \in Pods, c = Cont(q) PROVE route'[p] = route[p]
      <4>1. route' = route \/ route' = [route EXCEPT ![q] = "failed"]
        BY <1>0, <1>2, <3>2, FailedTo
      <4> QED
        BY <1>0, <2>2, <3>2, <4>1 DEF Types
    <3>3. route'[p] = route[p]
      BY <1>0, <1>2, <3>2, FailedTo
    <3> QED
      BY <1>m, <2>2, <3>1, <3>3
  <2> QED
    BY <2>1, <2>2
<1>3. ASSUME NEW c \in Callers, NEW i, Returned(c, i) PROVE Goal
  <2>m. PICK m : m = Head(sock[c].queue)[i]
    OBVIOUS
  <2>i. idx' = IF pc[c] \in LinkDumps THEN [idx EXCEPT ![c] = m.idx] ELSE idx
    BY <1>0, <1>3, <2>m, ReturnedTo
  <2>1. CASE c = Cont(p)
    <3>1. ContReturns(p, m)
      BY <1>0, <1>3, <2>1, <2>m, ReturnedTo
    <3>2. CASE pc[c] = "addDefaultRouteV4"
      <4>1. m \in Acks(c) /\ ~m.err
        BY <1>3, <2>m, <3>2, SuccessIsAck DEF AckCalls
      <4>2. HasRoute(kern, p, idx[c])
        BY <2>1, <3>2, <4>1 DEF ContAck
      <4>3. pc'[c] = "defaultRouteGateway" /\ route' = route
        BY <2>1, <3>1, <3>2 DEF ContReturns
      <4>4. idx' = idx
        BY <2>i, <3>2 DEF LinkDumps
      <4>5. HasRoute(kern', p, idx[c])
        BY <2>1, <4>2, <4>3, KeepsRoute
      <4> QED
        BY <1>a, <2>1, <3>2, <4>3, <4>4, <4>5
    <3>3. CASE pc[c] = "defaultRouteGateway"
      <4>1. pc'[c] = "up"
        BY <2>1, <3>1, <3>3 DEF ContReturns
      <4>2. idx' = idx
        BY <2>i, <3>3 DEF LinkDumps
      <4>3. HasRoute(kern', p, idx[c])
        BY <1>a, <2>1, <3>3, <4>1, KeepsRoute
      <4> QED
        BY <2>1, <4>1, <4>2, <4>3
    <3>4. CASE pc[c] \in {"linkIndexByName", "addAddrV4"}
      <4>1. pc'[c] \in {"addAddrV4", "addDefaultRouteV4"} /\ route' = route
        BY <2>1, <3>1, <3>4 DEF ContReturns
      <4> QED
        BY <1>a, <2>1, <3>4, <4>1
    <3>5. pc[c] \in {"linkIndexByName", "addAddrV4", "addDefaultRouteV4", "defaultRouteGateway"}
      BY <2>1, <3>1 DEF ContReturns
    <3> QED
      BY <3>2, <3>3, <3>4, <3>5
  <2>2. CASE c # Cont(p)
    <3>1. Moved(c)
      BY <1>0, <1>3, ReturnedTo
    <3>2. ASSUME NEW q \in Pods, c = Cont(q) PROVE route'[p] = route[p]
      <4>1. ContReturns(q, m)
        BY <1>0, <1>3, <2>m, <3>2, ReturnedTo
      <4>2. q # p
        BY <2>2, <3>2
      <4> QED
        BY <1>0, <4>1, <4>2 DEF Types, ContReturns
    <3>3. route'[p] = route[p]
      BY <1>0, <1>3, <3>2, ReturnedTo
    <3> QED
      BY <1>m, <2>2, <3>1, <3>3
  <2> QED
    BY <2>1, <2>2
<1>4. ASSUME NEW c \in Callers, Sending(c) PROVE Goal
  BY <1>4, <1>s, SentStep
<1>5. ASSUME NEW c \in Callers, Skipped(c) PROVE Goal
  BY <1>5, <1>s DEF Skipped
<1>6. ASSUME Phase PROVE Goal
  <2>1. UNCHANGED <<idx, route>>
    BY <1>6, PhaseTo
  <2>2. \/ pc'[Cont(p)] = pc[Cont(p)]
        \/ pc[Cont(p)] = "idle" /\ pc'[Cont(p)] = "fd5"
    BY <1>6, PhaseTo
  <2> QED
    BY <1>a, <1>s, <2>1, <2>2
<1>7. ASSUME NEW q \in Pods, ContainerEnds(q) PROVE Goal
  <2>1. /\ pc'[Cont(q)] = "gone" /\ (\A e \in Callers \ {Cont(q)} : pc'[e] = pc[e]) /\ UNCHANGED <<idx, route>>
    BY <1>0, <1>7, EndsTo
  <2> QED
    BY <1>s, <1>w, <2>1
<1>8. ASSUME Renew PROVE Goal
  BY <1>0, <1>8, <1>s, RenewTo, Who
<1>9. ASSUME UNCHANGED vars PROVE Goal
  BY <1>9, <1>s DEF vars
<1> HIDE DEF Goal
<1>10. Goal
  BY <1>1, <1>2, <1>3, <1>4, <1>5, <1>6, <1>7, <1>8, <1>9, Kinds
<1> QED
  BY <1>10 DEF Goal

-----------------------------------------------------------------------------
(* What the calls report, and where the addresses are. *)

\* The tags of the addresses tell them apart.
LEMMA AddressTags ==
    /\ Address(Agent) = GatewayIP(Wanted(Agent))
    /\ Address(Agent)[1] = "gw" /\ Address(Agent)[2] = Wanted(Agent)
    /\ Address(Lease)[1] = "lease"
    /\ \A p \in Pods : Address(HostOf(p))[1] = "host" /\ Address(HostOf(p))[2] = p
  BY Asks DEF GatewayIP, HostIP

\* An address that was just given is on a link of its owner.
LEMMA GivenAddress ==
    ASSUME TypeInv, AgentDoes, HostDoes, LeaseDoes, NEW c \in Callers, GaveAddr(c), Ns(c) = "node"
    PROVE  /\ idx[c] \in Nat /\ idx[c] < kern.next["node"]
           /\ Address(c)[1] = "host" => Leads(kern, idx[c], Address(c)[2])
           /\ Address(c)[1] = "gw" => Names(kern, "node", idx[c], Address(c)[2])
           /\ Address(c)[1] = "lease" => Names(kern, "node", idx[c], "eth0")
<1>0. "node" \in Namespaces /\ \A p \in Pods : p # "node" /\ Ns(Cont(p)) = p
  BY Where
<1>1. pc[c] = "addAddrV4" /\ \E l \in kern.links["node"] : l.idx = idx[c]
  BY DEF GaveAddr, Acked
<1>2. idx[c] \in Nat /\ idx[c] < kern.next["node"]
  BY <1>0, <1>1, LinkTypes
<1>3. CASE c = Agent
  <2>1. BridgeLink(kern, Wanted(Agent), idx[Agent])
    BY <1>1, <1>3 DEF AgentDoes
  <2>2. Names(kern, "node", idx[Agent], Wanted(Agent))
    BY <1>0, <2>1, LinkTypes DEF BridgeLink, Names
  <2> QED
    BY <1>2, <1>3, <2>2, AddressTags
<1>4. CASE c = Lease
  <2>1. Names(kern, "node", idx[Lease], "eth0")
    BY DEF LeaseDoes
  <2> QED
    BY <1>2, <1>4, <2>1, AddressTags
<1>5. ASSUME NEW p \in Pods, c = HostOf(p)
      PROVE  /\ Leads(kern, idx[c], p)
             /\ Address(c)[1] = "host" /\ Address(c)[2] = p
  BY <1>1, <1>5, AddressTags DEF HostDoes
<1>6. \A p \in Pods : c # Cont(p)
  BY <1>0
<1> QED
  BY <1>2, <1>3, <1>4, <1>5, <1>6, Who

\* An address stays on its link, and is given to the link it is for.
LEMMA AddressOwnedStep ==
    ASSUME TypeInv, AgentDoes, HostDoes, LeaseDoes, AddressOwned, [Next]_vars
    PROVE  AddressOwned'
<1>0. "node" \in Namespaces /\ \A p \in Pods : p # "node"
  BY Where
<1> SUFFICES ASSUME NEW a \in kern'.addrs["node"]
             PROVE  /\ a.ip[1] = "host" => Leads(kern', a.idx, a.ip[2])
                    /\ a.ip[1] = "gw" => Names(kern', "node", a.idx, a.ip[2])
                    /\ a.ip[1] = "lease" => Names(kern', "node", a.idx, "eth0")
  BY DEF AddressOwned
<1>1. ASSUME a.idx \in Nat, a.idx < kern.next["node"],
             a.ip[1] = "host" => Leads(kern, a.idx, a.ip[2]),
             a.ip[1] = "gw" => Names(kern, "node", a.idx, a.ip[2]),
             a.ip[1] = "lease" => Names(kern, "node", a.idx, "eth0")
      PROVE  /\ a.ip[1] = "host" => Leads(kern', a.idx, a.ip[2])
             /\ a.ip[1] = "gw" => Names(kern', "node", a.idx, a.ip[2])
             /\ a.ip[1] = "lease" => Names(kern', "node", a.idx, "eth0")
  BY <1>0, <1>1, KeepsNames
<1>2. CASE a \in kern.addrs["node"]
  <2>1. a.idx \in Nat /\ a.idx < kern.next["node"]
    <3>1. kern.addrs["node"] \in SUBSET AddrSet
      BY <1>0, KernelFields
    <3> QED
      BY <1>2, <3>1 DEF AddrSet, TypeInv, Numbered
  <2> QED
    BY <1>1, <1>2, <2>1 DEF AddressOwned
<1>3. ASSUME NEW c \in Callers, GaveAddr(c), Ns(c) = "node", a = [idx |-> idx[c], ip |-> Address(c)]
      PROVE  /\ a.ip[1] = "host" => Leads(kern', a.idx, a.ip[2])
             /\ a.ip[1] = "gw" => Names(kern', "node", a.idx, a.ip[2])
             /\ a.ip[1] = "lease" => Names(kern', "node", a.idx, "eth0")
  <2>1. a.idx = idx[c] /\ a.ip = Address(c)
    BY <1>3
  <2>2. /\ idx[c] \in Nat /\ idx[c] < kern.next["node"]
        /\ Address(c)[1] = "host" => Leads(kern, idx[c], Address(c)[2])
        /\ Address(c)[1] = "gw" => Names(kern, "node", idx[c], Address(c)[2])
        /\ Address(c)[1] = "lease" => Names(kern, "node", idx[c], "eth0")
    BY <1>3, GivenAddress
  <2> QED
    BY <1>1, <2>1, <2>2
<1>4. AddrsTo("node")
  BY <1>0, KernelStep
<1> QED
  BY <1>0, <1>2, <1>3, <1>4 DEF AddrsTo

\* The inductive invariant of what the calls report.
Truth ==
    /\ TypeInv /\ LinkEnds /\ MessagesTrue
    /\ AckIsError /\ AgentAck /\ HostAck /\ ContAck /\ AgentLookup
    /\ AgentDoes /\ BridgesMade /\ HostDoes /\ LeaseDoes /\ ContDoes /\ AddressOwned

\* Truth holds at first and is kept by every step.
LEMMA TruthInit ==
    ASSUME Init
    PROVE  Truth
<1>1. TypeInv
  BY TypeInit
<1>2. /\ pc = [c \in Callers |-> IF c = Lease THEN "open" ELSE "idle"]
      /\ sock = [c \in Callers |-> NewSocket]
      /\ idx = [c \in Callers |-> 0]
      /\ bridgeIdx = [b \in Bridges |-> 0]
      /\ route = [p \in Pods |-> "none"]
  BY DEF Init
<1>3. \A c \in Callers : pc[c] \in {"open", "idle"} /\ sock[c].wait = 0 /\ Unread(sock[c].queue) = {} /\ idx[c] = 0
  BY <1>2, NewSocketFields
<1>4. "node" \in Namespaces /\ \A p \in Pods : p \in Namespaces /\ p # "node"
  BY Where
<1>5. kern.links["node"] = NodeLinks /\ kern.addrs["node"] = {} /\ kern.next["node"] = 3
      /\ \A p \in Pods : kern.links[p] = {Link("lo", 1, 0, "none")}
  BY <1>4 DEF Init
<1>6. LinkEnds /\ LeaseDoes
  <2>1. Link("lo", 1, 0, "none").name = "lo" /\ Link("lo", 1, 0, "none").far = "none"
        /\ Link("lo", 1, 0, "none").idx = 1 /\ Link("lo", 1, 0, "none").master = 0
    BY DEF Link
  <2>2. Link("eth0", 2, 0, "none").name = "eth0" /\ Link("eth0", 2, 0, "none").far = "none"
        /\ Link("eth0", 2, 0, "none").idx = 2 /\ Link("eth0", 2, 0, "none").master = 0
    BY DEF Link
  <2>3. LinkEnds
    BY <1>5, <2>1, <2>2 DEF LinkEnds, NodeLinks
  <2>4. idx[Lease] = 0
    BY <1>3, Who
  <2> QED
    BY <1>5, <2>1, <2>2, <2>3, <2>4 DEF LeaseDoes, Names, NodeLinks
<1>7. MessagesTrue /\ AckIsError /\ AgentAck /\ HostAck /\ ContAck /\ AgentLookup
  BY <1>3, Who DEF MessagesTrue, AckIsError, AgentAck, HostAck, ContAck, AgentLookup, Acks
<1>8. AgentDoes /\ HostDoes /\ ContDoes
  BY <1>2, <1>3, Who DEF AgentDoes, HostDoes, ContDoes
<1>9. BridgesMade /\ AddressOwned
  BY <1>2, <1>5 DEF BridgesMade, AddressOwned
<1> QED
  BY <1>1, <1>6, <1>7, <1>8, <1>9 DEF Truth

LEMMA TruthStep ==
    ASSUME Truth, [Next]_vars
    PROVE  Truth'
<1>1. /\ TypeInv /\ LinkEnds /\ MessagesTrue
      /\ AckIsError /\ AgentAck /\ HostAck /\ ContAck /\ AgentLookup
      /\ AgentDoes /\ BridgesMade /\ HostDoes /\ LeaseDoes /\ ContDoes /\ AddressOwned
  BY DEF Truth
<1>2. TypeInv'
  BY <1>1, RolesStep, TypesStep, TurnsStep, WaitsStep, PhasesStep, FiniteStep, NumberedStep DEF TypeInv
<1>3. LinkEnds' /\ MessagesTrue' /\ AckIsError'
  BY <1>1, LinkEndsStep, MessagesStep, AckIsErrorStep
<1>4. AgentAck' /\ HostAck' /\ ContAck' /\ AgentLookup'
  BY <1>1, AgentAckStep, HostAckStep, ContAckStep, AgentLookupStep
<1>5. AgentDoes' /\ BridgesMade' /\ HostDoes' /\ LeaseDoes'
  BY <1>1, AgentDoesStep, BridgesMadeStep, HostDoesStep, LeaseDoesStep
<1>6. ContDoes' /\ AddressOwned'
  BY <1>1, ContDoesStep, AddressOwnedStep
<1> QED
  BY <1>2, <1>3, <1>4, <1>5, <1>6 DEF Truth

LEMMA TruthAlways == Spec => []Truth
  BY TruthInit, TruthStep, PTL DEF Spec

\* The names, indices and addresses of the node's links fit together, also when
\* two names are the same once they are cut (hostSetupVeth, runBridgedPods).
THEOREM AddressesOnTheirLinks == Spec => []LinksFit
<1>1. ASSUME Truth PROVE LinksFit
  <2>1. TypeInv /\ Types /\ AddressOwned
    BY <1>1 DEF Truth, TypeInv
  <2>2. AddressOnOwnLink
    BY <2>1 DEF AddressOwned, AddressOnOwnLink, Leads, Names
  <2>3. ASSUME NEW c \in Callers
        PROVE  /\ sock[c].wait \in {0, sock[c].seq}
               /\ \A i \in DOMAIN sock[c].queue : \A j \in DOMAIN sock[c].queue[i] :
                     sock[c].queue[i][j] \in Message
    <3>1. sock[c].wait \in {0, sock[c].seq}
      BY <2>1 DEF TypeInv, Waits
    <3>2. sock[c].queue \in Seq(Seq(Message))
      BY <2>1, SocketFields
    <3> QED
      BY <3>1, <3>2
  <2>4. turn \in 1..(Len(Ordinary) + Len(Bridged) + 1)
    <3>1. Ordinary \in Seq(Pods) /\ Bridged \in Seq(Pods)
      BY NetlinkAssumption, Zenon
    <3>2. turn \in Nat \ {0} /\ (turn <= Len(Ordinary) + 1 \/ turn <= Len(Bridged) + 1)
      BY <2>1, Zenon DEF TypeInv, Types, Turns
    <3>3. Len(Ordinary) \in Nat /\ Len(Bridged) \in Nat
      BY <3>1
    <3> QED
      BY <3>2, <3>3
  <2>5. /\ pc \in [Callers -> Places] /\ idx \in [Callers -> Nat] /\ bridgeIdx \in [Bridges -> Nat]
        /\ route \in [Pods -> {"none", "failed", "mismatch", "read back"}]
        /\ renewed \in 0..Renewals /\ faults \in 0..MaxFaults
    BY <2>1 DEF Types
  <2> QED
    BY <2>2, <2>3, <2>4, <2>5, Zenon DEF LinksFit, TypeOK
<1> QED
  BY <1>1, TruthAlways, PTL

\* A bridge in the map has its gateway's address, and a route that a container
\* read back is its default route (recvAck, defaultRouteGateway).
THEOREM ReportsAreTrue == Spec => []ReportedMeansDone
<1>1. ASSUME Truth PROVE ReportedMeansDone
  <2>1. \A b \in Bridges : bridgeIdx[b] # 0 =>
          [idx |-> bridgeIdx[b], ip |-> GatewayIP(b)] \in kern.addrs["node"]
    BY <1>1 DEF Truth, BridgesMade, GatewayThere
  <2>2. ASSUME NEW p \in Pods, route[p] = "read back", Alive(p)
        PROVE  [dst |-> "default", gw |-> Gateway(Cont(p)), idx |-> idx[Cont(p)]] \in kern.routes[p]
    <3>1. pc[Cont(p)] # "gone"
      BY <2>2, Where DEF Alive
    <3>2. HasRoute(kern, p, idx[Cont(p)])
      BY <1>1, <2>2, <3>1 DEF Truth, ContDoes
    <3> QED
      BY <3>2 DEF HasRoute
  <2> QED
    BY <2>1, <2>2 DEF ReportedMeansDone
<1> QED
  BY <1>1, TruthAlways, PTL

-----------------------------------------------------------------------------
(* How the callers move. *)

\* A host part: it is started, it opens its socket, or a call of it returns.
LEMMA HostMoves ==
    ASSUME TypeInv, [Next]_vars, NEW p \in Pods
    PROVE  \/ pc'[HostOf(p)] = pc[HostOf(p)]
           \/ pc[HostOf(p)] = "idle" /\ pc'[HostOf(p)] = "open"
           \/ Opened(HostOf(p)) \/ (\E s : Failed(HostOf(p), s)) \/ (\E i : Returned(HostOf(p), i))
<1>0. Types /\ Roles /\ HostOf(p) \in Callers /\ HostOf(p) # Lease /\ \A q \in Pods : HostOf(p) # Cont(q)
  BY Who DEF TypeInv
<1> DEFINE Same == pc'[HostOf(p)] = pc[HostOf(p)]
           Start == pc[HostOf(p)] = "idle" /\ pc'[HostOf(p)] = "open"
<1>m. ASSUME NEW c \in Callers, Moved(c), c # HostOf(p) PROVE Same
  BY <1>0, <1>m DEF Moved
<1>1. ASSUME NEW c \in Callers, Opened(c), c # HostOf(p) PROVE Same
  BY <1>0, <1>1, <1>m, OpenedTo
<1>2. ASSUME NEW c \in Callers, NEW s, Failed(c, s), c # HostOf(p) PROVE Same
  BY <1>0, <1>2, <1>m, FailedTo
<1>3. ASSUME NEW c \in Callers, NEW i, Returned(c, i), c # HostOf(p) PROVE Same
  BY <1>0, <1>3, <1>m, ReturnedTo
<1>4. ASSUME NEW c \in Callers, Sending(c) \/ Skipped(c) PROVE Same
  BY <1>4, SentStep DEF Skipped
<1>6. ASSUME Phase PROVE Same \/ Start
  BY <1>6, PhaseTo
<1>7. ASSUME NEW q \in Pods, ContainerEnds(q) PROVE Same
  BY <1>0, <1>7, EndsTo
<1>8. ASSUME Renew PROVE Same
  BY <1>0, <1>8, RenewTo
<1>9. ASSUME UNCHANGED vars PROVE Same
  BY <1>9 DEF vars
<1> HIDE DEF Same, Start
<1>10. Same \/ Start \/ Opened(HostOf(p)) \/ (\E s : Failed(HostOf(p), s)) \/ (\E i : Returned(HostOf(p), i))
  BY <1>1, <1>2, <1>3, <1>4, <1>6, <1>7, <1>8, <1>9, Kinds
<1> QED
  BY <1>10 DEF Same, Start

\* A container: it is started, it opens its socket, a call of it returns, it ends.
LEMMA ContMoves ==
    ASSUME TypeInv, [Next]_vars, NEW p \in Pods
    PROVE  \/ /\ pc'[Cont(p)] = pc[Cont(p)] /\ idx'[Cont(p)] = idx[Cont(p)] /\ route'[p] = route[p]
              /\ sock[Cont(p)].wait # 0 => sock'[Cont(p)].wait # 0
           \/ pc[Cont(p)] = "idle" /\ pc'[Cont(p)] = "fd5" /\ pc'[HostOf(p)] = "open"
           \/ Opened(Cont(p)) \/ (\E s : Failed(Cont(p), s)) \/ (\E i : Returned(Cont(p), i))
           \/ ContainerEnds(p)
<1>0. Types /\ Roles /\ Cont(p) \in Callers /\ Cont(p) # Lease /\ \A q \in Pods : Cont(p) = Cont(q) => p = q
  BY Who DEF TypeInv
<1> DEFINE Same == /\ pc'[Cont(p)] = pc[Cont(p)] /\ idx'[Cont(p)] = idx[Cont(p)] /\ route'[p] = route[p]
                   /\ sock[Cont(p)].wait # 0 => sock'[Cont(p)].wait # 0
           Start == pc[Cont(p)] = "idle" /\ pc'[Cont(p)] = "fd5" /\ pc'[HostOf(p)] = "open"
<1>m. ASSUME NEW c \in Callers, Moved(c), c # Cont(p), route'[p] = route[p] PROVE Same
  BY <1>0, <1>m DEF Moved
<1>1. ASSUME NEW c \in Callers, Opened(c), c # Cont(p) PROVE Same
  BY <1>0, <1>1, <1>m, OpenedTo
<1>2. ASSUME NEW c \in Callers, NEW s, Failed(c, s), c # Cont(p) PROVE Same
  <2>1. Moved(c)
    BY <1>0, <1>2, FailedTo
  <2>2. ASSUME NEW q \in Pods, c = Cont(q) PROVE route'[p] = route[p]
    <3>1. route' = route \/ route' = [route EXCEPT ![q] = "failed"]
      BY <1>0, <1>2, <2>2, FailedTo
    <3> QED
      BY <1>0, <1>2, <2>2, <3>1 DEF Types
  <2>3. route'[p] = route[p]
    BY <1>0, <1>2, <2>2, FailedTo
  <2> QED
    BY <1>2, <1>m, <2>1, <2>3
<1>3. ASSUME NEW c \in Callers, NEW i, Returned(c, i), c # Cont(p) PROVE Same
  <2>m. PICK m : m = Head(sock[c].queue)[i]
    OBVIOUS
  <2>1. Moved(c)
    BY <1>0, <1>3, ReturnedTo
  <2>2. ASSUME NEW q \in Pods, c = Cont(q) PROVE route'[p] = route[p]
    <3>1. ContReturns(q, m)
      BY <1>0, <1>3, <2>m, <2>2, ReturnedTo
    <3>2. q # p
      BY <1>3, <2>2
    <3> QED
      BY <1>0, <3>1, <3>2 DEF Types, ContReturns
  <2>3. route'[p] = route[p]
    BY <1>0, <1>3, <2>2, ReturnedTo
  <2> QED
    BY <1>3, <1>m, <2>1, <2>3
<1>4. ASSUME NEW c \in Callers, Sending(c) PROVE Same
  BY <1>0, <1>4, SentStep
<1>5. ASSUME NEW c \in Callers, Skipped(c) PROVE Same
  BY <1>0, <1>5, SkippedTo
<1>6. ASSUME Phase PROVE Same \/ Start
  BY <1>6, PhaseTo
<1>7. ASSUME NEW q \in Pods, ContainerEnds(q), q # p PROVE Same
  BY <1>0, <1>7, EndsTo
<1>8. ASSUME Renew PROVE Same
  BY <1>0, <1>8, RenewTo
<1>9. ASSUME UNCHANGED vars PROVE Same
  BY <1>9 DEF vars
<1> HIDE DEF Same, Start
<1>10. \/ Same \/ Start \/ Opened(Cont(p)) \/ (\E s : Failed(Cont(p), s)) \/ (\E i : Returned(Cont(p), i))
       \/ ContainerEnds(p)
  BY <1>1, <1>2, <1>3, <1>4, <1>5, <1>6, <1>7, <1>8, <1>9, Kinds
<1> QED
  BY <1>10 DEF Same, Start

\* The agent: it goes on in its loops, it opens its socket, or a call of it returns.
LEMMA AgentMoves ==
    ASSUME TypeInv, [Next]_vars
    PROVE  \/ /\ pc'[Agent] = pc[Agent] /\ idx'[Agent] = idx[Agent] /\ turn' = turn /\ bridgeIdx' = bridgeIdx
              /\ sock[Agent].wait # 0 => sock'[Agent].wait # 0
           \/ Phase
           \/ Opened(Agent) \/ (\E s : Failed(Agent, s)) \/ (\E i : Returned(Agent, i))
<1>0. Types /\ Roles /\ Agent \in Callers /\ Agent # Lease /\ \A q \in Pods : Agent # Cont(q)
  BY Who DEF TypeInv
<1> DEFINE Same == /\ pc'[Agent] = pc[Agent] /\ idx'[Agent] = idx[Agent] /\ turn' = turn /\ bridgeIdx' = bridgeIdx
                   /\ sock[Agent].wait # 0 => sock'[Agent].wait # 0
<1>m. ASSUME NEW c \in Callers, Moved(c), c # Agent, UNCHANGED <<turn, bridgeIdx>> PROVE Same
  BY <1>0, <1>m DEF Moved
<1>1. ASSUME NEW c \in Callers, Opened(c), c # Agent PROVE Same
  BY <1>0, <1>1, <1>m, OpenedTo
<1>2. ASSUME NEW c \in Callers, NEW s, Failed(c, s), c # Agent PROVE Same
  BY <1>0, <1>2, <1>m, FailedTo
<1>3. ASSUME NEW c \in Callers, NEW i, Returned(c, i), c # Agent PROVE Same
  BY <1>0, <1>3, <1>m, ReturnedTo
<1>4. ASSUME NEW c \in Callers, Sending(c) PROVE Same
  BY <1>0, <1>4, SentStep
<1>5. ASSUME NEW c \in Callers, Skipped(c) PROVE Same
  BY <1>0, <1>5, SkippedTo
<1>7. ASSUME NEW q \in Pods, ContainerEnds(q) PROVE Same
  BY <1>0, <1>7, EndsTo
<1>8. ASSUME Renew PROVE Same
  BY <1>0, <1>8, RenewTo
<1>9. ASSUME UNCHANGED vars PROVE Same
  BY <1>9 DEF vars
<1> HIDE DEF Same
<1>10. Same \/ Phase \/ Opened(Agent) \/ (\E s : Failed(Agent, s)) \/ (\E i : Returned(Agent, i))
  BY <1>1, <1>2, <1>3, <1>4, <1>5, <1>7, <1>8, <1>9, Kinds
<1> QED
  BY <1>10 DEF Same

-----------------------------------------------------------------------------
(* What a container reads. *)

\* The links of a pod's namespace stay until the container ends.
LEMMA KeepsPodLinks ==
    ASSUME TypeInv, [Next]_vars, NEW p \in Pods, pc'[Cont(p)] # "gone"
    PROVE  /\ kern.links[p] \subseteq kern'.links[p]
           /\ HasEth0(kern, p) => HasEth0(kern', p)
           /\ \A i : HasIdx(kern, p, i) => HasIdx(kern', p, i)
<1>0. p \in Namespaces /\ p # "node"
  BY Where
<1>1. LinksTo(p)
  BY <1>0, KernelStep
<1>2. ~ContainerEnds(p)
  BY EndsTo DEF TypeInv
<1>3. kern.links[p] \subseteq kern'.links[p]
  BY <1>0, <1>1, <1>2 DEF LinksTo
<1> QED
  BY <1>3 DEF HasEth0, HasIdx

\* A link a container reads of is there, and a default route is by its gateway.
LEMMA ContMessagesStep ==
    ASSUME TypeInv, ContMessages, ContState, [Next]_vars
    PROVE  ContMessages'
<1>g. \A p \in Pods : Gateway(Cont(p))' = Gateway(Cont(p))
  BY DEF Gateway, Cont, Lease, GatewayIP, HostIP
<1> SUFFICES ASSUME NEW p \in Pods, NEW m \in Unread(sock'[Cont(p)].queue)
             PROVE  /\ pc'[Cont(p)] # "gone"
                    /\ m.type = "NEWLINK" => HasIdx(kern', p, m.idx)
                    /\ m.type = "NEWROUTE" /\ m.dst = "default" => m.gw = Gateway(Cont(p))
  BY <1>g DEF ContMessages, ContMessage
<1>0. Cont(p) \in Callers /\ Ns(Cont(p)) = p /\ p \in Namespaces
  BY Who, Where
<1>1. pc'[Cont(p)] # "gone"
  <2>0. Types /\ Roles
    BY DEF TypeInv
  <2>1. ~ContainerEnds(p)
    BY <2>0, EndsTo, NewSocketFields
  <2>2. pc[Cont(p)] # "gone"
    <3>1. CASE m \in Unread(sock[Cont(p)].queue)
      BY <3>1 DEF ContMessages, ContMessage
    <3>2. CASE Sending(Cont(p))
      BY <1>0, <3>2, SentStep DEF Calls, AckCalls, LinkDumps
    <3> QED
      BY <1>0, <3>1, <3>2, QueueStep
  <2>3. Opened(Cont(p)) => pc'[Cont(p)] = "linkIndexByName"
    BY <1>0, <2>0, OpenedTo
  <2>4. ASSUME NEW s, Failed(Cont(p), s) PROVE pc'[Cont(p)] \in {"up", "failed"}
    BY <1>0, <2>0, <2>4, FailedTo
  <2>5. ASSUME NEW i, Returned(Cont(p), i) PROVE pc'[Cont(p)] # "gone"
    <3>1. ContReturns(p, Head(sock[Cont(p)].queue)[i])
      BY <1>0, <2>0, <2>5, ReturnedTo
    <3> QED
      BY <3>1 DEF ContReturns
  <2> QED
    BY <2>1, <2>2, <2>3, <2>4, <2>5, ContMoves
<1>2. CASE m \in Unread(sock[Cont(p)].queue)
  BY <1>1, <1>2, KeepsPodLinks DEF ContMessages, ContMessage
<1>3. CASE Sending(Cont(p)) /\ Answer(Cont(p), m)
  <2>1. m.type = "NEWLINK" => HasIdx(kern, p, m.idx)
    BY <1>0, <1>3 DEF Answer, DumpAnswer, HasIdx
  <2>2. ASSUME m.type = "NEWROUTE", m.dst = "default" PROVE m.gw = Gateway(Cont(p))
    <3>1. PICK r \in kern.routes[p] : m.dst = r.dst /\ m.gw = r.gw
      BY <1>0, <1>3, <2>2 DEF Answer, DumpAnswer
    <3> QED
      BY <2>2, <3>1 DEF ContState
  <2> QED
    BY <1>1, <2>1, <2>2, KeepsPodLinks
<1> QED
  BY <1>0, <1>2, <1>3, QueueStep

\* A container has the index of a link of its own, and adds a default route once.
LEMMA ContStateStep ==
    ASSUME TypeInv, MessagesTrue, ContMessages, ContState, [Next]_vars
    PROVE  ContState'
<1>g. \A p \in Pods : Gateway(Cont(p))' = Gateway(Cont(p))
  BY DEF Gateway, Cont, Lease, GatewayIP, HostIP
<1> DEFINE Set == {"addAddrV4", "addDefaultRouteV4", "defaultRouteGateway"}
           End == {"addDefaultRouteV4", "defaultRouteGateway", "up"}
<1> SUFFICES ASSUME NEW p \in Pods
             PROVE  /\ pc'[Cont(p)] \in Set => HasIdx(kern', p, idx'[Cont(p)])
                    /\ \A r \in kern'.routes[p] : r.dst = "default" =>
                          /\ r.gw = Gateway(Cont(p))
                          /\ pc'[Cont(p)] \in End
                          /\ pc'[Cont(p)] = "addDefaultRouteV4" => sock'[Cont(p)].wait # 0
  BY <1>g DEF ContState
<1>c. PICK c : c = Cont(p)
  OBVIOUS
<1>0. c \in Callers /\ Ns(c) = p /\ p \in Namespaces /\ Types /\ Roles /\ Cont(p) = c /\ p # "node"
  BY <1>c, Who, Where DEF TypeInv
<1>a. /\ pc[c] \in Set => HasIdx(kern, p, idx[c])
      /\ \A r \in kern.routes[p] : r.dst = "default" =>
            /\ r.gw = Gateway(c)
            /\ pc[c] \in End
            /\ pc[c] = "addDefaultRouteV4" => sock[c].wait # 0
  BY <1>c DEF ContState
<1>r. ASSUME NEW r \in kern'.routes[p], r.dst = "default", r \notin kern.routes[p]
      PROVE  GaveRoute(c) /\ r.gw = Gateway(c)
  <2>1. RoutesTo(p)
    BY <1>0, KernelStep
  <2>2. PICK d \in Callers : GaveRoute(d) /\ p = Ns(d) /\ r = [dst |-> "default", gw |-> Gateway(d), idx |-> idx[d]]
    BY <1>r, <2>1 DEF RoutesTo
  <2>3. d = c
    <3>1. Ns(Agent) = "node" /\ Ns(Lease) = "node" /\ \A q \in Pods : Ns(HostOf(q)) = "node" /\ Ns(Cont(q)) = q
      BY Where
    <3> QED
      BY <1>0, <2>2, <3>1, Who
  <2> QED
    BY <2>2, <2>3
<1>s. ASSUME pc'[c] = pc[c], idx'[c] = idx[c], sock[c].wait # 0 => sock'[c].wait # 0
      PROVE  /\ pc'[c] \in Set => HasIdx(kern', p, idx'[c])
             /\ \A r \in kern'.routes[p] : r.dst = "default" =>
                   /\ r.gw = Gateway(c)
                   /\ pc'[c] \in End
                   /\ pc'[c] = "addDefaultRouteV4" => sock'[c].wait # 0
  <2>1. pc'[c] \in Set => HasIdx(kern', p, idx'[c])
    BY <1>0, <1>a, <1>s, KeepsPodLinks
  <2>2. ASSUME NEW r \in kern'.routes[p], r.dst = "default"
        PROVE  r.gw = Gateway(c) /\ pc'[c] \in End /\ (pc'[c] = "addDefaultRouteV4" => sock'[c].wait # 0)
    <3>1. CASE r \in kern.routes[p]
      BY <1>a, <1>s, <2>2, <3>1
    <3>2. CASE r \notin kern.routes[p]
      <4>1. GaveRoute(c) /\ r.gw = Gateway(c)
        BY <1>r, <2>2, <3>2
      <4>2. pc[c] = "addDefaultRouteV4" /\ Sending(c)
        BY <4>1 DEF GaveRoute, Acked, Sending
      <4>3. sock'[c].wait = Sent(c) /\ Sent(c) = sock[c].seq + 1 /\ sock[c].seq \in Nat
        BY <1>0, <4>2, SentStep
      <4> QED
        BY <1>s, <4>1, <4>2, <4>3
    <3> QED
      BY <3>1, <3>2
  <2> QED
    BY <2>1, <2>2
<1>m. ASSUME ~Sending(c), pc[c] \in End => pc'[c] \in End, pc'[c] = "addDefaultRouteV4" => pc[c] \notin End
      PROVE  \A r \in kern'.routes[p] : r.dst = "default" =>
                   /\ r.gw = Gateway(c)
                   /\ pc'[c] \in End
                   /\ pc'[c] = "addDefaultRouteV4" => sock'[c].wait # 0
  <2>1. ~GaveRoute(c)
    BY <1>m DEF Sending
  <2> QED
    BY <1>a, <1>m, <1>r, <2>1
<1>n. ASSUME Moved(c) PROVE ~Sending(c)
  <2>1. Sending(c) => sock'[c].wait = Sent(c) /\ Sent(c) = sock[c].seq + 1 /\ sock[c].seq \in Nat
    BY <1>0, SentStep
  <2> QED
    BY <1>n, <2>1 DEF Moved
<1> DEFINE Goal == /\ pc'[c] \in Set => HasIdx(kern', p, idx'[c])
                   /\ \A r \in kern'.routes[p] : r.dst = "default" =>
                         /\ r.gw = Gateway(c)
                         /\ pc'[c] \in End
                         /\ pc'[c] = "addDefaultRouteV4" => sock'[c].wait # 0
<1>1. ASSUME pc[c] = "idle", pc'[c] = "fd5" PROVE Goal
  <2>1. ~Sending(c)
    BY <1>0, <1>1, SentStep
  <2> QED
    BY <1>1, <1>m, <2>1
<1>2. ASSUME Opened(c) PROVE Goal
  <2>1. Moved(c) /\ pc[c] = "fd5" /\ pc'[c] = "linkIndexByName"
    BY <1>0, <1>2, OpenedTo
  <2> QED
    BY <1>m, <1>n, <2>1
<1>3. ASSUME NEW s, Failed(c, s) PROVE Goal
  <2>1. Moved(c) /\ (pc[c] \in {"fd5", "linkIndexByName", "addAddrV4"} => pc'[c] = "failed")
        /\ (pc[c] \notin {"fd5", "linkIndexByName", "addAddrV4"} => pc'[c] = "up")
    BY <1>0, <1>3, FailedTo
  <2> QED
    BY <1>m, <1>n, <2>1
<1>4. ASSUME NEW i, Returned(c, i) PROVE Goal
  <2>m. PICK m : m = Head(sock[c].queue)[i]
    OBVIOUS
  <2>1. Moved(c) /\ ContReturns(p, m) /\ idx' = IF pc[c] \in LinkDumps THEN [idx EXCEPT ![c] = m.idx] ELSE idx
    BY <1>0, <1>4, <2>m, ReturnedTo
  <2>2. /\ pc[c] \in {"linkIndexByName", "addAddrV4", "addDefaultRouteV4", "defaultRouteGateway"}
        /\ pc[c] = "linkIndexByName" => pc'[c] = "addAddrV4"
        /\ pc[c] = "addAddrV4" => pc'[c] = "addDefaultRouteV4"
        /\ pc[c] = "addDefaultRouteV4" => pc'[c] = "defaultRouteGateway"
        /\ pc[c] = "defaultRouteGateway" => pc'[c] = "up"
    BY <1>c, <2>1 DEF ContReturns
  <2>3. /\ pc[c] \in End => pc'[c] \in End
        /\ pc'[c] = "addDefaultRouteV4" => pc[c] \notin End
        /\ pc'[c] # "gone"
    BY <2>2
  <2>4. ASSUME pc'[c] \in Set PROVE HasIdx(kern, p, idx'[c])
    <3>1. CASE pc[c] = "linkIndexByName"
      <4>1. m.type = "NEWLINK" /\ m \in Unread(sock[c].queue) /\ idx'[c] = m.idx
        BY <1>0, <1>4, <2>m, <3>1, SuccessIsLink DEF LinkDumps
      <4> QED
        BY <1>c, <4>1 DEF ContMessages, ContMessage
    <3>2. CASE pc[c] # "linkIndexByName"
      <4>1. idx' = idx
        BY <2>1, <2>2, <3>2 DEF LinkDumps
      <4> QED
        BY <1>a, <2>2, <2>4, <3>2, <4>1
    <3> QED
      BY <3>1, <3>2
  <2>5. pc'[c] \in Set => HasIdx(kern', p, idx'[c])
    BY <1>0, <2>3, <2>4, KeepsPodLinks
  <2> QED
    BY <1>m, <1>n, <2>1, <2>3, <2>5
<1>5. ASSUME ContainerEnds(p) PROVE Goal
  <2>1. pc'[c] = "gone" /\ kern' = WithoutPod(p) /\ kern \in Kernels
    BY <1>0, <1>5, EndsTo DEF Types
  <2>2. kern'.routes[p] = {}
    BY <1>0, <2>1, WithoutPodFields
  <2> QED
    BY <2>1, <2>2
<1> HIDE DEF Goal
<1>10. Goal
  <2>1. CASE pc'[c] = pc[c] /\ idx'[c] = idx[c] /\ (sock[c].wait # 0 => sock'[c].wait # 0)
    BY <1>s, <2>1 DEF Goal
  <2> QED
    BY <1>c, <1>1, <1>2, <1>3, <1>4, <1>5, <2>1, ContMoves
<1> QED
  BY <1>c, <1>10 DEF Goal

-----------------------------------------------------------------------------
(* A lookup finds what is there. *)

\* A message that is skipped was not what the lookup waits for.
LEMMA FindsTail ==
    ASSUME NEW M, NEW q \in Seq(Seq(M)), q # <<>>, NEW w, NEW call, NEW name,
           Finds(q, w, call, name), \A i \in DOMAIN Head(q) : ~EndsFor(w, call, name, Head(q)[i])
    PROVE  Finds(Tail(q), w, call, name)
<1>1. PICK i \in DOMAIN q : \E j \in DOMAIN q[i] :
        /\ EndsFor(w, call, name, q[i][j]) /\ Hit(q[i][j])
        /\ \A k \in 1..i : \A n \in DOMAIN q[k] :
              (k < i \/ n < j) /\ EndsFor(w, call, name, q[k][n]) => Hit(q[k][n])
  BY DEF Finds
<1>2. PICK j \in DOMAIN q[i] :
        /\ EndsFor(w, call, name, q[i][j]) /\ Hit(q[i][j])
        /\ \A k \in 1..i : \A n \in DOMAIN q[k] :
              (k < i \/ n < j) /\ EndsFor(w, call, name, q[k][n]) => Hit(q[k][n])
  BY <1>1
<1>3. Head(q) = q[1] /\ i \in 1..Len(q) /\ Len(q) \in Nat
  OBVIOUS
<1>4. i # 1
  BY <1>2, <1>3
<1>5. Tail(q) \in Seq(Seq(M)) /\ Len(Tail(q)) = Len(q) - 1 /\ \A k \in 1..(Len(q) - 1) : Tail(q)[k] = q[k + 1]
  OBVIOUS
<1>6. DOMAIN Tail(q) = 1..(Len(q) - 1)
  BY <1>3, <1>5
<1>7. i - 1 \in DOMAIN Tail(q) /\ Tail(q)[i - 1] = q[i]
  BY <1>3, <1>4, <1>5, <1>6
<1>8. ASSUME NEW k \in 1..(i - 1), NEW n \in DOMAIN Tail(q)[k], k < i - 1 \/ n < j,
             EndsFor(w, call, name, Tail(q)[k][n])
      PROVE  Hit(Tail(q)[k][n])
  <2>1. k + 1 \in 1..i /\ Tail(q)[k] = q[k + 1] /\ (k + 1 < i \/ n < j)
    BY <1>3, <1>5, <1>8
  <2> QED
    BY <1>2, <1>8, <2>1
<1> QED
  BY <1>2, <1>7, <1>8 DEF Finds

\* The first message that ends the lookup is what it looks for.
LEMMA FindsFirst ==
    ASSUME NEW M, NEW q \in Seq(Seq(M)), q # <<>>, NEW w, NEW call, NEW name,
           Finds(q, w, call, name), NEW i \in DOMAIN Head(q), EndsFor(w, call, name, Head(q)[i]),
           \A j \in DOMAIN Head(q) : EndsFor(w, call, name, Head(q)[j]) => i <= j
    PROVE  Hit(Head(q)[i])
<1>1. PICK g \in DOMAIN q : \E j \in DOMAIN q[g] :
        /\ EndsFor(w, call, name, q[g][j]) /\ Hit(q[g][j])
        /\ \A k \in 1..g : \A n \in DOMAIN q[k] :
              (k < g \/ n < j) /\ EndsFor(w, call, name, q[k][n]) => Hit(q[k][n])
  BY DEF Finds
<1>2. PICK j \in DOMAIN q[g] :
        /\ EndsFor(w, call, name, q[g][j]) /\ Hit(q[g][j])
        /\ \A k \in 1..g : \A n \in DOMAIN q[k] :
              (k < g \/ n < j) /\ EndsFor(w, call, name, q[k][n]) => Hit(q[k][n])
  BY <1>1
<1>3. Head(q) = q[1] /\ 1 \in 1..g /\ (g = 1 \/ 1 < g) /\ Head(q) \in Seq(M)
  OBVIOUS
<1>4. DOMAIN Head(q) = 1..Len(Head(q)) /\ Len(Head(q)) \in Nat
  BY <1>3
<1>5. CASE g = 1
  <2>1. i <= j /\ j \in DOMAIN Head(q)
    BY <1>2, <1>3, <1>5
  <2>2. i < j \/ i = j
    BY <1>4, <2>1
  <2> QED
    BY <1>2, <1>3, <1>5, <2>2
<1>6. CASE 1 < g
  BY <1>2, <1>3, <1>6
<1> QED
  BY <1>3, <1>5, <1>6

\* A dump that has the record answers the lookup, behind answers to earlier requests.
LEMMA FindsSent ==
    ASSUME NEW M, NEW q \in Seq(Seq(M)), NEW d \in Seq(M), NEW e \in M, NEW ds \in Datagrams(Append(d, e)),
           NEW w, NEW call, NEW name,
           \A m \in Unread(q) : ~EndsFor(w, call, name, m),
           \A i \in DOMAIN d : Hit(d[i]),
           NEW j \in DOMAIN d, EndsFor(w, call, name, d[j])
    PROVE  Finds(q \o ds, w, call, name)
<1> DEFINE a == Append(d, e) u == q \o ds
<1>0. Len(q) \in Nat /\ Len(d) \in Nat /\ DOMAIN q = 1..Len(q) /\ DOMAIN d = 1..Len(d)
  OBVIOUS
<1>1. /\ a \in Seq(M) /\ DOMAIN a = 1..(Len(d) + 1) /\ Len(a) = Len(d) + 1
      /\ \A i \in DOMAIN d : i \in DOMAIN a /\ a[i] = d[i]
  BY <1>0
<1>d. ds \in Datagrams(a)
  OBVIOUS
<1> HIDE DEF a
<1>2. ds \in Seq(Seq(M))
  BY <1>1, <1>d, UnreadDatagrams
<1>3. /\ u \in Seq(Seq(M)) /\ Len(u) = Len(q) + Len(ds) /\ Len(ds) \in Nat
      /\ \A k \in 1..Len(q) : u[k] = q[k]
      /\ \A k \in 1..Len(ds) : u[Len(q) + k] = ds[k]
  BY <1>2
<1> HIDE DEF u
<1>4. DOMAIN u = 1..(Len(q) + Len(ds))
  BY <1>3
<1>5. ASSUME NEW k \in 1..Len(q), NEW n \in DOMAIN u[k] PROVE ~EndsFor(w, call, name, u[k][n])
  <2>1. u[k] = q[k] /\ k \in DOMAIN q /\ n \in DOMAIN q[k]
    BY <1>0, <1>3, <1>5
  <2>2. q[k][n] \in Unread(q)
    BY <2>1, UnreadMember
  <2> QED
    BY <2>1, <2>2
<1>6. CASE ds = <<a>>
  <2> DEFINE i == Len(q) + 1
  <2>1. Len(ds) = 1 /\ ds[1] = a
    BY <1>6
  <2>2. i \in DOMAIN u /\ u[i] = a
    BY <1>0, <1>3, <1>4, <2>1
  <2>3. j \in DOMAIN u[i] /\ EndsFor(w, call, name, u[i][j]) /\ Hit(u[i][j])
    BY <1>1, <2>2
  <2>4. ASSUME NEW k \in 1..i, NEW n \in DOMAIN u[k], k < i \/ n < j, EndsFor(w, call, name, u[k][n])
        PROVE  Hit(u[k][n])
    <3>1. k = i
      <4>1. k \notin 1..Len(q)
        BY <1>5, <2>4
      <4> QED
        BY <1>0, <4>1
    <3>2. u[k] = a /\ n < j /\ n \in 1..(Len(d) + 1)
      BY <1>0, <1>1, <2>2, <2>4, <3>1
    <3>3. n \in DOMAIN d
      BY <1>0, <3>2
    <3> QED
      BY <1>1, <3>2, <3>3
  <2> HIDE DEF i
  <2> QED
    BY <2>2, <2>3, <2>4 DEF Finds, u
<1>7. CASE ds = [k \in DOMAIN a |-> <<a[k]>>]
  <2> DEFINE i == Len(q) + j
  <2>1. DOMAIN ds = 1..(Len(d) + 1) /\ \A k \in 1..(Len(d) + 1) : ds[k] = <<a[k]>>
    BY <1>1, <1>7
  <2>2. Len(ds) = Len(d) + 1
    BY <1>0, <1>2, <2>1
  <2>3. \A k \in 1..(Len(d) + 1) : u[Len(q) + k] = <<a[k]>>
    BY <1>3, <2>1, <2>2
  <2>4. j \in 1..(Len(d) + 1) /\ a[j] = d[j]
    BY <1>0, <1>1
  <2>5. i \in DOMAIN u /\ u[i] = <<d[j]>>
    BY <1>0, <1>4, <2>2, <2>3, <2>4
  <2>6. 1 \in DOMAIN u[i] /\ EndsFor(w, call, name, u[i][1]) /\ Hit(u[i][1])
    BY <2>5
  <2>7. ASSUME NEW k \in 1..i, NEW n \in DOMAIN u[k], k < i \/ n < 1, EndsFor(w, call, name, u[k][n])
        PROVE  Hit(u[k][n])
    <3>1. k \notin 1..Len(q)
      BY <1>5, <2>7
    <3>2. k - Len(q) \in 1..j /\ k = Len(q) + (k - Len(q))
      BY <1>0, <3>1
    <3>3. PICK h \in 1..j : k = Len(q) + h
      BY <3>2
    <3>4. h \in DOMAIN d /\ h \in 1..(Len(d) + 1)
      BY <1>0
    <3>5. u[k] = <<d[h]>>
      BY <1>1, <2>3, <3>3, <3>4
    <3> QED
      BY <3>4, <3>5
  <2> HIDE DEF i
  <2> QED
    BY <2>5, <2>6, <2>7 DEF Finds, u
<1> QED
  BY <1>d, <1>6, <1>7 DEF Datagrams

\* The loop's condition and the one on queues are the same.
LEMMA EndsIsFor ==
    ASSUME NEW c, NEW m
    PROVE  Ends(c, m) <=> EndsFor(sock[c].wait, pc[c], Wanted(c), m)
  BY DEF Ends, EndsFor

\* A lookup that has its record in the queue returns it.
LEMMA FoundFirst ==
    ASSUME TypeInv, NEW c \in Callers, NEW i, First(c, i), Found(c)
    PROVE  Hit(Head(sock[c].queue)[i])
<1>1. sock[c].queue \in Seq(Seq(Message))
  BY SocketFields DEF TypeInv
<1>2. /\ sock[c].queue # <<>> /\ i \in DOMAIN Head(sock[c].queue)
      /\ EndsFor(sock[c].wait, pc[c], Wanted(c), Head(sock[c].queue)[i])
      /\ \A j \in DOMAIN Head(sock[c].queue) :
            EndsFor(sock[c].wait, pc[c], Wanted(c), Head(sock[c].queue)[j]) => i <= j
  BY EndsIsFor DEF First
<1> QED
  BY <1>1, <1>2, FindsFirst DEF Found

\* A dump just sent has the record the lookup wants, when the kernel has it.
LEMMA FoundSent ==
    ASSUME TypeInv, MessagesTrue, NEW c \in Callers, Dumped(c),
           \/ pc[c] \in LinkDumps /\ \E l \in kern.links[Ns(c)] : l.master = 0 /\ l.name = Wanted(c)
           \/ pc[c] = "defaultRouteGateway" /\ \E r \in kern.routes[Ns(c)] : r.dst = "default"
    PROVE  Finds(sock'[c].queue, sock'[c].wait, pc[c], Wanted(c))
<1> DEFINE d == DumpOf(c) e == Msg(Sent(c), "DONE")
<1>1. PICK ds \in Datagrams(Append(d, e)) : Sends(c, ds)
  BY SendsEach
<1>2. /\ sock'[c].queue = sock[c].queue \o ds /\ sock'[c].wait = Sent(c)
      /\ Sent(c) \in Nat /\ Sent(c) = sock[c].seq + 1 /\ sock[c].seq \in Nat
  BY <1>1, SendsFields
<1>3. sock[c].queue \in Seq(Seq(Message)) /\ d \in Seq(Message) /\ e \in Message
  BY <1>1, <1>2, SocketFields, DumpType, MsgFields DEF TypeInv
<1>4. ASSUME NEW m \in Unread(sock[c].queue) PROVE ~EndsFor(Sent(c), pc[c], Wanted(c), m)
  <2>1. m.seq <= sock[c].seq
    BY DEF MessagesTrue, MessageTrue
  <2>2. m.seq # Sent(c)
    BY <1>2, <2>1
  <2> QED
    BY <2>2 DEF EndsFor
<1>n. Ns(c) \in Namespaces
  BY Where
<1>5. CASE pc[c] \in LinkDumps /\ \E l \in kern.links[Ns(c)] : l.master = 0 /\ l.name = Wanted(c)
  <2>0. d = LinkDump(c)
    BY <1>5 DEF DumpOf, LinkDumps
  <2>1. PICK l \in kern.links[Ns(c)] : l.master = 0 /\ l.name = Wanted(c)
    BY <1>5
  <2>2. \A k \in kern.links[Ns(c)] : k \in LinkSet
    BY <1>n, KernelFields
  <2> HIDE DEF d
  <2>3. \A k \in DOMAIN d : Hit(d[k])
    <3>1. ASSUME NEW k \in DOMAIN d PROVE Hit(d[k])
      <4>1. PICK x \in kern.links[Ns(c)] : d[k] = LinkMsg(Sent(c), x)
        BY <2>0, LinkDumpType
      <4>2. LinkMsg(Sent(c), x).type = "NEWLINK"
        BY <1>2, <2>2, LinkFields
      <4> QED
        BY <4>1, <4>2 DEF Hit
    <3> QED
      BY <3>1
  <2>4. PICK j \in DOMAIN d : d[j] = LinkMsg(Sent(c), l)
    BY <2>0, <2>1, LinkDumpType
  <2>5. EndsFor(Sent(c), pc[c], Wanted(c), d[j])
    BY <1>2, <1>5, <2>1, <2>2, <2>4, LinkFields DEF EndsFor
  <2> HIDE DEF e
  <2> QED
    BY <1>1, <1>2, <1>3, <1>4, <2>3, <2>5, FindsSent
<1>6. CASE pc[c] = "defaultRouteGateway" /\ \E r \in kern.routes[Ns(c)] : r.dst = "default"
  <2>0. d = RouteDump(c)
    BY <1>6 DEF DumpOf
  <2>1. PICK r \in kern.routes[Ns(c)] : r.dst = "default"
    BY <1>6
  <2>2. \A k \in kern.routes[Ns(c)] : k \in RouteSet
    BY <1>n, KernelFields
  <2> HIDE DEF d
  <2>3. \A k \in DOMAIN d : Hit(d[k])
    <3>1. ASSUME NEW k \in DOMAIN d PROVE Hit(d[k])
      <4>1. PICK x \in kern.routes[Ns(c)] : d[k] = RouteMsg(Sent(c), x)
        BY <2>0, RouteDumpType
      <4>2. RouteMsg(Sent(c), x).type = "NEWROUTE"
        BY <1>2, <2>2, RouteFields
      <4> QED
        BY <4>1, <4>2 DEF Hit
    <3> QED
      BY <3>1
  <2>4. PICK j \in DOMAIN d : d[j] = RouteMsg(Sent(c), r)
    BY <2>0, <2>1, RouteDumpType
  <2>5. EndsFor(Sent(c), pc[c], Wanted(c), d[j])
    BY <1>2, <1>6, <2>1, <2>2, <2>4, RouteFields DEF EndsFor
  <2> HIDE DEF e
  <2> QED
    BY <1>1, <1>2, <1>3, <1>4, <2>3, <2>5, FindsSent
<1> QED
  BY <1>5, <1>6

-----------------------------------------------------------------------------
(* Without a fault every call that fails has a cause. *)

\* Why the kernel refuses a request.
Cause(c) ==
    \/ c = Agent /\ pc[c] = "createBridge" /\ Taken("node", Wanted(c))
    \/ \E p \in Pods : c = HostOf(p) /\ pc[c] \in {"createVethPeerNetns", "createVethOnBridge"}
                       /\ ~PairIsNew(HostName[p], p)
    \/ pc[c] = "addAddrV4" /\ ~\E l \in kern.links[Ns(c)] : l.idx = idx[c]
    \/ pc[c] = "addDefaultRouteV4" /\ ~(/\ \E l \in kern.links[Ns(c)] : l.idx = idx[c]
                                        /\ ~\E r \in kern.routes[Ns(c)] : r.dst = "default")

\* Faults are never taken back, and without one only what has a cause fails.
LEMMA Quiet ==
    ASSUME TypeInv, [Next]_vars, faults' = 0
    PROVE  faults = 0
<1>0. Types /\ faults \in 0..MaxFaults /\ MaxFaults \in Nat
  BY NetlinkAssumption, Zenon DEF TypeInv, Types
<1>1. faults \in Nat
  BY <1>0
<1>u. ASSUME faults' = faults \/ (faults < MaxFaults /\ faults' = faults + 1) PROVE faults = 0
  BY <1>1, <1>u
<1>2. ASSUME NEW c \in Callers, Opened(c) PROVE faults = 0
  BY <1>2 DEF Opened
<1>3. ASSUME NEW c \in Callers, NEW s, Failed(c, s) PROVE faults = 0
  BY <1>3, <1>u, FailedFaults
<1>4. ASSUME NEW c \in Callers, NEW i, Returned(c, i) PROVE faults = 0
  BY <1>4 DEF Returned
<1>5. ASSUME NEW c \in Callers, Sending(c) PROVE faults = 0
  BY <1>5, <1>u, SendingTo
<1>6. ASSUME NEW c \in Callers, Skipped(c) PROVE faults = 0
  BY <1>6 DEF Skipped
<1>7. ASSUME Phase PROVE faults = 0
  BY <1>7, <1>u, PhaseTo
<1>8. ASSUME NEW p \in Pods, ContainerEnds(p) PROVE faults = 0
  BY <1>0, <1>8, <1>u, EndsTo
<1>9. ASSUME Renew \/ UNCHANGED vars PROVE faults = 0
  BY <1>9 DEF Renew, vars
<1> QED
  BY <1>2, <1>3, <1>4, <1>5, <1>6, <1>7, <1>8, <1>9, Kinds

LEMMA QuietSteps ==
    ASSUME faults = 0, faults' = 0
    PROVE  /\ \A c : \A s : Failed(c, s) => \E i : First(c, i) /\ ~Succeeds(c, Head(sock[c].queue)[i])
           /\ \A c : Denied(c) => Cause(c)
           /\ WaitOrdinary => pc[Cont(Ordinary[turn])] = "gone"
           /\ \A p \in Pods : ContainerEnds(p) => pc[Cont(p)] \in {"up", "failed"}
<1>1. faults' # faults + 1
  OBVIOUS
<1>2. \A c : \A s : Failed(c, s) => \E i : First(c, i) /\ ~Succeeds(c, Head(sock[c].queue)[i])
  BY <1>1, Zenon DEF Failed
<1>3. \A c : Denied(c) => Cause(c)
  BY <1>1, Zenon DEF Denied, Cause
<1>4. WaitOrdinary => pc[Cont(Ordinary[turn])] = "gone"
  BY <1>1 DEF WaitOrdinary, Fault
<1>5. \A p \in Pods : ContainerEnds(p) => pc[Cont(p)] \in {"up", "failed"}
  BY <1>1 DEF ContainerEnds, Fault
<1> QED
  BY <1>2, <1>3, <1>4, <1>5

\* A name that was taken stays taken.
LEMMA NameStays ==
    ASSUME TypeInv, [Next]_vars, NEW p \in Pods, NameTaken(p)
    PROVE  NameTaken(p)'
<1>0. Types /\ Roles
  BY DEF TypeInv
<1>1. ASSUME NEW q \in Pods, pc[HostOf(q)] # "idle" PROVE pc'[HostOf(q)] # "idle"
  <2>0. HostOf(q) \in Callers
    BY Who
  <2>1. Opened(HostOf(q)) => pc'[HostOf(q)] \in {"createVethOnBridge", "createVethPeerNetns"}
    BY <1>0, <2>0, OpenedTo
  <2>2. ASSUME NEW s, Failed(HostOf(q), s) PROVE pc'[HostOf(q)] = "closed"
    BY <1>0, <2>0, <2>2, FailedTo
  <2>3. ASSUME NEW i, Returned(HostOf(q), i) PROVE pc'[HostOf(q)] # "idle"
    <3>1. HostReturns(q)
      BY <1>0, <2>0, <2>3, ReturnedTo
    <3> QED
      BY <3>1 DEF HostReturns
  <2> QED
    BY <1>1, <2>1, <2>2, <2>3, HostMoves
<1>2. CASE HostName[p] \in Bridges
  BY <1>2 DEF NameTaken
<1>3. CASE \E q \in Pods \ {p} : HostName[q] = HostName[p] /\ pc[HostOf(q)] # "idle"
  <2>1. PICK q \in Pods \ {p} : HostName[q] = HostName[p] /\ pc[HostOf(q)] # "idle"
    BY <1>3
  <2>2. pc'[HostOf(q)] # "idle"
    BY <1>1, <2>1
  <2> QED
    BY <2>1, <2>2 DEF NameTaken
<1> QED
  BY <1>2, <1>3 DEF NameTaken

\* An acknowledged call that failed without a fault was refused.
LEMMA FailureIsAck ==
    ASSUME TypeInv, AckIsError, NEW c \in Callers, NEW i, First(c, i), ~Succeeds(c, Head(sock[c].queue)[i]),
           pc[c] \in AckCalls
    PROVE  \E m \in Acks(c) : m.err
<1>1. PICK m : m = Head(sock[c].queue)[i]
  OBVIOUS
<1>2. m \in Unread(sock[c].queue) /\ sock[c].wait # 0 /\ m.seq = sock[c].wait /\ m \in Message /\ ~Succeeds(c, m)
  BY <1>1, FirstFields DEF TypeInv
<1>3. m \in Acks(c)
  BY <1>2 DEF Acks
<1>5. m.err
  BY <1>2 DEF Succeeds, AckCalls, LinkDumps
<1> QED
  BY <1>3, <1>5

\* A lookup that failed without a fault did not have its record in the queue.
LEMMA FailureIsNotFound ==
    ASSUME TypeInv, NEW c \in Callers, NEW i, First(c, i), ~Succeeds(c, Head(sock[c].queue)[i]),
           pc[c] \in LinkDumps \cup {"defaultRouteGateway"}
    PROVE  ~Found(c)
<1>1. PICK m : m = Head(sock[c].queue)[i]
  OBVIOUS
<1>2. Ends(c, m) /\ ~Succeeds(c, m)
  BY <1>1, FirstFields DEF TypeInv
<1>3. SUFFICES ASSUME Found(c) PROVE FALSE
  OBVIOUS
<1>4. m.type \in {"NEWLINK", "NEWROUTE"}
  BY <1>1, <1>3, FoundFirst DEF Hit
<1> QED
  BY <1>2, <1>4 DEF Ends, Succeeds, AckCalls, LinkDumps

\* Which calls fail without a fault.
LEMMA AgentFails ==
    ASSUME TypeInv, AckIsError, Calm, faults = 0, faults' = 0, NEW s, Failed(Agent, s)
    PROVE  /\ pc[Agent] = "createBridge" /\ Wanted(Agent) \in {"lo", "eth0"}
           /\ pc'[Agent] = "spec" /\ turn' = turn + 1 /\ bridgeIdx' = bridgeIdx
<1>0. Agent \in Callers /\ Types /\ Roles
  BY Who DEF TypeInv
<1>1. PICK i : First(Agent, i) /\ ~Succeeds(Agent, Head(sock[Agent].queue)[i])
  BY QuietSteps
<1>2. pc[Agent] \in Calls /\ sock[Agent].wait # 0
  BY <1>1 DEF First
<1>3. pc[Agent] # "open"
  BY <1>2 DEF Calls, AckCalls, LinkDumps
<1>4. pc[Agent] \in AgentCalls /\ pc'[Agent] = "spec" /\ turn' = turn + 1 /\ bridgeIdx' = bridgeIdx
  BY <1>0, <1>3, FailedTo
<1>5. CASE pc[Agent] \in AckCalls
  <2>1. \E m \in Acks(Agent) : m.err
    BY <1>0, <1>1, <1>5, FailureIsAck
  <2> QED
    BY <1>4, <2>1 DEF Calm, Refusals
<1>6. CASE pc[Agent] = "linkIndexByName"
  <2>1. ~Found(Agent)
    BY <1>0, <1>1, <1>6, FailureIsNotFound DEF LinkDumps
  <2> QED
    BY <1>2, <1>6, <2>1 DEF Calm, Lookups
<1> QED
  BY <1>4, <1>5, <1>6 DEF AgentCalls, AckCalls

LEMMA ContFails ==
    ASSUME TypeInv, AckIsError, Calm, faults = 0, faults' = 0, NEW p \in Pods, NEW s, Failed(Cont(p), s)
    PROVE  pc'[Cont(p)] = "failed" /\ NameTaken(p) /\ route' = route
<1>c. PICK c : c = Cont(p)
  OBVIOUS
<1>0. c \in Callers /\ Types /\ Roles /\ Cont(p) = c
  BY <1>c, Who DEF TypeInv
<1>1. PICK i : First(c, i) /\ ~Succeeds(c, Head(sock[c].queue)[i])
  BY <1>c, QuietSteps
<1>2. pc[c] \in Calls /\ sock[c].wait # 0
  BY <1>1 DEF First
<1>3. pc[c] # "fd5"
  BY <1>2 DEF Calls, AckCalls, LinkDumps
<1>4. /\ pc[c] \in {"fd5", "linkIndexByName", "addAddrV4"} => pc'[c] = "failed" /\ route' = route
      /\ pc[c] \notin {"fd5", "linkIndexByName", "addAddrV4"} => pc[c] \in {"addDefaultRouteV4", "defaultRouteGateway"}
  BY <1>0, FailedTo
<1>5. pc[c] \notin AckCalls
  <2>1. pc[c] \in AckCalls => \E m \in Acks(c) : m.err
    BY <1>0, <1>1, FailureIsAck
  <2> QED
    BY <1>c, <2>1 DEF Calm, Refusals
<1>6. pc[c] \in {"linkIndexByName", "defaultRouteGateway"}
  BY <1>3, <1>4, <1>5 DEF AckCalls
<1>7. ~Found(c)
  BY <1>0, <1>1, <1>6, FailureIsNotFound DEF LinkDumps
<1>8. pc[c] = "linkIndexByName" /\ NameTaken(p)
  BY <1>c, <1>2, <1>6, <1>7 DEF Calm, Lookups
<1> QED
  BY <1>c, <1>4, <1>8

LEMMA HostFails ==
    ASSUME TypeInv, AckIsError, Calm, faults = 0, faults' = 0, NEW p \in Pods, NEW s, Failed(HostOf(p), s)
    PROVE  /\ pc'[HostOf(p)] = "closed"
           /\ NameTaken(p) \/ pc[HostOf(p)] \in {"linkIndexByName", "addAddrV4"}
<1>c. PICK c : c = HostOf(p)
  OBVIOUS
<1>0. c \in Callers /\ Types /\ Roles /\ HostOf(p) = c
  BY <1>c, Who DEF TypeInv
<1>1. PICK i : First(c, i) /\ ~Succeeds(c, Head(sock[c].queue)[i])
  BY <1>c, QuietSteps
<1>2. pc[c] \in Calls /\ sock[c].wait # 0
  BY <1>1 DEF First
<1>3. pc'[c] = "closed"
  BY <1>0, FailedTo
<1>4. pc[c] \in {"createVethPeerNetns", "createVethOnBridge", "linkIndexByName", "addAddrV4"}
  <2>1. pc[c] \in {"idle", "open", "closed", "createVethOnBridge", "createVethPeerNetns", "linkIndexByName", "addAddrV4"}
    <3>1. pc[c] \in HostPlaces(p)
      BY <1>0 DEF Roles
    <3> QED
      BY <3>1 DEF HostPlaces
  <2> QED
    BY <1>2, <2>1 DEF Calls, AckCalls, LinkDumps
<1>5. ASSUME pc[c] \in {"createVethPeerNetns", "createVethOnBridge"} PROVE NameTaken(p)
  <2>1. PICK m \in Acks(c) : m.err
    BY <1>0, <1>1, <1>5, FailureIsAck DEF AckCalls
  <2> QED
    BY <1>c, <1>5, <2>1 DEF Calm, Refusals
<1> QED
  BY <1>c, <1>3, <1>4, <1>5

\* What is true of the calls whatever fails, for the steps below.
Base == Truth /\ ContMessages /\ ContState

\* The index of a bridge is not 0, which stands for no entry in the map.
LEMMA AgentIndex ==
    ASSUME TypeInv, AgentDoes, pc[Agent] = "addAddrV4"
    PROVE  idx[Agent] # 0
<1>1. PICK l \in kern.links["node"] : l.idx = idx[Agent]
  BY DEF AgentDoes, BridgeLink
<1> QED
  BY <1>1, LinkTypes, Where

\* The agent's requests are refused only for a bridge that is to have the name of
\* one of the node's own links.
LEMMA AgentRefused ==
    ASSUME Base, Calm, faults = 0, faults' = 0, [Next]_vars, NEW m \in Acks(Agent)', m.err
    PROVE  pc'[Agent] = "createBridge" /\ Wanted(Agent)' \in {"lo", "eth0"}
<1>0. /\ TypeInv /\ MessagesTrue /\ AgentDoes /\ LinkEnds /\ Agent \in Callers
      /\ Ns(Agent) = "node" /\ "node" \in Namespaces /\ \A p \in Pods : Agent # HostOf(p)
  BY Who, Where DEF Base, Truth
<1>1. /\ pc'[Agent] = pc[Agent] /\ turn' = turn
      /\ m \in Acks(Agent) \/ Denied(Agent)
  BY <1>0, AckStep
<1>2. Wanted(Agent)' = Wanted(Agent)
  BY <1>1, WantedSame
<1>3. CASE m \in Acks(Agent)
  BY <1>1, <1>2, <1>3 DEF Calm, Refusals
<1>4. CASE Denied(Agent)
  <2>1. Cause(Agent) /\ sock[Agent].wait = 0 /\ pc[Agent] \in AgentPlaces
    BY <1>0, <1>4, QuietSteps DEF Denied, TypeInv, Roles
  <2>2. pc[Agent] # "addDefaultRouteV4"
    BY <2>1 DEF AgentPlaces, AgentCalls
  <2>3. pc[Agent] = "addAddrV4" => \E l \in kern.links["node"] : l.idx = idx[Agent]
    BY <1>0 DEF AgentDoes, BridgeLink
  <2>4. pc[Agent] = "createBridge" /\ Taken("node", Wanted(Agent))
    BY <1>0, <2>1, <2>2, <2>3 DEF Cause
  <2>5. PICK l \in kern.links["node"] : l.name = Wanted(Agent)
    BY <2>4 DEF Taken
  <2>6. l.far = "none"
    BY <2>4 DEF Calm, PairOfTurn
  <2>7. KnownBridge(Wanted(Agent))
    BY <2>5, <2>6 DEF Calm, BridgesKnown
  <2>8. bridgeIdx[Wanted(Agent)] = 0
    BY <1>0, <2>4 DEF TypeInv, Turns, AgentCalls
  <2>9. Wanted(Agent) \in {"lo", "eth0"}
    BY <2>1, <2>4, <2>7, <2>8 DEF KnownBridge
  <2> QED
    BY <1>1, <1>2, <2>4, <2>9
<1> QED
  BY <1>1, <1>3, <1>4

\* The kernel refuses only what has a cause.
LEMMA RefusalsStep ==
    ASSUME Base, Calm, faults = 0, faults' = 0, [Next]_vars
    PROVE  Refusals'
<1>0. TypeInv /\ MessagesTrue /\ LinkEnds /\ ContState
  BY DEF Base, Truth
<1>1. ASSUME NEW p \in Pods, NEW m \in Acks(Cont(p))' PROVE ~m.err
  <2>0. Cont(p) \in Callers /\ Ns(Cont(p)) = p /\ Cont(p) # Agent /\ \A q \in Pods : Cont(p) # HostOf(q)
    BY Who, Where
  <2>1. m \in Acks(Cont(p)) \/ Denied(Cont(p)) \/ ~m.err
    BY <1>0, <2>0, <1>1, AckStep
  <2>2. ~Denied(Cont(p))
    <3>1. SUFFICES ASSUME Denied(Cont(p)) PROVE FALSE
      OBVIOUS
    <3>2. Cause(Cont(p)) /\ sock[Cont(p)].wait = 0
      BY <3>1, QuietSteps DEF Denied
    <3>3. pc[Cont(p)] \in {"addAddrV4", "addDefaultRouteV4"}
      BY <2>0, <3>2 DEF Cause
    <3>4. \E l \in kern.links[p] : l.idx = idx[Cont(p)]
      BY <1>0, <3>3 DEF ContState, HasIdx
    <3>5. pc[Cont(p)] = "addDefaultRouteV4" => ~\E r \in kern.routes[p] : r.dst = "default"
      BY <1>0, <3>2 DEF ContState
    <3> QED
      BY <2>0, <3>2, <3>3, <3>4, <3>5 DEF Cause
  <2> QED
    BY <2>1, <2>2 DEF Calm, Refusals
<1>2. ASSUME NEW p \in Pods, NEW m \in Acks(HostOf(p))',
             pc'[HostOf(p)] \in {"createVethPeerNetns", "createVethOnBridge"}
      PROVE  IF m.err THEN NameTaken(p)' ELSE HasEth0(kern', p)
  <2>0. /\ HostOf(p) \in Callers /\ Ns(HostOf(p)) = "node" /\ HostOf(p) # Agent
        /\ \A q \in Pods : HostOf(p) = HostOf(q) => q = p
        /\ p # "node" /\ p # "none" /\ p \in Namespaces /\ "node" \in Namespaces
    BY Who, Where
  <2>1. /\ pc'[HostOf(p)] = pc[HostOf(p)]
        /\ \/ m \in Acks(HostOf(p))
           \/ m.err /\ Denied(HostOf(p))
           \/ ~m.err /\ Did(HostOf(p))
    BY <1>0, <1>2, <2>0, AckStep
  <2>g. pc'[Cont(p)] # "gone"
    <3>1. pc[HostOf(p)] # "closed"
      BY <1>2, <2>1
    <3>2. ~ContainerEnds(p)
      <4>1. ContainerEnds(p) => pc[Cont(p)] \in {"up", "failed"}
        BY QuietSteps
      <4> QED
        BY <1>0, <3>1, <4>1 DEF TypeInv, Phases
    <3>3. pc[Cont(p)] # "gone" /\ pc[Cont(p)] \in {"idle", "fd5"}
      <4>1. pc[Cont(p)] # "gone"
        BY <3>1 DEF Calm, PodsReached
      <4> QED
        BY <1>0, <3>1, <4>1 DEF TypeInv, Phases
    <3>4. ~Opened(Cont(p)) /\ (~\E s : Failed(Cont(p), s)) /\ (~\E i : Returned(Cont(p), i))
      <4>0. Types /\ Roles /\ Cont(p) \in Callers
        BY <1>0, Who DEF TypeInv
      <4>1. ~Opened(Cont(p))
        BY <3>1, <4>0, OpenedTo
      <4>2. ASSUME NEW s, Failed(Cont(p), s) PROVE FALSE
        <5>1. PICK i : First(Cont(p), i)
          BY <4>2, QuietSteps
        <5> QED
          BY <3>3, <5>1 DEF First, Calls, AckCalls, LinkDumps
      <4>3. ASSUME NEW i, Returned(Cont(p), i) PROVE FALSE
        BY <3>3, <4>3 DEF Returned, First, Calls, AckCalls, LinkDumps
      <4> QED
        BY <4>1, <4>2, <4>3
    <3> QED
      BY <1>0, <3>2, <3>3, <3>4, ContMoves
  <2>2. CASE m \in Acks(HostOf(p))
    <3>1. IF m.err THEN NameTaken(p) ELSE HasEth0(kern, p)
      BY <1>2, <2>1, <2>2 DEF Calm, Refusals
    <3> QED
      BY <1>0, <2>g, <3>1, NameStays, KeepsPodLinks
  <2>3. CASE m.err /\ Denied(HostOf(p))
    <3>1. Cause(HostOf(p)) /\ sock[HostOf(p)].wait = 0
      BY <2>3, QuietSteps DEF Denied
    <3>2. ~PairIsNew(HostName[p], p)
      BY <1>2, <2>0, <2>1, <3>1 DEF Cause
    <3>3. pc[Cont(p)] # "gone"
      BY <1>2, <2>1 DEF Calm, PodsReached
    <3>4. Unpaired(p)
      BY <1>2, <2>1, <3>1 DEF Unpaired
    <3>5. ~Taken(p, "eth0")
      BY <1>0, <3>4 DEF Taken, LinkEnds
    <3>6. PICK l \in kern.links["node"] : l.name = HostName[p]
      BY <3>2, <3>3, <3>5 DEF PairIsNew, Alive, Taken
    <3>7. CASE l.far = "none"
      <4>1. l.name \in {"lo", "eth0"} \cup Bridges
        BY <1>0, <3>7 DEF LinkEnds
      <4>2. HostName[p] \notin {"lo", "eth0"}
        BY NetlinkAssumption, Zenon
      <4>3. NameTaken(p)
        BY <3>6, <4>1, <4>2 DEF NameTaken
      <4> QED
        BY <1>0, <2>3, <4>3, NameStays
    <3>8. CASE l.far # "none"
      <4>1. l.far \in Pods /\ l.name = HostName[l.far] /\ ~Unpaired(l.far)
        BY <1>0, <3>8 DEF LinkEnds
      <4>2. l.far # p /\ pc[HostOf(l.far)] # "idle"
        BY <3>4, <4>1 DEF Unpaired
      <4>3. NameTaken(p)
        BY <3>6, <4>1, <4>2 DEF NameTaken
      <4> QED
        BY <1>0, <2>3, <4>3, NameStays
    <3> QED
      BY <3>7, <3>8
  <2>4. CASE ~m.err /\ Did(HostOf(p))
    <3>1. MadePair(p)
      BY <1>2, <2>0, <2>1, <2>4 DEF Did, GaveAddr, GaveRoute, Acked
    <3>2. PICK master \in Nat :
            kern'.links = [[kern.links EXCEPT !["node"] = @ \cup {HostEnd(p, master)}]
                                   EXCEPT ![p] = @ \cup {PodEnd(p)}]
      BY <3>1 DEF MadePair
    <3>3. PodEnd(p) \in kern'.links[p]
      BY <1>0, <2>0, <3>2, KernelFields
    <3> QED
      BY <2>4, <3>3, PairLinkFields DEF HasEth0
  <2> QED
    BY <2>1, <2>2, <2>3, <2>4
<1>3. \A m \in Acks(Agent)' : m.err => pc'[Agent] = "createBridge" /\ Wanted(Agent)' \in {"lo", "eth0"}
  BY AgentRefused
<1> QED
  BY <1>1, <1>2, <1>3 DEF Refusals, HasEth0

\* What a caller that waits has in its queue.
LEMMA WaitQueue ==
    ASSUME TypeInv, [Next]_vars, NEW d \in Callers, sock'[d].wait # 0
    PROVE  sock'[d] = sock[d] \/ Skipped(d) \/ Sending(d)
<1>0. Types /\ Roles
  BY DEF TypeInv
<1> DEFINE Same == sock'[d] = sock[d]
<1>m. ASSUME NEW c \in Callers, Moved(c) PROVE Same
  BY <1>m DEF Moved
<1>1. ASSUME NEW c \in Callers, Opened(c) PROVE Same
  BY <1>0, <1>1, <1>m, OpenedTo
<1>2. ASSUME NEW c \in Callers, NEW s, Failed(c, s) PROVE Same
  BY <1>0, <1>2, <1>m, FailedTo
<1>3. ASSUME NEW c \in Callers, NEW i, Returned(c, i) PROVE Same
  BY <1>0, <1>3, <1>m, ReturnedTo
<1>4. ASSUME NEW c \in Callers, Sending(c), c # d PROVE Same
  BY <1>4, SentStep
<1>5. ASSUME NEW c \in Callers, Skipped(c), c # d PROVE Same
  BY <1>0, <1>5, SkippedTo
<1>6. ASSUME Phase PROVE Same
  BY <1>6, PhaseTo
<1>7. ASSUME NEW p \in Pods, ContainerEnds(p) PROVE Same
  BY <1>0, <1>7, EndsTo, NewSocketFields
<1>8. ASSUME Renew \/ UNCHANGED vars PROVE Same
  BY <1>8 DEF Renew, vars
<1> HIDE DEF Same
<1>10. Same \/ Skipped(d) \/ Sending(d)
  BY <1>1, <1>2, <1>3, <1>4, <1>5, <1>6, <1>7, <1>8, Kinds
<1> QED
  BY <1>10 DEF Same

\* A record that is in the queue ahead of the end stays so while others are dropped.
LEMMA FoundStep ==
    ASSUME TypeInv, [Next]_vars, NEW d \in Callers, sock'[d].wait # 0,
           sock[d].wait # 0 => Found(d),
           Sending(d) => Finds(sock'[d].queue, sock'[d].wait, pc[d], Wanted(d))
    PROVE  Finds(sock'[d].queue, sock'[d].wait, pc[d], Wanted(d))
<1>1. CASE sock'[d] = sock[d]
  BY <1>1 DEF Found
<1>2. CASE Skipped(d)
  <2>1. sock'[d].wait = sock[d].wait /\ sock'[d].queue = Tail(sock[d].queue) /\ sock[d].queue # <<>>
    BY <1>2, SkippedTo DEF TypeInv
  <2>2. sock[d].queue \in Seq(Seq(Message))
    BY SocketFields DEF TypeInv
  <2>3. \A i \in DOMAIN Head(sock[d].queue) : ~EndsFor(sock[d].wait, pc[d], Wanted(d), Head(sock[d].queue)[i])
    BY <1>2, EndsIsFor DEF Skipped
  <2>4. Finds(sock[d].queue, sock[d].wait, pc[d], Wanted(d))
    BY <2>1 DEF Found
  <2> QED
    BY <2>1, <2>2, <2>3, <2>4, FindsTail
<1> QED
  BY <1>1, <1>2, WaitQueue

\* Without a fault a lookup is answered with a dump.
LEMMA LookupDumps ==
    ASSUME faults = 0, faults' = 0, NEW c, Sending(c), pc[c] \in {"linkIndexByName", "defaultRouteGateway"}
    PROVE  Dumped(c)
<1>1. ~Denied(c)
  <2>1. Denied(c) => Cause(c)
    BY QuietSteps
  <2> QED
    BY <2>1 DEF Cause
<1> QED
  BY <1>1 DEF Sending, MadeBridge, MadePair, GaveAddr, GaveRoute, Acked

\* Lookups find what they look for.
LEMMA LookupsStep ==
    ASSUME Base, Calm, faults = 0, faults' = 0, [Next]_vars
    PROVE  Lookups'
<1>0. TypeInv /\ MessagesTrue /\ LinkEnds /\ AgentDoes /\ ContDoes
  BY DEF Base, Truth
<1>1. ASSUME pc'[Agent] = "linkIndexByName", sock'[Agent].wait # 0
      PROVE  Finds(sock'[Agent].queue, sock'[Agent].wait, pc'[Agent], Wanted(Agent)')
  <2>0. Agent \in Callers /\ Ns(Agent) = "node"
    BY Who, Where
  <2>1. pc'[Agent] = pc[Agent] /\ turn' = turn
    BY <1>0, <1>1, <2>0, WaitStep
  <2>2. Wanted(Agent)' = Wanted(Agent)
    BY <2>1, WantedSame
  <2>3. sock[Agent].wait # 0 => Found(Agent)
    BY <1>1, <2>1 DEF Calm, Lookups
  <2>4. ASSUME Sending(Agent) PROVE Finds(sock'[Agent].queue, sock'[Agent].wait, pc[Agent], Wanted(Agent))
    <3>1. Dumped(Agent)
      BY <1>1, <2>1, <2>4, LookupDumps
    <3>2. \E l \in kern.links["node"] : l.master = 0 /\ l.name = Wanted(Agent)
      BY <1>0, <1>1, <2>1 DEF AgentDoes, BridgeMade, LinkEnds
    <3> QED
      BY <1>0, <1>1, <2>0, <2>1, <3>1, <3>2, FoundSent DEF LinkDumps
  <2> QED
    BY <1>0, <1>1, <2>0, <2>1, <2>2, <2>3, <2>4, FoundStep
<1>w. \A p \in Pods : Wanted(Cont(p))' = Wanted(Cont(p)) /\ Wanted(Cont(p)) = "eth0"
  <2>1. \A p \in Pods : Cont(p)[1] = "cont"
    BY Parts
  <2> QED
    BY <2>1 DEF Wanted, Cont
<1>2. ASSUME NEW p \in Pods, pc'[Cont(p)] \in {"linkIndexByName", "defaultRouteGateway"}, sock'[Cont(p)].wait # 0,
             ~NameTaken(p)' \/ pc'[Cont(p)] = "defaultRouteGateway"
      PROVE  Finds(sock'[Cont(p)].queue, sock'[Cont(p)].wait, pc'[Cont(p)], Wanted(Cont(p))')
  <2>c. PICK c : c = Cont(p)
    OBVIOUS
  <2>0. c \in Callers /\ Ns(c) = p /\ Cont(p) = c /\ Wanted(c)' = Wanted(c) /\ Wanted(c) = "eth0"
    BY <1>w, <2>c, Who, Where
  <2>1. pc'[c] = pc[c]
    BY <1>0, <1>2, <2>0, WaitStep
  <2>2. ~NameTaken(p) \/ pc[c] = "defaultRouteGateway"
    BY <1>0, <1>2, <2>0, <2>1, NameStays
  <2>3. sock[c].wait # 0 => Found(c)
    BY <1>2, <2>0, <2>1, <2>2 DEF Calm, Lookups
  <2>4. ASSUME Sending(c) PROVE Finds(sock'[c].queue, sock'[c].wait, pc[c], Wanted(c))
    <3>1. Dumped(c)
      BY <1>2, <2>0, <2>1, <2>4, LookupDumps
    <3>2. CASE pc[c] = "linkIndexByName"
      <4>1. pc[HostOf(p)] = "closed"
        BY <1>0, <2>0, <3>2 DEF TypeInv, Phases
      <4>2. HasEth0(kern, p)
        BY <2>0, <2>2, <3>2, <4>1 DEF Calm, PodsReached
      <4>3. \E l \in kern.links[p] : l.master = 0 /\ l.name = "eth0"
        BY <1>0, <4>2 DEF HasEth0, LinkEnds
      <4> QED
        BY <1>0, <2>0, <3>1, <3>2, <4>3, FoundSent DEF LinkDumps
    <3>3. CASE pc[c] = "defaultRouteGateway"
      <4>1. HasRoute(kern, p, idx[c])
        BY <1>0, <2>0, <3>3 DEF ContDoes
      <4>2. \E r \in kern.routes[p] : r.dst = "default"
        BY <4>1 DEF HasRoute
      <4> QED
        BY <1>0, <2>0, <3>1, <3>3, <4>2, FoundSent
    <3> QED
      BY <1>2, <2>0, <2>1, <3>2, <3>3
  <2>5. Finds(sock'[c].queue, sock'[c].wait, pc[c], Wanted(c))
    BY <1>0, <1>2, <2>0, <2>3, <2>4, FoundStep
  <2> QED
    BY <2>0, <2>1, <2>5
<1> QED
  BY <1>1, <1>2 DEF Lookups, Found

\* A host part that got past its veth call made the pod's eth0, or another had
\* the name; and it is done when the container has ended.
LEMMA PodsReachedStep ==
    ASSUME Base, Calm, faults = 0, faults' = 0, [Next]_vars
    PROVE  PodsReached'
<1>0. TypeInv /\ Types /\ Roles /\ Phases /\ AckIsError
  BY DEF Base, Truth, TypeInv
<1> SUFFICES ASSUME NEW p \in Pods
             PROVE  /\ pc'[Cont(p)] = "gone" => pc'[HostOf(p)] = "closed"
                    /\ pc'[HostOf(p)] \in {"linkIndexByName", "addAddrV4", "closed"} /\ pc'[Cont(p)] # "gone"
                          => HasEth0(kern', p) \/ NameTaken(p)'
  BY DEF PodsReached, HasEth0
<1>h. PICK h : h = HostOf(p)
  OBVIOUS
<1>w. h \in Callers /\ Cont(p) \in Callers /\ HostOf(p) = h
  BY <1>h, Who
<1>f. ASSUME NEW s, Failed(h, s)
      PROVE  pc'[h] = "closed" /\ (NameTaken(p) \/ pc[h] \in {"linkIndexByName", "addAddrV4"})
  BY <1>0, <1>f, <1>h, HostFails
<1>r. ASSUME NEW i, Returned(h, i)
      PROVE  /\ pc[h] \in {"createVethPeerNetns", "createVethOnBridge", "linkIndexByName", "addAddrV4"}
             /\ pc[h] \in {"createVethPeerNetns", "createVethOnBridge"} => HasEth0(kern, p)
  <2>1. HostReturns(p)
    BY <1>0, <1>r, <1>w, ReturnedTo
  <2>2. pc[h] \in {"createVethPeerNetns", "createVethOnBridge", "linkIndexByName", "addAddrV4"}
    BY <1>h, <2>1 DEF HostReturns
  <2>3. ASSUME pc[h] \in {"createVethPeerNetns", "createVethOnBridge"} PROVE HasEth0(kern, p)
    <3>1. PICK m \in Acks(h) : ~m.err
      BY <1>0, <1>r, <1>w, <2>3, SuccessIsAck DEF AckCalls
    <3> QED
      BY <1>h, <2>3, <3>1 DEF Calm, Refusals
  <2> QED
    BY <2>2, <2>3
<1>o. Opened(h) => pc[h] = "open" /\ pc'[h] \in {"createVethOnBridge", "createVethPeerNetns"}
  BY <1>0, <1>w, OpenedTo
<1>m. \/ pc'[h] = pc[h]
      \/ pc[h] = "idle" /\ pc'[h] = "open"
      \/ Opened(h) \/ (\E s : Failed(h, s)) \/ (\E i : Returned(h, i))
  BY <1>0, <1>h, HostMoves
<1>g. /\ pc[Cont(p)] = "gone" => pc'[Cont(p)] = "gone"
      /\ pc[Cont(p)] # "gone" /\ pc'[Cont(p)] = "gone" => pc[h] = "closed"
  <2>1. Opened(Cont(p)) => pc[Cont(p)] = "fd5" /\ pc'[Cont(p)] = "linkIndexByName"
    BY <1>0, <1>w, OpenedTo
  <2>2. ASSUME NEW s, Failed(Cont(p), s) PROVE pc[Cont(p)] # "gone" /\ pc'[Cont(p)] = "failed"
    <3>1. PICK i : First(Cont(p), i)
      BY <2>2, QuietSteps
    <3>2. pc[Cont(p)] # "gone"
      BY <3>1 DEF First, Calls, AckCalls, LinkDumps
    <3> QED
      BY <1>0, <2>2, <3>2, ContFails
  <2>3. ASSUME NEW i, Returned(Cont(p), i) PROVE pc[Cont(p)] # "gone" /\ pc'[Cont(p)] # "gone"
    <3>1. ContReturns(p, Head(sock[Cont(p)].queue)[i])
      BY <1>0, <1>w, <2>3, ReturnedTo
    <3> QED
      BY <3>1 DEF ContReturns
  <2>4. ASSUME ContainerEnds(p) PROVE pc[h] = "closed" /\ pc'[Cont(p)] = "gone"
    <3>1. pc[Cont(p)] \in {"up", "failed"} /\ pc'[Cont(p)] = "gone"
      BY <1>0, <2>4, QuietSteps, EndsTo
    <3> QED
      BY <1>0, <1>h, <3>1 DEF Phases
  <2> QED
    BY <1>0, <2>1, <2>2, <2>3, <2>4, ContMoves
<1>1. pc[h] = "closed" => pc'[h] = "closed"
  BY <1>f, <1>m, <1>o, <1>r
<1>2. pc'[Cont(p)] = "gone" => pc'[h] = "closed"
  BY <1>1, <1>g, <1>h DEF Calm, PodsReached
<1>3. ASSUME pc'[h] \in {"linkIndexByName", "addAddrV4", "closed"}, pc'[Cont(p)] # "gone"
      PROVE  HasEth0(kern', p) \/ NameTaken(p)'
  <2>1. pc[h] \in {"linkIndexByName", "addAddrV4", "closed"} => HasEth0(kern, p) \/ NameTaken(p)
    BY <1>3, <1>g, <1>h DEF Calm, PodsReached
  <2>2. HasEth0(kern, p) \/ NameTaken(p)
    BY <1>3, <1>f, <1>m, <1>o, <1>r, <2>1
  <2> QED
    BY <1>0, <1>3, <2>2, NameStays, KeepsPodLinks
<1> QED
  BY <1>h, <1>2, <1>3

\* A container reads its route back, or another pod or a bridge had the name of its link.
LEMMA OutcomesStep ==
    ASSUME Base, Calm, faults = 0, faults' = 0, [Next]_vars
    PROVE  Outcomes'
<1>0. TypeInv /\ Types /\ Roles /\ AckIsError /\ ContMessages
  BY DEF Base, Truth, TypeInv
<1> SUFFICES ASSUME NEW p \in Pods
             PROVE  /\ pc'[Cont(p)] = "up" => route'[p] = "read back"
                    /\ pc'[Cont(p)] = "failed" => NameTaken(p)'
  BY DEF Outcomes
<1>c. PICK c : c = Cont(p)
  OBVIOUS
<1>w. c \in Callers /\ Cont(p) = c
  BY <1>c, Who
<1>a. (pc[c] = "up" => route[p] = "read back") /\ (pc[c] = "failed" => NameTaken(p))
  BY <1>c DEF Calm, Outcomes
<1> DEFINE Goal == (pc'[c] = "up" => route'[p] = "read back") /\ (pc'[c] = "failed" => NameTaken(p)')
<1>1. ASSUME pc'[c] = pc[c], route'[p] = route[p] PROVE Goal
  BY <1>0, <1>1, <1>a, NameStays
<1>2. ASSUME pc'[c] \in {"fd5", "linkIndexByName", "gone"} PROVE Goal
  BY <1>2
<1>3. ASSUME Opened(c) PROVE Goal
  <2>1. pc'[c] = "linkIndexByName"
    BY <1>0, <1>3, <1>w, OpenedTo
  <2> QED
    BY <1>2, <2>1
<1>4. ASSUME NEW s, Failed(c, s) PROVE Goal
  <2>1. pc'[c] = "failed" /\ NameTaken(p)
    BY <1>0, <1>4, <1>c, ContFails
  <2> QED
    BY <1>0, <2>1, NameStays
<1>5. ASSUME NEW i, Returned(c, i) PROVE Goal
  <2>m. PICK m : m = Head(sock[c].queue)[i]
    OBVIOUS
  <2>1. /\ ContReturns(p, m) /\ m \in Unread(sock[c].queue) /\ sock[c].wait # 0 /\ Ends(c, m) /\ First(c, i)
    BY <1>0, <1>5, <1>w, <2>m, ReturnedTo DEF Returned
  <2>2. CASE pc[c] = "defaultRouteGateway"
    <3>1. Found(c)
      BY <1>c, <2>1, <2>2 DEF Calm, Lookups
    <3>2. m.type \in {"NEWLINK", "NEWROUTE"}
      BY <1>0, <1>w, <2>m, <2>1, <3>1, FoundFirst DEF Hit
    <3>3. m.type = "NEWROUTE" /\ m.dst = "default"
      BY <2>1, <2>2, <3>2 DEF Ends, LinkDumps
    <3>4. m.gw = Gateway(Cont(p))
      BY <1>0, <1>c, <2>1, <3>3 DEF ContMessages, ContMessage
    <3>5. route' = [route EXCEPT ![p] = "read back"] /\ pc'[c] = "up"
      BY <1>c, <2>1, <2>2, <3>4 DEF ContReturns
    <3> QED
      BY <1>0, <3>5 DEF Types
  <2>3. CASE pc[c] # "defaultRouteGateway"
    <3>1. pc'[c] \notin {"up", "failed"}
      BY <1>c, <2>1, <2>3 DEF ContReturns
    <3> QED
      BY <3>1
  <2> QED
    BY <2>2, <2>3
<1>6. ASSUME ContainerEnds(p) PROVE Goal
  BY <1>0, <1>2, <1>6, <1>w, EndsTo
<1> HIDE DEF Goal
<1>10. Goal
  BY <1>0, <1>c, <1>1, <1>2, <1>3, <1>4, <1>5, <1>6, ContMoves
<1> QED
  BY <1>c, <1>10 DEF Goal

\* While the bridges are made no pod has a pair, save the pod whose turn it is.
LEMMA PairOfTurnStep ==
    ASSUME Base, Calm, faults = 0, faults' = 0, [Next]_vars
    PROVE  PairOfTurn'
<1>0. TypeInv /\ Types /\ Roles /\ Phases /\ AckIsError /\ LinkEnds /\ Agent \in Callers
  BY Who DEF Base, Truth, TypeInv
<1> SUFFICES ASSUME pc'[Agent] \notin {"wait", "closed"}, NEW l \in kern'.links["node"], l.far # "none"
             PROVE  pc'[Agent] = "ordinary" /\ turn' <= Len(Ordinary) /\ l.far = Ordinary[turn']
  BY DEF PairOfTurn
<1>n. "node" \in Namespaces /\ \A p \in Pods : p # "node" /\ p # "none"
  BY Where
<1>1. pc[Agent] \notin {"wait", "closed"}
  <2>1. Phase => pc[Agent] \notin {"wait", "closed"}
    BY <1>0, PhaseTo DEF AgentStarts, RunOrdinary, WaitOrdinary, RunBridged, NextSpec, LaunchBridged
  <2>2. Opened(Agent) => pc[Agent] = "open"
    BY <1>0, OpenedTo
  <2>3. ASSUME NEW s, Failed(Agent, s) PROVE pc[Agent] = "createBridge"
    BY <1>0, <2>3, AgentFails
  <2>4. ASSUME NEW i, Returned(Agent, i) PROVE pc[Agent] \in AgentCalls
    BY <1>0, <2>4, ReturnedTo DEF AgentReturns
  <2> QED
    BY <1>0, <2>1, <2>2, <2>3, <2>4, AgentMoves DEF AgentCalls
<1>2. pc[Agent] = "ordinary" /\ turn <= Len(Ordinary) /\ l.far = Ordinary[turn]
  <2>1. CASE l \in kern.links["node"]
    BY <1>1, <2>1 DEF Calm, PairOfTurn
  <2>2. CASE Added("node", l)
    <3>1. ~(MadeBridge /\ l = NewBridge)
      BY BridgeLinkFields DEF MadeBridge
    <3>2. PICK p \in Pods : MadePair(p) /\ \E master \in Nat : l = HostEnd(p, master)
      BY <1>n, <2>2, <3>1 DEF Added
    <3>3. l.far = p
      BY <3>2, PairLinkFields
    <3>4. pc[HostOf(p)] \in {"createVethPeerNetns", "createVethOnBridge"}
      BY <3>2 DEF MadePair, Acked
    <3>5. p \in Range(Ordinary)
      BY <1>0, <1>1, <3>4 DEF Phases, Pods
    <3> QED
      BY <1>0, <3>3, <3>4, <3>5 DEF Phases
  <2> QED
    BY <1>0, <1>n, <2>1, <2>2, LinksKept
<1>3. pc[Agent] \notin AgentCalls \cup {"open"}
  BY <1>2 DEF AgentCalls
<1>4. ASSUME Phase PROVE pc'[Agent] = "ordinary" /\ turn' = turn
  <2>1. RunOrdinary \/ WaitOrdinary \/ RunBridged
    BY <1>2, <1>4 DEF Phase, AgentStarts, NextSpec, LaunchBridged, WaitBridged
  <2>2. ~RunBridged
    <3>1. turn \in Nat \ {0} /\ Ordinary \in Seq(Pods)
      BY <1>0, NetlinkAssumption, Zenon DEF Types
    <3>2. ~(turn > Len(Ordinary))
      BY <1>2, <3>1
    <3> QED
      BY <3>2 DEF RunBridged
  <2>3. ~WaitOrdinary
    <3>1. SUFFICES ASSUME WaitOrdinary PROVE FALSE
      OBVIOUS
    <3>2. pc[Cont(l.far)] = "gone"
      BY <1>2, <3>1, QuietSteps
    <3>3. kern' = kern
      BY <3>1 DEF WaitOrdinary
    <3> QED
      BY <1>0, <3>2, <3>3 DEF LinkEnds
  <2>4. ~AgentStarts /\ ~NextSpec /\ ~LaunchBridged /\ ~WaitBridged
    BY <1>2 DEF AgentStarts, NextSpec, LaunchBridged, WaitBridged
  <2> QED
    BY <1>0, <1>2, <1>4, <2>2, <2>3, <2>4, PhaseTo
<1>5. pc'[Agent] = "ordinary" /\ turn' = turn
  <2>2. ~Opened(Agent)
    BY <1>0, <1>3, OpenedTo
  <2>3. ASSUME NEW s, Failed(Agent, s) PROVE FALSE
    BY <1>0, <1>2, <2>3, AgentFails
  <2>4. ASSUME NEW i, Returned(Agent, i) PROVE FALSE
    <3>1. AgentReturns
      BY <1>0, <2>4, ReturnedTo
    <3> QED
      BY <1>3, <3>1 DEF AgentReturns
  <2> QED
    BY <1>0, <1>2, <1>4, <2>2, <2>3, <2>4, AgentMoves
<1> QED
  BY <1>2, <1>5

\* The loop over the specs, spec by spec and at its end.
LEMMA DoneNext ==
    ASSUME NEW n \in 1..Len(Bridged), NEW map, Done(n, map),
           map[Bridge[Bridged[n]]] # 0 \/ Bridge[Bridged[n]] \in {"lo", "eth0"}
    PROVE  Done(n + 1, map)
<1>1. Len(Bridged) \in Nat
  <2>1. Bridged \in Seq(Pods)
    BY NetlinkAssumption, Zenon
  <2> QED
    BY <2>1
<1>2. \A i \in 1..((n + 1) - 1) : i \in 1..(n - 1) \/ i = n
  BY <1>1
<1> QED
  BY <1>2 DEF Done

LEMMA DoneAll ==
    ASSUME NEW n \in Nat, n > Len(Bridged), NEW map, Done(n, map)
    PROVE  AllMade(map)
<1>1. Bridged \in Seq(Pods)
  BY NetlinkAssumption, Zenon
<1>2. Len(Bridged) \in Nat /\ DOMAIN Bridged = 1..Len(Bridged)
  BY <1>1
<1>3. \A i \in DOMAIN Bridged : i \in 1..(n - 1)
  BY <1>2
<1> SUFFICES ASSUME NEW b \in Bridges, b \notin {"lo", "eth0"}
             PROVE  map[b] # 0
  BY DEF AllMade
<1>4. PICK i \in DOMAIN Bridged : b = Bridge[Bridged[i]]
  BY DEF Bridges, Range
<1> QED
  BY <1>3, <1>4 DEF Done

\* The map gets its entries one at a time, and keeps them.
LEMMA BridgeEntered ==
    ASSUME TypeInv, AgentDoes, pc[Agent] = "addAddrV4",
           bridgeIdx' = [bridgeIdx EXCEPT ![Wanted(Agent)] = idx[Agent]]
    PROVE  /\ Wanted(Agent) = Bridge[Bridged[turn]] /\ bridgeIdx'[Wanted(Agent)] # 0
           /\ \A b \in Bridges : bridgeIdx[b] # 0 => bridgeIdx'[b] # 0
<1>1. Wanted(Agent) = Bridge[Bridged[turn]]
  BY Parts DEF Wanted
<1>2. Wanted(Agent) \in Bridges
  BY <1>1, NextSpecs DEF AgentCalls
<1>3. idx[Agent] # 0 /\ bridgeIdx \in [Bridges -> Nat]
  BY AgentIndex DEF TypeInv, Types
<1> QED
  BY <1>1, <1>2, <1>3

\* The loop over the specs passes a bridge when it is in the map, or is to have the
\* name of one of the node's own links.
LEMMA SpecsDoneStep ==
    ASSUME Base, Calm, faults = 0, faults' = 0, [Next]_vars
    PROVE  SpecsDone'
<1>0. TypeInv /\ Types /\ Roles /\ AckIsError /\ AgentDoes /\ Agent \in Callers
  BY Who DEF Base, Truth, TypeInv
<1>t. turn \in Nat /\ turn # 0 /\ Bridged \in Seq(Pods)
  BY <1>0, NetlinkAssumption, Zenon DEF Types
<1>l. Len(Bridged) \in Nat
  BY <1>t
<1>a. /\ pc[Agent] \in AgentCalls \cup {"open", "spec"} => Done(turn, bridgeIdx)
      /\ pc[Agent] \in {"run", "wait", "closed"} => AllMade(bridgeIdx)
  BY DEF Calm, SpecsDone
<1> DEFINE Goal == /\ pc'[Agent] \in AgentCalls \cup {"open", "spec"} => Done(turn', bridgeIdx')
                   /\ pc'[Agent] \in {"run", "wait", "closed"} => AllMade(bridgeIdx')
<1>1. ASSUME pc'[Agent] = pc[Agent], turn' = turn, bridgeIdx' = bridgeIdx PROVE Goal
  BY <1>1, <1>a
<1>2. ASSUME Opened(Agent) PROVE Goal
  <2>1. pc[Agent] = "open" /\ pc'[Agent] = "spec" /\ turn' = turn /\ bridgeIdx' = bridgeIdx
    BY <1>0, <1>2, OpenedTo
  <2> QED
    BY <1>a, <2>1
<1>w. Wanted(Agent) = Bridge[Bridged[turn]]
  BY Parts DEF Wanted
<1>3. ASSUME NEW s, Failed(Agent, s) PROVE Goal
  <2>1. /\ pc[Agent] = "createBridge" /\ Wanted(Agent) \in {"lo", "eth0"}
        /\ pc'[Agent] = "spec" /\ turn' = turn + 1 /\ bridgeIdx' = bridgeIdx
    BY <1>0, <1>3, AgentFails
  <2>2. turn \in 1..Len(Bridged) /\ Done(turn, bridgeIdx)
    BY <1>0, <1>a, <2>1, NextSpecs DEF AgentCalls
  <2>3. Done(turn + 1, bridgeIdx)
    BY <1>w, <2>1, <2>2, DoneNext
  <2> QED
    BY <2>1, <2>3
<1>4. ASSUME NEW i, Returned(Agent, i) PROVE Goal
  <2>1. AgentReturns
    BY <1>0, <1>4, ReturnedTo
  <2>2. pc[Agent] \in AgentCalls /\ Done(turn, bridgeIdx) /\ turn \in 1..Len(Bridged)
    BY <1>0, <1>a, <2>1, NextSpecs DEF AgentReturns
  <2>3. CASE pc[Agent] # "addAddrV4"
    <3>1. pc'[Agent] \in AgentCalls /\ turn' = turn /\ bridgeIdx' = bridgeIdx
      BY <2>1, <2>3 DEF AgentReturns, AgentCalls
    <3> QED
      BY <2>2, <3>1 DEF AgentCalls
  <2>4. CASE pc[Agent] = "addAddrV4"
    <3>1. /\ pc'[Agent] = "spec" /\ turn' = turn + 1
          /\ bridgeIdx' = [bridgeIdx EXCEPT ![Wanted(Agent)] = idx[Agent]]
      BY <2>1, <2>4 DEF AgentReturns
    <3>2. bridgeIdx'[Bridge[Bridged[turn]]] # 0 /\ \A b \in Bridges : bridgeIdx[b] # 0 => bridgeIdx'[b] # 0
      BY <1>0, <2>4, <3>1, BridgeEntered
    <3>3. \A j \in 1..(turn - 1) : Bridge[Bridged[j]] \in Bridges
      <4>1. \A j \in 1..(turn - 1) : j \in DOMAIN Bridged
        BY <1>t, <1>l, <2>2
      <4> QED
        BY <4>1 DEF Bridges, Range
    <3>4. Done(turn, bridgeIdx')
      BY <2>2, <3>2, <3>3 DEF Done
    <3>5. Done(turn + 1, bridgeIdx')
      BY <2>2, <3>2, <3>4, DoneNext
    <3> QED
      BY <3>1, <3>5
  <2> QED
    BY <2>3, <2>4
<1>5. ASSUME Phase PROVE Goal
  <2>b. bridgeIdx' = bridgeIdx
    BY <1>0, <1>5, PhaseTo
  <2>1. ASSUME pc'[Agent] \in {"idle", "ordinary"} PROVE Goal
    BY <2>1 DEF AgentCalls
  <2>2. ASSUME pc'[Agent] = "open", turn' = 1 PROVE Goal
    <3>1. Done(1, bridgeIdx')
      BY DEF Done
    <3> QED
      BY <2>2, <3>1
  <2>3. ASSUME NextSpec, turn > Len(Bridged), pc'[Agent] = "run" PROVE Goal
    <3>1. Done(turn, bridgeIdx)
      BY <1>a, <2>3 DEF NextSpec
    <3>2. AllMade(bridgeIdx)
      BY <1>t, <2>3, <3>1, DoneAll
    <3> QED
      BY <2>b, <2>3, <3>2 DEF AgentCalls
  <2>4. ASSUME NextSpec, turn <= Len(Bridged), bridgeIdx[Bridge[Bridged[turn]]] # 0, pc' = pc, turn' = turn + 1
        PROVE  Goal
    <3>1. Done(turn, bridgeIdx) /\ pc[Agent] = "spec"
      BY <1>a, <2>4 DEF NextSpec
    <3>2. turn \in 1..Len(Bridged)
      BY <1>t, <1>l, <2>4
    <3>3. Done(turn + 1, bridgeIdx)
      BY <2>4, <3>1, <3>2, DoneNext
    <3> QED
      BY <2>b, <2>4, <3>1, <3>3
  <2>5. ASSUME NextSpec, pc'[Agent] = "createBridge", turn' = turn PROVE Goal
    <3>1. Done(turn, bridgeIdx)
      BY <1>a, <2>5 DEF NextSpec
    <3> QED
      BY <2>b, <2>5, <3>1
  <2>6. ASSUME LaunchBridged \/ WaitBridged, pc'[Agent] \in {"wait", "closed"} PROVE Goal
    <3>1. AllMade(bridgeIdx)
      BY <1>a, <2>6 DEF LaunchBridged, WaitBridged
    <3> QED
      BY <2>b, <2>6, <3>1 DEF AgentCalls
  <2>7. RunOrdinary \/ WaitOrdinary => pc[Agent] = "ordinary"
    BY DEF RunOrdinary, WaitOrdinary
  <2> HIDE DEF Goal
  <2> QED
    BY <1>0, <1>5, <2>1, <2>2, <2>3, <2>4, <2>5, <2>6, <2>7, PhaseTo
<1> HIDE DEF Goal
<1>10. Goal
  BY <1>0, <1>1, <1>2, <1>3, <1>4, <1>5, AgentMoves
<1> QED
  BY <1>10 DEF Goal, SpecsDone, Done, AllMade

\* The node has no bridge but those in the map and the one being made.
LEMMA BridgesKnownStep ==
    ASSUME Base, Calm, faults = 0, faults' = 0, [Next]_vars
    PROVE  BridgesKnown'
<1>0. TypeInv /\ Types /\ Roles /\ AckIsError /\ AgentDoes /\ LinkEnds /\ Agent \in Callers
  BY Who DEF Base, Truth, TypeInv
<1>n. "node" \in Namespaces /\ \A p \in Pods : p # "node" /\ p # "none"
  BY Where
<1> SUFFICES ASSUME NEW l \in kern'.links["node"], l.far = "none"
             PROVE  KnownBridge(l.name)'
  BY DEF BridgesKnown
<1>b. PICK b : b = l.name
  OBVIOUS
<1> DEFINE Goal == \/ b \in {"lo", "eth0"} \/ bridgeIdx'[b] # 0
                   \/ /\ pc'[Agent] \in AgentCalls /\ b = Wanted(Agent)'
                      /\ pc'[Agent] = "createBridge" => sock'[Agent].wait # 0
<1>1. ASSUME l \in kern.links["node"] PROVE Goal
  <2>1. b \in {"lo", "eth0"} \cup Bridges /\ KnownBridge(b)
    BY <1>0, <1>1, <1>b DEF LinkEnds, Calm, BridgesKnown
  <2>2. ASSUME /\ pc'[Agent] = pc[Agent] /\ turn' = turn /\ bridgeIdx' = bridgeIdx
               /\ sock[Agent].wait # 0 => sock'[Agent].wait # 0
        PROVE  Goal
    BY <2>1, <2>2, WantedSame DEF KnownBridge
  <2>3. ASSUME bridgeIdx' = bridgeIdx, pc[Agent] \notin AgentCalls PROVE Goal
    BY <2>1, <2>3 DEF KnownBridge
  <2>4. ASSUME Phase PROVE Goal
    BY <1>0, <2>3, <2>4, PhaseTo
  <2>5. ASSUME Opened(Agent) PROVE Goal
    <3>1. pc[Agent] = "open" /\ bridgeIdx' = bridgeIdx
      BY <1>0, <2>5, OpenedTo
    <3> QED
      BY <2>3, <3>1 DEF AgentCalls
  <2>6. ASSUME NEW s, Failed(Agent, s) PROVE Goal
    <3>1. Wanted(Agent) \in {"lo", "eth0"} /\ bridgeIdx' = bridgeIdx
      BY <1>0, <2>6, AgentFails
    <3> QED
      BY <2>1, <3>1 DEF KnownBridge
  <2>7. ASSUME NEW i, Returned(Agent, i) PROVE Goal
    <3>1. AgentReturns
      BY <1>0, <2>7, ReturnedTo
    <3>2. CASE pc[Agent] # "addAddrV4"
      <4>1. /\ pc'[Agent] \in {"linkIndexByName", "addAddrV4"}
            /\ turn' = turn /\ bridgeIdx' = bridgeIdx
        BY <3>1, <3>2 DEF AgentReturns, AgentCalls
      <4> QED
        BY <2>1, <4>1, WantedSame DEF KnownBridge, AgentCalls
    <3>3. CASE pc[Agent] = "addAddrV4"
      <4>1. bridgeIdx' = [bridgeIdx EXCEPT ![Wanted(Agent)] = idx[Agent]]
        BY <3>1, <3>3 DEF AgentReturns
      <4>2. bridgeIdx'[Wanted(Agent)] # 0 /\ \A k \in Bridges : bridgeIdx[k] # 0 => bridgeIdx'[k] # 0
        BY <1>0, <3>3, <4>1, BridgeEntered
      <4> QED
        BY <2>1, <4>2 DEF KnownBridge
    <3> QED
      BY <3>2, <3>3
  <2> HIDE DEF Goal
  <2> QED
    BY <1>0, <2>2, <2>4, <2>5, <2>6, <2>7, AgentMoves
<1>2. ASSUME Added("node", l) PROVE Goal
  <2>1. ~\E p \in Pods : MadePair(p) /\ \E master \in Nat : l = HostEnd(p, master)
    BY <1>n, PairLinkFields
  <2>2. MadeBridge /\ l = NewBridge
    BY <1>n, <1>2, <2>1 DEF Added
  <2>3. Sending(Agent) /\ pc[Agent] = "createBridge" /\ NewBridge \in LinkSet
    BY <2>2 DEF Sending, MadeBridge, Acked
  <2>4. pc' = pc /\ turn' = turn /\ sock'[Agent].wait # 0
    BY <1>0, <2>3, SentStep
  <2>5. b = Wanted(Agent)
    BY <1>b, <2>2, <2>3, BridgeLinkFields
  <2> QED
    BY <2>3, <2>4, <2>5, WantedSame DEF AgentCalls
<1> HIDE DEF Goal
<1>3. Goal
  BY <1>0, <1>n, <1>1, <1>2, LinksKept
<1> QED
  BY <1>b, <1>3 DEF Goal, KnownBridge

-----------------------------------------------------------------------------
(* All of it together. *)

\* Calm holds at first, and is kept by every step that is no fault.
LEMMA CalmInit ==
    ASSUME Init
    PROVE  Base /\ Calm
<1>1. Truth
  BY TruthInit
<1>2. /\ pc = [c \in Callers |-> IF c = Lease THEN "open" ELSE "idle"]
      /\ sock = [c \in Callers |-> NewSocket]
  BY DEF Init
<1>3. /\ \A c \in Callers : sock[c].wait = 0 /\ Unread(sock[c].queue) = {} /\ Acks(c) = {}
      /\ pc[Agent] = "idle" /\ \A p \in Pods : pc[HostOf(p)] = "idle" /\ pc[Cont(p)] = "idle"
  BY <1>2, NewSocketFields, Who DEF Acks
<1>4. "node" \in Namespaces /\ \A p \in Pods : p \in Namespaces /\ p # "node"
  BY Where
<1>5. kern.links["node"] = NodeLinks /\ \A p \in Pods : kern.routes[p] = {}
  BY <1>4 DEF Init
<1>6. \A l \in kern.links["node"] : l.far = "none" /\ l.name \in {"lo", "eth0"}
  BY <1>5 DEF NodeLinks, Link
<1>7. ContMessages /\ ContState
  BY <1>3, <1>5, Who DEF ContMessages, ContState
<1>8. Refusals /\ Lookups /\ PodsReached /\ Outcomes
  BY <1>3, Who DEF Refusals, Lookups, PodsReached, Outcomes
<1>9. SpecsDone /\ PairOfTurn /\ BridgesKnown
  BY <1>3, <1>6 DEF SpecsDone, PairOfTurn, BridgesKnown, KnownBridge, AgentCalls
<1> QED
  BY <1>1, <1>7, <1>8, <1>9 DEF Base, Calm

LEMMA CalmStep ==
    ASSUME Base, NoFault, [Next]_vars
    PROVE  Base' /\ NoFault'
<1>1. Truth /\ TypeInv /\ MessagesTrue /\ ContMessages /\ ContState
  BY DEF Base, Truth
<1>2. Base'
  BY <1>1, TruthStep, ContMessagesStep, ContStateStep DEF Base
<1>3. ASSUME faults' = 0 PROVE Calm'
  <2>1. faults = 0 /\ Calm
    BY <1>1, <1>3, Quiet DEF NoFault
  <2>2. Refusals' /\ Lookups' /\ PodsReached'
    BY <1>3, <2>1, RefusalsStep, LookupsStep, PodsReachedStep
  <2>3. SpecsDone' /\ PairOfTurn' /\ BridgesKnown' /\ Outcomes'
    BY <1>3, <2>1, SpecsDoneStep, PairOfTurnStep, BridgesKnownStep, OutcomesStep
  <2> QED
    BY <2>2, <2>3 DEF Calm
<1> QED
  BY <1>2, <1>3 DEF NoFault

LEMMA CalmAlways == Spec => [](Base /\ NoFault)
<1>1. Init => Base /\ NoFault
  BY CalmInit DEF NoFault
<1>2. Base /\ NoFault /\ [Next]_vars => Base' /\ NoFault'
  BY CalmStep
<1> QED
  BY <1>1, <1>2, PTL DEF Spec

\* A call fails only for a cause: without a fault every bridge is made, save one by
\* the name of the node's own links, and every container reads its route back, save
\* one whose cut name was another's.  The answers that earlier lookups leave in a
\* socket's queue do no harm (linkIndexByName, recvAck, containerVethTest).
THEOREM FailuresHaveCauses == Spec => []NoFailureWithoutCause
<1>1. ASSUME NoFault PROVE NoFailureWithoutCause
  BY <1>1 DEF NoFault, Calm, SpecsDone, Outcomes, AllMade, NoFailureWithoutCause
<1> QED
  BY <1>1, CalmAlways, PTL
=============================================================================
