------------------------------ MODULE Netlink -------------------------------
(***************************************************************************)
(* The RTNETLINK client (netlink_linux.go) under its callers: the DHCP     *)
(* client on eth0, the node agent that makes the bridges on one socket it  *)
(* keeps for all of them, a goroutine for each pod that makes its veth     *)
(* pair, and the pod's container, which sets up its own end.  A socket is  *)
(* a counter of requests and a queue of datagrams.  A lookup returns at    *)
(* the first match and leaves the rest of the kernel's dump in the queue,  *)
(* so what a later call reads first may answer an earlier request.         *)
(***************************************************************************)
EXTENDS Integers, Sequences, FiniteSets, SequencesExt

CONSTANTS
    Ordinary,   \* the pods with a veth pair of their own, in manifest order
    Bridged,    \* the bridged pods, in the order of the specs
    Bridge,     \* per bridged pod: the name of its bridge
    HostName,   \* per pod: "veth-" and its name, cut to ifNameMaxSize
    MaxFaults,  \* bound: how many calls may fail without a reason of their own
    Renewals    \* bound: how often the DHCP lease is renewed

Pods == Range(Ordinary) \cup Range(Bridged)
Bridges == {Bridge[p] : p \in Range(Bridged)}

\* A pod is in one of the two lists, its name is no keyword of the model, and the name
\* of its link begins with "veth-", unlike those of the node's own links.
ASSUME NetlinkAssumption ==
    /\ Range(Ordinary) \cap Range(Bridged) = {}
    /\ Ordinary \in Seq(Pods) /\ Bridged \in Seq(Pods)
    /\ {"node", "none"} \cap Pods = {}
    /\ \A p \in Pods : HostName[p] \notin {"lo", "eth0"}
    /\ MaxFaults \in Nat /\ Renewals \in Nat

\* A caller is its role and its network namespace's owner or pod.
Agent == <<"agent", "node">>
Lease == <<"lease", "node">>
HostOf(p) == <<"host", p>>
Cont(p) == <<"cont", p>>
Callers == {Agent, Lease} \cup {HostOf(p) : p \in Pods} \cup {Cont(p) : p \in Pods}
Namespaces == {"node"} \cup Pods
Ns(c) == IF c[1] = "cont" THEN c[2] ELSE "node"

VARIABLES
    pc,         \* per caller: the netlink call it is in, or where it waits
    sock,       \* per caller: its socket
    kern,       \* the kernel's links, addresses and routes per namespace
    idx,        \* per caller: the interface index a lookup gave it
    bridgeIdx,  \* runBridgedPods: the map bridgeIdx, 0 where it has no entry
    turn,       \* runNodeAgent, runBridgedPods: the spec the loop is at
    route,      \* per pod: what its container printed of the default route
    renewed,    \* how often the lease was renewed
    faults      \* how many faults there were

vars == <<pc, sock, kern, idx, bridgeIdx, turn, route, renewed, faults>>

-----------------------------------------------------------------------------
(* Values.                                                                 *)

None == <<"none", "none">>
HostIP(p) == <<"host", p>>
GatewayIP(b) == <<"gw", b>>
Addresses == {None, <<"lease", "node">>, <<"router", "node">>}
               \cup {HostIP(p) : p \in Pods} \cup {<<"pod", p>> : p \in Pods}
               \cup {GatewayIP(b) : b \in Bridges}

AckCalls == {"createBridge", "createVethPeerNetns", "createVethOnBridge",
             "addAddrV4", "addDefaultRouteV4"}
LinkDumps == {"linkIndexByName", "linkByName"}
Calls == AckCalls \cup LinkDumps \cup {"defaultRouteGateway"}
Places == Calls \cup {"idle", "ordinary", "open", "reopen", "spec", "run", "wait",
                      "fd5", "up", "failed", "gone", "closed"}

\* A message of the kernel, whatever its type: the fields that do not belong to
\* the type are empty.
Msg(seq, type) == [seq |-> seq, type |-> type, err |-> FALSE, name |-> "",
                   idx |-> 0, dst |-> "", gw |-> None]
LinkMsg(seq, l) == [Msg(seq, "NEWLINK") EXCEPT !.name = l.name, !.idx = l.idx]
RouteMsg(seq, r) == [Msg(seq, "NEWROUTE") EXCEPT !.dst = r.dst, !.gw = r.gw]
ErrorMsg(seq, err) == [Msg(seq, "ERROR") EXCEPT !.err = err]

\* A socket: the number of its last request, the one it waits for (0 for none)
\* and its unread datagrams.
Socket(seq, wait, queue) == [seq |-> seq, wait |-> wait, queue |-> queue]
NewSocket == Socket(0, 0, <<>>)

\* A link: its index, the bridge it is a port of (0 for none), and for a veth
\* end the namespace of the other end.
Link(name, i, master, far) == [name |-> name, idx |-> i, master |-> master, far |-> far]
NodeLinks == {Link("lo", 1, 0, "none"), Link("eth0", 2, 0, "none")}

Init ==
    /\ pc = [c \in Callers |-> IF c = Lease THEN "open" ELSE "idle"]
    /\ sock = [c \in Callers |-> NewSocket]
    /\ kern = [links |-> [n \in Namespaces |-> IF n = "node" THEN NodeLinks
                                               ELSE {Link("lo", 1, 0, "none")}],
               addrs |-> [n \in Namespaces |-> {}],
               routes |-> [n \in Namespaces |-> {}],
               next |-> [n \in Namespaces |-> IF n = "node" THEN 3 ELSE 2]]
    /\ idx = [c \in Callers |-> 0]
    /\ bridgeIdx = [b \in Bridges |-> 0]
    /\ turn = 1
    /\ route = [p \in Pods |-> "none"]
    /\ renewed = 0
    /\ faults = 0

-----------------------------------------------------------------------------
(* What each caller asks for, and where a call that returned leaves it.    *)

Wanted(c) == CASE c[1] = "agent" -> Bridge[Bridged[turn]]
               [] c[1] = "host" -> HostName[c[2]]
               [] OTHER -> "eth0"

Address(c) == CASE c[1] = "agent" -> GatewayIP(Bridge[Bridged[turn]])
                [] c[1] = "host" -> HostIP(c[2])
                [] c[1] = "cont" -> <<"pod", c[2]>>
                [] OTHER -> <<"lease", "node">>

\* hostIPEnv: the host's end of the pair, or the gateway on the bridge.
Gateway(c) == IF c = Lease THEN <<"router", "node">>
              ELSE IF c[2] \in Range(Bridged) THEN GatewayIP(Bridge[c[2]])
              ELSE HostIP(c[2])

FirstCall(c) == CASE c = Agent -> "spec"
                  [] c = Lease -> IF idx[c] = 0 THEN "linkByName" ELSE "addAddrV4"
                  [] c[1] = "cont" -> "linkIndexByName"
                  [] OTHER -> IF c[2] \in Range(Bridged) THEN "createVethOnBridge"
                              ELSE "createVethPeerNetns"

AfterSuccess(c) ==
    CASE pc[c] \in {"createBridge", "createVethPeerNetns"} -> "linkIndexByName"
      [] pc[c] = "createVethOnBridge" -> "closed"
      [] pc[c] = "linkIndexByName" -> "addAddrV4"
      [] pc[c] = "linkByName" -> "reopen"
      [] pc[c] = "addAddrV4" -> CASE c = Agent -> "spec"
                                  [] c[1] = "host" -> "closed"
                                  [] OTHER -> "addDefaultRouteV4"
      [] pc[c] = "addDefaultRouteV4" -> IF c = Lease THEN "closed" ELSE "defaultRouteGateway"
      [] OTHER -> "up"

\* The agent goes on to the next spec; a container without a route goes on, one
\* without an address returns FAILED; dhcpFirst returns false, but not for the route;
\* applyLeaseDelta goes on to the route without the address; the others close their
\* socket.
AfterFailure(c) ==
    CASE c = Agent -> IF pc[c] = "open" THEN "closed" ELSE "spec"
      [] c = Lease -> IF renewed = 0 /\ pc[c] # "addDefaultRouteV4" THEN "failed"
                      ELSE IF pc[c] = "addAddrV4" THEN "addDefaultRouteV4" ELSE "closed"
      [] c[1] = "cont" -> IF pc[c] \in {"addDefaultRouteV4", "defaultRouteGateway"}
                          THEN "up" ELSE "failed"
      [] OTHER -> "closed"

\* `continue' and the end of a round of the loop over the specs.
NextTurn(c, to) == turn' = IF c = Agent /\ to = "spec" /\ pc[c] \in Calls THEN turn + 1 ELSE turn

Fault == faults < MaxFaults /\ faults' = faults + 1

\* The call c is in returns with an error, for which the caller gives up or goes on.
Fails(c, s) ==
    /\ pc' = [pc EXCEPT ![c] = AfterFailure(c)]
    /\ sock' = [sock EXCEPT ![c] = s]
    /\ NextTurn(c, AfterFailure(c))
    /\ route' = IF c[1] = "cont" /\ pc[c] \in {"addDefaultRouteV4", "defaultRouteGateway"}
                THEN [route EXCEPT ![c[2]] = "failed"] ELSE route
    /\ UNCHANGED <<kern, idx, bridgeIdx, renewed>>

-----------------------------------------------------------------------------
(* The kernel (external): it handles a request while it is sent, and what  *)
(* it answers is in the queue when sendto returns.                         *)

Alive(n) == n = "node" \/ pc[Cont(n)] # "gone"
Taken(n, name) == \E l \in kern.links[n] : l.name = name

\* A dump arrives in one datagram or in several.
Datagrams(msgs) == {<<msgs>>, [i \in DOMAIN msgs |-> <<msgs[i]>>]}

\* The links of S by index.
Ordered(S) == [i \in 1..Cardinality(S) |->
                  CHOOSE l \in S : Cardinality({m \in S : m.idx <= l.idx}) = i]

WithLink(k, n, l) == [k EXCEPT !.links[n] = @ \cup {l}, !.next[n] = @ + 1]

\* A link whose other end is in another namespace appears in both.
WithPair(name, master, far) ==
    WithLink(WithLink(kern, "node", Link(name, kern.next["node"], master, far)),
             far, Link("eth0", kern.next[far], 0, "node"))

Closed(n) == [links |-> {l \in kern.links["node"] : l.far # n},
              gone |-> {l.idx : l \in {m \in kern.links["node"] : m.far = n}}]

\* The namespace of pod p goes, its end of the pair, and the host's end with it.
WithoutPod(p) ==
    [kern EXCEPT !.links[p] = {}, !.addrs[p] = {}, !.routes[p] = {},
                 !.links["node"] = Closed(p).links,
                 !.addrs["node"] = {a \in @ : a.idx \notin Closed(p).gone}]

-----------------------------------------------------------------------------
(* netlink_linux.go.                                                       *)

\* A container (containerVethTest) opens its socket after the byte on fd 5, which
\* comes when the host's part has returned, link or no link.
Opens(c) == \/ pc[c] \in {"open", "reopen"}
            \/ pc[c] = "fd5" /\ pc[HostOf(c[2])] = "closed"

\* nlOpen: socket and bind.
nlOpen(c) ==
    /\ Opens(c)
    /\ \/ /\ pc' = [pc EXCEPT ![c] = IF pc[c] = "reopen" THEN "addAddrV4" ELSE FirstCall(c)]
          /\ sock' = [sock EXCEPT ![c] = NewSocket]
          /\ UNCHANGED <<kern, idx, bridgeIdx, turn, route, renewed, faults>>
       \/ Fault /\ Fails(c, NewSocket)

\* send: the sequence number is taken also when sendto fails.
Sent(c) == sock[c].seq + 1

Calling(c, call) == pc[c] = call /\ sock[c].wait = 0

SendFails(c) == Fault /\ Fails(c, Socket(Sent(c), 0, sock[c].queue))

Answered(c, datagrams) ==
    /\ sock' = [sock EXCEPT ![c] = Socket(Sent(c), Sent(c), @.queue \o datagrams)]
    /\ UNCHANGED <<pc, idx, bridgeIdx, turn, route, renewed>>

Refused(c) == Answered(c, <<<<ErrorMsg(Sent(c), TRUE)>>>>) /\ UNCHANGED kern

\* A request with NLM_F_ACK: the kernel does it, or refuses it.
Request(c, can, done) ==
    \/ /\ can
       /\ kern' = done
       /\ Answered(c, <<<<ErrorMsg(Sent(c), FALSE)>>>>)
       /\ UNCHANGED faults
    \/ Refused(c) /\ IF can THEN Fault ELSE UNCHANGED faults
    \/ SendFails(c)

\* A request with NLM_F_DUMP.
DumpRequest(c, msgs) ==
    \/ \E ds \in Datagrams(Append(msgs, Msg(Sent(c), "DONE"))) :
          Answered(c, ds) /\ UNCHANGED <<kern, faults>>
    \/ Refused(c) /\ Fault
    \/ SendFails(c)

\* A variant for mutation: without NLM_F_ACK a request that succeeds is not answered.
RequestNoAck(c, can, done) ==
    IF can THEN kern' = done /\ Answered(c, <<>>) /\ UNCHANGED faults
    ELSE Refused(c) /\ UNCHANGED faults

\* NLM_F_CREATE and NLM_F_EXCL: the name must be free in both namespaces.
PairIsNew(name, p) == Alive(p) /\ ~Taken("node", name) /\ ~Taken(p, "eth0")

\* A variant for mutation: without NLM_F_EXCL a link by that name is taken for the new one.
createVethPeerNetnsReplaces(c) ==
    /\ Calling(c, "createVethPeerNetns")
    /\ Request(c, Alive(c[2]), IF Taken("node", HostName[c[2]]) THEN kern
                               ELSE WithPair(HostName[c[2]], 0, c[2]))

createVethPeerNetns(c) ==
    /\ Calling(c, "createVethPeerNetns")
    /\ Request(c, PairIsNew(HostName[c[2]], c[2]), WithPair(HostName[c[2]], 0, c[2]))

createBridge(c) ==
    /\ Calling(c, "createBridge")
    /\ Request(c, ~Taken("node", Wanted(c)),
               WithLink(kern, "node", Link(Wanted(c), kern.next["node"], 0, "none")))

\* The host's end is a port of the bridge from the start.
createVethOnBridge(c) ==
    /\ Calling(c, "createVethOnBridge")
    /\ Request(c, PairIsNew(HostName[c[2]], c[2]),
               WithPair(HostName[c[2]], bridgeIdx[Bridge[c[2]]], c[2]))

\* A variant for mutation.
addAddrV4NoAck(c) ==
    /\ Calling(c, "addAddrV4")
    /\ RequestNoAck(c, \E l \in kern.links[Ns(c)] : l.idx = idx[c],
                    [kern EXCEPT !.addrs[Ns(c)] = @ \cup {[idx |-> idx[c], ip |-> Address(c)]}])

\* NLM_F_CREATE and NLM_F_REPLACE; the kernel adds the connected route by itself.
addAddrV4(c) ==
    /\ Calling(c, "addAddrV4")
    /\ Request(c, \E l \in kern.links[Ns(c)] : l.idx = idx[c],
               [kern EXCEPT !.addrs[Ns(c)] = @ \cup {[idx |-> idx[c], ip |-> Address(c)]},
                            !.routes[Ns(c)] = @ \cup {[dst |-> "subnet", gw |-> None, idx |-> idx[c]]}])

\* NLM_F_CREATE: a default route that is there already is refused (EEXIST).
addDefaultRouteV4(c) ==
    /\ Calling(c, "addDefaultRouteV4")
    /\ Request(c, /\ \E l \in kern.links[Ns(c)] : l.idx = idx[c]
                  /\ ~\E r \in kern.routes[Ns(c)] : r.dst = "default",
               [kern EXCEPT !.routes[Ns(c)] = @ \cup
                   {[dst |-> "default", gw |-> Gateway(c), idx |-> idx[c]]}])

\* RTM_GETLINK: every link of the namespace that is not a port of a bridge.
LinkDump(c) ==
    LET shown == Ordered({l \in kern.links[Ns(c)] : l.master = 0})
    IN  [i \in DOMAIN shown |-> LinkMsg(Sent(c), shown[i])]

linkIndexByName(c) == Calling(c, "linkIndexByName") /\ DumpRequest(c, LinkDump(c))
linkByName(c) == Calling(c, "linkByName") /\ DumpRequest(c, LinkDump(c))

\* RTM_GETROUTE: the connected routes and the default route.
RouteDump(c) ==
    LET shown == SetToSeq(kern.routes[Ns(c)])
    IN  [i \in DOMAIN shown |-> RouteMsg(Sent(c), shown[i])]

defaultRouteGateway(c) == Calling(c, "defaultRouteGateway") /\ DumpRequest(c, RouteDump(c))

\* A variant for mutation: the sequence number is not looked at.
EndsAnySeq(c, m) ==
    \/ m.type \in {"ERROR", "DONE"}
    \/ m.type = "NEWLINK" /\ pc[c] \in LinkDumps /\ m.name = Wanted(c)
    \/ m.type = "NEWROUTE" /\ pc[c] = "defaultRouteGateway" /\ m.dst = "default"

\* A variant for mutation: the name is not compared.
EndsAnyName(c, m) ==
    /\ m.seq = sock[c].wait
    /\ \/ m.type \in {"ERROR", "DONE", "NEWLINK"}
       \/ m.type = "NEWROUTE" /\ pc[c] = "defaultRouteGateway" /\ m.dst = "default"

\* A variant for mutation: the first route of the dump is taken for the default.
EndsAnyRoute(c, m) ==
    /\ m.seq = sock[c].wait
    /\ \/ m.type \in {"ERROR", "DONE", "NEWROUTE"}
       \/ m.type = "NEWLINK" /\ pc[c] \in LinkDumps /\ m.name = Wanted(c)

\* What ends the loop over the messages: `continue' for another request's
\* sequence number, for a link by another name and for a route to a subnet.
Ends(c, m) ==
    /\ m.seq = sock[c].wait
    /\ \/ m.type \in {"ERROR", "DONE"}
       \/ m.type = "NEWLINK" /\ pc[c] \in LinkDumps /\ m.name = Wanted(c)
       \/ m.type = "NEWROUTE" /\ pc[c] = "defaultRouteGateway" /\ m.dst = "default"

\* NLMSG_DONE is success for recvAck, "not found" for a link, nil for a route.
Succeeds(c, m) ==
    CASE pc[c] \in AckCalls -> m.type = "DONE" \/ ~m.err
      [] pc[c] \in LinkDumps -> m.type = "NEWLINK"
      [] OTHER -> m.type # "ERROR"

\* The call returns what message m says; the rest of its datagram is dropped.
Returns(c, m, s) ==
    IF Succeeds(c, m)
    THEN /\ pc' = [pc EXCEPT ![c] = AfterSuccess(c)]
         /\ sock' = [sock EXCEPT ![c] = s]
         /\ idx' = IF pc[c] \in LinkDumps THEN [idx EXCEPT ![c] = m.idx] ELSE idx
         /\ bridgeIdx' = IF c = Agent /\ pc[c] = "addAddrV4"
                         THEN [bridgeIdx EXCEPT ![Wanted(c)] = idx[c]] ELSE bridgeIdx
         /\ route' = IF pc[c] = "defaultRouteGateway"
                     THEN [route EXCEPT ![c[2]] = IF m.gw = Gateway(c) THEN "read back"
                                                  ELSE "mismatch"]
                     ELSE route
         /\ NextTurn(c, AfterSuccess(c))
         /\ UNCHANGED <<kern, renewed>>
    ELSE Fails(c, s)

\* One round of the receive loop: a datagram, and its messages in order.
Receive(c) ==
    /\ pc[c] \in Calls /\ sock[c].wait # 0 /\ sock[c].queue # <<>>
    /\ LET d == Head(sock[c].queue)
           rest == Tail(sock[c].queue)
           hits == {i \in DOMAIN d : Ends(c, d[i])}
       IN  \/ /\ hits = {}
              /\ sock' = [sock EXCEPT ![c].queue = rest]
              /\ UNCHANGED <<pc, kern, idx, bridgeIdx, turn, route, renewed>>
           \/ \E i \in hits :
                 /\ \A j \in hits : i <= j
                 /\ Returns(c, d[i], Socket(sock[c].seq, 0, rest))
    /\ UNCHANGED faults

\* Recvfrom fails, or what it read does not parse: the request may have been done.
ReceiveFails(c) ==
    /\ pc[c] \in Calls /\ sock[c].wait # 0 /\ sock[c].queue # <<>>
    /\ Fault
    /\ \E q \in {sock[c].queue, Tail(sock[c].queue)} :
          Fails(c, Socket(sock[c].seq, 0, q))

-----------------------------------------------------------------------------
(* The callers.                                                            *)

Goto(c, to) == pc' = [pc EXCEPT ![c] = to]
OnlyPc == UNCHANGED <<sock, kern, idx, bridgeIdx, route, renewed, faults>>

\* dhcpFirst is over when the agent starts; runNodeAgent starts with the pods
\* that are not bridged.
AgentStarts ==
    /\ pc[Agent] = "idle" /\ pc[Lease] \in {"closed", "failed"}
    /\ Goto(Agent, "ordinary") /\ UNCHANGED turn /\ OnlyPc

\* runPod: one pod after the other.
RunOrdinary ==
    /\ pc[Agent] = "ordinary" /\ turn <= Len(Ordinary)
    /\ LET p == Ordinary[turn]
       IN  /\ pc[Cont(p)] = "idle"
           /\ pc' = [pc EXCEPT ![HostOf(p)] = "open", ![Cont(p)] = "fd5"]
    /\ UNCHANGED turn /\ OnlyPc

\* waitPod returns when the container has exited, or when one that was killed is
\* still there after the grace period.
WaitOrdinary ==
    /\ pc[Agent] = "ordinary" /\ turn <= Len(Ordinary)
    /\ LET p == Ordinary[turn]
       IN  /\ pc[HostOf(p)] = "closed"
           /\ IF pc[Cont(p)] = "gone" THEN UNCHANGED faults ELSE Fault
    /\ turn' = turn + 1
    /\ UNCHANGED <<pc, sock, kern, idx, bridgeIdx, route, renewed>>

RunBridged ==
    /\ pc[Agent] = "ordinary" /\ turn > Len(Ordinary)
    /\ turn' = 1
    /\ Goto(Agent, "open") /\ OnlyPc

\* The loop over the specs: a bridge that is in the map is done.
NextSpec ==
    /\ pc[Agent] = "spec"
    /\ CASE turn > Len(Bridged) -> Goto(Agent, "run") /\ UNCHANGED turn
         [] turn <= Len(Bridged) /\ bridgeIdx[Bridge[Bridged[turn]]] # 0 -> turn' = turn + 1 /\ UNCHANGED pc
         [] OTHER -> Goto(Agent, "createBridge") /\ UNCHANGED turn
    /\ OnlyPc

Launched == {p \in Range(Bridged) : bridgeIdx[Bridge[p]] # 0}

\* A goroutine for every bridged pod whose bridge is in the map.
LaunchBridged ==
    /\ pc[Agent] = "run"
    /\ pc' = [c \in Callers |-> CASE c = Agent -> "wait"
                                  [] c[1] = "host" /\ c[2] \in Launched -> "open"
                                  [] c[1] = "cont" /\ c[2] \in Launched -> "fd5"
                                  [] OTHER -> pc[c]]
    /\ UNCHANGED turn /\ OnlyPc

WaitBridged ==
    /\ pc[Agent] = "wait"
    /\ \A p \in Launched : pc[HostOf(p)] = "closed" /\ pc[Cont(p)] = "gone"
    /\ Goto(Agent, "closed") /\ UNCHANGED turn /\ OnlyPc

\* The container exits, or is killed at any point.
ContainerEnds(p) ==
    /\ pc[Cont(p)] \notin {"idle", "gone"}
    /\ IF pc[Cont(p)] \in {"up", "failed"} THEN UNCHANGED faults ELSE Fault
    /\ Goto(Cont(p), "gone")
    /\ kern' = WithoutPod(p)
    /\ sock' = [sock EXCEPT ![Cont(p)] = NewSocket]
    /\ UNCHANGED <<idx, bridgeIdx, turn, route, renewed>>

\* applyLeaseDelta, in a goroutine of its own while the agent runs, which dhcpFirst
\* starts when it returns true.
Renew ==
    /\ pc[Lease] = "closed" /\ renewed < Renewals
    /\ renewed' = renewed + 1
    /\ Goto(Lease, "open")
    /\ UNCHANGED <<sock, kern, idx, bridgeIdx, turn, route, faults>>

Call(c) ==
    \/ nlOpen(c)
    \/ createBridge(c) \/ createVethPeerNetns(c) \/ createVethOnBridge(c)
    \/ addAddrV4(c) \/ addDefaultRouteV4(c)
    \/ linkIndexByName(c) \/ linkByName(c) \/ defaultRouteGateway(c)

Next ==
    \/ \E c \in Callers : Call(c) \/ Receive(c) \/ ReceiveFails(c)
    \/ AgentStarts \/ RunOrdinary \/ WaitOrdinary \/ RunBridged \/ NextSpec \/ LaunchBridged \/ WaitBridged
    \/ \E p \in Pods : ContainerEnds(p)
    \/ Renew

\* The machine runs: as long as some process can take a step, one does.  What
\* the kernel answered is in the queue when sendto returns, so that a receive is
\* blocked only where there is no answer.
Fairness == WF_vars(Next)

Spec == Init /\ [][Next]_vars /\ Fairness

-----------------------------------------------------------------------------
(* Properties.                                                             *)

LinkNames == {"lo", "eth0"} \cup Bridges \cup {HostName[p] : p \in Pods}
Message == [seq : Nat, type : {"ERROR", "DONE", "NEWLINK", "NEWROUTE"}, err : BOOLEAN,
            name : LinkNames \cup {""}, idx : Nat, dst : {"", "subnet", "default"},
            gw : Addresses]

\* Every caller is at a call or a waiting point of the code, its socket holds
\* messages of the kernel, and a call waits for the request sent last
\* (nlSocket, send).
TypeOK ==
    /\ pc \in [Callers -> Places]
    /\ \A c \in Callers :
          /\ sock[c].wait \in {0, sock[c].seq}
          /\ \A i \in DOMAIN sock[c].queue : \A j \in DOMAIN sock[c].queue[i] :
                sock[c].queue[i][j] \in Message
    /\ idx \in [Callers -> Nat] /\ bridgeIdx \in [Bridges -> Nat]
    /\ turn \in 1..(Len(Ordinary) + Len(Bridged) + 1)
    /\ route \in [Pods -> {"none", "failed", "mismatch", "read back"}]
    /\ renewed \in 0..Renewals /\ faults \in 0..MaxFaults

\* The host's address of a pod is only ever on the pair that leads to that pod,
\* also when two names are the same once they are cut (hostSetupVeth), and a
\* gateway address only on its bridge (runBridgedPods).
AddressOnOwnLink ==
    \A a \in kern.addrs["node"], l \in kern.links["node"] :
        a.idx = l.idx =>
            /\ a.ip[1] = "host" => l.far = a.ip[2]
            /\ a.ip[1] = "gw" => l.name = a.ip[2]
            /\ a.ip[1] = "lease" => l.name = "eth0"

\* Names, indices and addresses fit together, in a well-formed state
\* (hostSetupVeth, runBridgedPods).
LinksFit == TypeOK /\ AddressOnOwnLink

\* What a call reports is so: a bridge that is in the map has its gateway
\* address (pods are launched on it), and a route a container has read back is
\* the default route by its own gateway (recvAck, defaultRouteGateway).
ReportedMeansDone ==
    /\ \A b \in Bridges : bridgeIdx[b] # 0 =>
          [idx |-> bridgeIdx[b], ip |-> GatewayIP(b)] \in kern.addrs["node"]
    /\ \A p \in Pods : route[p] = "read back" /\ Alive(p) =>
          [dst |-> "default", gw |-> Gateway(Cont(p)), idx |-> idx[Cont(p)]] \in kern.routes[p]

\* The name of pod p's link is also a bridge's, or that of a pod that was run.
NameTaken(p) ==
    \/ HostName[p] \in Bridges
    \/ \E q \in Pods \ {p} : HostName[q] = HostName[p] /\ pc[HostOf(q)] # "idle"

\* A call fails only for a cause: without a fault every bridge is made, save one
\* that is to have the name of the node's own links, and every container finds
\* eth0, gets its address and reads its route back, save one whose cut name was
\* another's (the answers of earlier dumps that are left in a socket's queue do
\* no harm).
NoFailureWithoutCause ==
    faults = 0 =>
        /\ pc[Agent] \in {"run", "wait", "closed"} =>
              \A b \in Bridges \ {"lo", "eth0"} : bridgeIdx[b] # 0
        /\ \A p \in Pods :
              /\ pc[Cont(p)] = "up" => route[p] = "read back"
              /\ pc[Cont(p)] = "failed" => NameTaken(p)

\* The agent and the lease get through all their netlink calls, whatever fails:
\* no call waits for an answer that does not come.
CallsReturn == <>(pc[Agent] = "closed") /\ <>[](pc[Lease] \in {"closed", "failed"})
=============================================================================
