---------------------------- MODULE BridgedTests ----------------------------
(***************************************************************************)
(* The network tests that the bridged pods run against each other, inside  *)
(* their containers (containerVethTest): pings, datagrams from pod to pod, *)
(* the Service behind a virtual address, kube-proxy's Service, the router  *)
(* between bridges and the masquerading uplink.  Every pod runs its own    *)
(* tests one after the other, so that a slow test of one pod is the other  *)
(* pods' skew; nothing but retries and time limits keeps them together,    *)
(* and the agent kills a pod after a minute.  Time is in seconds: Tick     *)
(* lets one pass when nobody has anything to do now.                       *)
(***************************************************************************)
EXTENDS Integers, FiniteSets, SequencesExt

CONSTANTS
    None,          \* a field that the manifest does not set
    Topologies,    \* the sets of manifests: per pod its spec, and a bound on the
                   \* messages lost and the binds and NAT rules that fail
    Delays,        \* how long after the first pod another one may come up
    ConnectTimes,  \* after how long the kernel gives up an unanswered connect
    Refusals,      \* whether the kernel answers a datagram for an unbound port
    MaxAbsent      \* bound: the pods that fail to launch

ASSUME BridgedAssumption ==
    /\ Delays \subseteq Nat /\ 0 \in Delays
    /\ ConnectTimes \subseteq Nat \ {0}
    /\ Refusals \subseteq BOOLEAN
    /\ MaxAbsent \in Nat
    /\ \A t \in Topologies : t.faults \in Nat

VARIABLES
    net,    \* the manifests, the NAT rules and how this kernel behaves
    pod,    \* per pod: its container
    sock,   \* per pod and name: the sockets that others send to
    faults  \* history: what went wrong so far

vars == <<net, pod, sock, faults>>

-----------------------------------------------------------------------------
(* The manifests and the order of a pod's tests.                           *)

Pods == DOMAIN net.spec

\* Roles by address: the lower one listens, the higher one sends.
Listens(s) == s.ip < s.peer

\* A variant for mutation: the listener binds after its pings.
PeerTestsBindLate(s) ==
    IF s.peer = 0 THEN <<>>
    ELSE IF Listens(s) THEN <<"icmp", "bind", "receive">> ELSE <<"icmp", "send">>

PeerTests(s) ==
    IF s.peer = 0 THEN <<>>
    ELSE IF Listens(s) THEN <<"bind", "icmp", "receive">> ELSE <<"icmp", "send">>

ServiceTests ==
    [none |-> <<>>, backend |-> <<"svc">>, client |-> <<"udp", "tcp">>,
     kpbackend |-> <<"kps">>, kpclient |-> <<"kp">>]

CrossTests(s) == IF s.cross = 0 THEN <<>> ELSE <<"cross">>

MasqTests == [none |-> <<>>, server |-> <<"masqs">>, client |-> <<"masq">>]

\* The tests of a pod, as containerVethTest runs them.
containerVethTest(s) ==
    <<"gateway">> \o PeerTests(s) \o ServiceTests[s.svc] \o CrossTests(s)
                  \o MasqTests[s.masq] \o <<"host">>

\* The loops of the tests that ask and wait: a number of rounds, tries in the
\* first one (one in the others), the wait for an answer, the pause before the
\* next try.
Loop(rounds, tries, wait, pause) ==
    [rounds |-> rounds, tries |-> tries, wait |-> wait, pause |-> pause]

\* Variants for mutation: no retry, and a longer wait.
masqClientOnce == Loop(1, 1, 2, 1)
serviceClientPatient == Loop(8, 5, 7, 1)

icmpPingTest == Loop(1, 1, 5, 0)
hostDatagram == Loop(1, 1, 5, 0)
containerPeerTest == Loop(1, 3, 5, 2)
containerCrossPingTest == Loop(1, 6, 5, 2)
podUDPReceive == Loop(1, 1, 12, 0)
podUDPSend == Loop(1, 10, 0, 1)
serviceClient == Loop(8, 5, 2, 1)
serviceClientTCP == Loop(1, 6, 3, 1)
kpClient == Loop(10, 6, 3, 1)
masqClient == Loop(1, 8, 2, 1)

Asks == [gateway |-> icmpPingTest, icmp |-> containerPeerTest,
         cross |-> containerCrossPingTest, host |-> hostDatagram,
         receive |-> podUDPReceive, send |-> podUDPSend, udp |-> serviceClient,
         tcp |-> serviceClientTCP, kp |-> kpClient, masq |-> masqClient]

\* The listeners of the tests that serve, and how long each one listens: a UDP
\* endpoint for four seconds after every datagram, the others once.
Listeners == [svc |-> {"tcp", "udp1", "udp2"}, kps |-> {"kp"}, masqs |-> {"masq"}]
Window == [tcp |-> 12, udp1 |-> 4, udp2 |-> 4, kp |-> 12, masq |-> 20]
ReadWindow == 4   \* of a TCP connection that serviceBackendTCP has accepted
Rearmed == {"udp1", "udp2"}
OneShot == {"tcp", "masq"}

Watchdog == 60

SockNames == {"peer"} \cup DOMAIN Window
Tests == DOMAIN Asks \cup DOMAIN Listeners \cup {"bind"}

-----------------------------------------------------------------------------
(* The start.                                                              *)

Off(p, delay) ==
    [st |-> "off", todo |-> containerVethTest(net.spec[p]), round |-> 1, try |-> 1,
     left |-> delay, ok |-> 0, by |-> {}, dst |-> None, age |-> 0,
     report |-> [t \in Tests |-> "none"]]

Unbound == [st |-> "unbound", left |-> 0, used |-> FALSE]

\* The rules that the Service, kube-proxy's Service and the uplink ask for.
Endpoints(spec) ==
    {<<q, n>> \in (DOMAIN spec) \X {"udp1", "udp2", "tcp"} : spec[q].svc = "backend"}
        \cup {<<q, n>> \in (DOMAIN spec) \X {"kp"} : spec[q].svc = "kpbackend"}
        \cup {<<q, n>> \in (DOMAIN spec) \X {"masq"} : spec[q].masq = "server"}

\* addServiceDNAT and addMasqUplink may fail: the agent says so and goes on.
addServiceDNAT(spec, missing) == Endpoints(spec) \ missing

Init ==
    /\ \E t \in Topologies, refuses \in Refusals, connect \in ConnectTimes :
        \E absent \in SUBSET DOMAIN t.spec, missing \in SUBSET Endpoints(t.spec) :
            /\ Cardinality(absent) <= MaxAbsent
            /\ Cardinality(missing) <= t.faults
            /\ net = [spec |-> t.spec, rules |-> addServiceDNAT(t.spec, missing),
                      absent |-> absent, refuses |-> refuses, connect |-> connect,
                      budget |-> t.faults]
            /\ faults = SetToSeq({<<"rule", e[1], e[2]>> : e \in missing})
    /\ \E delay \in [Pods -> Delays] :
        /\ \E p \in Pods : delay[p] = 0
        /\ pod = [p \in Pods |-> Off(p, delay[p])]
    /\ sock = [p \in Pods |-> [n \in SockNames |-> Unbound]]

-----------------------------------------------------------------------------
(* How a pod goes on.                                                      *)

Test(p) == Head(pod[p].todo)

\* The container runs: its addresses answer.
Up(p) == pod[p].st \notin {"off", "exited", "killed"}

PodAt(ip) == {q \in Pods : net.spec[q].ip = ip}

\* Something goes wrong for pod p: a message of its test, a bind.
Fails(p, what) == Len(faults) < net.budget /\ faults' = Append(faults, <<what, p, Test(p)>>)

\* What a test prints when it is over.
Verdict(r) ==
    LET test == Head(r.todo) IN
    CASE r.ok = 0 -> "failed"
      [] test = "udp" /\ r.ok < serviceClient.rounds -> "partial"
      [] test = "kp" /\ Cardinality(r.by) > 1 -> "balanced"
      [] test = "svc" /\ Rearmed \subseteq r.by -> "balanced"
      [] OTHER -> "ok"

\* The record of a pod whose current test is over.
Over(r) ==
    LET rest == Tail(r.todo) IN
    [r EXCEPT !.report[Head(r.todo)] = Verdict(r), !.todo = rest,
              !.st = IF rest = <<>> THEN "exited" ELSE "ready",
              !.round = 1, !.try = 1, !.left = 0, !.ok = 0, !.by = {}, !.dst = None]

\* The record of a pod whose current round is over.
RoundOver(r) ==
    IF r.round < Asks[Head(r.todo)].rounds
    THEN [r EXCEPT !.st = "ready", !.round = @ + 1, !.try = 1, !.left = 0, !.dst = None]
    ELSE Over(r)

Answered(r, via) == RoundOver([r EXCEPT !.ok = @ + 1, !.by = @ \cup {via}])

\* A try without an answer: the first round has several.
Missed(r) ==
    LET loop == Asks[Head(r.todo)] IN
    IF r.round = 1 /\ r.try < loop.tries
    THEN [r EXCEPT !.st = "pause", !.try = @ + 1, !.left = loop.pause, !.dst = None]
    ELSE RoundOver(r)

Waiting(r) == [r EXCEPT !.st = "wait", !.left = Asks[Head(r.todo)].wait]

Set(p, r) == pod' = [pod EXCEPT ![p] = r]

Start(p) ==
    /\ pod[p].st = "off" /\ pod[p].left = 0 /\ p \notin net.absent
    /\ Set(p, [pod[p] EXCEPT !.st = "ready"])
    /\ UNCHANGED <<net, sock, faults>>

\* A pause is over, or the wait for an answer.
Resume(p) ==
    /\ pod[p].left = 0
    /\ \/ pod[p].st = "pause" /\ Set(p, [pod[p] EXCEPT !.st = "ready"])
       \/ pod[p].st \in {"wait", "dial"} /\ Set(p, Missed(pod[p]))
    /\ UNCHANGED <<net, sock, faults>>

\* waitPod kills the container.
Kill(p) ==
    /\ Up(p) /\ pod[p].age = Watchdog
    /\ Set(p, [pod[p] EXCEPT !.st = "killed"])
    /\ UNCHANGED <<net, sock, faults>>

-----------------------------------------------------------------------------
(* The tests that ask.                                                     *)

Turn(p, tests) == pod[p].st = "ready" /\ Test(p) \in tests

\* One echo to the gateway, the peer or the pod behind the router; the kernel
\* answers for a pod that is up.  The gateway and the agent's datagram (the
\* last test) are always there.
Ping(p) ==
    /\ Turn(p, {"gateway", "host", "icmp", "cross"})
    /\ LET s == net.spec[p]
           there == CASE Test(p) = "icmp" -> \E q \in PodAt(s.peer) : Up(q)
                      [] Test(p) = "cross" -> \E q \in PodAt(s.cross) : Up(q)
                      [] OTHER -> TRUE
       IN \/ there /\ Set(p, Answered(pod[p], "kernel")) /\ UNCHANGED faults
          \/ there /\ Fails(p, "lost") /\ Set(p, Waiting(pod[p]))
          \/ ~there /\ Set(p, Waiting(pod[p])) /\ UNCHANGED faults
    /\ UNCHANGED <<net, sock>>

\* The listener of the peer test binds before its pings; when it cannot, it
\* does not receive.
BindPeer(p) ==
    /\ Turn(p, {"bind"})
    /\ \/ /\ Set(p, Over([pod[p] EXCEPT !.ok = 1]))
          /\ sock' = [sock EXCEPT ![p].peer.st = "open"]
          /\ UNCHANGED faults
       \/ /\ Fails(p, "bind")
          /\ Set(p, Over([pod[p] EXCEPT
                            !.todo = SelectSeq(@, LAMBDA t : t # "receive")]))
          /\ UNCHANGED sock
    /\ UNCHANGED net

\* The listener's socket is open until its peer test is over.
PeerOpen(q) ==
    /\ Up(q) /\ sock[q].peer.st = "open"
    /\ "receive" \in Range(pod[q].todo)

\* One of the ten datagrams; nothing tells the sender what became of it.
SendPeer(p) ==
    /\ Turn(p, {"send"})
    /\ LET open == {q \in PodAt(net.spec[p].peer) : PeerOpen(q)}
       IN \/ /\ sock' = [q \in Pods |-> IF q \in open THEN [sock[q] EXCEPT !.peer.used = TRUE]
                                                     ELSE sock[q]]
             /\ UNCHANGED faults
          \/ open # {} /\ Fails(p, "lost") /\ UNCHANGED sock
    /\ Set(p, Missed([pod[p] EXCEPT !.ok = 1]))
    /\ UNCHANGED net

\* The listener reads a datagram, at once when the kernel has kept one for it.
Receive(p) ==
    /\ Turn(p, {"receive"}) \/ (pod[p].st = "wait" /\ Test(p) = "receive")
    /\ IF sock[p].peer.used THEN Set(p, Answered(pod[p], "peer"))
       ELSE pod[p].st = "ready" /\ Set(p, Waiting(pod[p]))
    /\ UNCHANGED <<net, sock, faults>>

\* The endpoints to which the kernel may hand a new flow of the test.
Backends(p) ==
    CASE Test(p) = "udp" -> {e \in net.rules : e[2] \in Rearmed}
      [] Test(p) = "tcp" -> {e \in net.rules : e[2] = "tcp"}
      [] Test(p) = "kp" -> {e \in net.rules : e[2] = "kp"}
      [] OTHER -> PodAt(net.spec[p].target) \X {"masq"}

Open(e) == Up(e[1]) /\ sock[e[1]][e[2]].st = "open"

\* serviceBackendTCP has accepted a connection and waits for its request.
Reading(e) == Up(e[1]) /\ sock[e[1]][e[2]].st = "reading"

SetSock(e, r) == sock' = [sock EXCEPT ![e[1]][e[2]] = r]

\* The endpoint has answered: its window starts again, or it is closed.
Served(e) ==
    SetSock(e, [sock[e[1]][e[2]] EXCEPT
                  !.used = TRUE,
                  !.left = IF e[2] \in Rearmed THEN Window[e[2]] ELSE @,
                  !.st = IF e[2] \in OneShot THEN "closed" ELSE @])

\* A datagram that is lost is not noticed.  serviceBackendTCP has accepted the
\* connection and reads for four seconds; kpBackend does not look at what it
\* reads, and answers.
RequestLost(e) ==
    CASE e[2] = "tcp" -> SetSock(e, [sock[e[1]][e[2]] EXCEPT !.st = "reading", !.left = ReadWindow])
      [] e[2] = "kp" -> Served(e)
      [] OTHER -> UNCHANGED sock

\* An endpoint that cannot write its answer gives up; only kpBackend goes on.
ReplyFails(e) ==
    /\ e[2] \in Rearmed \cup OneShot
    /\ SetSock(e, [sock[e[1]][e[2]] EXCEPT !.st = "closed"])

\* One request to an endpoint that is open: it is answered; it is lost, on the way
\* there or back; the endpoint cannot write its answer; or the answer comes from an
\* address that is not the Service's, after which serviceClient returns.
Exchange(p, e) ==
    \/ Served(e) /\ Set(p, Answered(pod[p], e)) /\ UNCHANGED faults
    \/ RequestLost(e) /\ Set(p, Waiting(pod[p])) /\ Fails(p, "lost")
    \/ Served(e) /\ Set(p, Waiting(pod[p])) /\ Fails(p, "lost")
    \/ ReplyFails(e) /\ Set(p, Waiting(pod[p])) /\ Fails(p, "reply")
    \/ /\ Test(p) = "udp" /\ Served(e) /\ Fails(p, "reverseNAT")
       /\ Set(p, Over([pod[p] EXCEPT !.ok = 0]))

\* serviceClientSendOnce and the body of masqClient's loop: a datagram over a
\* fresh socket, and the wait for its answer.
SendOnce(p) ==
    /\ Turn(p, {"udp", "masq"})
    /\ \/ \E e \in Backends(p) : Open(e) /\ Exchange(p, e)
       \/ /\ \/ Backends(p) = {}
             \/ \E e \in Backends(p) : ~Open(e) /\ ~(Up(e[1]) /\ net.refuses)
          /\ Set(p, Waiting(pod[p])) /\ UNCHANGED <<sock, faults>>
       \/ /\ \E e \in Backends(p) : ~Open(e) /\ Up(e[1]) /\ net.refuses
          /\ Set(p, Missed(pod[p])) /\ UNCHANGED <<sock, faults>>
    /\ UNCHANGED net

\* The SYN has reached the pod of endpoint e.  A pod that is up refuses it when
\* nobody listens on the port; the kernel completes it when the listener is busy.
Connect(p, e) ==
    \/ Open(e) /\ Exchange(p, e)
    \/ Reading(e) /\ Set(p, Waiting(pod[p])) /\ UNCHANGED <<sock, faults>>
    \/ ~Open(e) /\ ~Reading(e) /\ Set(p, Missed(pod[p])) /\ UNCHANGED <<sock, faults>>

\* kpClientOnce and the body of serviceClientTCP's loop: a connection.  Without
\* any answer the dial waits for as long as the kernel tries, for it has no
\* deadline.
Dial(p) ==
    /\ Turn(p, {"tcp", "kp"})
    /\ \/ \E e \in Backends(p) : Up(e[1]) /\ Connect(p, e)
       \/ /\ \E dst \in IF Backends(p) = {} THEN {None} ELSE {e \in Backends(p) : ~Up(e[1])} :
                Set(p, [pod[p] EXCEPT !.st = "dial", !.left = net.connect, !.dst = dst])
          /\ UNCHANGED <<sock, faults>>
    /\ UNCHANGED net

\* The kernel repeats the SYN: a pod that has come up answers.
Redial(p) ==
    /\ pod[p].st = "dial" /\ pod[p].dst # None /\ Up(pod[p].dst[1])
    /\ Connect(p, pod[p].dst)
    /\ UNCHANGED net

-----------------------------------------------------------------------------
(* The tests that serve.                                                   *)

\* serviceBackend, kpBackend and masqServer start.
Serve(p) ==
    /\ Turn(p, DOMAIN Listeners)
    /\ Set(p, [pod[p] EXCEPT !.st = "serve"])
    /\ sock' = [sock EXCEPT ![p] =
                  [n \in SockNames |-> IF n \in Listeners[Test(p)]
                                       THEN [@[n] EXCEPT !.st = "binding"] ELSE @[n]]]
    /\ UNCHANGED <<net, faults>>

\* A listener is bound: that of TCP first, those of UDP each in a goroutine.
BindListener(p, n) ==
    /\ sock[p][n].st = "binding" /\ Up(p)
    /\ n \in Rearmed => sock[p].tcp.st # "binding"
    /\ \/ /\ sock' = [sock EXCEPT ![p][n] = [@ EXCEPT !.st = "open", !.left = Window[n]]]
          /\ UNCHANGED faults
       \/ /\ Fails(p, "bind")
          /\ sock' = [sock EXCEPT ![p][n].st = "closed"]
    /\ UNCHANGED <<net, pod>>

\* A listener's deadline: it has heard nothing more in its window, or the
\* connection it accepted has sent nothing.
CloseListener(p, n) ==
    /\ Up(p) /\ n \in DOMAIN Window
    /\ sock[p][n].st \in {"open", "reading"} /\ sock[p][n].left = 0
    /\ sock' = [sock EXCEPT ![p][n].st = "closed"]
    /\ UNCHANGED <<net, pod, faults>>

\* All listeners are closed: the test reports what they served.  masqServer
\* fails when the source it saw was not masqueraded.
ServeEnds(p) ==
    /\ pod[p].st = "serve"
    /\ \A n \in Listeners[Test(p)] : sock[p][n].st = "closed"
    /\ LET served == {n \in Listeners[Test(p)] :
                        sock[p][n].used /\ (n = "masq" => <<p, n>> \in net.rules)} IN
       Set(p, Over([pod[p] EXCEPT !.ok = Cardinality(served),
                                  !.by = served]))
    /\ UNCHANGED <<net, sock, faults>>

-----------------------------------------------------------------------------
(* Time.                                                                   *)

TimerRuns(p) == Up(p) /\ pod[p].st # "serve"

\* Nobody has anything to do before the next second.
Quiet(p) ==
    /\ pod[p].st # "ready"
    /\ pod[p].st = "off" => p \in net.absent \/ pod[p].left > 0
    /\ TimerRuns(p) => pod[p].left > 0
    /\ Up(p) => pod[p].age < Watchdog
    /\ (pod[p].st = "wait" /\ Test(p) = "receive") => ~sock[p].peer.used
    /\ (pod[p].st = "dial" /\ pod[p].dst # None) => ~Up(pod[p].dst[1])
    /\ pod[p].st = "serve" =>
        /\ \A n \in Listeners[Test(p)] :
            /\ sock[p][n].st # "binding"
            /\ sock[p][n].st \in {"open", "reading"} => sock[p][n].left > 0
        /\ \E n \in Listeners[Test(p)] : sock[p][n].st # "closed"

Tick ==
    /\ \A p \in Pods : Quiet(p)
    /\ \E p \in Pods : Up(p) \/ (pod[p].st = "off" /\ p \notin net.absent)
    /\ pod' = [p \in Pods |->
                [pod[p] EXCEPT !.left = IF @ > 0 /\ (TimerRuns(p) \/ pod[p].st = "off")
                                        THEN @ - 1 ELSE @,
                               !.age = IF Up(p) THEN @ + 1 ELSE @]]
    /\ sock' = [p \in Pods |-> [n \in SockNames |->
                [sock[p][n] EXCEPT !.left = IF @ > 0 /\ sock[p][n].st \in {"open", "reading"}
                                            THEN @ - 1 ELSE @]]]
    /\ UNCHANGED <<net, faults>>

Next ==
    \/ \E p \in Pods :
        \/ Start(p) \/ Resume(p) \/ Kill(p)
        \/ Ping(p) \/ BindPeer(p) \/ SendPeer(p) \/ Receive(p)
        \/ SendOnce(p) \/ Dial(p) \/ Redial(p)
        \/ Serve(p) \/ ServeEnds(p)
        \/ \E n \in SockNames : BindListener(p, n) \/ CloseListener(p, n)
    \/ Tick

Spec == Init /\ [][Next]_vars

-----------------------------------------------------------------------------
(* Properties.                                                             *)

\* An echo request or answer of pod p was lost.
EchoLost(p) ==
    \E i \in DOMAIN faults : faults[i] \in {"lost"} \X {p} \X {"gateway", "icmp"}

\* The listener of the peer test gets one of its peer's ten datagrams
\* (containerPeerTest binds before it pings, so that the kernel keeps what
\* comes early), even when echoes of its own and datagrams are lost: it fails
\* only if nobody sends to it, or its sender lost an echo and came too late
\* for the twelve seconds of podUDPReceive.
PeerDatagramArrives ==
    \A p \in Pods : pod[p].report["receive"] = "failed" =>
        \A q \in Pods : net.spec[q].peer = net.spec[p].ip /\ ~Listens(net.spec[q])
                            => q \in net.absent \/ EchoLost(q)

\* A backend of kube-proxy's Service that listens for a datagram which nobody
\* sends: as kpb2, whose peer sends to kpb1.
Unsent(q) ==
    /\ net.spec[q].svc = "kpbackend" /\ net.spec[q].peer # 0 /\ Listens(net.spec[q])
    /\ ~\E r \in PodAt(net.spec[q].peer) : net.spec[r].peer = net.spec[q].ip

\* Retries absorb the skew: when nothing fails, no pod's pings, Service tests
\* and masquerade test all go unanswered, although the Service's backend is
\* busy with ten datagrams while its client already sends.  There are two
\* exceptions.  Where the kernel refuses datagrams for unbound ports, the tries
\* of serviceClient and serviceClientTCP are over too soon.  And kpClient's six
\* tries are not enough for a backend that sits out the twelve seconds of
\* podUDPReceive for nothing, as one does in the kube-proxy demo.
SkewAbsorbed ==
    faults = <<>> /\ net.absent = {} =>
        \A p \in Pods : \A t \in {"udp", "tcp", "kp", "masq", "icmp", "cross"} :
            pod[p].report[t] = "failed" =>
                \/ net.refuses /\ t \in {"udp", "tcp"}
                \/ t = "kp" /\ \E q \in Pods : Unsent(q)

\* The time limits of brpod1's tests add up to 92 s, and waitPod gives a pod a
\* minute, so a pod that loses enough is cut off.  But it takes more than two
\* messages lost, binds or rules failed, or a missing peer and one of these on
\* top: with less, only a dial, the one wait without a limit, is cut off.
OnlyDialsHang ==
    \A p \in Pods : pod[p].st = "killed" =>
        \/ Test(p) \in {"tcp", "kp"}
        \/ Len(faults) > 2
        \/ net.absent # {} /\ faults # <<>>

\* containerServiceTest: "a missing/late peer produces a FAILED line, never a
\* hang": no pod is killed before its tests have reported.
MissingPeerReported == \A p \in Pods : pod[p].st # "killed"
=============================================================================
