--------------------------- MODULE MCBridgedTests ---------------------------
(* The manifests of testdata/bridge-pods and of buildKubeProxyDemoSpecs.   *)
EXTENDS BridgedTests, TLC

Plain(ip) == [ip |-> ip, peer |-> 0, cross |-> 0, svc |-> "none", masq |-> "none",
              target |-> 0]

MCService ==
    "brpod1" :> [Plain(2) EXCEPT !.peer = 3, !.svc = "client"]
        @@ "brpod2" :> [Plain(3) EXCEPT !.peer = 2, !.svc = "backend"]

MCRouter == "brpod3" :> [Plain(9) EXCEPT !.cross = 2]

MCKubeProxy ==
    "kpb1" :> [Plain(2) EXCEPT !.peer = 4, !.svc = "kpbackend"]
        @@ "kpb2" :> [Plain(3) EXCEPT !.peer = 4, !.svc = "kpbackend"]
        @@ "kpc" :> [Plain(4) EXCEPT !.peer = 2, !.svc = "kpclient"]

MCUplink ==
    "mqclient" :> [Plain(2) EXCEPT !.masq = "client", !.target = 50]
        @@ "mqserver" :> [Plain(50) EXCEPT !.masq = "server"]

\* Two pods without a peer test: the client dials at once.
MCDirect ==
    "kpb1" :> [Plain(2) EXCEPT !.svc = "kpbackend"]
        @@ "kpc" :> [Plain(4) EXCEPT !.svc = "kpclient"]

MCTopologies ==
    {[spec |-> MCService, faults |-> 2], [spec |-> MCService @@ MCRouter, faults |-> 1],
     [spec |-> MCUplink, faults |-> 2], [spec |-> MCKubeProxy, faults |-> 0],
     [spec |-> MCDirect, faults |-> 1]}

\* For the missing peer: nothing else goes wrong.
MCQuietTopologies == {[spec |-> MCService, faults |-> 0]}
=============================================================================
