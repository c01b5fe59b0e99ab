----------------------------- MODULE MacProbes ------------------------------
(***************************************************************************)
(* The three probes of astermac, the kernel's mandatory access control:    *)
(* runMacProbe, runFileMacProbe and runSocketMacProbe.  Each re-executes   *)
(* this binary as a main, which switches the mode of the whole kernel to   *)
(* enforcing, tries accesses as several tenants, and switches back.  The   *)
(* main may exit or be killed in between.                                  *)
(***************************************************************************)
EXTENDS World

VARIABLES
    mac,  \* the kernel: mode, and the tenant that labels each object
    main  \* the main: its place in the script, its tenant, the tests it passed

macVars == <<mac, main>>

NoMain == [at |-> 0, tenant |-> 0, passed |-> {}, exit |-> "none"]

MacInit ==
    /\ mac = [mode |-> "permissive", label |-> [k \in Mac |-> 0]]
    /\ main = NoMain

MacFlaws == Mac \X {"off", "coarse", "stuck", "all"}

\* The rule: in enforcing mode a tenant is denied what another tenant's label is
\* on; tenant 0 is neither denied anything nor a label.  And four ways to get it
\* wrong: never, within a tenant too, whatever the mode, tenant 0 too.
Denied(kind, subject) ==
    LET object == mac.label[kind]
        flaw == IF kernel[1] = kind THEN kernel[2] ELSE "none"
    IN  /\ flaw # "off" /\ object # 0
        /\ mac.mode = "enforcing" \/ flaw = "stuck"
        /\ subject # object \/ flaw = "coarse"
        /\ subject # 0 \/ flaw = "all"

-----------------------------------------------------------------------------
(* The scripts.  A step that must not fail ends the main with status 2; of *)
(* the others the error is not looked at.                                  *)

Must(op, arg) == [op |-> op, arg |-> arg, must |-> TRUE]
May(op, arg) == [op |-> op, arg |-> arg, must |-> FALSE]

\* A test: the access as the main's tenant, or as a peer's, denied or allowed.
Test(name) == [op |-> "test", arg |-> name, must |-> FALSE]

\* macProbeMain: the peer labels itself before it reports that it is ready.
macProbeMain ==
    <<Must("label", 2), Must("mode", "enforcing"), Must("tenant", 1), Test("cross"),
      Must("tenant", 2), Test("same"), Must("tenant", 1), Must("mode", "permissive"), Test("perm")>>

\* A variant for mutation: permissive is set only by the clean-up.
LabelledMainStaysEnforcing ==
    <<Test("cross"), May("tenant", 1), Test("same"), May("tenant", 0), Test("unconf"),
      May("tenant", 2), Test("perm"), May("label", 0), May("mode", "permissive"), May("tenant", 0)>>

\* fileMacProbeMain and socketMacProbeMain after the label: the cross-tenant
\* access is made by a peer.
LabelledMain ==
    <<Test("cross"), May("tenant", 1), Test("same"), May("tenant", 0), Test("unconf"),
      May("mode", "permissive"), May("tenant", 2), Test("perm"),
      May("label", 0), May("mode", "permissive"), May("tenant", 0)>>

fileMacProbeMain ==
    <<Must("create", 0), Must("mode", "enforcing"), Must("label", 1)>> \o LabelledMain

\* A variant for mutation: the clean-up takes the mode for the one it found.
socketMacProbeMainKeepsMode ==
    <<Must("mode", "enforcing"), Must("label", 1)>> \o SubSeq(LabelledMain, 1, 9)
      \o <<May("mode", "enforcing"), May("tenant", 0)>>

socketMacProbeMain == <<Must("mode", "enforcing"), Must("label", 1)>> \o LabelledMain

Script == [signal |-> macProbeMain, file |-> fileMacProbeMain, socket |-> socketMacProbeMain]

\* A test passes: the cross-tenant access must be refused with EPERM, the others
\* must succeed, for a connection: must not be refused with EPERM.
Passes(kind, name, outcome) ==
    IF name = "cross" THEN outcome = "EPERM"
    ELSE outcome = "allowed" \/ (kind = "socket" /\ outcome # "EPERM")

Tests(kind) == {Script[kind][i].arg : i \in {j \in DOMAIN Script[kind] : Script[kind][j].op = "test"}}

-----------------------------------------------------------------------------
(* The actions.                                                            *)

\* runMacProbe, runFileMacProbe, runSocketMacProbe: the main is started, and
\* inherits tenant 0 from PID 1.
MainStarts ==
    /\ stage \in Mac /\ main.at = 0
    /\ \/ main' = [NoMain EXCEPT !.at = 1] /\ Stays /\ Works
       \/ UNCHANGED main /\ Concludes(stage, "no") /\ Fails(<<stage, "start">>)
    /\ UNCHANGED mac

Running == stage \in Mac /\ main.at > 0 /\ main.exit = "none" /\ main.at <= Len(Script[stage])
Step == Script[stage][main.at]

\* The tenant an access is made as: the peer of a file or a socket labels itself
\* tenant 2, the signal is sent by the main.
Subject == IF Step.arg = "cross" /\ stage # "signal" THEN 2 ELSE main.tenant

MainStep ==
    /\ Running
    /\ CASE Step.op = "tenant" -> main' = [main EXCEPT !.at = @ + 1, !.tenant = Step.arg] /\ UNCHANGED mac
         [] Step.op = "mode" -> mac' = [mac EXCEPT !.mode = Step.arg] /\ main' = [main EXCEPT !.at = @ + 1]
         [] Step.op = "label" -> mac' = [mac EXCEPT !.label[stage] = Step.arg] /\ main' = [main EXCEPT !.at = @ + 1]
         [] Step.op = "create" -> main' = [main EXCEPT !.at = @ + 1] /\ UNCHANGED mac
         [] Step.op = "test" ->
              /\ main' = [main EXCEPT !.at = @ + 1, !.passed = @ \cup
                            {t \in {Step.arg} : Passes(stage, t, IF Denied(stage, Subject) THEN "EPERM" ELSE "allowed")}]
              /\ UNCHANGED mac
    /\ Works /\ Stays

\* The call fails; a test then sees an errno of its own, or a peer that did not
\* get as far as the access.
MainStepFails ==
    /\ Running
    /\ Fails(<<stage, Step.op>>)
    /\ main' = [main EXCEPT !.at = @ + 1, !.exit = IF Step.must THEN "2" ELSE @,
                            !.passed = @ \cup {t \in {Step.arg} : Step.op = "test" /\ Passes(stage, t, "other")}]
    /\ UNCHANGED mac /\ Stays

MainKilled ==
    /\ Running
    /\ Fails(<<stage, "killed">>)
    /\ main' = [main EXCEPT !.exit = "signal"]
    /\ UNCHANGED mac /\ Stays

MainExits ==
    /\ stage \in Mac /\ main.at > Len(Script[stage]) /\ main.exit = "none"
    /\ main' = [main EXCEPT !.exit = IF Tests(stage) \subseteq main.passed THEN "0" ELSE "3"]
    /\ UNCHANGED mac /\ Stays /\ Works

\* The verdict is by the exit status.  With the main, the peer it signals is gone;
\* a label on a file or an address stays, and so does the mode.
MainReaped ==
    /\ stage \in Mac /\ main.exit # "none"
    /\ Concludes(stage, IF main.exit = "0" THEN "yes" ELSE "no")
    /\ main' = NoMain
    /\ mac' = IF stage = "signal" THEN [mac EXCEPT !.label["signal"] = 0] ELSE mac
    /\ Works

MacNext == MainStarts \/ MainStep \/ MainStepFails \/ MainKilled \/ MainExits \/ MainReaped

-----------------------------------------------------------------------------
(* Properties.                                                             *)

\* When the node agent starts, the kernel is back in permissive mode and nothing
\* is labelled, whatever happened to the first two mains: only a failure in the
\* last one leaves the mode or its label behind (the clean-up of
\* socketMacProbeMain), or one in the file probe a labelled file.
ModeRestored ==
    stage = "node" =>
        LET spoilt(kind, ops) == \E op \in ops \cup {"killed"} : <<kind, op>> \in failed
        IN  /\ mac.mode # "permissive" => spoilt("socket", {"start", "mode", "label"})
            /\ \A k \in Mac : mac.label[k] # 0 => spoilt(k, {"label", "mode"})
=============================================================================
