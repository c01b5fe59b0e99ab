------------------------------- MODULE Mounts -------------------------------
(***************************************************************************)
(* What PID 1 mounts first: the pseudo-filesystems of defaultMounts, the   *)
(* entries of /etc/fstab, and the links by which the kubelet finds `mount' *)
(* and `umount'; and these two applets, which the kubelet runs later.      *)
(* Mount flags are a set, the words for the filesystem a sequence.         *)
(***************************************************************************)
EXTENDS World, SequencesExt

CONSTANTS
    OptWords,  \* the option words that entries and calls are made of
    MaxWords,  \* bound: option words in one table or call
    MaxLines   \* bound: entries of /etc/fstab

VARIABLES
    mstep,    \* mountAll, installMountApplet: the round of the loop
    mounted,  \* the targets that are mounted
    table,    \* /etc/fstab: the entries as they are written
    specs,    \* what parseFstab made of them, with the result of mountOne
    links,    \* the names under which this binary is installed
    applet    \* an invocation of mount or umount by the kubelet

mountVars == <<mstep, mounted, table, specs, links, applet>>

-----------------------------------------------------------------------------
(* Option words (applyMountOpts): the flags a word sets, and those it      *)
(* clears.  Any other word is passed through to the filesystem.            *)

SetBy ==
    [ro |-> {"rdonly"}, nosuid |-> {"nosuid"}, nodev |-> {"nodev"}, noexec |-> {"noexec"},
     bind |-> {"bind"}, rbind |-> {"bind", "rec"}, remount |-> {"remount"}, move |-> {"move"},
     sync |-> {"synchronous"}, dirsync |-> {"dirsync"}, noatime |-> {"noatime"},
     nodiratime |-> {"nodiratime"}, relatime |-> {"relatime"}, strictatime |-> {"strictatime"},
     shared |-> {"shared"}, rshared |-> {"shared", "rec"}, private |-> {"private"},
     rprivate |-> {"private", "rec"}, slave |-> {"slave"}, rslave |-> {"slave", "rec"},
     silent |-> {"silent"}]
ClearedBy == [rw |-> {"rdonly"}, suid |-> {"nosuid"}, dev |-> {"nodev"}, exec |-> {"noexec"}]
Known == DOMAIN SetBy \cup DOMAIN ClearedBy \cup {"", "defaults", "loop"}

Sets(w) == IF w \in DOMAIN SetBy THEN SetBy[w] ELSE {}
Clears(w) == IF w \in DOMAIN ClearedBy THEN ClearedBy[w] ELSE {}

applyMountOpts(words, acc) ==
    FoldLeft(LAMBDA a, w : [flags |-> (a.flags \ Clears(w)) \cup Sets(w),
                            data |-> IF w \in Known THEN a.data ELSE Append(a.data, w)], acc, words)

NoOpts == [flags |-> {}, data |-> <<>>]

-----------------------------------------------------------------------------
(* mountAll(defaultMounts()).                                              *)

defaultMounts == <<"/proc", "/sys", "/dev", "/tmp", "/run", "/sys/fs/cgroup", "/sys/kernel/config">>

NoRequest == [type |-> "none", opts |-> <<>>, flag |-> "", flagFirst |-> TRUE, src |-> ""]
NoApplet == [cmd |-> "none", ask |-> NoRequest, pos |-> <<>>, type |-> "", flags |-> {}, data |-> <<>>,
             todo |-> <<>>, exit |-> 0]

MountsInit ==
    /\ mstep = 1
    /\ mounted = {}
    /\ table = <<>> /\ specs = <<>>
    /\ links = {}
    /\ applet = NoApplet

\* The next round of a loop over n things, or the part of the boot after it.
Round(n) == IF mstep < n THEN mstep' = mstep + 1 /\ UNCHANGED stage ELSE mstep' = 1 /\ Proceed

\* The mounts of sysfs and below it fail together or one by one.
FaultOf(target) == IF target = "/sys/fs/cgroup" THEN "/sys" ELSE target

\* mountOne: /dev is skipped when it is populated, a mount may fail, and mountAll
\* goes on in either case.
MountDefault ==
    /\ stage = "mounts"
    /\ LET target == defaultMounts[mstep]
       IN  \/ mounted' = mounted \cup {target} /\ Works
           \/ target = "/dev" /\ UNCHANGED mounted /\ Works
           \/ UNCHANGED mounted /\ Fails(<<"mount", FaultOf(target)>>)
    /\ Round(Len(defaultMounts))
    /\ UNCHANGED <<table, specs, links, applet>>

-----------------------------------------------------------------------------
(* mountFstab.                                                             *)

\* Words that steer the init and are not for mount(2).
fstabPseudoOpts == {"auto", "nofail", "_netdev", "user", "users", "nouser", "owner", "group", "comment="}

Words(n) == UNION {[1..k -> OptWords] : k \in 0..n}
Entries == [opts : Words(MaxWords), device : BOOLEAN]
Tables == {t \in UNION {[1..n -> Entries] : n \in 0..MaxLines} :
              Len(FlattenSeq([i \in DOMAIN t |-> t[i].opts])) <= MaxWords}

\* A variant for mutation: only "noauto" is kept from mount(2).
parseFstabKeepsAll(t) ==
    LET auto == SelectSeq([i \in DOMAIN t |-> i], LAMBDA i : "noauto" \notin Range(t[i].opts))
    IN  [k \in DOMAIN auto |-> [line |-> auto[k], st |-> "todo",
                                is |-> applyMountOpts(t[auto[k]].opts, NoOpts)]]

\* parseFstab: an entry with "noauto" makes no spec, the words for the init are
\* dropped, the others are applied from no flags at all.  Comments and lines of
\* fewer than three fields are not in the table.
parseFstab(t) ==
    LET auto == SelectSeq([i \in DOMAIN t |-> i], LAMBDA i : "noauto" \notin Range(t[i].opts))
        kept(i) == SelectSeq(t[i].opts, LAMBDA o : o \notin fstabPseudoOpts)
    IN  [k \in DOMAIN auto |-> [line |-> auto[k], st |-> "todo",
                                is |-> applyMountOpts(kept(auto[k]), NoOpts)]]

ReadFstab ==
    /\ stage = "fstab" /\ table = <<>>
    /\ \E t \in Tables :
          /\ table' = t
          /\ specs' = parseFstab(t)
          /\ IF specs' = <<>> THEN Proceed ELSE UNCHANGED stage
    /\ UNCHANGED <<mstep, mounted, links, applet, failed>>

\* mountAll: a device that is missing is skipped, a failure is reported.
MountSpec ==
    /\ stage = "fstab" /\ mstep \in DOMAIN specs /\ specs[mstep].st = "todo"
    /\ \E st \in {"ok", "skip", "fail"} :
          /\ st = "skip" => table[specs[mstep].line].device
          /\ IF st = "fail" THEN Fails(<<"mount", "fstab">>) ELSE Works
          /\ specs' = [specs EXCEPT ![mstep].st = st]
    /\ Round(Len(specs))
    /\ UNCHANGED <<mounted, table, links, applet>>

-----------------------------------------------------------------------------
(* installMountApplet: the name is removed and linked anew.                *)

AppletNames == <<"/usr/bin/mount", "/usr/bin/umount", "/bin/mount", "/bin/umount">>

InstallLink ==
    /\ stage = "applet"
    /\ \/ links' = links \cup {AppletNames[mstep]} /\ Works
       \/ links' = links \ {AppletNames[mstep]} /\ Fails(<<"symlink", AppletNames[mstep]>>)
    /\ Round(Len(AppletNames))
    /\ table' = <<>> /\ specs' = <<>>  \* out of scope
    /\ UNCHANGED <<mounted, applet>>

-----------------------------------------------------------------------------
(* runMount and runUmount, as the kubelet calls them.  Nothing that PID 1   *)
(* does in between touches what they use, so their calls are looked at      *)
(* from here, in a boot of their own.                                       *)

KubeletCalls ==
    /\ stage = "installed" /\ stage' = "kubelet"
    /\ UNCHANGED <<mstep, mounted, table, specs, links, applet, failed>>

\* What the kubelet asks of mount, with a flag before or after the list of options;
\* an argument is a word or such a list.
Requests == [type : {"", "tmpfs"},
             opts : {o \in Words(MaxWords) : Range(o) \cap (fstabPseudoOpts \cup {"noauto"}) = {}},
             flag : {"", "-r", "-w", "--bind", "--make-rshared"}, flagFirst : BOOLEAN,
             src : {"", "volume"}]
Word(w) == [word |-> w, list |-> <<>>]
List(l) == [word |-> "", list |-> l]

\* The options stand before or after the paths, among others without meaning.
Renderings(r) ==
    LET flag == IF r.flag = "" THEN <<>> ELSE <<Word(r.flag)>>
        list == IF r.opts = <<>> THEN <<>> ELSE <<Word("-o"), List(r.opts)>>
        options == (IF r.type = "" THEN <<>> ELSE <<Word("-t"), Word(r.type)>>)
                     \o (IF r.flagFirst THEN flag \o <<Word("-n")>> \o list
                         ELSE list \o <<Word("-n")>> \o flag)
        paths == IF r.src = "" THEN <<Word("/pod")>> ELSE <<Word(r.src), Word("/pod")>>
    IN  {options \o paths, paths \o options}

\* The options that set flags; those spelt two ways by one of them.
FlagArgs ==
    "-r" :> {"rdonly"} @@ "--bind" :> {"bind"} @@ "--rbind" :> {"bind", "rec"} @@ "--move" :> {"move"}
      @@ "--make-shared" :> {"shared"} @@ "--make-rshared" :> {"shared", "rec"}
      @@ "--make-private" :> {"private"} @@ "--make-rprivate" :> {"private", "rec"}
      @@ "--make-slave" :> {"slave"} @@ "--make-rslave" :> {"slave", "rec"}
      @@ "--make-unbindable" :> {"unbindable"}

\* A variant for mutation: the type is left among the paths.
parseArgsTypeLeft(args) ==
    FoldLeft(LAMBDA a, w :
        CASE a.next = "-o" -> [a EXCEPT !.opts = applyMountOpts(w.list, @), !.next = ""]
          [] w.word = "-o" -> [a EXCEPT !.next = w.word]
          [] w.word \in DOMAIN FlagArgs -> [a EXCEPT !.opts.flags = @ \cup FlagArgs[w.word]]
          [] w.word = "-w" -> [a EXCEPT !.opts.flags = @ \ {"rdonly"}]
          [] w.word \in {"-n", "-t"} -> a
          [] OTHER -> [a EXCEPT !.pos = Append(@, w.word)],
        [next |-> "", type |-> "", opts |-> NoOpts, pos |-> <<>>], args)

\* runMount, the loop over the arguments: -t and -o take the one that follows,
\* an option without meaning here is passed over, anything else is a path.
parseArgs(args) ==
    FoldLeft(LAMBDA a, w :
        CASE a.next = "-t" -> [a EXCEPT !.type = w.word, !.next = ""]
          [] a.next = "-o" -> [a EXCEPT !.opts = applyMountOpts(w.list, @), !.next = ""]
          [] w.word \in {"-t", "-o"} -> [a EXCEPT !.next = w.word]
          [] w.word \in DOMAIN FlagArgs -> [a EXCEPT !.opts.flags = @ \cup FlagArgs[w.word]]
          [] w.word = "-w" -> [a EXCEPT !.opts.flags = @ \ {"rdonly"}]
          [] w.word = "-n" -> a
          [] OTHER -> [a EXCEPT !.pos = Append(@, w.word)],
        [next |-> "", type |-> "", opts |-> NoOpts, pos |-> <<>>], args)

\* One path is the target, of two the first is the source.
Source == IF Len(applet.pos) > 1 THEN applet.pos[1] ELSE ""
Target == IF Len(applet.pos) > 1 THEN applet.pos[2] ELSE applet.pos[1]

\* runMount when it has gone through the arguments of request r.
Parsed(r, args) ==
    LET a == parseArgs(args)
    IN  [NoApplet EXCEPT !.cmd = "mount", !.ask = r, !.pos = a.pos, !.type = a.type,
                         !.flags = a.opts.flags, !.data = a.opts.data]
Invocations == UNION {{Parsed(r, args) : args \in Renderings(r)} : r \in Requests}

CallMount ==
    /\ stage = "kubelet" /\ applet.cmd = "none" /\ "/usr/bin/mount" \in links
    /\ applet' \in Invocations
    /\ UNCHANGED <<stage, mstep, mounted, table, specs, links, failed>>

\* mount(2); exit 32 when it fails.
MountCall ==
    /\ applet.cmd = "mount"
    /\ \/ applet' = [applet EXCEPT !.cmd = "exit"] /\ mounted' = mounted \cup {Target} /\ Works
       \/ applet' = [applet EXCEPT !.cmd = "exit", !.exit = 32] /\ UNCHANGED mounted /\ Fails(<<"applet", "mount">>)
    /\ UNCHANGED <<stage, mstep, table, specs, links>>

CallUmount ==
    /\ stage = "kubelet" /\ applet.cmd = "none" /\ "/usr/bin/umount" \in links
    /\ \E targets \in {<<"/pod">>, <<"/tmp", "/pod">>, <<"/pod", "/tmp">>} :
          applet' = [NoApplet EXCEPT !.cmd = "umount", !.todo = targets, !.pos = targets]
    /\ UNCHANGED <<stage, mstep, mounted, table, specs, links, failed>>

\* umount2 for one target after the other: the first failure ends it.
Umount ==
    /\ applet.cmd = "umount"
    /\ LET todo == applet.todo
           gives == [applet EXCEPT !.cmd = "exit", !.exit = 32]
       IN  \/ todo = <<>> /\ applet' = [applet EXCEPT !.cmd = "exit"] /\ UNCHANGED mounted /\ Works
           \/ /\ todo # <<>> /\ Head(todo) \in mounted /\ Works
              /\ mounted' = mounted \ {Head(todo)} /\ applet' = [applet EXCEPT !.todo = Tail(@)]
           \/ todo # <<>> /\ Head(todo) \notin mounted /\ applet' = gives /\ UNCHANGED mounted /\ Works
           \/ /\ todo # <<>> /\ Head(todo) \in mounted /\ Fails(<<"applet", "umount">>)
              /\ applet' = gives /\ UNCHANGED mounted
    /\ UNCHANGED <<stage, mstep, table, specs, links>>

AppletEnds ==
    /\ applet.cmd = "exit"
    /\ applet' = NoApplet
    /\ UNCHANGED <<stage, mstep, mounted, table, specs, links, failed>>

MountsNext ==
    \/ MountDefault \/ ReadFstab \/ MountSpec \/ InstallLink
    \/ KubeletCalls \/ CallMount \/ MountCall \/ CallUmount \/ Umount \/ AppletEnds

-----------------------------------------------------------------------------
(* Properties.                                                             *)

\* What a list of option words asks for: the last word about a flag decides.
Meant(words) ==
    {f \in UNION {Sets(w) : w \in Range(words)} :
        \E i \in DOMAIN words : /\ f \in Sets(words[i])
                                /\ \A j \in (i + 1)..Len(words) : f \notin Clears(words[j])}

\* The entries of fstab are mounted as they are written: with the flags the words
\* ask for, the last word about a flag deciding, with the other words handed to
\* the filesystem in their order, and without "noauto" entries; and one entry that
\* fails or has no device does not keep a later one from its turn (parseFstab,
\* applyMountOpts, mountAll).
FstabAsWritten ==
    /\ \A k \in DOMAIN specs :
          LET opts == table[specs[k].line].opts
          IN  /\ specs[k].is.flags = Meant(opts)
              /\ specs[k].is.data = SelectSeq(opts, LAMBDA o : o \notin Known \cup fstabPseudoOpts)
              /\ "noauto" \notin Range(opts)
    /\ stage = "applet" =>
          \A i \in DOMAIN table : "noauto" \notin Range(table[i].opts) =>
              \E k \in DOMAIN specs : specs[k].line = i /\ specs[k].st # "todo"

\* The option word that says the same as a flag.
SameAs == "-r" :> <<"ro">> @@ "-w" :> <<"rw">> @@ "--bind" :> <<"bind">>
            @@ "--make-rshared" :> <<"rshared">> @@ "" :> <<>>

\* The applet does what the kubelet asked for, with the options before or after
\* the paths and a flag before or after the list: exit 0 means that the target is
\* mounted from the source, with the type, the flags and the filesystem's own
\* options of the request, the last word about a flag deciding, or that all the
\* targets are unmounted (runMount, runUmount).
AppletAsAsked ==
    applet.cmd = "exit" /\ applet.exit = 0 =>
        IF applet.ask = NoRequest
        THEN \A t \in Range(applet.pos) : t \notin mounted
        ELSE LET r == applet.ask
                 words == IF r.flagFirst THEN SameAs[r.flag] \o r.opts ELSE r.opts \o SameAs[r.flag]
             IN  /\ "/pod" \in mounted
                 /\ Target = "/pod" /\ Source = r.src /\ applet.type = r.type
                 /\ applet.flags = Meant(words)
                 /\ applet.data = SelectSeq(r.opts, LAMBDA o : o \notin Known)

\* Every mount is the one that was asked for, by fstab or by the kubelet
\* (mountAll, runMount, runUmount).
MountsAsAsked == FstabAsWritten /\ AppletAsAsked
=============================================================================
