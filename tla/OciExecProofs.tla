---------------------------- MODULE OciExecProofs ----------------------------
(***************************************************************************)
(* `runc exec', for any number of concurrent invocations, any number of    *)
(* threads, any order of the namespaces and all the faults of OciExec.     *)
(***************************************************************************)
EXTENDS OciExec, TLAPS

-----------------------------------------------------------------------------
(* The inductive invariant.                                                *)

Early == {"idle", "read", "alive", "spec"}
Joined == {"open", "trunc", "write", "pty", "fork"}
Late == {"console", "wait", "done"}
Mirrors == {"pty", "fork", "console", "wait"}

\* One invocation, by its values: x is where it is, n the namespaces of its
\* threads, c its child, r its result, m what it passed over, and i the state of
\* the container's init.  The loop over the namespaces has joined those before
\* x.k, on the thread it is on, as long as the container runs and neither a setns
\* was passed over nor the thread was changed.
Session(i, x, n, c, r, m) ==
    /\ x.pc \in Early => x.k = 1
    /\ x.pc = "setns" => x.k <= Len(Order)
    /\ x.pc \in Joined => x.k = Len(Order) + 1
    /\ x.pc \notin Late => c.st = "none"
    /\ r = "error" => x.pc = "done" /\ c.st # "run"
    /\ i = "run" /\ m \cap {"setns", "thread"} = {} =>
          /\ \A j \in 1 .. x.k - 1 : n[x.thread][Order[j]] = "ctr"
          /\ c.st # "none" => \A s \in Namespaces : c.ns[s] = "ctr"

Sessions == \A e \in Execs : Session(init, ex[e], ns[e], child[e], result[e], missed[e])

\* While the container runs and no write was passed over, what is about to be
\* written is a file that the mirror has to leave; the copy is one of these, as it
\* was in the image, or truncated by an invocation that is about to write it; and it
\* is in place once an invocation is past the mirror and none is rewriting it.
Mirrored ==
    init = "run" /\ (\A e \in Execs : "disk" \notin missed[e]) =>
        /\ \A e \in Execs : ex[e].pc \in {"trunc", "write"} => ex[e].from \in Wanted
        /\ resolv \in Wanted \cup {"torn", Unwritten}
        /\ (\A e \in Execs : ~At(e, "write")) =>
              /\ resolv # "torn"
              /\ (\E e \in Execs : ex[e].pc \in Mirrors \/ child[e].st # "none")
                     => resolv \in Wanted

IInv == TypeOK /\ Sessions /\ Mirrored

-----------------------------------------------------------------------------
(* The steps of one invocation.                                            *)

Untouched(e) ==
    \A d \in Execs \ {e} : /\ ex'[d] = ex[d] /\ ns'[d] = ns[d] /\ child'[d] = child[d]
                           /\ result'[d] = result[d] /\ missed'[d] = missed[d]

LEMMA Constants ==
    /\ Main \in Threads /\ Len(Order) \in Nat \ {0}
    /\ \A k \in 1 .. Len(Order) : Order[k] \in Namespaces
    /\ \A s \in Namespaces : \E k \in 1 .. Len(Order) : s = Order[k]
  BY ExecAssumption DEF Namespaces

\* The invocation goes to its next step.
LEMMA GotoIs ==
    ASSUME TypeOK, NEW e \in Execs, NEW l \in PCs, Goto(e, l)
    PROVE  /\ ex' \in [Execs -> Ex]
           /\ ex'[e].pc = l /\ ex'[e].k = ex[e].k /\ ex'[e].thread = ex[e].thread
           /\ ex'[e].from = ex[e].from
           /\ \A d \in Execs \ {e} : ex'[d] = ex[d]
<1>1. ex[e] \in Ex /\ ex' = [ex EXCEPT ![e] = [ex[e] EXCEPT !.pc = l]]
  BY DEF TypeOK, Goto
<1>2. LET x == [ex[e] EXCEPT !.pc = l]
      IN  /\ x \in Ex /\ x.pc = l /\ x.k = ex[e].k /\ x.thread = ex[e].thread
          /\ x.from = ex[e].from
  BY <1>1, Constants DEF Ex
<1> QED BY <1>1, <1>2 DEF TypeOK

\* It returns, and its threads end with it.
LEMMA ReturnIs ==
    ASSUME TypeOK, NEW e \in Execs, NEW r \in {"ok", "error"}, Return(e, r)
    PROVE  /\ ex' \in [Execs -> Ex] /\ ns' \in [Execs -> [Threads -> [Namespaces -> Owners]]]
           /\ result' \in [Execs -> {"none", "ok", "error"}]
           /\ ex'[e].pc = "done" /\ ex'[e].k = 1 /\ result'[e] = r
           /\ \A d \in Execs \ {e} : ex'[d] = ex[d] /\ ns'[d] = ns[d] /\ result'[d] = result[d]
<1> DEFINE x == [pc |-> "done", k |-> 1, thread |-> Main, mode |-> "wait", from |-> "none"]
<1>1. x \in Ex /\ x.pc = "done" /\ x.k = 1
  BY Constants DEF Ex, PCs, Texts
<1>2. ex' = [ex EXCEPT ![e] = x]
  <2>1. [Idle EXCEPT !.pc = "done"] = x
    BY DEF Idle
  <2> QED BY <2>1 DEF Return
<1> HIDE DEF x
<1>3. HostThreads \in [Threads -> [Namespaces -> Owners]]
  BY DEF HostThreads, HostNs, Owners
<1>4. ex' \in [Execs -> Ex] /\ ex'[e] = x /\ \A d \in Execs \ {e} : ex'[d] = ex[d]
  BY <1>1, <1>2 DEF TypeOK
<1>5. /\ ns' \in [Execs -> [Threads -> [Namespaces -> Owners]]]
      /\ \A d \in Execs \ {e} : ns'[d] = ns[d]
  BY <1>3 DEF TypeOK, Return
<1>6. /\ result' \in [Execs -> {"none", "ok", "error"}] /\ result'[e] = r
      /\ \A d \in Execs \ {e} : result'[d] = result[d]
  BY DEF TypeOK, Return
<1> QED BY <1>1, <1>4, <1>5, <1>6

\* Something is passed over.
LEMMA MissIs ==
    ASSUME TypeOK, NEW e \in Execs, NEW w \in {"setns", "disk", "thread"}, Miss(e, w)
    PROVE  /\ missed' \in [Execs -> SUBSET {"setns", "disk", "thread"}]
           /\ missed'[e] = missed[e] \cup {w}
           /\ \A d \in Execs \ {e} : missed'[d] = missed[d]
  BY DEF TypeOK, Miss

\* The other invocations are as they were.
LEMMA OthersKept ==
    ASSUME IInv, NEW e \in Execs, Untouched(e), init' = init,
           Session(init, ex[e], ns[e], child[e], result[e], missed[e])'
    PROVE  Sessions'
<1> SUFFICES ASSUME NEW d \in Execs
             PROVE  Session(init, ex[d], ns[d], child[d], result[d], missed[d])'
  BY DEF Sessions
<1>1. CASE d = e
  BY <1>1
<1>2. CASE d # e
  <2>1. /\ ex'[d] = ex[d] /\ ns'[d] = ns[d] /\ child'[d] = child[d]
        /\ result'[d] = result[d] /\ missed'[d] = missed[d]
    BY <1>2 DEF Untouched
  <2>2. Session(init, ex[d], ns[d], child[d], result[d], missed[d])
    BY DEF IInv, Sessions
  <2> QED BY <2>1, <2>2 DEF Session
<1> QED BY <1>1, <1>2

\* What has to be left depends on the files alone.
LEMMA WantedKept ==
    ASSUME conf' = conf
    PROVE  Wanted' = Wanted /\ Unwritten' = Unwritten
  BY DEF Wanted, Unwritten

\* A file that was read is never a truncated one.
LEMMA WantedIs == Wanted \cup {Unwritten} \subseteq Texts /\ "torn" \notin Texts
  BY DEF Wanted, Unwritten, Texts

\* A step that neither reads nor writes resolv.conf.
LEMMA MirrorKept ==
    ASSUME IInv, NEW e \in Execs, Untouched(e), init' = init, conf' = conf, resolv' = resolv,
           missed[e] \subseteq missed'[e],
           ex'[e].pc = "write" <=> ex[e].pc = "write",
           ex'[e].pc \in {"trunc", "write"} =>
              ex[e].pc \in {"trunc", "write"} /\ ex'[e].from = ex[e].from,
           ex'[e].pc \in Mirrors \/ child'[e].st # "none"
              => ex[e].pc \in Mirrors \/ child[e].st # "none"
    PROVE  Mirrored'
<1> SUFFICES ASSUME init = "run", \A d \in Execs : "disk" \notin missed'[d]
             PROVE  /\ \A d \in Execs : ex'[d].pc \in {"trunc", "write"} => ex'[d].from \in Wanted
                    /\ resolv \in Wanted \cup {"torn", Unwritten}
                    /\ (\A d \in Execs : ~At(d, "write")') =>
                          /\ resolv # "torn"
                          /\ (\E d \in Execs : ex'[d].pc \in Mirrors \/ child'[d].st # "none")
                                 => resolv \in Wanted
  BY WantedKept DEF Mirrored
<1>1. \A d \in Execs : "disk" \notin missed[d]
  BY DEF Untouched
<1>2. \A d \in Execs : At(d, "write")' <=> At(d, "write")
  BY DEF Untouched, At
<1>3. \A d \in Execs : ex'[d].pc \in {"trunc", "write"} => ex'[d].from \in Wanted
  <2>1. \A d \in Execs : ex[d].pc \in {"trunc", "write"} => ex[d].from \in Wanted
    BY <1>1 DEF IInv, Mirrored
  <2> QED BY <2>1 DEF Untouched
<1>4. ASSUME NEW d \in Execs, ex'[d].pc \in Mirrors \/ child'[d].st # "none"
      PROVE  ex[d].pc \in Mirrors \/ child[d].st # "none"
  BY <1>4 DEF Untouched
<1> QED BY <1>1, <1>2, <1>3, <1>4 DEF IInv, Mirrored
-----------------------------------------------------------------------------
(* The steps of cmdExec.                                                   *)

\* An invocation that returns before it started a process.
LEMMA EarlyReturn ==
    ASSUME IInv, NEW e \in Execs, ex[e].pc \in {"read", "alive", "spec", "pty", "fork"},
           NEW r \in {"ok", "error"}, Return(e, r),
           UNCHANGED <<init, record, conf, resolv, child, missed>>
    PROVE  IInv'
<1>1. child[e].st = "none"
  BY DEF IInv, Sessions, Session, Late
<1>2. /\ ex' \in [Execs -> Ex] /\ ns' \in [Execs -> [Threads -> [Namespaces -> Owners]]]
      /\ result' \in [Execs -> {"none", "ok", "error"}]
      /\ ex'[e].pc = "done" /\ ex'[e].k = 1 /\ result'[e] = r
      /\ \A d \in Execs \ {e} : ex'[d] = ex[d] /\ ns'[d] = ns[d] /\ result'[d] = result[d]
  BY ReturnIs DEF IInv
<1>3. TypeOK' /\ Untouched(e)
  BY <1>2 DEF IInv, TypeOK, Untouched
<1>4. Session(init, ex[e], ns[e], child[e], result[e], missed[e])'
  BY <1>1, <1>2 DEF Session, Early, Joined, Late
<1>5. Mirrored'
  BY <1>1, <1>2, <1>3, MirrorKept DEF Mirrors
<1> QED BY <1>3, <1>4, <1>5, OthersKept DEF IInv

\* An invocation that goes on, its namespaces and its child as they were.
LEMMA PlainStep ==
    ASSUME IInv, NEW e \in Execs, NEW l \in PCs, Goto(e, l),
           <<ex[e].pc, l>> \in {<<"read", "alive">>, <<"alive", "spec">>, <<"spec", "setns">>,
                                <<"pty", "fork">>},
           UNCHANGED <<init, record, conf, resolv, ns, child, result, missed>>
    PROVE  IInv'
<1>1. /\ ex' \in [Execs -> Ex]
      /\ ex'[e].pc = l /\ ex'[e].k = ex[e].k /\ ex'[e].thread = ex[e].thread
      /\ ex'[e].from = ex[e].from
      /\ \A d \in Execs \ {e} : ex'[d] = ex[d]
  BY GotoIs DEF IInv
<1>2. TypeOK' /\ Untouched(e)
  BY <1>1 DEF IInv, TypeOK, Untouched
<1>3. Session(init, ex[e], ns[e], child[e], result[e], missed[e])
  BY DEF IInv, Sessions
<1>4. Session(init, ex[e], ns[e], child[e], result[e], missed[e])'
  BY <1>1, <1>3, Constants DEF Session, Early, Joined, Late
<1>5. Mirrored'
  BY <1>1, <1>2, MirrorKept DEF Mirrors
<1> QED BY <1>2, <1>4, <1>5, OthersKept DEF IInv

LEMMA InvokeStep ==
    ASSUME IInv, NEW e \in Execs, Invoke(e)
    PROVE  IInv'
<1>1. PICK m \in {"tty", "detach", "wait"} :
          ex' = [ex EXCEPT ![e] = [ex[e] EXCEPT !.pc = "read", !.mode = m]]
  BY DEF Invoke
<1>2. ex[e].pc = "idle" /\ UNCHANGED <<init, record, conf, resolv, ns, child, result, missed>>
  BY DEF Invoke, At
<1>3. /\ ex' \in [Execs -> Ex]
      /\ ex'[e].pc = "read" /\ ex'[e].k = ex[e].k /\ ex'[e].thread = ex[e].thread
      /\ \A d \in Execs \ {e} : ex'[d] = ex[d]
  <2> DEFINE y == [ex[e] EXCEPT !.pc = "read"]
             x == [ex[e] EXCEPT !.pc = "read", !.mode = m]
  <2>1. y \in Ex /\ y.pc = "read" /\ y.k = ex[e].k /\ y.thread = ex[e].thread
    <3>1. ex[e] \in Ex /\ "read" \in PCs
      BY DEF IInv, TypeOK, PCs
    <3> QED BY <3>1, Constants DEF Ex
  <2>2. x = [y EXCEPT !.mode = m]
    OBVIOUS
  <2> HIDE DEF x, y
  <2>3. x \in Ex /\ x.pc = "read" /\ x.k = ex[e].k /\ x.thread = ex[e].thread
    BY <2>1, <2>2, Constants DEF Ex
  <2>4. ex' = [ex EXCEPT ![e] = x]
    BY <1>1 DEF x
  <2> QED BY <2>3, <2>4 DEF IInv, TypeOK
<1>4. TypeOK' /\ Untouched(e)
  BY <1>2, <1>3 DEF IInv, TypeOK, Untouched
<1>5. Session(init, ex[e], ns[e], child[e], result[e], missed[e])
  BY DEF IInv, Sessions
<1>6. Session(init, ex[e], ns[e], child[e], result[e], missed[e])'
  BY <1>2, <1>3, <1>5 DEF Session, Early, Joined, Late
<1>7. Mirrored'
  BY <1>2, <1>3, <1>4, MirrorKept DEF Mirrors
<1> QED BY <1>2, <1>4, <1>6, <1>7, OthersKept DEF IInv

\* One round of the loop: while the container runs, its namespace is joined or the
\* failure is passed over.
LEMMA SetnsStep ==
    ASSUME IInv, NEW e \in Execs, Setns(e)
    PROVE  IInv'
<1> DEFINE k == ex[e].k
           t == ex[e].thread
           l == IF k = Len(Order) THEN "open" ELSE "setns"
<1>0. /\ ex[e] \in Ex /\ k \in 1 .. Len(Order) /\ t \in Threads /\ Order[k] \in Namespaces
      /\ ns[e] \in [Threads -> [Namespaces -> Owners]]
  <2>1. ex[e] \in Ex /\ ns[e] \in [Threads -> [Namespaces -> Owners]]
    BY DEF IInv, TypeOK
  <2>2. k <= Len(Order)
    BY DEF Setns, At, IInv, Sessions, Session
  <2>3. k \in 1 .. Len(Order)
    BY <2>1, <2>2, Constants DEF Ex
  <2> QED BY <2>1, <2>3, Constants DEF Ex
<1>1. /\ ex[e].pc = "setns" /\ UNCHANGED <<init, record, conf, resolv, child, result>>
      /\ ex' = [ex EXCEPT ![e] = [ex[e] EXCEPT !.k = k + 1, !.pc = l]]
  BY DEF Setns, At
<1>2. /\ ex' \in [Execs -> Ex]
      /\ ex'[e].pc = l /\ ex'[e].k = k + 1 /\ ex'[e].thread = t
      /\ \A d \in Execs \ {e} : ex'[d] = ex[d]
  <2> DEFINE y == [ex[e] EXCEPT !.k = k + 1]
             x == [ex[e] EXCEPT !.k = k + 1, !.pc = l]
  <2>1. y \in Ex /\ y.k = k + 1 /\ y.thread = t
    <3>1. k + 1 \in 1 .. Len(Order) + 1
      BY <1>0, Constants
    <3>2. \A v \in Ex, h \in 1 .. Len(Order) + 1 :
              LET z == [v EXCEPT !.k = h] IN z \in Ex /\ z.k = h /\ z.thread = v.thread
      BY DEF Ex
    <3> QED BY <1>0, <3>1, <3>2
  <2>2. x = [y EXCEPT !.pc = l]
    OBVIOUS
  <2>3. l \in PCs
    BY DEF PCs
  <2> HIDE DEF x, y, l
  <2>4. x \in Ex /\ x.pc = l /\ x.k = k + 1 /\ x.thread = t
    BY <2>1, <2>2, <2>3, Constants DEF Ex
  <2>5. ex' = [ex EXCEPT ![e] = x]
    BY <1>1 DEF x
  <2> QED BY <2>4, <2>5 DEF IInv, TypeOK
<1>3. \/ /\ Target # "none" /\ missed' = missed
         /\ ns' = [ns EXCEPT ![e] = [ns[e] EXCEPT ![t] = [ns[e][t] EXCEPT ![Order[k]] = Target]]]
      \/ Target = "none" /\ ns' = ns /\ missed' = missed
      \/ ns' = ns /\ Miss(e, "setns")
  BY DEF Setns
<1>4. init = "run" => Target = "ctr"
  BY DEF Target
<1>5. Target # "none" => Target \in Owners
  BY DEF Target, Owners
<1>6. /\ ns' \in [Execs -> [Threads -> [Namespaces -> Owners]]]
      /\ \A d \in Execs \ {e} : ns'[d] = ns[d]
  <2>1. CASE ns' = ns
    BY <2>1 DEF IInv, TypeOK
  <2>2. CASE Target # "none"
             /\ ns' = [ns EXCEPT ![e] = [ns[e] EXCEPT ![t] = [ns[e][t] EXCEPT ![Order[k]] = Target]]]
    <3>1. [ns[e][t] EXCEPT ![Order[k]] = Target] \in [Namespaces -> Owners]
      BY <1>0, <1>5, <2>2
    <3>2. [ns[e] EXCEPT ![t] = [ns[e][t] EXCEPT ![Order[k]] = Target]]
             \in [Threads -> [Namespaces -> Owners]]
      BY <1>0, <3>1
    <3> QED BY <2>2, <3>2 DEF IInv, TypeOK
  <2> QED BY <1>3, <2>1, <2>2
<1>7. /\ missed' \in [Execs -> SUBSET {"setns", "disk", "thread"}]
      /\ missed'[e] = missed[e] \/ missed'[e] = missed[e] \cup {"setns"}
      /\ \A d \in Execs \ {e} : missed'[d] = missed[d]
  BY <1>3, MissIs DEF IInv, TypeOK
<1>8. TypeOK' /\ Untouched(e)
  BY <1>1, <1>2, <1>6, <1>7 DEF IInv, TypeOK, Untouched
<1>9. ASSUME init = "run", missed'[e] \cap {"setns", "thread"} = {}, NEW j \in 1 .. k
      PROVE  ns'[e][t][Order[j]] = "ctr"
  <2>1. missed'[e] = missed[e] /\ ~Miss(e, "setns")
    BY <1>7, <1>9, MissIs DEF IInv
  <2>2. \A g \in 1 .. k - 1 : ns[e][t][Order[g]] = "ctr"
    BY <1>9, <2>1 DEF IInv, Sessions, Session
  <2>3. ns' = [ns EXCEPT ![e] = [ns[e] EXCEPT ![t] = [ns[e][t] EXCEPT ![Order[k]] = "ctr"]]]
    BY <1>3, <1>4, <1>9, <2>1
  <2>4. ns'[e][t] = [ns[e][t] EXCEPT ![Order[k]] = "ctr"]
    BY <1>0, <2>3 DEF IInv, TypeOK
  <2>5. j # k => j \in 1 .. k - 1
    BY <1>0, Constants
  <2>6. Order[j] \in Namespaces /\ ns[e][t] \in [Namespaces -> Owners]
    <3>1. j \in 1 .. Len(Order)
      BY <1>0, Constants
    <3> QED BY <1>0, <3>1, Constants
  <2> QED BY <2>2, <2>4, <2>5, <2>6
<1>10. Session(init, ex[e], ns[e], child[e], result[e], missed[e])'
  <2>1. child[e].st = "none" /\ result[e] # "error"
    BY <1>1 DEF IInv, Sessions, Session, Late
  <2>2. (ex'[e].pc = "setns" => ex'[e].k <= Len(Order)) /\ (ex'[e].pc \in Joined => ex'[e].k = Len(Order) + 1)
    BY <1>0, <1>2, Constants DEF Joined
  <2>3. ex'[e].pc \notin Early /\ 1 .. ex'[e].k - 1 = 1 .. k
    BY <1>0, <1>2, Constants DEF Early
  <2> QED BY <1>1, <1>2, <1>9, <2>1, <2>2, <2>3 DEF Session
<1>11. Mirrored'
  <2>1. ex'[e].pc \notin {"trunc", "write"} /\ ex'[e].pc \notin Mirrors
    BY <1>2 DEF Mirrors
  <2> QED BY <1>1, <1>7, <1>8, <2>1, MirrorKept
<1> QED BY <1>1, <1>8, <1>10, <1>11, OthersKept DEF IInv
-----------------------------------------------------------------------------
(* The mirror.                                                             *)

\* The file that is read while the container runs, if there is one to read, is one
\* that the mirror has to leave; if there is none, the copy stays as it was.
LEMMA ReadIs ==
    ASSUME IInv, init = "run", \A d \in Execs : "disk" \notin missed[d], NEW f \in InRoot
    PROVE  /\ f # "none" => f \in Wanted
           /\ f = "none" /\ conf.node => "node" \in Wanted
           /\ f = "none" /\ ~conf.node /\ (\A d \in Execs : ~At(d, "write"))
                 => resolv \in Wanted
<1>1. /\ resolv \in Wanted \cup {"torn", Unwritten}
      /\ (\A d \in Execs : ~At(d, "write")) => resolv # "torn"
  BY DEF IInv, Mirrored
<1>2. conf.ctr \in {"mount", "empty", "rootfs"} /\ conf.image \in BOOLEAN /\ conf.node \in BOOLEAN
  BY DEF IInv, TypeOK, Confs
<1>3. f = CASE conf.ctr = "mount" -> "ctr"
            [] conf.ctr = "empty" -> "none"
            [] conf.ctr = "rootfs" -> IF resolv = "torn" THEN "none" ELSE resolv
  BY DEF InRoot, Target
<1>4. CASE conf.ctr = "mount"
  BY <1>1, <1>2, <1>3, <1>4 DEF Wanted, Unwritten
<1>5. CASE conf.ctr = "empty"
  BY <1>1, <1>2, <1>3, <1>5 DEF Wanted, Unwritten
<1>6. CASE conf.ctr = "rootfs"
  BY <1>1, <1>2, <1>3, <1>6 DEF Wanted, Unwritten
<1> QED BY <1>2, <1>4, <1>5, <1>6

LEMMA MirrorReadStep ==
    ASSUME IInv, NEW e \in Execs, MirrorRead(e)
    PROVE  IInv'
<1>1. /\ ex[e].pc = "open" /\ ex[e] \in Ex
      /\ UNCHANGED <<init, record, conf, resolv, ns, child, result, missed>>
  BY DEF MirrorRead, At, IInv, TypeOK
<1>2. Session(init, ex[e], ns[e], child[e], result[e], missed[e])
  BY DEF IInv, Sessions
<1>3. PICK f \in InRoot : CASE f # "none" -> Copy(e, f)
                             [] f = "none" /\ conf.node -> Copy(e, "node")
                             [] f = "none" /\ ~conf.node -> Goto(e, "pty")
  BY DEF MirrorRead
<1>4. f \in Texts /\ conf.node \in BOOLEAN
  BY DEF IInv, TypeOK, Confs, InRoot, Target, Texts
<1>5. \/ f # "none" /\ Copy(e, f)
      \/ f = "none" /\ conf.node /\ Copy(e, "node")
      \/ f = "none" /\ ~conf.node /\ Goto(e, "pty")
  BY <1>3, <1>4
<1>6. ASSUME NEW g \in Texts, Copy(e, g), (f # "none" /\ g = f) \/ (f = "none" /\ conf.node /\ g = "node")
      PROVE  IInv'
  <2> DEFINE y == [ex[e] EXCEPT !.from = g]
             x == [ex[e] EXCEPT !.from = g, !.pc = "trunc"]
  <2>1. y \in Ex /\ y.k = ex[e].k /\ y.thread = ex[e].thread /\ y.from = g
    BY <1>1, <1>6, Constants DEF Ex
  <2>2. x = [y EXCEPT !.pc = "trunc"] /\ "trunc" \in PCs
    BY DEF PCs
  <2> HIDE DEF y
  <2>3. x \in Ex /\ x.k = ex[e].k /\ x.thread = ex[e].thread /\ x.from = g /\ x.pc = "trunc"
    BY <2>1, <2>2, Constants DEF Ex
  <2>4. ex' = [ex EXCEPT ![e] = x]
    BY <1>6 DEF Copy
  <2> HIDE DEF x
  <2>5. ex' \in [Execs -> Ex] /\ ex'[e] = x /\ \A d \in Execs \ {e} : ex'[d] = ex[d]
    BY <2>3, <2>4 DEF IInv, TypeOK
  <2>6. TypeOK' /\ Untouched(e)
    BY <1>1, <2>5 DEF IInv, TypeOK, Untouched
  <2>7. Session(init, ex[e], ns[e], child[e], result[e], missed[e])'
    BY <1>1, <1>2, <2>3, <2>5 DEF Session, Early, Joined, Late
  <2>8. ASSUME init = "run", \A d \in Execs : "disk" \notin missed[d]
        PROVE  g \in Wanted
    BY <1>6, <2>8, ReadIs
  <2>9. Mirrored'
    <3> SUFFICES ASSUME init = "run", \A d \in Execs : "disk" \notin missed[d]
                 PROVE  /\ \A d \in Execs : ex'[d].pc \in {"trunc", "write"} => ex'[d].from \in Wanted
                        /\ resolv \in Wanted \cup {"torn", Unwritten}
                        /\ (\A d \in Execs : ~At(d, "write")') =>
                              /\ resolv # "torn"
                              /\ (\E d \in Execs : ex'[d].pc \in Mirrors \/ child'[d].st # "none")
                                     => resolv \in Wanted
      BY <1>1, WantedKept DEF Mirrored
    <3>1. \A d \in Execs : At(d, "write")' <=> At(d, "write")
      BY <1>1, <2>3, <2>5 DEF At
    <3>2. \A d \in Execs : ex'[d].pc \in Mirrors => ex[d].pc \in Mirrors
      BY <2>3, <2>5 DEF Mirrors
    <3>3. \A d \in Execs : ex'[d].pc \in {"trunc", "write"} => ex'[d].from \in Wanted
      BY <2>3, <2>5, <2>8 DEF IInv, Mirrored
    <3> QED BY <1>1, <3>1, <3>2, <3>3 DEF IInv, Mirrored
  <2> QED BY <1>1, <2>6, <2>7, <2>9, OthersKept DEF IInv
<1>7. CASE f = "none" /\ ~conf.node /\ Goto(e, "pty")
  <2>1. /\ ex' \in [Execs -> Ex]
        /\ ex'[e].pc = "pty" /\ ex'[e].k = ex[e].k /\ ex'[e].thread = ex[e].thread
        /\ \A d \in Execs \ {e} : ex'[d] = ex[d]
    BY <1>7, GotoIs DEF IInv, PCs
  <2>2. TypeOK' /\ Untouched(e)
    BY <1>1, <2>1 DEF IInv, TypeOK, Untouched
  <2>3. Session(init, ex[e], ns[e], child[e], result[e], missed[e])'
    BY <1>1, <1>2, <2>1 DEF Session, Early, Joined, Late
  <2>4. Mirrored'
    <3> SUFFICES ASSUME init = "run", \A d \in Execs : "disk" \notin missed[d]
                 PROVE  /\ \A d \in Execs : ex'[d].pc \in {"trunc", "write"} => ex'[d].from \in Wanted
                        /\ resolv \in Wanted \cup {"torn", Unwritten}
                        /\ (\A d \in Execs : ~At(d, "write")') => resolv # "torn" /\ resolv \in Wanted
      BY <1>1, WantedKept DEF Mirrored
    <3>1. \A d \in Execs : At(d, "write")' <=> At(d, "write")
      BY <1>1, <2>1 DEF At
    <3>2. \A d \in Execs : ex'[d].pc \in {"trunc", "write"} => ex'[d].from \in Wanted
      BY <2>1 DEF IInv, Mirrored
    <3>3. (\A d \in Execs : ~At(d, "write")) => resolv \in Wanted
      BY <1>7, ReadIs
    <3> QED BY <3>1, <3>2, <3>3 DEF IInv, Mirrored
  <2> QED BY <1>1, <2>2, <2>3, <2>4, OthersKept DEF IInv
<1>8. "node" \in Texts
  BY DEF Texts
<1>9. CASE f # "none" /\ Copy(e, f)
  <2>1. f \in Texts /\ Copy(e, f) /\ (f # "none" /\ f = f)
    BY <1>4, <1>9
  <2> QED BY <1>6, <2>1, Zenon
<1>10. CASE f = "none" /\ conf.node /\ Copy(e, "node")
  BY <1>6, <1>8, <1>10
<1> QED BY <1>5, <1>7, <1>9, <1>10

LEMMA MirrorOpenStep ==
    ASSUME IInv, NEW e \in Execs, MirrorOpen(e)
    PROVE  IInv'
<1>1. ex[e].pc = "trunc" /\ UNCHANGED <<init, record, conf, ns, child, result>>
  BY DEF MirrorOpen, At
<1>2. Session(init, ex[e], ns[e], child[e], result[e], missed[e])
  BY DEF IInv, Sessions
<1>3. CASE Goto(e, "write") /\ resolv' = "torn" /\ missed' = missed
  <2>1. /\ ex' \in [Execs -> Ex] /\ ex'[e].from = ex[e].from
        /\ ex'[e].pc = "write" /\ ex'[e].k = ex[e].k /\ ex'[e].thread = ex[e].thread
        /\ \A d \in Execs \ {e} : ex'[d] = ex[d]
    BY <1>3, GotoIs DEF IInv, PCs
  <2>2. TypeOK' /\ Untouched(e)
    BY <1>1, <1>3, <2>1 DEF IInv, TypeOK, Untouched
  <2>3. Session(init, ex[e], ns[e], child[e], result[e], missed[e])'
    BY <1>1, <1>2, <1>3, <2>1 DEF Session, Early, Joined, Late
  <2>4. Mirrored'
    <3> SUFFICES ASSUME init = "run", \A d \in Execs : "disk" \notin missed[d]
                 PROVE  /\ \A d \in Execs : ex'[d].pc \in {"trunc", "write"} => ex'[d].from \in Wanted
                        /\ ~ \A d \in Execs : ~At(d, "write")'
      BY <1>1, <1>3, WantedKept DEF Mirrored
    <3>1. At(e, "write")'
      BY <2>1 DEF At
    <3>2. \A d \in Execs : ex[d].pc \in {"trunc", "write"} => ex[d].from \in Wanted
      BY DEF IInv, Mirrored
    <3> QED BY <1>1, <2>1, <3>1, <3>2
  <2> QED BY <1>1, <2>2, <2>3, <2>4, OthersKept DEF IInv
<1>4. CASE Goto(e, "pty") /\ Miss(e, "disk") /\ resolv' = resolv
  <2>1. /\ ex' \in [Execs -> Ex]
        /\ ex'[e].pc = "pty" /\ ex'[e].k = ex[e].k /\ ex'[e].thread = ex[e].thread
        /\ \A d \in Execs \ {e} : ex'[d] = ex[d]
    BY <1>4, GotoIs DEF IInv, PCs
  <2>2. /\ missed' \in [Execs -> SUBSET {"setns", "disk", "thread"}]
        /\ missed'[e] = missed[e] \cup {"disk"}
        /\ \A d \in Execs \ {e} : missed'[d] = missed[d]
    BY <1>4, MissIs DEF IInv
  <2>3. TypeOK' /\ Untouched(e)
    BY <1>1, <1>4, <2>1, <2>2 DEF IInv, TypeOK, Untouched
  <2>4. Session(init, ex[e], ns[e], child[e], result[e], missed[e])'
    BY <1>1, <1>2, <2>1, <2>2 DEF Session, Early, Joined, Late
  <2>5. Mirrored'
    BY <2>2 DEF Mirrored
  <2> QED BY <1>1, <2>3, <2>4, <2>5, OthersKept DEF IInv
<1> QED BY <1>3, <1>4 DEF MirrorOpen

LEMMA MirrorWriteStep ==
    ASSUME IInv, NEW e \in Execs, MirrorWrite(e)
    PROVE  IInv'
<1>1. /\ ex[e].pc = "write" /\ Goto(e, "pty") /\ UNCHANGED <<init, record, conf, ns, child, result>>
      /\ \/ resolv' = ex[e].from /\ missed' = missed
         \/ Miss(e, "disk") /\ resolv' = resolv
  BY DEF MirrorWrite, At
<1>2. Session(init, ex[e], ns[e], child[e], result[e], missed[e])
  BY DEF IInv, Sessions
<1>3. /\ ex' \in [Execs -> Ex]
      /\ ex'[e].pc = "pty" /\ ex'[e].k = ex[e].k /\ ex'[e].thread = ex[e].thread
      /\ \A d \in Execs \ {e} : ex'[d] = ex[d]
  BY <1>1, GotoIs DEF IInv, PCs
<1>4. /\ missed' \in [Execs -> SUBSET {"setns", "disk", "thread"}]
      /\ (missed' = missed /\ resolv' = ex[e].from) \/ missed'[e] = missed[e] \cup {"disk"}
      /\ \A d \in Execs \ {e} : missed'[d] = missed[d]
  BY <1>1, MissIs DEF IInv, TypeOK
<1>5. TypeOK'
  <2>1. ex[e].from \in Texts
    BY DEF IInv, TypeOK, Ex
  <2> QED BY <1>1, <1>3, <1>4, <2>1 DEF IInv, TypeOK
<1>6. Untouched(e)
  BY <1>1, <1>3, <1>4 DEF Untouched
<1>7. Session(init, ex[e], ns[e], child[e], result[e], missed[e])'
  BY <1>1, <1>2, <1>3, <1>4 DEF Session, Early, Joined, Late
<1>8. Mirrored'
  <2>1. CASE missed'[e] = missed[e] \cup {"disk"}
    BY <2>1 DEF Mirrored
  <2>2. CASE missed' = missed /\ resolv' = ex[e].from
    <3> SUFFICES ASSUME init = "run", \A d \in Execs : "disk" \notin missed[d]
                 PROVE  /\ \A d \in Execs : ex'[d].pc \in {"trunc", "write"} => ex'[d].from \in Wanted
                        /\ resolv' \in Wanted /\ resolv' # "torn"
      BY <1>1, <2>2, WantedKept DEF Mirrored
    <3>1. \A d \in Execs : ex[d].pc \in {"trunc", "write"} => ex[d].from \in Wanted
      BY DEF IInv, Mirrored
    <3> QED BY <1>1, <1>3, <2>2, <3>1, WantedIs
  <2> QED BY <1>4, <2>1, <2>2
<1> QED BY <1>1, <1>5, <1>6, <1>7, <1>8, OthersKept DEF IInv

\* The child has the namespaces that the loop has joined.
LEMMA ForkStep ==
    ASSUME IInv, NEW e \in Execs, StartProcess(e)
    PROVE  IInv'
<1>1. ex[e].pc = "fork" /\ UNCHANGED <<init, record, conf, resolv, missed>>
  BY DEF StartProcess, At
<1>2. CASE Return(e, "error") /\ UNCHANGED child
  BY <1>1, <1>2, EarlyReturn
<1>3. CASE Forked(e) /\ \/ \E l \in {"console", "wait"} : GoOn(e, l)
                        \/ Return(e, "ok")
  <2>1. /\ ns[e][ex[e].thread] \in [Namespaces -> Owners]
        /\ child' = [child EXCEPT ![e] = [child[e] EXCEPT !.st = "run", !.ns = ns[e][ex[e].thread]]]
    <3>1. ex[e].thread \in Threads /\ ns[e] \in [Threads -> [Namespaces -> Owners]]
      BY DEF IInv, TypeOK, Ex
    <3>2. child' = [child EXCEPT ![e] = [child[e] EXCEPT !.st = "run", !.ns = ns[e][ex[e].thread]]]
      BY <1>3 DEF Forked
    <3> QED BY <3>1, <3>2
  <2>2. /\ child' \in [Execs -> [st : {"none", "run", "hungup", "exited"},
                                 ns : [Namespaces -> Owners]]]
        /\ child'[e].st = "run" /\ child'[e].ns = ns[e][ex[e].thread]
        /\ \A d \in Execs \ {e} : child'[d] = child[d]
    BY <2>1 DEF IInv, TypeOK
  <2>3. /\ ex' \in [Execs -> Ex] /\ ns' \in [Execs -> [Threads -> [Namespaces -> Owners]]]
        /\ result' \in [Execs -> {"none", "ok", "error"}]
        /\ \A d \in Execs \ {e} : ex'[d] = ex[d] /\ ns'[d] = ns[d] /\ result'[d] = result[d]
        /\ \/ /\ ex'[e].pc \in {"console", "wait"} /\ result'[e] = result[e]
              /\ ex'[e].k = ex[e].k /\ ex'[e].thread = ex[e].thread /\ ns'[e] = ns[e]
           \/ ex'[e].pc = "done" /\ ex'[e].k = 1 /\ result'[e] = "ok"
    <3>1. CASE Return(e, "ok")
      BY <3>1, ReturnIs DEF IInv
    <3>2. ASSUME NEW l \in {"console", "wait"}, GoOn(e, l)
          PROVE  /\ ex' \in [Execs -> Ex] /\ ex'[e].pc = l
                 /\ ex'[e].k = ex[e].k /\ ex'[e].thread = ex[e].thread
                 /\ \A d \in Execs \ {e} : ex'[d] = ex[d]
                 /\ ns' = ns /\ result' = result
      <4>1. Goto(e, l) /\ l \in PCs /\ ns' = ns /\ result' = result
        BY <3>2 DEF GoOn, PCs
      <4> QED BY <4>1, GotoIs DEF IInv
    <3> QED BY <1>3, <3>1, <3>2 DEF IInv, TypeOK
  <2>4. TypeOK' /\ Untouched(e)
    BY <1>1, <2>2, <2>3 DEF IInv, TypeOK, Untouched
  <2>5. Session(init, ex[e], ns[e], child[e], result[e], missed[e])
    BY DEF IInv, Sessions
  <2>6. ASSUME init = "run", missed[e] \cap {"setns", "thread"} = {}, NEW s \in Namespaces
        PROVE  ns[e][ex[e].thread][s] = "ctr"
    <3>1. \A j \in 1 .. Len(Order) : ns[e][ex[e].thread][Order[j]] = "ctr"
      <4>1. ex[e].k = Len(Order) + 1 /\ 1 .. (Len(Order) + 1) - 1 = 1 .. Len(Order)
        BY <1>1, <2>5, Constants DEF Session, Joined
      <4> QED BY <2>5, <2>6, <4>1 DEF Session
    <3> QED BY <3>1, Constants
  <2>7. Session(init, ex[e], ns[e], child[e], result[e], missed[e])'
    <3>1. result[e] # "error"
      BY <1>1, <2>5 DEF Session
    <3>2. init' = "run" /\ missed'[e] \cap {"setns", "thread"} = {} =>
            /\ \A j \in 1 .. ex'[e].k - 1 : ns'[e][ex'[e].thread][Order[j]] = "ctr"
            /\ \A s \in Namespaces : child'[e].ns[s] = "ctr"
      <4>1. ex'[e].k = 1 => 1 .. ex'[e].k - 1 = {}
        OBVIOUS
      <4> QED BY <1>1, <2>2, <2>3, <2>5, <2>6, <4>1 DEF Session
    <3> QED BY <2>2, <2>3, <3>1, <3>2 DEF Session, Early, Joined, Late
  <2>8. Mirrored'
    BY <1>1, <2>3, <2>4, MirrorKept DEF Mirrors
  <2> QED BY <1>1, <2>4, <2>7, <2>8, OthersKept DEF IInv
<1>4. ex[e].mode \in {"tty", "detach", "wait"}
  BY DEF IInv, TypeOK, Ex
<1> QED BY <1>2, <1>3, <1>4 DEF StartProcess

\* A terminal that cannot be handed over is hung up, and a child that was waited
\* for has exited.
LEMMA LateStep ==
    ASSUME IInv, NEW e \in Execs, sendTerminalFD(e) \/ Wait(e)
    PROVE  IInv'
<1>1. PICK r \in {"ok", "error"} : Return(e, r)
  BY DEF sendTerminalFD, Wait
<1>2. ex[e].pc \in {"console", "wait"} /\ UNCHANGED <<init, record, conf, resolv, missed>>
  BY DEF sendTerminalFD, Wait, At
<1>3. /\ ex' \in [Execs -> Ex] /\ ns' \in [Execs -> [Threads -> [Namespaces -> Owners]]]
      /\ result' \in [Execs -> {"none", "ok", "error"}]
      /\ ex'[e].pc = "done" /\ ex'[e].k = 1 /\ result'[e] = r
      /\ \A d \in Execs \ {e} : ex'[d] = ex[d] /\ ns'[d] = ns[d] /\ result'[d] = result[d]
  BY <1>1, ReturnIs DEF IInv
<1>4. /\ child' \in [Execs -> [st : {"none", "run", "hungup", "exited"},
                               ns : [Namespaces -> Owners]]]
      /\ child'[e].ns = child[e].ns /\ (child'[e].st = "none" <=> child[e].st = "none")
      /\ result'[e] = "error" => child'[e].st # "run"
      /\ \A d \in Execs \ {e} : child'[d] = child[d]
  <2>0. child \in [Execs -> [st : {"none", "run", "hungup", "exited"}, ns : [Namespaces -> Owners]]]
    BY DEF IInv, TypeOK
  <2>1. CASE child' = child /\ (child[e].st = "exited" \/ result'[e] = "ok")
    BY <2>0, <2>1
  <2>2. CASE child' = [child EXCEPT ![e].st = IF @ = "run" THEN "hungup" ELSE @]
    <3> DEFINE c == [child[e] EXCEPT !.st = IF child[e].st = "run" THEN "hungup" ELSE child[e].st]
    <3>1. /\ c \in [st : {"none", "run", "hungup", "exited"}, ns : [Namespaces -> Owners]]
          /\ c.ns = child[e].ns /\ c.st # "run" /\ (c.st = "none" <=> child[e].st = "none")
      BY <2>0
    <3>2. child' = [child EXCEPT ![e] = c]
      BY <2>2
    <3> HIDE DEF c
    <3> QED BY <2>0, <3>1, <3>2
  <2>3. \/ child' = child /\ (child[e].st = "exited" \/ result'[e] = "ok")
        \/ child' = [child EXCEPT ![e].st = IF @ = "run" THEN "hungup" ELSE @]
    <3>1. Return(e, "ok") => result'[e] = "ok"
      BY DEF Return, IInv, TypeOK
    <3> QED BY <3>1 DEF sendTerminalFD, Wait
  <2> QED BY <2>1, <2>2, <2>3
<1>5. TypeOK' /\ Untouched(e)
  BY <1>2, <1>3, <1>4 DEF IInv, TypeOK, Untouched
<1>6. Session(init, ex[e], ns[e], child[e], result[e], missed[e])
  BY DEF IInv, Sessions
<1>7. Session(init, ex[e], ns[e], child[e], result[e], missed[e])'
  BY <1>2, <1>3, <1>4, <1>6 DEF Session, Early, Joined, Late
<1>8. Mirrored'
  BY <1>2, <1>3, <1>4, <1>5, MirrorKept DEF Mirrors
<1> QED BY <1>2, <1>5, <1>7, <1>8, OthersKept DEF IInv

-----------------------------------------------------------------------------
(* The scheduler, the processes and the shim.                              *)

LEMMA MigrateStep ==
    ASSUME IInv, NEW e \in Execs, NEW t \in Threads, Migrate(e, t)
    PROVE  IInv'
<1>1. /\ ex' = [ex EXCEPT ![e] = [ex[e] EXCEPT !.thread = t]] /\ Miss(e, "thread")
      /\ UNCHANGED <<init, record, conf, resolv, ns, child, result>>
  BY DEF Migrate
<1>2. /\ ex' \in [Execs -> Ex] /\ ex'[e].pc = ex[e].pc /\ ex'[e].k = ex[e].k
      /\ ex'[e].from = ex[e].from /\ \A d \in Execs \ {e} : ex'[d] = ex[d]
  <2>1. \A x \in Ex : LET y == [x EXCEPT !.thread = t]
                      IN  y \in Ex /\ y.pc = x.pc /\ y.k = x.k /\ y.from = x.from
    BY DEF Ex
  <2> QED BY <1>1, <2>1 DEF IInv, TypeOK
<1>3. /\ missed' \in [Execs -> SUBSET {"setns", "disk", "thread"}]
      /\ missed'[e] = missed[e] \cup {"thread"}
      /\ \A d \in Execs \ {e} : missed'[d] = missed[d]
  BY <1>1, MissIs DEF IInv
<1>4. TypeOK' /\ Untouched(e)
  BY <1>1, <1>2, <1>3 DEF IInv, TypeOK, Untouched
<1>5. Session(init, ex[e], ns[e], child[e], result[e], missed[e])
  BY DEF IInv, Sessions
<1>6. Session(init, ex[e], ns[e], child[e], result[e], missed[e])'
  BY <1>1, <1>2, <1>3, <1>5 DEF Session
<1>7. Mirrored'
  BY <1>1, <1>2, <1>3, <1>4, MirrorKept
<1> QED BY <1>1, <1>4, <1>6, <1>7, OthersKept DEF IInv

LEMMA ChildExitsStep ==
    ASSUME IInv, NEW e \in Execs, ChildExits(e)
    PROVE  IInv'
<1>1. /\ child[e].st \in {"run", "hungup"}
      /\ child' = [child EXCEPT ![e] = [child[e] EXCEPT !.st = "exited"]]
      /\ UNCHANGED <<init, record, conf, resolv, ex, ns, result, missed>>
  BY DEF ChildExits
<1>2. /\ child' \in [Execs -> [st : {"none", "run", "hungup", "exited"},
                               ns : [Namespaces -> Owners]]]
      /\ child'[e].st = "exited" /\ child'[e].ns = child[e].ns
      /\ \A d \in Execs \ {e} : child'[d] = child[d]
  BY <1>1 DEF IInv, TypeOK
<1>3. TypeOK' /\ Untouched(e)
  BY <1>1, <1>2 DEF IInv, TypeOK, Untouched
<1>4. Session(init, ex[e], ns[e], child[e], result[e], missed[e])
  BY DEF IInv, Sessions
<1>5. Session(init, ex[e], ns[e], child[e], result[e], missed[e])'
  BY <1>1, <1>2, <1>4 DEF Session
<1>6. Mirrored'
  BY <1>1, <1>3, MirrorKept
<1> QED BY <1>1, <1>3, <1>5, <1>6, OthersKept DEF IInv

\* The container's init does not run again.
LEMMA InitStep ==
    ASSUME IInv, InitEnds \/ Delete
    PROVE  IInv'
<1>1. /\ init' = init \/ init' \in {"zombie", "gone", "reused"}
      /\ record' \in BOOLEAN
      /\ UNCHANGED <<conf, resolv, ex, ns, child, result, missed>>
  BY DEF InitEnds, Delete, IInv, TypeOK
<1>2. TypeOK'
  BY <1>1 DEF IInv, TypeOK
<1>3. Sessions'
  <2> SUFFICES ASSUME NEW e \in Execs
               PROVE  Session(init, ex[e], ns[e], child[e], result[e], missed[e])'
    BY DEF Sessions
  <2>1. Session(init, ex[e], ns[e], child[e], result[e], missed[e])
    BY DEF IInv, Sessions
  <2> QED BY <1>1, <2>1 DEF Session
<1>4. Mirrored'
  BY <1>1, WantedKept DEF IInv, Mirrored, At
<1> QED BY <1>2, <1>3, <1>4 DEF IInv

-----------------------------------------------------------------------------
LEMMA InitIInv == Init => IInv
<1> SUFFICES ASSUME Init PROVE IInv
  OBVIOUS
<1>1. Idle \in Ex /\ Idle.pc = "idle" /\ Idle.k = 1 /\ Idle.from = "none"
  BY Constants DEF Idle, Ex, PCs, Texts
<1>2. HostThreads \in [Threads -> [Namespaces -> Owners]] /\ HostNs \in [Namespaces -> Owners]
  BY DEF HostThreads, HostNs, Owners
<1>3. TypeOK
  <2>1. conf \in Confs /\ resolv \in Texts \cup {"torn"}
    BY ExecAssumption DEF Init, Unwritten, Texts
  <2> QED BY <1>1, <1>2, <2>1 DEF Init, TypeOK
<1>4. Sessions
  <2>1. 1 .. 1 - 1 = {}
    OBVIOUS
  <2> QED BY <1>1, <2>1 DEF Init, Sessions, Session, Early, Joined, Late
<1>5. Mirrored
  BY <1>1, WantedIs DEF Init, Mirrored, Mirrors, At, Unwritten
<1> QED BY <1>3, <1>4, <1>5 DEF IInv

LEMMA Inductive == IInv /\ [Next]_vars => IInv'
<1> SUFFICES ASSUME IInv, [Next]_vars PROVE IInv'
  OBVIOUS
<1>1. ASSUME NEW e \in Execs, cmdExec(e) PROVE IInv'
  <2>1. CASE ReadState(e) \/ CheckAlive(e) \/ resolveInRootfs(e) \/ openPTY(e)
    <3>1. UNCHANGED <<init, record, conf, resolv, child, missed>>
      BY <2>1 DEF ReadState, CheckAlive, resolveInRootfs, openPTY
    <3>2. CASE Return(e, "error")
      BY <2>1, <3>1, <3>2, EarlyReturn DEF ReadState, CheckAlive, resolveInRootfs, openPTY, At
    <3>3. CASE ~Return(e, "error")
      <4>1. PICK l \in {"alive", "spec", "setns", "fork"} :
                GoOn(e, l) /\ <<ex[e].pc, l>> \in {<<"read", "alive">>, <<"alive", "spec">>,
                                <<"spec", "setns">>, <<"pty", "fork">>}
        BY <2>1, <3>3 DEF ReadState, CheckAlive, resolveInRootfs, openPTY, At
      <4>2. Goto(e, l) /\ l \in PCs /\ UNCHANGED <<ns, result>>
        BY <4>1 DEF GoOn, PCs
      <4> QED BY <3>1, <4>1, <4>2, PlainStep
    <3> QED BY <3>2, <3>3
  <2> QED BY <1>1, <2>1, SetnsStep, MirrorReadStep, MirrorOpenStep, MirrorWriteStep, ForkStep, LateStep DEF cmdExec
<1>2. CASE UNCHANGED vars
  BY <1>2, WantedKept DEF vars, IInv, TypeOK, Sessions, Mirrored, At
<1> QED BY <1>1, <1>2, InvokeStep, ChildExitsStep, MigrateStep, InitStep DEF Next

LEMMA Invariant == Spec => []IInv
<1> QED BY InitIInv, Inductive, PTL DEF Spec

\* cmdExec's loop of setns and its mirror of resolv.conf: with any number of
\* sessions at once, a session whose every setns succeeded on one thread is in the
\* container's namespaces, and whichever resolv.conf files there are, the rootfs it
\* is chrooted to holds the container's, or the node's in its place, once no
\* invocation is rewriting it.
THEOREM ExecJoins == Spec => []SessionInContainer
<1>1. IInv => SessionInContainer
  <2> SUFFICES ASSUME IInv PROVE SessionInContainer
    OBVIOUS
  <2>1. JoinsUnlessMoved
    BY DEF IInv, Sessions, Session, JoinsUnlessMoved, Inside, InContainer
  <2>2. ResolverMirrored
    BY DEF IInv, Mirrored, ResolverMirrored, Inside
  <2> QED BY <2>1, <2>2 DEF IInv, SessionInContainer
<1> QED BY <1>1, Invariant, PTL

\* cmdExec's error paths: an exec that reports an error leaves no process at work.
THEOREM ExecFailsClean == Spec => []FailedExecLeavesNothing
<1>1. IInv => FailedExecLeavesNothing
  BY DEF IInv, Sessions, Session, FailedExecLeavesNothing
<1> QED BY <1>1, Invariant, PTL
=============================================================================
