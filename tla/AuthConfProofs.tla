--------------------------- MODULE AuthConfProofs --------------------------
(***************************************************************************)
(* Replacing the rules is safe for any number of hooks on any number of    *)
(* CPUs, as long as one sender at a time does it; the code has no lock     *)
(* that would make it so, and two senders can free one block twice.  The   *)
(* same holds while the module is loaded, fails to load and is unloaded,   *)
(* and nothing is used that ntrack_modules_exit has given up, whatever the *)
(* number of senders.  The rules themselves are what the text says, for    *)
(* every text (RuleText.tla, from "The text of the rules" on).             *)
(***************************************************************************)
EXTENDS NtrackModule, RuleText, SequenceTheorems, WellFoundedInduction, TLAPS

\* Rules that a hook may hold: the published ones, or the ones just taken
\* out, whose grace period then waits for this hook.
Held(s, h, b) ==
    b # NULL => /\ b \in alloc
                /\ b \in ready
                /\ \/ b = G_AuthConf
                   \/ /\ spc[s] \in {"sync", "grace"}
                      /\ b = tmp[s]
                      /\ spc[s] = "grace" => h \in wait[s]

\* The published rules and the two blocks of the one sender.
SenderInv(s) ==
    /\ G_AuthConf # NULL => G_AuthConf \in alloc /\ G_AuthConf \in ready
    /\ spc[s] = "take" => G_AuthConf # NULL
    /\ spc[s] = "unpublish" => tmp[s] = G_AuthConf /\ G_AuthConf # NULL
    /\ spc[s] \in {"sync", "grace", "publish"} => G_AuthConf = NULL
    /\ spc[s] \in {"sync", "grace"} => tmp[s] \in alloc
    /\ spc[s] \in {"parse", "test", "take", "unpublish", "sync", "grace", "publish"}
          => /\ conf_tmp[s] \in alloc
             /\ conf_tmp[s] # G_AuthConf
             /\ spc[s] \in {"sync", "grace"} => conf_tmp[s] # tmp[s]
             /\ spc[s] # "parse" => conf_tmp[s] \in ready

HookInv(s) ==
    \A h \in Hooks : /\ Held(s, h, conf[h])
                     /\ Held(s, h, mconf[h])
                     /\ hpc[h] = "idle" => conf[h] = NULL /\ mconf[h] = NULL

ConfInv(s) == TypeOK /\ SenderInv(s) /\ HookInv(s)

LEMMA InitConf ==
    ASSUME NEW s, Senders = {s}
    PROVE  Init => ConfInv(s)
  BY DEF Init, ConfInv, TypeOK, SenderInv, HookInv, Held

\* One step per action of the sender and of a hook.
LEMMA NextConf ==
    ASSUME NEW s, Senders = {s}
    PROVE  ConfInv(s) /\ [Next]_vars => ConfInv(s)'
<1> SUFFICES ASSUME ConfInv(s), [Next]_vars PROVE ConfInv(s)'
  OBVIOUS
<1> USE NullAssumption DEF ConfInv
<1>1. CASE Vmalloc(s)
  BY <1>1 DEF Vmalloc, Goto, TypeOK, SenderInv, HookInv, Held, hvars
<1>2. CASE VmallocFails(s)
  BY <1>2 DEF VmallocFails, Goto, TypeOK, SenderInv, HookInv, Held, hvars
<1>3. CASE Parse(s)
  BY <1>3 DEF Parse, Goto, TypeOK, SenderInv, HookInv, Held, hvars
<1>4. CASE ParseFails(s)
  BY <1>4 DEF ParseFails, Goto, TypeOK, SenderInv, HookInv, Held, hvars
<1>5. CASE Test(s)
  BY <1>5 DEF Test, Goto, TypeOK, SenderInv, HookInv, Held, hvars
<1>6. CASE Take(s)
  BY <1>6 DEF Take, Goto, TypeOK, SenderInv, HookInv, Held, hvars
<1>7. CASE Unpublish(s)
  BY <1>7 DEF Unpublish, Goto, TypeOK, SenderInv, HookInv, Held, hvars
<1>8. CASE SyncBegin(s)
  BY <1>8 DEF SyncBegin, Readers, Goto, TypeOK, SenderInv, HookInv, Held, hvars
<1>9. CASE SyncEnd(s)
  BY <1>9 DEF SyncEnd, Goto, TypeOK, SenderInv, HookInv, Held, hvars
<1>10. CASE Publish(s)
  BY <1>10 DEF Publish, Goto, TypeOK, SenderInv, HookInv, Held, hvars
<1>11. ASSUME NEW h \in Hooks, HookEnter(h) \/ HookUse(h)
       PROVE  ConfInv(s)'
  BY <1>11 DEF HookEnter, HookUse, HookGoto, TypeOK, SenderInv, HookInv,
               Held, svars
<1>12. ASSUME NEW h \in Hooks, HookDeref(h) PROVE ConfInv(s)'
  BY <1>12 DEF HookDeref, HookGoto, TypeOK, SenderInv, HookInv, Held, svars
<1>13. ASSUME NEW h \in Hooks, HookIdentify(h) \/ HookRematch(h)
       PROVE  ConfInv(s)'
  BY <1>13 DEF HookIdentify, HookRematch, HookGoto, TypeOK, SenderInv,
               HookInv, Held, svars
<1>14. ASSUME NEW h \in Hooks, HookMatch(h) PROVE ConfInv(s)'
  BY <1>14 DEF HookMatch, HookGoto, TypeOK, SenderInv, HookInv, Held, svars
<1>15. ASSUME NEW h \in Hooks, HookLeave(h) PROVE ConfInv(s)'
  BY <1>15 DEF HookLeave, HookGoto, TypeOK, SenderInv, HookInv, Held
<1>16. CASE UNCHANGED vars
  BY <1>16 DEF vars, svars, hvars, TypeOK, SenderInv, HookInv, Held
<1> QED
  BY <1>1, <1>2, <1>3, <1>4, <1>5, <1>6, <1>7, <1>8, <1>9, <1>10, <1>11,
     <1>12, <1>13, <1>14, <1>15, <1>16 DEF Next, Update, Hook

LEMMA ConfAlways ==
    ASSUME NEW s, Senders = {s}
    PROVE  Spec => []ConfInv(s)
<1>1. Init => ConfInv(s)
  BY InitConf
<1>2. ConfInv(s) /\ [Next]_vars => ConfInv(s)'
  BY NextConf
<1> QED
  BY <1>1, <1>2, PTL DEF Spec

\* With one sender no hook ever works on rules that vfree has taken.
THEOREM ConfNoUseAfterFree ==
    ASSUME NEW s, Senders = {s}
    PROVE  Spec => []NoUseAfterFree
<1>1. ConfInv(s) => NoUseAfterFree
  BY DEF ConfInv, HookInv, Held, NoUseAfterFree
<1>2. Spec => []ConfInv(s)
  BY ConfAlways
<1> QED
  BY <1>1, <1>2, PTL

\* With one sender the two dereferences of one hook never yield different
\* rules: the old ones are gone from G_AuthConf for a whole grace period
\* before the new ones appear in it.
THEOREM ConfOneConfPerHook ==
    ASSUME NEW s, Senders = {s}
    PROVE  Spec => []OneConfPerHook
<1>1. ConfInv(s) => OneConfPerHook
  BY DEF ConfInv, SenderInv, HookInv, Held, OneConfPerHook
<1>2. Spec => []ConfInv(s)
  BY ConfAlways
<1> QED
  BY <1>1, <1>2, PTL

\* With one sender a block is freed once, and never while it is published.
THEOREM ConfFreesOwnBlock ==
    ASSUME NEW s, Senders = {s}
    PROVE  Spec => []FreesOwnBlock
<1>1. ConfInv(s) => FreesOwnBlock
  BY DEF ConfInv, SenderInv, FreesOwnBlock
<1>2. Spec => []ConfInv(s)
  BY ConfAlways
<1> QED
  BY <1>1, <1>2, PTL

(***************************************************************************)
(* The same while the module is loaded and unloaded (NtrackModule.tla),    *)
(* and what exit gives up, for any number of senders and hooks.            *)
(***************************************************************************)

\* Which step of init and exit leaves what behind.
LifeInv ==
    /\ klog <=> life \in {"conf", "nmsg", "hooks", "match", "up", "err_wq",
                          "err_klog", "exit_hooks", "exit_grace", "exit_wq",
                          "exit_conf", "exit_klog"}
    /\ life \in {"nmsg", "hooks", "match", "up"} => nl_sock
    /\ life \in {"hooks", "match", "up", "exit_hooks", "exit_grace", "exit_wq"} => wq
    /\ wq => life \in {"hooks", "match", "up", "exit_hooks", "exit_grace",
                       "exit_wq", "err_wq"}
    /\ work => wq
    /\ registered <=> life \in {"match", "up", "exit_hooks"}
    /\ match_fn <=> life = "up"

\* A packet is in a hook only while the hooks are registered, or until the
\* grace period of their removal, which waits for it, has ended.
PacketInv ==
    /\ Readers # {} => life \in {"match", "up", "exit_hooks", "exit_grace"}
    /\ life = "exit_grace" => Readers \subseteq lwait

\* A sender in the kernel has a socket, and a socket keeps the module from
\* exit, though not from a failing init.
SocketInv ==
    /\ \A s \in Senders : spc[s] \notin {"idle", "oops"} => s \in open
    /\ open # {} => \/ life \in {"nmsg", "hooks", "match", "up", "failed"}
                    \/ life \in {"err_wq", "err_klog", "err_conf"} /\ nl_sock

ModTyped == ModTypeOK /\ \A s \in Senders : spc[s] = "parse" => conf_tmp[s] \in Blocks

ModInv == ModTyped /\ LifeInv /\ PacketInv /\ SocketInv

LEMMA InitMod == ModInit => ModInv
<1> SUFFICES ASSUME ModInit PROVE ModInv
  OBVIOUS
<1>1. TypeOK
  BY DEF ModInit, Init, TypeOK
<1>2. ModTyped
  BY <1>1 DEF ModInit, Init, ModTyped, ModTypeOK
<1>3. LifeInv
  BY DEF ModInit, LifeInv
<1>4. PacketInv /\ SocketInv
  BY DEF ModInit, Init, PacketInv, SocketInv, Readers
<1> QED
  BY <1>2, <1>3, <1>4 DEF ModInv

\* One step per action of a packet, a sender, the worker, init and exit.
LEMMA NextMod == ModInv /\ [ModNext]_allvars => ModInv'
<1> SUFFICES ASSUME ModInv, [ModNext]_allvars PROVE ModInv'
  OBVIOUS
<1> USE NullAssumption DEF ModInv, ModTyped, ModTypeOK, TypeOK
<1>1. ASSUME NEW h \in Hooks, PacketEnter(h) PROVE ModInv'
  <2> USE <1>1 DEF PacketEnter, HookEnter, HookGoto, svars
  <2>1. ModTyped' OBVIOUS
  <2>2. LifeInv' BY DEF LifeInv
  <2>3. PacketInv' BY DEF LifeInv, PacketInv, Readers
  <2>4. SocketInv' BY DEF SocketInv
  <2> QED BY <2>1, <2>2, <2>3, <2>4
<1>2. ASSUME NEW h \in Hooks, PacketStep(h) PROVE ModInv'
  <2> USE <1>2 DEF PacketStep, HookDeref, HookIdentify, HookUse, HookRematch,
                   HookMatch, HookGoto, svars, mvars
  <2>1. ModTyped' OBVIOUS
  <2>2. LifeInv' BY DEF LifeInv
  <2>3. Readers' = Readers BY DEF Readers
  <2>4. PacketInv' BY <2>3 DEF PacketInv
  <2>5. SocketInv' BY DEF SocketInv
  <2> QED BY <2>1, <2>2, <2>4, <2>5
<1>3. ASSUME NEW h \in Hooks, PacketLeave(h) PROVE ModInv'
  <2> USE <1>3 DEF PacketLeave, HookLeave, HookGoto
  <2>1. ModTyped' OBVIOUS
  <2>2. h \in Readers BY DEF Readers
  <2>3. LifeInv' BY <2>2 DEF LifeInv, PacketInv
  <2>4. Readers' = Readers \ {h} BY DEF Readers
  <2>5. PacketInv' BY <2>4 DEF PacketInv
  <2>6. SocketInv' BY DEF SocketInv
  <2> QED BY <2>1, <2>3, <2>5, <2>6
<1>4. ASSUME NEW s \in Senders, OpenSocket(s) \/ CloseSocket(s) PROVE ModInv'
  BY <1>4 DEF OpenSocket, CloseSocket, vars, svars, hvars, LifeInv, PacketInv,
              SocketInv, Readers
<1>5. ASSUME NEW s \in Senders, Send(s) PROVE ModInv'
  <2> USE <1>5 DEF Send, Vmalloc, VmallocFails, Goto, hvars, mvars
  <2>1. ModTyped' OBVIOUS
  <2>2. LifeInv' /\ PacketInv' BY DEF LifeInv, PacketInv, Readers
  <2>3. SocketInv' BY DEF SocketInv
  <2> QED BY <2>1, <2>2, <2>3
<1>6. ASSUME NEW s \in Senders, SendStep(s) PROVE ModInv'
  <2> USE <1>6 DEF SendStep, Update, Parse, ParseFails, Test, Take, Unpublish,
                   SyncBegin, SyncEnd, Publish, Goto, hvars, mvars
  <2>1. ModTyped' BY DEF Readers
  <2>2. LifeInv' /\ PacketInv' BY DEF LifeInv, PacketInv, Readers
  <2>3. SocketInv' BY DEF SocketInv
  <2> QED BY <2>1, <2>2, <2>3
<1>7. CASE Work
  BY <1>7 DEF Work, vars, svars, hvars, LifeInv, PacketInv, SocketInv, Readers
<1>8. CASE Loading
  <2> USE DEF vars, svars, hvars
  <2>1. CASE InitKlog
    <3> USE <2>1 DEF InitKlog
    <3>1. ModTyped' OBVIOUS
    <3>2. LifeInv' BY DEF LifeInv
    <3>3. PacketInv' BY DEF PacketInv, Readers
    <3>4. SocketInv' BY DEF LifeInv, SocketInv
    <3> QED BY <3>1, <3>2, <3>3, <3>4
  <2>2. CASE ntrack_conf_init
    <3> USE <2>2 DEF ntrack_conf_init
    <3>1. ModTyped' OBVIOUS
    <3>2. LifeInv' BY DEF LifeInv
    <3>3. PacketInv' BY DEF PacketInv, Readers
    <3>4. SocketInv' BY DEF LifeInv, SocketInv
    <3> QED BY <3>1, <3>2, <3>3, <3>4
  <2>3. CASE nmsg_init
    <3> USE <2>3 DEF nmsg_init
    <3>1. ModTyped' OBVIOUS
    <3>2. LifeInv' BY DEF LifeInv
    <3>3. PacketInv' BY DEF PacketInv, Readers
    <3>4. SocketInv' BY DEF LifeInv, SocketInv
    <3> QED BY <3>1, <3>2, <3>3, <3>4
  <2>4. CASE InitHooks
    <3> USE <2>4 DEF InitHooks
    <3>1. ModTyped' OBVIOUS
    <3>2. LifeInv' BY DEF LifeInv
    <3>3. PacketInv' BY DEF PacketInv, Readers
    <3>4. SocketInv' BY DEF LifeInv, SocketInv
    <3> QED BY <3>1, <3>2, <3>3, <3>4
  <2>5. CASE InitMatch
    <3> USE <2>5 DEF InitMatch
    <3>1. ModTyped' OBVIOUS
    <3>2. LifeInv' BY DEF LifeInv
    <3>3. PacketInv' BY DEF PacketInv, Readers
    <3>4. SocketInv' BY DEF LifeInv, SocketInv
    <3> QED BY <3>1, <3>2, <3>3, <3>4
  <2> QED BY <1>8, <2>1, <2>2, <2>3, <2>4, <2>5 DEF Loading
<1>9. CASE ExitMatch
  BY <1>9 DEF ExitMatch, vars, svars, hvars, LifeInv, PacketInv, SocketInv, Readers
<1>10. CASE Unloading
  <2> USE DEF vars, svars, hvars, mvars, LifeInv, PacketInv, SocketInv, Readers
  <2>1. CASE ExitHooks BY <2>1 DEF ExitHooks
  <2>2. CASE ExitGrace BY <2>2 DEF ExitGrace
  <2>3. CASE nmsg_cleanup BY <2>3 DEF nmsg_cleanup
  <2>4. CASE ntrack_conf_exit BY <2>4 DEF ntrack_conf_exit
  <2>5. CASE klog_fini BY <2>5 DEF klog_fini
  <2>6. CASE ExitSync BY <2>6 DEF ExitSync
  <2> QED BY <1>10, <2>1, <2>2, <2>3, <2>4, <2>5, <2>6 DEF Unloading
<1>11. CASE Reload
  BY <1>11 DEF Reload, svars, hvars, mvars, LifeInv, PacketInv, SocketInv, Readers
<1>12. CASE UNCHANGED allvars
  BY <1>12 DEF allvars, vars, svars, hvars, mvars, LifeInv, PacketInv, SocketInv,
               Readers
<1> QED
  BY <1>1, <1>2, <1>3, <1>4, <1>5, <1>6, <1>7, <1>8, <1>9, <1>10, <1>11, <1>12
  DEF ModNext

LEMMA ModAlways == ModSpec => []ModInv
<1>1. ModInv /\ [ModNext]_allvars => ModInv'
  BY NextMod
<1> QED
  BY InitMod, <1>1, PTL DEF ModSpec

\* The module's variables keep their types through loading, failing and
\* unloading, for any number of senders: a sender past vmalloc has a block.
THEOREM ModTypes == ModSpec => []ModTypeOK
<1>1. ModInv => ModTypeOK
  BY DEF ModInv, ModTyped
<1> QED
  BY <1>1, ModAlways, PTL

\* Nothing is used after ntrack_modules_exit has given it up, for any number
\* of packets in hooks and of senders.
THEOREM ModNothingGone == ModSpec => []NothingGone
<1>1. ModInv => NothingGone
  <2> SUFFICES ASSUME ModInv PROVE NothingGone
    OBVIOUS
  <2>1. ASSUME NEW h \in Hooks, hpc[h] # "idle"
        PROVE  klog /\ life # "gone" /\ wq
    BY <2>1 DEF ModInv, LifeInv, PacketInv, Readers
  <2>2. work => wq /\ klog
    BY DEF ModInv, LifeInv
  <2>3. ASSUME NEW s \in Senders, spc[s] \notin {"idle", "oops"},
               life \notin {"err_conf", "failed"}
        PROVE  nl_sock /\ klog
    BY <2>3 DEF ModInv, LifeInv, SocketInv
  <2> QED
    BY <2>1, <2>2, <2>3 DEF NothingGone
<1> QED
  BY <1>1, ModAlways, PTL

\* What a step of the module is to the rules: a step of AuthConf, none, or a
\* new load, which finds no packet in a hook and no sender in the kernel.
LEMMA ModStepRules ==
    ModInv /\ [ModNext]_allvars =>
        \/ [Next]_vars
        \/ /\ G_AuthConf' = NULL
           /\ UNCHANGED <<alloc, ready, svars, hvars>>
           /\ Readers = {}
           /\ \A s \in Senders : spc[s] \in {"idle", "oops"}
<1> SUFFICES ASSUME ModInv, [ModNext]_allvars, ~[Next]_vars
             PROVE  /\ G_AuthConf' = NULL
                    /\ UNCHANGED <<alloc, ready, svars, hvars>>
                    /\ Readers = {}
                    /\ \A s \in Senders : spc[s] \in {"idle", "oops"}
  OBVIOUS
<1>1. ASSUME NEW h \in Hooks, PacketEnter(h) \/ PacketStep(h) \/ PacketLeave(h)
      PROVE  Next
  BY <1>1 DEF PacketEnter, PacketStep, PacketLeave, Next, Hook
<1>2. ASSUME NEW s \in Senders,
             OpenSocket(s) \/ CloseSocket(s) \/ Send(s) \/ SendStep(s)
      PROVE  [Next]_vars
  BY <1>2 DEF OpenSocket, CloseSocket, Send, SendStep, Next
<1>3. Work \/ Loading \/ ExitMatch \/ Unloading \/ UNCHANGED allvars => UNCHANGED vars
  BY DEF Work, Loading, InitKlog, ntrack_conf_init, nmsg_init, InitHooks, InitMatch,
         ExitMatch, Unloading, ExitHooks, ExitGrace, nmsg_cleanup, ntrack_conf_exit,
         klog_fini, ExitSync, allvars
<1>4. Reload
  BY <1>1, <1>2, <1>3 DEF ModNext
<1> QED
  BY <1>4 DEF Reload, ModInv, ModTyped, ModTypeOK, TypeOK, PacketInv, SocketInv

\* With one sender the rules stay safe while the module is loaded, fails to
\* load, and is unloaded: exit leaves the rules where they are, and a hook
\* that still holds them has ended before the module is loaded again.
LEMMA ModConfAlways ==
    ASSUME NEW s, Senders = {s}
    PROVE  ModSpec => []ConfInv(s)
<1>1. ModInit => ConfInv(s)
  BY InitConf DEF ModInit
<1>2. ModInv /\ ConfInv(s) /\ [ModNext]_allvars => ConfInv(s)'
  <2> SUFFICES ASSUME ModInv, ConfInv(s), [ModNext]_allvars PROVE ConfInv(s)'
    OBVIOUS
  <2>1. CASE [Next]_vars
    BY <2>1, NextConf
  <2>2. ASSUME G_AuthConf' = NULL, UNCHANGED <<alloc, ready, svars, hvars>>,
               Readers = {}, spc[s] \in {"idle", "oops"}
        PROVE  ConfInv(s)'
    BY <2>2, NullAssumption DEF Readers, ConfInv, TypeOK, SenderInv, HookInv, Held,
                                svars, hvars
  <2> QED
    BY <2>1, <2>2, ModStepRules
<1> QED
  BY <1>1, <1>2, ModAlways, PTL DEF ModSpec

\* Through loads, failing loads and unloads no hook works on rules that vfree
\* has taken, none mixes two sets of rules, and no block is freed twice.
THEOREM ModRulesSafe ==
    ASSUME NEW s, Senders = {s}
    PROVE  ModSpec => [](NoUseAfterFree /\ OneConfPerHook /\ FreesOwnBlock)
<1>1. ConfInv(s) => NoUseAfterFree /\ OneConfPerHook /\ FreesOwnBlock
  BY DEF ConfInv, SenderInv, HookInv, Held, NoUseAfterFree, OneConfPerHook,
         FreesOwnBlock
<1>2. ModSpec => []ConfInv(s)
  BY ModConfAlways
<1> QED
  BY <1>1, <1>2, PTL
(***************************************************************************)
(* The text of the rules (RuleText.tla).  A recursive function over nodes  *)
(* is found by its equation, because links lead to later nodes; what it    *)
(* returns follows from a least or a greatest node that goes wrong.        *)
(***************************************************************************)

\* A set of numbers that is not empty has a least one, and a greatest one if
\* it is bounded: what takes the place of induction below.
LEMMA LeastNat ==
    ASSUME NEW T \in SUBSET Nat, T # {}
    PROVE  \E m \in T : \A k \in T : m <= k
<1> DEFINE R == {ss \in Nat \X Nat : ss[1] < ss[2]}
<1>1. IsWellFoundedOn(R, Nat)
  BY NatLessThanWellFounded DEF OpToRel
<1>2. \A x, y \in Nat : x < y => <<x, y>> \in R
  OBVIOUS
<1> HIDE DEF R
<1>3. PICK m \in T : \A k \in T : <<k, m>> \notin R
  BY <1>1, WFMin
<1>4. \A k \in T : ~(k < m)
  BY <1>2, <1>3
<1> QED
  BY <1>3, <1>4

LEMMA GreatestNat ==
    ASSUME NEW N \in Nat, NEW T \in SUBSET (0 .. N), T # {}
    PROVE  \E m \in T : \A k \in T : k <= m
<1> DEFINE D == {d \in 0 .. N : N - d \in T}
<1>1. PICK t \in T : TRUE
  OBVIOUS
<1>2. N - t \in D
  <2>1. t \in 0 .. N
    OBVIOUS
  <2>2. N - t \in 0 .. N /\ N - (N - t) = t
    BY <2>1
  <2> QED
    BY <2>2
<1>3. D \in SUBSET Nat /\ D # {}
  BY <1>2
<1>4. PICK d \in D : \A k \in D : d <= k
  BY <1>3, LeastNat
<1>5. ASSUME NEW k \in T PROVE k <= N - d
  <2>1. k \in 0 .. N /\ d \in 0 .. N
    OBVIOUS
  <2>2. N - k \in 0 .. N /\ N - (N - k) = k
    BY <2>1
  <2>3. N - k \in D
    BY <2>2
  <2>4. d <= N - k
    BY <1>4, <2>3
  <2> QED
    BY <2>1, <2>4
<1> QED
  BY <1>4, <1>5

\* Induction from the last node to the first, and to 0, which is none, and
\* from the first to the last.
LEMMA Downwards ==
    ASSUME NEW N \in Nat, NEW P, 0 \in P,
           \A n \in 1 .. N : (\A m \in n + 1 .. N : m \in P) => n \in P
    PROVE  \A n \in 0 .. N : n \in P
<1> SUFFICES ASSUME NEW x \in 0 .. N, x \notin P PROVE FALSE
  OBVIOUS
<1> DEFINE T == {n \in 0 .. N : n \notin P}
<1>1. T \in SUBSET (0 .. N) /\ T # {}
  OBVIOUS
<1>2. PICK n \in T : \A k \in T : k <= n
  BY <1>1, GreatestNat
<1>3. n \in 1 .. N /\ n \notin P
  OBVIOUS
<1>4. \A m \in n + 1 .. N : m \in P
  <2> TAKE m \in n + 1 .. N
  <2>1. m \in 0 .. N /\ ~(m <= n)
    BY <1>3
  <2> QED
    BY <1>2, <2>1
<1> QED
  BY <1>3, <1>4

LEMMA Upwards ==
    ASSUME NEW N \in Nat, NEW P,
           \A n \in 1 .. N : (\A m \in 1 .. n - 1 : m \in P) => n \in P
    PROVE  \A n \in 1 .. N : n \in P
<1> SUFFICES ASSUME NEW x \in 1 .. N, x \notin P PROVE FALSE
  OBVIOUS
<1> DEFINE T == {n \in 1 .. N : n \notin P}
<1>1. T \in SUBSET Nat /\ T # {}
  OBVIOUS
<1>2. PICK n \in T : \A k \in T : n <= k
  BY <1>1, LeastNat
<1>3. n \in 1 .. N /\ n \notin P
  OBVIOUS
<1>4. \A m \in 1 .. n - 1 : m \in P
  <2> TAKE m \in 1 .. n - 1
  <2>1. m \in 1 .. N /\ ~(n <= m)
    BY <1>3
  <2> QED
    BY <1>2, <2>1
<1> QED
  BY <1>3, <1>4

\* Links from each of N nodes to a later one or to none.
Links(N, f) == f \in [1 .. N -> 0 .. N] /\ \A n \in 1 .. N : f[n] = 0 \/ n < f[n]

\* W is e for none, and F says what it is for a node, from what it is for its
\* first child and for the next node.
IsWalk(W, N, T, e, ch, nx, F) ==
    /\ W \in [0 .. N -> T]
    /\ W[0] = e
    /\ \A n \in 1 .. N : W[n] = F[n][<<W[ch[n]], W[nx[n]]>>]

\* There is such a function, as both links lead to later nodes.
LEMMA WalkExists ==
    ASSUME NEW N \in Nat, NEW T, NEW e \in T, NEW ch, Links(N, ch), NEW nx, Links(N, nx),
           NEW F \in [1 .. N -> [T \X T -> T]]
    PROVE  \E W : IsWalk(W, N, T, e, ch, nx, F)
<1> DEFINE Right(W, n) == W[n] = F[n][<<W[ch[n]], W[nx[n]]>>]
           Good(d, W) == W[0] = e /\ \A n \in 1 .. N : N - d < n => Right(W, n)
           Bad == {d \in 0 .. N : ~ \E W \in [0 .. N -> T] : Good(d, W)}
<1>0. \A n \in 1 .. N : /\ ch[n] \in 0 .. N /\ (ch[n] = 0 \/ n < ch[n])
                       /\ nx[n] \in 0 .. N /\ (nx[n] = 0 \/ n < nx[n])
  BY DEF Links
<1>1. ASSUME NEW d \in 0 .. N - 1, NEW W \in [0 .. N -> T], Good(d, W)
      PROVE  \E V \in [0 .. N -> T] : Good(d + 1, V)
  <2> DEFINE b == N - d
             v == F[b][<<W[ch[b]], W[nx[b]]>>]
             V == [W EXCEPT ![b] = v]
  <2>1. b \in 1 .. N /\ b # 0 /\ b \in 0 .. N /\ 0 \in 0 .. N
    OBVIOUS
  <2>2. v \in T
    <3>1. W[ch[b]] \in T /\ W[nx[b]] \in T
      BY <1>0, <2>1
    <3> QED
      BY <2>1, <3>1
  <2>3. \A m \in 0 .. N : V[m] = IF m = b THEN v ELSE W[m]
    OBVIOUS
  <2>4. V \in [0 .. N -> T]
    BY <2>2
  <2> HIDE DEF V
  <2>5. V[0] = e
    BY <1>1, <2>1, <2>3
  <2>6. ASSUME NEW n \in 1 .. N, N - (d + 1) < n PROVE Right(V, n)
    <3>1. ch[n] \in 0 .. N /\ nx[n] \in 0 .. N /\ ch[n] # b /\ nx[n] # b
      BY <1>0, <2>1, <2>6
    <3>2. V[ch[n]] = W[ch[n]] /\ V[nx[n]] = W[nx[n]]
      BY <2>3, <3>1
    <3>3. CASE n = b
      BY <2>1, <2>3, <3>2, <3>3
    <3>4. CASE n # b
      <4>1. N - d < n /\ n \in 0 .. N
        BY <2>1, <2>6, <3>4
      <4>2. Right(W, n)
        BY <1>1, <4>1
      <4>3. V[n] = W[n]
        BY <2>3, <3>4, <4>1
      <4> QED
        BY <3>2, <4>2, <4>3
    <3> QED
      BY <3>3, <3>4
  <2> QED
    BY <2>4, <2>5, <2>6
<1>2. \E W \in [0 .. N -> T] : Good(0, W)
  <2> DEFINE W0 == [n \in 0 .. N |-> e]
  <2>1. W0 \in [0 .. N -> T] /\ W0[0] = e
    OBVIOUS
  <2>2. \A n \in 1 .. N : ~(N - 0 < n)
    OBVIOUS
  <2> QED
    BY <2>1, <2>2
<1> HIDE DEF Good
<1>3. ASSUME Bad # {} PROVE FALSE
  <2>1. Bad \in SUBSET Nat
    OBVIOUS
  <2>2. PICK d \in Bad : \A k \in Bad : d <= k
    BY <1>3, <2>1, LeastNat
  <2>3. d \in 0 .. N /\ ~ \E W \in [0 .. N -> T] : Good(d, W)
    BY <2>2
  <2>4. d # 0
    BY <1>2, <2>3
  <2>5. d - 1 \in 0 .. N - 1 /\ d - 1 \in 0 .. N /\ ~(d <= d - 1) /\ (d - 1) + 1 = d
    BY <2>3, <2>4
  <2>6. d - 1 \notin Bad
    BY <2>2, <2>5
  <2>7. PICK W \in [0 .. N -> T] : Good(d - 1, W)
    BY <2>5, <2>6
  <2>8. \E V \in [0 .. N -> T] : Good((d - 1) + 1, V)
    BY <1>1, <2>5, <2>7
  <2> QED
    BY <2>3, <2>5, <2>8
<1>4. PICK W \in [0 .. N -> T] : Good(N, W)
  <2>1. N \in 0 .. N
    OBVIOUS
  <2> QED
    BY <1>3, <2>1
<1>5. \A n \in 1 .. N : N - N < n
  OBVIOUS
<1> QED
  BY <1>4, <1>5 DEF Good, IsWalk

\* Links that lead from a node to later ones.
Forward ==
    \A n \in 1 .. Len(nodes) :
       /\ nodes[n].child \in 0 .. Len(nodes) /\ (nodes[n].child = 0 \/ n < nodes[n].child)
       /\ nodes[n].next \in 0 .. Len(nodes) /\ (nodes[n].next = 0 \/ n < nodes[n].next)

\* Chain is what its equation says, as next leads to later nodes.
LEMMA ChainFound ==
    ASSUME Forward, Len(nodes) \in Nat
    PROVE  /\ Chain \in [0 .. Len(nodes) -> Seq(1 .. Len(nodes))]
           /\ Chain[0] = <<>>
           /\ \A n \in 1 .. Len(nodes) : Chain[n] = <<n>> \o Chain[nodes[n].next]
<1> DEFINE N == Len(nodes)
           T == Seq(1 .. N)
           ch == [n \in 1 .. N |-> nodes[n].child]
           nx == [n \in 1 .. N |-> nodes[n].next]
           F == [n \in 1 .. N |-> [p \in T \X T |-> <<n>> \o p[2]]]
           e == <<>>
<1>1. Links(N, ch) /\ Links(N, nx)
  BY DEF Forward, Links
<1>2. F \in [1 .. N -> [T \X T -> T]]
  OBVIOUS
<1>3. N \in Nat
  OBVIOUS
<1>4. e \in T
  OBVIOUS
<1> HIDE DEF N, T, ch, nx, F, e
<1>5. PICK W : IsWalk(W, N, T, e, ch, nx, F)
  BY <1>1, <1>2, <1>3, <1>4, WalkExists, Zenon
<1>6. \A n \in 1 .. N : W[n] = <<n>> \o W[nodes[n].next]
  <2> TAKE n \in 1 .. N
  <2>1. <<W[ch[n]], W[nx[n]]>> \in T \X T
    BY <1>1, <1>5 DEF IsWalk, Links
  <2>2. F[n][<<W[ch[n]], W[nx[n]]>>] = <<n>> \o W[nx[n]]
    BY <2>1 DEF F
  <2> QED
    BY <1>5, <2>2 DEF nx, IsWalk
<1>7. W = [n \in 0 .. N |-> IF n = NoNode THEN <<>> ELSE <<n>> \o W[nodes[n].next]]
  <2>1. \A n \in 0 .. N : n = 0 \/ n \in 1 .. N
    BY <1>3
  <2>2. \A n \in 0 .. N : W[n] = IF n = 0 THEN <<>> ELSE <<n>> \o W[nodes[n].next]
    BY <1>5, <1>6, <2>1 DEF e, IsWalk
  <2> QED
    BY <1>5, <2>2 DEF NoNode, IsWalk
<1>8. Chain = [n \in 0 .. N |-> IF n = NoNode THEN <<>> ELSE <<n>> \o Chain[nodes[n].next]]
  BY <1>7, Zenon DEF Chain, N
<1> HIDE DEF Chain
<1> DEFINE G(n) == <<n>> \o Chain[nodes[n].next]
<1>9. Chain[0] = <<>> /\ \A n \in 1 .. N : Chain[n] = G(n)
  <2>1. \A n \in 0 .. N : Chain[n] = IF n = 0 THEN <<>> ELSE G(n)
    BY <1>8, Zenon DEF NoNode
  <2> HIDE DEF G
  <2> QED
    BY <1>3, <2>1
<1> DEFINE P == {n \in 0 .. N : Chain[n] \in T}
<1>10. 0 \in P
  BY <1>3, <1>4, <1>9 DEF e
<1>11. ASSUME NEW n \in 1 .. N, \A m \in n + 1 .. N : m \in P PROVE n \in P
  <2>1. nodes[n].next \in 0 .. N /\ (nodes[n].next = 0 \/ n < nodes[n].next)
    BY DEF Forward, N
  <2>2. nodes[n].next \in P
    <3>1. CASE nodes[n].next = 0
      BY <1>10, <3>1
    <3>2. CASE n < nodes[n].next
      <4>1. nodes[n].next \in n + 1 .. N
        BY <1>3, <2>1, <3>2
      <4> QED
        BY <1>11, <4>1
    <3> QED
      BY <2>1, <3>1, <3>2
  <2>3. G(n) \in T
    BY <2>2 DEF T
  <2> HIDE DEF G
  <2>4. Chain[n] = G(n) /\ n \in 0 .. N
    BY <1>3, <1>9
  <2> QED
    BY <2>3, <2>4
<1>12. \A n \in 0 .. N : n \in P
  <2> HIDE DEF P
  <2> QED
    BY <1>3, <1>10, <1>11, Downwards
<1> QED
  BY <1>8, <1>9, <1>12 DEF N, T

\* So is Freed.
LEMMA FreedFound ==
    ASSUME Forward, Len(nodes) \in Nat
    PROVE  /\ Freed[0] = {}
           /\ \A n \in 1 .. Len(nodes) :
                 Freed[n] = {n} \cup Freed[nodes[n].child] \cup Freed[nodes[n].next]
<1> DEFINE N == Len(nodes)
           T == SUBSET (1 .. N)
           ch == [n \in 1 .. N |-> nodes[n].child]
           nx == [n \in 1 .. N |-> nodes[n].next]
           F == [n \in 1 .. N |-> [p \in T \X T |-> {n} \cup p[1] \cup p[2]]]
           e == {}
<1>1. Links(N, ch) /\ Links(N, nx)
  BY DEF Forward, Links
<1>2. F \in [1 .. N -> [T \X T -> T]]
  OBVIOUS
<1>3. N \in Nat
  OBVIOUS
<1>4. e \in T
  OBVIOUS
<1> HIDE DEF N, T, ch, nx, F, e
<1>5. PICK W : IsWalk(W, N, T, e, ch, nx, F)
  BY <1>1, <1>2, <1>3, <1>4, WalkExists, Zenon
<1>6. \A n \in 1 .. N : W[n] = {n} \cup W[nodes[n].child] \cup W[nodes[n].next]
  <2> TAKE n \in 1 .. N
  <2>1. <<W[ch[n]], W[nx[n]]>> \in T \X T
    BY <1>1, <1>5 DEF IsWalk, Links
  <2>2. F[n][<<W[ch[n]], W[nx[n]]>>] = {n} \cup W[ch[n]] \cup W[nx[n]]
    BY <2>1 DEF F
  <2>3. W[n] = {n} \cup W[ch[n]] \cup W[nx[n]]
    BY <1>5, <2>2, Zenon DEF IsWalk
  <2> QED
    BY <2>3 DEF ch, nx
<1>7. W = [n \in 0 .. N |-> IF n = NoNode THEN {}
                            ELSE {n} \cup W[nodes[n].child] \cup W[nodes[n].next]]
  <2> DEFINE G(n) == {n} \cup W[nodes[n].child] \cup W[nodes[n].next]
  <2>1. \A n \in 1 .. N : W[n] = G(n)
    BY <1>6
  <2> HIDE DEF G
  <2>2. W[0] = {} /\ \A n \in 0 .. N : n = 0 \/ n \in 1 .. N
    BY <1>3, <1>5 DEF e, IsWalk
  <2>3. \A n \in 0 .. N : W[n] = IF n = 0 THEN {} ELSE G(n)
    BY <2>1, <2>2
  <2>4. W = [n \in 0 .. N |-> IF n = 0 THEN {} ELSE G(n)]
    BY <1>5, <2>3 DEF IsWalk
  <2> QED
    BY <2>4, Zenon DEF G, NoNode
<1>8. Freed = [n \in 0 .. N |-> IF n = NoNode THEN {}
                                ELSE {n} \cup Freed[nodes[n].child] \cup Freed[nodes[n].next]]
  BY <1>7, Zenon DEF Freed, N
<1> HIDE DEF Freed
<1> DEFINE G(n) == {n} \cup Freed[nodes[n].child] \cup Freed[nodes[n].next]
<1>9. Freed[0] = {} /\ \A n \in 1 .. N : Freed[n] = G(n)
  <2>1. \A n \in 0 .. N : Freed[n] = IF n = 0 THEN {} ELSE G(n)
    BY <1>8, Zenon DEF NoNode
  <2> HIDE DEF G
  <2> QED
    BY <1>3, <2>1
<1> QED
  BY <1>9, Zenon DEF N

-----------------------------------------------------------------------------
(* The tree *)

NodeTypes == {"root", "object", "array"} \cup Literals \cup Strings

NodeSet == [type : NodeTypes, key : Strings \cup {NoKey}, child : Nat, last : Nat,
            next : Nat, length : Nat]

\* Every node m but the first is one of the children of par[m], which are
\* linked in the order in which they were made.
Linked(par) ==
    /\ Forward
    /\ nodes[1].next = 0
    /\ \A n \in 1 .. Len(nodes) :
          /\ nodes[n].last \in 0 .. Len(nodes)
          /\ nodes[n].child = 0 <=> nodes[n].last = 0
          /\ nodes[n].child # 0 => par[nodes[n].child] = n
          /\ nodes[n].last # 0 => par[nodes[n].last] = n /\ nodes[nodes[n].last].next = 0
          /\ nodes[n].next # 0 => par[nodes[n].next] = par[n]
    /\ \A m \in 2 .. Len(nodes) :
          /\ par[m] \in 1 .. m - 1
          /\ m > 2 => par[m] > 1
          /\ nodes[par[m]].child = m \/ \E l \in 2 .. Len(nodes) : nodes[l].next = m
          /\ nodes[m].next = 0 => nodes[par[m]].last = m

LinkInv == \E par \in [1 .. Len(nodes) -> 0 .. Len(nodes)] : par[1] = 0 /\ Linked(par)

\* nx_json_free gets to every node: to the first child of a node it gets to,
\* and from each child to the next.
LEMMA AllFreed ==
    ASSUME LinkInv, Len(nodes) \in Nat \ {0}, nodes[1].child # 0
    PROVE  \A m \in 2 .. Len(nodes) : m \in nx_json_free(nodes[1].child)
<1> DEFINE N == Len(nodes)
<1>1. PICK par \in [1 .. N -> 0 .. N] : par[1] = 0 /\ Linked(par)
  BY DEF LinkInv
<1>2. Forward /\ N \in Nat /\ N # 0
  BY <1>1 DEF Linked
<1>3. /\ Freed[0] = {}
      /\ \A n \in 1 .. N : Freed[n] = {n} \cup Freed[nodes[n].child] \cup Freed[nodes[n].next]
  BY <1>2, FreedFound
<1> HIDE DEF Freed
<1>4. \A n \in 1 .. N :
         /\ nodes[n].child \in 0 .. N /\ (nodes[n].child = 0 \/ n < nodes[n].child)
         /\ nodes[n].next \in 0 .. N /\ (nodes[n].next = 0 \/ n < nodes[n].next)
  BY <1>2 DEF Forward
<1>5. \A n \in 1 .. N : n \in Freed[n]
  BY <1>3
\* What is freed from n on holds the children of what it holds.
<1> DEFINE Closed(S) == \A m \in S : /\ m \in 1 .. N
                                     /\ nodes[m].child # 0 => nodes[m].child \in S
                                     /\ nodes[m].next # 0 => nodes[m].next \in S
           P == {n \in 0 .. N : Closed(Freed[n])}
<1>6. 0 \in P
  BY <1>2, <1>3
<1>7. ASSUME NEW n \in 1 .. N, \A m \in n + 1 .. N : m \in P PROVE n \in P
  <2> DEFINE c == nodes[n].child
             x == nodes[n].next
  <2>1. c \in 0 .. N /\ (c = 0 \/ n < c) /\ x \in 0 .. N /\ (x = 0 \/ n < x)
    BY <1>4
  <2>2. (c = 0 \/ c \in n + 1 .. N) /\ (x = 0 \/ x \in n + 1 .. N)
    BY <1>2, <2>1
  <2>3. c \in P /\ x \in P
    BY <1>6, <1>7, <2>2
  <2>4. Closed(Freed[c]) /\ Closed(Freed[x])
    BY <2>3
  <2>5. Freed[n] = {n} \cup Freed[c] \cup Freed[x]
    BY <1>3
  <2>6. (c # 0 => c \in Freed[c]) /\ (x # 0 => x \in Freed[x])
    BY <1>2, <1>5, <2>1
  <2>7. Closed(Freed[n])
    BY <2>4, <2>5, <2>6
  <2> QED
    BY <1>2, <2>7
<1>8. \A n \in 0 .. N : n \in P
  <2> HIDE DEF P
  <2> QED
    BY <1>2, <1>6, <1>7, Downwards
<1> DEFINE c == nodes[2].child
           S == {2} \cup Freed[c]
<1>9. N >= 2 /\ nodes[1].child = 2
  <2>1. nodes[1].child \in 2 .. N /\ par[nodes[1].child] = 1
    BY <1>1, <1>2, <1>4 DEF Linked
  <2>2. ~(nodes[1].child > 2)
    BY <1>1, <2>1 DEF Linked
  <2> QED
    BY <1>2, <2>1, <2>2
<1>10. \A m \in S : /\ m \in 1 .. N
                    /\ nodes[m].child # 0 => nodes[m].child \in S
                    /\ m # 2 /\ nodes[m].next # 0 => nodes[m].next \in S
  <2>1. c \in 0 .. N
    BY <1>4, <1>9
  <2>2. Closed(Freed[c])
    BY <1>8, <2>1
  <2>3. c # 0 => c \in Freed[c]
    BY <1>2, <1>5, <2>1
  <2> QED
    BY <1>2, <1>9, <2>2, <2>3
<1> HIDE DEF S
<1> DEFINE Q == {1} \cup S
<1>11. ASSUME NEW m \in 1 .. N, \A l \in 1 .. m - 1 : l \in Q PROVE m \in Q
  <2>1. CASE m <= 2
    BY <2>1 DEF S
  <2>2. CASE m > 2
    <3>1. par[m] \in 2 .. m - 1 /\ par[m] \in S
      BY <1>1, <1>11, <2>2 DEF Linked
    <3>2. CASE nodes[par[m]].child = m
      BY <1>10, <2>2, <3>1, <3>2
    <3>3. ASSUME NEW l \in 2 .. N, nodes[l].next = m PROVE m \in Q
      <4>1. l < m /\ l \in 1 .. N
        BY <1>4, <2>2, <3>3
      <4>2. par[l] = par[m] /\ l # 2
        <5>1. par[l] = par[m]
          <6>1. \A n \in 1 .. N : nodes[n].next # 0 => par[nodes[n].next] = par[n]
            BY <1>1 DEF Linked
          <6> QED
            BY <2>2, <3>3, <4>1, <6>1
        <5>2. par[2] \in 1 .. 1
          BY <1>1, <1>9 DEF Linked
        <5> QED
          BY <3>1, <5>1, <5>2
      <4>3. l \in S
        BY <1>11, <4>1, <3>3
      <4> QED
        BY <1>10, <2>2, <3>3, <4>2, <4>3
    <3>4. nodes[par[m]].child = m \/ \E l \in 2 .. N : nodes[l].next = m
      BY <1>1, <2>2 DEF Linked
    <3> QED
      BY <3>2, <3>3, <3>4
  <2> QED
    BY <2>1, <2>2
<1>12. \A m \in 1 .. N : m \in Q
  <2> HIDE DEF Q
  <2> QED
    BY <1>2, <1>11, Upwards
<1>13. nx_json_free(nodes[1].child) = S
  BY <1>9 DEF nx_json_free, S
<1> QED
  BY <1>2, <1>12, <1>13

\* What create_json does to each field of each node.
Made(type, k) ==
    LET N == Len(nodes)
        p == Head(stack)
        l == nodes[p].last
    IN  /\ nodes' \in Seq(NodeSet)
        /\ Len(nodes') = N + 1
        /\ nodes'[N + 1] = Node(type, k)
        /\ \A m \in 1 .. N :
              /\ nodes'[m].type = nodes[m].type
              /\ nodes'[m].key = nodes[m].key
              /\ nodes'[m].child = IF m = p /\ l = 0 THEN N + 1 ELSE nodes[m].child
              /\ nodes'[m].last = IF m = p THEN N + 1 ELSE nodes[m].last
              /\ nodes'[m].next = IF m = l THEN N + 1 ELSE nodes[m].next
              /\ nodes'[m].length = IF m = p THEN nodes[m].length + 1 ELSE nodes[m].length

\* The types of a node's fields.
LEMMA NodeFields ==
    ASSUME NEW n \in NodeSet
    PROVE  /\ n.type \in NodeTypes /\ n.key \in Strings \cup {NoKey}
           /\ n.child \in Nat /\ n.last \in Nat /\ n.next \in Nat /\ n.length \in Nat
  BY DEF NodeSet

\* A node with one field changed.
LEMMA NodeChild ==
    ASSUME NEW n \in NodeSet, NEW x \in Nat, NEW r, r = [n EXCEPT !.child = x]
    PROVE  /\ r \in NodeSet /\ r.child = x
           /\ r.type = n.type /\ r.key = n.key /\ r.last = n.last
           /\ r.next = n.next /\ r.length = n.length
  BY DEF NodeSet

LEMMA NodeLast ==
    ASSUME NEW n \in NodeSet, NEW x \in Nat, NEW r, r = [n EXCEPT !.last = x]
    PROVE  /\ r \in NodeSet /\ r.last = x
           /\ r.type = n.type /\ r.key = n.key /\ r.child = n.child
           /\ r.next = n.next /\ r.length = n.length
  BY DEF NodeSet

LEMMA NodeNext ==
    ASSUME NEW n \in NodeSet, NEW x \in Nat, NEW r, r = [n EXCEPT !.next = x]
    PROVE  /\ r \in NodeSet /\ r.next = x
           /\ r.type = n.type /\ r.key = n.key /\ r.child = n.child
           /\ r.last = n.last /\ r.length = n.length
  BY DEF NodeSet

LEMMA NodeLength ==
    ASSUME NEW n \in NodeSet, NEW x \in Nat, NEW r, r = [n EXCEPT !.length = x]
    PROVE  /\ r \in NodeSet /\ r.length = x
           /\ r.type = n.type /\ r.key = n.key /\ r.child = n.child
           /\ r.last = n.last /\ r.next = n.next
  BY DEF NodeSet

\* create_json, field by field.
LEMMA Created ==
    ASSUME nodes \in Seq(NodeSet), Head(stack) \in 1 .. Len(nodes),
           nodes[Head(stack)].last \in 0 .. Len(nodes),
           NEW type \in NodeTypes, NEW k \in Strings \cup {NoKey},
           nodes' = create_json(type, k)
    PROVE  Made(type, k)
<1> DEFINE N == Len(nodes)
           p == Head(stack)
           l == nodes[p].last
           linked == IF l = 0 THEN [nodes EXCEPT ![p].child = N + 1]
                     ELSE [nodes EXCEPT ![l].next = N + 1]
           grown == [linked EXCEPT ![p].last = N + 1, ![p].length = @ + 1]
           new == Node(type, k)
<1>1. nodes' = Append(grown, new)
  BY DEF create_json, NoNode
<1>2. N \in Nat /\ p \in 1 .. N /\ l \in 0 .. N
  OBVIOUS
<1>3. \A m \in 1 .. N : nodes[m] \in NodeSet
  BY ElementOfSeq
<1> HIDE DEF N, p, l
<1> DEFINE first == [nodes[p] EXCEPT !.child = N + 1]
           behind == [nodes[l] EXCEPT !.next = N + 1]
<1>a. linked = IF l = 0 THEN [nodes EXCEPT ![p] = first] ELSE [nodes EXCEPT ![l] = behind]
  OBVIOUS
<1>b. N + 1 \in Nat
  BY <1>2
<1>c. /\ first \in NodeSet /\ first.child = N + 1
      /\ first.type = nodes[p].type /\ first.key = nodes[p].key /\ first.last = nodes[p].last
      /\ first.next = nodes[p].next /\ first.length = nodes[p].length
  <2>1. nodes[p] \in NodeSet /\ first = [nodes[p] EXCEPT !.child = N + 1]
    BY <1>2, <1>3
  <2> HIDE DEF first
  <2> QED
    BY <1>b, <2>1, NodeChild
<1>d. l # 0 =>
      /\ behind \in NodeSet /\ behind.next = N + 1
      /\ behind.type = nodes[l].type /\ behind.key = nodes[l].key /\ behind.last = nodes[l].last
      /\ behind.child = nodes[l].child /\ behind.length = nodes[l].length
  <2> SUFFICES ASSUME l # 0
               PROVE  /\ behind \in NodeSet /\ behind.next = N + 1
                      /\ behind.type = nodes[l].type /\ behind.key = nodes[l].key
                      /\ behind.last = nodes[l].last /\ behind.child = nodes[l].child
                      /\ behind.length = nodes[l].length
    OBVIOUS
  <2>1. nodes[l] \in NodeSet /\ behind = [nodes[l] EXCEPT !.next = N + 1]
    BY <1>2, <1>3
  <2> HIDE DEF behind
  <2> QED
    BY <1>b, <2>1, NodeNext
<1> HIDE DEF first, behind, linked
<1>4. linked \in Seq(NodeSet) /\ Len(linked) = N
  <2>1. CASE l = 0
    BY <1>2, <1>a, <1>c, <2>1 DEF N
  <2>2. CASE l # 0
    BY <1>2, <1>a, <1>d, <2>2 DEF N
  <2> QED
    BY <2>1, <2>2
<1>5. \A m \in 1 .. N :
         /\ linked[m] \in NodeSet
         /\ linked[m].type = nodes[m].type
         /\ linked[m].key = nodes[m].key
         /\ linked[m].child = IF m = p /\ l = 0 THEN N + 1 ELSE nodes[m].child
         /\ linked[m].last = nodes[m].last
         /\ linked[m].next = IF m = l THEN N + 1 ELSE nodes[m].next
         /\ linked[m].length = nodes[m].length
  <2> TAKE m \in 1 .. N
  <2>1. CASE l = 0
    <3>1. linked[m] = IF m = p THEN first ELSE nodes[m]
      BY <1>2, <1>a, <2>1 DEF N
    <3>2. m # l
      BY <1>2, <2>1
    <3> QED
      BY <1>3, <1>c, <2>1, <3>1, <3>2
  <2>2. CASE l # 0
    <3>1. linked[m] = IF m = l THEN behind ELSE nodes[m]
      BY <1>2, <1>a, <2>2 DEF N
    <3> QED
      BY <1>3, <1>d, <2>2, <3>1
  <2> QED
    BY <2>1, <2>2
<1> DEFINE end == [linked[p] EXCEPT !.last = N + 1, !.length = linked[p].length + 1]
<1>6. /\ end \in NodeSet /\ end.last = N + 1 /\ end.length = linked[p].length + 1
      /\ end.type = linked[p].type /\ end.key = linked[p].key /\ end.next = linked[p].next
      /\ end.child = linked[p].child
  <2> DEFINE r == [linked[p] EXCEPT !.last = N + 1]
  <2>1. linked[p] \in NodeSet /\ r = [linked[p] EXCEPT !.last = N + 1]
    BY <1>2, <1>5
  <2> HIDE DEF r
  <2>2. /\ r \in NodeSet /\ r.last = N + 1 /\ r.length = linked[p].length
        /\ r.type = linked[p].type /\ r.key = linked[p].key /\ r.next = linked[p].next
        /\ r.child = linked[p].child
    BY <1>b, <2>1, NodeLast
  <2>3. linked[p].length + 1 \in Nat
    BY <2>1, NodeFields
  <2>4. end = [r EXCEPT !.length = linked[p].length + 1]
    BY <2>1, Zenon DEF r
  <2> HIDE DEF end
  <2> QED
    BY <2>2, <2>3, <2>4, NodeLength
<1>7. grown = [linked EXCEPT ![p] = end]
  <2>1. p \in DOMAIN linked
    BY <1>2, <1>4
  <2> QED
    BY <2>1, Zenon
<1> HIDE DEF end, grown
<1>8. grown \in Seq(NodeSet) /\ Len(grown) = N
  BY <1>2, <1>4, <1>6, <1>7
<1>9. \A m \in 1 .. N :
         /\ grown[m].type = linked[m].type
         /\ grown[m].key = linked[m].key
         /\ grown[m].child = linked[m].child
         /\ grown[m].last = IF m = p THEN N + 1 ELSE linked[m].last
         /\ grown[m].next = linked[m].next
         /\ grown[m].length = IF m = p THEN linked[m].length + 1 ELSE linked[m].length
  <2> TAKE m \in 1 .. N
  <2>1. grown[m] = IF m = p THEN end ELSE linked[m]
    BY <1>2, <1>4, <1>7
  <2> QED
    BY <1>6, <2>1
<1>10. new \in NodeSet
  BY DEF Node, NodeSet, NoNode
<1> HIDE DEF new
<1>11. /\ nodes' \in Seq(NodeSet)
       /\ Len(nodes') = N + 1
       /\ nodes'[N + 1] = new
       /\ \A m \in 1 .. N : nodes'[m] = grown[m]
  BY <1>1, <1>8, <1>10, AppendProperties
<1> QED
  BY <1>2, <1>5, <1>9, <1>11 DEF Made, new, N, p, l

Parsing == {"value", "member", "key", "colon", "string", "keystring"}
Reading == {"entries", "entry", "sets", "flags", "install"}

TextTyped ==
    /\ pc \in Parsing \cup Reading \cup {"parsed", "einval", "failed", "synced"}
    /\ text \in Seq(Tokens)
    /\ nodes \in Seq(NodeSet) /\ Len(nodes) # 0
    /\ stack \in Seq(Nat) /\ Len(stack) # 0
    /\ key \in Strings \cup {NoKey}

\* The open nodes: each is the last child of the one below it, down to the
\* root.
Nested ==
    /\ stack[Len(stack)] = 1
    /\ nodes[1].type = "root"
    /\ \A k \in 1 .. Len(stack) : stack[k] \in 1 .. Len(nodes)
    /\ \A k \in 1 .. Len(stack) - 1 : /\ nodes[stack[k]].type \in {"object", "array"}
                                      /\ nodes[stack[k + 1]].last = stack[k]
    /\ \A k, m \in 1 .. Len(stack) : k < m => stack[m] < stack[k]

\* Where the parser is says what is open, and that the root has one child.
Phase ==
    /\ pc \in {"key", "keystring", "colon", "member"} \/ key # NoKey
          => Len(stack) > 1 /\ nodes[stack[1]].type = "object"
    /\ pc \in {"keystring", "colon", "member"} => key # NoKey
    /\ pc \in {"key", "string", "parsed"} => key = NoKey
    /\ AtValue /\ Len(stack) = 1 => Len(nodes) = 1
    /\ pc = "parsed" => Len(stack) = 1

LiveInv == live = IF pc \in {"failed", "synced"} THEN {} ELSE 2 .. Len(nodes)

TreeInv == TextTyped /\ Nested /\ Phase /\ LinkInv

\* A new node is the last child of the innermost open one.
LEMMA LinkedMade ==
    ASSUME TextTyped, Nested, LinkInv, NEW type, NEW k, Made(type, k),
           stack[1] = 1 => Len(nodes) = 1
    PROVE  LinkInv'
<1>1. PICK N \in Nat : N = Len(nodes) /\ N # 0
  BY DEF TextTyped
<1>2. PICK p \in 1 .. N : p = stack[1] /\ p = Head(stack) /\ (p = 1 => N = 1)
  BY <1>1 DEF TextTyped, Nested
<1>3. PICK par \in [1 .. N -> 0 .. N] : par[1] = 0 /\ Linked(par)
  BY <1>1 DEF LinkInv
<1>4. PICK l \in 0 .. N : l = nodes[p].last
  BY <1>1, <1>3 DEF Linked
<1>5. PICK q \in [1 .. N + 1 -> 0 .. N + 1] :
         q[N + 1] = p /\ \A m \in 1 .. N : q[m] = par[m]
  <2> DEFINE q == [m \in 1 .. N + 1 |-> IF m = N + 1 THEN p ELSE par[m]]
  <2>1. \A m \in 1 .. N + 1 : q[m] \in 0 .. N + 1
    OBVIOUS
  <2>2. q \in [1 .. N + 1 -> 0 .. N + 1] /\ q[N + 1] = p /\ \A m \in 1 .. N : q[m] = par[m]
    BY <2>1
  <2> QED
    BY <2>2, Zenon
<1>6. /\ Len(nodes') = N + 1
      /\ nodes'[N + 1].child = 0 /\ nodes'[N + 1].last = 0 /\ nodes'[N + 1].next = 0
  BY <1>1 DEF Made, Node, NoNode
<1>c. \A m \in 1 .. N : nodes'[m].child = IF m = p /\ l = 0 THEN N + 1 ELSE nodes[m].child
  BY <1>1, <1>2, <1>4 DEF Made
<1>l. \A m \in 1 .. N : nodes'[m].last = IF m = p THEN N + 1 ELSE nodes[m].last
  BY <1>1, <1>2 DEF Made
<1>n. \A m \in 1 .. N : nodes'[m].next = IF m = l THEN N + 1 ELSE nodes[m].next
  BY <1>1, <1>2, <1>4 DEF Made
<1>C. \A n \in 1 .. N : /\ nodes[n].child \in 0 .. N /\ (nodes[n].child = 0 \/ n < nodes[n].child)
                        /\ nodes[n].child # 0 => par[nodes[n].child] = n
  BY <1>1, <1>3 DEF Linked, Forward
<1>N. \A n \in 1 .. N : /\ nodes[n].next \in 0 .. N /\ (nodes[n].next = 0 \/ n < nodes[n].next)
                        /\ nodes[n].next # 0 => par[nodes[n].next] = par[n]
  BY <1>1, <1>3 DEF Linked, Forward
<1>L. \A n \in 1 .. N : /\ nodes[n].last \in 0 .. N
                        /\ nodes[n].child = 0 <=> nodes[n].last = 0
                        /\ nodes[n].last # 0 => par[nodes[n].last] = n /\ nodes[nodes[n].last].next = 0
  BY <1>1, <1>3 DEF Linked
<1>7. /\ nodes[1].next = 0
      /\ \A m \in 2 .. N :
            /\ par[m] \in 1 .. m - 1
            /\ m > 2 => par[m] > 1
            /\ nodes[par[m]].child = m \/ \E x \in 2 .. N : nodes[x].next = m
            /\ nodes[m].next = 0 => nodes[par[m]].last = m
  BY <1>1, <1>3 DEF Linked
<1>8. N + 1 \in 2 .. N + 1 /\ \A m \in 1 .. N + 1 : m \in 1 .. N \/ m = N + 1
  BY <1>1
<1>9. l # 0 => l # 1 /\ par[l] = p /\ q[l] = p
  BY <1>3, <1>4, <1>5, <1>L
<1>10. Forward'
  <2> SUFFICES ASSUME NEW n \in 1 .. N + 1
               PROVE  /\ nodes'[n].child \in 0 .. N + 1
                      /\ nodes'[n].child = 0 \/ n < nodes'[n].child
                      /\ nodes'[n].next \in 0 .. N + 1
                      /\ nodes'[n].next = 0 \/ n < nodes'[n].next
    BY <1>6 DEF Forward
  <2>1. CASE n = N + 1
    BY <1>6, <2>1
  <2>2. CASE n \in 1 .. N
    <3>0. n \in Nat /\ n < N + 1 /\ N + 1 \in 0 .. N + 1 /\ \A x \in 0 .. N : x \in 0 .. N + 1
      BY <2>2
    <3>1. nodes'[n].child \in 0 .. N + 1 /\ (nodes'[n].child = 0 \/ n < nodes'[n].child)
      <4>1. nodes'[n].child = N + 1 \/ nodes'[n].child = nodes[n].child
        BY <1>c, <2>2
      <4>2. nodes[n].child \in 0 .. N /\ (nodes[n].child = 0 \/ n < nodes[n].child)
        BY <1>C, <2>2
      <4> QED
        BY <3>0, <4>1, <4>2
    <3>2. nodes'[n].next \in 0 .. N + 1 /\ (nodes'[n].next = 0 \/ n < nodes'[n].next)
      <4>1. nodes'[n].next = N + 1 \/ nodes'[n].next = nodes[n].next
        BY <1>n, <2>2
      <4>2. nodes[n].next \in 0 .. N /\ (nodes[n].next = 0 \/ n < nodes[n].next)
        BY <1>N, <2>2
      <4> QED
        BY <3>0, <4>1, <4>2
    <3> QED
      BY <3>1, <3>2
  <2> QED
    BY <1>8, <2>1, <2>2
<1>11. nodes'[1].next = 0
  <2>1. 1 \in 1 .. N /\ l # 1
    BY <1>1, <1>9
  <2> QED
    BY <1>n, <1>7, <2>1
<1>12. ASSUME NEW n \in 1 .. N + 1
       PROVE  /\ nodes'[n].last \in 0 .. N + 1
              /\ nodes'[n].child = 0 <=> nodes'[n].last = 0
              /\ nodes'[n].child # 0 => q[nodes'[n].child] = n
              /\ nodes'[n].last # 0 => q[nodes'[n].last] = n /\ nodes'[nodes'[n].last].next = 0
              /\ nodes'[n].next # 0 => q[nodes'[n].next] = q[n]
  <2>1. CASE n = N + 1
    BY <1>6, <2>1
  <2>2. CASE n \in 1 .. N
    <3>1. nodes'[n].last \in 0 .. N + 1 /\ (nodes'[n].child = 0 <=> nodes'[n].last = 0)
      <4>1. n # p => nodes'[n].child = nodes[n].child /\ nodes'[n].last = nodes[n].last
        BY <1>c, <1>l, <2>2
      <4>2. n = p => nodes'[n].child # 0 /\ nodes'[n].last = N + 1
        <5>1. l # 0 => nodes[p].child # 0
          BY <1>4, <1>L
        <5> QED
          BY <1>c, <1>l, <2>2, <5>1
      <4> QED
        BY <1>L, <2>2, <4>1, <4>2
    <3>2. nodes'[n].child # 0 => q[nodes'[n].child] = n
      <4>1. CASE n = p /\ l = 0
        BY <1>c, <1>5, <2>2, <4>1
      <4>2. CASE ~(n = p /\ l = 0)
        <5>1. nodes'[n].child = nodes[n].child
          BY <1>c, <2>2, <4>2
        <5>2. nodes[n].child # 0 => nodes[n].child \in 1 .. N /\ par[nodes[n].child] = n
          BY <1>C, <2>2
        <5> QED
          BY <1>5, <5>1, <5>2
      <4> QED
        BY <4>1, <4>2
    <3>3. nodes'[n].next # 0 => q[nodes'[n].next] = q[n]
      <4>1. CASE n = l
        BY <1>n, <1>5, <1>9, <2>2, <4>1
      <4>2. CASE n # l
        <5>1. nodes'[n].next = nodes[n].next
          BY <1>n, <2>2, <4>2
        <5>2. nodes[n].next # 0 => nodes[n].next \in 1 .. N /\ par[nodes[n].next] = par[n]
          BY <1>N, <2>2
        <5> QED
          BY <1>5, <2>2, <5>1, <5>2
      <4> QED
        BY <4>1, <4>2
    <3>4. nodes'[n].last # 0 => q[nodes'[n].last] = n /\ nodes'[nodes'[n].last].next = 0
      <4>1. CASE n = p
        <5>1. nodes'[n].last = N + 1
          BY <1>l, <2>2, <4>1
        <5> QED
          BY <1>5, <1>6, <4>1, <5>1
      <4>2. ASSUME n # p, nodes[n].last # 0
            PROVE  q[nodes[n].last] = n /\ nodes'[nodes[n].last].next = 0
        <5>0. nodes[n].last \in 0 .. N /\ \A x \in 0 .. N : x # 0 => x \in 1 .. N
          BY <1>L, <2>2
        <5>1. nodes[n].last \in 1 .. N /\ par[nodes[n].last] = n /\ nodes[nodes[n].last].next = 0
          BY <1>L, <2>2, <4>2, <5>0, Zenon
        <5>2. nodes[n].last # l
          BY <1>9, <4>2, <5>1
        <5> QED
          BY <1>5, <1>n, <5>1, <5>2
      <4>3. n # p => nodes'[n].last = nodes[n].last
        BY <1>l, <2>2
      <4> QED
        BY <4>1, <4>2, <4>3
    <3> QED
      BY <3>1, <3>2, <3>3, <3>4
  <2> QED
    BY <1>8, <2>1, <2>2
<1>13. ASSUME NEW m \in 2 .. N + 1
       PROVE  /\ q[m] \in 1 .. m - 1
              /\ m > 2 => q[m] > 1
              /\ nodes'[q[m]].child = m \/ \E x \in 2 .. N + 1 : nodes'[x].next = m
              /\ nodes'[m].next = 0 => nodes'[q[m]].last = m
  <2>1. CASE m = N + 1
    <3>1. q[m] = p /\ q[m] \in 1 .. m - 1 /\ (m > 2 => q[m] > 1)
      BY <1>1, <1>2, <1>5, <2>1
    <3>2. nodes'[p].last = m
      BY <1>l, <2>1
    <3>3. l = 0 => nodes'[p].child = m
      BY <1>c, <2>1
    <3>4. l # 0 => l \in 2 .. N + 1 /\ nodes'[l].next = m
      BY <1>n, <1>9, <2>1
    <3> QED
      BY <3>1, <3>2, <3>3, <3>4
  <2>2. CASE m \in 2 .. N
    <3>1. q[m] = par[m] /\ q[m] \in 1 .. m - 1 /\ q[m] \in 1 .. N /\ (m > 2 => q[m] > 1)
      <4>1. q[m] = par[m]
        BY <1>5, <2>2
      <4>2. par[m] \in 1 .. m - 1 /\ (m > 2 => par[m] > 1)
        BY <1>7, <2>2
      <4> QED
        BY <2>2, <4>1, <4>2
    <3>2. nodes[q[m]].child = m => nodes'[q[m]].child = m
      <4>0. m # 0 /\ (nodes[p].child = 0 <=> l = 0)
        <5>1. nodes[p].child = 0 <=> nodes[p].last = 0
          BY <1>L
        <5>2. m # 0
          BY <2>2
        <5> QED
          BY <1>4, <5>1, <5>2, Zenon
      <4>1. nodes[q[m]].child = m => ~(q[m] = p /\ l = 0)
        BY <4>0, Zenon
      <4> QED
        BY <1>c, <3>1, <4>1
    <3>3. ASSUME NEW x \in 2 .. N, nodes[x].next = m PROVE nodes'[x].next = m
      <4>1. x \in 1 .. N /\ nodes[x].next # 0
        BY <2>2, <3>3
      <4>2. x # l
        <5>1. nodes[p].last # 0 => nodes[nodes[p].last].next = 0
          BY <1>L
        <5>2. x # 0
          OBVIOUS
        <5> QED
          BY <1>4, <4>1, <5>1, <5>2, Zenon
      <4> QED
        BY <1>n, <3>3, <4>1, <4>2
    <3>4. nodes'[m].next = 0 => nodes'[q[m]].last = m
      <4> SUFFICES ASSUME nodes'[m].next = 0 PROVE nodes'[q[m]].last = m
        OBVIOUS
      <4>1. m # l /\ nodes[m].next = 0
        BY <1>n, <2>2
      <4>2. nodes[q[m]].last = m
        BY <1>7, <2>2, <3>1, <4>1
      <4>3. q[m] # p
        BY <1>4, <4>1, <4>2
      <4> QED
        BY <1>l, <3>1, <4>2, <4>3
    <3>5. nodes[q[m]].child = m \/ \E x \in 2 .. N : nodes[x].next = m
      BY <1>7, <2>2, <3>1
    <3>6. nodes'[q[m]].child = m \/ \E x \in 2 .. N + 1 : nodes'[x].next = m
      <4>1. CASE nodes[q[m]].child = m
        BY <3>2, <4>1
      <4>2. ASSUME NEW x \in 2 .. N, nodes[x].next = m
            PROVE  \E y \in 2 .. N + 1 : nodes'[y].next = m
        <5>1. x \in 2 .. N + 1
          OBVIOUS
        <5> QED
          BY <3>3, <4>2, <5>1
      <4> QED
        BY <3>5, <4>1, <4>2
    <3> QED
      BY <3>1, <3>4, <3>6
  <2> QED
    BY <1>1, <2>1, <2>2
<1>14. q[1] = 0
  BY <1>1, <1>3, <1>5
<1>15. Linked(q)'
  BY <1>6, <1>10, <1>11, <1>12, <1>13 DEF Linked
<1> QED
  BY <1>5, <1>6, <1>14, <1>15 DEF LinkInv

\* Which words are tokens and types of nodes.
LEMMA TokenFacts ==
    /\ {"lbrace", "rbrace", "lbracket", "rbracket", "colon"} \subseteq Tokens
    /\ Literals \cup Strings \subseteq Tokens
    /\ {"object", "array"} \cup Literals \cup Strings \subseteq NodeTypes
    /\ "comma" \notin Literals \cup Strings
    /\ "object" \notin Literals \cup Strings
    /\ "array" \notin Literals \cup Strings
    /\ NoKey \notin Strings
  BY RuleTextAssumption DEF Tokens, Marks, Literals, NodeTypes, NoKey

\* Where After leads.
LEMMA AfterCases ==
    ASSUME NEW st, st # <<>>, st \in Seq(Nat)
    PROVE  /\ After(st) \in {"parsed", "key", "value"}
           /\ After(st) = "parsed" <=> Len(st) = 1
           /\ After(st) = "key" => nodes[st[1]].type = "object"
  BY DEF After

\* The root is the innermost open node only when it is the only one.
LEMMA RootAlone ==
    ASSUME TreeInv
    PROVE  /\ Len(stack) \in Nat \ {0} /\ stack # <<>>
           /\ Head(stack) = stack[1] /\ stack[1] \in 1 .. Len(nodes)
           /\ stack[1] = 1 <=> Len(stack) = 1
<1>1. Len(stack) \in Nat \ {0} /\ Head(stack) = stack[1] /\ stack # <<>>
  BY DEF TreeInv, TextTyped
<1>2. stack[1] \in 1 .. Len(nodes) /\ stack[Len(stack)] = 1
  BY <1>1 DEF TreeInv, Nested
<1>3. Len(stack) > 1 => stack[Len(stack)] < stack[1]
  BY <1>1 DEF TreeInv, Nested
<1>4. Len(nodes) \in Nat
  BY DEF TreeInv, TextTyped
<1>5. CASE Len(stack) = 1
  BY <1>1, <1>2, <1>5
<1>6. CASE Len(stack) > 1
  <2>1. 1 < stack[1]
    BY <1>2, <1>3, <1>6
  <2>2. stack[1] # 1 /\ Len(stack) # 1
    BY <1>1, <1>2, <1>4, <1>6, <2>1
  <2> QED
    BY <1>1, <1>2, <2>2
<1>7. Len(stack) = 1 \/ Len(stack) > 1
  <2>1. \A x \in Nat \ {0} : x = 1 \/ x > 1
    OBVIOUS
  <2> QED
    BY <1>1, <2>1
<1> QED
  BY <1>5, <1>6, <1>7

\* The parser makes a node.
LEMMA CreateMade ==
    ASSUME TreeInv, AtValue, NEW type \in NodeTypes, NEW t \in Tokens \ {"comma"}, NEW nxt,
           Create(type, t, nxt)
    PROVE  /\ Made(type, key) /\ LinkInv'
           /\ text' = Append(text, t) /\ text' \in Seq(Tokens)
           /\ key' = NoKey /\ pc' = nxt
           /\ live' = live \cup {Len(nodes) + 1}
           /\ UNCHANGED <<gap, units, loop>>
<1>1. /\ nodes' = create_json(type, key)
      /\ text' = Append(text, t) /\ key' = NoKey /\ pc' = nxt
      /\ live' = live \cup {Len(nodes) + 1}
      /\ UNCHANGED <<gap, units, loop>>
  BY DEF Create, Consume
<1>2. nodes \in Seq(NodeSet) /\ text \in Seq(Tokens) /\ key \in Strings \cup {NoKey}
  BY DEF TreeInv, TextTyped
<1>3. text' \in Seq(Tokens)
  BY <1>1, <1>2, AppendProperties
<1>4. Head(stack) \in 1 .. Len(nodes) /\ (stack[1] = 1 => Len(nodes) = 1)
  BY RootAlone DEF TreeInv, Phase
<1>5. nodes[Head(stack)].last \in 0 .. Len(nodes)
  BY <1>4 DEF TreeInv, LinkInv, Linked
<1>6. Made(type, key)
  BY <1>1, <1>2, <1>4, <1>5, Created
<1>7. LinkInv'
  BY <1>4, <1>6, LinkedMade DEF TreeInv
<1> QED
  BY <1>1, <1>3, <1>6, <1>7

\* The open nodes stay nested when one of them gets a child.
LEMMA NestedMade ==
    ASSUME TreeInv, NEW type, NEW k, Made(type, k)
    PROVE  /\ \A m \in 1 .. Len(nodes) : nodes'[m].type = nodes[m].type
           /\ nodes'[1].type = "root"
           /\ \A m \in 1 .. Len(stack) : stack[m] \in 1 .. Len(nodes')
           /\ \A m \in 1 .. Len(stack) - 1 : /\ nodes'[stack[m]].type \in {"object", "array"}
                                             /\ nodes'[stack[m + 1]].last = stack[m]
           /\ nodes'[stack[1]].last = Len(nodes) + 1
           /\ Len(nodes') = Len(nodes) + 1 /\ nodes' \in Seq(NodeSet)
<1>1. Len(nodes) \in Nat \ {0} /\ Len(nodes') = Len(nodes) + 1 /\ nodes' \in Seq(NodeSet)
  BY DEF Made, TreeInv, TextTyped
<1>2. \A m \in 1 .. Len(nodes) : nodes'[m].type = nodes[m].type
  BY DEF Made
<1>3. \A m \in 1 .. Len(nodes) :
         nodes'[m].last = IF m = stack[1] THEN Len(nodes) + 1 ELSE nodes[m].last
  BY RootAlone DEF Made
<1>4. /\ Len(stack) \in Nat \ {0} /\ nodes[1].type = "root"
      /\ \A m \in 1 .. Len(stack) : stack[m] \in 1 .. Len(nodes)
      /\ \A m \in 1 .. Len(stack) - 1 : /\ nodes[stack[m]].type \in {"object", "array"}
                                        /\ nodes[stack[m + 1]].last = stack[m]
      /\ \A m, n \in 1 .. Len(stack) : m < n => stack[n] < stack[m]
  BY RootAlone DEF TreeInv, Nested
<1>5. ASSUME NEW m \in 1 .. Len(stack) - 1
      PROVE  /\ nodes'[stack[m]].type \in {"object", "array"}
             /\ nodes'[stack[m + 1]].last = stack[m]
  <2>1. m \in 1 .. Len(stack) /\ m + 1 \in 1 .. Len(stack) /\ 1 \in 1 .. Len(stack) /\ 1 < m + 1
    BY <1>4
  <2>2. stack[m] \in 1 .. Len(nodes) /\ stack[m + 1] \in 1 .. Len(nodes)
    BY <1>4, <2>1
  <2>3. stack[m + 1] # stack[1]
    <3>1. stack[m + 1] < stack[1]
      BY <1>4, <2>1
    <3> QED
      BY <1>1, <2>2, <3>1
  <2> QED
    BY <1>2, <1>3, <1>4, <2>2, <2>3
<1>6. nodes'[stack[1]].last = Len(nodes) + 1 /\ nodes'[1].type = "root"
  BY <1>1, <1>2, <1>3, <1>4
<1>7. \A m \in 1 .. Len(stack) : stack[m] \in 1 .. Len(nodes')
  BY <1>1, <1>4
<1> QED
  BY <1>1, <1>2, <1>5, <1>6, <1>7

\* One more node is open.
LEMMA Pushed ==
    ASSUME NEW s \in Seq(Nat), NEW n \in Nat, NEW r, r = <<n>> \o s
    PROVE  /\ r \in Seq(Nat) /\ Len(r) = Len(s) + 1 /\ r[1] = n
           /\ \A k \in 1 .. Len(s) : r[k + 1] = s[k]
  OBVIOUS

\* The innermost open node is closed.
LEMMA Popped ==
    ASSUME TreeInv, Len(stack) > 1, stack' = Tail(stack), nodes' = nodes
    PROVE  /\ stack' \in Seq(Nat) /\ Len(stack') = Len(stack) - 1
           /\ \A k \in 1 .. Len(stack) - 1 : stack'[k] = stack[k + 1]
           /\ Nested'
<1>1. /\ stack' \in Seq(Nat) /\ Len(stack') = Len(stack) - 1 /\ Len(stack) \in Nat
      /\ \A k \in 1 .. Len(stack) - 1 : stack'[k] = stack[k + 1]
  BY DEF TreeInv, TextTyped
<1>2. /\ stack[Len(stack)] = 1 /\ nodes[1].type = "root"
      /\ \A m \in 1 .. Len(stack) : stack[m] \in 1 .. Len(nodes)
      /\ \A m \in 1 .. Len(stack) - 1 : /\ nodes[stack[m]].type \in {"object", "array"}
                                        /\ nodes[stack[m + 1]].last = stack[m]
      /\ \A m, n \in 1 .. Len(stack) : m < n => stack[n] < stack[m]
  BY DEF TreeInv, Nested
<1>3. stack'[Len(stack')] = 1
  BY <1>1, <1>2
<1>4. \A m \in 1 .. Len(stack') : stack'[m] \in 1 .. Len(nodes)
  BY <1>1, <1>2
<1>5. ASSUME NEW m \in 1 .. Len(stack') - 1
      PROVE  nodes[stack'[m]].type \in {"object", "array"} /\ nodes[stack'[m + 1]].last = stack'[m]
  <2>1. m + 1 \in 1 .. Len(stack) - 1 /\ m \in 1 .. Len(stack) - 1
    BY <1>1
  <2>2. stack'[m] = stack[m + 1] /\ stack'[m + 1] = stack[(m + 1) + 1]
    BY <1>1, <2>1
  <2> QED
    BY <1>2, <2>1, <2>2
<1>6. ASSUME NEW m \in 1 .. Len(stack'), NEW n \in 1 .. Len(stack'), m < n
      PROVE  stack'[n] < stack'[m]
  <2>1. m + 1 \in 1 .. Len(stack) /\ n + 1 \in 1 .. Len(stack) /\ m + 1 < n + 1
    BY <1>1, <1>6
  <2>2. stack'[m] = stack[m + 1] /\ stack'[n] = stack[n + 1]
    BY <1>1
  <2> QED
    BY <1>2, <2>1, <2>2
<1> QED
  BY <1>1, <1>2, <1>3, <1>4, <1>5, <1>6 DEF Nested

\* A new object or array is open, on top of the others.
LEMMA NestedPushed ==
    ASSUME TreeInv, NEW type \in {"object", "array"}, NEW k, Made(type, k),
           stack' = <<Len(nodes) + 1>> \o stack
    PROVE  /\ Nested'
           /\ stack' \in Seq(Nat) /\ Len(stack') = Len(stack) + 1 /\ stack'[1] = Len(nodes) + 1
           /\ nodes'[Len(nodes) + 1].type = type
<1>1. PICK N \in Nat : N = Len(nodes) /\ N # 0
  BY DEF TreeInv, TextTyped
<1>2. PICK L \in Nat : L = Len(stack) /\ L # 0
  BY DEF TreeInv, TextTyped
<1>3. /\ stack' \in Seq(Nat) /\ Len(stack') = L + 1 /\ stack'[1] = N + 1
      /\ \A m \in 1 .. L : stack'[m + 1] = stack[m]
  <2>1. stack \in Seq(Nat) /\ N + 1 \in Nat
    BY DEF TreeInv, TextTyped
  <2> QED
    BY <1>1, <1>2, <2>1, Pushed
<1>4. /\ nodes'[1].type = "root" /\ Len(nodes') = N + 1
      /\ \A m \in 1 .. L - 1 : /\ nodes'[stack[m]].type \in {"object", "array"}
                               /\ nodes'[stack[m + 1]].last = stack[m]
      /\ nodes'[stack[1]].last = N + 1
  BY <1>1, <1>2, NestedMade
<1>5. nodes'[N + 1].type = type
  BY <1>1 DEF Made, Node
<1>6. /\ stack[L] = 1
      /\ \A m \in 1 .. L : stack[m] \in 1 .. N
      /\ \A m, n \in 1 .. L : m < n => stack[n] < stack[m]
  BY <1>1, <1>2 DEF TreeInv, Nested
<1>7. \A m \in 1 .. L + 1 : m = 1 \/ (m - 1 \in 1 .. L /\ stack'[m] = stack[m - 1])
  <2> TAKE m \in 1 .. L + 1
  <2>1. m # 1 => m - 1 \in 1 .. L /\ (m - 1) + 1 = m
    BY <1>2
  <2> QED
    BY <1>3, <2>1
<1>8. stack'[L + 1] = 1
  BY <1>2, <1>3, <1>6
<1>9. \A m \in 1 .. L + 1 : stack'[m] \in 1 .. N + 1
  BY <1>1, <1>3, <1>6, <1>7
<1>10. ASSUME NEW m \in 1 .. L
       PROVE  nodes'[stack'[m]].type \in {"object", "array"} /\ nodes'[stack'[m + 1]].last = stack'[m]
  <2>1. CASE m = 1
    BY <1>2, <1>3, <1>4, <1>5, <2>1
  <2>2. CASE m # 1
    <3>1. m - 1 \in 1 .. L - 1 /\ m - 1 \in 1 .. L /\ (m - 1) + 1 = m
      BY <1>2, <2>2
    <3>2. stack'[m] = stack[m - 1] /\ stack'[m + 1] = stack[(m - 1) + 1]
      BY <1>3, <3>1
    <3> QED
      BY <1>4, <3>1, <3>2
  <2> QED
    BY <2>1, <2>2
<1>11. ASSUME NEW m \in 1 .. L + 1, NEW n \in 1 .. L + 1, m < n
       PROVE  stack'[n] < stack'[m]
  <2>1. n - 1 \in 1 .. L /\ stack'[n] = stack[n - 1]
    <3>1. n # 1
      BY <1>11
    <3> QED
      BY <1>7, <3>1
  <2>2. CASE m = 1
    BY <1>3, <1>6, <2>1, <2>2
  <2>3. CASE m # 1
    <3>1. m - 1 \in 1 .. L /\ stack'[m] = stack[m - 1]
      BY <1>7, <2>3
    <3>2. m - 1 < n - 1
      BY <1>2, <1>11
    <3> QED
      BY <1>6, <2>1, <3>1, <3>2
  <2> QED
    BY <2>2, <2>3
<1>12. (L + 1) - 1 = L
  OBVIOUS
<1>13. Nested'
  <2>1. \A m \in 1 .. (L + 1) - 1 : /\ nodes'[stack'[m]].type \in {"object", "array"}
                                    /\ nodes'[stack'[m + 1]].last = stack'[m]
    BY <1>10, <1>12
  <2>2. \A m, n \in 1 .. L + 1 : m < n => stack'[n] < stack'[m]
    BY <1>11
  <2>3. stack'[Len(stack')] = 1 /\ nodes'[1].type = "root"
    BY <1>3, <1>4, <1>8
  <2>4. Len(stack') = L + 1 /\ Len(nodes') = N + 1
    BY <1>3, <1>4
  <2> QED
    BY <1>9, <2>1, <2>2, <2>3, <2>4, Zenon DEF Nested
<1> QED
  BY <1>1, <1>2, <1>3, <1>5, <1>13

\* Steps that make no node.
LEMMA SameLinks ==
    ASSUME TreeInv, nodes' = nodes
    PROVE  LinkInv'
<1>1. PICK par \in [1 .. Len(nodes) -> 0 .. Len(nodes)] : par[1] = 0 /\ Linked(par)
  BY DEF TreeInv, LinkInv
<1>2. Forward'
  <2>1. Forward
    BY <1>1 DEF Linked
  <2> QED
    BY <2>1, Zenon DEF Forward
<1>3. Linked(par)'
  BY <1>1, <1>2, Zenon DEF Linked
<1> QED
  BY <1>1, <1>3, Zenon DEF LinkInv

LEMMA SameNested ==
    ASSUME TreeInv, nodes' = nodes, stack' = stack
    PROVE  Nested'
  BY DEF TreeInv, Nested

\* A token that is read is one of Tokens, and is kept unless it is a comma.
LEMMA Consumed ==
    ASSUME TreeInv, NEW t \in Tokens, Consume(t)
    PROVE  /\ text' \in Seq(Tokens)
           /\ t # "comma" => text' = Append(text, t)
           /\ t = "comma" => text' = text
<1>1. text \in Seq(Tokens) /\ text' = IF t = "comma" THEN text ELSE Append(text, t)
  BY DEF TreeInv, TextTyped, Consume
<1>2. Append(text, t) \in Seq(Tokens)
  BY <1>1, AppendProperties
<1> QED
  BY <1>1, <1>2

\* At first there is the root alone.
LEMMA InitTree == TextInit => TreeInv
<1> SUFFICES ASSUME TextInit PROVE TreeInv
  OBVIOUS
<1> DEFINE root == Node("root", NoKey)
<1>1. root \in NodeSet
  BY DEF Node, NodeSet, NodeTypes, NoNode
<1>2. /\ root.type = "root" /\ root.child = 0 /\ root.last = 0 /\ root.next = 0
  BY DEF Node, NoNode
<1> HIDE DEF root
<1>3. /\ pc = "value" /\ text = <<>> /\ nodes = <<root>> /\ stack = <<1>> /\ key = NoKey
  BY DEF TextInit, root
<1>4. /\ nodes \in Seq(NodeSet) /\ Len(nodes) = 1 /\ nodes[1] = root
      /\ stack \in Seq(Nat) /\ Len(stack) = 1 /\ stack[1] = 1
  BY <1>1, <1>3
<1>5. TextTyped
  BY <1>3, <1>4 DEF TextTyped, Parsing
<1>6. Nested
  BY <1>2, <1>4 DEF Nested
<1>7. Phase
  BY <1>3, <1>4 DEF Phase
<1>8. LinkInv
  <2> DEFINE par == [m \in 1 .. 1 |-> 0]
  <2>1. par \in [1 .. Len(nodes) -> 0 .. Len(nodes)] /\ par[1] = 0
    BY <1>4
  <2>2. Linked(par)
    BY <1>2, <1>4 DEF Linked, Forward
  <2> QED
    BY <2>1, <2>2 DEF LinkInv
<1> QED
  BY <1>5, <1>6, <1>7, <1>8 DEF TreeInv

\* nx_json_parse gives up: nothing but pc and live changes.
LEMMA FailStep ==
    ASSUME TreeInv, Fail
    PROVE  /\ TreeInv' /\ pc' = "failed" /\ text' = text /\ nodes' = nodes /\ gap' = gap
           /\ UNCHANGED loop
           /\ live' = IF nodes[1].child = 0 THEN live
                      ELSE live \ nx_json_free(nodes[1].child)
<1>1. /\ pc' = "failed" /\ UNCHANGED <<text, nodes, stack, key, gap, loop>>
      /\ live' = IF nodes[1].child = 0 THEN live
                 ELSE live \ nx_json_free(nodes[1].child)
  BY DEF Fail, NoNode
<1>2. TextTyped'
  BY <1>1 DEF TreeInv, TextTyped
<1>3. Phase'
  BY <1>1 DEF TreeInv, Phase, AtValue
<1> QED
  BY <1>1, <1>2, <1>3, SameLinks, SameNested DEF TreeInv

\* The invariant's part on control, where After says what comes next.
LEMMA AfterPhase ==
    ASSUME TreeInv, NEW st, st \in Seq(Nat), Len(st) # 0, stack' = st,
           st[1] \in 1 .. Len(nodes), nodes'[st[1]].type = nodes[st[1]].type,
           pc' = After(st), key' = NoKey
    PROVE  Phase' /\ pc' \in {"parsed", "key", "value"}
<1>1. st # <<>> /\ Len(st) \in Nat
  OBVIOUS
<1>2. /\ pc' \in {"parsed", "key", "value"}
      /\ pc' = "parsed" <=> Len(st) = 1
      /\ pc' = "key" => nodes[st[1]].type = "object"
  BY <1>1, AfterCases
<1>3. pc' = "key" => Len(st) > 1
  <2>1. \A x \in Nat \ {0} : x = 1 \/ x > 1
    OBVIOUS
  <2>2. pc' = "key" => Len(st) # 1
    BY <1>2
  <2> QED
    BY <1>1, <2>1, <2>2
<1> QED
  BY <1>2, <1>3 DEF Phase, AtValue

\* One step per action.
LEMMA NextTree == TreeInv /\ [TextNext]_textvars => TreeInv'
<1> SUFFICES ASSUME TreeInv, TextNext \/ UNCHANGED textvars PROVE TreeInv'
  OBVIOUS
<1>0. /\ Len(stack) \in Nat \ {0} /\ stack # <<>> /\ stack \in Seq(Nat)
      /\ Head(stack) = stack[1] /\ stack[1] \in 1 .. Len(nodes)
      /\ stack[1] = 1 <=> Len(stack) = 1
  BY RootAlone DEF TreeInv, TextTyped
<1>1. CASE Open
  <2>1. PICK t \in {"lbrace", "lbracket"} :
           /\ Create(IF t = "lbrace" THEN "object" ELSE "array", t, IF t = "lbrace" THEN "key" ELSE "value")
           /\ stack' = <<Len(nodes) + 1>> \o stack
    BY <1>1 DEF Open
  <2>2. PICK type \in {"object", "array"} : type = IF t = "lbrace" THEN "object" ELSE "array"
    OBVIOUS
  <2>3. PICK nxt \in {"key", "value"} : nxt = IF t = "lbrace" THEN "key" ELSE "value"
    OBVIOUS
  <2>4. AtValue /\ Create(type, t, nxt) /\ type \in NodeTypes /\ t \in Tokens \ {"comma"}
    <3>1. AtValue /\ type \in NodeTypes /\ t \in Tokens \ {"comma"}
      BY <1>1, TokenFacts DEF Open
    <3> QED
      BY <2>1, <2>2, <2>3, <3>1
  <2>5. Made(type, key) /\ LinkInv' /\ text' \in Seq(Tokens) /\ key' = NoKey /\ pc' = nxt
    BY <2>4, CreateMade
  <2>6. /\ Nested' /\ stack' \in Seq(Nat) /\ Len(stack') = Len(stack) + 1
        /\ stack'[1] = Len(nodes) + 1 /\ nodes'[Len(nodes) + 1].type = type
    BY <2>1, <2>5, NestedPushed
  <2>7. nodes' \in Seq(NodeSet) /\ Len(nodes') # 0
    <3>1. Len(nodes) \in Nat /\ nodes' \in Seq(NodeSet) /\ Len(nodes') = Len(nodes) + 1
      BY <2>5 DEF TreeInv, TextTyped, Made
    <3> QED
      BY <3>1
  <2>8. Len(stack') > 1 /\ Len(stack') # 0 /\ Len(stack') # 1
    BY <1>0, <2>6
  <2>9. TextTyped'
    BY <2>3, <2>5, <2>6, <2>7, <2>8 DEF TextTyped, Parsing
  <2>10. Phase'
    BY <2>2, <2>3, <2>5, <2>6, <2>8 DEF Phase, AtValue
  <2> QED
    BY <2>5, <2>6, <2>9, <2>10 DEF TreeInv
<1>2. CASE Literal \/ StringValue
  <2>1. PICK t \in Literals \cup Strings, nxt \in {After(stack), "string"} :
           Create(t, t, nxt) /\ AtValue /\ stack' = stack
    BY <1>2 DEF Literal, StringValue
  <2>2. t \in NodeTypes /\ t \in Tokens \ {"comma"}
    BY TokenFacts
  <2>3. Made(t, key) /\ LinkInv' /\ text' \in Seq(Tokens) /\ key' = NoKey /\ pc' = nxt
    BY <2>1, <2>2, CreateMade
  <2>4. /\ \A m \in 1 .. Len(nodes) : nodes'[m].type = nodes[m].type
        /\ nodes'[1].type = "root"
        /\ \A m \in 1 .. Len(stack) : stack[m] \in 1 .. Len(nodes')
        /\ \A m \in 1 .. Len(stack) - 1 : /\ nodes'[stack[m]].type \in {"object", "array"}
                                          /\ nodes'[stack[m + 1]].last = stack[m]
        /\ Len(nodes') = Len(nodes) + 1 /\ nodes' \in Seq(NodeSet)
    BY <2>3, NestedMade
  <2>5. Nested'
    BY <2>1, <2>4 DEF TreeInv, Nested
  <2>6. Phase' /\ pc' \in {"parsed", "key", "value", "string"}
    <3>1. CASE nxt = After(stack)
      BY <1>0, <2>1, <2>3, <2>4, <3>1, AfterPhase
    <3>2. CASE nxt = "string"
      BY <2>3, <3>2 DEF Phase, AtValue
    <3> QED
      BY <3>1, <3>2
  <2>7. Len(nodes') # 0
    <3>1. Len(nodes) \in Nat
      BY DEF TreeInv, TextTyped
    <3> QED
      BY <2>4, <3>1
  <2>8. TextTyped'
    BY <1>0, <2>1, <2>3, <2>4, <2>6, <2>7 DEF TextTyped, Parsing
  <2> QED
    BY <2>3, <2>5, <2>6, <2>8 DEF TreeInv
<1>3. CASE CloseArray \/ CloseObject
  <2>1. CASE CloseArray /\ Fail
    BY <2>1, FailStep
  <2>2. CASE CloseArray /\ ~Fail /\ Len(stack) = 1
    <3>1. /\ Consume("rbracket") /\ stack' = stack /\ pc' = "parsed" /\ key' = NoKey /\ nodes' = nodes
      BY <2>2 DEF CloseArray
    <3>2. text' \in Seq(Tokens)
      BY <3>1, TokenFacts, Consumed
    <3>3. TextTyped'
      BY <3>1, <3>2 DEF TreeInv, TextTyped
    <3>4. Phase'
      BY <2>2, <3>1 DEF Phase, AtValue
    <3> QED
      BY <3>1, <3>3, <3>4, SameLinks, SameNested DEF TreeInv
  <2>3. CASE CloseObject \/ (CloseArray /\ ~Fail /\ Len(stack) # 1)
    <3>1. PICK t \in {"rbracket", "rbrace"} : Consume(t)
      BY <2>3 DEF CloseObject, CloseArray
    <3>2. stack' = Tail(stack) /\ pc' = After(Tail(stack)) /\ key' = NoKey /\ nodes' = nodes
      BY <2>3 DEF CloseObject, CloseArray
    <3>3. Len(stack) > 1
      <4>1. CASE CloseObject
        BY <4>1 DEF CloseObject, TreeInv, Phase
      <4>2. CASE Len(stack) # 1
        <5>1. \A x \in Nat \ {0} : x = 1 \/ x > 1
          OBVIOUS
        <5> QED
          BY <1>0, <4>2, <5>1
      <4> QED
        BY <2>3, <4>1, <4>2
    <3>4. text' \in Seq(Tokens)
      BY <3>1, TokenFacts, Consumed
    <3>5. Nested' /\ stack' \in Seq(Nat) /\ Len(stack') = Len(stack) - 1
      BY <3>2, <3>3, Popped
    <3>6. Len(stack') # 0 /\ Len(stack') \in Nat
      <4>1. \A x \in Nat : x > 1 => x - 1 # 0 /\ x - 1 \in Nat
        OBVIOUS
      <4>2. Len(stack) \in Nat
        BY <1>0
      <4> QED
        BY <3>3, <3>5, <4>1, <4>2
    <3>7. stack'[1] \in 1 .. Len(nodes)
      <4>1. \A x \in Nat : x # 0 => 1 \in 1 .. x
        OBVIOUS
      <4>2. 1 \in 1 .. Len(stack')
        BY <3>6, <4>1
      <4> QED
        BY <3>2, <3>5, <4>2 DEF Nested
    <3>8. Phase' /\ pc' \in {"parsed", "key", "value"}
      BY <3>2, <3>5, <3>6, <3>7, AfterPhase
    <3>9. TextTyped'
      BY <3>2, <3>4, <3>5, <3>6, <3>8 DEF TreeInv, TextTyped, Parsing
    <3> QED
      BY <3>2, <3>5, <3>8, <3>9, SameLinks DEF TreeInv
  <2> QED
    BY <1>3, <2>1, <2>2, <2>3
<1>4. CASE Skip
  <2>1. /\ Consume("comma") /\ nodes' = nodes /\ stack' = stack /\ key' = key
        /\ pc \in {"value", "member", "key", "colon"}
        /\ pc' = IF pc = "member" THEN "value" ELSE pc
    BY <1>4 DEF Skip
  <2>2. text' \in Seq(Tokens)
    <3>1. "comma" \in Tokens
      BY DEF Tokens, Marks
    <3> QED
      BY <2>1, <3>1, Consumed
  <2>3. TextTyped'
    BY <2>1, <2>2 DEF TreeInv, TextTyped, Parsing
  <2>4. Phase'
    BY <2>1 DEF TreeInv, Phase, AtValue
  <2> QED
    BY <2>1, <2>3, <2>4, SameLinks, SameNested DEF TreeInv
<1>5. CASE Key \/ Colon
  <2>1. CASE Key
    <3>1. PICK t \in Strings : Consume(t) /\ key' = t
      BY <2>1 DEF Key
    <3>2. pc = "key" /\ pc' = "keystring" /\ nodes' = nodes /\ stack' = stack
      BY <2>1 DEF Key
    <3>3. text' \in Seq(Tokens)
      BY <3>1, TokenFacts, Consumed
    <3>4. TextTyped'
      BY <3>1, <3>2, <3>3 DEF TreeInv, TextTyped, Parsing
    <3>5. Phase'
      BY <3>1, <3>2, TokenFacts DEF TreeInv, Phase, AtValue
    <3> QED
      BY <3>2, <3>4, <3>5, SameLinks, SameNested DEF TreeInv
  <2>2. CASE Colon
    <3>1. /\ Consume("colon") /\ pc = "colon" /\ pc' = "member" /\ nodes' = nodes /\ stack' = stack
          /\ key' = key
      BY <2>2 DEF Colon
    <3>2. text' \in Seq(Tokens)
      BY <3>1, TokenFacts, Consumed
    <3>3. TextTyped'
      BY <3>1, <3>2 DEF TreeInv, TextTyped, Parsing
    <3>4. Len(stack) # 1 /\ Len(stack) > 1 /\ key # NoKey /\ nodes[stack[1]].type = "object"
      <4>1. Len(stack) > 1 /\ key # NoKey /\ nodes[stack[1]].type = "object"
        BY <3>1 DEF TreeInv, Phase
      <4>2. \A x \in Nat : x > 1 => x # 1
        OBVIOUS
      <4>3. Len(stack) \in Nat
        BY <1>0
      <4> QED
        BY <4>1, <4>2, <4>3
    <3>5. Phase'
      BY <3>1, <3>4 DEF Phase, AtValue
    <3> QED
      BY <3>1, <3>3, <3>5, SameLinks, SameNested DEF TreeInv
  <2> QED
    BY <1>5, <2>1, <2>2
<1>6. CASE Unexpected \/ NoMemory \/ BadString
  BY <1>6, FailStep DEF Unexpected, NoMemory, BadString
<1>7. CASE Unescape
  <2>1. UNCHANGED <<pc, text, nodes, stack, key>>
    BY <1>7 DEF Unescape
  <2> QED
    BY <2>1, SameLinks, SameNested DEF TreeInv, TextTyped, Phase, AtValue
<1>8. CASE Quote
  <2>1. /\ UNCHANGED <<text, nodes, stack, key>>
        /\ pc \in {"string", "keystring"}
        /\ pc' = IF pc = "string" THEN After(stack) ELSE "colon"
    BY <1>8 DEF Quote, InString
  <2>2. Phase' /\ pc' \in {"parsed", "key", "value", "colon"}
    <3>1. CASE pc = "string"
      <4>1. key' = NoKey
        BY <2>1, <3>1 DEF TreeInv, Phase
      <4> QED
        BY <1>0, <2>1, <3>1, <4>1, AfterPhase
    <3>2. CASE pc = "keystring"
      BY <2>1, <3>2 DEF TreeInv, Phase, AtValue
    <3> QED
      BY <2>1, <3>1, <3>2
  <2>3. TextTyped'
    BY <2>1, <2>2 DEF TreeInv, TextTyped, Parsing
  <2> QED
    BY <2>1, <2>2, <2>3, SameLinks, SameNested DEF TreeInv
<1>9. CASE NotArray \/ IsArray \/ NextEntry \/ TakeEntry \/ TakeSet \/ SaveRule \/ Install
  <2>1. UNCHANGED <<text, nodes, stack, key>>
    BY <1>9 DEF NotArray, IsArray, NextEntry, TakeEntry, TakeSet, SaveRule, Install, parser
  <2>2. pc' \in Reading \cup {"einval", "synced"}
    BY <1>9 DEF NotArray, IsArray, NextEntry, TakeEntry, TakeSet, SaveRule, Install, Reading
  <2>3. TextTyped'
    BY <2>1, <2>2 DEF TreeInv, TextTyped
  <2>4. Phase'
    BY <2>1, <2>2 DEF TreeInv, Phase, AtValue, Reading
  <2> QED
    BY <2>1, <2>3, <2>4, SameLinks, SameNested DEF TreeInv
<1>10. CASE UNCHANGED textvars
  <2>1. UNCHANGED <<pc, text, nodes, stack, key>>
    BY <1>10 DEF textvars, parser
  <2> QED
    BY <2>1, SameLinks, SameNested DEF TreeInv, TextTyped, Phase, AtValue
<1> QED
  BY <1>1, <1>2, <1>3, <1>4, <1>5, <1>6, <1>7, <1>8, <1>9, <1>10 DEF TextNext, Finished

-----------------------------------------------------------------------------
(* Nothing is leaked, and strings are decoded in place *)

\* A root without a child is alone.
LEMMA AloneOrRead ==
    ASSUME TreeInv, nodes[1].child = 0
    PROVE  2 .. Len(nodes) = {}
<1>1. PICK N \in Nat : N = Len(nodes) /\ N # 0
  BY DEF TreeInv, TextTyped
<1>2. PICK par \in [1 .. N -> 0 .. N] : par[1] = 0 /\ Linked(par)
  BY <1>1 DEF TreeInv, LinkInv
<1>3. SUFFICES ASSUME 2 \in 1 .. N PROVE FALSE
  BY <1>1
<1>4. par[2] \in 1 .. 2 - 1 /\ (nodes[par[2]].child = 2 \/ \E l \in 2 .. N : nodes[l].next = 2)
  BY <1>1, <1>2, <1>3 DEF Linked
<1>5. par[2] = 1
  BY <1>4
<1>6. PICK l \in 2 .. N : nodes[l].next = 2
  BY <1>4, <1>5
<1>7. l \in 1 .. N /\ (nodes[l].next = 0 \/ l < nodes[l].next)
  BY <1>1, <1>2 DEF Linked, Forward
<1> QED
  BY <1>6, <1>7

\* A parser that fails frees all there is.
LEMMA FailLive ==
    ASSUME TreeInv, live \subseteq 2 .. Len(nodes)
    PROVE  /\ nodes[1].child = 0 => live = {}
           /\ live \ nx_json_free(nodes[1].child) = {}
<1>1. Len(nodes) \in Nat \ {0}
  BY DEF TreeInv, TextTyped
<1>2. CASE nodes[1].child = 0
  BY <1>2, AloneOrRead
<1>3. CASE nodes[1].child # 0
  BY <1>1, <1>3, AllFreed DEF TreeInv
<1> QED
  BY <1>2, <1>3

\* One step per way to change what is allocated.
LEMMA NextLive == TreeInv /\ LiveInv /\ [TextNext]_textvars => LiveInv'
<1> SUFFICES ASSUME TreeInv, LiveInv, TextNext \/ UNCHANGED textvars PROVE LiveInv'
  OBVIOUS
<1>1. Len(nodes) \in Nat \ {0} /\ live \subseteq 2 .. Len(nodes)
  BY DEF TreeInv, TextTyped, LiveInv
<1>2. ASSUME NEW type \in NodeTypes, NEW t \in Tokens \ {"comma"}, NEW nxt, Create(type, t, nxt),
             AtValue, nxt # "failed", nxt # "synced"
      PROVE  LiveInv'
  <2>1. Made(type, key) /\ pc' = nxt /\ live' = live \cup {Len(nodes) + 1}
    BY <1>2, CreateMade
  <2>2. Len(nodes') = Len(nodes) + 1
    BY <2>1 DEF Made
  <2>3. live = 2 .. Len(nodes)
    BY <1>2 DEF LiveInv, AtValue
  <2>4. \A n \in Nat \ {0} : (2 .. n) \cup {n + 1} = 2 .. n + 1
    OBVIOUS
  <2>5. live' = 2 .. Len(nodes')
    BY <1>1, <2>1, <2>2, <2>3, <2>4
  <2> QED
    BY <1>2, <2>1, <2>5 DEF LiveInv
<1>3. CASE Open
  <2>1. PICK t \in {"lbrace", "lbracket"} :
           Create(IF t = "lbrace" THEN "object" ELSE "array", t,
                  IF t = "lbrace" THEN "key" ELSE "value")
    BY <1>3 DEF Open
  <2>2. PICK type \in {"object", "array"} : type = IF t = "lbrace" THEN "object" ELSE "array"
    OBVIOUS
  <2>3. PICK nxt \in {"key", "value"} : nxt = IF t = "lbrace" THEN "key" ELSE "value"
    OBVIOUS
  <2>4. AtValue /\ type \in NodeTypes /\ t \in Tokens \ {"comma"}
    BY <1>3, TokenFacts DEF Open
  <2>5. Create(type, t, nxt)
    BY <2>1, <2>2, <2>3
  <2> QED
    BY <1>2, <2>4, <2>5
<1>4. CASE Literal \/ StringValue
  <2>1. PICK t \in Literals \cup Strings, nxt \in {After(stack), "string"} :
           Create(t, t, nxt) /\ AtValue
    BY <1>4 DEF Literal, StringValue
  <2>2. t \in NodeTypes /\ t \in Tokens \ {"comma"}
    BY TokenFacts
  <2>3. nxt # "failed" /\ nxt # "synced"
    BY RootAlone, AfterCases DEF TreeInv, TextTyped
  <2> QED
    BY <1>2, <2>1, <2>2, <2>3
<1>5. CASE Fail
  BY <1>1, <1>5, FailStep, FailLive DEF LiveInv
<1>6. CASE Install
  <2>1. pc' = "synced" /\ live' = live \ nx_json_free(nodes[1].child)
    BY <1>6 DEF Install, json
  <2> QED
    BY <1>1, <2>1, FailLive DEF LiveInv
<1>7. CASE pc' = pc /\ live' = live /\ nodes' = nodes
  BY <1>7 DEF LiveInv
<1>8. CASE /\ live' = live /\ nodes' = nodes
           /\ pc \notin {"failed", "synced"} /\ pc' \notin {"failed", "synced"}
  BY <1>8 DEF LiveInv
<1>9. CASE CloseArray \/ CloseObject \/ Quote
  <2>1. stack \in Seq(Nat) /\ stack # <<>> /\ Len(stack) \in Nat \ {0}
    BY RootAlone DEF TreeInv, TextTyped
  <2>2. CASE CloseArray /\ ~Fail /\ Len(stack) = 1
    BY <1>8, <2>2 DEF CloseArray, AtValue
  <2>3. CASE CloseObject \/ (CloseArray /\ ~Fail /\ Len(stack) # 1)
    <3>1. /\ live' = live /\ nodes' = nodes /\ pc' = After(Tail(stack))
          /\ pc \in {"value", "member", "key"} /\ stack' = Tail(stack)
      BY <2>3 DEF CloseArray, CloseObject, AtValue
    <3>2. Tail(stack) \in Seq(Nat) /\ Tail(stack) # <<>>
      <4>1. TreeInv' /\ stack' = Tail(stack)
        BY <3>1, NextTree
      <4> QED
        BY <4>1 DEF TreeInv, TextTyped
    <3>3. pc' \in {"parsed", "key", "value"}
      BY <3>1, <3>2, AfterCases
    <3> QED
      BY <1>8, <3>1, <3>3
  <2>4. CASE Quote
    <3>1. After(stack) \in {"parsed", "key", "value"}
      BY <2>1, AfterCases
    <3> QED
      BY <1>8, <2>4, <3>1 DEF Quote, InString
  <2> QED
    BY <1>5, <1>9, <2>2, <2>3, <2>4
<1>10. CASE Skip \/ Key \/ Colon
  BY <1>8, <1>10 DEF Skip, Key, Colon
<1>11. CASE NotArray \/ IsArray \/ NextEntry \/ TakeEntry \/ TakeSet \/ SaveRule
  <2>1. live' = live /\ nodes' = nodes
    BY <1>11 DEF NotArray, IsArray, NextEntry, TakeEntry, TakeSet, SaveRule, parser
  <2>2. /\ pc \in {"parsed", "entries", "entry", "sets", "flags"}
        /\ pc' \in {"einval", "entries", "entry", "sets", "flags", "install"}
    BY <1>11 DEF NotArray, IsArray, NextEntry, TakeEntry, TakeSet, SaveRule
  <2> QED
    BY <1>8, <2>1, <2>2
<1>12. CASE Unescape \/ UNCHANGED textvars
  BY <1>7, <1>12 DEF Unescape, textvars, parser
<1>13. CASE Unexpected \/ NoMemory \/ BadString
  BY <1>5, <1>13 DEF Unexpected, NoMemory, BadString
<1> QED
  BY <1>3, <1>4, <1>6, <1>9, <1>10, <1>11, <1>12, <1>13 DEF TextNext, Finished

\* However the text ends, and whichever allocation fails, no node is left
\* when nx_json_parse has failed or ntrack_conf_sync has read the rules:
\* nx_json_free gets to every node that create_json linked.
THEOREM TextNoLeak == TextSpec => []NoLeak
<1>1. TextInit => TreeInv /\ LiveInv
  <2> SUFFICES ASSUME TextInit PROVE LiveInv
    BY InitTree
  <2>1. pc = "value" /\ live = {} /\ Len(nodes) = 1
    BY DEF TextInit
  <2> QED
    BY <2>1 DEF LiveInv
<1>2. TreeInv /\ LiveInv /\ [TextNext]_textvars => (TreeInv /\ LiveInv)'
  BY NextTree, NextLive
<1>3. LiveInv => NoLeak
  BY DEF LiveInv, NoLeak
<1> QED
  BY <1>1, <1>2, <1>3, PTL DEF TextSpec

\* unescape_string reads at least as many characters of a string as it
\* writes, whichever characters and escapes the string is made of.
THEOREM TextWritesBehind == TextSpec => []WritesBehind
<1> DEFINE Ahead == gap \in Nat
<1>1. TextInit => Ahead
  BY DEF TextInit
<1>2. Ahead /\ [TextNext]_textvars => Ahead'
  <2> SUFFICES ASSUME gap \in Nat, TextNext \/ UNCHANGED textvars PROVE gap' \in Nat
    OBVIOUS
  <2>1. CASE gap' = gap
    BY <2>1
  <2>2. CASE Unescape
    <3>1. PICK u \in Unit : gap' = gap + u[1] - u[2]
      BY <2>2 DEF Unescape
    <3>2. u[1] \in Nat /\ u[2] \in Nat /\ u[2] <= u[1]
      BY DEF Unit
    <3> QED
      BY <3>1, <3>2
  <2>3. CASE Quote
    BY <2>3 DEF Quote
  <2>4. CASE Unexpected \/ NoMemory \/ BadString
    BY <2>1, <2>4 DEF Unexpected, NoMemory, BadString, Fail
  <2>5. CASE Open \/ Literal \/ StringValue \/ CloseArray \/ Skip \/ CloseObject \/ Key \/ Colon
    BY <2>1, <2>5 DEF Open, Literal, StringValue, Create, CloseArray, Fail, Skip, CloseObject,
                      Key, Colon
  <2>6. CASE \/ NotArray \/ IsArray \/ NextEntry \/ TakeEntry \/ TakeSet \/ SaveRule
             \/ Install \/ UNCHANGED textvars
    BY <2>1, <2>6 DEF NotArray, IsArray, NextEntry, TakeEntry, TakeSet, SaveRule, Install,
                      textvars, parser
  <2> QED
    BY <2>2, <2>3, <2>4, <2>5, <2>6 DEF TextNext, Finished
<1>3. Ahead => WritesBehind
  BY DEF WritesBehind
<1> QED
  BY <1>1, <1>2, <1>3, PTL DEF TextSpec

-----------------------------------------------------------------------------
(* The rules are what the text says *)

\* The k-th node, from 0 on, of n and those behind it.
At(n, k) == IF k < Len(Chain[n]) THEN Chain[n][k + 1] ELSE 0

\* Each is the one that next of the node before it points to.
LEMMA ChainWalk ==
    ASSUME Forward, Len(nodes) \in Nat
    PROVE  \A n \in 0 .. Len(nodes) :
              /\ At(n, 0) = n
              /\ \A k \in Nat : /\ At(n, k) \in 0 .. Len(nodes)
                                /\ At(n, k) # 0 <=> k < Len(Chain[n])
                                /\ At(n, k) # 0 => At(n, k + 1) = nodes[At(n, k)].next
<1>1. PICK N \in Nat : N = Len(nodes)
  OBVIOUS
<1>2. /\ Chain \in [0 .. N -> Seq(1 .. N)]
      /\ Chain[0] = <<>>
      /\ \A n \in 1 .. N : Chain[n] = <<n>> \o Chain[nodes[n].next]
  BY <1>1, ChainFound
<1> HIDE DEF Chain
<1>3. ASSUME NEW n \in 0 .. N, NEW k \in Nat
      PROVE  At(n, k) \in 0 .. N /\ (At(n, k) # 0 <=> k < Len(Chain[n]))
  <2>1. Chain[n] \in Seq(1 .. N)
    BY <1>2
  <2>2. Len(Chain[n]) \in Nat /\ \A l \in 1 .. Len(Chain[n]) : Chain[n][l] \in 1 .. N
    BY <2>1
  <2>3. CASE k < Len(Chain[n])
    <3>1. k + 1 \in 1 .. Len(Chain[n])
      BY <2>2, <2>3
    <3>2. At(n, k) \in 1 .. N
      BY <2>2, <2>3, <3>1 DEF At
    <3> QED
      BY <2>3, <3>2
  <2>4. CASE ~(k < Len(Chain[n]))
    BY <1>1, <2>4 DEF At
  <2> QED
    BY <2>3, <2>4
<1>4. \A k \in Nat : At(0, k) = 0
  BY <1>2 DEF At
<1>5. ASSUME NEW n \in 1 .. N
      PROVE  /\ nodes[n].next \in 0 .. N /\ (nodes[n].next = 0 \/ n < nodes[n].next)
             /\ At(n, 0) = n
             /\ \A k \in Nat : At(n, k + 1) = At(nodes[n].next, k)
  <2>1. PICK m \in 0 .. N : m = nodes[n].next /\ (m = 0 \/ n < m)
    BY <1>1 DEF Forward
  <2>2. PICK c \in Seq(1 .. N) : c = Chain[m]
    BY <1>2
  <2>3. PICK d \in Seq(1 .. N) : d = Chain[n]
    BY <1>2
  <2>4. /\ Len(c) \in Nat /\ Len(d) = Len(c) + 1 /\ d[1] = n
        /\ \A k \in 1 .. Len(c) : d[k + 1] = c[k]
    <3>1. d = <<n>> \o c
      BY <1>2, <2>1, <2>2, <2>3
    <3> QED
      BY <3>1
  <2>5. At(n, 0) = n
    BY <2>3, <2>4 DEF At
  <2>6. ASSUME NEW k \in Nat PROVE At(n, k + 1) = At(m, k)
    <3>1. k + 1 < Len(d) <=> k < Len(c)
      BY <2>4
    <3>2. k < Len(c) => d[(k + 1) + 1] = c[k + 1]
      <4>1. k < Len(c) => k + 1 \in 1 .. Len(c)
        BY <2>4
      <4> QED
        BY <2>4, <4>1
    <3> QED
      BY <2>2, <2>3, <3>1, <3>2 DEF At
  <2> QED
    BY <2>1, <2>5, <2>6
<1>6. \A n \in 0 .. N : At(n, 0) = n
  BY <1>4, <1>5
<1> HIDE DEF At
<1> DEFINE P == {n \in 0 .. N : \A k \in Nat : At(n, k) # 0 => At(n, k + 1) = nodes[At(n, k)].next}
<1>7. 0 \in P
  BY <1>4
<1>8. ASSUME NEW n \in 1 .. N, \A m \in n + 1 .. N : m \in P PROVE n \in P
  <2>1. PICK m \in 0 .. N : m = nodes[n].next /\ (m = 0 \/ n < m)
    BY <1>5
  <2>2. m \in P
    <3>1. m = 0 \/ m \in n + 1 .. N
      BY <2>1
    <3> QED
      BY <1>7, <1>8, <3>1
  <2>3. At(n, 0) = n /\ (\A k \in Nat : At(n, k + 1) = At(m, k)) /\ At(m, 0) = m
    BY <1>5, <1>6, <2>1
  <2>4. ASSUME NEW k \in Nat, At(n, k) # 0 PROVE At(n, k + 1) = nodes[At(n, k)].next
    <3>1. CASE k = 0
      <4>1. At(n, 0 + 1) = m
        BY <2>3
      <4> QED
        BY <2>1, <2>3, <3>1, <4>1
    <3>2. CASE k # 0
      <4>1. PICK l \in Nat : k = l + 1
        <5>1. k - 1 \in Nat /\ k = (k - 1) + 1
          BY <3>2
        <5> QED
          BY <5>1
      <4>2. At(n, l + 1) = At(m, l) /\ At(n, (l + 1) + 1) = At(m, l + 1)
        <5>1. l + 1 \in Nat
          OBVIOUS
        <5> QED
          BY <2>3, <5>1
      <4>3. At(m, l) # 0 => At(m, l + 1) = nodes[At(m, l)].next
        BY <2>2
      <4> QED
        BY <2>4, <4>1, <4>2, <4>3
    <3> QED
      BY <3>1, <3>2
  <2> QED
    BY <2>4
<1>9. \A n \in 0 .. N : n \in P
  <2> HIDE DEF P
  <2> QED
    BY <1>7, <1>8, Downwards
<1> QED
  BY <1>1, <1>3, <1>6, <1>9

\* nx_json_get finds a node, if it finds any.
LEMMA GetFound ==
    ASSUME Forward, Len(nodes) \in Nat, NEW n \in 1 .. Len(nodes), NEW k
    PROVE  nx_json_get(n, k) \in 0 .. Len(nodes)
<1>1. PICK N \in Nat : N = Len(nodes)
  OBVIOUS
<1>2. PICK c \in Seq(1 .. N) : c = Children(n)
  <2>1. nodes[n].child \in 0 .. N
    BY <1>1 DEF Forward
  <2> QED
    BY <1>1, <2>1, ChainFound DEF Children
<1> DEFINE hits == {l \in DOMAIN c : nodes[c[l]].key = k}
<1>3. hits \in SUBSET Nat /\ \A l \in hits : c[l] \in 1 .. N
  OBVIOUS
<1>4. nx_json_get(n, k) = IF hits = {} THEN 0
                          ELSE c[CHOOSE l \in hits : \A m \in hits : l <= m]
  BY <1>2 DEF nx_json_get, NoNode
<1> HIDE DEF hits
<1>5. CASE hits = {}
  BY <1>1, <1>4, <1>5
<1>6. CASE hits # {}
  <2>1. \E l \in hits : \A m \in hits : l <= m
    BY <1>3, <1>6, LeastNat
  <2> DEFINE first == CHOOSE l \in hits : \A m \in hits : l <= m
  <2>2. first \in hits
    BY <2>1
  <2>3. nx_json_get(n, k) = c[first]
    BY <1>4, <1>6
  <2> HIDE DEF first
  <2>4. c[first] \in 1 .. N
    BY <1>3, <2>2
  <2> QED
    BY <1>1, <2>3, <2>4
<1> QED
  BY <1>5, <1>6

\* W puts together what each node of a list adds, up to a node of stop.
Pieces(W, N, stop, piece) ==
    W = [n \in 0 .. N |-> IF n = 0 \/ n \in stop THEN <<>> ELSE piece[n] \o W[nodes[n].next]]

Built(W, N, T, stop, piece) ==
    /\ W \in [0 .. N -> Seq(T)]
    /\ W[0] = <<>>
    /\ \A n \in 1 .. N : /\ n \in stop => W[n] = <<>>
                         /\ n \notin stop => W[n] = piece[n] \o W[nodes[n].next]

\* A list put together along next is what its equation says.
LEMMA PiecesFound ==
    ASSUME Forward, NEW N \in Nat, N = Len(nodes), NEW T, NEW stop, NEW piece \in [1 .. N -> Seq(T)]
    PROVE  /\ \E W : Pieces(W, N, stop, piece)
           /\ \A W : Pieces(W, N, stop, piece) => Built(W, N, T, stop, piece)
<1> DEFINE S == Seq(T)
           ch == [n \in 1 .. N |-> nodes[n].child]
           nx == [n \in 1 .. N |-> nodes[n].next]
           F == [n \in 1 .. N |-> [p \in S \X S |-> IF n \in stop THEN <<>> ELSE piece[n] \o p[2]]]
           e == <<>>
<1>0. \A n \in 1 .. N : nodes[n].next \in 0 .. N /\ (nodes[n].next = 0 \/ n < nodes[n].next)
  BY DEF Forward
<1>1. Links(N, ch) /\ Links(N, nx)
  BY DEF Forward, Links
<1>2. F \in [1 .. N -> [S \X S -> S]]
  <2>1. \A n \in 1 .. N : \A p \in S \X S : piece[n] \o p[2] \in S
    <3> TAKE n \in 1 .. N
    <3> TAKE p \in S \X S
    <3>1. piece[n] \in Seq(T) /\ p[2] \in Seq(T)
      OBVIOUS
    <3> QED
      BY <3>1, ConcatProperties
  <2>2. <<>> \in S
    OBVIOUS
  <2> HIDE DEF S
  <2> QED
    BY <2>1, <2>2
<1>3. e \in S
  OBVIOUS
<1> HIDE DEF S, ch, nx, F, e
<1>4. PICK W : IsWalk(W, N, S, e, ch, nx, F)
  BY <1>1, <1>2, <1>3, WalkExists, Zenon
<1>5. \A n \in 1 .. N : W[n] = IF n \in stop THEN <<>> ELSE piece[n] \o W[nodes[n].next]
  <2> TAKE n \in 1 .. N
  <2>1. <<W[ch[n]], W[nx[n]]>> \in S \X S
    BY <1>1, <1>4 DEF IsWalk, Links
  <2>2. F[n][<<W[ch[n]], W[nx[n]]>>] = IF n \in stop THEN <<>> ELSE piece[n] \o W[nx[n]]
    BY <2>1 DEF F
  <2>3. nx[n] = nodes[n].next
    BY DEF nx
  <2> QED
    BY <1>4, <2>2, <2>3, Zenon DEF IsWalk
<1>6. Pieces(W, N, stop, piece)
  <2> DEFINE G(n) == piece[n] \o W[nodes[n].next]
  <2>1. \A n \in 1 .. N : W[n] = IF n \in stop THEN <<>> ELSE G(n)
    BY <1>5
  <2> HIDE DEF G
  <2>2. W[0] = <<>> /\ W = [n \in 0 .. N |-> W[n]] /\ \A n \in 0 .. N : n = 0 \/ n \in 1 .. N
    BY <1>4 DEF e, IsWalk
  <2>3. \A n \in 0 .. N : W[n] = IF n = 0 \/ n \in stop THEN <<>> ELSE G(n)
    BY <2>1, <2>2
  <2>4. W = [n \in 0 .. N |-> IF n = 0 \/ n \in stop THEN <<>> ELSE G(n)]
    BY <2>2, <2>3
  <2> QED
    BY <2>4, Zenon DEF G, Pieces
<1>7. ASSUME NEW V, Pieces(V, N, stop, piece)
      PROVE  Built(V, N, T, stop, piece)
  <2> DEFINE G(n) == piece[n] \o V[nodes[n].next]
  <2>1. V = [n \in 0 .. N |-> IF n = 0 \/ n \in stop THEN <<>> ELSE G(n)]
    BY <1>7, Zenon DEF Pieces
  <2> HIDE DEF G
  <2>2. /\ V = [n \in 0 .. N |-> V[n]] /\ V[0] = <<>>
        /\ \A n \in 1 .. N : n \in stop => V[n] = <<>>
        /\ \A n \in 1 .. N : n \notin stop => V[n] = G(n)
    <3>1. \A n \in 1 .. N : n \in 0 .. N /\ n # 0
      OBVIOUS
    <3>2. 0 \in 0 .. N
      OBVIOUS
    <3> QED
      BY <2>1, <3>1, <3>2
  <2> DEFINE P == {n \in 0 .. N : V[n] \in Seq(T)}
  <2>3. 0 \in P
    BY <2>2
  <2>4. ASSUME NEW n \in 1 .. N, \A m \in n + 1 .. N : m \in P PROVE n \in P
    <3>1. PICK m \in 0 .. N : m = nodes[n].next /\ (m = 0 \/ n < m)
      BY <1>0
    <3>2. m = 0 \/ m \in n + 1 .. N
      BY <3>1
    <3>3. V[m] \in Seq(T)
      BY <2>3, <2>4, <3>2
    <3>4. G(n) \in Seq(T)
      <4>1. piece[n] \in Seq(T)
        OBVIOUS
      <4> QED
        BY <3>1, <3>3, <4>1, ConcatProperties DEF G
    <3>5. V[n] \in Seq(T)
      <4>1. V[n] = <<>> \/ V[n] = G(n)
        BY <2>2
      <4>2. <<>> \in Seq(T)
        OBVIOUS
      <4> QED
        BY <3>4, <4>1, <4>2
    <3> QED
      BY <3>5
  <2>5. \A n \in 0 .. N : n \in P
    <3>1. \A n \in 1 .. N : (\A m \in n + 1 .. N : m \in P) => n \in P
      BY <2>4
    <3> HIDE DEF P
    <3> QED
      BY <2>3, <3>1, Downwards, Zenon
  <2>6. V \in [0 .. N -> Seq(T)]
    BY <2>2, <2>5
  <2>7. \A n \in 1 .. N : n \notin stop => V[n] = piece[n] \o V[nodes[n].next]
    BY <2>2, Zenon DEF G
  <2> QED
    BY <2>2, <2>6, <2>7, Zenon DEF Built
<1> QED
  BY <1>6, <1>7, Zenon

\* SetsFrom is what its equation says.
LEMMA SetsFound ==
    ASSUME Forward, NEW N \in Nat, N = Len(nodes)
    PROVE  /\ SetsFrom \in [0 .. N -> Seq(KnownSets)]
           /\ SetsFrom[0] = <<>>
           /\ \A m \in 1 .. N :
                 /\ nodes[m].type = "null" => SetsFrom[m] = <<>>
                 /\ nodes[m].type \in KnownSets =>
                       SetsFrom[m] = <<nodes[m].type>> \o SetsFrom[nodes[m].next]
                 /\ nodes[m].type \notin KnownSets \cup {"null"} =>
                       SetsFrom[m] = SetsFrom[nodes[m].next]
<1> DEFINE stop == {m \in 1 .. N : nodes[m].type = "null"}
           Own(m) == IF nodes[m].type \in KnownSets THEN <<nodes[m].type>> ELSE <<>>
           piece == [m \in 1 .. N |-> Own(m)]
<1>1. piece \in [1 .. N -> Seq(KnownSets)]
  OBVIOUS
<1>2. \A m \in 1 .. N : piece[m] = Own(m) /\ (m \in stop <=> nodes[m].type = "null")
  OBVIOUS
<1> HIDE DEF stop, piece
<1>3. /\ \E W : Pieces(W, N, stop, piece)
      /\ \A W : Pieces(W, N, stop, piece) => Built(W, N, KnownSets, stop, piece)
  BY <1>1, PiecesFound, Zenon
<1> DEFINE Step(W, m) == IF m = NoNode THEN <<>>
                         ELSE IF nodes[m].type = "null" THEN <<>>
                         ELSE Own(m) \o W[nodes[m].next]
<1>4. ASSUME NEW W PROVE Pieces(W, N, stop, piece) <=> W = [m \in 0 .. N |-> Step(W, m)]
  <2> DEFINE H(m) == IF m = 0 \/ m \in stop THEN <<>> ELSE piece[m] \o W[nodes[m].next]
  <2>1. \A m \in 1 .. N : H(m) = Step(W, m)
    <3> TAKE m \in 1 .. N
    <3>1. m # 0
      OBVIOUS
    <3> QED
      BY <1>2, <3>1, Zenon DEF NoNode
  <2>2. H(0) = Step(W, 0)
    BY DEF NoNode
  <2> HIDE DEF Step
  <2>3. Pieces(W, N, stop, piece) <=> W = [m \in 0 .. N |-> H(m)]
    BY Zenon DEF Pieces
  <2> HIDE DEF H
  <2>4. \A m \in 0 .. N : H(m) = Step(W, m)
    <3>1. \A m \in 0 .. N : m = 0 \/ m \in 1 .. N
      OBVIOUS
    <3> QED
      BY <2>1, <2>2, <3>1
  <2>5. [m \in 0 .. N |-> H(m)] = [m \in 0 .. N |-> Step(W, m)]
    BY <2>4
  <2> QED
    BY <2>3, <2>5
<1>5. \E W : W = [m \in 0 .. N |-> Step(W, m)]
  BY <1>3, <1>4, Zenon
<1>6. SetsFrom = [m \in 0 .. N |-> Step(SetsFrom, m)]
  BY <1>5, Zenon DEF SetsFrom
<1> HIDE DEF SetsFrom
<1>7. /\ SetsFrom \in [0 .. N -> Seq(KnownSets)]
      /\ SetsFrom[0] = <<>>
      /\ \A n \in 1 .. N : /\ n \in stop => SetsFrom[n] = <<>>
                           /\ n \notin stop => SetsFrom[n] = piece[n] \o SetsFrom[nodes[n].next]
  BY <1>3, <1>4, <1>6, Zenon DEF Built
<1>8. ASSUME NEW m \in 1 .. N
      PROVE  /\ nodes[m].type = "null" => SetsFrom[m] = <<>>
             /\ nodes[m].type \in KnownSets =>
                   SetsFrom[m] = <<nodes[m].type>> \o SetsFrom[nodes[m].next]
             /\ nodes[m].type \notin KnownSets \cup {"null"} =>
                   SetsFrom[m] = SetsFrom[nodes[m].next]
  <2>1. "null" \notin KnownSets
    BY RuleTextAssumption DEF Strings, Literals
  <2>2. SetsFrom[nodes[m].next] \in Seq(KnownSets)
    BY <1>7 DEF Forward
  <2>3. <<>> \o SetsFrom[nodes[m].next] = SetsFrom[nodes[m].next]
    BY <2>2, ConcatEmptySeq
  <2>4. nodes[m].type \in KnownSets => piece[m] = <<nodes[m].type>> /\ m \notin stop
    BY <1>2, <2>1
  <2>5. nodes[m].type \notin KnownSets => piece[m] = <<>>
    BY <1>2
  <2>6. /\ m \in stop <=> nodes[m].type = "null"
        /\ m \in stop => SetsFrom[m] = <<>>
        /\ m \notin stop => SetsFrom[m] = piece[m] \o SetsFrom[nodes[m].next]
    BY <1>2, <1>7
  <2> QED
    BY <2>3, <2>4, <2>5, <2>6, Zenon
<1> QED
  BY <1>7, <1>8, Zenon

RuleOfEntry(n) == [sets |-> SetsOf(n), flags |-> FlagsOf(n)]
Asked == {RuleOfEntry(n) : n \in 1 .. Len(nodes)}

\* So is RulesFrom.
LEMMA RulesFound ==
    ASSUME Forward, NEW N \in Nat, N = Len(nodes)
    PROVE  /\ RulesFrom \in [0 .. N -> Seq(Asked)]
           /\ RulesFrom[0] = <<>>
           /\ \A n \in 1 .. N :
                 /\ nodes[n].type = "null" => RulesFrom[n] = <<>>
                 /\ nodes[n].type # "null" /\ SetsOf(n) # <<>> =>
                       RulesFrom[n] = <<RuleOfEntry(n)>> \o RulesFrom[nodes[n].next]
                 /\ nodes[n].type # "null" /\ SetsOf(n) = <<>> =>
                       RulesFrom[n] = RulesFrom[nodes[n].next]
<1> DEFINE stop == {m \in 1 .. N : nodes[m].type = "null"}
           Own(m) == IF SetsOf(m) = <<>> THEN <<>> ELSE <<RuleOfEntry(m)>>
           piece == [m \in 1 .. N |-> Own(m)]
<1>1. piece \in [1 .. N -> Seq(Asked)]
  <2>1. \A m \in 1 .. N : RuleOfEntry(m) \in Asked
    BY Zenon DEF Asked
  <2> HIDE DEF Asked
  <2> QED
    BY <2>1
<1>2. \A m \in 1 .. N : piece[m] = Own(m) /\ (m \in stop <=> nodes[m].type = "null")
  OBVIOUS
<1> HIDE DEF stop, piece
<1>3. /\ \E W : Pieces(W, N, stop, piece)
      /\ \A W : Pieces(W, N, stop, piece) => Built(W, N, Asked, stop, piece)
  BY <1>1, PiecesFound, Zenon
<1> DEFINE Step(W, m) == IF m = NoNode THEN <<>>
                         ELSE IF nodes[m].type = "null" THEN <<>>
                         ELSE Own(m) \o W[nodes[m].next]
<1>4. ASSUME NEW W PROVE Pieces(W, N, stop, piece) <=> W = [m \in 0 .. N |-> Step(W, m)]
  <2> DEFINE H(m) == IF m = 0 \/ m \in stop THEN <<>> ELSE piece[m] \o W[nodes[m].next]
  <2>1. \A m \in 1 .. N : H(m) = Step(W, m)
    <3> TAKE m \in 1 .. N
    <3>1. m # 0
      OBVIOUS
    <3> QED
      BY <1>2, <3>1, Zenon DEF NoNode
  <2>2. H(0) = Step(W, 0)
    BY DEF NoNode
  <2> HIDE DEF Step
  <2>3. Pieces(W, N, stop, piece) <=> W = [m \in 0 .. N |-> H(m)]
    BY Zenon DEF Pieces
  <2> HIDE DEF H
  <2>4. \A m \in 0 .. N : H(m) = Step(W, m)
    <3>1. \A m \in 0 .. N : m = 0 \/ m \in 1 .. N
      OBVIOUS
    <3> QED
      BY <2>1, <2>2, <3>1
  <2>5. [m \in 0 .. N |-> H(m)] = [m \in 0 .. N |-> Step(W, m)]
    BY <2>4
  <2> QED
    BY <2>3, <2>5
<1>5. \E W : W = [m \in 0 .. N |-> Step(W, m)]
  BY <1>3, <1>4, Zenon
<1>6. RulesFrom = [m \in 0 .. N |-> Step(RulesFrom, m)]
  BY <1>5, Zenon DEF RulesFrom, RuleOfEntry
<1> HIDE DEF RulesFrom
<1>7. /\ RulesFrom \in [0 .. N -> Seq(Asked)]
      /\ RulesFrom[0] = <<>>
      /\ \A n \in 1 .. N : /\ n \in stop => RulesFrom[n] = <<>>
                           /\ n \notin stop => RulesFrom[n] = piece[n] \o RulesFrom[nodes[n].next]
  BY <1>3, <1>4, <1>6, Zenon DEF Built
<1>8. ASSUME NEW n \in 1 .. N
      PROVE  /\ nodes[n].type = "null" => RulesFrom[n] = <<>>
             /\ nodes[n].type # "null" /\ SetsOf(n) # <<>> =>
                   RulesFrom[n] = <<RuleOfEntry(n)>> \o RulesFrom[nodes[n].next]
             /\ nodes[n].type # "null" /\ SetsOf(n) = <<>> =>
                   RulesFrom[n] = RulesFrom[nodes[n].next]
  <2>1. RulesFrom[nodes[n].next] \in Seq(Asked)
    <3> HIDE DEF Asked
    <3> QED
      BY <1>7 DEF Forward
  <2>2. <<>> \o RulesFrom[nodes[n].next] = RulesFrom[nodes[n].next]
    BY <2>1, ConcatEmptySeq
  <2>3. /\ SetsOf(n) # <<>> => piece[n] = <<RuleOfEntry(n)>>
        /\ SetsOf(n) = <<>> => piece[n] = <<>>
    BY <1>2, Zenon
  <2>4. /\ n \in stop <=> nodes[n].type = "null"
        /\ n \in stop => RulesFrom[n] = <<>>
        /\ n \notin stop => RulesFrom[n] = piece[n] \o RulesFrom[nodes[n].next]
    BY <1>2, <1>7, Zenon
  <2> QED
    BY <2>2, <2>3, <2>4, Zenon
<1> QED
  BY <1>7, <1>8, Zenon

\* A list that is cut off keeps what it begins with.
LEMMA UpToAll ==
    ASSUME NEW T, NEW s \in Seq(T), NEW n \in Nat, Len(s) <= n
    PROVE  UpTo(s, n) = s
<1>1. (IF Len(s) < n THEN Len(s) ELSE n) = Len(s)
  <2>1. Len(s) \in Nat
    OBVIOUS
  <2> QED
    BY <2>1
<1>2. SubSeq(s, 1, Len(s)) = s
  OBVIOUS
<1> QED
  BY <1>1, <1>2, Zenon DEF UpTo

\* What is cut off behind s leaves s.
LEMMA UpToCut ==
    ASSUME NEW T, NEW s \in Seq(T), NEW b \in Seq(T)
    PROVE  UpTo(s \o b, Len(s)) = s
<1> DEFINE c == s \o b
<1>1. /\ c \in Seq(T) /\ Len(c) = Len(s) + Len(b) /\ Len(s) \in Nat /\ Len(b) \in Nat
      /\ \A k \in 1 .. Len(s) : c[k] = s[k]
  OBVIOUS
<1> HIDE DEF c
<1>2. (IF Len(c) < Len(s) THEN Len(c) ELSE Len(s)) = Len(s) /\ Len(s) <= Len(c)
  BY <1>1
<1>3. SubSeq(c, 1, Len(s)) = s
  <2> DEFINE d == SubSeq(c, 1, Len(s))
  <2>1. d \in Seq(T) /\ Len(d) = Len(s) /\ \A k \in 1 .. Len(s) : d[k] = c[k]
    BY <1>1, <1>2
  <2> HIDE DEF d
  <2>2. \A k \in 1 .. Len(s) : d[k] = s[k]
    BY <1>1, <2>1
  <2>3. d = s
    BY <2>1, <2>2, SeqEqual
  <2> QED
    BY <2>3 DEF d
<1> QED
  BY <1>2, <1>3, Zenon DEF UpTo, c

\* An element moves from the head of b to the end of s.
LEMMA AppendBefore ==
    ASSUME NEW T, NEW s \in Seq(T), NEW x \in T, NEW b \in Seq(T)
    PROVE  /\ Append(s, x) \in Seq(T) /\ Len(Append(s, x)) = Len(s) + 1
           /\ Append(s, x) \o b = s \o (<<x>> \o b)
  OBVIOUS

First == nodes[json].child

\* The entry that ntrack_conf_sync is at, or comes to next.
Cur == At(First, IF pc = "entries" THEN i ELSE i - 1)

\* The ipsets of the entry so far.
Gathered ==
    \E s \in Seq(KnownSets) :
       /\ rule = [sets |-> s, flags |-> 0] /\ Len(s) <= MAX_USR_SET
       /\ s \o SetsFrom[At(nodes[Sets].child, j)] = SetsFrom[nodes[Sets].child]

\* What was taken, followed by what the rest of the tree asks for, is what
\* the whole tree asks for.
ReadInv ==
    /\ pc \in Parsing \cup {"parsed"} => i = 0 /\ rules = <<>>
    /\ pc \in Reading \cup {"synced"} => json # 0
    /\ pc \in {"entries", "entry", "sets", "flags"} =>
          /\ i \in Nat
          /\ rules \in Seq(Asked) /\ Len(rules) <= MAX_URL_RULES
          /\ rules \o RulesFrom[Cur] = RulesFrom[First]
    /\ pc \in {"entry", "sets", "flags"} => i # 0 /\ Cur # 0 /\ nodes[Cur].type # "null"
    /\ pc = "entry" => rule = EmptyRule
    /\ pc = "sets" => IsRule /\ j \in Nat /\ Gathered
    /\ pc = "flags" => IsRule /\ rule = [sets |-> SetsOf(Cur), flags |-> 0]
    /\ pc \in {"install", "synced"} => rules = UpTo(RulesFrom[First], MAX_URL_RULES + 1)

\* While it reads the tree does not change.
LEMMA SameTree ==
    ASSUME nodes' = nodes
    PROVE  /\ Chain' = Chain /\ SetsFrom' = SetsFrom /\ RulesFrom' = RulesFrom
           /\ json' = json /\ First' = First /\ Asked' = Asked
           /\ pc' = "entries" => Cur' = At(First, i')
           /\ pc' # "entries" => Cur' = At(First, i' - 1)
           /\ i' = i => Entry' = Entry /\ Sets' = Sets /\ (IsRule <=> IsRule')
           /\ i' = i /\ (pc = "entries" <=> pc' = "entries") =>
                 Cur' = Cur /\ SetsOf(Cur)' = SetsOf(Cur)
<1>1. Chain' = Chain
  BY DEF Chain
<1>2. SetsFrom' = SetsFrom
  BY DEF SetsFrom
<1>3. \A n : SetsOf(n)' = SetsOf(n) /\ FlagsOf(n)' = FlagsOf(n)
  BY DEF SetsOf, FlagsOf, nx_json_get, Children, Chain, SetsFrom, UpTo
<1>4. RulesFrom' = RulesFrom
  BY DEF RulesFrom, SetsOf, FlagsOf, nx_json_get, Children, Chain, SetsFrom, UpTo
<1>5. json' = json /\ First' = First
  BY DEF json, First
<1>6. Asked' = Asked
  BY <1>3 DEF Asked, RuleOfEntry
<1>7. /\ pc' = "entries" => Cur' = At(First, i')
      /\ pc' # "entries" => Cur' = At(First, i' - 1)
  BY <1>1, <1>5 DEF Cur, At
<1>8. i' = i => Entry' = Entry /\ Sets' = Sets /\ (IsRule <=> IsRule')
  <2> SUFFICES ASSUME i' = i PROVE Entry' = Entry /\ Sets' = Sets /\ (IsRule <=> IsRule')
    OBVIOUS
  <2>1. \A n : Children(n)' = Children(n)
    BY <1>1 DEF Children
  <2>2. Entry' = Entry
    BY <1>1, <1>5 DEF Entry, Children
  <2>3. Sets' = Sets
    BY <1>1, <2>2 DEF Sets, nx_json_get, Children
  <2>4. IsRule <=> IsRule'
    BY <1>1, <1>5, <2>3 DEF IsRule, nx_json_item, Children
  <2> QED
    BY <2>2, <2>3, <2>4
<1>9. i' = i /\ (pc = "entries" <=> pc' = "entries") =>
         Cur' = Cur /\ SetsOf(Cur)' = SetsOf(Cur)
  <2> SUFFICES ASSUME i' = i, pc = "entries" <=> pc' = "entries"
               PROVE  Cur' = Cur /\ SetsOf(Cur)' = SetsOf(Cur)
    OBVIOUS
  <2>1. Cur' = Cur
    BY <1>7 DEF Cur
  <2>2. SetsOf(Cur)' = SetsOf(Cur)
    BY <1>1, <1>2, <2>1 DEF SetsOf, nx_json_get, Children, UpTo
  <2> QED
    BY <2>1, <2>2
<1> QED
  BY <1>1, <1>2, <1>4, <1>5, <1>6, <1>7, <1>8, <1>9

\* What nx_json_item returns.
LEMMA ItemAt ==
    ASSUME TreeInv, NEW n \in 1 .. Len(nodes), NEW k \in Nat
    PROVE  /\ nodes[n].child \in 0 .. Len(nodes)
           /\ At(nodes[n].child, k) \in 0 .. Len(nodes)
           /\ At(nodes[n].child, k) # 0 => nx_json_item(n, k) = nodes[At(nodes[n].child, k)]
           /\ At(nodes[n].child, k) = 0 => nx_json_item(n, k) = Node("null", NoKey)
           /\ At(nodes[n].child, k) # 0 =>
                 /\ Children(n)[k + 1] = At(nodes[n].child, k)
                 /\ At(nodes[n].child, k + 1) = nodes[At(nodes[n].child, k)].next
           /\ At(nodes[n].child, 0) = nodes[n].child
<1>1. Forward /\ Len(nodes) \in Nat
  BY DEF TreeInv, TextTyped, LinkInv, Linked
<1>2. nodes[n].child \in 0 .. Len(nodes)
  BY <1>1 DEF Forward
<1>3. PICK c : c = nodes[n].child
  OBVIOUS
<1>4. /\ At(c, 0) = c
      /\ At(c, k) \in 0 .. Len(nodes)
      /\ At(c, k) # 0 <=> k < Len(Chain[c])
      /\ At(c, k) # 0 => At(c, k + 1) = nodes[At(c, k)].next
  BY <1>1, <1>2, <1>3, ChainWalk
<1>5. /\ k < Len(Chain[c]) => At(c, k) = Chain[c][k + 1]
      /\ nx_json_item(n, k) = IF k < Len(Chain[c]) THEN nodes[Chain[c][k + 1]]
                              ELSE Node("null", NoKey)
      /\ Children(n)[k + 1] = Chain[c][k + 1]
  BY <1>3, Zenon DEF At, nx_json_item, Children
<1> HIDE DEF At, Chain, nx_json_item
<1> QED
  BY <1>2, <1>3, <1>4, <1>5

\* What ntrack_conf_sync reads when it has an array.
LEMMA Rooted ==
    ASSUME TreeInv, json # 0
    PROVE  /\ Len(nodes) \in Nat /\ Forward /\ json \in 1 .. Len(nodes)
           /\ First \in 0 .. Len(nodes)
           /\ RulesFrom \in [0 .. Len(nodes) -> Seq(Asked)]
           /\ SetsFrom \in [0 .. Len(nodes) -> Seq(KnownSets)]
<1>1. Len(nodes) \in Nat \ {0} /\ Forward
  BY DEF TreeInv, TextTyped, LinkInv, Linked
<1>2. json \in 1 .. Len(nodes)
  BY <1>1 DEF Forward, json
<1>3. First \in 0 .. Len(nodes)
  BY <1>1, <1>2 DEF Forward, First
<1> QED
  BY <1>1, <1>2, <1>3, RulesFound, SetsFound

\* The entry at hand, and its ipsets.
LEMMA EntryIs ==
    ASSUME TreeInv, json # 0, i \in Nat \ {0}, NEW e, e = At(First, i - 1), e # 0
    PROVE  /\ e \in 1 .. Len(nodes) /\ Entry = e /\ At(First, i) = nodes[e].next
           /\ Sets = nx_json_get(e, "IPSets") /\ Sets \in 0 .. Len(nodes)
           /\ IsRule => /\ Sets \in 1 .. Len(nodes)
                        /\ SetsOf(e) = UpTo(SetsFrom[nodes[Sets].child], MAX_USR_SET + 1)
           /\ ~IsRule => SetsOf(e) = <<>>
<1>1. Len(nodes) \in Nat /\ Forward /\ json \in 1 .. Len(nodes)
  BY Rooted
<1>2. PICK k \in Nat : k = i - 1 /\ k + 1 = i
  <2>1. i - 1 \in Nat /\ (i - 1) + 1 = i
    OBVIOUS
  <2> QED
    BY <2>1
<1>3. /\ At(First, k) \in 0 .. Len(nodes)
      /\ nx_json_item(json, k) = nodes[e]
      /\ Children(json)[k + 1] = e
      /\ At(First, k + 1) = nodes[e].next
  BY <1>1, <1>2, ItemAt DEF First
<1>4. e \in 1 .. Len(nodes) /\ Entry = e /\ At(First, i) = nodes[e].next
  BY <1>1, <1>2, <1>3 DEF Entry
<1>5. PICK a : a = nx_json_get(e, "IPSets")
  OBVIOUS
<1>6. a \in 0 .. Len(nodes) /\ Sets = a
  BY <1>1, <1>4, <1>5, GetFound DEF Sets
<1>7. IsRule <=> nodes[e].type = "object" /\ a # 0 /\ nodes[a].type = "array"
  BY <1>2, <1>3, <1>6 DEF IsRule, NoNode
<1>8. SetsOf(e) = IF nodes[e].type # "object" \/ a = 0 THEN <<>>
                  ELSE IF nodes[a].type # "array" THEN <<>>
                  ELSE UpTo(SetsFrom[nodes[a].child], MAX_USR_SET + 1)
  BY <1>5, Zenon DEF SetsOf, NoNode
<1>9. a # 0 => a \in 1 .. Len(nodes)
  BY <1>1, <1>6
<1> DEFINE Cut == UpTo(SetsFrom[nodes[a].child], MAX_USR_SET + 1)
<1>10. SetsOf(e) = IF IsRule THEN Cut ELSE <<>>
  <2> HIDE DEF Cut
  <2>1. SetsOf(e) = IF nodes[e].type # "object" \/ a = 0 THEN <<>>
                    ELSE IF nodes[a].type # "array" THEN <<>> ELSE Cut
    BY <1>8 DEF Cut
  <2> QED
    BY <1>7, <2>1
<1> QED
  BY <1>4, <1>5, <1>6, <1>7, <1>9, <1>10, Zenon

\* ReadInv is kept by each step of the loops.
LEMMA ReadNextEntry ==
    ASSUME TreeInv, ReadInv, NextEntry
    PROVE  ReadInv'
<1>1. /\ pc = "entries" /\ i' = i + 1 /\ rule' = EmptyRule /\ rules' = rules /\ nodes' = nodes
      /\ pc' = IF nx_json_item(json, i).type = "null" THEN "install" ELSE "entry"
  BY DEF NextEntry, parser
<1>2. /\ json # 0 /\ i \in Nat /\ rules \in Seq(Asked) /\ Len(rules) <= MAX_URL_RULES
      /\ rules \o RulesFrom[Cur] = RulesFrom[First]
  BY <1>1 DEF ReadInv, Reading
<1>3. PICK e : e = At(First, i) /\ e = Cur
  BY <1>1 DEF Cur
<1>4. /\ Len(nodes) \in Nat /\ Forward /\ json \in 1 .. Len(nodes)
  BY <1>2, Rooted
<1>5. /\ e \in 0 .. Len(nodes)
      /\ e # 0 => nx_json_item(json, i) = nodes[e]
  BY <1>2, <1>3, <1>4, ItemAt DEF First
<1>6. e = 0 => nx_json_item(json, i).type = "null"
  <2>1. e = 0 => nx_json_item(json, i) = Node("null", NoKey)
    BY <1>2, <1>3, <1>4, ItemAt DEF First
  <2>2. Node("null", NoKey).type = "null"
    BY DEF Node
  <2> QED
    BY <2>1, <2>2
<1>7. CASE nx_json_item(json, i).type = "null"
  <2>1. RulesFrom[e] = <<>>
    <3>1. CASE e = 0
      BY <1>4, <3>1, RulesFound
    <3>2. CASE e # 0
      <4>1. e \in 1 .. Len(nodes) /\ nodes[e].type = "null"
        BY <1>4, <1>5, <1>7, <3>2
      <4> QED
        BY <1>4, <4>1, RulesFound
    <3> QED
      BY <3>1, <3>2
  <2>2. rules = RulesFrom[First]
    <3>1. rules \o <<>> = rules
      BY <1>2, ConcatEmptySeq
    <3> QED
      BY <1>2, <1>3, <2>1, <3>1
  <2>3. UpTo(rules, MAX_URL_RULES + 1) = rules
    <3>1. MAX_URL_RULES \in Nat
      BY RuleTextAssumption
    <3>2. Len(rules) \in Nat
      BY <1>2
    <3>3. MAX_URL_RULES + 1 \in Nat /\ Len(rules) <= MAX_URL_RULES + 1
      BY <1>2, <3>1, <3>2
    <3> QED
      BY <1>2, <3>3, UpToAll
  <2>4. rules' = UpTo(RulesFrom'[First'], MAX_URL_RULES + 1) /\ json' # 0
    BY <1>1, <1>2, <2>2, <2>3, SameTree
  <2>5. pc' = "install"
    BY <1>1, <1>7
  <2> QED
    BY <2>4, <2>5 DEF ReadInv, Parsing
<1>8. CASE nx_json_item(json, i).type # "null"
  <2>1. pc' = "entry" /\ e # 0 /\ nodes[e].type # "null"
    BY <1>1, <1>5, <1>6, <1>8
  <2>2. i' \in Nat /\ i' # 0 /\ i' - 1 = i
    BY <1>1, <1>2
  <2>3. Cur' = e
    BY <1>1, <1>3, <2>1, <2>2, SameTree
  <2>4. json' # 0 /\ rules' \in Seq(Asked') /\ Len(rules') <= MAX_URL_RULES
    BY <1>1, <1>2, SameTree
  <2>5. rules' \o RulesFrom'[Cur'] = RulesFrom'[First']
    BY <1>1, <1>2, <1>3, <2>3, SameTree
  <2>6. Cur' # 0 /\ nodes'[Cur'].type # "null" /\ rule' = EmptyRule'
    BY <1>1, <2>1, <2>3 DEF EmptyRule
  <2> HIDE DEF Asked, Cur, First, RulesFrom
  <2> QED
    BY <2>1, <2>2, <2>4, <2>5, <2>6 DEF ReadInv, Parsing
<1> QED
  BY <1>7, <1>8

LEMMA ReadTakeEntry ==
    ASSUME TreeInv, ReadInv, TakeEntry
    PROVE  ReadInv'
<1>1. /\ pc = "entry" /\ i' = i /\ rule' = rule /\ rules' = rules /\ nodes' = nodes /\ j' = 0
      /\ pc' = IF IsRule THEN "sets" ELSE "entries"
  BY DEF TakeEntry, parser
<1>2. /\ json # 0 /\ i \in Nat \ {0} /\ rules \in Seq(Asked) /\ Len(rules) <= MAX_URL_RULES
      /\ rules \o RulesFrom[Cur] = RulesFrom[First]
      /\ Cur # 0 /\ nodes[Cur].type # "null" /\ rule = EmptyRule
  BY <1>1 DEF ReadInv, Reading
<1>3. PICK e : e = At(First, i - 1) /\ e = Cur
  BY <1>1 DEF Cur
<1>4. /\ Len(nodes) \in Nat /\ Forward
      /\ SetsFrom \in [0 .. Len(nodes) -> Seq(KnownSets)]
      /\ RulesFrom \in [0 .. Len(nodes) -> Seq(Asked)]
  BY <1>2, Rooted
<1>5. /\ e \in 1 .. Len(nodes) /\ At(First, i) = nodes[e].next
      /\ IsRule => Sets \in 1 .. Len(nodes)
      /\ ~IsRule => SetsOf(e) = <<>>
  BY <1>2, <1>3, EntryIs
<1>6. json' # 0 /\ rules' \in Seq(Asked') /\ Len(rules') <= MAX_URL_RULES /\ i' \in Nat /\ i' # 0
  BY <1>1, <1>2, SameTree
<1>7. CASE IsRule
  <2>1. pc' = "sets" /\ pc # "entries" /\ pc' # "entries"
    BY <1>1, <1>7
  <2>2. Cur' = Cur /\ Sets' = Sets /\ IsRule'
    BY <1>1, <1>7, <2>1, SameTree
  <2>3. rules' \o RulesFrom'[Cur'] = RulesFrom'[First']
    BY <1>1, <1>2, <2>2, SameTree
  <2>4. Cur' # 0 /\ nodes'[Cur'].type # "null"
    BY <1>1, <1>2, <2>2
  <2>5. PICK c \in 0 .. Len(nodes) : c = nodes[Sets].child /\ At(c, 0) = c
    <3>1. Sets \in 1 .. Len(nodes) /\ 0 \in Nat
      BY <1>5, <1>7
    <3> QED
      BY <3>1, ItemAt
  <2>6. Gathered'
    <3>1. <<>> \in Seq(KnownSets) /\ Len(<<>>) <= MAX_USR_SET
      BY RuleTextAssumption
    <3>2. <<>> \o SetsFrom[c] = SetsFrom[c]
      BY <1>4, <2>5, ConcatEmptySeq
    <3>3. rule' = [sets |-> <<>>, flags |-> 0]
      BY <1>1, <1>2 DEF EmptyRule
    <3>4. At(c, 0)' = c
      BY <2>5, SameTree, <1>1 DEF At
    <3>5. nodes'[Sets'].child = c /\ j' = 0 /\ SetsFrom' = SetsFrom
      BY <1>1, <2>2, <2>5, SameTree
    <3>6. At(nodes[Sets].child, j)' = c
      BY <3>4, <3>5 DEF At
    <3>7. <<>> \o SetsFrom'[At(nodes[Sets].child, j)'] = SetsFrom'[nodes'[Sets'].child]
      BY <3>2, <3>5, <3>6
    <3> QED
      BY <3>1, <3>3, <3>7, Zenon DEF Gathered
  <2> HIDE DEF Asked, Cur, First, RulesFrom, IsRule, Gathered
  <2>7. j' \in Nat
    BY <1>1
  <2> QED
    BY <1>6, <2>1, <2>2, <2>3, <2>4, <2>6, <2>7 DEF ReadInv, Parsing
<1>8. CASE ~IsRule
  <2>1. pc' = "entries"
    BY <1>1, <1>8
  <2>2. Cur' = nodes[e].next
    BY <1>1, <1>5, <2>1, SameTree
  <2>3. RulesFrom[e] = RulesFrom[nodes[e].next]
    BY <1>2, <1>3, <1>4, <1>5, <1>8, RulesFound
  <2>4. rules' \o RulesFrom'[Cur'] = RulesFrom'[First']
    BY <1>1, <1>2, <1>3, <2>2, <2>3, SameTree
  <2> HIDE DEF Asked, Cur, First, RulesFrom
  <2> QED
    BY <1>6, <2>1, <2>4 DEF ReadInv, Parsing
<1> QED
  BY <1>7, <1>8

LEMMA ReadTakeSet ==
    ASSUME TreeInv, ReadInv, TakeSet
    PROVE  ReadInv'
<1>1. PICK str : str = nx_json_item(Sets, j)
  OBVIOUS
<1>2. /\ pc = "sets" /\ i' = i /\ j' = j + 1 /\ rules' = rules /\ nodes' = nodes
      /\ rule' = IF str.type \in KnownSets
                 THEN [rule EXCEPT !.sets = Append(rule.sets, str.type)] ELSE rule
      /\ pc' = IF \/ str.type = "null"
                  \/ str.type \in KnownSets /\ Len(Append(rule.sets, str.type)) > MAX_USR_SET
               THEN "flags" ELSE "sets"
  BY <1>1, Zenon DEF TakeSet, parser
<1>3. /\ json # 0 /\ i \in Nat \ {0} /\ rules \in Seq(Asked) /\ Len(rules) <= MAX_URL_RULES
      /\ rules \o RulesFrom[Cur] = RulesFrom[First]
      /\ Cur # 0 /\ nodes[Cur].type # "null" /\ IsRule /\ j \in Nat /\ Gathered
  BY <1>2 DEF ReadInv, Reading
<1>4. PICK e : e = At(First, i - 1) /\ e = Cur
  BY <1>2 DEF Cur
<1>5. /\ Len(nodes) \in Nat /\ Forward
      /\ SetsFrom \in [0 .. Len(nodes) -> Seq(KnownSets)]
  BY <1>3, Rooted
<1>6. PICK a \in 1 .. Len(nodes) : a = Sets
  BY <1>3, <1>4, EntryIs
<1>7. PICK c \in 0 .. Len(nodes) : c = nodes[a].child
  BY <1>5 DEF Forward
<1>8. SetsOf(e) = UpTo(SetsFrom[c], MAX_USR_SET + 1)
  BY <1>3, <1>4, <1>6, <1>7, EntryIs
<1>9. PICK s \in Seq(KnownSets) :
         /\ rule = [sets |-> s, flags |-> 0] /\ Len(s) <= MAX_USR_SET
         /\ s \o SetsFrom[At(c, j)] = SetsFrom[c]
  BY <1>3, <1>6, <1>7, Zenon DEF Gathered
<1>10. PICK m \in 0 .. Len(nodes) : m = At(c, j)
  BY <1>3, <1>6, <1>7, ItemAt
<1>11. /\ m # 0 => str = nodes[m] /\ At(c, j + 1) = nodes[m].next
       /\ m = 0 => str.type = "null"
  <2>1. /\ m # 0 => nx_json_item(a, j) = nodes[m] /\ At(c, j + 1) = nodes[m].next
        /\ m = 0 => nx_json_item(a, j) = Node("null", NoKey)
    BY <1>3, <1>7, <1>10, ItemAt
  <2>2. Node("null", NoKey).type = "null"
    BY DEF Node
  <2> QED
    BY <1>1, <1>6, <2>1, <2>2
<1>12. MAX_USR_SET \in Nat /\ Len(s) \in Nat /\ "null" \notin KnownSets
  BY RuleTextAssumption DEF Strings, Literals
\* The rest of the invariant does not change.
<1>13. pc # "entries" /\ pc' # "entries" /\ pc' \in {"sets", "flags"}
  BY <1>2
<1>14. /\ Cur' = Cur /\ SetsOf(Cur)' = SetsOf(e) /\ Sets' = a /\ IsRule'
       /\ SetsFrom' = SetsFrom /\ Chain' = Chain
  BY <1>2, <1>3, <1>4, <1>6, <1>13, SameTree
<1>15. /\ json' # 0 /\ rules' \in Seq(Asked') /\ Len(rules') <= MAX_URL_RULES
       /\ i' \in Nat /\ i' # 0 /\ j' \in Nat
       /\ Cur' # 0 /\ nodes'[Cur'].type # "null"
       /\ rules' \o RulesFrom'[Cur'] = RulesFrom'[First']
  <2>1. j' \in Nat /\ i' \in Nat /\ i' # 0
    BY <1>2, <1>3
  <2>2. json' # 0 /\ rules' \in Seq(Asked') /\ Len(rules') <= MAX_URL_RULES
    BY <1>2, <1>3, SameTree
  <2>3. /\ Cur' # 0 /\ nodes'[Cur'].type # "null"
        /\ rules' \o RulesFrom'[Cur'] = RulesFrom'[First']
    BY <1>2, <1>3, <1>14, SameTree
  <2> QED
    BY <2>1, <2>2, <2>3
<1>16. /\ pc' = "flags" => rule' = [sets |-> SetsOf(Cur)', flags |-> 0]
       /\ pc' = "sets" => Gathered'
  <2>1. CASE str.type = "null"
    <3>1. SetsFrom[m] = <<>>
      <4>1. CASE m = 0
        BY <1>5, <4>1, SetsFound
      <4>2. CASE m # 0
        <5>1. m \in 1 .. Len(nodes) /\ nodes[m].type = "null"
          BY <1>5, <1>11, <2>1, <4>2
        <5> QED
          BY <1>5, <5>1, SetsFound
      <4> QED
        BY <4>1, <4>2
    <3>2. s = SetsFrom[c]
      <4>1. s \o <<>> = s
        BY ConcatEmptySeq
      <4> QED
        BY <1>9, <1>10, <3>1, <4>1
    <3>3. UpTo(s, MAX_USR_SET + 1) = s
      <4>1. MAX_USR_SET + 1 \in Nat /\ Len(s) <= MAX_USR_SET + 1
        BY <1>9, <1>12
      <4> QED
        BY <4>1, UpToAll
    <3>4. rule' = [sets |-> SetsOf(e), flags |-> 0]
      BY <1>2, <1>8, <1>9, <1>12, <2>1, <3>2, <3>3
    <3>5. pc' # "sets"
      BY <1>2, <2>1
    <3> QED
      BY <1>14, <3>4, <3>5
  <2>2. CASE str.type \in KnownSets
    <3>1. m \in 1 .. Len(nodes) /\ nodes[m].type = str.type /\ At(c, j + 1) = nodes[m].next
      BY <1>5, <1>11, <1>12, <2>2
    <3>2. PICK b \in Seq(KnownSets) : b = SetsFrom[nodes[m].next]
      <4>1. nodes[m].next \in 0 .. Len(nodes)
        BY <1>5, <3>1 DEF Forward
      <4> QED
        BY <1>5, <4>1
    <3>3. SetsFrom[m] = <<str.type>> \o b
      BY <1>5, <2>2, <3>1, <3>2, SetsFound
    <3>4. PICK t \in Seq(KnownSets) : t = Append(s, str.type)
      BY <2>2, AppendBefore
    <3>5. Len(t) = Len(s) + 1 /\ t \o b = SetsFrom[c]
      <4>1. Len(t) = Len(s) + 1 /\ t \o b = s \o (<<str.type>> \o b)
        <5>1. str.type \in KnownSets /\ s \in Seq(KnownSets) /\ b \in Seq(KnownSets)
          BY <2>2
        <5>w. PICK w \in KnownSets : w = str.type
          BY <5>1
        <5>2. /\ Len(Append(s, w)) = Len(s) + 1
              /\ Append(s, w) \o b = s \o (<<w>> \o b)
          BY AppendBefore
        <5> QED
          BY <3>4, <5>w, <5>2, Zenon
      <4> QED
        BY <1>9, <1>10, <3>3, <4>1
    <3>6. rule' = [sets |-> t, flags |-> 0] /\ rule.sets = s
      <4>1. rule.sets = s
        BY <1>9
      <4>2. rule' = [rule EXCEPT !.sets = t]
        BY <1>2, <2>2, <3>4, <4>1
      <4> QED
        BY <1>9, <4>1, <4>2
    <3>7. pc' = IF Len(t) > MAX_USR_SET THEN "flags" ELSE "sets"
      BY <1>2, <1>12, <2>2, <3>4, <3>6
    <3>8. CASE Len(t) > MAX_USR_SET
      <4>1. Len(t) = MAX_USR_SET + 1
        BY <1>9, <1>12, <3>5, <3>8
      <4>2. UpTo(t \o b, Len(t)) = t
        BY UpToCut
      <4>3. t = SetsOf(e)
        BY <1>8, <3>5, <4>1, <4>2
      <4>4. pc' # "sets"
        BY <3>7, <3>8
      <4> QED
        BY <1>14, <3>6, <4>3, <4>4
    <3>9. CASE ~(Len(t) > MAX_USR_SET)
      <4>1. pc' = "sets" /\ Len(t) <= MAX_USR_SET
        BY <1>12, <3>5, <3>7, <3>9
      <4>2. t \o SetsFrom[At(c, j + 1)] = SetsFrom[c]
        BY <3>1, <3>2, <3>5
      <4>3. At(nodes[Sets].child, j)' = At(c, j + 1) /\ nodes'[Sets'].child = c
        BY <1>2, <1>7, <1>14 DEF At
      <4>4. t \o SetsFrom'[At(nodes[Sets].child, j)'] = SetsFrom'[nodes'[Sets'].child]
        BY <1>14, <4>2, <4>3
      <4>5. Gathered'
        BY <3>6, <4>1, <4>4, Zenon DEF Gathered
      <4> QED
        BY <4>1, <4>5
    <3> QED
      BY <3>8, <3>9
  <2>3. CASE str.type \notin KnownSets \cup {"null"}
    <3>1. m \in 1 .. Len(nodes) /\ nodes[m].type = str.type /\ At(c, j + 1) = nodes[m].next
      BY <1>5, <1>11, <2>3
    <3>2. SetsFrom[m] = SetsFrom[nodes[m].next]
      BY <1>5, <2>3, <3>1, SetsFound
    <3>3. s \o SetsFrom[At(c, j + 1)] = SetsFrom[c] /\ rule' = [sets |-> s, flags |-> 0]
      BY <1>2, <1>9, <1>10, <2>3, <3>1, <3>2
    <3>4. At(nodes[Sets].child, j)' = At(c, j + 1) /\ nodes'[Sets'].child = c
      BY <1>2, <1>7, <1>14 DEF At
    <3>5. s \o SetsFrom'[At(nodes[Sets].child, j)'] = SetsFrom'[nodes'[Sets'].child]
      BY <1>14, <3>3, <3>4
    <3>6. Gathered'
      BY <1>9, <3>3, <3>5, Zenon DEF Gathered
    <3>7. pc' = "sets"
      BY <1>2, <2>3
    <3> QED
      BY <3>6, <3>7
  <2> QED
    BY <2>1, <2>2, <2>3
<1> HIDE DEF Asked, Cur, First, RulesFrom, IsRule, Gathered
<1> QED
  BY <1>13, <1>14, <1>15, <1>16 DEF ReadInv, Parsing

LEMMA ReadSaveRule ==
    ASSUME TreeInv, ReadInv, SaveRule
    PROVE  ReadInv'
<1>1. PICK f : f = IF Flags = NoNode THEN "null" ELSE nodes[Flags].type
  OBVIOUS
<1>2. PICK r : r = [rule EXCEPT !.flags = IF f = "int" THEN 1 ELSE @]
  OBVIOUS
<1>3. /\ pc = "flags" /\ i' = i /\ nodes' = nodes
      /\ rules' = IF rule.sets = <<>> THEN rules ELSE Append(rules, r)
      /\ pc' = IF rule.sets # <<>> /\ Len(Append(rules, r)) > MAX_URL_RULES
               THEN "install" ELSE "entries"
  <2>1. /\ pc = "flags" /\ i' = i /\ nodes' = nodes
        /\ IF rule.sets = <<>>
           THEN rules' = rules /\ pc' = "entries"
           ELSE /\ rules' = Append(rules, r)
                /\ pc' = IF Len(Append(rules, r)) > MAX_URL_RULES THEN "install" ELSE "entries"
    BY <1>1, <1>2, Zenon DEF SaveRule, parser
  <2> DEFINE new == Append(rules, r)
  <2> HIDE DEF new
  <2>2. IF rule.sets = <<>>
        THEN rules' = rules /\ pc' = "entries"
        ELSE rules' = new /\ pc' = IF Len(new) > MAX_URL_RULES THEN "install" ELSE "entries"
    BY <2>1, Zenon DEF new
  <2>3. /\ rules' = IF rule.sets = <<>> THEN rules ELSE new
        /\ pc' = IF rule.sets # <<>> /\ Len(new) > MAX_URL_RULES THEN "install" ELSE "entries"
    BY <2>2
  <2> QED
    BY <2>1, <2>3, Zenon DEF new
<1>4. /\ json # 0 /\ i \in Nat \ {0} /\ rules \in Seq(Asked) /\ Len(rules) <= MAX_URL_RULES
      /\ rules \o RulesFrom[Cur] = RulesFrom[First]
      /\ Cur # 0 /\ nodes[Cur].type # "null" /\ IsRule
      /\ rule = [sets |-> SetsOf(Cur), flags |-> 0]
  BY <1>3 DEF ReadInv, Reading
<1>5. PICK e : e = At(First, i - 1) /\ e = Cur
  BY <1>3 DEF Cur
<1>6. /\ Len(nodes) \in Nat /\ Forward
      /\ RulesFrom \in [0 .. Len(nodes) -> Seq(Asked)]
  BY <1>4, Rooted
<1>7. e \in 1 .. Len(nodes) /\ Entry = e /\ At(First, i) = nodes[e].next
  BY <1>4, <1>5, EntryIs
<1>8. r = RuleOfEntry(e) /\ rule.sets = SetsOf(e) /\ r \in Asked
  <2>1. FlagsOf(e) = IF f = "int" THEN 1 ELSE 0
    <3>1. Flags = nx_json_get(e, "Flags")
      BY <1>7 DEF Flags
    <3>2. PICK g : g = nx_json_get(e, "Flags")
      OBVIOUS
    <3>3. FlagsOf(e) = IF g = 0 THEN 0 ELSE IF nodes[g].type = "int" THEN 1 ELSE 0
      BY <3>2, Zenon DEF FlagsOf, NoNode
    <3>4. f = IF g = 0 THEN "null" ELSE nodes[g].type
      BY <1>1, <3>1, <3>2 DEF NoNode
    <3> QED
      BY <3>3, <3>4
  <2>2. rule = [sets |-> SetsOf(e), flags |-> 0]
    BY <1>4, <1>5
  <2>3. r = [sets |-> SetsOf(e), flags |-> FlagsOf(e)] /\ rule.sets = SetsOf(e)
    BY <1>2, <2>1, <2>2
  <2>4. r = RuleOfEntry(e)
    BY <2>3 DEF RuleOfEntry
  <2> QED
    BY <1>7, <2>3, <2>4, Zenon DEF Asked
<1>9. PICK b \in Seq(Asked) : b = RulesFrom[nodes[e].next]
  <2>1. nodes[e].next \in 0 .. Len(nodes)
    BY <1>6, <1>7 DEF Forward
  <2> HIDE DEF Asked
  <2> QED
    BY <1>6, <2>1
<1>10. MAX_URL_RULES \in Nat /\ Len(rules) \in Nat
  BY <1>4, RuleTextAssumption
<1>11. json' # 0 /\ i' \in Nat
  BY <1>3, <1>4, SameTree
<1> HIDE DEF Asked, Cur, First, RulesFrom
<1>12. CASE SetsOf(e) = <<>>
  <2>1. pc' = "entries" /\ rules' = rules
    BY <1>3, <1>8, <1>12
  <2>2. Cur' = nodes[e].next
    BY <1>3, <1>7, <2>1, SameTree
  <2>3. RulesFrom[e] = RulesFrom[nodes[e].next]
    BY <1>4, <1>5, <1>6, <1>7, <1>12, RulesFound
  <2>4. rules' \o RulesFrom'[Cur'] = RulesFrom'[First']
    BY <1>3, <1>4, <1>5, <2>1, <2>2, <2>3, SameTree
  <2>5. rules' \in Seq(Asked') /\ Len(rules') <= MAX_URL_RULES
    BY <1>3, <1>4, <2>1, SameTree
  <2> QED
    BY <1>11, <2>1, <2>4, <2>5 DEF ReadInv, Parsing
<1>13. CASE SetsOf(e) # <<>>
  <2>1. PICK t \in Seq(Asked) : t = Append(rules, r)
    BY <1>4, <1>8, AppendBefore
  <2>2. Len(t) = Len(rules) + 1 /\ t \o b = RulesFrom[First]
    <3>1. Len(t) = Len(rules) + 1 /\ t \o b = rules \o (<<r>> \o b)
      <4>1. r \in Asked /\ rules \in Seq(Asked) /\ b \in Seq(Asked)
        BY <1>4, <1>8
      <4>2. /\ Len(Append(rules, r)) = Len(rules) + 1
            /\ Append(rules, r) \o b = rules \o (<<r>> \o b)
        BY ONLY <4>1, AppendBefore
      <4> QED
        BY <2>1, <4>2, Zenon
    <3>2. RulesFrom[e] = <<r>> \o b
      BY <1>4, <1>5, <1>6, <1>7, <1>8, <1>9, <1>13, RulesFound
    <3> QED
      BY <1>4, <1>5, <3>1, <3>2
  <2>3. rules' = t /\ pc' = IF Len(t) > MAX_URL_RULES THEN "install" ELSE "entries"
    BY <1>3, <1>8, <1>13, <2>1
  <2>4. CASE Len(t) > MAX_URL_RULES
    <3>1. Len(t) = MAX_URL_RULES + 1
      BY <1>4, <1>10, <2>2, <2>4
    <3>2. UpTo(t \o b, Len(t)) = t
      BY UpToCut
    <3>3. rules' = UpTo(RulesFrom'[First'], MAX_URL_RULES + 1) /\ pc' = "install"
      BY <1>3, <2>2, <2>3, <2>4, <3>1, <3>2, SameTree
    <3> QED
      BY <1>11, <3>3 DEF ReadInv, Parsing
  <2>5. CASE ~(Len(t) > MAX_URL_RULES)
    <3>1. pc' = "entries" /\ rules' = t /\ Len(t) <= MAX_URL_RULES
      BY <1>10, <2>2, <2>3, <2>5
    <3>2. Cur' = nodes[e].next
      BY <1>3, <1>7, <3>1, SameTree
    <3>3. rules' \o RulesFrom'[Cur'] = RulesFrom'[First']
      BY <1>3, <1>9, <2>2, <3>1, <3>2, SameTree
    <3>4. rules' \in Seq(Asked') /\ Len(rules') <= MAX_URL_RULES
      BY <1>3, <3>1, SameTree
    <3> QED
      BY <1>11, <3>1, <3>3, <3>4 DEF ReadInv, Parsing
  <2> QED
    BY <2>4, <2>5
<1> QED
  BY <1>12, <1>13

\* One step per action: the parser's first, then those above.
LEMMA NextRead == TreeInv /\ ReadInv /\ [TextNext]_textvars => ReadInv'
<1> SUFFICES ASSUME TreeInv, ReadInv, TextNext \/ UNCHANGED textvars PROVE ReadInv'
  OBVIOUS
<1>1. ASSUME pc \in Parsing, pc' \in Parsing \cup {"parsed"}, i' = i, rules' = rules PROVE ReadInv'
  BY <1>1 DEF ReadInv, Parsing, Reading
<1>2. ASSUME pc' \in {"failed", "einval"} PROVE ReadInv'
  BY <1>2 DEF ReadInv, Parsing, Reading
<1>3. /\ After(stack) \in Parsing \cup {"parsed"}
      /\ Len(stack) > 1 => After(Tail(stack)) \in Parsing \cup {"parsed"}
  <2>1. stack \in Seq(Nat) /\ stack # <<>> /\ Len(stack) \in Nat
    BY RootAlone DEF TreeInv, TextTyped
  <2>2. Len(stack) > 1 => Tail(stack) \in Seq(Nat) /\ Tail(stack) # <<>>
    <3>1. Tail(stack) \in Seq(Nat) /\ Len(Tail(stack)) = Len(stack) - 1
      BY <2>1
    <3>2. Len(stack) > 1 => Len(stack) - 1 # 0
      <4>1. \A x \in Nat : x > 1 => x - 1 # 0
        OBVIOUS
      <4> QED
        BY <2>1, <4>1
    <3>3. Tail(stack) = <<>> => Len(Tail(stack)) = 0
      <4>1. Len(<<>>) = 0
        OBVIOUS
      <4> QED
        BY <4>1, Zenon
    <3> QED
      BY <3>1, <3>2, <3>3
  <2> QED
    BY <2>1, <2>2, AfterCases DEF Parsing
<1>4. CASE Open \/ Literal \/ StringValue
  <2>1. pc \in Parsing /\ i' = i /\ rules' = rules
    BY <1>4 DEF Open, Literal, StringValue, AtValue, Parsing, Create, loop
  <2>2. pc' \in {"key", "value", After(stack), "string"}
    BY <1>4 DEF Open, Literal, StringValue, Create
  <2> QED
    BY <1>1, <1>3, <2>1, <2>2 DEF Parsing
<1>5. CASE CloseArray \/ CloseObject
  <2>1. CASE Fail
    BY <1>2, <2>1 DEF Fail
  <2>2. CASE ~Fail
    <3>1. pc \in Parsing /\ i' = i /\ rules' = rules
      BY <1>5, <2>2 DEF CloseArray, CloseObject, AtValue, Parsing, loop
    <3>2. pc' = "parsed" \/ (pc' = After(Tail(stack)) /\ Len(stack) > 1)
      <4>1. CASE CloseObject
        BY <4>1 DEF CloseObject, TreeInv, Phase
      <4>2. CASE CloseArray
        <5>1. Len(stack) = 1 \/ Len(stack) > 1
          <6>1. \A x \in Nat \ {0} : x = 1 \/ x > 1
            OBVIOUS
          <6> QED
            BY RootAlone, <6>1
        <5>2. pc' = IF Len(stack) = 1 THEN "parsed" ELSE After(Tail(stack))
          BY <2>2, <4>2 DEF CloseArray
        <5> QED
          BY <5>1, <5>2
      <4> QED
        BY <1>5, <4>1, <4>2
    <3> QED
      BY <1>1, <1>3, <3>1, <3>2
  <2> QED
    BY <2>1, <2>2
<1>6. CASE Skip \/ Key \/ Colon
  BY <1>1, <1>6 DEF Skip, Key, Colon, Parsing, loop
<1>7. CASE Unescape \/ Quote
  <2>1. pc \in Parsing /\ i' = i /\ rules' = rules /\ pc' \in {pc, After(stack), "colon"}
    BY <1>7 DEF Unescape, Quote, InString, Parsing, loop
  <2> QED
    BY <1>1, <1>3, <2>1 DEF Parsing
<1>8. CASE Unexpected \/ NoMemory \/ BadString \/ NotArray
  BY <1>2, <1>8 DEF Unexpected, NoMemory, BadString, NotArray, Fail
<1>9. CASE IsArray
  <2>1. /\ pc = "parsed" /\ pc' = "entries" /\ json # 0 /\ nodes' = nodes /\ i' = i /\ rules' = rules
    BY <1>9 DEF IsArray, parser, loop, NoNode
  <2>2. i = 0 /\ rules = <<>>
    BY <2>1 DEF ReadInv
  <2>3. Len(nodes) \in Nat /\ json \in 1 .. Len(nodes) /\ First \in 0 .. Len(nodes)
        /\ RulesFrom \in [0 .. Len(nodes) -> Seq(Asked)]
    BY <2>1, Rooted
  <2>4. At(First, 0) = First
    BY <2>1, <2>3, ItemAt DEF First
  <2>5. Cur' = First
    BY <2>1, <2>2, <2>4, SameTree
  <2> HIDE DEF Asked, Cur, First, RulesFrom
  <2>6. <<>> \o RulesFrom[First] = RulesFrom[First]
    BY <2>3, ConcatEmptySeq
  <2>7. rules' \o RulesFrom'[Cur'] = RulesFrom'[First'] /\ json' # 0
    BY <2>1, <2>2, <2>5, <2>6, SameTree
  <2>8. i' \in Nat /\ rules' \in Seq(Asked') /\ Len(rules') <= MAX_URL_RULES
    BY <2>1, <2>2, RuleTextAssumption
  <2> QED
    BY <2>1, <2>7, <2>8 DEF ReadInv, Parsing
<1>10. CASE NextEntry \/ TakeEntry \/ TakeSet \/ SaveRule
  BY <1>10, ReadNextEntry, ReadTakeEntry, ReadTakeSet, ReadSaveRule
<1>11. CASE Install
  <2>1. pc = "install" /\ pc' = "synced" /\ nodes' = nodes /\ rules' = rules
    BY <1>11 DEF Install, loop
  <2>2. json # 0 /\ rules = UpTo(RulesFrom[First], MAX_URL_RULES + 1)
    BY <2>1 DEF ReadInv, Reading
  <2>3. json' # 0 /\ rules' = UpTo(RulesFrom'[First'], MAX_URL_RULES + 1)
    BY <2>1, <2>2, SameTree
  <2> QED
    BY <2>1, <2>3 DEF ReadInv, Parsing
<1>12. CASE UNCHANGED textvars
  <2>1. /\ pc' = pc /\ nodes' = nodes /\ i' = i /\ j' = j /\ rule' = rule /\ rules' = rules
    BY <1>12 DEF textvars, parser, loop
  <2>2. Cur' = Cur /\ (IsRule' <=> IsRule) /\ Sets' = Sets
    BY <2>1, SameTree
  <2>3. SetsOf(Cur)' = SetsOf(Cur)
    BY <2>1, SameTree
  <2>4. Gathered' <=> Gathered
    BY <2>1, <2>2, SameTree DEF Gathered, At
  <2>5. json' = json /\ First' = First /\ RulesFrom' = RulesFrom /\ Asked' = Asked
    BY <2>1, SameTree
  <2> HIDE DEF Asked, Cur, First, RulesFrom, IsRule, Gathered
  <2> QED
    BY <2>1, <2>2, <2>3, <2>4, <2>5 DEF ReadInv, EmptyRule
<1> QED
  BY <1>4, <1>5, <1>6, <1>7, <1>8, <1>9, <1>10, <1>11, <1>12 DEF TextNext, Finished

\* The rules that ntrack_conf_sync installs are those the tree asks for, in
\* their order, up to the first null and to one past each limit: the loop
\* neither skips an entry nor keeps anything of the one before.
THEOREM TextRulesAsSent == TextSpec => []RulesAsSent
<1>1. TextInit => TreeInv /\ ReadInv
  <2> SUFFICES ASSUME TextInit PROVE ReadInv
    BY InitTree
  <2>1. pc = "value" /\ i = 0 /\ rules = <<>>
    BY DEF TextInit
  <2> QED
    BY <2>1 DEF ReadInv, Reading
<1>2. TreeInv /\ ReadInv /\ [TextNext]_textvars => (TreeInv /\ ReadInv)'
  BY NextTree, NextRead
<1>3. ReadInv => RulesAsSent
  BY DEF ReadInv, RulesAsSent, First
<1> QED
  BY <1>1, <1>2, <1>3, PTL DEF TextSpec

-----------------------------------------------------------------------------
(* The tree is the text *)

\* Each child's place among its parent's children, and length, which is the
\* last one's.
Counted(rank) ==
    \A n \in 1 .. Len(nodes) :
       /\ nodes[n].child # 0 => rank[nodes[n].child] = 1
       /\ nodes[n].next # 0 => rank[nodes[n].next] = rank[n] + 1
       /\ nodes[n].length = IF nodes[n].last = 0 THEN 0 ELSE rank[nodes[n].last]

CountInv == \E rank \in [1 .. Len(nodes) -> Nat] : Counted(rank)

\* A new node is its parent's last, and length counts it.
LEMMA CountMade ==
    ASSUME TreeInv, CountInv, NEW type, NEW k, Made(type, k)
    PROVE  CountInv'
<1>1. PICK N \in Nat : N = Len(nodes) /\ N # 0
  BY DEF TreeInv, TextTyped
<1>2. PICK p \in 1 .. N : p = Head(stack)
  BY <1>1, RootAlone
<1>3. PICK par \in [1 .. N -> 0 .. N] : par[1] = 0 /\ Linked(par)
  BY <1>1 DEF TreeInv, LinkInv
<1>4. PICK l \in 0 .. N : l = nodes[p].last
  BY <1>1, <1>3 DEF Linked
<1>5. PICK rank \in [1 .. N -> Nat] : Counted(rank)
  BY <1>1 DEF CountInv
<1>6. PICK r \in Nat : r = IF l = 0 THEN 1 ELSE rank[l] + 1
  OBVIOUS
<1>7. PICK q \in [1 .. N + 1 -> Nat] : q[N + 1] = r /\ \A m \in 1 .. N : q[m] = rank[m]
  <2> DEFINE q == [m \in 1 .. N + 1 |-> IF m = N + 1 THEN r ELSE rank[m]]
  <2>1. \A m \in 1 .. N + 1 : q[m] \in Nat
    OBVIOUS
  <2>2. q \in [1 .. N + 1 -> Nat] /\ q[N + 1] = r /\ \A m \in 1 .. N : q[m] = rank[m]
    BY <2>1
  <2> QED
    BY <2>2, Zenon
<1>8. /\ Len(nodes') = N + 1
      /\ nodes'[N + 1].child = 0 /\ nodes'[N + 1].last = 0 /\ nodes'[N + 1].next = 0
      /\ nodes'[N + 1].length = 0
  BY <1>1 DEF Made, Node, NoNode
<1>c. \A m \in 1 .. N : nodes'[m].child = IF m = p /\ l = 0 THEN N + 1 ELSE nodes[m].child
  BY <1>1, <1>2, <1>4 DEF Made
<1>l. \A m \in 1 .. N : nodes'[m].last = IF m = p THEN N + 1 ELSE nodes[m].last
  BY <1>1, <1>2 DEF Made
<1>n. \A m \in 1 .. N : nodes'[m].next = IF m = l THEN N + 1 ELSE nodes[m].next
  BY <1>1, <1>2, <1>4 DEF Made
<1>e. \A m \in 1 .. N : nodes'[m].length = IF m = p THEN nodes[m].length + 1 ELSE nodes[m].length
  BY <1>1, <1>2 DEF Made
<1>9. \A n \in 1 .. N : nodes[n].child \in 0 .. N /\ nodes[n].next \in 0 .. N /\ nodes[n].last \in 0 .. N
  BY <1>1, <1>3 DEF Linked, Forward
<1>z. \A x \in 0 .. N : x # 0 => x \in 1 .. N
  OBVIOUS
<1>10. \A n \in 1 .. N : /\ nodes[n].child # 0 => rank[nodes[n].child] = 1
                         /\ nodes[n].next # 0 => rank[nodes[n].next] = rank[n] + 1
                         /\ nodes[n].length = IF nodes[n].last = 0 THEN 0 ELSE rank[nodes[n].last]
  BY <1>1, <1>5 DEF Counted
<1>11. ASSUME NEW n \in 1 .. N
       PROVE  /\ nodes'[n].child # 0 => q[nodes'[n].child] = 1
              /\ nodes'[n].next # 0 => q[nodes'[n].next] = q[n] + 1
              /\ nodes'[n].length = IF nodes'[n].last = 0 THEN 0 ELSE q[nodes'[n].last]
  <2>1. nodes'[n].child # 0 => q[nodes'[n].child] = 1
    <3>1. CASE n = p /\ l = 0
      BY <1>c, <1>6, <1>7, <3>1
    <3>2. CASE ~(n = p /\ l = 0)
      <4>1. nodes'[n].child = nodes[n].child
        BY <1>c, <3>2
      <4>2. nodes[n].child # 0 => nodes[n].child \in 1 .. N /\ rank[nodes[n].child] = 1
        BY <1>9, <1>10, <1>z, Zenon
      <4> QED
        BY <1>7, <4>1, <4>2
    <3> QED
      BY <3>1, <3>2
  <2>2. nodes'[n].next # 0 => q[nodes'[n].next] = q[n] + 1
    <3>1. CASE n = l
      BY <1>n, <1>6, <1>7, <3>1
    <3>2. CASE n # l
      <4>1. nodes'[n].next = nodes[n].next
        BY <1>n, <3>2
      <4>2. nodes[n].next # 0 => nodes[n].next \in 1 .. N /\ rank[nodes[n].next] = rank[n] + 1
        BY <1>9, <1>10, <1>z, Zenon
      <4> QED
        BY <1>7, <4>1, <4>2
    <3> QED
      BY <3>1, <3>2
  <2>3. nodes'[n].length = IF nodes'[n].last = 0 THEN 0 ELSE q[nodes'[n].last]
    <3>1. CASE n = p
      <4>1. nodes'[n].last = N + 1 /\ nodes'[n].length = nodes[p].length + 1
        BY <1>l, <1>e, <3>1
      <4>2. nodes[p].length + 1 = r
        <5>1. nodes[p].length = IF l = 0 THEN 0 ELSE rank[l]
          BY <1>4, <1>10
        <5> QED
          BY <1>6, <5>1
      <4>3. N + 1 # 0 /\ q[N + 1] = r
        BY <1>7
      <4> QED
        BY <4>1, <4>2, <4>3
    <3>2. CASE n # p
      <4>1. nodes'[n].last = nodes[n].last /\ nodes'[n].length = nodes[n].length
        BY <1>l, <1>e, <3>2
      <4>2. nodes[n].last # 0 => nodes[n].last \in 1 .. N
        BY <1>9
      <4>3. nodes[n].length = IF nodes[n].last = 0 THEN 0 ELSE rank[nodes[n].last]
        BY <1>10
      <4> QED
        BY <1>7, <4>1, <4>2, <4>3
    <3> QED
      BY <3>1, <3>2
  <2> QED
    BY <2>1, <2>2, <2>3
<1>12. \A n \in 1 .. N + 1 : n \in 1 .. N \/ n = N + 1
  OBVIOUS
<1>13. Counted(q)'
  BY <1>8, <1>11, <1>12 DEF Counted
<1> QED
  BY <1>7, <1>8, <1>13 DEF CountInv

\* A list from a node on is as long as length less the places before it.
LEMMA LengthCounts ==
    ASSUME TreeInv, CountInv
    PROVE  \A n \in DOMAIN nodes : nodes[n].length = Len(Children(n))
<1>1. PICK N \in Nat : N = Len(nodes) /\ N # 0 /\ DOMAIN nodes = 1 .. N
  BY DEF TreeInv, TextTyped
<1>2. PICK par \in [1 .. N -> 0 .. N] : par[1] = 0 /\ Linked(par)
  BY <1>1 DEF TreeInv, LinkInv
<1>3. PICK rank \in [1 .. N -> Nat] : Counted(rank)
  BY <1>1 DEF CountInv
<1>4. \A n \in 1 .. N : /\ nodes[n].child # 0 => rank[nodes[n].child] = 1
                        /\ nodes[n].next # 0 => rank[nodes[n].next] = rank[n] + 1
                        /\ nodes[n].length = IF nodes[n].last = 0 THEN 0 ELSE rank[nodes[n].last]
  BY <1>1, <1>3 DEF Counted
<1>5. /\ Chain \in [0 .. N -> Seq(1 .. N)]
      /\ Chain[0] = <<>>
      /\ \A n \in 1 .. N : Chain[n] = <<n>> \o Chain[nodes[n].next]
  BY <1>1, <1>2, ChainFound DEF Linked
<1> HIDE DEF Chain
<1>6. \A n \in 1 .. N :
         /\ nodes[n].child \in 0 .. N /\ (nodes[n].child = 0 \/ n < nodes[n].child)
         /\ nodes[n].next \in 0 .. N /\ (nodes[n].next = 0 \/ n < nodes[n].next)
  BY <1>1, <1>2 DEF Linked, Forward
<1>7. \A n \in 1 .. N :
         /\ nodes[n].last \in 0 .. N
         /\ nodes[n].child = 0 <=> nodes[n].last = 0
         /\ nodes[n].child # 0 => par[nodes[n].child] = n
         /\ nodes[n].next # 0 => par[nodes[n].next] = par[n]
  BY <1>1, <1>2 DEF Linked
<1>8. \A m \in 2 .. N : par[m] \in 1 .. N /\ (nodes[m].next = 0 => nodes[par[m]].last = m)
  <2> TAKE m \in 2 .. N
  <2>1. par[m] \in 1 .. m - 1 /\ (nodes[m].next = 0 => nodes[par[m]].last = m)
    BY <1>1, <1>2 DEF Linked
  <2> QED
    BY <2>1
<1>9. \A n \in 0 .. N : Len(Chain[n]) \in Nat
  BY <1>5
<1>10. Len(Chain[0]) = 0 /\ \A n \in 1 .. N : Len(Chain[n]) = 1 + Len(Chain[nodes[n].next])
  <2>1. Len(Chain[0]) = 0
    BY <1>5
  <2>2. ASSUME NEW n \in 1 .. N PROVE Len(Chain[n]) = 1 + Len(Chain[nodes[n].next])
    <3>1. PICK c \in Seq(1 .. N) : c = Chain[nodes[n].next]
      BY <1>5, <1>6
    <3>2. Len(<<n>> \o c) = 1 + Len(c)
      OBVIOUS
    <3> QED
      BY <1>5, <3>1, <3>2
  <2> QED
    BY <2>1, <2>2
<1> DEFINE Right(n) == Len(Chain[n]) + rank[n] = nodes[par[n]].length + 1
           P == {n \in 0 .. N : n \in 2 .. N => Right(n)}
<1>11. 0 \in P
  BY <1>1
<1>12. ASSUME NEW n \in 1 .. N, \A m \in n + 1 .. N : m \in P PROVE n \in P
  <2> SUFFICES ASSUME n \in 2 .. N PROVE Right(n)
    BY <1>1
  <2>1. PICK m \in 0 .. N : m = nodes[n].next /\ (m = 0 \/ n < m)
    BY <1>6
  <2>2. par[n] \in 1 .. N
    BY <1>8
  <2>3. CASE m = 0
    <3>1. nodes[par[n]].last = n /\ n # 0
      <4>1. n # 0
        OBVIOUS
      <4>2. nodes[n].next = 0 => nodes[par[n]].last = n
        BY <1>8
      <4> QED
        BY <2>1, <2>3, <4>1, <4>2
    <3>2. nodes[par[n]].length = rank[n]
      BY <1>4, <2>2, <3>1
    <3>3. Len(Chain[n]) = 1
      <4>1. Len(Chain[n]) = 1 + Len(Chain[m])
        BY <1>10, <2>1
      <4> QED
        BY <1>10, <2>3, <4>1
    <3> QED
      BY <3>2, <3>3
  <2>4. CASE m # 0
    <3>1. m \in n + 1 .. N /\ m \in 2 .. N
      BY <2>1, <2>4
    <3>2. Right(m)
      BY <1>12, <3>1
    <3>3. par[m] = par[n] /\ rank[m] = rank[n] + 1
      BY <1>4, <1>7, <2>1, <2>4
    <3>4. Len(Chain[n]) = 1 + Len(Chain[m]) /\ Len(Chain[m]) \in Nat /\ rank[n] \in Nat
      BY <1>9, <1>10, <2>1
    <3>5. Len(Chain[m]) + (rank[n] + 1) = nodes[par[n]].length + 1
      BY <3>2, <3>3
    <3>6. PICK x \in Nat, y \in Nat, z \in Nat :
             x = Len(Chain[m]) /\ y = rank[n] /\ z = nodes[par[n]].length
      <4>1. nodes[par[n]].length \in Nat
        BY <1>1, <2>2, NodeFields DEF TreeInv, TextTyped
      <4> QED
        BY <3>4, <4>1
    <3>7. x + (y + 1) = z + 1
      BY <3>5, <3>6
    <3>8. (1 + x) + y = z + 1
      BY <3>7
    <3> QED
      BY <3>4, <3>6, <3>8
  <2> QED
    BY <2>3, <2>4
<1>13. \A n \in 0 .. N : n \in P
  <2> HIDE DEF P
  <2> QED
    BY <1>11, <1>12, Downwards
<1>14. ASSUME NEW n \in 1 .. N PROVE nodes[n].length = Len(Children(n))
  <2>1. PICK c \in 0 .. N : c = nodes[n].child /\ (c = 0 \/ n < c)
    BY <1>6
  <2>2. Children(n) = Chain[c]
    BY <2>1 DEF Children
  <2>3. CASE c = 0
    <3>1. nodes[n].last = 0
      BY <1>7, <2>1, <2>3, Zenon
    <3>2. nodes[n].length = 0
      BY <1>4, <3>1
    <3> QED
      BY <1>10, <2>2, <2>3, <3>2
  <2>4. CASE c # 0
    <3>1. c \in 2 .. N /\ c \in 0 .. N
      BY <2>1, <2>4
    <3>2. Right(c) /\ par[c] = n /\ rank[c] = 1
      BY <1>4, <1>7, <1>13, <2>1, <2>4, <3>1
    <3>3. Len(Chain[c]) + 1 = nodes[n].length + 1 /\ Len(Chain[c]) \in Nat
      BY <1>9, <3>1, <3>2
    <3>4. nodes[n].length \in Nat
      BY <1>1, NodeFields DEF TreeInv, TextTyped
    <3>5. \A x, y \in Nat : x + 1 = y + 1 => y = x
      OBVIOUS
    <3> QED
      BY <2>2, <3>3, <3>4, <3>5
  <2> QED
    BY <2>3, <2>4
<1> QED
  BY <1>1, <1>14

\* The tokens of a node, and of those behind it.
Words == Tokens \cup NodeTypes

\* What a node stands for is made of words.
LEMMA WordsOf ==
    ASSUME TreeInv, NEW n \in 1 .. Len(nodes)
    PROVE  /\ Prefix(n) \in Seq(Words) /\ <<Opening(n)>> \in Seq(Words)
           /\ Closing(n) \in Seq(Words)
<1>1. nodes[n].type \in NodeTypes /\ nodes[n].key \in Strings \cup {NoKey}
  <2>1. nodes[n] \in NodeSet
    BY DEF TreeInv, TextTyped
  <2> QED
    BY <2>1, NodeFields
<1>2. /\ {"lbrace", "rbrace", "lbracket", "rbracket", "colon"} \subseteq Words
      /\ Strings \subseteq Words /\ NodeTypes \subseteq Words
  BY TokenFacts DEF Words
<1> HIDE DEF Words
<1>3. Opening(n) \in Words
  BY <1>1, <1>2 DEF Opening
<1>4. Closing(n) \in Seq(Words)
  <2>1. Closing(n) \in {<<"rbrace">>, <<"rbracket">>, <<>>}
    BY DEF Closing
  <2>2. "rbrace" \in Words /\ "rbracket" \in Words
    BY <1>2
  <2>3. \A x \in Words : <<x>> \in Seq(Words)
    OBVIOUS
  <2>4. <<>> \in Seq(Words)
    OBVIOUS
  <2>5. <<"rbrace">> \in Seq(Words) /\ <<"rbracket">> \in Seq(Words)
    BY <2>2, <2>3, Zenon
  <2> QED
    BY <2>1, <2>4, <2>5, Zenon
<1>5. Prefix(n) \in Seq(Words)
  <2>1. CASE nodes[n].key = NoKey
    BY <2>1 DEF Prefix
  <2>2. CASE nodes[n].key # NoKey
    <3>1. nodes[n].key \in Words /\ "colon" \in Words
      BY <1>1, <1>2, <2>2
    <3>2. Prefix(n) = <<nodes[n].key, "colon">>
      BY <2>2 DEF Prefix
    <3> QED
      BY <3>1, <3>2
  <2> QED
    BY <2>1, <2>2
<1> QED
  BY <1>3, <1>4, <1>5

\* Render is what its equation says.
LEMMA RenderFound ==
    ASSUME TreeInv
    PROVE  /\ Render[0] = <<>>
           /\ \A n \in 1 .. Len(nodes) :
                 Render[n] = Prefix(n) \o <<Opening(n)>> \o Render[nodes[n].child] \o Closing(n)
                             \o Render[nodes[n].next]
<1> DEFINE N == Len(nodes)
           T == Seq(Words)
           ch == [n \in 1 .. N |-> nodes[n].child]
           nx == [n \in 1 .. N |-> nodes[n].next]
           Put(n, a, b) == Prefix(n) \o <<Opening(n)>> \o a \o Closing(n) \o b
           F == [n \in 1 .. N |-> [p \in T \X T |-> Put(n, p[1], p[2])]]
           e == <<>>
<1>0. Forward /\ N \in Nat
  BY DEF TreeInv, TextTyped, LinkInv, Linked
<1>1. Links(N, ch) /\ Links(N, nx)
  BY <1>0 DEF Forward, Links
<1>2. F \in [1 .. N -> [T \X T -> T]]
  <2>1. ASSUME NEW n \in 1 .. N, NEW a \in T, NEW b \in T PROVE Put(n, a, b) \in T
    <3>1. PICK u \in Seq(Words), v \in Seq(Words), w \in Seq(Words) :
             u = Prefix(n) /\ v = <<Opening(n)>> /\ w = Closing(n)
      BY WordsOf
    <3>2. u \o v \o a \o w \o b \in Seq(Words)
      <4> HIDE DEF Words
      <4>1. u \o v \in Seq(Words)
        BY ConcatProperties
      <4>2. u \o v \o a \in Seq(Words)
        BY <4>1, ConcatProperties
      <4>3. u \o v \o a \o w \in Seq(Words)
        BY <4>2, ConcatProperties
      <4> QED
        BY <4>3, ConcatProperties
    <3> QED
      BY <3>1, <3>2, Zenon
  <2> HIDE DEF Put, T
  <2>2. ASSUME NEW n \in 1 .. N, NEW p \in T \X T PROVE Put(n, p[1], p[2]) \in T
    <3>1. p[1] \in T /\ p[2] \in T
      OBVIOUS
    <3> QED
      BY <2>1, <3>1
  <2> QED
    BY <2>2
<1>3. e \in T
  OBVIOUS
<1> HIDE DEF N, T, ch, nx, F, e, Put
<1>4. PICK W : IsWalk(W, N, T, e, ch, nx, F)
  BY <1>0, <1>1, <1>2, <1>3, WalkExists, Zenon
<1>5. \A n \in 1 .. N : W[n] = Put(n, W[nodes[n].child], W[nodes[n].next])
  <2> TAKE n \in 1 .. N
  <2>1. <<W[ch[n]], W[nx[n]]>> \in T \X T
    BY <1>1, <1>4 DEF IsWalk, Links
  <2>2. F[n][<<W[ch[n]], W[nx[n]]>>] = Put(n, W[ch[n]], W[nx[n]])
    BY <2>1 DEF F
  <2>3. W[n] = Put(n, W[ch[n]], W[nx[n]])
    BY <1>4, <2>2, Zenon DEF IsWalk
  <2>4. ch[n] = nodes[n].child /\ nx[n] = nodes[n].next
    BY DEF ch, nx
  <2> QED
    BY <2>3, <2>4, Zenon
<1>6. W = [n \in 0 .. N |-> IF n = NoNode THEN <<>> ELSE Put(n, W[nodes[n].child], W[nodes[n].next])]
  <2>1. W[0] = <<>> /\ \A n \in 0 .. N : n = 0 \/ n \in 1 .. N
    BY <1>0, <1>4 DEF e, IsWalk
  <2>2. \A n \in 0 .. N : W[n] = IF n = 0 THEN <<>> ELSE Put(n, W[nodes[n].child], W[nodes[n].next])
    BY <1>5, <2>1
  <2> QED
    BY <1>4, <2>2 DEF IsWalk, NoNode
<1>7. Render = [n \in 0 .. N |-> IF n = NoNode THEN <<>>
                                 ELSE Put(n, Render[nodes[n].child], Render[nodes[n].next])]
  BY <1>6, Zenon DEF Render, N, Put
<1> HIDE DEF Render
<1>8. Render[0] = <<>> /\ \A n \in 1 .. N : Render[n] = Put(n, Render[nodes[n].child], Render[nodes[n].next])
  <2> DEFINE G(n) == Put(n, Render[nodes[n].child], Render[nodes[n].next])
  <2>1. \A n \in 0 .. N : Render[n] = IF n = 0 THEN <<>> ELSE G(n)
    BY <1>7, Zenon DEF NoNode
  <2> HIDE DEF G
  <2>2. 0 \in 0 .. N /\ \A n \in 1 .. N : n \in 0 .. N /\ n # 0
    BY <1>0
  <2>3. Render[0] = <<>> /\ \A n \in 1 .. N : Render[n] = G(n)
    BY <2>1, <2>2
  <2> QED
    BY <2>3, Zenon DEF G
<1> QED
  BY <1>8, Zenon DEF N, Put

\* Words of a text as parts of it.
LEMMA TwoWords ==
    ASSUME NEW W, NEW x \in W, NEW y \in W
    PROVE  <<x>> \o <<y>> = <<x, y>>
<1>1. PICK s \in Seq(W) : s = <<x>> /\ Len(s) = 1 /\ s[1] = x
  <2>1. <<x>> \in Seq(W) /\ Len(<<x>>) = 1 /\ <<x>>[1] = x
    OBVIOUS
  <2> QED
    BY <2>1, Zenon
<1>2. PICK t \in Seq(W) : t = <<y>> /\ Len(t) = 1 /\ t[1] = y
  <2>1. <<y>> \in Seq(W) /\ Len(<<y>>) = 1 /\ <<y>>[1] = y
    OBVIOUS
  <2> QED
    BY <2>1, Zenon
<1>3. PICK v \in Seq(W) : v = <<x, y>> /\ Len(v) = 2 /\ v[1] = x /\ v[2] = y
  <2>1. <<x, y>> \in Seq(W) /\ Len(<<x, y>>) = 2 /\ <<x, y>>[1] = x /\ <<x, y>>[2] = y
    OBVIOUS
  <2> QED
    BY <2>1, Zenon
<1>4. PICK u \in Seq(W) : u = s \o t
  BY ConcatProperties
<1>5. Len(u) = 2 /\ u[1] = x /\ u[2] = y
  BY ONLY <1>1, <1>2, <1>4
<1>6. \A k \in 1 .. Len(u) : u[k] = v[k]
  BY <1>3, <1>5
<1>7. u = v
  BY <1>3, <1>5, <1>6, SeqEqual
<1> QED
  BY <1>1, <1>2, <1>3, <1>4, <1>7, Zenon

\* Parts of no word, of one and of two.
LEMMA ShortParts ==
    ASSUME NEW W, NEW s \in Seq(W), NEW a \in 1 .. Len(s)
    PROVE  /\ SubSeq(s, a, a) = <<s[a]>>
           /\ SubSeq(s, a + 1, a) = <<>>
           /\ SubSeq(s, a, a - 1) = <<>>
           /\ a > 2 => SubSeq(s, a - 2, a - 1) = <<s[a - 2], s[a - 1]>>
<1>1. PICK L \in Nat : L = Len(s)
  OBVIOUS
<1>2. a \in 1 .. L /\ a \in Int /\ a + 1 \in Int /\ a - 1 \in Int /\ a < a + 1 /\ a - 1 < a
  BY <1>1
<1>3. SubSeq(s, a + 1, a) = <<>> /\ SubSeq(s, a, a - 1) = <<>>
  BY <1>2, SubSeqEmpty
<1>4. \A d \in 1 .. L : SubSeq(s, d, d) = <<s[d]>>
  <2> TAKE d \in 1 .. L
  <2>1. d \in 1 .. Len(s) /\ d \in d .. Len(s) /\ d \in Int /\ d + 1 \in Int /\ d < d + 1
    BY <1>1
  <2>2. SubSeq(s, d, d) = <<s[d]>> \o SubSeq(s, d + 1, d)
    BY <2>1, SubSeqRecursiveFirst
  <2>3. SubSeq(s, d + 1, d) = <<>>
    BY <2>1, SubSeqEmpty
  <2>4. <<s[d]>> \o <<>> = <<s[d]>>
    OBVIOUS
  <2> QED
    BY <2>2, <2>3, <2>4, Zenon
<1>5. ASSUME a > 2 PROVE SubSeq(s, a - 2, a - 1) = <<s[a - 2], s[a - 1]>>
  <2>1. PICK c \in 1 .. L : c = a - 2 /\ c + 1 = a - 1 /\ c + 1 <= L
    <3>1. a - 2 \in 1 .. L /\ (a - 2) + 1 = a - 1 /\ a - 1 <= L
      BY <1>1, <1>5
    <3> QED
      BY <3>1
  <2>2. SubSeq(s, c, c + 1) = <<s[c], s[c + 1]>>
    <3>1. c \in 1 .. Len(s) /\ c + 1 \in c .. Len(s) /\ c + 1 \in 1 .. L
      BY <1>1, <2>1
    <3>2. SubSeq(s, c, c + 1) = <<s[c]>> \o SubSeq(s, c + 1, c + 1)
      BY <3>1, SubSeqRecursiveFirst
    <3>3. SubSeq(s, c + 1, c + 1) = <<s[c + 1]>>
      BY <1>4, <3>1
    <3>4. <<s[c]>> \o <<s[c + 1]>> = <<s[c], s[c + 1]>>
      <4>1. s[c] \in W /\ s[c + 1] \in W
        BY <1>1, <3>1
      <4> QED
        BY <4>1, TwoWords, Zenon
    <3> QED
      BY <3>2, <3>3, <3>4, Zenon
  <2> QED
    BY <2>1, <2>2
<1> QED
  BY <1>2, <1>3, <1>4, <1>5

\* at[n] and to[n] are where node n begins, after its key, and where it ends,
\* in the text.
From(at, n) == IF nodes[n].key = NoKey THEN at[n] ELSE at[n] - 2
End(at, to, n) == IF nodes[n].last = 0 THEN at[n] ELSE to[nodes[n].last]
IsOpen(n) == \E k \in 1 .. Len(stack) : stack[k] = n

BegunAt(at, n) ==
    /\ at[n] \in 1 .. Len(text) /\ text[at[n]] = Opening(n)
    /\ nodes[n].key # NoKey =>
          at[n] > 2 /\ text[at[n] - 1] = "colon" /\ text[at[n] - 2] = nodes[n].key

Begun(at) == at[1] = 0 /\ \A n \in 2 .. Len(nodes) : BegunAt(at, n)

Followed(at, to) ==
    \A n \in 1 .. Len(nodes) :
       /\ nodes[n].child # 0 => From(at, nodes[n].child) = at[n] + 1
       /\ nodes[n].next # 0 => From(at, nodes[n].next) = to[n] + 1

Ended(at, to) ==
    \A n \in 2 .. Len(nodes) : ~IsOpen(n) =>
       /\ to[n] \in 1 .. Len(text)
       /\ nodes[n].type \in {"object", "array"} =>
             to[n] = End(at, to, n) + 1 /\ <<text[to[n]]>> = Closing(n)
       /\ nodes[n].type \notin {"object", "array"} => to[n] = at[n] /\ nodes[n].child = 0

Spelled(at, to) == Begun(at) /\ Followed(at, to) /\ Ended(at, to)

\* When all is closed, a node and those behind it stand for the text from
\* where it begins to where the last of them ends.
LEMMA SpelledText ==
    ASSUME TreeInv, Len(stack) = 1, NEW at \in [1 .. Len(nodes) -> Nat],
           NEW to \in [1 .. Len(nodes) -> Nat], Spelled(at, to), Len(text) = End(at, to, 1)
    PROVE  Render[json] = text
<1>1. PICK N \in Nat : N = Len(nodes) /\ N # 0
  BY DEF TreeInv, TextTyped
<1>2. PICK T \in Nat : T = Len(text)
  BY DEF TreeInv, TextTyped
<1>3. PICK par \in [1 .. N -> 0 .. N] : par[1] = 0 /\ Linked(par)
  BY <1>1 DEF TreeInv, LinkInv
<1>4. \A n \in 1 .. N :
         /\ nodes[n].child \in 0 .. N /\ (nodes[n].child = 0 \/ n < nodes[n].child)
         /\ nodes[n].next \in 0 .. N /\ (nodes[n].next = 0 \/ n < nodes[n].next)
  BY <1>1, <1>3 DEF Linked, Forward
<1>5. \A n \in 1 .. N :
         /\ nodes[n].last \in 0 .. N
         /\ nodes[n].child = 0 <=> nodes[n].last = 0
         /\ nodes[n].child # 0 => par[nodes[n].child] = n
         /\ nodes[n].next # 0 => par[nodes[n].next] = par[n]
  BY <1>1, <1>3 DEF Linked
<1>6. \A m \in 2 .. N : par[m] \in 1 .. N /\ (nodes[m].next = 0 => nodes[par[m]].last = m)
  <2> TAKE m \in 2 .. N
  <2>1. par[m] \in 1 .. m - 1 /\ (nodes[m].next = 0 => nodes[par[m]].last = m)
    BY <1>1, <1>3 DEF Linked
  <2> QED
    BY <2>1
<1>7. \A n \in 2 .. N : ~IsOpen(n)
  <2> SUFFICES ASSUME NEW n \in 2 .. N, NEW k \in 1 .. 1, stack[k] = n PROVE FALSE
    BY DEF IsOpen
  <2>1. stack[1] = 1 /\ k = 1
    BY RootAlone
  <2> QED
    BY <2>1
<1>8. /\ at[1] = 0
      /\ \A n \in 2 .. N : /\ at[n] \in 1 .. T /\ text[at[n]] = Opening(n)
                           /\ nodes[n].key # NoKey =>
                                 /\ at[n] > 2 /\ text[at[n] - 1] = "colon"
                                 /\ text[at[n] - 2] = nodes[n].key
  BY <1>1, <1>2 DEF Spelled, Begun, BegunAt
<1>9. \A n \in 1 .. N : /\ nodes[n].child # 0 => From(at, nodes[n].child) = at[n] + 1
                        /\ nodes[n].next # 0 => From(at, nodes[n].next) = to[n] + 1
  BY <1>1 DEF Spelled, Followed
<1>10. \A n \in 2 .. N :
          /\ to[n] \in 1 .. T
          /\ nodes[n].type \in {"object", "array"} =>
                to[n] = End(at, to, n) + 1 /\ <<text[to[n]]>> = Closing(n)
          /\ nodes[n].type \notin {"object", "array"} => to[n] = at[n] /\ nodes[n].child = 0
  BY <1>1, <1>2, <1>7 DEF Spelled, Ended
<1>11. \A n \in 2 .. N : From(at, n) \in Nat /\ 1 <= From(at, n) /\ From(at, n) <= at[n]
  <2> TAKE n \in 2 .. N
  <2>1. at[n] \in 1 .. T /\ (nodes[n].key # NoKey => at[n] > 2)
    BY <1>8
  <2>2. CASE nodes[n].key = NoKey
    BY <2>1, <2>2 DEF From
  <2>3. CASE nodes[n].key # NoKey
    BY <2>1, <2>3 DEF From
  <2> QED
    BY <2>2, <2>3
<1>12. text \in Seq(Tokens)
  BY DEF TreeInv, TextTyped
<1> DEFINE Part(u, v) == SubSeq(text, u, v)
<1>p. \A u \in 1 .. T : /\ Part(u, u) = <<text[u]>>
                        /\ Part(u + 1, u) = <<>>
                        /\ Part(u, u - 1) = <<>>
                        /\ u > 2 => Part(u - 2, u - 1) = <<text[u - 2], text[u - 1]>>
  BY <1>2, <1>12, ShortParts
<1>q. \A u \in 1 .. T, v, w \in 0 .. T :
         u <= v + 1 /\ v <= w => Part(u, v) \o Part(v + 1, w) = Part(u, w)
  <2> SUFFICES ASSUME NEW u \in 1 .. T, NEW v \in 0 .. T, NEW w \in 0 .. T, u <= v + 1, v <= w
               PROVE  Part(u, v) \o Part(v + 1, w) = Part(u, w)
    OBVIOUS
  <2>1. u \in 1 .. T + 1 /\ v \in u - 1 .. T /\ w \in v .. T
    OBVIOUS
  <2> QED
    BY <1>2, <1>12, <2>1, ConcatAdjacentSubSeq
<1>f. Part(1, T) = text
  BY <1>2, <1>12, SubSeqFull
<1> HIDE DEF Part
<1> DEFINE e(n) == to[nodes[par[n]].last]
           Right(n) == /\ Render[n] = Part(From(at, n), e(n))
                       /\ at[n] <= to[n] /\ to[n] <= e(n) /\ e(n) \in 1 .. T
           P == {n \in 0 .. N : n \in 2 .. N => Right(n)}
<1>13. 0 \in P
  BY <1>1
<1>r. Render[0] = <<>>
  BY RenderFound
<1>14. ASSUME NEW n \in 1 .. N, \A m \in n + 1 .. N : m \in P PROVE n \in P
  <2> SUFFICES ASSUME n \in 2 .. N PROVE Right(n)
    BY <1>1
  <2>1. PICK c \in 0 .. N : c = nodes[n].child /\ (c = 0 \/ n < c)
    BY <1>4
  <2>2. PICK x \in 0 .. N : x = nodes[n].next /\ (x = 0 \/ n < x)
    BY <1>4
  <2>3. c # 0 => c \in 2 .. N /\ Right(c)
    <3>1. c # 0 => c \in n + 1 .. N /\ c \in 2 .. N
      BY <2>1
    <3> QED
      BY <1>14, <3>1
  <2>4. x # 0 => x \in 2 .. N /\ Right(x)
    <3>1. x # 0 => x \in n + 1 .. N /\ x \in 2 .. N
      BY <2>2
    <3> QED
      BY <1>14, <3>1
  <2>5. PICK f \in Nat, a \in 1 .. T, b \in 1 .. T :
           f = From(at, n) /\ a = at[n] /\ b = to[n] /\ 1 <= f /\ f <= a
    BY <1>8, <1>10, <1>11
  \* The children.
  <2>6. PICK m \in 0 .. T : /\ m = End(at, to, n) /\ a <= m
                            /\ Render[c] = Part(a + 1, m)
    <3>1. CASE c = 0
      <4>1. End(at, to, n) = a
        BY <1>5, <2>1, <2>5, <3>1 DEF End
      <4>2. Part(a + 1, a) = <<>>
        BY <1>p, <2>5
      <4> QED
        BY <1>r, <3>1, <4>1, <4>2
    <3>2. CASE c # 0
      <4>1. End(at, to, n) = to[nodes[n].last] /\ par[c] = n
        BY <1>5, <2>1, <3>2 DEF End
      <4>2. e(c) = End(at, to, n)
        BY <4>1
      <4>3. From(at, c) = a + 1 /\ From(at, c) <= at[c]
        BY <1>9, <1>11, <2>1, <2>3, <2>5, <3>2
      <4>4. Render[c] = Part(a + 1, e(c)) /\ at[c] <= to[c] /\ to[c] <= e(c) /\ e(c) \in 1 .. T
        BY <2>3, <3>2, <4>3
      <4>u. PICK u \in 1 .. T : u = at[c]
        BY <1>8, <2>3, <3>2
      <4>v. PICK v \in 1 .. T : v = to[c]
        BY <1>10, <2>3, <3>2
      <4> HIDE DEF e
      <4>5. PICK w \in 1 .. T : w = e(c)
        BY <4>4
      <4>6. a <= w /\ w \in 0 .. T
        <5>1. a + 1 <= u /\ u <= v /\ v <= w
          BY <4>3, <4>4, <4>5, <4>u, <4>v
        <5> QED
          BY <5>1
      <4> QED
        BY <4>2, <4>4, <4>5, <4>6
    <3> QED
      BY <3>1, <3>2
  \* What closes the node.
  <2>7. m <= b /\ Closing(n) = Part(m + 1, b)
    <3>1. CASE nodes[n].type \in {"object", "array"}
      <4>1. b = m + 1 /\ <<text[b]>> = Closing(n)
        BY <1>10, <2>5, <2>6, <3>1
      <4>2. Part(b, b) = <<text[b]>>
        BY <1>p, <2>5
      <4> QED
        BY <4>1, <4>2
    <3>2. CASE nodes[n].type \notin {"object", "array"}
      <4>1. b = a /\ nodes[n].child = 0
        BY <1>10, <2>5, <3>2
      <4>2. m = a
        BY <1>5, <2>5, <2>6, <4>1 DEF End
      <4>3. Part(a + 1, a) = <<>>
        BY <1>p, <2>5
      <4>4. Closing(n) = <<>>
        BY <3>2 DEF Closing
      <4> QED
        BY <4>1, <4>2, <4>3, <4>4
    <3> QED
      BY <3>1, <3>2
  \* The nodes behind it.
  <2>8. PICK z \in 1 .. T : z = e(n) /\ b <= z /\ Render[x] = Part(b + 1, z)
    <3>1. CASE x = 0
      <4>1. nodes[par[n]].last = n
        <5>1. nodes[n].next = 0 => nodes[par[n]].last = n
          BY <1>6
        <5> QED
          BY <2>2, <3>1, <5>1
      <4>2. Part(b + 1, b) = <<>>
        BY <1>p, <2>5
      <4>3. e(n) = b
        BY <2>5, <4>1
      <4>4. b \in 1 .. T /\ b <= b
        OBVIOUS
      <4>5. Render[x] = Part(b + 1, b)
        BY <1>r, <3>1, <4>2, Zenon
      <4> HIDE DEF e
      <4> QED
        BY <4>3, <4>4, <4>5, Zenon
    <3>2. CASE x # 0
      <4>1. e(x) = e(n)
        BY <1>5, <2>2, <3>2
      <4>2. From(at, x) = b + 1 /\ From(at, x) <= at[x]
        BY <1>9, <1>11, <2>2, <2>4, <2>5, <3>2
      <4>3. Render[x] = Part(b + 1, e(x)) /\ at[x] <= to[x] /\ to[x] <= e(x) /\ e(x) \in 1 .. T
        BY <2>4, <3>2, <4>2
      <4>u. PICK u \in 1 .. T : u = at[x]
        BY <1>8, <2>4, <3>2
      <4>v. PICK v \in 1 .. T : v = to[x]
        BY <1>10, <2>4, <3>2
      <4> HIDE DEF e
      <4>4. PICK w \in 1 .. T : w = e(x)
        BY <4>3
      <4>5. b <= w
        <5>1. b + 1 <= u /\ u <= v /\ v <= w
          BY <4>2, <4>3, <4>4, <4>u, <4>v
        <5> QED
          BY <5>1
      <4> QED
        BY <4>1, <4>3, <4>4, <4>5
    <3> QED
      BY <3>1, <3>2
  \* The key and what opens it.
  <2>9. Prefix(n) = Part(f, a - 1)
    <3>1. CASE nodes[n].key = NoKey
      <4>1. f = a /\ Prefix(n) = <<>>
        BY <2>5, <3>1 DEF From, Prefix
      <4>2. Part(a, a - 1) = <<>>
        BY <1>p, <2>5
      <4> QED
        BY <4>1, <4>2
    <3>2. CASE nodes[n].key # NoKey
      <4>1. f = a - 2 /\ Prefix(n) = <<nodes[n].key, "colon">>
        BY <2>5, <3>2 DEF From, Prefix
      <4>2. a > 2 /\ text[a - 1] = "colon" /\ text[a - 2] = nodes[n].key
        BY <1>8, <2>5, <3>2
      <4>3. Part(a - 2, a - 1) = <<text[a - 2], text[a - 1]>>
        BY <1>p, <2>5, <4>2
      <4> QED
        BY <4>1, <4>2, <4>3
    <3> QED
      BY <3>1, <3>2
  <2>10. <<Opening(n)>> = Part(a, a)
    <3>1. Part(a, a) = <<text[a]>>
      BY <1>p, <2>5
    <3> QED
      BY <1>8, <2>5, <3>1
  <2>11. Render[n] = Prefix(n) \o <<Opening(n)>> \o Render[c] \o Closing(n) \o Render[x]
    BY <1>1, <2>1, <2>2, RenderFound
  <2>12. Part(f, a - 1) \o Part(a, a) \o Part(a + 1, m)
         \o Part(m + 1, b) \o Part(b + 1, z) = Part(f, z)
    <3>f. 1 <= f /\ f <= a
      BY <2>5, Zenon
    <3>m. a <= m /\ m <= b
      BY <2>6, <2>7, Zenon
    <3>z. b <= z
      BY <2>8, Zenon
    <3> HIDE DEF e
    <3>1. PICK d \in 0 .. T : d = a - 1 /\ d + 1 = a
      <4>1. a - 1 \in 0 .. T /\ (a - 1) + 1 = a
        OBVIOUS
      <4> QED
        BY <4>1
    <3>0. f \in 1 .. T
      BY <3>f
    <3>2. Part(f, d) \o Part(d + 1, a) = Part(f, a)
      <4>1. f <= d + 1 /\ d <= a /\ a \in 0 .. T
        BY <3>f, <3>1
      <4> QED
        BY <1>q, <3>0, <4>1
    <3>3. Part(f, a) \o Part(a + 1, m) = Part(f, m)
      <4>1. f <= a + 1 /\ a <= m /\ a \in 0 .. T
        BY <3>f, <3>m
      <4> QED
        BY <1>q, <3>0, <4>1
    <3>4. Part(f, m) \o Part(m + 1, b) = Part(f, b)
      <4>1. f <= m + 1 /\ m <= b /\ b \in 0 .. T
        BY <3>f, <3>m
      <4> QED
        BY <1>q, <3>0, <4>1
    <3>5. Part(f, b) \o Part(b + 1, z) = Part(f, z)
      <4>1. f <= b + 1 /\ b <= z /\ b \in 0 .. T /\ z \in 0 .. T
        BY <3>f, <3>m, <3>z
      <4> QED
        BY <1>q, <3>0, <4>1
    <3>6. Part(f, a - 1) \o Part(a, a) = Part(f, a)
      BY <3>1, <3>2
    <3> QED
      BY <3>3, <3>4, <3>5, <3>6, Zenon
  <2>13. Render[n] = Part(f, z)
    BY <2>6, <2>7, <2>8, <2>9, <2>10, <2>11, <2>12, Zenon
  <2>14. at[n] <= to[n]
    <3>1. a <= m /\ m <= b
      BY <2>6, <2>7, Zenon
    <3>2. a <= b
      BY <3>1
    <3> QED
      BY <2>5, <3>2, Zenon
  <2> QED
    BY <2>5, <2>8, <2>13, <2>14
<1>15. \A n \in 0 .. N : n \in P
  <2> HIDE DEF P
  <2> QED
    BY <1>13, <1>14, Downwards
<1>16. PICK c \in 0 .. N : c = json /\ (c = 0 \/ 1 < c)
  BY <1>1, <1>4 DEF json
<1>17. CASE c = 0
  <2>1. T = 0
    <3>1. nodes[1].last = 0
      <4>1. 1 \in 1 .. N /\ nodes[1].child = 0
        BY <1>1, <1>16, <1>17 DEF json
      <4>2. nodes[1].child = 0 <=> nodes[1].last = 0
        BY <1>5, <4>1
      <4> QED
        BY <4>1, <4>2
    <3> QED
      BY <1>2, <1>8, <3>1 DEF End
  <2>2. text = <<>>
    BY <1>2, <1>12, <2>1, EmptySeq
  <2> QED
    BY <1>r, <1>16, <1>17, <2>2
<1>18. CASE c # 0
  <2>1. c \in 2 .. N /\ par[c] = 1 /\ nodes[1].last # 0
    BY <1>1, <1>5, <1>16, <1>18 DEF json
  <2>2. Render[c] = Part(From(at, c), to[nodes[1].last])
    BY <1>15, <2>1
  <2>3. From(at, c) = 1
    BY <1>1, <1>8, <1>9, <1>16, <1>18 DEF json
  <2>4. to[nodes[1].last] = Len(text)
    BY <2>1 DEF End
  <2> QED
    BY <1>2, <1>16, <1>f, <2>2, <2>3, <2>4
<1> QED
  BY <1>17, <1>18

\* Where the children of a node end is a place.
LEMMA EndNat ==
    ASSUME TreeInv, NEW at \in [1 .. Len(nodes) -> Nat], NEW to \in [1 .. Len(nodes) -> Nat],
           NEW n \in 1 .. Len(nodes)
    PROVE  End(at, to, n) \in Nat
<1>1. PICK N \in Nat : N = Len(nodes)
  BY DEF TreeInv, TextTyped
<1>2. nodes[n].last \in 0 .. N
  BY <1>1 DEF TreeInv, LinkInv, Linked
<1>3. \A x \in 0 .. N : x # 0 => x \in 1 .. N
  OBVIOUS
<1>4. nodes[n].last # 0 => to[nodes[n].last] \in Nat
  BY <1>1, <1>2, <1>3
<1>5. at[n] \in Nat
  OBVIOUS
<1> QED
  BY <1>4, <1>5 DEF End

\* What is read of a key and its colon, after the last node that is complete.
Pending == IF key = NoKey THEN 0 ELSE IF pc \in {"keystring", "colon"} THEN 1 ELSE 2

Awaited(at, to) ==
    /\ Len(text) = End(at, to, stack[1]) + Pending
    /\ Pending = 1 => text[Len(text)] = key
    /\ Pending = 2 => text[Len(text) - 1] = key /\ text[Len(text)] = "colon"

OddColon == \E k \in 1 .. Len(text) - 1 : text[k] = "colon" /\ text[k + 1] = "rbrace"

Told == \E at, to \in [1 .. Len(nodes) -> Nat] : Spelled(at, to) /\ Awaited(at, to)

\* While the text is read, all of it is in the nodes.
SpellInv ==
    pc \in Parsing \cup {"parsed"} =>
       \/ OddColon
       \/ pc = "parsed" /\ text = <<"rbracket">>
       \/ Told

\* What was read stays read.
Kept == /\ Len(text) \in Nat /\ Len(text') \in Nat /\ Len(text) <= Len(text')
        /\ \A k \in 1 .. Len(text) : text'[k] = text[k]

\* A token is read.
LEMMA Grown ==
    ASSUME TreeInv, NEW t, text' = Append(text, t)
    PROVE  /\ Kept /\ Len(text) \in Nat /\ Len(text') = Len(text) + 1
           /\ text'[Len(text) + 1] = t
<1>1. text \in Seq(Tokens) /\ Len(text) \in Nat
  BY DEF TreeInv, TextTyped
<1>2. /\ Len(text') = Len(text) + 1 /\ text'[Len(text) + 1] = t
      /\ \A k \in 1 .. Len(text) : text'[k] = text[k]
  BY <1>1
<1> QED
  BY <1>1, <1>2 DEF Kept

\* A text that is odd stays so.
LEMMA StillOdd ==
    ASSUME OddColon, Kept
    PROVE  OddColon'
<1>1. PICK T \in Nat, U \in Nat : T = Len(text) /\ U = Len(text') /\ T <= U
  BY DEF Kept
<1>2. PICK k \in 1 .. T - 1 : text[k] = "colon" /\ text[k + 1] = "rbrace"
  BY <1>1 DEF OddColon
<1>3. k \in 1 .. T /\ k + 1 \in 1 .. T /\ k \in 1 .. U - 1
  BY <1>1
<1>4. text'[k] = text[k] /\ text'[k + 1] = text[k + 1]
  BY <1>1, <1>3 DEF Kept
<1> QED
  BY <1>1, <1>2, <1>3, <1>4 DEF OddColon

\* A node of before begins where it began.
LEMMA StillBegun ==
    ASSUME Kept, NEW at, NEW q, NEW N \in Nat, N = Len(nodes), Begun(at), NEW n \in 2 .. N,
           nodes'[n].type = nodes[n].type, nodes'[n].key = nodes[n].key, q[n] = at[n]
    PROVE  BegunAt(q, n)'
<1>1. PICK T \in Nat, U \in Nat : T = Len(text) /\ U = Len(text') /\ T <= U
  BY DEF Kept
<1>2. PICK a \in 1 .. T : a = at[n] /\ text[a] = Opening(n)
  BY <1>1 DEF Begun, BegunAt
<1>3. nodes[n].key # NoKey => a > 2 /\ text[a - 1] = "colon" /\ text[a - 2] = nodes[n].key
  BY <1>2 DEF Begun, BegunAt
<1>4. \A k \in 1 .. T : text'[k] = text[k]
  BY <1>1 DEF Kept
<1>5. Opening(n)' = Opening(n)
  BY DEF Opening
<1>6. a \in 1 .. U /\ (a > 2 => a - 1 \in 1 .. T /\ a - 2 \in 1 .. T)
  BY <1>1
<1> QED
  BY <1>1, <1>2, <1>3, <1>4, <1>5, <1>6 DEF BegunAt

\* More text changes nothing about the nodes.
LEMMA StillSpelled ==
    ASSUME TreeInv, Kept, nodes' = nodes, stack' = stack, NEW at, NEW to, Spelled(at, to)
    PROVE  Spelled(at, to)'
<1>1. PICK N \in Nat : N = Len(nodes)
  BY DEF TreeInv, TextTyped
<1>2. Begun(at) /\ Followed(at, to) /\ Ended(at, to)
  BY DEF Spelled
<1>3. Begun(at)'
  <2>1. at[1] = 0
    BY <1>2 DEF Begun
  <2>2. \A n \in 2 .. N : BegunAt(at, n)'
    BY <1>1, <1>2, StillBegun
  <2> QED
    BY <1>1, <2>1, <2>2 DEF Begun
<1>4. Followed(at, to)'
  BY <1>2 DEF Followed, From
<1>5. Ended(at, to)'
  <2> SUFFICES ASSUME NEW n \in 2 .. N, ~IsOpen(n)
               PROVE  /\ to[n] \in 1 .. Len(text')
                      /\ nodes[n].type \in {"object", "array"} =>
                            to[n] = End(at, to, n) + 1 /\ <<text'[to[n]]>> = Closing(n)
                      /\ nodes[n].type \notin {"object", "array"} => to[n] = at[n] /\ nodes[n].child = 0
    BY <1>1 DEF Ended, IsOpen, End, Closing
  <2>1. PICK T \in Nat, U \in Nat : T = Len(text) /\ U = Len(text') /\ T <= U
    BY DEF Kept
  <2>2. PICK b \in 1 .. T : b = to[n]
    BY <1>1, <1>2, <2>1 DEF Ended
  <2>3. text'[b] = text[b] /\ b \in 1 .. U
    BY <2>1 DEF Kept
  <2> QED
    BY <1>1, <1>2, <2>1, <2>2, <2>3 DEF Ended
<1> QED
  BY <1>3, <1>4, <1>5 DEF Spelled

\* A new node begins where the text ends, and ends there too unless it is
\* open.
LEMMA SpellMade ==
    ASSUME TreeInv, AtValue, NEW at \in [1 .. Len(nodes) -> Nat], NEW to \in [1 .. Len(nodes) -> Nat],
           Spelled(at, to), Awaited(at, to), NEW type, NEW t, Made(type, key),
           text' = Append(text, t), key' = NoKey,
           t = IF type = "object" THEN "lbrace" ELSE IF type = "array" THEN "lbracket" ELSE type,
           \/ type \in {"object", "array"} /\ stack' = <<Len(nodes) + 1>> \o stack
           \/ type \notin {"object", "array"} /\ stack' = stack
    PROVE  \E q, r \in [1 .. Len(nodes') -> Nat] : Spelled(q, r)' /\ Awaited(q, r)'
<1>1. PICK N \in Nat : N = Len(nodes) /\ N # 0
  BY DEF TreeInv, TextTyped
<1>a. at \in [1 .. N -> Nat] /\ to \in [1 .. N -> Nat]
  BY <1>1
<1>g. \A x \in 0 .. N : x # 0 => x \in 1 .. N
  OBVIOUS
<1>2. PICK p \in 1 .. N : p = Head(stack) /\ p = stack[1]
  BY <1>1, RootAlone
<1>3. PICK par \in [1 .. N -> 0 .. N] : par[1] = 0 /\ Linked(par)
  BY <1>1 DEF TreeInv, LinkInv
<1>4. PICK l \in 0 .. N : l = nodes[p].last
  BY <1>1, <1>3 DEF Linked
<1>5. PICK T \in Nat : T = Len(text) /\ Len(text') = T + 1 /\ text'[T + 1] = t /\ Kept
  BY Grown
<1>6. PICK L \in Nat : L = End(at, to, p) /\ L = IF l = 0 THEN at[p] ELSE to[l]
  <2>1. End(at, to, p) = IF l = 0 THEN at[p] ELSE to[l]
    BY <1>4 DEF End
  <2>2. at[p] \in Nat /\ (l # 0 => to[l] \in Nat)
    BY <1>a, <1>g
  <2> QED
    BY <2>1, <2>2
<1>7. PICK d \in {0, 2} : /\ T = L + d /\ d = IF key = NoKey THEN 0 ELSE 2
                          /\ d = 2 => text[T - 1] = key /\ text[T] = "colon"
  <2>1. PICK d \in {0, 2} : d = Pending /\ d = IF key = NoKey THEN 0 ELSE 2
    BY DEF Pending, AtValue
  <2>2. T = L + d
    BY <1>2, <1>5, <1>6, <2>1 DEF Awaited
  <2>3. d = 2 => text[T - 1] = key /\ text[T] = "colon"
    BY <1>5, <2>1 DEF Awaited
  <2> QED
    BY <2>1, <2>2, <2>3
<1>8. PICK q \in [1 .. N + 1 -> Nat] : q[N + 1] = T + 1 /\ \A m \in 1 .. N : q[m] = at[m]
  <2> DEFINE q == [m \in 1 .. N + 1 |-> IF m = N + 1 THEN T + 1 ELSE at[m]]
  <2>0. \A m \in 1 .. N + 1 : m # N + 1 => m \in 1 .. N
    OBVIOUS
  <2>1. \A m \in 1 .. N + 1 : q[m] \in Nat
    BY <1>a, <2>0
  <2>2. q \in [1 .. N + 1 -> Nat] /\ q[N + 1] = T + 1 /\ \A m \in 1 .. N : q[m] = at[m]
    BY <2>1
  <2> QED
    BY <2>2, Zenon
<1>9. PICK r \in [1 .. N + 1 -> Nat] : r[N + 1] = T + 1 /\ \A m \in 1 .. N : r[m] = to[m]
  <2> DEFINE r == [m \in 1 .. N + 1 |-> IF m = N + 1 THEN T + 1 ELSE to[m]]
  <2>0. \A m \in 1 .. N + 1 : m # N + 1 => m \in 1 .. N
    OBVIOUS
  <2>1. \A m \in 1 .. N + 1 : r[m] \in Nat
    BY <1>a, <2>0
  <2>2. r \in [1 .. N + 1 -> Nat] /\ r[N + 1] = T + 1 /\ \A m \in 1 .. N : r[m] = to[m]
    BY <2>1
  <2> QED
    BY <2>2, Zenon
<1>10. /\ Len(nodes') = N + 1
       /\ nodes'[N + 1].child = 0 /\ nodes'[N + 1].last = 0 /\ nodes'[N + 1].next = 0
       /\ nodes'[N + 1].type = type /\ nodes'[N + 1].key = key
  BY <1>1 DEF Made, Node, NoNode
<1>c. \A m \in 1 .. N : nodes'[m].child = IF m = p /\ l = 0 THEN N + 1 ELSE nodes[m].child
  BY <1>1, <1>2, <1>4 DEF Made
<1>l. \A m \in 1 .. N : nodes'[m].last = IF m = p THEN N + 1 ELSE nodes[m].last
  BY <1>1, <1>2 DEF Made
<1>n. \A m \in 1 .. N : nodes'[m].next = IF m = l THEN N + 1 ELSE nodes[m].next
  BY <1>1, <1>2, <1>4 DEF Made
<1>k. \A m \in 1 .. N : nodes'[m].type = nodes[m].type /\ nodes'[m].key = nodes[m].key
  BY <1>1 DEF Made
<1>11. \A n \in 1 .. N : nodes[n].child \in 0 .. N /\ nodes[n].next \in 0 .. N /\ nodes[n].last \in 0 .. N
  BY <1>1, <1>3 DEF Linked, Forward
<1>12. \A n \in 1 .. N + 1 : n \in 1 .. N \/ n = N + 1
  OBVIOUS
<1>13. \A n \in 2 .. N + 1 : n \in 2 .. N \/ n = N + 1
  OBVIOUS
<1>14. Begun(at) /\ Followed(at, to) /\ Ended(at, to)
  BY DEF Spelled
\* Where things begin.
<1>15. Begun(q)'
  <2>1. q[1] = 0
    <3>1. 1 \in 1 .. N
      BY <1>1
    <3> QED
      BY <1>8, <1>14, <3>1 DEF Begun
  <2>2. ASSUME NEW n \in 2 .. N PROVE BegunAt(q, n)'
    <3>0. n \in 1 .. N
      OBVIOUS
    <3>1. q[n] = at[n] /\ nodes'[n].type = nodes[n].type /\ nodes'[n].key = nodes[n].key
      BY <1>8, <1>k, <3>0
    <3>2. N = Len(nodes) /\ Kept /\ Begun(at)
      BY <1>1, <1>5, <1>14, Zenon
    <3> QED
      BY <3>1, <3>2, StillBegun, Zenon
  <2>3. q[N + 1] \in 1 .. Len(text') /\ text'[q[N + 1]] = Opening(N + 1)'
    <3>1. Opening(N + 1)' = t
      BY <1>10 DEF Opening
    <3> QED
      BY <1>5, <1>8, <3>1
  <2>4. nodes'[N + 1].key # NoKey =>
           /\ q[N + 1] > 2 /\ text'[q[N + 1] - 1] = "colon"
           /\ text'[q[N + 1] - 2] = nodes'[N + 1].key
    <3> SUFFICES ASSUME key # NoKey
                 PROVE  T + 1 > 2 /\ text'[(T + 1) - 1] = "colon" /\ text'[(T + 1) - 2] = key
      BY <1>8, <1>10
    <3>1. d = 2 /\ T = L + 2
      BY <1>7
    <3>2. T + 1 > 2 /\ (T + 1) - 1 = T /\ (T + 1) - 2 = T - 1 /\ T \in 1 .. T /\ T - 1 \in 1 .. T
      BY <3>1
    <3>3. text'[T] = text[T] /\ text'[T - 1] = text[T - 1]
      BY <1>5, <3>2 DEF Kept
    <3> QED
      BY <1>7, <3>1, <3>2, <3>3
  <2>5. BegunAt(q, N + 1)'
    BY <2>3, <2>4 DEF BegunAt
  <2> QED
    BY <1>10, <1>13, <2>1, <2>2, <2>5 DEF Begun
\* What follows what.
<1>16. ASSUME NEW m \in 1 .. N PROVE From(q, m)' = From(at, m)
  BY <1>8, <1>k DEF From
<1>17. From(q, N + 1)' = L + 1
  <2>1. From(q, N + 1)' = IF key = NoKey THEN T + 1 ELSE (T + 1) - 2
    BY <1>8, <1>10 DEF From
  <2>2. CASE key = NoKey
    BY <1>7, <2>1, <2>2
  <2>3. CASE key # NoKey
    <3>1. T = L + 2
      BY <1>7, <2>3
    <3> QED
      BY <2>1, <2>3, <3>1
  <2> QED
    BY <2>2, <2>3
<1>18. Followed(q, r)'
  <2>0. \A n \in 1 .. N : /\ nodes[n].child # 0 => From(at, nodes[n].child) = at[n] + 1
                          /\ nodes[n].next # 0 => From(at, nodes[n].next) = to[n] + 1
    BY <1>1, <1>14 DEF Followed
  <2>q. PICK g : /\ g[N + 1] = L + 1 /\ \A m \in 1 .. N : g[m] = From(at, m)
                 /\ \A m \in 1 .. N + 1 : g[m] = From(q, m)'
    <3> DEFINE g == [m \in 1 .. N + 1 |-> From(q, m)']
    <3>1. N + 1 \in 1 .. N + 1 /\ \A m \in 1 .. N : m \in 1 .. N + 1
      OBVIOUS
    <3>2. \A m \in 1 .. N + 1 : g[m] = From(q, m)'
      BY Zenon
    <3> HIDE DEF g
    <3>3. g[N + 1] = L + 1
      BY <1>17, <3>1, <3>2
    <3>4. \A m \in 1 .. N : g[m] = From(at, m)
      BY <1>16, <3>1, <3>2
    <3> QED
      BY <3>2, <3>3, <3>4, Zenon
  <2>1. ASSUME NEW n \in 1 .. N
        PROVE  /\ nodes'[n].child # 0 => g[nodes'[n].child] = q[n] + 1
               /\ nodes'[n].next # 0 => g[nodes'[n].next] = r[n] + 1
    <3>1. nodes'[n].child # 0 => g[nodes'[n].child] = q[n] + 1
      <4>1. CASE n = p /\ l = 0
        <5>1. nodes'[n].child = N + 1 /\ q[n] = at[p] /\ L = at[p]
          BY <1>c, <1>6, <1>8, <4>1
        <5> QED
          BY <2>q, <5>1
      <4>2. CASE ~(n = p /\ l = 0)
        <5>1. nodes'[n].child = nodes[n].child /\ q[n] = at[n]
          BY <1>c, <1>8, <4>2
        <5>2. nodes[n].child # 0 => nodes[n].child \in 1 .. N
          BY <1>g, <1>11
        <5> QED
          BY <2>0, <2>q, <5>1, <5>2
      <4> QED
        BY <4>1, <4>2
    <3>2. nodes'[n].next # 0 => g[nodes'[n].next] = r[n] + 1
      <4>1. CASE n = l
        <5>0. l # 0
          BY <4>1
        <5>1. nodes'[n].next = N + 1 /\ r[n] = to[l] /\ L = to[l]
          BY <1>n, <1>6, <1>9, <4>1, <5>0
        <5> QED
          BY <2>q, <5>1
      <4>2. CASE n # l
        <5>1. nodes'[n].next = nodes[n].next /\ r[n] = to[n]
          BY <1>n, <1>9, <4>2
        <5>2. nodes[n].next # 0 => nodes[n].next \in 1 .. N
          BY <1>g, <1>11
        <5> QED
          BY <2>0, <2>q, <5>1, <5>2
      <4> QED
        BY <4>1, <4>2
    <3> QED
      BY <3>1, <3>2
  <2>2. \A n \in 1 .. N : /\ nodes'[n].child # 0 => nodes'[n].child \in 1 .. N + 1
                          /\ nodes'[n].next # 0 => nodes'[n].next \in 1 .. N + 1
    <3> TAKE n \in 1 .. N
    <3>1. nodes[n].child \in 0 .. N /\ nodes[n].next \in 0 .. N
      BY <1>11
    <3>2. nodes'[n].child \in {N + 1, nodes[n].child} /\ nodes'[n].next \in {N + 1, nodes[n].next}
      BY <1>c, <1>n
    <3>3. \A x \in 0 .. N : x # 0 => x \in 1 .. N + 1
      OBVIOUS
    <3>4. N + 1 \in 1 .. N + 1
      OBVIOUS
    <3> QED
      BY <3>1, <3>2, <3>3, <3>4, Zenon
  <2>3. \A n \in 1 .. N : /\ nodes'[n].child # 0 => From(q, nodes[n].child)' = q[n] + 1
                          /\ nodes'[n].next # 0 => From(q, nodes[n].next)' = r[n] + 1
    BY <2>q, <2>1, <2>2
  <2> QED
    BY <1>10, <1>12, <2>3 DEF Followed
\* What is closed.
<1>19. ASSUME NEW n \in 1 .. N, IsOpen(n) PROVE IsOpen(n)'
  <2>1. PICK k \in 1 .. Len(stack) : stack[k] = n
    BY <1>19 DEF IsOpen
  <2>2. CASE stack' = stack
    BY <2>1, <2>2 DEF IsOpen
  <2>3. CASE stack' = <<Len(nodes) + 1>> \o stack
    <3>1. stack \in Seq(Nat) /\ Len(nodes) + 1 \in Nat /\ Len(stack) \in Nat
      BY <1>1 DEF TreeInv, TextTyped
    <3>2. Len(stack') = Len(stack) + 1 /\ stack'[k + 1] = stack[k]
      BY <2>3, <3>1, Pushed
    <3>3. k + 1 \in 1 .. Len(stack')
      BY <3>1, <3>2
    <3> QED
      BY <2>1, <3>2, <3>3 DEF IsOpen
  <2> QED
    BY <2>2, <2>3
<1>20. type \in {"object", "array"} => stack'[1] = N + 1 /\ IsOpen(N + 1)'
  <2> SUFFICES ASSUME type \in {"object", "array"} PROVE stack'[1] = N + 1 /\ IsOpen(N + 1)'
    OBVIOUS
  <2>1. stack \in Seq(Nat) /\ Len(nodes) + 1 \in Nat /\ Len(stack) \in Nat
    BY <1>1 DEF TreeInv, TextTyped
  <2>2. Len(stack') = Len(stack) + 1 /\ stack'[1] = N + 1
    BY <1>1, <2>1, Pushed
  <2>3. 1 \in 1 .. Len(stack')
    BY <2>1, <2>2
  <2> QED
    BY <2>2, <2>3 DEF IsOpen
<1>21. IsOpen(p)
  <2>1. 1 \in 1 .. Len(stack)
    BY RootAlone
  <2> QED
    BY <1>2, <2>1 DEF IsOpen
<1>22. ASSUME NEW n \in 2 .. N, ~IsOpen(n)'
       PROVE  /\ r[n] \in 1 .. T + 1
              /\ nodes'[n].type \in {"object", "array"} =>
                    r[n] = End(q, r, n)' + 1 /\ <<text'[r[n]]>> = Closing(n)'
              /\ nodes'[n].type \notin {"object", "array"} => r[n] = q[n] /\ nodes'[n].child = 0
  <2>1. ~IsOpen(n) /\ n # p /\ n \in 1 .. N
    BY <1>19, <1>21, <1>22
  <2>2. /\ to[n] \in 1 .. T
        /\ nodes[n].type \in {"object", "array"} =>
              to[n] = End(at, to, n) + 1 /\ <<text[to[n]]>> = Closing(n)
        /\ nodes[n].type \notin {"object", "array"} => to[n] = at[n] /\ nodes[n].child = 0
    BY <1>1, <1>5, <1>14, <2>1 DEF Ended
  <2>3. PICK b \in 1 .. T : b = to[n] /\ b = r[n] /\ text'[b] = text[b] /\ b \in 1 .. T + 1
    <3>1. PICK b \in 1 .. T : b = to[n]
      BY <2>2
    <3>2. text'[b] = text[b] /\ b \in 1 .. T + 1
      BY <1>5 DEF Kept
    <3>3. b = r[n]
      BY <1>9, <2>1, <3>1
    <3> QED
      BY <3>1, <3>2, <3>3
  <2>4. /\ nodes'[n].last = nodes[n].last /\ nodes'[n].child = nodes[n].child
        /\ nodes'[n].type = nodes[n].type /\ q[n] = at[n]
    BY <1>c, <1>l, <1>k, <1>8, <2>1
  <2>5. nodes[n].last # 0 => nodes[n].last \in 1 .. N /\ r[nodes[n].last] = to[nodes[n].last]
    <3>1. nodes[n].last \in 0 .. N
      BY <1>11, <2>1
    <3>2. nodes[n].last # 0 => nodes[n].last \in 1 .. N
      BY <1>g, <3>1, Zenon
    <3> QED
      BY <1>9, <3>2
  <2>6. End(q, r, n)' = End(at, to, n)
    BY <2>4, <2>5 DEF End
  <2>7. Closing(n)' = Closing(n)
    BY <2>4 DEF Closing
  <2> QED
    BY <2>2, <2>3, <2>4, <2>6, <2>7
<1>23. Ended(q, r)'
  <2>1. ASSUME ~IsOpen(N + 1)'
        PROVE  /\ r[N + 1] \in 1 .. T + 1 /\ nodes'[N + 1].type \notin {"object", "array"}
               /\ r[N + 1] = q[N + 1] /\ nodes'[N + 1].child = 0
    BY <1>8, <1>9, <1>10, <1>20, <2>1
  <2> QED
    BY <1>5, <1>10, <1>13, <1>22, <2>1 DEF Ended
<1>24. Awaited(q, r)'
  <2>1. Pending' = 0
    BY DEF Pending
  <2>2. End(q, r, stack[1])' = T + 1
    <3>1. CASE type \in {"object", "array"}
      BY <1>8, <1>10, <1>20, <3>1 DEF End
    <3>2. CASE type \notin {"object", "array"}
      <4>0. N + 1 # 0
        OBVIOUS
      <4>1. stack'[1] = p /\ nodes'[p].last = N + 1 /\ N + 1 # 0
        BY <1>2, <1>l, <3>2, <4>0
      <4> QED
        BY <1>9, <4>1 DEF End
    <3> QED
      BY <3>1, <3>2
  <2> QED
    BY <1>5, <2>1, <2>2 DEF Awaited
<1> QED
  BY <1>8, <1>9, <1>10, <1>15, <1>18, <1>23, <1>24 DEF Spelled

\* The innermost open node ends where the text ends.
LEMMA SpellClosed ==
    ASSUME TreeInv, NEW at \in [1 .. Len(nodes) -> Nat], NEW to \in [1 .. Len(nodes) -> Nat],
           Spelled(at, to), Awaited(at, to), Len(stack) > 1, NEW t,
           text' = Append(text, t), <<t>> = Closing(stack[1]), key = NoKey, key' = NoKey,
           stack' = Tail(stack), nodes' = nodes
    PROVE  \E q, r \in [1 .. Len(nodes') -> Nat] : Spelled(q, r)' /\ Awaited(q, r)'
<1>1. PICK N \in Nat : N = Len(nodes) /\ N # 0
  BY DEF TreeInv, TextTyped
<1>a. at \in [1 .. N -> Nat] /\ to \in [1 .. N -> Nat]
  BY <1>1
<1>2. PICK K \in Nat : K = Len(stack) /\ K > 1
  BY RootAlone
<1>3. /\ Len(stack') = K - 1 /\ \A k \in 1 .. K - 1 : stack'[k] = stack[k + 1]
  BY <1>2, Popped
<1>4. PICK s \in 2 .. N, o \in 1 .. N : /\ s = stack[1] /\ o = stack[2] /\ o = stack'[1]
                                        /\ nodes[o].last = s
                                        /\ nodes[s].type \in {"object", "array"}
  <2>0. 1 \in 1 .. K - 1 /\ 2 \in 1 .. K /\ 1 \in 1 .. K /\ 1 + 1 = 2
    BY <1>2
  <2>1. stack[1] \in 1 .. N /\ stack[2] \in 1 .. N /\ stack[1] # 1
    <3>1. stack[1] \in 1 .. N /\ stack[2] \in 1 .. N
      BY <1>1, <1>2, <2>0 DEF TreeInv, Nested
    <3>2. Len(stack) # 1
      <4>1. \A x \in Nat : x > 1 => x # 1
        OBVIOUS
      <4> QED
        BY <1>2, <4>1
    <3> QED
      BY <3>1, <3>2, RootAlone
  <2>2. nodes[stack[1 + 1]].last = stack[1] /\ nodes[stack[1]].type \in {"object", "array"}
    BY <1>2, <2>0 DEF TreeInv, Nested
  <2>3. stack'[1] = stack[1 + 1]
    BY <1>3, <2>0
  <2>4. stack[1] \in 2 .. N
    BY <2>1
  <2> QED
    BY <2>0, <2>1, <2>2, <2>3, <2>4
<1>5. PICK par \in [1 .. N -> 0 .. N] : par[1] = 0 /\ Linked(par)
  BY <1>1 DEF TreeInv, LinkInv
<1>6. nodes[s].next = 0 /\ par[s] = o /\ s # 0 /\ s \in 1 .. N
  <2>1. nodes[o].last # 0 => par[nodes[o].last] = o /\ nodes[nodes[o].last].next = 0
    BY <1>1, <1>5 DEF Linked
  <2>2. s # 0 /\ s \in 1 .. N
    OBVIOUS
  <2> QED
    BY <1>4, <2>1, <2>2
<1>7. \A n \in 1 .. N : n # o => nodes[n].last # s
  <2> SUFFICES ASSUME NEW n \in 1 .. N, nodes[n].last = s PROVE n = o
    OBVIOUS
  <2>1. nodes[n].last # 0 => par[nodes[n].last] = n
    BY <1>1, <1>5 DEF Linked
  <2> QED
    BY <1>6, <2>1
<1>8. nodes[s].last # s
  <2>1. par[s] \in 1 .. s - 1
    BY <1>1, <1>4, <1>5 DEF Linked
  <2>2. s # o
    BY <1>6, <2>1
  <2> QED
    BY <1>6, <1>7, <2>2
<1>9. PICK T \in Nat : T = Len(text) /\ Len(text') = T + 1 /\ text'[T + 1] = t /\ Kept
  BY Grown
<1>10. T = End(at, to, s)
  <2>1. Pending = 0
    BY DEF Pending
  <2>2. PICK L \in Nat : L = End(at, to, s)
    BY <1>1, <1>6, EndNat
  <2>3. T = L + 0
    BY <1>4, <1>9, <2>1, <2>2 DEF Awaited
  <2> QED
    BY <2>2, <2>3
<1>11. PICK r \in [1 .. N -> Nat] : r[s] = T + 1 /\ \A m \in 1 .. N : m # s => r[m] = to[m]
  <2> DEFINE r == [m \in 1 .. N |-> IF m = s THEN T + 1 ELSE to[m]]
  <2>1. \A m \in 1 .. N : r[m] \in Nat
    BY <1>a
  <2>2. r \in [1 .. N -> Nat] /\ r[s] = T + 1 /\ \A m \in 1 .. N : m # s => r[m] = to[m]
    BY <1>6, <2>1
  <2> QED
    BY <2>2, Zenon
<1>12. Begun(at) /\ Followed(at, to) /\ Ended(at, to)
  BY DEF Spelled
<1>13. Begun(at)'
  <2>1. at[1] = 0
    BY <1>12 DEF Begun
  <2>2. \A n \in 2 .. N : BegunAt(at, n)'
    BY <1>1, <1>9, <1>12, StillBegun
  <2> QED
    BY <1>1, <2>1, <2>2 DEF Begun
<1>14. Followed(at, r)'
  <2>1. \A n \in 1 .. N : /\ nodes[n].child # 0 => From(at, nodes[n].child) = at[n] + 1
                          /\ nodes[n].next # 0 => From(at, nodes[n].next) = to[n] + 1
    BY <1>1, <1>12 DEF Followed
  <2>2. \A n \in 1 .. N : nodes[n].next # 0 => r[n] = to[n]
    BY <1>6, <1>11
  <2>3. \A n \in 1 .. N : /\ nodes[n].child # 0 => From(at, nodes[n].child) = at[n] + 1
                          /\ nodes[n].next # 0 => From(at, nodes[n].next) = r[n] + 1
    BY <2>1, <2>2
  <2> QED
    BY <1>1, <2>3 DEF Followed, From
<1>15. \A n \in 1 .. N : nodes[n].last # s => End(at, r, n) = End(at, to, n)
  <2> TAKE n \in 1 .. N
  <2> HAVE nodes[n].last # s
  <2>1. nodes[n].last \in 0 .. N
    BY <1>1, <1>5 DEF Linked
  <2>2. \A x \in 0 .. N : x # 0 => x \in 1 .. N
    OBVIOUS
  <2>3. nodes[n].last # 0 => r[nodes[n].last] = to[nodes[n].last]
    BY <1>11, <2>1, <2>2
  <2> QED
    BY <2>3 DEF End
<1>16. Ended(at, r)'
  <2> SUFFICES ASSUME NEW n \in 2 .. N, ~IsOpen(n)'
               PROVE  /\ r[n] \in 1 .. T + 1
                      /\ nodes[n].type \in {"object", "array"} =>
                            r[n] = End(at, r, n) + 1 /\ <<text'[r[n]]>> = Closing(n)
                      /\ nodes[n].type \notin {"object", "array"} => r[n] = at[n] /\ nodes[n].child = 0
    BY <1>1, <1>9 DEF Ended, End, Closing
  <2>0. n \in 1 .. N
    OBVIOUS
  <2>1. CASE n = s
    <3>1. r[n] = T + 1 /\ T + 1 \in 1 .. T + 1
      BY <1>11, <2>1
    <3>2. End(at, r, n) = T
      BY <1>6, <1>8, <1>10, <1>15, <2>1
    <3>3. <<text'[T + 1]>> = Closing(n)
      BY <1>4, <1>9, <2>1
    <3> QED
      BY <1>4, <2>1, <3>1, <3>2, <3>3
  <2>2. CASE n # s
    <3>1. ~IsOpen(n)
      <4> SUFFICES ASSUME NEW k \in 1 .. K, stack[k] = n PROVE FALSE
        BY <1>2 DEF IsOpen
      <4>1. k # 1
        BY <1>4, <2>2
      <4>2. k - 1 \in 1 .. K - 1 /\ (k - 1) + 1 = k
        BY <1>2, <4>1
      <4>3. stack'[k - 1] = n
        BY <1>3, <4>2
      <4> QED
        BY <1>3, <4>2, <4>3 DEF IsOpen
    <3>2. n # o
      <4>1. 1 \in 1 .. K - 1
        BY <1>2
      <4> QED
        BY <1>3, <1>4, <4>1 DEF IsOpen
    <3>3. End(at, r, n) = End(at, to, n) /\ r[n] = to[n]
      BY <1>7, <1>11, <1>15, <2>0, <2>2, <3>2
    <3>4. /\ to[n] \in 1 .. T
          /\ nodes[n].type \in {"object", "array"} =>
                to[n] = End(at, to, n) + 1 /\ <<text[to[n]]>> = Closing(n)
          /\ nodes[n].type \notin {"object", "array"} => to[n] = at[n] /\ nodes[n].child = 0
      BY <1>1, <1>9, <1>12, <3>1 DEF Ended
    <3>5. PICK b \in 1 .. T : b = to[n]
      BY <3>4
    <3>6. text'[b] = text[b] /\ b \in 1 .. T + 1
      BY <1>9 DEF Kept
    <3> QED
      BY <3>3, <3>4, <3>5, <3>6
  <2> QED
    BY <2>1, <2>2
<1>17. Awaited(at, r)'
  <2>1. Pending' = 0
    BY DEF Pending
  <2>2. End(at, r, stack[1])' = T + 1
    BY <1>4, <1>6, <1>11 DEF End
  <2> QED
    BY <1>9, <2>1, <2>2 DEF Awaited
<1> QED
  BY <1>1, <1>a, <1>11, <1>13, <1>14, <1>16, <1>17 DEF Spelled

\* A step that makes and closes nothing.
LEMMA SpellSame ==
    ASSUME TreeInv, Told, Kept, nodes' = nodes, stack' = stack,
           \A L \in Nat :
              /\ Len(text) = L + Pending
              /\ Pending = 1 => text[Len(text)] = key
              /\ Pending = 2 => text[Len(text) - 1] = key /\ text[Len(text)] = "colon"
              => /\ Len(text') = L + Pending'
                 /\ Pending' = 1 => text'[Len(text')] = key'
                 /\ Pending' = 2 => text'[Len(text') - 1] = key' /\ text'[Len(text')] = "colon"
    PROVE  Told'
<1>1. PICK at \in [1 .. Len(nodes) -> Nat], to \in [1 .. Len(nodes) -> Nat] :
         Spelled(at, to) /\ Awaited(at, to)
  BY DEF Told
<1>2. PICK s : s = stack[1] /\ s \in 1 .. Len(nodes)
  BY RootAlone
<1>3. PICK L \in Nat : L = End(at, to, s)
  BY <1>2, EndNat
<1>4. /\ Len(text) = L + Pending
      /\ Pending = 1 => text[Len(text)] = key
      /\ Pending = 2 => text[Len(text) - 1] = key /\ text[Len(text)] = "colon"
  BY <1>1, <1>2, <1>3 DEF Awaited
<1>5. End(at, to, stack[1])' = L
  BY <1>2, <1>3 DEF End
<1>6. Awaited(at, to)'
  <2> HIDE DEF Pending
  <2>1. /\ Len(text') = L + Pending'
        /\ Pending' = 1 => text'[Len(text')] = key'
        /\ Pending' = 2 => text'[Len(text') - 1] = key' /\ text'[Len(text')] = "colon"
    BY <1>4
  <2> QED
    BY <1>5, <2>1 DEF Awaited
<1>7. Spelled(at, to)'
  BY <1>1, StillSpelled
<1> QED
  BY <1>6, <1>7 DEF Told

\* One step per action: those that make a node, those that close one, those
\* that read a key, and the rest.
LEMMA NextSpell == TreeInv /\ SpellInv /\ [TextNext]_textvars => SpellInv'
<1> SUFFICES ASSUME TreeInv, SpellInv, TextNext \/ UNCHANGED textvars PROVE SpellInv'
  OBVIOUS
<1>0. /\ Len(stack) \in Nat \ {0} /\ stack # <<>> /\ stack \in Seq(Nat)
      /\ Head(stack) = stack[1] /\ stack[1] \in 1 .. Len(nodes)
      /\ stack[1] = 1 <=> Len(stack) = 1
  BY RootAlone DEF TreeInv, TextTyped
<1>a. ASSUME pc' \in Reading \cup {"einval", "failed", "synced"} PROVE SpellInv'
  BY <1>a DEF SpellInv, Parsing, Reading
<1>b. ASSUME pc \in Parsing, Kept, Told => Told' PROVE SpellInv'
  <2>1. OddColon \/ Told
    BY <1>b DEF SpellInv, Parsing
  <2>2. OddColon => OddColon'
    BY <1>b, StillOdd
  <2> QED
    BY <1>b, <2>1, <2>2 DEF SpellInv
<1>c. text' = text => Kept
  BY DEF TreeInv, TextTyped, Kept
<1>1. CASE Open
  <2>1. PICK t \in {"lbrace", "lbracket"} :
           /\ Create(IF t = "lbrace" THEN "object" ELSE "array", t, IF t = "lbrace" THEN "key" ELSE "value")
           /\ stack' = <<Len(nodes) + 1>> \o stack
    BY <1>1 DEF Open
  <2>2. PICK type \in {"object", "array"} : type = IF t = "lbrace" THEN "object" ELSE "array"
    OBVIOUS
  <2>3. PICK nxt \in {"key", "value"} : nxt = IF t = "lbrace" THEN "key" ELSE "value"
    OBVIOUS
  <2>4. AtValue /\ Create(type, t, nxt) /\ type \in NodeTypes /\ t \in Tokens \ {"comma"}
    <3>1. AtValue /\ type \in NodeTypes /\ t \in Tokens \ {"comma"}
      BY <1>1, TokenFacts DEF Open
    <3> QED
      BY <2>1, <2>2, <2>3, <3>1
  <2>5. Made(type, key) /\ text' = Append(text, t) /\ key' = NoKey
    BY <2>4, CreateMade
  <2>6. t = IF type = "object" THEN "lbrace" ELSE IF type = "array" THEN "lbracket" ELSE type
    BY <2>2
  <2>7. Told => Told'
    <3> SUFFICES ASSUME NEW at \in [1 .. Len(nodes) -> Nat], NEW to \in [1 .. Len(nodes) -> Nat],
                        Spelled(at, to), Awaited(at, to)
                 PROVE  Told'
      BY DEF Told
    <3>1. \E q, r \in [1 .. Len(nodes') -> Nat] : Spelled(q, r)' /\ Awaited(q, r)'
      BY <2>1, <2>4, <2>5, <2>6, SpellMade
    <3> QED
      BY <3>1 DEF Told
  <2>8. Kept /\ pc \in Parsing
    BY <2>4, <2>5, Grown DEF AtValue, Parsing
  <2> QED
    BY <1>b, <2>7, <2>8
<1>2. CASE Literal \/ StringValue
  <2>1. PICK t \in Literals \cup Strings, nxt \in {After(stack), "string"} :
           Create(t, t, nxt) /\ AtValue /\ stack' = stack
    BY <1>2 DEF Literal, StringValue
  <2>2. t \in NodeTypes /\ t \in Tokens \ {"comma"} /\ t \notin {"object", "array"}
    BY TokenFacts
  <2>3. Made(t, key) /\ text' = Append(text, t) /\ key' = NoKey
    BY <2>1, <2>2, CreateMade
  <2>4. t = IF t = "object" THEN "lbrace" ELSE IF t = "array" THEN "lbracket" ELSE t
    BY <2>2
  <2>5. Told => Told'
    <3> SUFFICES ASSUME NEW at \in [1 .. Len(nodes) -> Nat], NEW to \in [1 .. Len(nodes) -> Nat],
                        Spelled(at, to), Awaited(at, to)
                 PROVE  Told'
      BY DEF Told
    <3>1. \E q, r \in [1 .. Len(nodes') -> Nat] : Spelled(q, r)' /\ Awaited(q, r)'
      BY <2>1, <2>2, <2>3, <2>4, SpellMade
    <3> QED
      BY <3>1 DEF Told
  <2>6. Kept /\ pc \in Parsing
    BY <2>1, <2>3, Grown DEF AtValue, Parsing
  <2> QED
    BY <1>b, <2>5, <2>6
\* What ends a node.
<1>3. ASSUME NEW t \in {"rbrace", "rbracket"}, pc \in Parsing, Consume(t),
             stack' = Tail(stack), nodes' = nodes, key = NoKey, key' = NoKey, Len(stack) > 1, <<t>> = Closing(stack[1])
      PROVE  SpellInv'
  <2>1. text' = Append(text, t)
    BY <1>3, TokenFacts, Consumed
  <2>2. Told => Told'
    <3> SUFFICES ASSUME NEW at \in [1 .. Len(nodes) -> Nat], NEW to \in [1 .. Len(nodes) -> Nat],
                        Spelled(at, to), Awaited(at, to)
                 PROVE  Told'
      BY DEF Told
    <3>1. \E q, r \in [1 .. Len(nodes') -> Nat] : Spelled(q, r)' /\ Awaited(q, r)'
      BY <1>3, <2>1, SpellClosed
    <3> QED
      BY <3>1 DEF Told
  <2>3. Kept
    BY <2>1, Grown
  <2> QED
    BY <1>3, <1>b, <2>2, <2>3
<1>4. CASE CloseArray
  <2>1. CASE Fail
    BY <1>a, <2>1 DEF Fail
  <2>2. CASE ~Fail /\ Len(stack) = 1
    <3>1. /\ Consume("rbracket") /\ stack' = stack /\ pc' = "parsed" /\ nodes' = nodes /\ AtValue
      BY <1>4, <2>2 DEF CloseArray
    <3>2. text' = Append(text, "rbracket")
      BY <3>1, TokenFacts, Consumed
    <3>3. Kept /\ pc \in Parsing
      BY <3>1, <3>2, Grown DEF AtValue, Parsing
    <3>4. ASSUME Told PROVE text' = <<"rbracket">>
      <4>1. PICK at \in [1 .. Len(nodes) -> Nat], to \in [1 .. Len(nodes) -> Nat] :
               Spelled(at, to) /\ Awaited(at, to)
        BY <3>4 DEF Told
      <4>2. Len(nodes) = 1 /\ key = NoKey /\ stack[1] = 1
        <5>1. \A x \in Nat : x = 1 => ~(x > 1)
          OBVIOUS
        <5> QED
          BY <1>0, <2>2, <3>1, <5>1 DEF TreeInv, Phase
      <4>3. nodes[1].last = 0
        <5>1. PICK par \in [1 .. 1 -> 0 .. 1] : Linked(par)
          BY <4>2 DEF TreeInv, LinkInv
        <5>2. nodes[1].child \in 0 .. 1 /\ (nodes[1].child = 0 \/ 1 < nodes[1].child)
          BY <4>2, <5>1 DEF Linked, Forward
        <5>3. nodes[1].child = 0 <=> nodes[1].last = 0
          BY <4>2, <5>1 DEF Linked
        <5> QED
          BY <5>2, <5>3
      <4>4. at[1] = 0 /\ Pending = 0
        BY <4>1, <4>2 DEF Spelled, Begun, Pending
      <4>5. Len(text) = 0
        BY <4>1, <4>2, <4>3, <4>4 DEF Awaited, End
      <4>6. text = <<>>
        BY <4>5, EmptySeq DEF TreeInv, TextTyped
      <4> QED
        BY <3>2, <4>6
    <3>5. OddColon => OddColon'
      BY <3>3, StillOdd
    <3>6. OddColon \/ Told
      BY <3>3 DEF SpellInv, Parsing
    <3> QED
      BY <3>1, <3>4, <3>5, <3>6 DEF SpellInv
  <2>3. CASE ~Fail /\ Len(stack) # 1
    <3>1. /\ Consume("rbracket") /\ stack' = Tail(stack) /\ nodes' = nodes /\ key' = NoKey /\ AtValue
      BY <1>4, <2>3 DEF CloseArray
    <3>2. Len(stack) > 1
      <4>1. \A x \in Nat \ {0} : x = 1 \/ x > 1
        OBVIOUS
      <4> QED
        BY <1>0, <2>3, <4>1
    <3>3. nodes[stack[1]].type = "array"
      <4>1. nodes[stack[1]].type # "object"
        BY <1>0, <1>4, <2>3, <3>2 DEF CloseArray
      <4>2. nodes[stack[1]].type \in {"object", "array"}
        <5>1. \A x \in Nat : x > 1 => 1 \in 1 .. x - 1
          OBVIOUS
        <5> QED
          BY <1>0, <3>2, <5>1 DEF TreeInv, Nested
      <4> QED
        BY <4>1, <4>2
    <3>4. key = NoKey
      BY <3>3 DEF TreeInv, Phase
    <3>5. Closing(stack[1]) = <<"rbracket">> /\ pc \in Parsing
      BY <3>1, <3>3 DEF Closing, AtValue, Parsing
    <3> QED
      BY <1>3, <3>1, <3>2, <3>4, <3>5
  <2> QED
    BY <2>1, <2>2, <2>3
<1>5. CASE CloseObject
  <2>1. /\ Consume("rbrace") /\ stack' = Tail(stack) /\ nodes' = nodes /\ key' = NoKey
        /\ pc \in {"key", "member"}
    BY <1>5 DEF CloseObject
  <2>2. Len(stack) > 1 /\ nodes[stack[1]].type = "object"
    BY <2>1 DEF TreeInv, Phase
  <2>3. CASE pc = "key"
    <3>1. key = NoKey
      BY <2>3 DEF TreeInv, Phase
    <3>2. Closing(stack[1]) = <<"rbrace">> /\ pc \in Parsing
      BY <2>1, <2>2 DEF Closing, Parsing
    <3> QED
      BY <1>3, <2>1, <2>2, <3>1, <3>2
  <2>4. CASE pc = "member"
    <3>1. text' = Append(text, "rbrace")
      BY <2>1, TokenFacts, Consumed
    <3>2. PICK T \in Nat : T = Len(text) /\ Len(text') = T + 1 /\ text'[T + 1] = "rbrace" /\ Kept
      BY <3>1, Grown
    <3>3. ASSUME Told PROVE OddColon'
      <4>1. PICK at \in [1 .. Len(nodes) -> Nat], to \in [1 .. Len(nodes) -> Nat] :
               Spelled(at, to) /\ Awaited(at, to)
        BY <3>3 DEF Told
      <4>2. key # NoKey
        BY <2>4 DEF TreeInv, Phase
      <4>3. Pending = 2
        BY <2>4, <4>2 DEF Pending
      <4>4. text[T] = "colon"
        BY <3>2, <4>1, <4>3 DEF Awaited
      <4>5. T # 0
        <5>2. End(at, to, stack[1]) \in Nat
          BY <1>0, EndNat
        <5>3. T = End(at, to, stack[1]) + 2
          BY <3>2, <4>1, <4>3 DEF Awaited
        <5> QED
          BY <5>2, <5>3
      <4>6. T \in 1 .. T /\ T \in 1 .. (T + 1) - 1
        BY <4>5
      <4>7. text'[T] = "colon"
        BY <3>2, <4>4, <4>6 DEF Kept
      <4> QED
        BY <3>2, <4>6, <4>7 DEF OddColon
    <3>4. OddColon => OddColon'
      BY <3>2, StillOdd
    <3>5. OddColon \/ Told
      BY <2>4 DEF SpellInv, Parsing
    <3> QED
      BY <3>3, <3>4, <3>5 DEF SpellInv
  <2> QED
    BY <2>1, <2>3, <2>4
<1>6. CASE Skip
  <2>1. /\ Consume("comma") /\ nodes' = nodes /\ stack' = stack /\ key' = key
        /\ pc \in {"value", "member", "key", "colon"}
        /\ pc' = IF pc = "member" THEN "value" ELSE pc
    BY <1>6 DEF Skip
  <2>2. text' = text
    <3>1. "comma" \in Tokens
      BY DEF Tokens, Marks
    <3> QED
      BY <2>1, <3>1, Consumed
  <2>3. Pending' = Pending
    BY <2>1 DEF Pending
  <2>4. Told => Told'
    BY <1>c, <2>1, <2>2, <2>3, SpellSame
  <2> QED
    BY <1>b, <1>c, <2>1, <2>2, <2>4 DEF Parsing
<1>7. CASE Key
  <2>1. PICK t \in Strings : Consume(t) /\ key' = t
    BY <1>7 DEF Key
  <2>2. pc = "key" /\ pc' = "keystring" /\ nodes' = nodes /\ stack' = stack
    BY <1>7 DEF Key
  <2>3. text' = Append(text, t)
    BY <2>1, TokenFacts, Consumed
  <2>4. PICK T \in Nat : T = Len(text) /\ Len(text') = T + 1 /\ text'[T + 1] = t /\ Kept
    BY <2>3, Grown
  <2>5. Pending = 0 /\ Pending' = 1
    BY <2>1, <2>2, TokenFacts DEF TreeInv, Phase, Pending
  <2>6. \A L \in Nat : T = L + Pending => Len(text') = L + Pending'
    BY <2>4, <2>5
  <2>7. Told => Told'
    BY <2>1, <2>2, <2>4, <2>5, <2>6, SpellSame
  <2> QED
    BY <1>b, <2>2, <2>4, <2>7 DEF Parsing
<1>8. CASE Colon
  <2>1. /\ Consume("colon") /\ pc = "colon" /\ pc' = "member" /\ nodes' = nodes /\ stack' = stack
        /\ key' = key
    BY <1>8 DEF Colon
  <2>2. text' = Append(text, "colon")
    BY <2>1, TokenFacts, Consumed
  <2>3. PICK T \in Nat : T = Len(text) /\ Len(text') = T + 1 /\ text'[T + 1] = "colon" /\ Kept
    BY <2>2, Grown
  <2>4. Pending = 1 /\ Pending' = 2
    BY <2>1 DEF TreeInv, Phase, Pending
  <2>5. ASSUME NEW L \in Nat, T = L + 1, text[T] = key
        PROVE  T + 1 = L + 2 /\ text'[(T + 1) - 1] = key /\ text'[T + 1] = "colon"
    <3>1. T \in 1 .. T /\ (T + 1) - 1 = T
      BY <2>5
    <3>2. text'[T] = text[T]
      BY <2>3, <3>1 DEF Kept
    <3> QED
      BY <2>3, <2>5, <3>1, <3>2
  <2>6. Told => Told'
    BY <2>1, <2>3, <2>4, <2>5, SpellSame
  <2> QED
    BY <1>b, <2>1, <2>3, <2>6 DEF Parsing
<1>9. CASE Unexpected \/ NoMemory \/ BadString
  BY <1>9, <1>a DEF Unexpected, NoMemory, BadString, Fail
<1>10. CASE Unescape \/ Quote
  <2>1. UNCHANGED <<text, nodes, stack, key>> /\ pc \in {"string", "keystring"}
    BY <1>10 DEF Unescape, Quote, InString
  <2>2. pc' = pc \/ (pc = "string" /\ pc' = After(stack)) \/ (pc = "keystring" /\ pc' = "colon")
    BY <1>10 DEF Unescape, Quote, InString
  <2>3. Pending' = Pending
    BY <2>1, <2>2 DEF TreeInv, Phase, Pending
  <2>4. Told => Told'
    BY <1>c, <2>1, <2>3, SpellSame
  <2> QED
    BY <1>b, <1>c, <2>1, <2>4 DEF Parsing
<1>11. CASE NotArray \/ IsArray \/ NextEntry \/ TakeEntry \/ TakeSet \/ SaveRule \/ Install
  <2>1. pc' \in Reading \cup {"einval", "synced"}
    BY <1>11 DEF NotArray, IsArray, NextEntry, TakeEntry, TakeSet, SaveRule, Install, Reading
  <2> QED
    BY <1>a, <2>1
<1>12. CASE UNCHANGED textvars
  <2>1. UNCHANGED <<pc, text, nodes, stack, key>>
    BY <1>12 DEF textvars, parser
  <2>2. Told => Told'
    BY <1>c, <2>1, SpellSame DEF Pending
  <2>3. OddColon => OddColon'
    BY <1>c, <2>1, StillOdd
  <2> QED
    BY <2>1, <2>2, <2>3 DEF SpellInv
<1> QED
  BY <1>1, <1>2, <1>4, <1>5, <1>6, <1>7, <1>8, <1>9, <1>10, <1>11, <1>12 DEF TextNext, Finished

\* Only a new node changes links and lengths.
LEMMA NextCount == TreeInv /\ CountInv /\ [TextNext]_textvars => CountInv'
<1> SUFFICES ASSUME TreeInv, CountInv, TextNext \/ UNCHANGED textvars PROVE CountInv'
  OBVIOUS
<1>0. nodes' = nodes => CountInv'
  BY DEF CountInv, Counted
<1>1. CASE Open
  <2>1. PICK t \in {"lbrace", "lbracket"} :
           Create(IF t = "lbrace" THEN "object" ELSE "array", t, IF t = "lbrace" THEN "key" ELSE "value")
    BY <1>1 DEF Open
  <2>2. PICK type \in {"object", "array"} : type = IF t = "lbrace" THEN "object" ELSE "array"
    OBVIOUS
  <2>3. PICK nxt \in {"key", "value"} : nxt = IF t = "lbrace" THEN "key" ELSE "value"
    OBVIOUS
  <2>4. AtValue /\ type \in NodeTypes /\ t \in Tokens \ {"comma"}
    BY <1>1, TokenFacts DEF Open
  <2>5. Create(type, t, nxt)
    BY <2>1, <2>2, <2>3
  <2>6. Made(type, key)
    BY <2>4, <2>5, CreateMade
  <2> QED
    BY <2>6, CountMade
<1>2. CASE Literal \/ StringValue
  <2>1. PICK t \in Literals \cup Strings, nxt \in {After(stack), "string"} :
           Create(t, t, nxt) /\ AtValue
    BY <1>2 DEF Literal, StringValue
  <2>2. t \in NodeTypes /\ t \in Tokens \ {"comma"}
    BY TokenFacts
  <2>3. Made(t, key)
    BY <2>1, <2>2, CreateMade
  <2> QED
    BY <2>3, CountMade
<1>3. CASE CloseArray \/ CloseObject \/ Skip \/ Key \/ Colon \/ Unexpected \/ NoMemory \/ BadString
  BY <1>0, <1>3 DEF CloseArray, CloseObject, Skip, Key, Colon, Unexpected, NoMemory, BadString, Fail
<1>4. CASE Unescape \/ Quote \/ NotArray \/ IsArray \/ NextEntry \/ TakeEntry \/ TakeSet
           \/ SaveRule \/ Install \/ UNCHANGED textvars
  BY <1>0, <1>4 DEF Unescape, Quote, NotArray, IsArray, NextEntry, TakeEntry, TakeSet, SaveRule,
                    Install, textvars, parser
<1> QED
  BY <1>1, <1>2, <1>3, <1>4 DEF TextNext, Finished

\* A text that nx_json_parse accepts is the one its tree stands for, but for
\* "]" alone and a key without a value: what create_json links and what the
\* calls of parse_value and parse_key close is all that was read, in its
\* order and at its depth, and length counts the children.
THEOREM TextFaithful == TextSpec => []Faithful
<1>1. TextInit => TreeInv /\ CountInv /\ SpellInv
  <2> SUFFICES ASSUME TextInit PROVE CountInv /\ SpellInv
    BY InitTree
  <2>1. /\ text = <<>> /\ stack = <<1>> /\ key = NoKey /\ nodes = <<Node("root", NoKey)>>
    BY DEF TextInit
  <2>2. /\ Len(nodes) = 1 /\ nodes[1].child = 0 /\ nodes[1].last = 0 /\ nodes[1].next = 0
        /\ nodes[1].length = 0
    BY <2>1 DEF Node, NoNode
  <2>3. PICK z \in [1 .. 1 -> Nat] : z[1] = 0
    <3>1. [x \in 1 .. 1 |-> 0] \in [1 .. 1 -> Nat] /\ [x \in 1 .. 1 |-> 0][1] = 0
      OBVIOUS
    <3> QED
      BY <3>1
  <2>4. Counted(z)
    BY <2>2 DEF Counted
  <2>5. Spelled(z, z)
    BY <2>2, <2>3 DEF Spelled, Begun, Followed, Ended
  <2>6. Awaited(z, z)
    <3>1. Len(text) = 0 /\ stack[1] = 1 /\ Pending = 0
      BY <2>1 DEF Pending
    <3> QED
      BY <2>2, <2>3, <3>1 DEF Awaited, End
  <2> QED
    BY <2>2, <2>4, <2>5, <2>6 DEF CountInv, SpellInv, Told
<1>2. TreeInv /\ CountInv /\ SpellInv /\ [TextNext]_textvars => (TreeInv /\ CountInv /\ SpellInv)'
  BY NextTree, NextCount, NextSpell
<1>3. TreeInv /\ CountInv /\ SpellInv => Faithful
  <2> SUFFICES ASSUME TreeInv, CountInv, SpellInv, pc = "parsed", ~Odd
               PROVE  /\ Render[json] = text
                      /\ \A n \in DOMAIN nodes : nodes[n].length = Len(Children(n))
    BY DEF Faithful
  <2>1. PICK at \in [1 .. Len(nodes) -> Nat], to \in [1 .. Len(nodes) -> Nat] :
           Spelled(at, to) /\ Awaited(at, to)
    BY DEF SpellInv, Odd, OddColon, Told
  <2>2. Len(stack) = 1 /\ key = NoKey /\ stack[1] = 1
    BY RootAlone DEF TreeInv, Phase
  <2>3. Len(text) = End(at, to, 1)
    <3>1. Pending = 0
      BY <2>2 DEF Pending
    <3>3. End(at, to, 1) \in Nat
      <4>1. 1 \in 1 .. Len(nodes)
        BY <2>2, RootAlone
      <4> QED
        BY <4>1, EndNat
    <3>4. Len(text) = End(at, to, 1) + 0
      BY <2>1, <2>2, <3>1 DEF Awaited
    <3> QED
      BY <3>3, <3>4
  <2>4. Render[json] = text
    BY <2>1, <2>2, <2>3, SpelledText
  <2> QED
    BY <2>4, LengthCounts
<1> QED
  BY <1>1, <1>2, <1>3, PTL DEF TextSpec
=============================================================================
