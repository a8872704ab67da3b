----------------------------- MODULE AuthConf ------------------------------
(***************************************************************************)
(* The authentication rules of drivers/nos_track/src/ntrack_conf.c and the *)
(* RCU protocol by which they are replaced while the hooks use them.       *)
(*                                                                         *)
(* ntrack_conf_sync runs in the process that sent the rules over netlink   *)
(* (nl_recv): it builds a new block, takes the old one out, waits for a    *)
(* grace period, frees the old one and only then installs the new one.     *)
(* Hooks run under the rcu_read_lock of nf_hook_slow; user_need_redirect   *)
(* dereferences G_AuthConf once, and ntrack_user_match, which it may call, *)
(* once more.  What the rules say is the subject of AuthHook.tla: here a   *)
(* block of rules is the memory it lies in.                                *)
(*                                                                         *)
(* synchronize_rcu is modelled by its contract: it returns when all        *)
(* read-side sections that were running when it was called have ended.     *)
(***************************************************************************)
EXTENDS Naturals, FiniteSets

CONSTANTS Senders,   \* processes that send rules (ntrackd, one per core)
          Hooks,     \* hook invocations that may run at one time, per CPU
          Blocks,    \* the memory vmalloc hands out
          NULL

ASSUME NullAssumption == NULL \notin Blocks

VARIABLES G_AuthConf,  \* the published pointer
          alloc,       \* blocks between vmalloc and vfree
          ready,       \* blocks that are parsed completely
          spc,         \* where each sender is in ntrack_conf_sync
          conf_tmp,    \* its block under construction
          tmp,         \* the block it took out
          wait,        \* readers its synchronize_rcu waits for
          hpc,         \* where each hook is
          conf,        \* conf of user_need_redirect
          mconf        \* conf of ntrack_user_match

svars == <<spc, conf_tmp, tmp, wait>>
hvars == <<hpc, conf, mconf>>
vars == <<G_AuthConf, alloc, ready, svars, hvars>>

Goto(s, pc) == spc' = [spc EXCEPT ![s] = pc]
HookGoto(h, pc) == hpc' = [hpc EXCEPT ![h] = pc]

Readers == {h \in Hooks : hpc[h] # "idle"}

(***************************************************************************)
(* ntrack_conf_sync                                                        *)
(***************************************************************************)

Vmalloc(s) ==
    /\ spc[s] = "idle"
    /\ \E b \in Blocks \ alloc :
          /\ alloc' = alloc \cup {b}
          /\ ready' = ready \ {b}
          /\ conf_tmp' = [conf_tmp EXCEPT ![s] = b]
    /\ Goto(s, "parse")
    /\ UNCHANGED <<G_AuthConf, tmp, wait, hvars>>

\* Mutant: a failing vmalloc is reported and the update goes on without it.
VmallocFails_Continue(s) ==
    /\ spc[s] = "idle"
    /\ conf_tmp' = [conf_tmp EXCEPT ![s] = NULL]
    /\ Goto(s, "parse")
    /\ UNCHANGED <<G_AuthConf, alloc, ready, tmp, wait, hvars>>

\* A failing vmalloc is reported, and then memset writes through the null
\* pointer: the sender dies in an oops.
VmallocFails(s) ==
    /\ spc[s] = "idle"
    /\ Goto(s, "oops")
    /\ UNCHANGED <<G_AuthConf, alloc, ready, conf_tmp, tmp, wait, hvars>>

Parse(s) ==
    /\ spc[s] = "parse"
    /\ ready' = ready \cup {conf_tmp[s]}
    /\ Goto(s, "test")
    /\ UNCHANGED <<G_AuthConf, alloc, conf_tmp, tmp, wait, hvars>>

\* "parse json failed or not array": -EINVAL, and conf_tmp is not freed.
ParseFails(s) ==
    /\ spc[s] = "parse"
    /\ conf_tmp' = [conf_tmp EXCEPT ![s] = NULL]
    /\ Goto(s, "idle")
    /\ UNCHANGED <<G_AuthConf, alloc, ready, tmp, wait, hvars>>

Test(s) ==
    /\ spc[s] = "test"
    /\ Goto(s, IF G_AuthConf # NULL THEN "take" ELSE "publish")
    /\ UNCHANGED <<G_AuthConf, alloc, ready, conf_tmp, tmp, wait, hvars>>

Take(s) ==
    /\ spc[s] = "take"
    /\ tmp' = [tmp EXCEPT ![s] = G_AuthConf]
    /\ Goto(s, "unpublish")
    /\ UNCHANGED <<G_AuthConf, alloc, ready, conf_tmp, wait, hvars>>

\* Mutant: the new rules take the place of the old ones at once, the usual
\* order of an RCU update.
Unpublish_Swap(s) ==
    /\ spc[s] = "unpublish"
    /\ G_AuthConf' = conf_tmp[s]
    /\ Goto(s, "sync")
    /\ UNCHANGED <<alloc, ready, conf_tmp, tmp, wait, hvars>>

\* Mutant: the old rules stay published while they are freed.
Unpublish_Forget(s) ==
    /\ spc[s] = "unpublish"
    /\ Goto(s, "sync")
    /\ UNCHANGED <<G_AuthConf, alloc, ready, conf_tmp, tmp, wait, hvars>>

Unpublish(s) ==
    /\ spc[s] = "unpublish"
    /\ G_AuthConf' = NULL
    /\ Goto(s, "sync")
    /\ UNCHANGED <<alloc, ready, conf_tmp, tmp, wait, hvars>>

\* Mutant: the grace period is left out, as the FIXME has it.
SyncBegin_None(s) ==
    /\ spc[s] = "sync"
    /\ wait' = [wait EXCEPT ![s] = {}]
    /\ Goto(s, "grace")
    /\ UNCHANGED <<G_AuthConf, alloc, ready, conf_tmp, tmp, hvars>>

SyncBegin(s) ==
    /\ spc[s] = "sync"
    /\ wait' = [wait EXCEPT ![s] = Readers]
    /\ Goto(s, "grace")
    /\ UNCHANGED <<G_AuthConf, alloc, ready, conf_tmp, tmp, hvars>>

\* Mutant: the writer waits for a moment without any reader.
SyncEnd_NoReaders(s) ==
    /\ spc[s] = "grace"
    /\ Readers = {}
    /\ alloc' = alloc \ {tmp[s]}
    /\ tmp' = [tmp EXCEPT ![s] = NULL]
    /\ Goto(s, "publish")
    /\ UNCHANGED <<G_AuthConf, ready, conf_tmp, wait, hvars>>

\* The grace period is over: vfree (of a null pointer: nothing).
SyncEnd(s) ==
    /\ spc[s] = "grace"
    /\ wait[s] = {}
    /\ alloc' = alloc \ {tmp[s]}
    /\ tmp' = [tmp EXCEPT ![s] = NULL]
    /\ Goto(s, "publish")
    /\ UNCHANGED <<G_AuthConf, ready, conf_tmp, wait, hvars>>

Publish(s) ==
    /\ spc[s] = "publish"
    /\ G_AuthConf' = conf_tmp[s]
    /\ conf_tmp' = [conf_tmp EXCEPT ![s] = NULL]
    /\ Goto(s, "idle")
    /\ UNCHANGED <<alloc, ready, tmp, wait, hvars>>

(***************************************************************************)
(* The hooks                                                               *)
(***************************************************************************)

\* rcu_read_lock in nf_hook_slow.
HookEnter(h) ==
    /\ hpc[h] = "idle"
    /\ HookGoto(h, "deref")
    /\ UNCHANGED <<G_AuthConf, alloc, ready, svars, conf, mconf>>

\* user_need_redirect: without rules nothing more is done.
HookDeref(h) ==
    /\ hpc[h] = "deref"
    /\ conf' = [conf EXCEPT ![h] = G_AuthConf]
    /\ HookGoto(h, IF G_AuthConf = NULL THEN "leave" ELSE "first")
    /\ UNCHANGED <<G_AuthConf, alloc, ready, svars, mconf>>

\* nos_user_match_fn: connection tracking calls ntrack_user_match by itself.
HookIdentify(h) ==
    /\ hpc[h] = "deref"
    /\ mconf' = [mconf EXCEPT ![h] = G_AuthConf]
    /\ HookGoto(h, IF G_AuthConf = NULL THEN "leave" ELSE "identify")
    /\ UNCHANGED <<G_AuthConf, alloc, ready, svars, conf>>

\* The user has a rule already ("first"), its magic is current ("second"),
\* and rule->flags decides ("last").
HookUse(h) ==
    /\ \/ hpc[h] = "first" /\ HookGoto(h, "second")
       \/ hpc[h] = "second" /\ HookGoto(h, "last")
       \/ hpc[h] = "last" /\ HookGoto(h, "leave")
    /\ UNCHANGED <<G_AuthConf, alloc, ready, svars, conf, mconf>>

\* The user has no rule yet, or one with another magic: ntrack_user_match
\* dereferences again, and returns 0 without rules.
HookRematch(h) ==
    /\ hpc[h] \in {"first", "second"}
    /\ mconf' = [mconf EXCEPT ![h] = G_AuthConf]
    /\ HookGoto(h, IF G_AuthConf = NULL THEN "leave"
                   ELSE IF hpc[h] = "first" THEN "match1" ELSE "match2")
    /\ UNCHANGED <<G_AuthConf, alloc, ready, svars, conf>>

\* Without a match the hook is done; with one user_need_redirect goes on
\* with its own conf and the index the match found.
HookMatch(h) ==
    /\ \/ hpc[h] = "match1" /\ HookGoto(h, "second")
       \/ hpc[h] = "match2" /\ HookGoto(h, "last")
       \/ hpc[h] \in {"match1", "match2", "identify"} /\ HookGoto(h, "leave")
    /\ mconf' = [mconf EXCEPT ![h] = NULL]
    /\ UNCHANGED <<G_AuthConf, alloc, ready, svars, conf>>

\* rcu_read_unlock: every grace period that waited for this section goes on.
HookLeave(h) ==
    /\ hpc[h] = "leave"
    /\ conf' = [conf EXCEPT ![h] = NULL]
    /\ mconf' = [mconf EXCEPT ![h] = NULL]
    /\ wait' = [s \in Senders |-> wait[s] \ {h}]
    /\ HookGoto(h, "idle")
    /\ UNCHANGED <<G_AuthConf, alloc, ready, spc, conf_tmp, tmp>>

(***************************************************************************)
(* The module is loaded without rules.                                     *)
(***************************************************************************)
Init ==
    /\ G_AuthConf = NULL
    /\ alloc = {}
    /\ ready = {}
    /\ spc = [s \in Senders |-> "idle"]
    /\ conf_tmp = [s \in Senders |-> NULL]
    /\ tmp = [s \in Senders |-> NULL]
    /\ wait = [s \in Senders |-> {}]
    /\ hpc = [h \in Hooks |-> "idle"]
    /\ conf = [h \in Hooks |-> NULL]
    /\ mconf = [h \in Hooks |-> NULL]

Update(s) == \/ Parse(s) \/ ParseFails(s) \/ Test(s) \/ Take(s)
             \/ Unpublish(s) \/ SyncBegin(s) \/ SyncEnd(s) \/ Publish(s)

Hook(h) == \/ HookDeref(h) \/ HookIdentify(h) \/ HookUse(h)
           \/ HookRematch(h) \/ HookMatch(h) \/ HookLeave(h)

Next == \/ \E s \in Senders : Vmalloc(s) \/ VmallocFails(s) \/ Update(s)
        \/ \E h \in Hooks : HookEnter(h) \/ Hook(h)

Spec == Init /\ [][Next]_vars

(***************************************************************************)
(* A hook that has started ends (it runs in softirq and has no loop over   *)
(* anything but its rules), and a sender in the kernel is scheduled.       *)
(* Packets and senders need not come.                                      *)
(***************************************************************************)
FairSpec == /\ Spec
            /\ \A s \in Senders : WF_vars(Update(s))
            /\ \A h \in Hooks : WF_vars(Hook(h))

(***************************************************************************)
(* Properties.                                                             *)
(***************************************************************************)

TypeOK ==
    /\ G_AuthConf \in Blocks \cup {NULL}
    /\ alloc \subseteq Blocks
    /\ ready \subseteq Blocks
    /\ spc \in [Senders -> {"idle", "parse", "test", "take", "unpublish",
                            "sync", "grace", "publish", "oops"}]
    /\ conf_tmp \in [Senders -> Blocks \cup {NULL}]
    /\ tmp \in [Senders -> Blocks \cup {NULL}]
    /\ wait \in [Senders -> SUBSET Hooks]
    /\ hpc \in [Hooks -> {"idle", "deref", "first", "match1", "second",
                          "match2", "last", "identify", "leave"}]
    /\ conf \in [Hooks -> Blocks \cup {NULL}]
    /\ mconf \in [Hooks -> Blocks \cup {NULL}]

\* No hook holds rules that vfree has taken, or that are not parsed to the
\* end: neither user_need_redirect nor the ntrack_user_match it calls.
NoUseAfterFree ==
    \A h \in Hooks : {conf[h], mconf[h]} \subseteq (alloc \cap ready) \cup {NULL}

\* A hook that dereferences G_AuthConf twice works with one set of rules:
\* the index that ntrack_user_match stores is an index into the rules that
\* user_need_redirect looks it up in.
OneConfPerHook ==
    \A h \in Hooks : mconf[h] # NULL /\ conf[h] # NULL => mconf[h] = conf[h]

\* A sender frees a block that is allocated, and that nobody else will free
\* or install: no block of rules is freed twice, and none that is in use.
FreesOwnBlock ==
    \A s \in Senders : spc[s] = "grace" /\ tmp[s] # NULL =>
        /\ tmp[s] \in alloc
        /\ tmp[s] # G_AuthConf
        /\ \A t \in Senders \ {s} : tmp[t] # tmp[s]

\* An update is completed however many packets pass meanwhile: a sender that
\* took the old rules out does not leave the hooks without rules for ever.
UpdateCompletes == \A s \in Senders : spc[s] = "sync" ~> spc[s] = "idle"
=============================================================================
