---------------------------- MODULE NtrackModule ---------------------------
(***************************************************************************)
(* The life of the ntrack module around its rules: ntrack_modules_init and *)
(* ntrack_modules_exit of ntrack_hooks.c, step by step, while packets run  *)
(* through its hooks, the message worker runs and ntrackd sends rules.     *)
(*                                                                         *)
(* A hook may be entered through netfilter, or through nos_user_match_fn,  *)
(* which connection tracking calls.  A user socket of NETLINK_NTRACK pins  *)
(* the module, so that it is not unloaded before the last one is closed;   *)
(* a failing init is not stopped by it.                                    *)
(***************************************************************************)
EXTENDS AuthConf

VARIABLES life,        \* the next step of init or exit
          klog,        \* the item ntrack_klog_fd exists
          nl_sock,     \* the kernel's netlink socket exists
          wq,          \* the workqueue nmsg_wq exists
          work,        \* the message work is queued or running
          registered,  \* the netfilter hooks are registered
          match_fn,    \* nos_user_match_fn is ntrack_user_match
          open,        \* senders that have a user socket
          entry,       \* how each hook was entered
          lwait        \* readers that exit waits for

mvars == <<klog, nl_sock, wq, work, registered, match_fn, open, entry, lwait>>
allvars == <<vars, life, mvars>>

(***************************************************************************)
(* Packets, the worker and the senders, while the module lives             *)
(***************************************************************************)

PacketEnter(h) ==
    /\ HookEnter(h)
    /\ \/ registered /\ entry' = [entry EXCEPT ![h] = "forward"]
       \/ match_fn /\ entry' = [entry EXCEPT ![h] = "identify"]
    /\ UNCHANGED <<life, klog, nl_sock, wq, work, registered, match_fn, open, lwait>>

PacketStep(h) ==
    /\ \/ entry[h] = "forward" /\ HookDeref(h)
       \/ entry[h] = "identify" /\ HookIdentify(h)
       \/ HookUse(h) \/ HookRematch(h) \/ HookMatch(h)
    /\ UNCHANGED <<life, mvars>>

\* The forward hook may send a keep-alive before it leaves: nmsg_enqueue
\* queues the work unless it is queued already.
PacketLeave(h) ==
    /\ HookLeave(h)
    /\ \/ UNCHANGED work
       \/ entry[h] = "forward" /\ work' = TRUE
    /\ entry' = [entry EXCEPT ![h] = "none"]
    /\ lwait' = lwait \ {h}
    /\ UNCHANGED <<life, klog, nl_sock, wq, registered, match_fn, open>>

\* Mutant: the worker queues itself again, to poll.
Work_Poll ==
    /\ work
    /\ work' = TRUE
    /\ UNCHANGED <<vars, life, klog, nl_sock, wq, registered, match_fn, open, entry, lwait>>

\* The work is taken and ends with an empty list (NmsgQueue.tla has the steps).
Work ==
    /\ work
    /\ work' = FALSE
    /\ UNCHANGED <<vars, life, klog, nl_sock, wq, registered, match_fn, open, entry, lwait>>

\* nl_init of ntrackd.  A socket may be opened as soon as the kernel has its
\* own, while init still runs; not once exit has begun.
OpenSocket(s) ==
    /\ nl_sock
    /\ life \in {"nmsg", "hooks", "match", "up"}
    /\ open' = open \cup {s}
    /\ UNCHANGED <<vars, life, klog, nl_sock, wq, work, registered, match_fn, entry, lwait>>

\* ntrackd ends, or is killed by an oops.
CloseSocket(s) ==
    /\ s \in open
    /\ spc[s] \in {"idle", "oops"}
    /\ open' = open \ {s}
    /\ UNCHANGED <<vars, life, klog, nl_sock, wq, work, registered, match_fn, entry, lwait>>

\* xmit: sendto calls nl_recv and with it ntrack_conf_sync.
Send(s) ==
    /\ s \in open
    /\ nl_sock
    /\ Vmalloc(s) \/ VmallocFails(s)
    /\ UNCHANGED <<life, mvars>>

SendStep(s) == Update(s) /\ UNCHANGED <<life, mvars>>

(***************************************************************************)
(* ntrack_modules_init                                                     *)
(***************************************************************************)

InitKlog ==
    /\ life = "off"
    /\ \/ life' = "conf" /\ klog' = TRUE
       \/ life' = "failed" /\ klog' = klog
    /\ UNCHANGED <<vars, nl_sock, wq, work, registered, match_fn, open, entry, lwait>>

ntrack_conf_init ==
    /\ life = "conf"
    /\ \/ life' = "nmsg" /\ nl_sock' = TRUE
       \/ life' = "err_wq" /\ nl_sock' = nl_sock
    /\ UNCHANGED <<vars, klog, wq, work, registered, match_fn, open, entry, lwait>>

\* Every CPU's work is queued once, the "test call".
nmsg_init ==
    /\ life = "nmsg"
    /\ \/ life' = "hooks" /\ wq' = TRUE /\ work' = TRUE
       \/ life' = "err_wq" /\ UNCHANGED <<wq, work>>
    /\ UNCHANGED <<vars, klog, nl_sock, registered, match_fn, open, entry, lwait>>

InitHooks ==
    /\ life = "hooks"
    /\ \/ life' = "match" /\ registered' = TRUE
       \/ life' = "err_wq" /\ registered' = registered
    /\ UNCHANGED <<vars, klog, nl_sock, wq, work, match_fn, open, entry, lwait>>

InitMatch ==
    /\ life = "match"
    /\ life' = "up"
    /\ match_fn' = TRUE
    /\ UNCHANGED <<vars, klog, nl_sock, wq, work, registered, open, entry, lwait>>

(***************************************************************************)
(* ntrack_modules_exit, and the error path of init, which has klog_fini    *)
(* and ntrack_conf_exit the other way round                                *)
(***************************************************************************)

\* Mutant: the pointer is cleared only after the hooks are gone.
ExitMatch_Late ==
    /\ life = "up" /\ open = {}
    /\ life' = "exit_hooks"
    /\ UNCHANGED <<vars, mvars>>

\* rmmod, when no socket holds the module.
ExitMatch ==
    /\ life = "up" /\ open = {}
    /\ life' = "exit_hooks"
    /\ match_fn' = FALSE
    /\ UNCHANGED <<vars, klog, nl_sock, wq, work, registered, open, entry, lwait>>

\* nf_unregister_hooks: no packet finds the hooks any more, and
\* synchronize_net waits for those that have.
ExitHooks ==
    /\ life = "exit_hooks"
    /\ life' = "exit_grace"
    /\ registered' = FALSE
    /\ lwait' = Readers
    /\ UNCHANGED <<vars, klog, nl_sock, wq, work, match_fn, open, entry>>

ExitGrace ==
    /\ life = "exit_grace" /\ lwait = {}
    /\ life' = "exit_wq"
    /\ UNCHANGED <<vars, mvars>>

\* destroy_workqueue waits for the work that is queued.
nmsg_cleanup ==
    /\ life \in {"exit_wq", "err_wq"}
    /\ ~(wq /\ work)
    /\ life' = IF life = "exit_wq" THEN "exit_conf" ELSE "err_klog"
    /\ wq' = FALSE
    /\ UNCHANGED <<vars, klog, nl_sock, work, registered, match_fn, open, entry, lwait>>

ntrack_conf_exit ==
    /\ life \in {"exit_conf", "err_conf"}
    /\ life' = IF life = "exit_conf" THEN "exit_klog" ELSE "failed"
    /\ nl_sock' = FALSE
    /\ UNCHANGED <<vars, klog, wq, work, registered, match_fn, open, entry, lwait>>

klog_fini ==
    /\ life \in {"exit_klog", "err_klog"}
    /\ life' = IF life = "exit_klog" THEN "exit_sync" ELSE "err_conf"
    /\ klog' = FALSE
    /\ UNCHANGED <<vars, nl_sock, wq, work, registered, match_fn, open, entry, lwait>>

\* The last synchronize_rcu, after which the code is gone.
ExitSync ==
    /\ life = "exit_sync"
    /\ Readers = {}
    /\ life' = "gone"
    /\ UNCHANGED <<vars, mvars>>

\* insmod once more: the variables are new, the last rules were not freed.
Reload ==
    /\ life \in {"gone", "failed"}
    /\ open = {}
    /\ life' = "off"
    /\ G_AuthConf' = NULL
    /\ UNCHANGED <<alloc, ready, svars, hvars, mvars>>

ModInit ==
    /\ Init
    /\ life = "off"
    /\ klog = FALSE /\ nl_sock = FALSE /\ wq = FALSE
    /\ work = FALSE
    /\ registered = FALSE /\ match_fn = FALSE
    /\ open = {}
    /\ entry = [h \in Hooks |-> "none"]
    /\ lwait = {}

Loading == InitKlog \/ ntrack_conf_init \/ nmsg_init \/ InitHooks \/ InitMatch
Unloading == \/ ExitHooks \/ ExitGrace \/ nmsg_cleanup \/ ntrack_conf_exit
             \/ klog_fini \/ ExitSync

ModNext ==
    \/ \E h \in Hooks : PacketEnter(h) \/ PacketStep(h) \/ PacketLeave(h)
    \/ \E s \in Senders : OpenSocket(s) \/ CloseSocket(s) \/ Send(s) \/ SendStep(s)
    \/ Work
    \/ Loading \/ ExitMatch \/ Unloading \/ Reload

(***************************************************************************)
(* Hooks, the worker and a sender in the kernel run on, and so does exit   *)
(* once it has begun.                                                      *)
(***************************************************************************)
ModSpec ==
    /\ ModInit /\ [][ModNext]_allvars
    /\ \A s \in Senders : WF_allvars(SendStep(s))
    /\ \A h \in Hooks : WF_allvars(PacketStep(h) \/ PacketLeave(h))
    /\ WF_allvars(Work)
    /\ WF_allvars(Unloading)

(***************************************************************************)
(* Properties.                                                             *)
(***************************************************************************)

ModTypeOK ==
    /\ TypeOK
    /\ life \in {"off", "conf", "nmsg", "hooks", "match", "up", "failed", "gone",
                 "err_wq", "err_klog", "err_conf", "exit_hooks", "exit_grace",
                 "exit_wq", "exit_conf", "exit_klog", "exit_sync"}
    /\ {klog, nl_sock, wq, work, registered, match_fn} \subseteq BOOLEAN
    /\ open \subseteq Senders
    /\ entry \in [Hooks -> {"none", "forward", "identify"}]
    /\ lwait \subseteq Hooks

\* Nothing is used after exit has given it up: a packet in a hook, however it
\* came there, still finds the log item it writes to and the workqueue it
\* may queue on, the worker its workqueue, and a sender inside nl_recv the
\* socket and the log item.  (A failing init frees the log item under a
\* sender that came early.)
NothingGone ==
    /\ \A h \in Hooks : hpc[h] # "idle" =>
          klog /\ life # "gone" /\ (entry[h] = "forward" => wq)
    /\ work => wq /\ klog
    /\ life \notin {"err_conf", "failed"} =>
          \A s \in Senders : spc[s] \notin {"idle", "oops"} => nl_sock /\ klog

\* Unloading ends: neither packets nor messages that keep coming can hold it
\* up, and no step of it waits for one that comes later.
UnloadEnds == life = "exit_hooks" ~> life = "gone"

=============================================================================
