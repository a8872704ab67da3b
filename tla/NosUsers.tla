----------------------------- MODULE NosUsers ------------------------------
(***************************************************************************)
(* The user table of the nos driver (drivers/nos/src/nos_hooks.c,          *)
(* nos_config.c): one bucket of the hash table g_nos.users, which the      *)
(* forward hook searches and extends on every CPU, and which goes away     *)
(* with the module.                                                        *)
(*                                                                         *)
(* The table has no lock (g_nos.lock is never taken): each pointer read    *)
(* and each pointer write of the chain is a step.  The chain is followed   *)
(* through next; pprev is only used to unlink, which happens at the head.  *)
(* No code sets user->status, so no user is ever online and what a hook    *)
(* finds in a node does not matter.  The verdict on the packet does not    *)
(* touch the table, and is the subject of Redirect.tla.                    *)
(***************************************************************************)
EXTENDS Naturals, FiniteSets

CONSTANTS Cpus,
          Macs,   \* addresses that hash into the bucket
          Nodes,  \* the memory kmalloc hands user_nodes out of
          NULL

ASSUME NullAssumption == NULL \notin Nodes \cup Macs

VARIABLES mod,    \* the module: "off", "init", "up", "unregister", "timer", "free"
          timer,  \* g_nos.timer: "off", "armed", or "fires", its function runs
          first,  \* the bucket's hlist_head
          next,   \* node->next
          mac,    \* node->mac
          live,   \* nodes that are kmalloced and not kfreed
          gcur,   \* user_hash_fini's tmp
          pc,     \* where each CPU is in nos_do
          who,    \* the mac of its packet
          p,      \* its cursor in user_hash_find
          n       \* its new node

tvars == <<first, next, mac, live>>
vars == <<mod, timer, tvars, gcur, pc, who, p, n>>

Goto(c, l) == pc' = [pc EXCEPT ![c] = l]

\* The hook is done with the table, or stopped by a BUG_ON.
Done(c) == Goto(c, "idle") /\ who' = [who EXCEPT ![c] = NULL]
Stop(c) == Goto(c, "bug") /\ who' = [who EXCEPT ![c] = NULL]

(***************************************************************************)
(* nos_do, called by nos_hook_fw for a tracked packet from br-lan to       *)
(* eth0.5; other packets pass.                                             *)
(***************************************************************************)
HookEnter(c) ==
    /\ mod = "up"
    /\ pc[c] = "idle"
    /\ \E m \in Macs : who' = [who EXCEPT ![c] = m]
    /\ p' = [p EXCEPT ![c] = first]
    /\ Goto(c, "find")
    /\ UNCHANGED <<mod, timer, tvars, gcur, n>>

\* user_hash_find, in nos_do and again in user_hash_add.  One node further,
\* or found, or not found.  In user_hash_add a found user is a return value
\* of 0, which nos_do takes for a bug.
user_hash_find(c) ==
    /\ pc[c] \in {"find", "add"}
    /\ IF p[c] # NULL /\ mac[p[c]] # who[c]
       THEN p' = [p EXCEPT ![c] = next[p[c]]] /\ UNCHANGED <<pc, who>>
       ELSE /\ p' = [p EXCEPT ![c] = NULL]
            /\ CASE p[c] # NULL /\ pc[c] = "find" -> Done(c)
                 [] p[c] # NULL /\ pc[c] = "add"  -> Stop(c)
                 [] p[c] = NULL /\ pc[c] = "find" -> Goto(c, "new") /\ UNCHANGED who
                 [] p[c] = NULL /\ pc[c] = "add"  -> Goto(c, "load") /\ UNCHANGED who
    /\ UNCHANGED <<mod, timer, tvars, gcur, n>>

\* kmalloc and memset; user_hash_add starts its own search.
NewUser(c) ==
    /\ pc[c] = "new"
    /\ \E u \in Nodes \ live :
          /\ live' = live \cup {u}
          /\ mac' = [mac EXCEPT ![u] = who[c]]
          /\ next' = [next EXCEPT ![u] = NULL]
          /\ n' = [n EXCEPT ![c] = u]
    /\ p' = [p EXCEPT ![c] = first]
    /\ Goto(c, "add")
    /\ UNCHANGED <<mod, timer, first, gcur, who>>

\* BUG_ON(!n): kmalloc(GFP_ATOMIC) may fail at any time.
NoMemory(c) ==
    /\ pc[c] = "new"
    /\ Stop(c)
    /\ UNCHANGED <<mod, timer, tvars, gcur, p, n>>

\* Mutant: hlist_add_head writes the head before it reads the old one.
AddLoad_Late(c) ==
    /\ pc[c] = "load"
    /\ first' = n[c]
    /\ next' = [next EXCEPT ![n[c]] = first']
    /\ Goto(c, "store")
    /\ UNCHANGED <<mod, timer, mac, live, gcur, who, p, n>>

\* hlist_add_head: n->next = h->first ...
AddLoad(c) ==
    /\ pc[c] = "load"
    /\ next' = [next EXCEPT ![n[c]] = first]
    /\ Goto(c, "store")
    /\ UNCHANGED <<mod, timer, first, mac, live, gcur, who, p, n>>

\* ... and h->first = n.
AddStore(c) ==
    /\ pc[c] = "store"
    /\ first' = n[c]
    /\ n' = [n EXCEPT ![c] = NULL]
    /\ Done(c)
    /\ UNCHANGED <<mod, timer, next, mac, live, gcur, p>>

(***************************************************************************)
(* Loading and unloading the module.                                       *)
(***************************************************************************)

\* nos_global_init starts the timer and clears the table.
nos_global_init ==
    /\ mod = "off"
    /\ mod' = "init"
    /\ timer' = "armed"
    /\ first' = NULL
    /\ UNCHANGED <<next, mac, live, gcur, pc, who, p, n>>

\* The sysfs file, then the hooks; when one of them fails all is undone.
Register ==
    /\ mod = "init"
    /\ mod' \in {"up", "timer"}
    /\ UNCHANGED <<timer, tvars, gcur, pc, who, p, n>>

\* Mutant: the users are freed before the hooks are unregistered.
Unregister_Late ==
    /\ mod = "up"
    /\ mod' = "timer"
    /\ UNCHANGED <<timer, tvars, gcur, pc, who, p, n>>

\* nf_unregister_hooks: no hook starts any more ...
Unregister ==
    /\ mod = "up"
    /\ mod' = "unregister"
    /\ UNCHANGED <<timer, tvars, gcur, pc, who, p, n>>

\* ... and the ones that run have ended when it returns.
Unregistered ==
    /\ mod = "unregister"
    /\ \A c \in Cpus : pc[c] = "idle"
    /\ mod' = "timer"
    /\ UNCHANGED <<timer, tvars, gcur, pc, who, p, n>>

\* The kernel takes the timer off its list and calls its function ...
TimerFires ==
    /\ timer = "armed"
    /\ timer' = "fires"
    /\ UNCHANGED <<mod, tvars, gcur, pc, who, p, n>>

\* ... which starts it again.
nos_timer_func ==
    /\ timer = "fires"
    /\ timer' = "armed"
    /\ UNCHANGED <<mod, tvars, gcur, pc, who, p, n>>

\* Mutant: del_timer does not wait for a function that runs.
nos_timer_cleanup_NoWait ==
    /\ mod = "timer"
    /\ mod' = "free"
    /\ timer' = IF timer = "armed" THEN "off" ELSE timer
    /\ gcur' = first
    /\ UNCHANGED <<tvars, pc, who, p, n>>

\* nos_global_cleanup: del_timer_sync waits for the function, and takes the
\* timer off the list however often it starts itself.
nos_timer_cleanup ==
    /\ mod = "timer"
    /\ timer # "fires"
    /\ mod' = "free"
    /\ timer' = "off"
    /\ gcur' = first
    /\ UNCHANGED <<tvars, pc, who, p, n>>

\* Mutant: the loop stays where it is.
user_hash_fini_Stay ==
    /\ mod = "free"
    /\ mod' = IF gcur = NULL THEN "off" ELSE mod
    /\ UNCHANGED <<timer, tvars, gcur, pc, who, p, n>>

\* user_hash_fini unlinks and frees node after node; hlist_del poisons next.
user_hash_fini ==
    /\ mod = "free"
    /\ IF gcur = NULL
       THEN /\ mod' = "off"
            /\ UNCHANGED <<tvars, gcur>>
       ELSE /\ gcur' = next[gcur]
            /\ first' = next[gcur]
            /\ live' = live \ {gcur}
            /\ next' = [next EXCEPT ![gcur] = NULL]
            /\ mac' = [mac EXCEPT ![gcur] = NULL]
            /\ UNCHANGED mod
    /\ UNCHANGED <<timer, pc, who, p, n>>

-----------------------------------------------------------------------------

Init ==
    /\ mod = "off"
    /\ timer = "off"
    /\ first = NULL
    /\ next = [u \in Nodes |-> NULL]
    /\ mac = [u \in Nodes |-> NULL]
    /\ live = {}
    /\ gcur = NULL
    /\ pc = [c \in Cpus |-> "idle"]
    /\ who = [c \in Cpus |-> NULL]
    /\ p = [c \in Cpus |-> NULL]
    /\ n = [c \in Cpus |-> NULL]

Hook(c) == \/ user_hash_find(c) \/ NewUser(c) \/ NoMemory(c)
           \/ AddLoad(c) \/ AddStore(c)

Unloading == Unregistered \/ nos_timer_cleanup \/ user_hash_fini

Timer == TimerFires \/ nos_timer_func

Module == nos_global_init \/ Register \/ Unregister \/ Unloading

Next == (\E c \in Cpus : HookEnter(c) \/ Hook(c)) \/ Timer \/ Module

Spec == Init /\ [][Next]_vars

\* A hook and the timer's function run to their end, and so does an unload
\* once they let it.  del_timer_sync gets its turn between two runs of the
\* function, which are 30 intervals apart.
Fairness == /\ \A c \in Cpus : WF_vars(Hook(c))
            /\ WF_vars(nos_timer_func)
            /\ WF_vars(Unregistered) /\ SF_vars(nos_timer_cleanup)
            /\ WF_vars(user_hash_fini)

FairSpec == Spec /\ Fairness

(***************************************************************************)
(* Properties.                                                             *)
(***************************************************************************)

\* S has the successors of all its nodes.
Closed(S) == \A v \in S : next[v] \in S \cup {NULL}

\* Nodes that a search from u meets: the least closed set that has u.
ChainFrom(u) ==
    {v \in Nodes : \A S \in SUBSET Nodes : Closed(S) /\ u \in S \cup {NULL} => v \in S}

\* Whatever the CPUs do to the chain at once, every search and the removal
\* of all users at unload only meet nodes that have not been freed.
NoUseAfterFree ==
    /\ ChainFrom(first) \subseteq live
    /\ ChainFrom(gcur) \subseteq live
    /\ \A c \in Cpus : ChainFrom(p[c]) \cup ({n[c]} \ {NULL}) \subseteq live

\* Adding users on several CPUs at once may lose one of them, but never
\* closes the chain to a ring: a hook's search ends, in a verdict or in one
\* of nos_do's BUG_ONs.
HooksEnd == \A c \in Cpus : pc[c] # "idle" ~> pc[c] \in {"idle", "bug"}

\* When the module's memory goes, its timer, which starts itself again each
\* time, is neither pending nor running: also after a load that failed.
TimerGone == mod \in {"free", "off"} => timer = "off"

\* An unload comes to its end unless a hook ran into a BUG_ON.
UnloadEnds ==
    mod = "unregister" ~> mod = "off" \/ \E c \in Cpus : pc[c] = "bug"
=============================================================================
