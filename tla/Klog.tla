------------------------------- MODULE Klog --------------------------------
(***************************************************************************)
(* Log levels of the klog driver (drivers/klog/src/klog_linux.c): a list   *)
(* of items under the rwlock g_klog_lock, each with a level that can be    *)
(* set for good, or for a time after which a timer restores the old one.   *)
(*                                                                         *)
(* An item lock is taken in one step and released in another, so that the  *)
(* timer callback can wait for it; what happens under the lock is one      *)
(* step.  del_timer stops a timer that has not fired; it does not wait     *)
(* for a callback that has already started on another CPU.                 *)
(*                                                                         *)
(* A level stands for the whole word, rate limit bits included.  Setting   *)
(* the interval and burst of an item takes the same locks; the two numbers *)
(* are read by nobody but __ratelimit, and are left out.                   *)
(***************************************************************************)
EXTENDS Integers, Sequences, SequencesExt

CONSTANTS Items,    \* memory blocks for klog items
          Callers,  \* threads that call klog
          Levels,   \* verbose words; 0 is silent
          NULL

ASSUME LevelsAssumption == Levels \subseteq Nat /\ 0 \in Levels
ASSUME NullAssumption == NULL \notin Levels \cup Items \cup Callers

VARIABLES list,      \* g_klog_list
          verbose,   \* item->verbose
          original,  \* item->original_verbose, 0 for no temporary level
          armed,     \* item->timer is pending
          cb,        \* restore_verbose of the item has started
          lock,      \* holder of item->lock
          call,      \* the call each thread is in, Idle for none
          readers,   \* threads that hold g_klog_lock for reading
          perm       \* history: the level last set for good, or NULL where
                     \*   the code does not promise to come back to it

ivars == <<verbose, original, armed, cb, perm>>
vars == <<list, ivars, lock, call, readers>>

Idle == [op |-> "idle", item |-> NULL, level |-> 0]

Listed == Range(list)

\* Where item->list is linked.
Position(i) == CHOOSE k \in DOMAIN list : list[k] = i

\* Threads that use an item through its logfd.
Users(i) == {c \in Callers : /\ call[c].item = i
                             /\ call[c].op \in {"temp", "perm", "rate", "fini"}}

(***************************************************************************)
(* klog_init and klog_fini.                                                *)
(***************************************************************************)

\* kmalloc leaves original_verbose with whatever the memory held.
klog_init(c, v) ==
    /\ call[c] = Idle
    /\ readers = {}
    /\ \E i \in Items \ Listed, o \in Levels :
          /\ list' = <<i>> \o list
          /\ verbose' = [verbose EXCEPT ![i] = v]
          /\ original' = [original EXCEPT ![i] = o]
          /\ perm' = [perm EXCEPT ![i] = IF v # 0 /\ o = 0 THEN v ELSE NULL]
    /\ UNCHANGED <<armed, cb, lock, call, readers>>

\* klog_fini neither stops the timer nor knows who else has the logfd: its
\* caller must know that no temporary level and no other call is under way.
Retired(i) == ~armed[i] /\ ~cb[i] /\ Users(i) = {}

FiniCall(c) ==
    /\ call[c] = Idle
    /\ \E i \in Listed : /\ Retired(i)
                         /\ call' = [call EXCEPT ![c] = [op |-> "fini", item |-> i, level |-> 0]]
    /\ UNCHANGED <<list, ivars, lock, readers>>

\* Mutant: the item is taken out of the list without the lock.
klog_fini_NoLock(c) ==
    /\ call[c].op = "fini"
    /\ LET i == call[c].item
       IN  /\ list' = RemoveAt(list, Position(i))
           /\ verbose' = [verbose EXCEPT ![i] = 0]
           /\ original' = [original EXCEPT ![i] = 0]
           /\ perm' = [perm EXCEPT ![i] = NULL]
    /\ call' = [call EXCEPT ![c] = Idle]
    /\ UNCHANGED <<armed, cb, lock, readers>>

\* The item leaves the list and is freed.  Its fields are forgotten.
klog_fini(c) ==
    /\ call[c].op = "fini"
    /\ readers = {}
    /\ LET i == call[c].item
       IN  /\ list' = RemoveAt(list, Position(i))
           /\ verbose' = [verbose EXCEPT ![i] = 0]
           /\ original' = [original EXCEPT ![i] = 0]
           /\ perm' = [perm EXCEPT ![i] = NULL]
    /\ call' = [call EXCEPT ![c] = Idle]
    /\ UNCHANGED <<armed, cb, lock, readers>>

(***************************************************************************)
(* klog_set_verbose, and the walks over the list for /proc/klog:           *)
(* klog_set_verbose_by_name and klog_show_list.                            *)
(***************************************************************************)

\* how_long = 0 changes nothing; -1 is for good; klog_set_ratelimit sets no
\* level.  The item lock is taken.
SetCall(c) ==
    /\ call[c] = Idle
    /\ \E i \in Listed, v \in Levels, op \in {"temp", "perm", "rate"} :
          /\ op = "rate" => v = 0
          /\ Users(i) = {}
          /\ lock[i] = NULL
          /\ call' = [call EXCEPT ![c] = [op |-> op, item |-> i, level |-> v]]
          /\ lock' = [lock EXCEPT ![i] = c]
    /\ UNCHANGED <<list, ivars, readers>>

\* A walk reads the first entry under the read lock; it passes the item of
\* another name without touching it.
WalkCall(c) ==
    /\ call[c] = Idle
    /\ list # <<>>
    /\ \E w \in [op : {"name"}, level : Levels] \cup [op : {"namerate", "show"}, level : {0}] :
          call' = [call EXCEPT ![c] = [op |-> w.op, item |-> Head(list), level |-> w.level]]
    /\ readers' = readers \cup {c}
    /\ UNCHANGED <<list, ivars, lock>>

\* The item has the name: spin_lock_bh(&item->lock).
NameLock(c) ==
    /\ call[c].op \in {"name", "namerate"}
    /\ lock[call[c].item] = NULL
    /\ lock' = [lock EXCEPT ![call[c].item] = c]
    /\ UNCHANGED <<list, ivars, call, readers>>

Holds(c, i) == call[c].item = i /\ lock[i] = c

\* Mutant: the level to come back to is that of the last call.
SetTemp_Newest(c) == \E i \in Items :
    /\ Holds(c, i) /\ call[c].op = "temp"
    /\ original' = [original EXCEPT ![i] = verbose[i]]
    /\ verbose' = [verbose EXCEPT ![i] = call[c].level]
    /\ armed' = [armed EXCEPT ![i] = TRUE]
    /\ perm' = [perm EXCEPT ![i] = IF cb[i] THEN NULL ELSE @]
    /\ lock' = [lock EXCEPT ![i] = NULL]
    /\ call' = [call EXCEPT ![c] = Idle]
    /\ UNCHANGED <<list, cb, readers>>

\* Mutant: del_timer_sync under the lock its callback waits for.
SetTemp_Sync(c) == \E i \in Items :
    /\ Holds(c, i) /\ call[c].op = "temp"
    /\ ~cb[i]
    /\ original' = [original EXCEPT ![i] = IF @ = 0 THEN verbose[i] ELSE @]
    /\ verbose' = [verbose EXCEPT ![i] = call[c].level]
    /\ armed' = [armed EXCEPT ![i] = TRUE]
    /\ lock' = [lock EXCEPT ![i] = NULL]
    /\ call' = [call EXCEPT ![c] = Idle]
    /\ UNCHANGED <<list, cb, perm, readers>>

\* A level for a time: what is to be restored is what was there before the
\* first of several, and the timer starts again.
SetTemp(c) == \E i \in Items :
    /\ Holds(c, i) /\ call[c].op = "temp"
    /\ original' = [original EXCEPT ![i] = IF @ = 0 THEN verbose[i] ELSE @]
    /\ verbose' = [verbose EXCEPT ![i] = call[c].level]
    /\ armed' = [armed EXCEPT ![i] = TRUE]
    /\ perm' = [perm EXCEPT ![i] = IF cb[i] THEN NULL ELSE @]
    /\ lock' = [lock EXCEPT ![i] = NULL]
    /\ call' = [call EXCEPT ![c] = Idle]
    /\ UNCHANGED <<list, cb, readers>>

\* __clear_item_timer, __set_item_verbose
SetForGood(i, v) ==
    /\ armed' = [armed EXCEPT ![i] = FALSE]
    /\ original' = [original EXCEPT ![i] = 0]
    /\ verbose' = [verbose EXCEPT ![i] = v]
    /\ perm' = [perm EXCEPT ![i] = IF cb[i] \/ v = 0 THEN NULL ELSE v]

SetPerm(c) == \E i \in Items :
    /\ Holds(c, i) /\ call[c].op = "perm"
    /\ SetForGood(i, call[c].level)
    /\ lock' = [lock EXCEPT ![i] = NULL]
    /\ call' = [call EXCEPT ![c] = Idle]
    /\ UNCHANGED <<list, cb, readers>>

klog_set_ratelimit(c) == \E i \in Items :
    /\ Holds(c, i) /\ call[c].op = "rate"
    /\ lock' = [lock EXCEPT ![i] = NULL]
    /\ call' = [call EXCEPT ![c] = Idle]
    /\ UNCHANGED <<list, ivars, readers>>

\* list_for_each_entry goes on, or ends and drops the read lock.
Advance(c) ==
    LET i == call[c].item
    IN  IF i = Last(list)
        THEN /\ call' = [call EXCEPT ![c] = Idle]
             /\ readers' = readers \ {c}
        ELSE /\ call' = [call EXCEPT ![c].item = list[Position(i) + 1]]
             /\ UNCHANGED readers

NameSet(c) == \E i \in Items :
    /\ Holds(c, i) /\ call[c].op = "name"
    /\ SetForGood(i, call[c].level)
    /\ lock' = [lock EXCEPT ![i] = NULL]
    /\ Advance(c)
    /\ UNCHANGED <<list, cb>>

klog_set_ratelimit_by_name(c) == \E i \in Items :
    /\ Holds(c, i) /\ call[c].op = "namerate"
    /\ lock' = [lock EXCEPT ![i] = NULL]
    /\ Advance(c)
    /\ UNCHANGED <<list, ivars>>

\* The name is not the item's, or the item is printed.
WalkPast(c) ==
    /\ call[c].op \in {"name", "namerate", "show"}
    /\ ~Holds(c, call[c].item)
    /\ Advance(c)
    /\ UNCHANGED <<list, ivars, lock>>

(***************************************************************************)
(* The timer: the kernel takes it off its list and calls restore_verbose,  *)
(* one call at a time for one timer.                                       *)
(***************************************************************************)

TimerFires(i) ==
    /\ armed[i] /\ ~cb[i]
    /\ armed' = [armed EXCEPT ![i] = FALSE]
    /\ cb' = [cb EXCEPT ![i] = TRUE]
    /\ UNCHANGED <<list, verbose, original, perm, lock, call, readers>>

restore_verbose(i) ==
    /\ cb[i]
    /\ lock[i] = NULL
    /\ verbose' = [verbose EXCEPT ![i] = original[i]]
    /\ original' = [original EXCEPT ![i] = 0]
    /\ cb' = [cb EXCEPT ![i] = FALSE]
    /\ UNCHANGED <<list, armed, perm, lock, call, readers>>

-----------------------------------------------------------------------------

Init ==
    /\ list = <<>>
    /\ verbose = [i \in Items |-> 0]
    /\ original = [i \in Items |-> 0]
    /\ armed = [i \in Items |-> FALSE]
    /\ cb = [i \in Items |-> FALSE]
    /\ lock = [i \in Items |-> NULL]
    /\ call = [c \in Callers |-> Idle]
    /\ readers = {}
    /\ perm = [i \in Items |-> NULL]

Start(c) == (\E v \in Levels : klog_init(c, v)) \/ FiniCall(c) \/ SetCall(c) \/ WalkCall(c)

UnderLock(c) == \/ SetTemp(c) \/ SetPerm(c) \/ NameSet(c)
                \/ klog_set_ratelimit(c) \/ klog_set_ratelimit_by_name(c)

Work(c) == klog_fini(c) \/ NameLock(c) \/ UnderLock(c) \/ WalkPast(c)

Timer(i) == TimerFires(i) \/ restore_verbose(i)

Next == \/ \E c \in Callers : Start(c) \/ Work(c)
        \/ \E i \in Items : Timer(i)

Spec == Init /\ [][Next]_vars

(***************************************************************************)
(* A thread that holds a spinlock with bottom halves off goes on.          *)
(***************************************************************************)
Fairness == \A c \in Callers : WF_vars(UnderLock(c))

FairSpec == Spec /\ Fairness

(***************************************************************************)
(* Properties.                                                             *)
(***************************************************************************)

\* A walk over the list for /proc/klog only ever stands on an item that is
\* in the list, although modules log in and out meanwhile: klog_fini frees
\* an item only after every walk that could have met it has ended.
WalksOnListedItems ==
    \A c \in Callers : call[c].op \in {"name", "namerate", "show"} =>
                          call[c].item \in Listed

\* However temporary levels, permanent ones and the expiry of the timer
\* follow each other, an item is at the level last set for good, or has that
\* level saved and its timer or the callback on the way.  The code does not
\* promise this (perm is NULL) after an item was created with a garbage
\* original_verbose, after level 0, which original_verbose cannot save, and
\* after a level was set while restore_verbose was already waiting.
RestoresPermanent ==
    \A i \in Listed : perm[i] # NULL =>
        \/ verbose[i] = perm[i] /\ original[i] = 0 /\ ~armed[i] /\ ~cb[i]
        \/ original[i] = perm[i] /\ (armed[i] \/ cb[i])

\* A thread that holds an item lock gives it back, although the callback of
\* the timer it stops may be waiting for that lock.
LocksReleased ==
    \A i \in Items : lock[i] # NULL ~> lock[i] = NULL

=============================================================================
