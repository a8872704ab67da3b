----------------------------- MODULE AuthHook ------------------------------
(***************************************************************************)
(* What the forward hook of ntrack does to one user: ntrack_hook_fw        *)
(* (ntrack_hooks.c), user_need_redirect and ntrack_user_match              *)
(* (ntrack_conf.c), the status word and the time stamp (ntrack_auth.h),    *)
(* while the rules are replaced and `nquery set' writes the status word    *)
(* from user space through the shared memory.                              *)
(*                                                                         *)
(* Hooks of the same user run on several CPUs at once; none of the user's  *)
(* fields is locked.  Every read and write of a shared field is a step; a  *)
(* "|=" is a load and a store.  The rules come from the one-sender         *)
(* protocol that AuthConf.tla shows to be safe, in its three visible       *)
(* steps: the old rules are taken out, the hooks that may hold them end,   *)
(* the new ones are put in.                                                *)
(***************************************************************************)
EXTENDS Integers, Sequences, FiniteSets

CONSTANTS Hooks,      \* hook invocations on the user's packets, one per CPU
          Confs,      \* rule lists that may be sent: sequences of
                      \*   [flags : BOOLEAN, match : BOOLEAN], match telling
                      \*   whether the user is in one of the rule's ipsets
          Verdicts,   \* what nquery may set: a subset of AUTH_REJ, AUTH_OK
          KeepAlive,  \* USR_TS_KEEP_ALIVE
          UpdateGap,  \* jiffies that pass at least between two rule updates
          MaxJiffies, \* bound on time
          NULL

AUTH_UNKNOWN == 0
AUTH_REQ == 1
AUTH_REJ == 2
AUTH_OK == 3

ASSUME TimeAssumption == /\ KeepAlive \in Nat
                         /\ UpdateGap \in Nat
                         /\ MaxJiffies \in Nat \ {0}
ASSUME ConfsAssumption ==
    /\ Confs \subseteq Seq([flags : BOOLEAN, match : BOOLEAN])
    /\ NULL \notin Nat
    /\ NULL \notin [magic : Nat, rules : Confs]
ASSUME VerdictsAssumption == Verdicts \subseteq {AUTH_REJ, AUTH_OK}

VARIABLES jiffies,
          G_AuthConf,   \* NULL or [magic, rules]
          upc,          \* where the sender of rules is
          newconf,      \* its conf_tmp
          wait,         \* hooks its grace period waits for
          rule_idx,     \* ui->hdr.rule_idx, 1 for the first rule
          rule_magic,   \* ui->hdr.rule_magic, 0 for none
          status,       \* the status bits of ui->hdr.flags
          time_stamp,   \* ui->hdr.time_stamp
          hpc,          \* where each hook is
          conf,         \* its conf in user_need_redirect
          found,        \* its i and rule->magic in ntrack_user_match
          rule,         \* its rule, an index into conf or NULL
          hset,         \* the status it sets and the word it loaded
          apc,          \* where nquery is in nt_auth_set_status
          aset,         \* the status it sets and the word it loaded
          asked,        \* history: statuses that somebody set
          stamped       \* history: when each hook last found the user timed out

uvars == <<rule_idx, rule_magic, status, time_stamp>>
cvars == <<G_AuthConf, upc, newconf, wait>>
lvars == <<conf, found, rule, hset>>
avars == <<apc, aset>>
vars == <<jiffies, cvars, uvars, hpc, lvars, avars, asked, stamped>>

Goto(h, pc) == hpc' = [hpc EXCEPT ![h] = pc]

\* The first rule with an ipset that has the user, 0 if there is none.
FirstMatch(rules) ==
    LET M == {i \in 1 .. Len(rules) : rules[i].match}
    IN  IF M = {} THEN 0 ELSE CHOOSE i \in M : \A j \in M : i <= j

NotFound == [idx |-> 0, magic |-> 0]

NoSet == [status |-> 0, word |-> 0]

\* Bitwise or of two status values.
Or(a, b) == IF a = b \/ b = 0 THEN a
            ELSE IF a = 0 THEN b ELSE AUTH_OK

(***************************************************************************)
(* The rules are replaced.                                                 *)
(***************************************************************************)

\* ntrack_conf_sync builds the new rules; all get the jiffies as magic.
UpdateParse ==
    /\ upc = "idle"
    /\ newconf # NULL => jiffies >= newconf.magic + UpdateGap
    /\ \E c \in Confs : newconf' = [magic |-> jiffies, rules |-> c]
    /\ upc' = "take"
    /\ UNCHANGED <<jiffies, G_AuthConf, wait, uvars, hpc, lvars, avars, asked, stamped>>

UpdateTake ==
    /\ upc = "take"
    /\ G_AuthConf' = NULL
    /\ wait' = IF G_AuthConf = NULL THEN {} ELSE {h \in Hooks : hpc[h] # "idle"}
    /\ upc' = "grace"
    /\ UNCHANGED <<jiffies, newconf, uvars, hpc, lvars, avars, asked, stamped>>

\* Mutant: no grace period between the old rules and the new ones.
UpdatePublish_NoGrace ==
    /\ upc = "grace"
    /\ G_AuthConf' = newconf
    /\ wait' = {}
    /\ upc' = "idle"
    /\ UNCHANGED <<jiffies, newconf, uvars, hpc, lvars, avars, asked, stamped>>

UpdatePublish ==
    /\ upc = "grace"
    /\ wait = {}
    /\ G_AuthConf' = newconf
    /\ upc' = "idle"
    /\ UNCHANGED <<jiffies, newconf, wait, uvars, hpc, lvars, avars, asked, stamped>>

(***************************************************************************)
(* ntrack_hook_fw and user_need_redirect.                                  *)
(***************************************************************************)

\* Mutant: a list without rules is used like any other.
HookEnter_NoCount(h) ==
    /\ hpc[h] = "idle"
    /\ conf' = [conf EXCEPT ![h] = G_AuthConf]
    /\ Goto(h, IF G_AuthConf = NULL THEN "time" ELSE "magic")
    /\ UNCHANGED <<jiffies, cvars, uvars, found, rule, hset, avars, asked, stamped>>

\* A tracked packet that l3filter lets through; no rules, no redirection.
HookEnter(h) ==
    /\ hpc[h] = "idle"
    /\ conf' = [conf EXCEPT ![h] = G_AuthConf]
    /\ Goto(h, IF G_AuthConf = NULL THEN "time"
               ELSE IF G_AuthConf.rules = <<>> THEN "time" ELSE "magic")
    /\ UNCHANGED <<jiffies, cvars, uvars, found, rule, hset, avars, asked, stamped>>

\* if(!ui->hdr.rule_magic)
HookMagic(h) ==
    /\ hpc[h] = "magic"
    /\ Goto(h, IF rule_magic = 0 THEN "match1" ELSE "rule1")
    /\ UNCHANGED <<jiffies, cvars, uvars, lvars, avars, asked, stamped>>

\* ntrack_user_match: no rules or no match, and user_need_redirect ends.
HookMatch(h) ==
    /\ hpc[h] \in {"match1", "match2"}
    /\ found' = [found EXCEPT ![h] =
                   IF G_AuthConf = NULL THEN NotFound
                   ELSE [idx |-> FirstMatch(G_AuthConf.rules),
                         magic |-> G_AuthConf.magic]]
    /\ Goto(h, IF found'[h].idx = 0 THEN "time"
               ELSE IF hpc[h] = "match1" THEN "idx1" ELSE "idx2")
    /\ UNCHANGED <<jiffies, cvars, uvars, conf, rule, hset, avars, asked, stamped>>

\* A match stores the rule's index, and then its magic.
HookStoreIdx(h) ==
    /\ hpc[h] \in {"idx1", "idx2"}
    /\ rule_idx' = found[h].idx
    /\ Goto(h, IF hpc[h] = "idx1" THEN "mag1" ELSE "mag2")
    /\ UNCHANGED <<jiffies, cvars, rule_magic, status, time_stamp, lvars,
                   avars, asked, stamped>>

HookStoreMagic(h) ==
    /\ hpc[h] \in {"mag1", "mag2"}
    /\ rule_magic' = found[h].magic
    /\ Goto(h, IF hpc[h] = "mag1" THEN "rule1" ELSE "rule2")
    /\ UNCHANGED <<jiffies, cvars, rule_idx, status, time_stamp, lvars,
                   avars, asked, stamped>>

\* user_get_rule: an index past the last rule is a null rule.
HookRule(h) ==
    /\ hpc[h] \in {"rule1", "rule2"}
    /\ rule' = [rule EXCEPT ![h] =
                  IF rule_idx > Len(conf[h].rules) THEN NULL ELSE rule_idx]
    /\ Goto(h, IF hpc[h] = "rule1" THEN "check" ELSE "status")
    /\ UNCHANGED <<jiffies, cvars, uvars, conf, found, hset, avars, asked, stamped>>

\* Mutant: the magic is not compared.
HookCheck_NoMagic(h) ==
    /\ hpc[h] = "check"
    /\ Goto(h, IF rule[h] = NULL THEN "oops" ELSE "status")
    /\ UNCHANGED <<jiffies, cvars, uvars, lvars, avars, asked, stamped>>

\* ui->hdr.rule_magic != rule->magic reads through a null rule.
HookCheck(h) ==
    /\ hpc[h] = "check"
    /\ Goto(h, IF rule[h] = NULL THEN "oops"
               ELSE IF rule_magic # conf[h].magic THEN "match2" ELSE "status")
    /\ UNCHANGED <<jiffies, cvars, uvars, lvars, avars, asked, stamped>>

\* Only a user without a verdict is asked to authenticate (rule->flags) or
\* authenticated at once.
HookStatus(h) ==
    /\ hpc[h] = "status"
    /\ IF rule[h] # NULL /\ status <= AUTH_REQ
       THEN LET s == IF conf[h].rules[rule[h]].flags THEN AUTH_REQ ELSE AUTH_OK
            IN  /\ hset' = [hset EXCEPT ![h].status = s]
                /\ asked' = asked \cup {s}
                /\ Goto(h, "clear")
       ELSE /\ Goto(h, "time")
            /\ UNCHANGED <<hset, asked>>
    /\ UNCHANGED <<jiffies, cvars, uvars, conf, found, rule, avars, stamped>>

\* nt_auth_set_status: flags &= ~AUTH_STATUS_MASK, flags |= status.
HookClear(h) ==
    /\ hpc[h] = "clear"
    /\ status' = 0
    /\ Goto(h, "load")
    /\ UNCHANGED <<jiffies, cvars, rule_idx, rule_magic, time_stamp, lvars,
                   avars, asked, stamped>>

HookLoad(h) ==
    /\ hpc[h] = "load"
    /\ hset' = [hset EXCEPT ![h].word = status]
    /\ Goto(h, "store")
    /\ UNCHANGED <<jiffies, cvars, uvars, conf, found, rule, avars, asked, stamped>>

\* Mutant: the status is added to the word.
HookStore_Add(h) ==
    /\ hpc[h] = "store"
    /\ status' = hset[h].word + hset[h].status
    /\ Goto(h, "time")
    /\ UNCHANGED <<jiffies, cvars, rule_idx, rule_magic, time_stamp, lvars,
                   avars, asked, stamped>>

HookStore(h) ==
    /\ hpc[h] = "store"
    /\ status' = Or(hset[h].word, hset[h].status)
    /\ Goto(h, "time")
    /\ UNCHANGED <<jiffies, cvars, rule_idx, rule_magic, time_stamp, lvars,
                   avars, asked, stamped>>

\* The hook returns NF_ACCEPT: its read-side section and its locals end.
HookReturn(h) ==
    /\ Goto(h, "idle")
    /\ wait' = wait \ {h}
    /\ conf' = [conf EXCEPT ![h] = NULL]
    /\ found' = [found EXCEPT ![h] = NotFound]
    /\ rule' = [rule EXCEPT ![h] = NULL]
    /\ hset' = [hset EXCEPT ![h] = NoSet]

\* user_timeout, after the redirection of an HTTP request if one was due.
HookTime(h) ==
    /\ hpc[h] = "time"
    /\ IF jiffies > time_stamp + KeepAlive
       THEN Goto(h, "stamp") /\ UNCHANGED <<wait, lvars>>
       ELSE HookReturn(h)
    /\ UNCHANGED <<jiffies, G_AuthConf, upc, newconf, uvars, avars, asked, stamped>>

\* Mutant: the time stamp is put back to the time of the last keep-alive.
HookStamp_Late(h) ==
    /\ hpc[h] = "stamp"
    /\ time_stamp' = time_stamp + KeepAlive
    /\ stamped' = [stamped EXCEPT ![h] = jiffies]
    /\ HookReturn(h)
    /\ UNCHANGED <<jiffies, G_AuthConf, upc, newconf, rule_idx, rule_magic,
                   status, avars, asked>>

\* user_update_timestamp; if the user is AUTH_OK the keep-alive message goes
\* to nmsg_enqueue, which NmsgQueue.tla models, and the hook is done.
HookStamp(h) ==
    /\ hpc[h] = "stamp"
    /\ time_stamp' = jiffies
    /\ stamped' = [stamped EXCEPT ![h] = jiffies]
    /\ HookReturn(h)
    /\ UNCHANGED <<jiffies, G_AuthConf, upc, newconf, rule_idx, rule_magic,
                   status, avars, asked>>

(***************************************************************************)
(* nquery set: set_user_status, another nt_auth_set_status.                *)
(***************************************************************************)

NquerySet ==
    /\ apc = "idle"
    /\ \E v \in Verdicts :
          /\ aset' = [status |-> v, word |-> 0]
          /\ asked' = asked \cup {v}
    /\ apc' = "clear"
    /\ UNCHANGED <<jiffies, cvars, uvars, hpc, lvars, stamped>>

NqueryClear ==
    /\ apc = "clear"
    /\ status' = 0
    /\ apc' = "load"
    /\ UNCHANGED <<jiffies, cvars, rule_idx, rule_magic, time_stamp, hpc, lvars,
                   aset, asked, stamped>>

NqueryLoad ==
    /\ apc = "load"
    /\ aset' = [aset EXCEPT !.word = status]
    /\ apc' = "store"
    /\ UNCHANGED <<jiffies, cvars, uvars, hpc, lvars, asked, stamped>>

NqueryStore ==
    /\ apc = "store"
    /\ status' = Or(aset.word, aset.status)
    /\ aset' = NoSet
    /\ apc' = "idle"
    /\ UNCHANGED <<jiffies, cvars, rule_idx, rule_magic, time_stamp, hpc, lvars,
                   asked, stamped>>

Tick ==
    /\ jiffies < MaxJiffies
    /\ jiffies' = jiffies + 1
    /\ UNCHANGED <<cvars, uvars, hpc, lvars, avars, asked, stamped>>

(***************************************************************************)
(* A user that connection tracking has just met, and no rules yet.         *)
(***************************************************************************)
Init ==
    /\ jiffies = 1
    /\ G_AuthConf = NULL /\ upc = "idle" /\ newconf = NULL /\ wait = {}
    /\ rule_idx = 0 /\ rule_magic = 0
    /\ status = AUTH_UNKNOWN
    /\ time_stamp = 0
    /\ hpc = [h \in Hooks |-> "idle"]
    /\ conf = [h \in Hooks |-> NULL]
    /\ found = [h \in Hooks |-> NotFound]
    /\ rule = [h \in Hooks |-> NULL]
    /\ hset = [h \in Hooks |-> NoSet]
    /\ apc = "idle" /\ aset = NoSet
    /\ asked = {AUTH_UNKNOWN}
    /\ stamped = [h \in Hooks |-> -KeepAlive]

Update == UpdateParse \/ UpdateTake \/ UpdatePublish

Hook(h) == \/ HookEnter(h) \/ HookMagic(h) \/ HookMatch(h)
           \/ HookStoreIdx(h) \/ HookStoreMagic(h) \/ HookRule(h)
           \/ HookCheck(h) \/ HookStatus(h) \/ HookClear(h) \/ HookLoad(h)
           \/ HookStore(h) \/ HookTime(h) \/ HookStamp(h)

Nquery == NquerySet \/ NqueryClear \/ NqueryLoad \/ NqueryStore

KernelNext == Update \/ (\E h \in Hooks : Hook(h)) \/ Tick

\* The kernel by itself, and with nquery writing into its memory.
KernelSpec == Init /\ [][KernelNext]_vars

Spec == Init /\ [][KernelNext \/ Nquery]_vars

(***************************************************************************)
(* Properties.                                                             *)
(***************************************************************************)

TypeOK ==
    /\ jiffies \in 1 .. MaxJiffies
    /\ upc \in {"idle", "take", "grace"}
    /\ wait \subseteq Hooks
    /\ rule_idx \in Nat /\ rule_magic \in Nat /\ time_stamp \in Nat
    /\ status \in AUTH_UNKNOWN .. AUTH_OK
    /\ hpc \in [Hooks -> {"idle", "magic", "match1", "match2", "idx1", "idx2",
                          "mag1", "mag2", "rule1", "rule2", "check", "status",
                          "clear", "load", "store", "time", "stamp", "oops"}]
    /\ apc \in {"idle", "clear", "load", "store"}
    /\ asked \subseteq AUTH_UNKNOWN .. AUTH_OK

\* The rule whose flags decide how a user is authenticated is the rule whose
\* ipsets have the user, in the rules the hook works with, although index
\* and magic are stored and read without a lock and the rules are replaced
\* underneath: a user keeps an index into older rules only together with
\* their magic.
DecidesByOwnRule ==
    \A h \in Hooks : hpc[h] = "status" /\ rule[h] # NULL =>
                        rule[h] = FirstMatch(conf[h].rules)

\* user_need_redirect does not read through a null rule: a user keeps the
\* index of a rule only as long as the lists that follow are long enough, or
\* empty, although index and magic may come from two CPUs and two lists.
NoOops == \A h \in Hooks : hpc[h] # "oops"

\* Nobody is in the middle of nt_auth_set_status.
Quiet == /\ apc = "idle"
         /\ \A h \in Hooks : hpc[h] \notin {"clear", "load", "store"}

\* The hooks of several CPUs may all set the status of one user, and each
\* clears it first; when they are done a user that was authenticated
\* automatically is AUTH_OK and stays so, even when the rule changes to a
\* web login meanwhile: hooks that work with the old rules have ended before
\* the new ones are seen.
GrantSticks == Quiet /\ AUTH_OK \in asked => status = AUTH_OK

\* The status word only ever holds a status that somebody set.
OnlyAskedStatus == Quiet => status \in asked

\* A CPU reports a user at most once per USR_TS_KEEP_ALIVE, although all
\* CPUs that find the user timed out write the same time stamp.
KeepAlivePaced ==
    \A h \in Hooks : hpc[h] = "stamp" => jiffies > stamped[h] + KeepAlive
=============================================================================
