--------------------------- MODULE AuthHookProofs --------------------------
(***************************************************************************)
(* What AuthHook.tla says of the forward hook and one user, for any number *)
(* of CPUs, any rules and any times.                                       *)
(*                                                                         *)
(* What holds of any rules is proved of Spec: types, and the pace of the   *)
(* keep-alive messages.  What needs more says so in its ASSUME: no null    *)
(* rule when no list is too short for an index that another one gives the  *)
(* user (LongEnough), and the rule that decides and the status that stays  *)
(* when the user's rule has the same place in all lists that have one      *)
(* (SteadyIndex) and no two updates have the same magic.  The README shows *)
(* what the code does otherwise.                                           *)
(***************************************************************************)
EXTENDS AuthHook, FiniteSetTheorems, WellFoundedInduction, TLAPS

-----------------------------------------------------------------------------
(* The first match *)

\* A set of numbers that is not empty has a least one.
LEMMA LeastNat ==
    ASSUME NEW T \in SUBSET Nat, T # {}
    PROVE  \E m \in T : \A k \in T : m <= k
<1> DEFINE R == {ss \in Nat \X Nat : ss[1] < ss[2]}
<1>1. IsWellFoundedOn(R, Nat)
  BY NatLessThanWellFounded DEF OpToRel
<1>2. \A x, y \in Nat : x < y => <<x, y>> \in R
  OBVIOUS
<1> HIDE DEF R
<1>3. PICK m \in T : \A k \in T : <<k, m>> \notin R
  BY <1>1, WFMin
<1>4. \A k \in T : ~(k < m)
  BY <1>2, <1>3
<1> QED
  BY <1>3, <1>4

\* ntrack_user_match finds no rule, or one of the list.
LEMMA FirstMatchInList ==
    ASSUME NEW c \in Confs
    PROVE  /\ FirstMatch(c) \in Nat
           /\ FirstMatch(c) <= Len(c)
<1> DEFINE M == {i \in 1 .. Len(c) : c[i].match}
<1>1. Len(c) \in Nat
  BY ConfsAssumption
<1>2. M \in SUBSET Nat /\ \A i \in M : i <= Len(c)
  BY <1>1
<1>3. FirstMatch(c) = IF M = {} THEN 0 ELSE CHOOSE i \in M : \A j \in M : i <= j
  BY DEF FirstMatch
<1> HIDE DEF M
<1>4. CASE M = {}
  BY <1>1, <1>3, <1>4
<1>5. CASE M # {}
  <2>1. \E i \in M : \A j \in M : i <= j
    BY <1>2, <1>5, LeastNat
  <2>2. FirstMatch(c) \in M
    BY <1>3, <1>5, <2>1
  <2> QED
    BY <1>2, <2>2
<1> QED
  BY <1>4, <1>5

-----------------------------------------------------------------------------
(* Types *)

\* Rules that were sent, with the jiffies of the update.
Conf == [magic : Nat \ {0}, rules : Confs]

StatusSet == [status : AUTH_UNKNOWN .. AUTH_OK, word : AUTH_UNKNOWN .. AUTH_OK]

\* The types of all variables.
HookTyped ==
    /\ TypeOK
    /\ G_AuthConf \in Conf \cup {NULL}
    /\ newconf \in Conf \cup {NULL}
    /\ upc # "idle" => newconf # NULL
    /\ conf \in [Hooks -> Conf \cup {NULL}]
    /\ found \in [Hooks -> [idx : Nat, magic : Nat]]
    /\ rule \in [Hooks -> Nat \cup {NULL}]
    /\ hset \in [Hooks -> StatusSet]
    /\ aset \in StatusSet
    /\ stamped \in [Hooks -> Int]

\* NULL is not taken for rules.
LEMMA NullIsNoConf == NULL \notin Conf
  BY ConfsAssumption DEF Conf

\* A status word with another one or-ed into it is one.
LEMMA OrIsStatus ==
    ASSUME NEW s \in StatusSet
    PROVE  /\ Or(s.word, s.status) \in AUTH_UNKNOWN .. AUTH_OK
           /\ s.status = AUTH_OK => Or(s.word, s.status) = AUTH_OK
  BY DEF StatusSet, Or, AUTH_UNKNOWN, AUTH_OK

\* Init has the types.
LEMMA InitTyped == Init => HookTyped
  BY TimeAssumption DEF Init, HookTyped, TypeOK, Conf, StatusSet, NotFound, NoSet,
     AUTH_UNKNOWN, AUTH_OK

\* Every step of the kernel and of nquery keeps the types.
LEMMA NextTyped == HookTyped /\ [KernelNext \/ Nquery]_vars => HookTyped'
<1> SUFFICES ASSUME HookTyped, [KernelNext \/ Nquery]_vars PROVE HookTyped'
  OBVIOUS
<1> USE TimeAssumption, NullIsNoConf
    DEF HookTyped, TypeOK, Goto, NotFound, NoSet, AUTH_UNKNOWN, AUTH_REQ, AUTH_OK,
        vars, cvars, uvars, lvars, avars
<1>1. CASE UpdateParse
  <2>1. PICK c \in Confs : newconf' = [magic |-> jiffies, rules |-> c]
    BY <1>1 DEF UpdateParse
  <2>2. newconf' \in Conf
    BY <2>1 DEF Conf
  <2> QED
    BY <1>1, <2>2 DEF UpdateParse
<1>2. CASE UpdateTake
  BY <1>2 DEF UpdateTake
<1>3. CASE UpdatePublish
  BY <1>3 DEF UpdatePublish
<1>4. ASSUME NEW h \in Hooks, HookEnter(h) PROVE HookTyped'
  BY <1>4 DEF HookEnter
<1>5. ASSUME NEW h \in Hooks, HookMagic(h) PROVE HookTyped'
  BY <1>5 DEF HookMagic
<1>6. ASSUME NEW h \in Hooks, HookMatch(h) PROVE HookTyped'
  <2>1. ASSUME G_AuthConf # NULL
        PROVE  FirstMatch(G_AuthConf.rules) \in Nat /\ G_AuthConf.magic \in Nat
    BY <2>1, FirstMatchInList DEF Conf
  <2> QED
    BY <1>6, <2>1 DEF HookMatch
<1>7. ASSUME NEW h \in Hooks, HookStoreIdx(h) PROVE HookTyped'
  BY <1>7 DEF HookStoreIdx
<1>8. ASSUME NEW h \in Hooks, HookStoreMagic(h) PROVE HookTyped'
  BY <1>8 DEF HookStoreMagic
<1>9. ASSUME NEW h \in Hooks, HookRule(h) PROVE HookTyped'
  BY <1>9 DEF HookRule
<1>10. ASSUME NEW h \in Hooks, HookCheck(h) PROVE HookTyped'
  BY <1>10 DEF HookCheck
<1>11. ASSUME NEW h \in Hooks, HookStatus(h) PROVE HookTyped'
  <2> DEFINE s == IF conf[h].rules[rule[h]].flags THEN AUTH_REQ ELSE AUTH_OK
  <2>1. /\ hset' \in {hset, [hset EXCEPT ![h].status = s]}
        /\ asked' \in {asked, asked \cup {s}}
        /\ hpc' \in {[hpc EXCEPT ![h] = "clear"], [hpc EXCEPT ![h] = "time"]}
        /\ UNCHANGED <<jiffies, cvars, uvars, conf, found, rule, avars, stamped>>
    BY <1>11 DEF HookStatus
  <2>2. s \in AUTH_UNKNOWN .. AUTH_OK
    OBVIOUS
  <2> HIDE DEF s
  <2>3. hset' \in [Hooks -> StatusSet]
    BY <2>1, <2>2 DEF StatusSet
  <2> QED
    BY <2>1, <2>2, <2>3
<1>12. ASSUME NEW h \in Hooks, HookClear(h) PROVE HookTyped'
  BY <1>12 DEF HookClear
<1>13. ASSUME NEW h \in Hooks, HookLoad(h) PROVE HookTyped'
  BY <1>13 DEF HookLoad, StatusSet
<1>14. ASSUME NEW h \in Hooks, HookStore(h) PROVE HookTyped'
  <2>1. hset[h] \in StatusSet OBVIOUS
  <2>2. status' \in AUTH_UNKNOWN .. AUTH_OK
    BY <1>14, <2>1, OrIsStatus DEF HookStore
  <2> QED
    BY <1>14, <2>2 DEF HookStore
<1>15. ASSUME NEW h \in Hooks, HookTime(h) PROVE HookTyped'
  <2>1. CASE jiffies > time_stamp + KeepAlive
    BY <1>15, <2>1 DEF HookTime
  <2>2. CASE ~(jiffies > time_stamp + KeepAlive)
    <3>1. HookReturn(h) BY <1>15, <2>2 DEF HookTime
    <3>2. hset' \in [Hooks -> StatusSet]
      BY <3>1 DEF HookReturn, StatusSet
    <3>3. /\ conf' \in [Hooks -> Conf \cup {NULL}]
          /\ found' \in [Hooks -> [idx : Nat, magic : Nat]]
          /\ rule' \in [Hooks -> Nat \cup {NULL}]
          /\ wait' \subseteq Hooks
      BY <3>1 DEF HookReturn
    <3> QED
      BY <1>15, <2>2, <3>1, <3>2, <3>3 DEF HookTime, HookReturn
  <2> QED
    BY <2>1, <2>2
<1>16. ASSUME NEW h \in Hooks, HookStamp(h) PROVE HookTyped'
  BY <1>16 DEF HookStamp, HookReturn, StatusSet
<1>17. CASE NquerySet
  BY <1>17, VerdictsAssumption DEF NquerySet, StatusSet, AUTH_REJ
<1>18. CASE NqueryClear
  BY <1>18 DEF NqueryClear
<1>19. CASE NqueryLoad
  BY <1>19 DEF NqueryLoad, StatusSet
<1>20. CASE NqueryStore
  <2>1. status' \in AUTH_UNKNOWN .. AUTH_OK
    BY <1>20, OrIsStatus DEF NqueryStore
  <2> QED
    BY <1>20, <2>1 DEF NqueryStore, StatusSet
<1>21. CASE Tick
  BY <1>21 DEF Tick
<1>22. CASE UNCHANGED vars
  BY <1>22
<1> QED
  BY <1>1, <1>2, <1>3, <1>4, <1>5, <1>6, <1>7, <1>8, <1>9, <1>10, <1>11, <1>12,
     <1>13, <1>14, <1>15, <1>16, <1>17, <1>18, <1>19, <1>20, <1>21, <1>22
  DEF Update, Hook, KernelNext, Nquery

LEMMA TypedAlways == Spec => []HookTyped
<1>1. HookTyped /\ [KernelNext \/ Nquery]_vars => HookTyped'
  BY NextTyped
<1> QED
  BY InitTyped, <1>1, PTL DEF Spec

\* The variables keep their types; the status word is one of the four
\* statuses at every moment, whatever hooks and nquery or into it.
THEOREM HookTypeOK == Spec => []TypeOK
<1>1. HookTyped => TypeOK
  BY DEF HookTyped
<1> QED
  BY <1>1, TypedAlways, PTL

-----------------------------------------------------------------------------
(* The pace of the keep-alive messages *)

\* The time stamp is no older than any report of the user, on any CPU.
PaceInv ==
    /\ time_stamp <= jiffies
    /\ \A h \in Hooks : stamped[h] <= time_stamp
    /\ KeepAlivePaced

LEMMA InitPace == Init => PaceInv
  BY TimeAssumption DEF Init, PaceInv, KeepAlivePaced

\* A CPU that finds the user timed out does so by the latest time stamp;
\* other CPUs only put it forward.
LEMMA NextPace == HookTyped /\ PaceInv /\ [KernelNext \/ Nquery]_vars => PaceInv'
<1> SUFFICES ASSUME HookTyped, PaceInv, [KernelNext \/ Nquery]_vars PROVE PaceInv'
  OBVIOUS
<1>0. /\ jiffies \in Nat /\ time_stamp \in Nat /\ KeepAlive \in Nat
      /\ stamped \in [Hooks -> Int]
      /\ DOMAIN hpc = Hooks
  BY TimeAssumption DEF HookTyped, TypeOK
<1> USE <1>0 DEF PaceInv, KeepAlivePaced, Goto, vars, cvars, uvars, lvars, avars
<1>1. CASE UpdateParse
  BY <1>1 DEF UpdateParse
<1>2. CASE UpdateTake
  BY <1>2 DEF UpdateTake
<1>3. CASE UpdatePublish
  BY <1>3 DEF UpdatePublish
<1>4. ASSUME NEW h \in Hooks, HookEnter(h) PROVE PaceInv'
  BY <1>4 DEF HookEnter
<1>5. ASSUME NEW h \in Hooks, HookMagic(h) PROVE PaceInv'
  BY <1>5 DEF HookMagic
<1>6. ASSUME NEW h \in Hooks, HookMatch(h) PROVE PaceInv'
  BY <1>6 DEF HookMatch
<1>7. ASSUME NEW h \in Hooks, HookStoreIdx(h) PROVE PaceInv'
  BY <1>7 DEF HookStoreIdx
<1>8. ASSUME NEW h \in Hooks, HookStoreMagic(h) PROVE PaceInv'
  BY <1>8 DEF HookStoreMagic
<1>9. ASSUME NEW h \in Hooks, HookRule(h) PROVE PaceInv'
  BY <1>9 DEF HookRule
<1>10. ASSUME NEW h \in Hooks, HookCheck(h) PROVE PaceInv'
  BY <1>10 DEF HookCheck
<1>11. ASSUME NEW h \in Hooks, HookStatus(h) PROVE PaceInv'
  BY <1>11 DEF HookStatus
<1>12. ASSUME NEW h \in Hooks, HookClear(h) PROVE PaceInv'
  BY <1>12 DEF HookClear
<1>13. ASSUME NEW h \in Hooks, HookLoad(h) PROVE PaceInv'
  BY <1>13 DEF HookLoad
<1>14. ASSUME NEW h \in Hooks, HookStore(h) PROVE PaceInv'
  BY <1>14 DEF HookStore
<1>15. ASSUME NEW h \in Hooks, HookTime(h) PROVE PaceInv'
  BY <1>15 DEF HookTime, HookReturn
<1>16. ASSUME NEW h \in Hooks, HookStamp(h) PROVE PaceInv'
  BY <1>16 DEF HookStamp, HookReturn
<1>17. CASE NquerySet
  BY <1>17 DEF NquerySet
<1>18. CASE NqueryClear
  BY <1>18 DEF NqueryClear
<1>19. CASE NqueryLoad
  BY <1>19 DEF NqueryLoad
<1>20. CASE NqueryStore
  BY <1>20 DEF NqueryStore
<1>21. CASE Tick
  BY <1>21 DEF Tick
<1>22. CASE UNCHANGED vars
  BY <1>22
<1> QED
  BY <1>1, <1>2, <1>3, <1>4, <1>5, <1>6, <1>7, <1>8, <1>9, <1>10, <1>11, <1>12,
     <1>13, <1>14, <1>15, <1>16, <1>17, <1>18, <1>19, <1>20, <1>21, <1>22
  DEF Update, Hook, KernelNext, Nquery

\* A CPU reports a user at most once per USR_TS_KEEP_ALIVE, on any number of
\* CPUs that write the time stamp without a lock.
THEOREM HookKeepAlivePaced == Spec => []KeepAlivePaced
<1>1. HookTyped /\ PaceInv /\ [KernelNext \/ Nquery]_vars => PaceInv'
  BY NextPace
<1>2. PaceInv => KeepAlivePaced
  BY DEF PaceInv
<1> QED
  BY InitPace, <1>1, <1>2, TypedAlways, PTL DEF Spec

-----------------------------------------------------------------------------
(* No null rule *)

\* No list that has rules is too short for the place that the user's rule
\* has in another one.
LongEnough == \A c, d \in Confs : d # <<>> => FirstMatch(c) <= Len(d)

\* A place that some list gives to the user's rule, or none yet.
Index == {0} \cup {FirstMatch(c) : c \in Confs}

\* Where a hook is while it uses its rules.
Working == {"magic", "match1", "match2", "idx1", "idx2", "mag1", "mag2", "rule1",
            "rule2", "check", "status", "clear", "load", "store"}

\* Indexes come from lists, a hook works with a list that has rules, and
\* the rule it is about to read through is not null.
IndexInv ==
    /\ rule_idx \in Index
    /\ \A h \in Hooks : found[h].idx \in Index
    /\ \A h \in Hooks : hpc[h] \in Working => /\ conf[h] # NULL
                                              /\ conf[h].rules # <<>>
    /\ \A h \in Hooks : hpc[h] = "check" => rule[h] # NULL
    /\ NoOops

LEMMA InitIndex == Init => IndexInv
  BY DEF Init, IndexInv, Index, NotFound, NoOops, Working

LEMMA NextIndex ==
    ASSUME LongEnough
    PROVE  HookTyped /\ IndexInv /\ [KernelNext \/ Nquery]_vars => IndexInv'
<1> SUFFICES ASSUME HookTyped, IndexInv, [KernelNext \/ Nquery]_vars PROVE IndexInv'
  OBVIOUS
<1>0. /\ DOMAIN hpc = Hooks /\ DOMAIN conf = Hooks
      /\ DOMAIN found = Hooks /\ DOMAIN rule = Hooks
  BY DEF HookTyped, TypeOK
<1> USE <1>0 DEF IndexInv, NoOops, Goto, vars, cvars, uvars, lvars, avars
<1>1. CASE UpdateParse
  BY <1>1 DEF UpdateParse
<1>2. CASE UpdateTake
  BY <1>2 DEF UpdateTake
<1>3. CASE UpdatePublish
  BY <1>3 DEF UpdatePublish
<1>4. ASSUME NEW h \in Hooks, HookEnter(h) PROVE IndexInv'
  BY <1>4 DEF HookEnter, Working
<1>5. ASSUME NEW h \in Hooks, HookMagic(h) PROVE IndexInv'
  BY <1>5 DEF HookMagic, Working
<1>6. ASSUME NEW h \in Hooks, HookMatch(h) PROVE IndexInv'
  <2>1. found'[h].idx \in Index
    BY <1>6 DEF HookMatch, HookTyped, Conf, Index, NotFound
  <2> QED
    BY <1>6, <2>1 DEF HookMatch, Working
<1>7. ASSUME NEW h \in Hooks, HookStoreIdx(h) PROVE IndexInv'
  BY <1>7 DEF HookStoreIdx, Working
<1>8. ASSUME NEW h \in Hooks, HookStoreMagic(h) PROVE IndexInv'
  BY <1>8 DEF HookStoreMagic, Working
<1>9. ASSUME NEW h \in Hooks, HookRule(h) PROVE IndexInv'
  <2>1. conf[h] # NULL /\ conf[h].rules # <<>>
    BY <1>9 DEF HookRule, Working
  <2>2. conf[h].rules \in Confs
    BY <2>1 DEF HookTyped, Conf
  <2>3. rule_idx <= Len(conf[h].rules)
    BY <2>1, <2>2, LongEnough, ConfsAssumption DEF Index, LongEnough
  <2>4. rule_idx \in Nat /\ Len(conf[h].rules) \in Nat
    BY <2>2, ConfsAssumption DEF HookTyped, TypeOK
  <2>5. rule'[h] = rule_idx
    BY <1>9, <2>3, <2>4 DEF HookRule
  <2>6. rule'[h] # NULL
    BY <2>4, <2>5, ConfsAssumption
  <2> QED
    BY <1>9, <2>6 DEF HookRule, Working
<1>10. ASSUME NEW h \in Hooks, HookCheck(h) PROVE IndexInv'
  BY <1>10 DEF HookCheck, Working
<1>11. ASSUME NEW h \in Hooks, HookStatus(h) PROVE IndexInv'
  BY <1>11 DEF HookStatus, Working
<1>12. ASSUME NEW h \in Hooks, HookClear(h) PROVE IndexInv'
  BY <1>12 DEF HookClear, Working
<1>13. ASSUME NEW h \in Hooks, HookLoad(h) PROVE IndexInv'
  BY <1>13 DEF HookLoad, Working
<1>14. ASSUME NEW h \in Hooks, HookStore(h) PROVE IndexInv'
  BY <1>14 DEF HookStore, Working
<1>15. ASSUME NEW h \in Hooks, HookTime(h) PROVE IndexInv'
  BY <1>15 DEF HookTime, HookReturn, Working, Index, NotFound
<1>16. ASSUME NEW h \in Hooks, HookStamp(h) PROVE IndexInv'
  BY <1>16 DEF HookStamp, HookReturn, Working, Index, NotFound
<1>17. CASE NquerySet
  BY <1>17 DEF NquerySet
<1>18. CASE NqueryClear
  BY <1>18 DEF NqueryClear
<1>19. CASE NqueryLoad
  BY <1>19 DEF NqueryLoad
<1>20. CASE NqueryStore
  BY <1>20 DEF NqueryStore
<1>21. CASE Tick
  BY <1>21 DEF Tick
<1>22. CASE UNCHANGED vars
  BY <1>22
<1> QED
  BY <1>1, <1>2, <1>3, <1>4, <1>5, <1>6, <1>7, <1>8, <1>9, <1>10, <1>11, <1>12,
     <1>13, <1>14, <1>15, <1>16, <1>17, <1>18, <1>19, <1>20, <1>21, <1>22
  DEF Update, Hook, KernelNext, Nquery

\* user_need_redirect never reads through a null rule when no list is too
\* short, although the index may come from one list and another CPU, and the
\* list from a later update.
THEOREM HookNoOops == ASSUME LongEnough PROVE Spec => []NoOops
<1>1. HookTyped /\ IndexInv /\ [KernelNext \/ Nquery]_vars => IndexInv'
  BY LongEnough, NextIndex
<1>2. IndexInv => NoOops
  BY DEF IndexInv
<1> QED
  BY InitIndex, <1>1, <1>2, TypedAlways, PTL DEF Spec

-----------------------------------------------------------------------------
(* One list at a time *)

\* What the grace period gives: the hooks that have rules all have the same
\* ones, those that are in force or those that were just taken out, and then
\* the sender waits for them.
EraInv ==
    /\ upc = "idle" => G_AuthConf = newconf
    /\ upc = "grace" => G_AuthConf = NULL
    /\ \A h \in Hooks : hpc[h] = "idle" => conf[h] = NULL
    /\ \A h \in Hooks : hpc[h] \in Working => conf[h] # NULL
    /\ \A h \in Hooks : conf[h] # NULL =>
          /\ upc # "grace" => conf[h] = G_AuthConf
          /\ upc = "grace" => h \in wait
    /\ \A g, h \in Hooks : conf[g] # NULL /\ conf[h] # NULL => conf[g] = conf[h]

\* No magic is that of rules which are still to come.
MagicInv ==
    /\ newconf # NULL => newconf.magic <= jiffies
    /\ upc = "take" /\ G_AuthConf # NULL => G_AuthConf.magic < newconf.magic
    /\ upc = "idle" /\ newconf = NULL =>
          rule_magic = 0 /\ \A h \in Hooks : found[h].magic = 0
    /\ upc = "idle" /\ newconf # NULL =>
          /\ rule_magic <= newconf.magic
          /\ \A h \in Hooks : found[h].magic <= newconf.magic
    /\ upc # "idle" =>
          /\ rule_magic < newconf.magic
          /\ \A h \in Hooks : found[h].magic < newconf.magic

\* The user's rule has the same place in all lists that have one.
SteadyIndex ==
    \A c, d \in Confs : FirstMatch(c) # 0 /\ FirstMatch(d) # 0
                          => FirstMatch(c) = FirstMatch(d)

\* The user has a rule in these rules.
Has(c) == FirstMatch(c.rules) # 0

\* What a hook found is in its own rules, and a user who has the magic of
\* rules has a rule in them.
OwnInv ==
    /\ rule_idx \in Index
    /\ rule_magic # 0 => rule_idx # 0
    /\ G_AuthConf # NULL /\ rule_magic = G_AuthConf.magic => Has(G_AuthConf)
    /\ \A h \in Hooks :
          /\ conf[h] # NULL /\ rule_magic = conf[h].magic => Has(conf[h])
          /\ hpc[h] \in {"idx1", "idx2", "mag1", "mag2"} =>
                /\ found[h].idx = FirstMatch(conf[h].rules)
                /\ found[h].magic = conf[h].magic
                /\ Has(conf[h])
          /\ hpc[h] = "rule2" => Has(conf[h])
          /\ hpc[h] \in {"mag1", "mag2", "rule1", "rule2"} => rule_idx # 0
          /\ hpc[h] = "check" /\ rule[h] # NULL => rule[h] \in Index \ {0}
    /\ DecidesByOwnRule

\* How the rules have the user authenticated.
Outcome(c) == IF c.rules[FirstMatch(c.rules)].flags THEN AUTH_REQ ELSE AUTH_OK

Setting(h) == hpc[h] \in {"clear", "load", "store"}

\* All hooks that set the status set the same one, and once that was AUTH_OK
\* it stays, or a hook that is setting it sets it again.
GrantInv ==
    /\ apc = "idle"
    /\ \A h \in Hooks : Setting(h) => hset[h].status = Outcome(conf[h])
    /\ AUTH_OK \in asked => \A h \in Hooks : Setting(h) => hset[h].status = AUTH_OK
    /\ GrantSticks

LEMMA InitEra == Init => EraInv /\ MagicInv
  BY DEF Init, EraInv, MagicInv, Working, NotFound

\* Hooks read the rules in force; the sender waits for those that have them.
LEMMA NextEra == HookTyped /\ EraInv /\ [KernelNext \/ Nquery]_vars => EraInv'
<1> SUFFICES ASSUME HookTyped, EraInv, [KernelNext \/ Nquery]_vars PROVE EraInv'
  OBVIOUS
<1>0. /\ DOMAIN hpc = Hooks /\ DOMAIN conf = Hooks
      /\ upc \in {"idle", "take", "grace"}
  BY DEF HookTyped, TypeOK
<1> USE <1>0 DEF EraInv, Goto, vars, cvars, uvars, lvars, avars
<1>1. CASE UpdateParse
  BY <1>1 DEF UpdateParse
<1>2. CASE UpdateTake
  BY <1>2 DEF UpdateTake
<1>3. CASE UpdatePublish
  BY <1>3 DEF UpdatePublish
<1>4. ASSUME NEW h \in Hooks, HookEnter(h) PROVE EraInv'
  BY <1>4 DEF HookEnter, Working
<1>5. ASSUME NEW h \in Hooks, HookMagic(h) PROVE EraInv'
  BY <1>5 DEF HookMagic, Working
<1>6. ASSUME NEW h \in Hooks, HookMatch(h) PROVE EraInv'
  BY <1>6 DEF HookMatch, Working
<1>7. ASSUME NEW h \in Hooks, HookStoreIdx(h) PROVE EraInv'
  BY <1>7 DEF HookStoreIdx, Working
<1>8. ASSUME NEW h \in Hooks, HookStoreMagic(h) PROVE EraInv'
  BY <1>8 DEF HookStoreMagic, Working
<1>9. ASSUME NEW h \in Hooks, HookRule(h) PROVE EraInv'
  BY <1>9 DEF HookRule, Working
<1>10. ASSUME NEW h \in Hooks, HookCheck(h) PROVE EraInv'
  BY <1>10 DEF HookCheck, Working
<1>11. ASSUME NEW h \in Hooks, HookStatus(h) PROVE EraInv'
  BY <1>11 DEF HookStatus, Working
<1>12. ASSUME NEW h \in Hooks, HookClear(h) PROVE EraInv'
  BY <1>12 DEF HookClear, Working
<1>13. ASSUME NEW h \in Hooks, HookLoad(h) PROVE EraInv'
  BY <1>13 DEF HookLoad, Working
<1>14. ASSUME NEW h \in Hooks, HookStore(h) PROVE EraInv'
  BY <1>14 DEF HookStore, Working
<1>15. ASSUME NEW h \in Hooks, HookTime(h) PROVE EraInv'
  BY <1>15 DEF HookTime, HookReturn, Working
<1>16. ASSUME NEW h \in Hooks, HookStamp(h) PROVE EraInv'
  BY <1>16 DEF HookStamp, HookReturn, Working
<1>17. CASE NquerySet
  BY <1>17 DEF NquerySet
<1>18. CASE NqueryClear
  BY <1>18 DEF NqueryClear
<1>19. CASE NqueryLoad
  BY <1>19 DEF NqueryLoad
<1>20. CASE NqueryStore
  BY <1>20 DEF NqueryStore
<1>21. CASE Tick
  BY <1>21 DEF Tick
<1>22. CASE UNCHANGED vars
  BY <1>22
<1> QED
  BY <1>1, <1>2, <1>3, <1>4, <1>5, <1>6, <1>7, <1>8, <1>9, <1>10, <1>11, <1>12,
     <1>13, <1>14, <1>15, <1>16, <1>17, <1>18, <1>19, <1>20, <1>21, <1>22
  DEF Update, Hook, KernelNext, Nquery

\* New rules get a magic that no older ones had.
LEMMA NextMagic ==
    ASSUME UpdateGap # 0
    PROVE  HookTyped /\ EraInv /\ MagicInv /\ [KernelNext \/ Nquery]_vars => MagicInv'
<1> SUFFICES ASSUME HookTyped, EraInv, MagicInv, [KernelNext \/ Nquery]_vars
             PROVE  MagicInv'
  OBVIOUS
<1>0. /\ jiffies \in Nat \ {0} /\ rule_magic \in Nat /\ UpdateGap \in Nat \ {0}
      /\ found \in [Hooks -> [idx : Nat, magic : Nat]]
      /\ newconf # NULL => newconf.magic \in Nat \ {0}
      /\ G_AuthConf # NULL => G_AuthConf.magic \in Nat \ {0}
      /\ upc # "idle" => newconf # NULL
      /\ upc \in {"idle", "take", "grace"}
  BY TimeAssumption DEF HookTyped, TypeOK, Conf
<1> USE <1>0 DEF MagicInv, Goto, vars, cvars, uvars, lvars, avars
<1>1. CASE UpdateParse
  <2>1. PICK c \in Confs : newconf' = [magic |-> jiffies, rules |-> c]
    BY <1>1 DEF UpdateParse
  <2>2. newconf' # NULL /\ newconf'.magic = jiffies
    BY <2>1, ConfsAssumption
  <2>3. upc' = "take" /\ upc = "idle" /\ G_AuthConf = newconf
    BY <1>1 DEF UpdateParse, EraInv
  <2>4. CASE newconf = NULL
    BY <1>1, <2>2, <2>3, <2>4 DEF UpdateParse
  <2>5. CASE newconf # NULL
    <3>1. newconf.magic < jiffies
      BY <1>1, <2>5 DEF UpdateParse
    <3> QED
      BY <1>1, <2>2, <2>3, <2>5, <3>1 DEF UpdateParse
  <2> QED
    BY <2>4, <2>5
<1>2. CASE UpdateTake
  BY <1>2 DEF UpdateTake
<1>3. CASE UpdatePublish
  BY <1>3 DEF UpdatePublish
<1>4. ASSUME NEW h \in Hooks, HookEnter(h) PROVE MagicInv'
  BY <1>4 DEF HookEnter
<1>5. ASSUME NEW h \in Hooks, HookMagic(h) PROVE MagicInv'
  BY <1>5 DEF HookMagic
<1>6. ASSUME NEW h \in Hooks, HookMatch(h) PROVE MagicInv'
  <2> DEFINE m == IF G_AuthConf = NULL THEN 0 ELSE G_AuthConf.magic
  <2>1. /\ found'[h].magic = m
        /\ \A g \in Hooks \ {h} : found'[g] = found[g]
        /\ UNCHANGED <<upc, newconf, jiffies, rule_magic, G_AuthConf>>
    BY <1>6 DEF HookMatch, NotFound
  <2>2. /\ m \in Nat
        /\ upc = "idle" /\ newconf = NULL => m = 0
        /\ upc = "idle" /\ newconf # NULL => m = newconf.magic
        /\ upc # "idle" => m < newconf.magic
    BY DEF EraInv
  <2> HIDE DEF m
  <2>3. ASSUME NEW g \in Hooks
        PROVE  /\ upc = "idle" /\ newconf = NULL => found'[g].magic = 0
               /\ upc = "idle" /\ newconf # NULL => found'[g].magic <= newconf.magic
               /\ upc # "idle" => found'[g].magic < newconf.magic
    BY <2>1, <2>2
  <2> QED
    BY <2>1, <2>3
<1>7. ASSUME NEW h \in Hooks, HookStoreIdx(h) PROVE MagicInv'
  BY <1>7 DEF HookStoreIdx
<1>8. ASSUME NEW h \in Hooks, HookStoreMagic(h) PROVE MagicInv'
  <2>1. /\ rule_magic' = found[h].magic
        /\ UNCHANGED <<upc, newconf, jiffies, found, G_AuthConf>>
    BY <1>8 DEF HookStoreMagic
  <2> QED
    BY <2>1
<1>9. ASSUME NEW h \in Hooks, HookRule(h) PROVE MagicInv'
  BY <1>9 DEF HookRule
<1>10. ASSUME NEW h \in Hooks, HookCheck(h) PROVE MagicInv'
  BY <1>10 DEF HookCheck
<1>11. ASSUME NEW h \in Hooks, HookStatus(h) PROVE MagicInv'
  BY <1>11 DEF HookStatus
<1>12. ASSUME NEW h \in Hooks, HookClear(h) PROVE MagicInv'
  BY <1>12 DEF HookClear
<1>13. ASSUME NEW h \in Hooks, HookLoad(h) PROVE MagicInv'
  BY <1>13 DEF HookLoad
<1>14. ASSUME NEW h \in Hooks, HookStore(h) PROVE MagicInv'
  BY <1>14 DEF HookStore
<1>15. ASSUME NEW h \in Hooks, HookTime(h) PROVE MagicInv'
  <2>1. /\ \A g \in Hooks : found'[g].magic \in {found[g].magic, 0}
        /\ UNCHANGED <<upc, newconf, jiffies, rule_magic, G_AuthConf>>
    BY <1>15 DEF HookTime, HookReturn, NotFound
  <2> QED
    BY <2>1
<1>16. ASSUME NEW h \in Hooks, HookStamp(h) PROVE MagicInv'
  <2>1. /\ \A g \in Hooks : found'[g].magic \in {found[g].magic, 0}
        /\ UNCHANGED <<upc, newconf, jiffies, rule_magic, G_AuthConf>>
    BY <1>16 DEF HookStamp, HookReturn, NotFound
  <2> QED
    BY <2>1
<1>17. CASE NquerySet
  BY <1>17 DEF NquerySet
<1>18. CASE NqueryClear
  BY <1>18 DEF NqueryClear
<1>19. CASE NqueryLoad
  BY <1>19 DEF NqueryLoad
<1>20. CASE NqueryStore
  BY <1>20 DEF NqueryStore
<1>21. CASE Tick
  BY <1>21 DEF Tick
<1>22. CASE UNCHANGED vars
  BY <1>22
<1> QED
  BY <1>1, <1>2, <1>3, <1>4, <1>5, <1>6, <1>7, <1>8, <1>9, <1>10, <1>11, <1>12,
     <1>13, <1>14, <1>15, <1>16, <1>17, <1>18, <1>19, <1>20, <1>21, <1>22
  DEF Update, Hook, KernelNext, Nquery

LEMMA InitOwn == Init => OwnInv /\ GrantInv
  BY ConfsAssumption DEF Init, OwnInv, Index, DecidesByOwnRule, GrantInv, Setting,
     GrantSticks, AUTH_OK, AUTH_UNKNOWN

\* A hook stores what it found in its own rules, which are in force or were
\* just taken out; it keeps an index that it read earlier only if the magic
\* says that the user has a rule in its rules, and that has the same place.
LEMMA NextOwn ==
    ASSUME SteadyIndex
    PROVE  HookTyped /\ EraInv /\ MagicInv /\ OwnInv /\ [KernelNext \/ Nquery]_vars
             => OwnInv'
<1> SUFFICES ASSUME HookTyped, EraInv, MagicInv, OwnInv, [KernelNext \/ Nquery]_vars
             PROVE  OwnInv'
  OBVIOUS
<1>0. /\ DOMAIN hpc = Hooks /\ DOMAIN conf = Hooks
      /\ DOMAIN found = Hooks /\ DOMAIN rule = Hooks
      /\ upc \in {"idle", "take", "grace"}
  BY DEF HookTyped, TypeOK
<1>c. \A c \in Conf : Has(c) => FirstMatch(c.rules) \in Index \ {0}
  BY DEF Conf, Index, Has
<1>i. \A i \in Index \ {0}, c \in Conf : Has(c) => i = FirstMatch(c.rules)
  BY SteadyIndex DEF Conf, Index, Has, SteadyIndex
<1>h. \A h \in Hooks : hpc[h] \in Working => conf[h] \in Conf
  BY DEF EraInv, HookTyped
<1>n. \A i \in Index : i \in Nat /\ i # NULL
  BY FirstMatchInList, ConfsAssumption DEF Index
<1> USE <1>0 DEF OwnInv, DecidesByOwnRule, Goto, vars, cvars, uvars, lvars, avars
<1>1. CASE UpdateParse
  BY <1>1 DEF UpdateParse
<1>2. CASE UpdateTake
  BY <1>2 DEF UpdateTake
<1>3. CASE UpdatePublish
  <2>1. /\ G_AuthConf' = newconf /\ rule_magic < newconf.magic
        /\ rule_magic \in Nat /\ newconf.magic \in Nat
    BY <1>3 DEF UpdatePublish, MagicInv, HookTyped, TypeOK, Conf
  <2>2. G_AuthConf' # NULL => rule_magic # G_AuthConf'.magic
    BY <2>1
  <2> QED
    BY <1>3, <2>2 DEF UpdatePublish
<1>4. ASSUME NEW h \in Hooks, HookEnter(h) PROVE OwnInv'
  BY <1>4 DEF HookEnter
<1>5. ASSUME NEW h \in Hooks, HookMagic(h) PROVE OwnInv'
  BY <1>5 DEF HookMagic
<1>6. ASSUME NEW h \in Hooks, HookMatch(h) PROVE OwnInv'
  <2>1. /\ conf[h] \in Conf /\ conf[h] # NULL
        /\ G_AuthConf # NULL => G_AuthConf = conf[h]
    BY <1>6, <1>h DEF HookMatch, EraInv, Working
  <2>2. CASE found'[h].idx = 0
    BY <1>6, <2>2 DEF HookMatch
  <2>3. CASE found'[h].idx # 0
    <3>1. /\ G_AuthConf = conf[h]
          /\ found'[h].idx = FirstMatch(conf[h].rules)
          /\ found'[h].magic = conf[h].magic
          /\ Has(conf[h])
      BY <1>6, <2>1, <2>3 DEF HookMatch, NotFound, Has
    <3> QED
      BY <1>6, <2>3, <3>1 DEF HookMatch
  <2> QED
    BY <2>2, <2>3
<1>7. ASSUME NEW h \in Hooks, HookStoreIdx(h) PROVE OwnInv'
  <2>1. conf[h] \in Conf /\ Has(conf[h]) /\ rule_idx' = FirstMatch(conf[h].rules)
    BY <1>7, <1>h DEF HookStoreIdx, Working
  <2>2. rule_idx' \in Index \ {0}
    BY <1>c, <2>1
  <2> QED
    BY <1>7, <2>2 DEF HookStoreIdx
<1>8. ASSUME NEW h \in Hooks, HookStoreMagic(h) PROVE OwnInv'
  <2>1. /\ conf[h] \in Conf /\ conf[h] # NULL /\ Has(conf[h])
        /\ rule_magic' = conf[h].magic /\ rule_idx # 0
    BY <1>8, <1>h DEF HookStoreMagic, Working, EraInv
  <2>2. \A g \in Hooks : conf[g] # NULL => Has(conf[g])
    BY <2>1 DEF EraInv
  <2>3. G_AuthConf # NULL => Has(G_AuthConf)
    BY <2>1 DEF EraInv
  <2> QED
    BY <1>8, <2>1, <2>2, <2>3 DEF HookStoreMagic
<1>9. ASSUME NEW h \in Hooks, HookRule(h) PROVE OwnInv'
  <2>1. rule_idx \in Index \ {0}
    BY <1>9 DEF HookRule
  <2>2. rule'[h] \in {rule_idx, NULL}
    BY <1>9 DEF HookRule
  <2>3. hpc[h] = "rule2" => rule_idx = FirstMatch(conf[h].rules)
    BY <1>h, <1>i, <2>1 DEF Working
  <2> QED
    BY <1>9, <2>1, <2>2, <2>3 DEF HookRule
<1>10. ASSUME NEW h \in Hooks, HookCheck(h) PROVE OwnInv'
  <2>1. CASE hpc'[h] = "status"
    <3>1. /\ rule[h] \in Index \ {0} /\ rule_magic = conf[h].magic
          /\ conf[h] \in Conf /\ conf[h] # NULL
      BY <1>10, <2>1, <1>h DEF HookCheck, Working, EraInv
    <3>2. rule[h] = FirstMatch(conf[h].rules)
      BY <1>i, <3>1
    <3> QED
      BY <1>10, <2>1, <3>2 DEF HookCheck
  <2>2. CASE hpc'[h] # "status"
    BY <1>10, <2>2 DEF HookCheck
  <2> QED
    BY <2>1, <2>2
<1>11. ASSUME NEW h \in Hooks, HookStatus(h) PROVE OwnInv'
  BY <1>11 DEF HookStatus
<1>12. ASSUME NEW h \in Hooks, HookClear(h) PROVE OwnInv'
  BY <1>12 DEF HookClear
<1>13. ASSUME NEW h \in Hooks, HookLoad(h) PROVE OwnInv'
  BY <1>13 DEF HookLoad
<1>14. ASSUME NEW h \in Hooks, HookStore(h) PROVE OwnInv'
  BY <1>14 DEF HookStore
<1>15. ASSUME NEW h \in Hooks, HookTime(h) PROVE OwnInv'
  BY <1>15 DEF HookTime, HookReturn
<1>16. ASSUME NEW h \in Hooks, HookStamp(h) PROVE OwnInv'
  BY <1>16 DEF HookStamp, HookReturn
<1>17. CASE NquerySet
  BY <1>17 DEF NquerySet
<1>18. CASE NqueryClear
  BY <1>18 DEF NqueryClear
<1>19. CASE NqueryLoad
  BY <1>19 DEF NqueryLoad
<1>20. CASE NqueryStore
  BY <1>20 DEF NqueryStore
<1>21. CASE Tick
  BY <1>21 DEF Tick
<1>22. CASE UNCHANGED vars
  BY <1>22
<1> QED
  BY <1>1, <1>2, <1>3, <1>4, <1>5, <1>6, <1>7, <1>8, <1>9, <1>10, <1>11, <1>12,
     <1>13, <1>14, <1>15, <1>16, <1>17, <1>18, <1>19, <1>20, <1>21, <1>22
  DEF Update, Hook, KernelNext, Nquery

\* The rule that decides is the user's own one in the rules the hook works
\* with, on any number of CPUs that store and read index and magic without a
\* lock, through any number of updates, and with nquery.
THEOREM HookDecidesByOwnRule ==
    ASSUME SteadyIndex, UpdateGap # 0
    PROVE  Spec => []DecidesByOwnRule
<1> DEFINE Inv == EraInv /\ MagicInv /\ OwnInv
<1>1. Init => Inv
  BY InitEra, InitOwn
<1>2. HookTyped /\ Inv /\ [KernelNext \/ Nquery]_vars => Inv'
  BY SteadyIndex, UpdateGap # 0, NextEra, NextMagic, NextOwn
<1>3. Inv => DecidesByOwnRule
  BY DEF OwnInv
<1> QED
  BY <1>1, <1>2, <1>3, TypedAlways, PTL DEF Spec

\* Hooks that set the status at the same time work with the same rules and
\* so set the same one.
LEMMA NextGrant ==
    HookTyped /\ EraInv /\ OwnInv /\ GrantInv /\ [KernelNext]_vars => GrantInv'
<1> SUFFICES ASSUME HookTyped, EraInv, OwnInv, GrantInv, [KernelNext]_vars
             PROVE  GrantInv'
  OBVIOUS
<1>0. /\ DOMAIN hpc = Hooks /\ DOMAIN conf = Hooks /\ DOMAIN rule = Hooks
      /\ hset \in [Hooks -> StatusSet]
  BY DEF HookTyped, TypeOK
<1> USE <1>0 DEF GrantInv, GrantSticks, Quiet, Setting, Goto, vars, cvars, uvars, lvars, avars
<1>1. CASE UpdateParse
  BY <1>1 DEF UpdateParse
<1>2. CASE UpdateTake
  BY <1>2 DEF UpdateTake
<1>3. CASE UpdatePublish
  BY <1>3 DEF UpdatePublish
<1>4. ASSUME NEW h \in Hooks, HookEnter(h) PROVE GrantInv'
  <2>1. \A g \in Hooks : Setting(g) => g # h
    BY <1>4 DEF HookEnter
  <2> QED
    BY <1>4, <2>1 DEF HookEnter
<1>5. ASSUME NEW h \in Hooks, HookMagic(h) PROVE GrantInv'
  BY <1>5 DEF HookMagic
<1>6. ASSUME NEW h \in Hooks, HookMatch(h) PROVE GrantInv'
  BY <1>6 DEF HookMatch
<1>7. ASSUME NEW h \in Hooks, HookStoreIdx(h) PROVE GrantInv'
  BY <1>7 DEF HookStoreIdx
<1>8. ASSUME NEW h \in Hooks, HookStoreMagic(h) PROVE GrantInv'
  BY <1>8 DEF HookStoreMagic
<1>9. ASSUME NEW h \in Hooks, HookRule(h) PROVE GrantInv'
  BY <1>9 DEF HookRule
<1>10. ASSUME NEW h \in Hooks, HookCheck(h) PROVE GrantInv'
  BY <1>10 DEF HookCheck
<1>11. ASSUME NEW h \in Hooks, HookStatus(h) PROVE GrantInv'
  <2>1. CASE rule[h] # NULL /\ status <= AUTH_REQ
    <3>1. /\ hset' = [hset EXCEPT ![h].status = Outcome(conf[h])]
          /\ asked' = asked \cup {Outcome(conf[h])}
          /\ hpc' = [hpc EXCEPT ![h] = "clear"]
          /\ apc' = apc /\ conf' = conf
      BY <1>11, <2>1 DEF HookStatus, OwnInv, DecidesByOwnRule, Outcome
    <3>2. ASSUME NEW g \in Hooks, Setting(g)
          PROVE  hset[g].status = Outcome(conf[h])
      BY <1>11, <3>2 DEF HookStatus, EraInv, Working
    <3>3. AUTH_OK \in asked => Outcome(conf[h]) = AUTH_OK
      <4>1. ASSUME AUTH_OK \in asked, \A g \in Hooks : ~Setting(g) PROVE FALSE
        BY <2>1, <4>1 DEF AUTH_OK, AUTH_REQ
      <4> QED
        BY <3>2, <4>1
    <3>4. /\ hset'[h].status = Outcome(conf[h])
          /\ \A g \in Hooks \ {h} : hset'[g] = hset[g]
      BY <3>1 DEF StatusSet
    <3>5. Setting(h)'
      BY <3>1
    <3> QED
      BY <3>1, <3>2, <3>3, <3>4, <3>5
  <2>2. CASE ~(rule[h] # NULL /\ status <= AUTH_REQ)
    BY <1>11, <2>2 DEF HookStatus
  <2> QED
    BY <2>1, <2>2
<1>12. ASSUME NEW h \in Hooks, HookClear(h) PROVE GrantInv'
  BY <1>12 DEF HookClear
<1>13. ASSUME NEW h \in Hooks, HookLoad(h) PROVE GrantInv'
  <2>1. \A g \in Hooks : hset'[g].status = hset[g].status
    BY <1>13 DEF HookLoad, StatusSet
  <2> QED
    BY <1>13, <2>1 DEF HookLoad
<1>14. ASSUME NEW h \in Hooks, HookStore(h) PROVE GrantInv'
  <2>1. AUTH_OK \in asked => status' = AUTH_OK
    BY <1>14, OrIsStatus DEF HookStore
  <2> QED
    BY <1>14, <2>1 DEF HookStore
<1>15. ASSUME NEW h \in Hooks, HookTime(h) PROVE GrantInv'
  <2>1. \A g \in Hooks : Setting(g)' <=> Setting(g)
    BY <1>15 DEF HookTime, HookReturn
  <2>2. \A g \in Hooks : Setting(g) => hset'[g] = hset[g] /\ conf'[g] = conf[g]
    BY <1>15 DEF HookTime, HookReturn
  <2> QED
    BY <1>15, <2>1, <2>2 DEF HookTime
<1>16. ASSUME NEW h \in Hooks, HookStamp(h) PROVE GrantInv'
  <2>1. \A g \in Hooks : Setting(g)' <=> Setting(g)
    BY <1>16 DEF HookStamp, HookReturn
  <2>2. \A g \in Hooks : Setting(g) => hset'[g] = hset[g] /\ conf'[g] = conf[g]
    BY <1>16 DEF HookStamp, HookReturn
  <2> QED
    BY <1>16, <2>1, <2>2 DEF HookStamp
<1>17. CASE Tick
  BY <1>17 DEF Tick
<1>18. CASE UNCHANGED vars
  BY <1>18
<1> QED
  BY <1>1, <1>2, <1>3, <1>4, <1>5, <1>6, <1>7, <1>8, <1>9, <1>10, <1>11, <1>12,
     <1>13, <1>14, <1>15, <1>16, <1>17, <1>18
  DEF Update, Hook, KernelNext

\* A user who was authenticated automatically stays so, whatever hooks of
\* whatever CPUs set the status meanwhile and whatever rules come, when
\* nquery does not write into the status word.
THEOREM HookGrantSticks ==
    ASSUME SteadyIndex, UpdateGap # 0
    PROVE  KernelSpec => []GrantSticks
<1> DEFINE Inv == HookTyped /\ EraInv /\ MagicInv /\ OwnInv /\ GrantInv
<1>1. Init => Inv
  BY InitTyped, InitEra, InitOwn
<1>2. Inv /\ [KernelNext]_vars => Inv'
  <2>1. [KernelNext]_vars => [KernelNext \/ Nquery]_vars
    OBVIOUS
  <2> QED
    BY <2>1, SteadyIndex, UpdateGap # 0, NextTyped, NextEra, NextMagic, NextOwn, NextGrant
<1>3. Inv => GrantSticks
  BY DEF GrantInv
<1> QED
  BY <1>1, <1>2, <1>3, PTL DEF KernelSpec
=============================================================================
