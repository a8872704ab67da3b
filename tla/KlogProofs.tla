----------------------------- MODULE KlogProofs ----------------------------
(***************************************************************************)
(* The klog driver for any number of items, threads and levels: a walk     *)
(* over the list stands on listed items, a temporary level gives way to    *)
(* the permanent one, and a lock is held by a thread that will release it. *)
(***************************************************************************)
EXTENDS Klog, SequenceTheorems, TLAPS

Walks == {"name", "namerate", "show"}
Uses == {"temp", "perm", "rate", "fini"}

CallRecords == [op : {"idle"} \cup Walks \cup Uses, item : Items \cup {NULL},
                level : Levels]

KlogTyped ==
    /\ list \in Seq(Items)
    /\ verbose \in [Items -> Levels]
    /\ original \in [Items -> Levels]
    /\ armed \in [Items -> BOOLEAN]
    /\ cb \in [Items -> BOOLEAN]
    /\ lock \in [Items -> Callers \cup {NULL}]
    /\ call \in [Callers -> CallRecords]
    /\ readers \subseteq Callers
    /\ perm \in [Items -> (Levels \ {0}) \cup {NULL}]

\* A walk holds the read lock, and any call works on a listed item; an item
\* has at most one user of its logfd.
CallInv ==
    /\ \A c \in Callers : call[c].op \in Walks => c \in readers
    /\ \A c \in Callers : call[c].op # "idle" => call[c].item \in Listed
    /\ \A c, d \in Callers : call[c].op \in Uses /\ call[d].op \in Uses
                                /\ call[c].item = call[d].item => c = d

\* No timer or callback outlives its item: not when it leaves the list, and
\* not while klog_fini, whose caller has seen none, waits for the list lock.
TimerInv ==
    /\ \A i \in Items : i \notin Listed => ~armed[i] /\ ~cb[i]
    /\ \A c \in Callers : call[c].op = "fini" =>
                             ~armed[call[c].item] /\ ~cb[call[c].item]

\* A promised level is in force, or saved (it is not 0) with either its timer
\* pending or its callback running, but not both: the callback that then
\* comes last is the only one.
LevelInv ==
    \A i \in Listed : perm[i] # NULL =>
        \/ verbose[i] = perm[i] /\ original[i] = 0 /\ ~armed[i] /\ ~cb[i]
        \/ original[i] = perm[i] /\ armed[i] /\ ~cb[i]
        \/ original[i] = perm[i] /\ cb[i] /\ ~armed[i]

\* The holder of an item lock is in a call on the item that ends with the
\* release: it never leaves the item behind with its lock taken.
HolderInv ==
    \A i \in Items : lock[i] # NULL =>
        /\ call[lock[i]].item = i
        /\ call[lock[i]].op \in {"temp", "perm", "rate", "name", "namerate"}

KlogInv == KlogTyped /\ CallInv /\ TimerInv /\ LevelInv /\ HolderInv

\* The list operations of the driver: what is in the list after list_add ...
LEMMA ListAdd ==
    ASSUME NEW S, NEW s \in Seq(S), NEW i \in S
    PROVE  <<i>> \o s \in Seq(S) /\ Range(<<i>> \o s) = {i} \cup Range(s)
<1>0. <<i>> \in Seq(S) /\ Len(<<i>>) = 1 /\ <<i>>[1] = i
  OBVIOUS
<1>1. PICK t \in Seq(S) : t = <<i>> /\ Len(t) = 1 /\ t[1] = i
  BY <1>0
<1>2. Range(t) = {t[j] : j \in 1 .. Len(t)}
  BY RangeEquality
<1>3. Range(t) = {i}
  BY <1>1, <1>2
<1>4. t \o s \in Seq(S) /\ Range(t \o s) = Range(t) \cup Range(s)
  BY ConcatProperties, RangeConcatenation
<1> QED
  BY <1>1, <1>3, <1>4

\* ... and after list_del.
LEMMA ListDel ==
    ASSUME NEW S, NEW s \in Seq(S), NEW k \in 1 .. Len(s)
    PROVE  /\ RemoveAt(s, k) \in Seq(S)
           /\ Range(RemoveAt(s, k)) \subseteq Range(s)
           /\ Range(s) \subseteq Range(RemoveAt(s, k)) \cup {s[k]}
<1> DEFINE a == SubSeq(s, 1, k - 1)
           b == SubSeq(s, k + 1, Len(s))
<1>0. Len(s) \in Nat /\ \A j \in 1 .. Len(s) : s[j] \in S
  BY LenProperties
<1>1. /\ a \in Seq(S) /\ Len(a) = k - 1
      /\ \A j \in 1 .. k - 1 : a[j] = s[j]
  BY <1>0, SubSeqProperties
<1>2. /\ b \in Seq(S) /\ Len(b) = Len(s) - k
      /\ \A j \in 1 .. Len(s) - k : b[j] = s[k + j]
  BY <1>0, SubSeqProperties
<1>3. \A x : x \in Range(s) <=> \E j \in 1 .. Len(s) : x = s[j]
  BY RangeEquality
<1>4. \A x : x \in Range(a) <=> \E j \in 1 .. k - 1 : x = s[j]
  <2> HIDE DEF a
  <2>1. \A x : x \in Range(a) <=> \E j \in 1 .. Len(a) : x = a[j]
    BY <1>1, RangeEquality
  <2>2. 1 .. Len(a) = 1 .. k - 1
    BY <1>1
  <2> QED
    BY <1>1, <2>1, <2>2
<1>5. \A x : x \in Range(b) <=> \E j \in k + 1 .. Len(s) : x = s[j]
  <2> HIDE DEF b
  <2>1. \A x : x \in Range(b) <=> \E j \in 1 .. Len(b) : x = b[j]
    BY <1>2, RangeEquality
  <2>2. \A j \in k + 1 .. Len(s) : j - k \in 1 .. Len(s) - k /\ b[j - k] = s[j]
    BY <1>0, <1>2
  <2>3. \A j \in 1 .. Len(s) - k : k + j \in k + 1 .. Len(s) /\ b[j] = s[k + j]
    BY <1>0, <1>2
  <2>4. 1 .. Len(b) = 1 .. Len(s) - k
    BY <1>2
  <2>5. ASSUME NEW j \in 1 .. Len(b) PROVE \E i \in k + 1 .. Len(s) : b[j] = s[i]
    BY <2>3, <2>4
  <2>6. ASSUME NEW j \in k + 1 .. Len(s) PROVE \E i \in 1 .. Len(b) : s[j] = b[i]
    BY <2>2, <2>4
  <2>7. ASSUME NEW x, x \in Range(b) PROVE \E j \in k + 1 .. Len(s) : x = s[j]
    <3>1. PICK j \in 1 .. Len(b) : x = b[j] BY <2>1, <2>7
    <3> QED BY <2>5, <3>1
  <2>8. ASSUME NEW x, NEW j \in k + 1 .. Len(s), x = s[j] PROVE x \in Range(b)
    <3>1. PICK i \in 1 .. Len(b) : x = b[i] BY <2>6, <2>8
    <3> QED BY <2>1, <3>1
  <2> QED
    BY <2>7, <2>8
<1>6. RemoveAt(s, k) = a \o b
  BY DEF RemoveAt
<1> HIDE DEF a, b
<1>7. a \o b \in Seq(S) /\ Range(a \o b) = Range(a) \cup Range(b)
  <2>1. a \in Seq(S) /\ b \in Seq(S)
    BY <1>1, <1>2
  <2>2. a \o b \in Seq(S)
    BY <2>1, ConcatProperties
  <2>3. Range(a \o b) = Range(a) \cup Range(b)
    BY <2>1, RangeConcatenation
  <2> QED
    BY <2>2, <2>3
<1>8. 1 .. Len(s) = (1 .. k - 1) \cup {k} \cup (k + 1 .. Len(s))
  BY <1>0
<1> QED
  BY <1>3, <1>4, <1>5, <1>6, <1>7, <1>8

\* A listed item has a place in the list, and the walk that is not at the
\* last one finds another item behind it.
LEMMA ListPlace ==
    ASSUME list \in Seq(Items), NEW i \in Listed
    PROVE  /\ Position(i) \in 1 .. Len(list) /\ list[Position(i)] = i
           /\ i # Last(list) => list[Position(i) + 1] \in Listed
<1>1. /\ Len(list) \in Nat
      /\ DOMAIN list = 1 .. Len(list)
  BY LenProperties
<1>2. \E k \in DOMAIN list : list[k] = i
  BY DEF Listed, Range
<1>3. Position(i) \in DOMAIN list /\ list[Position(i)] = i
  BY <1>2 DEF Position
<1>4. ASSUME i # Last(list) PROVE Position(i) + 1 \in DOMAIN list
  BY <1>1, <1>3, <1>4 DEF Last
<1> QED
  BY <1>1, <1>3, <1>4 DEF Listed, Range

\* A walk that goes on stays in its call and on a listed item.
LEMMA AdvanceCall ==
    ASSUME KlogTyped, CallInv, NEW c \in Callers, call[c].op \in Walks, Advance(c)
    PROVE  \E r \in CallRecords :
              /\ call' = [call EXCEPT ![c] = r]
              /\ r = Idle \/ (r.item \in Listed /\ r.op = call[c].op /\ readers' = readers)
              /\ readers \ {c} \subseteq readers' /\ readers' \subseteq readers
<1>1. call[c].item \in Listed
  BY DEF CallInv, Walks
<1>2. CASE call[c].item = Last(list)
  <2>1. Idle \in CallRecords
    BY LevelsAssumption DEF Idle, CallRecords
  <2>2. call' = [call EXCEPT ![c] = Idle] /\ readers' = readers \ {c}
    BY <1>2 DEF Advance
  <2> QED
    BY <2>1, <2>2
<1>3. CASE call[c].item # Last(list)
  <2> DEFINE j == list[Position(call[c].item) + 1]
             r == [call[c] EXCEPT !.item = j]
  <2>1. j \in Listed /\ j \in Items
    BY <1>1, <1>3, ListPlace, RangeOfSeq DEF KlogTyped, Listed
  <2>2. call[c] \in CallRecords
    BY DEF KlogTyped
  <2>3. call' = [call EXCEPT ![c] = r] /\ readers' = readers
    BY <1>3 DEF Advance
  <2> HIDE DEF j
  <2>4. r \in CallRecords /\ r.item = j /\ r.op = call[c].op
    BY <2>1, <2>2 DEF CallRecords
  <2> HIDE DEF r
  <2> QED
    BY <2>1, <2>3, <2>4
<1> QED
  BY <1>2, <1>3

LEMMA InitKlog == Init => KlogInv
  BY LevelsAssumption, NullAssumption DEF Init, KlogInv, KlogTyped, CallInv, TimerInv,
     LevelInv, HolderInv, Idle, Listed, Range, CallRecords, Walks, Uses

\* One step per action; under it one per part of the invariant.
LEMMA NextKlog == KlogInv /\ [Next]_vars => KlogInv'
<1> SUFFICES ASSUME KlogInv, [Next]_vars PROVE KlogInv'
  OBVIOUS
<1> USE LevelsAssumption, NullAssumption DEF KlogInv, CallRecords, Walks, Uses, ivars
<1>a. ASSUME UNCHANGED list PROVE Listed' = Listed
  BY <1>a DEF Listed
<1>b. Listed \subseteq Items
  BY RangeOfSeq DEF KlogTyped, Listed
<1>1. ASSUME NEW c \in Callers, NEW v \in Levels, klog_init(c, v) PROVE KlogInv'
  <2> USE <1>1 DEF klog_init
  <2> PICK i \in Items \ Listed, o \in Levels :
          /\ list' = <<i>> \o list
          /\ verbose' = [verbose EXCEPT ![i] = v]
          /\ original' = [original EXCEPT ![i] = o]
          /\ perm' = [perm EXCEPT ![i] = IF v # 0 /\ o = 0 THEN v ELSE NULL]
    OBVIOUS
  <2>0. list' \in Seq(Items) /\ Listed' = Listed \cup {i}
    BY ListAdd DEF KlogTyped, Listed
  <2>1. KlogTyped' BY <2>0 DEF KlogTyped, Idle
  <2>2. CallInv' BY <2>0 DEF KlogTyped, CallInv, Idle
  <2>3. TimerInv' BY <2>0 DEF KlogTyped, CallInv, TimerInv, Idle
  <2>4. LevelInv' BY <2>0 DEF KlogTyped, CallInv, TimerInv, LevelInv
  <2>5. HolderInv' BY DEF KlogTyped, HolderInv, Idle
  <2> QED BY <2>1, <2>2, <2>3, <2>4, <2>5
<1>2. ASSUME NEW c \in Callers, FiniCall(c) PROVE KlogInv'
  <2> USE <1>2 DEF FiniCall, Retired, Users
  <2>0. Listed' = Listed BY <1>a
  <2>1. KlogTyped' BY <1>b DEF KlogTyped, Idle
  <2>2. CallInv' BY <1>b, <2>0 DEF KlogTyped, CallInv, Idle
  <2>3. TimerInv' BY <1>b, <2>0 DEF KlogTyped, CallInv, TimerInv, Idle
  <2>4. LevelInv' BY <2>0 DEF KlogTyped, CallInv, TimerInv, LevelInv
  <2>5. HolderInv' BY DEF KlogTyped, HolderInv, Idle
  <2> QED BY <2>1, <2>2, <2>3, <2>4, <2>5
<1>3. ASSUME NEW c \in Callers, klog_fini(c) PROVE KlogInv'
  <2> USE <1>3 DEF klog_fini
  <2> PICK i \in Listed :
          /\ i = call[c].item
          /\ list' = RemoveAt(list, Position(i))
          /\ verbose' = [verbose EXCEPT ![i] = 0]
          /\ original' = [original EXCEPT ![i] = 0]
          /\ perm' = [perm EXCEPT ![i] = NULL]
    BY DEF CallInv
  <2>0. /\ list' \in Seq(Items)
        /\ Listed' \subseteq Listed
        /\ Listed \subseteq Listed' \cup {i}
    BY ListDel, ListPlace DEF KlogTyped, Listed
  <2>1. KlogTyped' BY <1>b, <2>0 DEF KlogTyped, Idle
  <2>2. CallInv' BY <2>0 DEF KlogTyped, CallInv, Idle
  <2>3. TimerInv' BY <1>b, <2>0 DEF KlogTyped, CallInv, TimerInv, Idle
  <2>4. LevelInv' BY <1>b, <2>0 DEF KlogTyped, CallInv, TimerInv, LevelInv
  <2>5. HolderInv' BY DEF KlogTyped, HolderInv, Idle
  <2> QED BY <2>1, <2>2, <2>3, <2>4, <2>5
<1>4. ASSUME NEW c \in Callers, SetCall(c) PROVE KlogInv'
  <2> USE <1>4 DEF SetCall, Users
  <2>0. Listed' = Listed BY <1>a
  <2>1. KlogTyped' BY <1>b DEF KlogTyped, Idle
  <2>2. CallInv' BY <1>b, <2>0 DEF KlogTyped, CallInv, Idle
  <2>3. TimerInv' BY <1>b, <2>0 DEF KlogTyped, CallInv, TimerInv, Idle
  <2>4. LevelInv' BY <2>0 DEF KlogTyped, CallInv, TimerInv, LevelInv
  <2>5. HolderInv' BY <1>b DEF KlogTyped, HolderInv, Idle
  <2> QED BY <2>1, <2>2, <2>3, <2>4, <2>5
<1>5. ASSUME NEW c \in Callers, WalkCall(c) PROVE KlogInv'
  <2> USE <1>5 DEF WalkCall
  <2>0. Listed' = Listed BY <1>a
  <2>a. Head(list) \in Listed
    <3>1. Head(list) = list[1] /\ 1 \in DOMAIN list
      BY LenProperties, EmptySeq DEF KlogTyped
    <3> QED BY <3>1 DEF Listed, Range
  <2>1. KlogTyped' BY <1>b, <2>a DEF KlogTyped, Idle
  <2>2. CallInv' BY <2>a, <2>0 DEF KlogTyped, CallInv, Idle
  <2>3. TimerInv' BY <2>a, <2>0 DEF KlogTyped, CallInv, TimerInv, Idle
  <2>4. LevelInv' BY <2>0 DEF KlogTyped, CallInv, TimerInv, LevelInv
  <2>5. HolderInv' BY DEF KlogTyped, HolderInv, Idle
  <2> QED BY <2>1, <2>2, <2>3, <2>4, <2>5
<1>6. ASSUME NEW c \in Callers, NameLock(c) PROVE KlogInv'
  <2> USE <1>6 DEF NameLock
  <2>0. Listed' = Listed BY <1>a
  <2>a. call[c].item \in Items BY <1>b DEF CallInv
  <2>1. KlogTyped' BY <2>a DEF KlogTyped, Idle
  <2>2. CallInv' BY <2>0 DEF KlogTyped, CallInv, Idle
  <2>3. TimerInv' BY <2>0 DEF KlogTyped, CallInv, TimerInv, Idle
  <2>4. LevelInv' BY <2>0 DEF KlogTyped, CallInv, TimerInv, LevelInv
  <2>5. HolderInv' BY <2>a DEF KlogTyped, HolderInv, Idle
  <2> QED BY <2>1, <2>2, <2>3, <2>4, <2>5
<1>7. ASSUME NEW c \in Callers, SetTemp(c) PROVE KlogInv'
  <2> USE <1>7 DEF SetTemp, Holds
  <2>0. Listed' = Listed BY <1>a
  <2>1. KlogTyped' BY DEF KlogTyped, Idle
  <2>2. CallInv' BY <2>0 DEF KlogTyped, CallInv, Idle
  <2>3. TimerInv' BY <2>0 DEF KlogTyped, CallInv, TimerInv, Idle
  <2>4. LevelInv' BY <1>b, <2>0 DEF KlogTyped, CallInv, TimerInv, LevelInv
  <2>5. HolderInv' BY DEF KlogTyped, HolderInv, Idle
  <2> QED BY <2>1, <2>2, <2>3, <2>4, <2>5
<1>8. ASSUME NEW c \in Callers, SetPerm(c) PROVE KlogInv'
  <2> USE <1>8 DEF SetPerm, SetForGood, Holds
  <2>0. Listed' = Listed BY <1>a
  <2>1. KlogTyped' BY DEF KlogTyped, Idle
  <2>2. CallInv' BY <2>0 DEF KlogTyped, CallInv, Idle
  <2>3. TimerInv' BY <2>0 DEF KlogTyped, CallInv, TimerInv, Idle
  <2>4. LevelInv' BY <1>b, <2>0 DEF KlogTyped, CallInv, TimerInv, LevelInv
  <2>5. HolderInv' BY DEF KlogTyped, HolderInv, Idle
  <2> QED BY <2>1, <2>2, <2>3, <2>4, <2>5
<1>9. ASSUME NEW c \in Callers, klog_set_ratelimit(c) PROVE KlogInv'
  <2> USE <1>9 DEF klog_set_ratelimit, Holds
  <2>0. Listed' = Listed BY <1>a
  <2>1. KlogTyped' BY DEF KlogTyped, Idle
  <2>2. CallInv' BY <2>0 DEF KlogTyped, CallInv, Idle
  <2>3. TimerInv' BY <2>0 DEF KlogTyped, CallInv, TimerInv, Idle
  <2>4. LevelInv' BY <1>b, <2>0 DEF KlogTyped, CallInv, TimerInv, LevelInv
  <2>5. HolderInv' BY DEF KlogTyped, HolderInv, Idle
  <2> QED BY <2>1, <2>2, <2>3, <2>4, <2>5
<1>10. ASSUME NEW c \in Callers, NameSet(c) PROVE KlogInv'
  <2> USE <1>10 DEF NameSet, SetForGood, Holds
  <2>0. Listed' = Listed BY <1>a
  <2>a. PICK r \in CallRecords :
           /\ call' = [call EXCEPT ![c] = r]
           /\ r = Idle \/ (r.item \in Listed /\ r.op = call[c].op /\ readers' = readers)
           /\ readers \ {c} \subseteq readers' /\ readers' \subseteq readers
    BY AdvanceCall
  <2>1. KlogTyped' BY <2>a DEF KlogTyped, Idle
  <2>2. CallInv' BY <2>0, <2>a DEF KlogTyped, CallInv, Idle
  <2>3. TimerInv' BY <2>0, <2>a DEF KlogTyped, CallInv, TimerInv, Idle
  <2>4. LevelInv' BY <1>b, <2>0 DEF KlogTyped, CallInv, TimerInv, LevelInv
  <2>5. HolderInv' BY <2>a DEF KlogTyped, HolderInv, Idle
  <2> QED BY <2>1, <2>2, <2>3, <2>4, <2>5
<1>11. ASSUME NEW c \in Callers, klog_set_ratelimit_by_name(c) PROVE KlogInv'
  <2> USE <1>11 DEF klog_set_ratelimit_by_name, Holds
  <2>0. Listed' = Listed BY <1>a
  <2>a. PICK r \in CallRecords :
           /\ call' = [call EXCEPT ![c] = r]
           /\ r = Idle \/ (r.item \in Listed /\ r.op = call[c].op /\ readers' = readers)
           /\ readers \ {c} \subseteq readers' /\ readers' \subseteq readers
    BY AdvanceCall
  <2>1. KlogTyped' BY <2>a DEF KlogTyped, Idle
  <2>2. CallInv' BY <2>0, <2>a DEF KlogTyped, CallInv, Idle
  <2>3. TimerInv' BY <2>0, <2>a DEF KlogTyped, CallInv, TimerInv, Idle
  <2>4. LevelInv' BY <1>b, <2>0 DEF KlogTyped, CallInv, TimerInv, LevelInv
  <2>5. HolderInv' BY <2>a DEF KlogTyped, HolderInv, Idle
  <2> QED BY <2>1, <2>2, <2>3, <2>4, <2>5
<1>12. ASSUME NEW c \in Callers, WalkPast(c) PROVE KlogInv'
  <2> USE <1>12 DEF WalkPast, Holds
  <2>0. Listed' = Listed BY <1>a
  <2>a. PICK r \in CallRecords :
           /\ call' = [call EXCEPT ![c] = r]
           /\ r = Idle \/ (r.item \in Listed /\ r.op = call[c].op /\ readers' = readers)
           /\ readers \ {c} \subseteq readers' /\ readers' \subseteq readers
    BY AdvanceCall
  <2>1. KlogTyped' BY <2>a DEF KlogTyped, Idle
  <2>2. CallInv' BY <2>0, <2>a DEF KlogTyped, CallInv, Idle
  <2>3. TimerInv' BY <2>0, <2>a DEF KlogTyped, CallInv, TimerInv, Idle
  <2>4. LevelInv' BY <1>b, <2>0 DEF KlogTyped, CallInv, TimerInv, LevelInv
  <2>5. HolderInv' BY <2>a DEF KlogTyped, HolderInv, Idle
  <2> QED BY <2>1, <2>2, <2>3, <2>4, <2>5
<1>13. ASSUME NEW i \in Items, TimerFires(i) PROVE KlogInv'
  <2> USE <1>13 DEF TimerFires
  <2>0. Listed' = Listed BY <1>a
  <2>1. KlogTyped' BY DEF KlogTyped, Idle
  <2>2. CallInv' BY <2>0 DEF KlogTyped, CallInv, Idle
  <2>3. TimerInv' BY <2>0 DEF KlogTyped, CallInv, TimerInv, Idle
  <2>4. LevelInv' BY <1>b, <2>0 DEF KlogTyped, CallInv, TimerInv, LevelInv
  <2>5. HolderInv' BY DEF KlogTyped, HolderInv, Idle
  <2> QED BY <2>1, <2>2, <2>3, <2>4, <2>5
<1>14. ASSUME NEW i \in Items, restore_verbose(i) PROVE KlogInv'
  <2> USE <1>14 DEF restore_verbose
  <2>0. Listed' = Listed BY <1>a
  <2>1. KlogTyped' BY DEF KlogTyped, Idle
  <2>2. CallInv' BY <2>0 DEF KlogTyped, CallInv, Idle
  <2>3. TimerInv' BY <2>0 DEF KlogTyped, CallInv, TimerInv, Idle
  <2>4. LevelInv' BY <1>b, <2>0 DEF KlogTyped, CallInv, TimerInv, LevelInv
  <2>5. HolderInv' BY DEF KlogTyped, HolderInv, Idle
  <2> QED BY <2>1, <2>2, <2>3, <2>4, <2>5
<1>15. CASE UNCHANGED vars
  <2> USE <1>15 DEF vars
  <2>0. Listed' = Listed BY <1>a
  <2>1. KlogTyped' BY DEF KlogTyped, Idle
  <2>2. CallInv' BY <2>0 DEF KlogTyped, CallInv, Idle
  <2>3. TimerInv' BY <2>0 DEF KlogTyped, CallInv, TimerInv, Idle
  <2>4. LevelInv' BY <2>0 DEF KlogTyped, CallInv, TimerInv, LevelInv
  <2>5. HolderInv' BY DEF KlogTyped, HolderInv, Idle
  <2> QED BY <2>1, <2>2, <2>3, <2>4, <2>5
<1> QED
  BY <1>1, <1>2, <1>3, <1>4, <1>5, <1>6, <1>7, <1>8, <1>9, <1>10, <1>11, <1>12,
     <1>13, <1>14, <1>15 DEF Next, Start, Work, UnderLock, Timer

LEMMA KlogAlways == Spec => []KlogInv
<1>1. KlogInv /\ [Next]_vars => KlogInv'
  BY NextKlog
<1> QED
  BY InitKlog, <1>1, PTL DEF Spec

\* A walk over the list for /proc/klog never stands on an item that
\* klog_fini has freed, for any number of threads and items.
THEOREM KlogWalksOnListed == Spec => []WalksOnListedItems
<1>1. KlogInv => WalksOnListedItems
  BY DEF KlogInv, CallInv, WalksOnListedItems
<1> QED
  BY <1>1, KlogAlways, PTL

\* A level that was set for good is in force or will be restored, in every
\* order of temporary levels, permanent ones and expiring timers that the
\* code makes a promise for.
THEOREM KlogRestoresPermanent == Spec => []RestoresPermanent
<1>1. KlogInv => RestoresPermanent
  BY DEF KlogInv, LevelInv, RestoresPermanent
<1> QED
  BY <1>1, KlogAlways, PTL

\* The safety half of LocksReleased: whoever holds the lock of an item is in
\* a call on this very item, one of those that release it; a walk for a name
\* never moves on with a lock it took.
THEOREM KlogLockHolders == Spec => []HolderInv
<1>1. KlogInv => HolderInv
  BY DEF KlogInv
<1> QED
  BY <1>1, KlogAlways, PTL
=============================================================================
