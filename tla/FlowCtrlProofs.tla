--------------------------- MODULE FlowCtrlProofs --------------------------
(***************************************************************************)
(* FlowCtrl.tla for any names, any rates and any number of rules: the file *)
(* stays whole, the kernel module follows it, and the rates are exact up   *)
(* to the two gigabytes that parseRateDesc takes.                          *)
(***************************************************************************)
EXTENDS FlowCtrl, FiniteSetTheorems, SequenceTheorems, WellFoundedInduction, TLAPS

-----------------------------------------------------------------------------
(* Kept *)

\* A set of numbers that is not empty has a least one.
LEMMA LeastNat ==
    ASSUME NEW T \in SUBSET Nat, T # {}
    PROVE  \E m \in T : \A k \in T : m <= k
<1> DEFINE R == {ss \in Nat \X Nat : ss[1] < ss[2]}
<1>1. IsWellFoundedOn(R, Nat)
  BY NatLessThanWellFounded DEF OpToRel
<1>2. \A x, y \in Nat : x < y => <<x, y>> \in R
  OBVIOUS
<1> HIDE DEF R
<1>3. PICK m \in T : \A k \in T : <<k, m>> \notin R
  BY <1>1, WFMin
<1>4. \A k \in T : ~(k < m)
  BY <1>2, <1>3
<1> QED
  BY <1>3, <1>4

\* How many positions of K come before position i.
Rank(K, i) == Cardinality({j \in K : j < i})

\* Every number below the size of K is the rank of a position in K: of the
\* first one, and of the one after a position of the rank before.
LEMMA RankTaken ==
    ASSUME NEW n \in Nat, NEW K \in SUBSET (1 .. n), NEW r \in 0 .. Cardinality(K) - 1
    PROVE  /\ Cardinality(K) \in Nat
           /\ \E i \in K : Rank(K, i) = r
<1>1. IsFiniteSet(K) /\ Cardinality(K) \in Nat /\ K \subseteq Nat
  <2>1. IsFiniteSet(1 .. n)
    BY FS_Interval
  <2>2. IsFiniteSet(K)
    BY <2>1, FS_Subset
  <2> QED
    BY <2>2, FS_CardinalityType
<1>k. \A x, y \in K :
         x \in Nat /\ (x < y \/ x = y \/ y < x) /\ ~(y <= x /\ x < y)
  <2> TAKE x, y \in K
  <2>1. x \in Nat /\ y \in Nat
    BY <1>1
  <2> QED
    BY <2>1
<1>2. \A i \in Nat : IsFiniteSet({j \in K : j < i}) /\ Rank(K, i) \in Nat
  <2> TAKE i \in Nat
  <2>1. {j \in K : j < i} \subseteq K
    OBVIOUS
  <2>2. IsFiniteSet({j \in K : j < i})
    BY <1>1, <2>1, FS_Subset
  <2> QED
    BY <2>2, FS_CardinalityType DEF Rank
<1> DEFINE Free == {q \in 0 .. Cardinality(K) - 1 : ~ \E i \in K : Rank(K, i) = q}
<1>3. ASSUME Free # {} PROVE FALSE
  <2>1. Free \in SUBSET Nat
    BY <1>1
  <2>2. PICK q \in Free : \A p \in Free : q <= p
    BY <1>3, <2>1, LeastNat
  <2>3. q \in 0 .. Cardinality(K) - 1 /\ ~ \E i \in K : Rank(K, i) = q
    BY <2>2
  <2>4. CASE q = 0
    <3>1. K # {}
      <4>1. Cardinality({}) = 0
        BY FS_EmptySet
      <4> QED
        BY <1>1, <2>3, <2>4, <4>1
    <3>2. PICK i \in K : \A j \in K : i <= j
      BY <1>1, <3>1, LeastNat
    <3>3. {j \in K : j < i} = {}
      BY <1>k, <3>2
    <3>4. Rank(K, i) = 0
      BY <3>3, FS_EmptySet DEF Rank
    <3> QED
      BY <2>3, <2>4, <3>4
  <2>5. CASE q # 0
    <3>1. q - 1 \in 0 .. Cardinality(K) - 1 /\ q - 1 \notin Free
      BY <1>1, <2>2, <2>3, <2>5
    <3>2. PICK i \in K : Rank(K, i) = q - 1
      BY <3>1
    <3> DEFINE Below == {j \in K : j < i}
               Above == {j \in K : i < j}
    <3>3. /\ IsFiniteSet(Below) /\ i \notin Below
          /\ Cardinality(Below) = q - 1
      BY <1>1, <1>2, <3>2 DEF Rank
    <3>a. /\ Above \in SUBSET Nat /\ Above \subseteq K
          /\ \A j \in K : j \in Below \/ j = i \/ j \in Above
      <4>1. Above \subseteq K
        OBVIOUS
      <4>2. \A j \in K : j < i \/ j = i \/ i < j
        BY <1>k
      <4> QED
        BY <1>1, <4>1, <4>2
    <3>b. \A l \in Above : (\A j \in Above : l <= j) => {j \in K : j < l} = Below \cup {i}
      <4> SUFFICES ASSUME NEW l \in Above, \A j \in Above : l <= j, NEW j \in K
                   PROVE  j < l <=> j < i \/ j = i
        OBVIOUS
      <4>1. l \in Nat /\ i \in Nat /\ j \in Nat /\ i < l
        BY <1>1
      <4>2. i < j => l <= j
        OBVIOUS
      <4> QED
        BY <4>1, <4>2
    <3>c. Below \subseteq K
      OBVIOUS
    <3> HIDE DEF Below, Above
    <3>4. Cardinality(Below \cup {i}) = q
      <4>1. Cardinality(Below \cup {i}) = Cardinality(Below) + 1
        BY <3>3, FS_AddElement
      <4> QED
        BY <2>3, <3>3, <4>1
    <3>5. Above # {}
      <4>1. SUFFICES ASSUME Above = {} PROVE FALSE
        OBVIOUS
      <4>2. K = Below \cup {i}
        BY <3>a, <3>c, <4>1
      <4> QED
        BY <1>1, <2>3, <3>4, <4>2
    <3>6. PICK l \in Above : \A j \in Above : l <= j
      BY <3>5, <3>a, LeastNat
    <3>7. Rank(K, l) = q
      BY <3>4, <3>6, <3>b DEF Rank
    <3> QED
      BY <2>3, <3>6, <3>7, <3>a
  <2> QED
    BY <2>4, <2>5
<1> QED
  BY <1>1, <1>3

\* What is kept is entries of the sequence, at different positions of K.
LEMMA KeptEntries ==
    ASSUME NEW S, NEW s \in Seq(S), NEW K \in SUBSET (1 .. Len(s))
    PROVE  /\ Cardinality(K) \in Nat
           /\ Kept(s, K) \in Seq(S)
           /\ Len(Kept(s, K)) = Cardinality(K)
           /\ \E at \in [1 .. Cardinality(K) -> K] :
                 /\ \A k \in 1 .. Cardinality(K) : Kept(s, K)[k] = s[at[k]]
                 /\ \A k, l \in 1 .. Cardinality(K) : at[k] = at[l] => k = l
<1> DEFINE At(k) == CHOOSE i \in K : Cardinality({j \in K : j < i}) = k - 1
           at == [k \in 1 .. Cardinality(K) |-> At(k)]
<1>1. Len(s) \in Nat /\ Cardinality(K) \in Nat
  <2>1. Len(s) \in Nat
    BY LenProperties
  <2>2. IsFiniteSet(1 .. Len(s))
    BY <2>1, FS_Interval
  <2>3. IsFiniteSet(K)
    BY <2>2, FS_Subset
  <2> QED
    BY <2>1, <2>3, FS_CardinalityType
<1>2. ASSUME NEW k \in 1 .. Cardinality(K)
      PROVE  At(k) \in K /\ Rank(K, At(k)) = k - 1
  <2>1. k - 1 \in 0 .. Cardinality(K) - 1
    BY <1>1
  <2>2. \E i \in K : Rank(K, i) = k - 1
    BY <1>1, <2>1, RankTaken
  <2> QED
    BY <2>2 DEF Rank
<1>3. Kept(s, K) = [k \in 1 .. Cardinality(K) |-> s[At(k)]]
  BY DEF Kept
<1> HIDE DEF At
<1>4. at \in [1 .. Cardinality(K) -> K]
  BY <1>2
<1>5. ASSUME NEW k \in 1 .. Cardinality(K), NEW l \in 1 .. Cardinality(K), at[k] = at[l]
      PROVE  k = l
  <2>1. Rank(K, At(k)) = Rank(K, At(l))
    BY <1>5
  <2>2. k - 1 = l - 1
    BY <1>2, <2>1
  <2> QED
    BY <1>1, <2>2
<1>6. \A k \in 1 .. Cardinality(K) : s[At(k)] \in S
  <2> TAKE k \in 1 .. Cardinality(K)
  <2>1. At(k) \in 1 .. Len(s)
    BY <1>2
  <2> QED
    BY <2>1, ElementOfSeq
<1>7. Kept(s, K) \in Seq(S) /\ Len(Kept(s, K)) = Cardinality(K)
  BY <1>1, <1>3, <1>6
<1>8. \A k \in 1 .. Cardinality(K) : Kept(s, K)[k] = s[at[k]]
  BY <1>3
<1> QED
  BY <1>1, <1>4, <1>5, <1>7, <1>8

-----------------------------------------------------------------------------
(* Rates *)

Rates == [num : Nat, unit : {"K", "M"}, kind : {"bps", "Bytes"}]

\* What parseRateDesc takes: two gigabytes per second.
MaxRate == 2000000000

\* parseRateDesc gives the bytes per second that were asked for, and 0 above
\* the limit.
LEMMA ParsedExact ==
    ASSUME NEW r \in Rates
    PROVE  /\ Asked(r) \in Nat
           /\ parseRateDesc(r) = IF Asked(r) <= MaxRate THEN Asked(r) ELSE 0
<1>0. r.num \in Nat /\ r.unit \in {"K", "M"} /\ r.kind \in {"bps", "Bytes"}
  BY SMT DEF Rates
<1>1. CASE r.unit = "K" /\ r.kind = "bps"
  <2>1. Asked(r) = r.num * 125
    BY SMT, <1>1 DEF Asked
  <2>2. parseRateDesc(r) = IF r.num > 2000000000 \div 125 THEN 0 ELSE r.num * 125
    BY SMT, <1>1 DEF parseRateDesc
  <2> QED
    BY SMT, <1>0, <2>1, <2>2 DEF MaxRate
<1>2. CASE r.unit = "M" /\ r.kind = "bps"
  <2>1. Asked(r) = r.num * 125 * 1000
    BY SMT, <1>2 DEF Asked
  <2>2. parseRateDesc(r) = IF r.num > 2000000000 \div 125000 THEN 0 ELSE r.num * 125000
    BY SMT, <1>2 DEF parseRateDesc
  <2> QED
    BY SMT, <1>0, <2>1, <2>2 DEF MaxRate
<1>3. CASE r.unit = "K" /\ r.kind = "Bytes"
  <2>1. Asked(r) = r.num * 1000
    BY SMT, <1>3 DEF Asked
  <2>2. parseRateDesc(r) = IF r.num > 2000000000 \div 1000 THEN 0 ELSE r.num * 1000
    BY SMT, <1>3 DEF parseRateDesc
  <2> QED
    BY SMT, <1>0, <2>1, <2>2 DEF MaxRate
<1>4. CASE r.unit = "M" /\ r.kind = "Bytes"
  <2>1. Asked(r) = r.num * 1000 * 1000
    BY SMT, <1>4 DEF Asked
  <2>2. parseRateDesc(r) = IF r.num > 2000000000 \div 1000000 THEN 0 ELSE r.num * 1000000
    BY SMT, <1>4 DEF parseRateDesc
  <2> QED
    BY SMT, <1>0, <2>1, <2>2 DEF MaxRate
<1> QED
  BY SMT, <1>0, <1>1, <1>2, <1>3, <1>4

\* The limit that the module gets is the number of bytes that was parsed,
\* whichever suffix is chosen.
LEMMA SuffixExact ==
    ASSUME NEW r \in Rates
    PROVE  tbqRateFromTCRate(r).num * Unit(tbqRateFromTCRate(r).unit) = parseRateDesc(r)
<1> DEFINE num == parseRateDesc(r)
<1>1. num \in Nat
  BY SMT, ParsedExact
<1>2. tbqRateFromTCRate(r) =
        IF num % 1000000000 = 0 THEN [num |-> num \div 1000000000, unit |-> "G"]
        ELSE IF num % 1000000 = 0 THEN [num |-> num \div 1000000, unit |-> "M"]
        ELSE IF num % 1000 = 0 THEN [num |-> num \div 1000, unit |-> "K"]
        ELSE [num |-> num, unit |-> "B"]
  BY SMT DEF tbqRateFromTCRate
<1> HIDE DEF num
<1>3. num % 1000000 # 0 => num % 1000000000 # 0
  BY SMT, <1>1
<1>4. CASE num % 1000000000 = 0
  <2>1. tbqRateFromTCRate(r) = [num |-> num \div 1000000000, unit |-> "G"]
    BY SMT, <1>1, <1>2, <1>3, <1>4
  <2>2. (num \div 1000000000) * 1000000000 = num
    BY SMT, <1>1, <1>4
  <2> QED
    BY SMT, <2>1, <2>2 DEF Unit, num
<1>5. CASE num % 1000000000 # 0 /\ num % 1000000 = 0
  <2>1. tbqRateFromTCRate(r) = [num |-> num \div 1000000, unit |-> "M"]
    BY SMT, <1>1, <1>2, <1>5
  <2>2. (num \div 1000000) * 1000000 = num
    BY SMT, <1>1, <1>5
  <2> QED
    BY SMT, <2>1, <2>2 DEF Unit, num
<1>6. CASE num % 1000000 # 0 /\ num % 1000 = 0
  <2>1. tbqRateFromTCRate(r) = [num |-> num \div 1000, unit |-> "K"]
    BY SMT, <1>1, <1>2, <1>3, <1>6
  <2>2. (num \div 1000) * 1000 = num
    BY SMT, <1>1, <1>6
  <2> QED
    BY SMT, <2>1, <2>2 DEF Unit, num
<1>7. CASE num % 1000000 # 0 /\ num % 1000 # 0
  <2>1. tbqRateFromTCRate(r) = [num |-> num, unit |-> "B"]
    BY SMT, <1>1, <1>2, <1>3, <1>7
  <2> QED
    BY SMT, <1>1, <2>1 DEF Unit, num
<1> QED
  BY SMT, <1>4, <1>5, <1>6, <1>7

-----------------------------------------------------------------------------
(* The file and the module *)

\* A rule as the file has it, and one that may have a string from a form.
StoredRule == [Name : Names, Rate : Limits, Enabled : {"true", "false"}]
FormRule == [Name : Names, Rate : Limits, Enabled : {"true", "false"} \cup Strings]

Form == [Share : Shares, Rules : Seq(FormRule)]

\* No name is used by two rules.
Distinct(rs) == \A i, j \in 1 .. Len(rs) : rs[i].Name = rs[j].Name => i = j

\* The file is whole and has no name twice, and so is what the request is
\* about to put in its place; the module has what the last change that went
\* all the way made of the file.
FileInv ==
    /\ pc \in {"idle", "open", "write", "mv", "settc", "boot"}
    /\ settled \in BOOLEAN
    /\ file \in Stored /\ Distinct(file.Rules)
    /\ pc \in {"open", "write"} => fmap \in Form /\ Distinct(fmap.Rules)
    /\ pc = "mv" => tmp \in Stored /\ Distinct(tmp.Rules)
    /\ settled => tbq = convert(file)

\* save_file's text has booleans for the strings of the form.
LEMMA EncodeStores ==
    ASSUME NEW c \in Form, Distinct(c.Rules)
    PROVE  Encode(c) \in Stored /\ Distinct(Encode(c).Rules)
<1> DEFINE Saved(r) == [r EXCEPT !.Enabled = Bool(r.Enabled)]
           rs == [k \in 1 .. Len(c.Rules) |-> Saved(c.Rules[k])]
<1>0. c.Share \in Shares /\ c.Rules \in Seq(FormRule) /\ Len(c.Rules) \in Nat
  BY DEF Form
<1>1. \A e \in {"true", "false"} \cup Strings : Bool(e) \in {"true", "false"}
  BY DEF Strings, Bool
<1>2. Encode(c) = [c EXCEPT !.Rules = rs]
  BY DEF Encode
<1>3. \A k \in 1 .. Len(c.Rules) :
         Saved(c.Rules[k]) \in StoredRule /\ Saved(c.Rules[k]).Name = c.Rules[k].Name
  <2> TAKE k \in 1 .. Len(c.Rules)
  <2>1. c.Rules[k] \in FormRule
    BY <1>0, ElementOfSeq
  <2> QED
    BY <1>1, <2>1 DEF FormRule, StoredRule
<1> HIDE DEF Saved
<1>4. /\ rs \in Seq(StoredRule) /\ Len(rs) = Len(c.Rules)
      /\ \A k \in 1 .. Len(c.Rules) : rs[k].Name = c.Rules[k].Name
  BY <1>0, <1>3
<1> HIDE DEF rs
<1>5. Encode(c) = [Share |-> c.Share, Rules |-> rs]
  BY <1>2 DEF Form
<1> QED
  BY <1>0, <1>4, <1>5 DEF Stored, StoredRule, Distinct

\* A whole file is what a request may start from.
LEMMA StoredIsForm ==
    ASSUME NEW c \in Stored
    PROVE  /\ c \in Form /\ c.Rules \in Seq(FormRule) /\ c.Rules \in Seq(StoredRule)
           /\ Len(c.Rules) \in Nat
<1>1. c.Rules \in Seq(StoredRule) /\ Len(c.Rules) \in Nat
  BY DEF Stored, StoredRule
<1>2. StoredRule \subseteq FormRule
  BY DEF StoredRule, FormRule
<1>3. c.Rules \in Seq(FormRule)
  BY <1>1, <1>2, SeqMonotonic
<1> QED
  BY <1>1, <1>3 DEF Stored, Form

\* What a request makes of the rules of the file is what it saves.
LEMMA EditRules ==
    ASSUME NEW c \in Form, NEW rs \in Seq(FormRule), Distinct(rs)
    PROVE  /\ [c EXCEPT !.Rules = rs] \in Form
           /\ Distinct([c EXCEPT !.Rules = rs].Rules)
  BY DEF Form

\* insRules adds a rule only under a name that no rule has.
LEMMA InsertDistinct ==
    ASSUME NEW rs \in Seq(FormRule), Distinct(rs), NEW r \in FormRule,
           \A i \in 1 .. Len(rs) : rs[i].Name # r.Name
    PROVE  Append(rs, r) \in Seq(FormRule) /\ Distinct(Append(rs, r))
<1>1. /\ Append(rs, r) \in Seq(FormRule) /\ Len(rs) \in Nat
      /\ Len(Append(rs, r)) = Len(rs) + 1
      /\ \A i \in 1 .. Len(rs) : Append(rs, r)[i] = rs[i]
      /\ Append(rs, r)[Len(rs) + 1] = r
  BY AppendProperties, LenProperties
<1>2. PICK t : t = Append(rs, r)
  OBVIOUS
<1>3. \A i \in 1 .. Len(t) : i \in 1 .. Len(rs) \/ i = Len(rs) + 1
  BY <1>1, <1>2
<1>4. Distinct(t)
  BY <1>1, <1>2, <1>3 DEF Distinct
<1> QED
  BY <1>1, <1>2, <1>4

\* deletRules leaves rules of the list, each once.
LEMMA DeleteDistinct ==
    ASSUME NEW rs \in Seq(FormRule), Distinct(rs), NEW K \in SUBSET (1 .. Len(rs))
    PROVE  Kept(rs, K) \in Seq(FormRule) /\ Distinct(Kept(rs, K))
<1>1. PICK n : n = Cardinality(K)
  OBVIOUS
<1>2. /\ n \in Nat /\ Kept(rs, K) \in Seq(FormRule) /\ Len(Kept(rs, K)) = n
      /\ \E at \in [1 .. n -> K] :
            /\ \A k \in 1 .. n : Kept(rs, K)[k] = rs[at[k]]
            /\ \A k, l \in 1 .. n : at[k] = at[l] => k = l
  BY <1>1, KeptEntries
<1>3. PICK at \in [1 .. n -> K] :
            /\ \A k \in 1 .. n : Kept(rs, K)[k] = rs[at[k]]
            /\ \A k, l \in 1 .. n : at[k] = at[l] => k = l
  BY <1>2
<1>4. ASSUME NEW k \in 1 .. n, NEW l \in 1 .. n,
             Kept(rs, K)[k].Name = Kept(rs, K)[l].Name
      PROVE  k = l
  <2>1. at[k] \in 1 .. Len(rs) /\ at[l] \in 1 .. Len(rs)
    OBVIOUS
  <2>2. rs[at[k]].Name = rs[at[l]].Name
    BY <1>3, <1>4
  <2>3. at[k] = at[l]
    BY <2>1, <2>2 DEF Distinct
  <2> QED
    BY <1>3, <2>3
<1> QED
  BY <1>2, <1>4 DEF Distinct

LEMMA InitFile == Init => FileInv
<1> SUFFICES ASSUME Init PROVE FileInv
  OBVIOUS
<1>1. PICK r \in Shares : file = [Share |-> r, Rules |-> <<>>]
  BY DEF Init
<1>2. file \in Stored /\ Distinct(file.Rules)
  BY <1>1 DEF Stored, Distinct
<1> QED
  BY <1>2 DEF Init, FileInv

\* Only SaveMove replaces the file, by one that was written to its end.
LEMMA NextFile == FileInv /\ [Next]_vars => FileInv'
<1> SUFFICES ASSUME FileInv, [Next]_vars PROVE FileInv'
  OBVIOUS
<1>0. /\ file \in Form /\ file.Rules \in Seq(FormRule) /\ Distinct(file.Rules)
      /\ Len(file.Rules) \in Nat
  BY StoredIsForm DEF FileInv
<1>s. ASSUME NEW c \in Form, Distinct(c.Rules), pc = "idle", Save(c)
      PROVE  FileInv'
  BY <1>s DEF Save, FileInv
<1>1. CASE set_globalshare
  <2>1. PICK m \in ShareForms : pc = "idle" /\ Save([file EXCEPT !.Share = m.Rate])
    BY <1>1 DEF set_globalshare
  <2>2. [file EXCEPT !.Share = m.Rate] \in Form
    BY <1>0 DEF Form, ShareForms
  <2>3. Distinct([file EXCEPT !.Share = m.Rate].Rules)
    BY <1>0 DEF Form
  <2> QED
    BY <1>s, <2>1, <2>2, <2>3
<1>2. CASE insRules
  <2>1. PICK m \in RuleForms :
          /\ pc = "idle" /\ Named(file, m.Name) = {}
          /\ Save([file EXCEPT !.Rules = Append(file.Rules,
                        [Name |-> m.Name, Rate |-> m.Rate, Enabled |-> m.Enabled])])
    BY <1>2 DEF insRules
  <2> DEFINE r == [Name |-> m.Name, Rate |-> m.Rate, Enabled |-> m.Enabled]
             rs == Append(file.Rules, r)
  <2>2. r \in FormRule /\ \A i \in 1 .. Len(file.Rules) : file.Rules[i].Name # r.Name
    BY <2>1 DEF RuleForms, FormRule, Named
  <2> HIDE DEF r
  <2>3. rs \in Seq(FormRule) /\ Distinct(rs)
    BY <1>0, <2>2, InsertDistinct
  <2> HIDE DEF rs
  <2>4. [file EXCEPT !.Rules = rs] \in Form /\ Distinct([file EXCEPT !.Rules = rs].Rules)
    BY <1>0, <2>3, EditRules
  <2> QED
    BY <1>s, <2>1, <2>4 DEF rs, r
<1>3. CASE updateRules
  <2>1. PICK m \in RuleForms \cup EnableForms :
          /\ pc = "idle"
          /\ Save([file EXCEPT !.Rules = [k \in 1 .. Len(file.Rules) |->
                IF file.Rules[k].Name # m.Name THEN file.Rules[k]
                ELSE [Name |-> m.Name, Enabled |-> m.Enabled,
                      Rate |-> IF m.Rate = NULL THEN file.Rules[k].Rate ELSE m.Rate]]])
    BY <1>3 DEF updateRules
  <2> DEFINE New(r) == IF r.Name # m.Name THEN r
                       ELSE [Name |-> m.Name, Enabled |-> m.Enabled,
                             Rate |-> IF m.Rate = NULL THEN r.Rate ELSE m.Rate]
             rs == [k \in 1 .. Len(file.Rules) |-> New(file.Rules[k])]
  <2>2. \A k \in 1 .. Len(file.Rules) : file.Rules[k] \in FormRule
    BY <1>0, ElementOfSeq
  <2>3. m.Name \in Names /\ m.Enabled \in Strings /\ m.Rate \in Limits \cup {NULL}
    BY DEF RuleForms, EnableForms
  <2>4. \A r \in FormRule : New(r) \in FormRule /\ New(r).Name = r.Name
    BY <2>3 DEF FormRule
  <2>5. Save([file EXCEPT !.Rules = rs])
    BY <2>1
  <2> HIDE DEF New
  <2>6. /\ rs \in Seq(FormRule) /\ Len(rs) = Len(file.Rules)
        /\ \A k \in 1 .. Len(file.Rules) : rs[k].Name = file.Rules[k].Name
    BY <1>0, <2>2, <2>4
  <2> HIDE DEF rs
  <2>7. Distinct(rs)
    BY <1>0, <2>6 DEF Distinct
  <2>8. [file EXCEPT !.Rules = rs] \in Form /\ Distinct([file EXCEPT !.Rules = rs].Rules)
    BY <1>0, <2>6, <2>7, EditRules
  <2> QED
    BY <1>s, <2>1, <2>5, <2>8
<1>4. CASE deletRules
  <2>1. PICK m \in DeleteForms :
          /\ pc = "idle"
          /\ Save([file EXCEPT !.Rules =
                Kept(file.Rules, (1 .. Len(file.Rules)) \ Named(file, m.Name))])
    BY <1>4 DEF deletRules
  <2> DEFINE rs == Kept(file.Rules, (1 .. Len(file.Rules)) \ Named(file, m.Name))
  <2>2. rs \in Seq(FormRule) /\ Distinct(rs)
    BY <1>0, DeleteDistinct
  <2> HIDE DEF rs
  <2>3. [file EXCEPT !.Rules = rs] \in Form /\ Distinct([file EXCEPT !.Rules = rs].Rules)
    BY <1>0, <2>2, EditRules
  <2> QED
    BY <1>s, <2>1, <2>3 DEF rs
<1>5. CASE SaveOpen
  BY <1>5 DEF SaveOpen, FileInv
<1>6. CASE SaveWrite
  BY <1>6, EncodeStores DEF SaveWrite, FileInv
<1>7. CASE SaveMove
  BY <1>7 DEF SaveMove, FileInv
<1>8. CASE SaveTbq
  BY <1>8 DEF SaveTbq, FileInv
<1>9. CASE Kill
  BY <1>9 DEF Kill, FileInv
<1>10. CASE Reboot
  BY <1>10 DEF Reboot, FileInv
<1>11. CASE Boot
  BY <1>11 DEF Boot, FileInv
<1>12. CASE UNCHANGED vars
  BY <1>12 DEF vars, FileInv
<1> QED
  BY <1>1, <1>2, <1>3, <1>4, <1>5, <1>6, <1>7, <1>8, <1>9, <1>10, <1>11, <1>12
  DEF Next, Request

LEMMA FileAlways == Spec => []FileInv
<1>1. FileInv /\ [Next]_vars => FileInv'
  BY NextFile
<1> QED
  BY InitFile, <1>1, PTL DEF Spec

\* Wherever requests are killed and the router restarted, the settings are
\* never a partial file.
THEOREM FlowFileWhole == Spec => []FileWhole
<1>1. FileInv => FileWhole
  BY PartialAssumption DEF FileInv, FileWhole
<1> QED
  BY <1>1, FileAlways, PTL

\* A sequence with an entry put before it.
LEMMA Prefixed ==
    ASSUME NEW S, NEW s \in Seq(S), NEW x \in S
    PROVE  /\ <<x>> \o s \in Seq(S)
           /\ Len(<<x>> \o s) = Len(s) + 1
           /\ (<<x>> \o s)[1] = x
           /\ \A i \in 2 .. Len(s) + 1 : /\ i - 1 \in 1 .. Len(s)
                                        /\ (<<x>> \o s)[i] = s[i - 1]
<1>1. PICK t \in Seq(S) : t = <<x>> /\ Len(t) = 1 /\ t[1] = x
  <2>1. <<x>> \in Seq(S) /\ Len(<<x>>) = 1 /\ <<x>>[1] = x
    OBVIOUS
  <2> QED
    BY <2>1
<1>2. /\ t \o s \in Seq(S)
      /\ Len(t \o s) = 1 + Len(s)
      /\ \A i \in 1 .. 1 + Len(s) : (t \o s)[i] = IF i <= 1 THEN t[i] ELSE s[i - 1]
  BY <1>1, ConcatProperties
<1>3. Len(s) \in Nat
  BY LenProperties
<1>4. /\ (t \o s)[1] = x
      /\ \A i \in 2 .. Len(s) + 1 : i - 1 \in 1 .. Len(s) /\ (t \o s)[i] = s[i - 1]
  BY <1>1, <1>2, <1>3
<1> QED
  BY <1>1, <1>2, <1>3, <1>4

\* The rules of a file that are enabled.
EnabledRules(c) ==
    Kept(c.Rules, {k \in 1 .. Len(c.Rules) : c.Rules[k].Enabled = "true"})

\* convert gives the module the global rule and one for each enabled rule,
\* in their order; each of those is a rule of the file.
LEMMA Converted ==
    ASSUME NEW c \in Stored
    PROVE  LET On == EnabledRules(c)
           IN  /\ On \in Seq(StoredRule) /\ Len(On) \in Nat
               /\ Len(convert(c)) = Len(On) + 1
               /\ convert(c)[1] = tbqRule("UI-GLOBAL", c.Share)
               /\ \A k \in 2 .. Len(On) + 1 :
                     /\ k - 1 \in 1 .. Len(On)
                     /\ convert(c)[k] = tbqRule(On[k - 1].Name, On[k - 1].Rate)
               /\ \A k \in 1 .. Len(On) : \E i \in 1 .. Len(c.Rules) : On[k] = c.Rules[i]
<1> DEFINE K == {k \in 1 .. Len(c.Rules) : c.Rules[k].Enabled = "true"}
           S == {tbqRule(n, r) : n \in Names \cup {"UI-GLOBAL"}, r \in Shares \cup Limits}
<1>0. c.Share \in Shares /\ c.Rules \in Seq(StoredRule) /\ Len(c.Rules) \in Nat
  BY StoredIsForm DEF Stored
<1>1. K = {k \in 1 .. Len(c.Rules) : Truthy(c.Rules[k].Enabled)}
  <2>1. \A k \in 1 .. Len(c.Rules) : c.Rules[k] \in StoredRule
    BY <1>0, ElementOfSeq
  <2> QED
    BY <2>1 DEF StoredRule, Truthy
<1>2. PICK On : On = Kept(c.Rules, K)
  OBVIOUS
<1>3. EnabledRules(c) = On
  BY <1>2 DEF EnabledRules
<1>4. convert(c) = <<tbqRule("UI-GLOBAL", c.Share)>> \o
                   [k \in 1 .. Len(On) |-> tbqRule(On[k].Name, On[k].Rate)]
  BY <1>1, <1>2 DEF convert
<1>5. K \in SUBSET (1 .. Len(c.Rules))
  OBVIOUS
<1> HIDE DEF K
<1>6. PICK n : n = Cardinality(K)
  OBVIOUS
<1>7. /\ n \in Nat /\ On \in Seq(StoredRule) /\ Len(On) = n
      /\ \E at \in [1 .. n -> K] : \A k \in 1 .. n : On[k] = c.Rules[at[k]]
  BY <1>0, <1>2, <1>5, <1>6, KeptEntries
<1>8. \A k \in 1 .. Len(On) : \E i \in 1 .. Len(c.Rules) : On[k] = c.Rules[i]
  BY <1>5, <1>7
<1>9. \A k \in 1 .. Len(On) : On[k].Name \in Names /\ On[k].Rate \in Limits
  <2>1. \A k \in 1 .. Len(On) : On[k] \in StoredRule
    BY <1>7, ElementOfSeq
  <2> QED
    BY <2>1 DEF StoredRule
<1> DEFINE Rule(k) == tbqRule(On[k].Name, On[k].Rate)
           rest == [k \in 1 .. Len(On) |-> Rule(k)]
<1>10. tbqRule("UI-GLOBAL", c.Share) \in S /\ \A k \in 1 .. Len(On) : Rule(k) \in S
  <2>1. \A nm \in Names \cup {"UI-GLOBAL"}, r \in Shares \cup Limits : tbqRule(nm, r) \in S
    OBVIOUS
  <2> HIDE DEF S
  <2> QED
    BY <1>0, <1>9, <2>1
<1> HIDE DEF S, Rule
<1>11. /\ rest \in Seq(S) /\ Len(rest) = Len(On)
       /\ \A k \in 1 .. Len(On) : rest[k] = Rule(k)
  BY <1>7, <1>10
<1>12. convert(c) = <<tbqRule("UI-GLOBAL", c.Share)>> \o rest
  BY <1>4 DEF Rule
<1> HIDE DEF rest
<1>13. /\ Len(convert(c)) = Len(On) + 1
       /\ convert(c)[1] = tbqRule("UI-GLOBAL", c.Share)
       /\ \A k \in 2 .. Len(On) + 1 :
             k - 1 \in 1 .. Len(On) /\ convert(c)[k] = Rule(k - 1)
  BY <1>10, <1>11, <1>12, Prefixed
<1> QED
  BY <1>3, <1>7, <1>8, <1>13 DEF Rule

\* Between requests the kernel module has the rules that are enabled in the
\* file, in their order, for any number of rules, although Enabled passes
\* through strings that are all true to Lua.
THEOREM FlowModuleFollowsFile == Spec => []ModuleFollowsFile
<1>1. FileInv => ModuleFollowsFile
  <2> SUFFICES ASSUME FileInv, pc = "idle", settled
               PROVE  [k \in 1 .. Len(tbq) |-> tbq[k].Name] =
                      <<"UI-GLOBAL">> \o [k \in 1 .. Len(EnabledRules(file)) |->
                                             EnabledRules(file)[k].Name]
    BY DEF ModuleFollowsFile, EnabledRules
  <2>1. file \in Stored /\ tbq = convert(file)
    BY DEF FileInv
  <2>2. PICK On : On = EnabledRules(file)
    OBVIOUS
  <2>3. /\ On \in Seq(StoredRule) /\ Len(On) \in Nat
        /\ Len(tbq) = Len(On) + 1
        /\ tbq[1] = tbqRule("UI-GLOBAL", file.Share)
        /\ \A k \in 2 .. Len(On) + 1 :
              k - 1 \in 1 .. Len(On) /\ tbq[k] = tbqRule(On[k - 1].Name, On[k - 1].Rate)
    BY <2>1, <2>2, Converted
  <2> DEFINE S == Names \cup {"UI-GLOBAL"}
             Got(k) == tbq[k].Name
             got == [k \in 1 .. Len(tbq) |-> Got(k)]
             Has(k) == On[k].Name
             has == [k \in 1 .. Len(On) |-> Has(k)]
  <2>4. \A k \in 1 .. Len(On) : Has(k) \in S
    <3>1. \A k \in 1 .. Len(On) : On[k] \in StoredRule
      BY <2>3, ElementOfSeq
    <3> QED
      BY <3>1 DEF StoredRule
  <2>5. \A k \in 1 .. Len(tbq) : k = 1 \/ k \in 2 .. Len(On) + 1
    BY <2>3
  <2>6. Got(1) = "UI-GLOBAL" /\ \A k \in 2 .. Len(On) + 1 : Got(k) = Has(k - 1)
    <3>1. \A n, l : tbqRule(n, l).Name = n
      BY DEF tbqRule
    <3> QED
      BY <2>3, <3>1
  <2> SUFFICES got = <<"UI-GLOBAL">> \o has
    BY <2>2
  <2> HIDE DEF Got, Has
  <2>7. "UI-GLOBAL" \in S
    OBVIOUS
  <2>8. has \in Seq(S) /\ Len(has) = Len(On) /\ \A k \in 1 .. Len(On) : has[k] = Has(k)
    BY <2>3, <2>4
  <2>9. \A k \in 1 .. Len(tbq) : Got(k) \in S
    BY <2>3, <2>4, <2>5, <2>6, <2>7
  <2>10. got \in Seq(S) /\ Len(got) = Len(tbq) /\ \A k \in 1 .. Len(tbq) : got[k] = Got(k)
    <3>1. Len(tbq) \in Nat BY <2>3
    <3> QED BY <2>9, <3>1
  <2> HIDE DEF got, has, S
  <2>11. PICK all : all = <<"UI-GLOBAL">> \o has
    OBVIOUS
  <2>12. /\ all \in Seq(S) /\ Len(all) = Len(On) + 1 /\ all[1] = "UI-GLOBAL"
         /\ \A k \in 2 .. Len(On) + 1 : k - 1 \in 1 .. Len(On) /\ all[k] = has[k - 1]
    BY <2>7, <2>8, <2>11, Prefixed
  <2>13. Len(got) = Len(all) /\ \A k \in 1 .. Len(got) : got[k] = all[k]
    BY <2>3, <2>5, <2>6, <2>8, <2>10, <2>12
  <2> QED
    BY <2>10, <2>11, <2>12, <2>13, SeqEqual
<1> QED
  BY <1>1, FileAlways, PTL

\* The limits in the kernel module are exactly the ones asked for, as long as
\* none is above what parseRateDesc takes.
THEOREM FlowRatesExact ==
    ASSUME \A r \in Shares \cup Limits : Asked(r) <= MaxRate
    PROVE  Spec => []RatesExact
<1>r. ASSUME NEW r \in Shares \cup Limits, NEW n
      PROVE  tbqRule(n, r).limit.num * Unit(tbqRule(n, r).limit.unit) = Asked(r)
  <2>1. r \in Rates
    BY RatesAssumption DEF Rates
  <2> QED
    BY <2>1, ParsedExact, SuffixExact DEF tbqRule
<1>1. FileInv => RatesExact
  <2> SUFFICES ASSUME FileInv, pc = "idle", settled
               PROVE  /\ tbq[1].limit.num * Unit(tbq[1].limit.unit) = Asked(file.Share)
                      /\ \A k \in 2 .. Len(tbq), j \in 1 .. Len(file.Rules) :
                            file.Rules[j].Name = tbq[k].Name =>
                              tbq[k].limit.num * Unit(tbq[k].limit.unit)
                                = Asked(file.Rules[j].Rate)
    BY DEF RatesExact
  <2>1. file \in Stored /\ Distinct(file.Rules) /\ tbq = convert(file)
    BY DEF FileInv
  <2>2. PICK On : On = EnabledRules(file)
    OBVIOUS
  <2>3. /\ On \in Seq(StoredRule) /\ Len(On) \in Nat
        /\ Len(tbq) = Len(On) + 1
        /\ tbq[1] = tbqRule("UI-GLOBAL", file.Share)
        /\ \A k \in 2 .. Len(On) + 1 :
              k - 1 \in 1 .. Len(On) /\ tbq[k] = tbqRule(On[k - 1].Name, On[k - 1].Rate)
        /\ \A k \in 1 .. Len(On) : \E i \in 1 .. Len(file.Rules) : On[k] = file.Rules[i]
    BY <2>1, <2>2, Converted
  <2>4. file.Share \in Shares /\ \A j \in 1 .. Len(file.Rules) : file.Rules[j].Rate \in Limits
    <3>1. file.Rules \in Seq(StoredRule)
      BY <2>1, StoredIsForm
    <3>2. \A j \in 1 .. Len(file.Rules) : file.Rules[j] \in StoredRule
      BY <3>1, ElementOfSeq
    <3> QED
      BY <2>1, <3>2 DEF Stored, StoredRule
  <2>5. tbq[1].limit.num * Unit(tbq[1].limit.unit) = Asked(file.Share)
    BY <1>r, <2>3, <2>4
  <2>6. ASSUME NEW k \in 2 .. Len(tbq), NEW j \in 1 .. Len(file.Rules),
               file.Rules[j].Name = tbq[k].Name
        PROVE  tbq[k].limit.num * Unit(tbq[k].limit.unit) = Asked(file.Rules[j].Rate)
    <3>1. PICK i \in 1 .. Len(file.Rules) : On[k - 1] = file.Rules[i]
      BY <2>3
    <3>2. tbq[k] = tbqRule(file.Rules[i].Name, file.Rules[i].Rate)
      BY <2>3, <3>1
    <3>3. i = j
      <4>1. tbq[k].Name = file.Rules[i].Name
        BY <3>2 DEF tbqRule
      <4> QED
        BY <2>1, <2>6, <4>1 DEF Distinct
    <3> QED
      BY <1>r, <2>4, <3>2, <3>3
  <2> QED
    BY <2>5, <2>6
<1> QED
  BY <1>1, FileAlways, PTL
=============================================================================
