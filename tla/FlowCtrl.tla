------------------------------ MODULE FlowCtrl -----------------------------
(***************************************************************************)
(* Flow control settings of the tbqd package: the LuCI controller          *)
(* (flowctrl.lua) edits /etc/config/tc.json and hands the result of        *)
(* settc.lua to the tbq kernel module.                                     *)
(*                                                                         *)
(* One request at a time is served, and uhttpd may kill it anywhere; the   *)
(* router may reboot, which loads the module anew.  Two requests at a time *)
(* share the temporary file and are not modelled.  A file holds a decoded  *)
(* configuration or Partial text; the four limits of a rule are one rate.  *)
(***************************************************************************)
EXTENDS Integers, Sequences, FiniteSets

CONSTANTS Names,    \* names of rules
          Shares,   \* global rates that are asked for, and
          Limits,   \* rates of rules: [num, unit, kind] with unit "K" or "M"
                    \*   and kind "bps" or "Bytes", up to two gigabytes
          Partial,  \* a file that is not whole
          NULL

ASSUME RatesAssumption ==
    Shares \cup Limits \subseteq
        [num : Nat, unit : {"K", "M"}, kind : {"bps", "Bytes"}]

\* What decoding a whole file gives.
Stored == [Share : Shares,
           Rules : Seq([Name : Names, Rate : Limits, Enabled : {"true", "false"}])]

ASSUME PartialAssumption == Partial \notin Stored

VARIABLES file,    \* tc.json
          tmp,     \* tc.json.tmp, NULL if there is none
          pc,      \* where the request is
          fmap,    \* the configuration it saves
          tbq,     \* the rules the kernel module has, NULL for none
          settled  \* history: the last change went all the way

vars == <<file, tmp, pc, fmap, tbq, settled>>

\* Values of Enabled in a form: strings, with quotes in the JSON text; the
\* booleans of the file are "true" and "false".
Strings == {"'true'", "'false'"}

\* The forms the page sends; all values are strings.  set_enable sends no
\* rate.
ShareForms == [op : {"share"}, Rate : Shares]
RuleForms == [op : {"insert", "update"}, Name : Names, Rate : Limits, Enabled : Strings]
EnableForms == [op : {"update"}, Name : Names, Rate : {NULL}, Enabled : Strings]
DeleteForms == [op : {"delete"}, Name : Names]

(***************************************************************************)
(* settc.lua                                                               *)
(***************************************************************************)

\* parseRateDesc: bytes per second, 0 above two gigabytes.  A bit rate is
\* divided by 8; all factors are multiples of 8, so the division is exact.
parseRateDesc(r) ==
    LET factor == CASE r.unit = "K" /\ r.kind = "bps"   -> 125
                    [] r.unit = "M" /\ r.kind = "bps"   -> 125000
                    [] r.unit = "K" /\ r.kind = "Bytes" -> 1000
                    [] r.unit = "M" /\ r.kind = "Bytes" -> 1000000
    IN  IF r.num > 2000000000 \div factor THEN 0 ELSE r.num * factor

\* Mutant: the units are powers of two.
tbqRateFromTCRate_Binary(r) ==
    LET num == parseRateDesc(r)
        Fits == {k \in {1, 1024, 1048576, 1073741824} : num % k = 0}
        unit == CHOOSE k \in Fits : \A l \in Fits : l <= k
        name == CASE unit = 1073741824 -> "G" [] unit = 1048576 -> "M"
                  [] unit = 1024 -> "K" [] OTHER -> "B"
    IN  [num |-> num \div unit, unit |-> name]

\* tbqRateFromTCRate: the largest unit that divides the number, "B" for none.
tbqRateFromTCRate(r) ==
    LET num == parseRateDesc(r)
    IN  IF num % 1000000000 = 0 THEN [num |-> num \div 1000000000, unit |-> "G"]
        ELSE IF num % 1000000 = 0 THEN [num |-> num \div 1000000, unit |-> "M"]
        ELSE IF num % 1000 = 0 THEN [num |-> num \div 1000, unit |-> "K"]
        ELSE [num |-> num, unit |-> "B"]

\* Lua takes everything but false and nil for true.
Truthy(v) == v # "false"

\* new_rule and setTCRate
tbqRule(name, rate) == [Name |-> name, limit |-> tbqRateFromTCRate(rate)]

\* The entries of s at the positions K, in their order: what a loop leaves
\* that inserts some of them into a new table.
Kept(s, K) ==
    LET At(k) == CHOOSE i \in K : Cardinality({j \in K : j < i}) = k - 1
    IN  [k \in 1 .. Cardinality(K) |-> s[At(k)]]

\* convert: the global rule, then the rules that are enabled.
convert(conf) ==
    LET On == Kept(conf.Rules, {k \in 1 .. Len(conf.Rules) : Truthy(conf.Rules[k].Enabled)})
    IN  <<tbqRule("UI-GLOBAL", conf.Share)>> \o
        [k \in 1 .. Len(On) |-> tbqRule(On[k].Name, On[k].Rate)]

(***************************************************************************)
(* flowctrl.lua                                                            *)
(***************************************************************************)

Named(conf, name) == {k \in 1 .. Len(conf.Rules) : conf.Rules[k].Name = name}

\* The request reads the file.  All but set_globalshare look for the rule;
\* they answer {state = 1} and save nothing when they do not like it.
Save(conf) ==
    /\ fmap' = conf
    /\ pc' = "open"
    /\ UNCHANGED <<file, tmp, tbq, settled>>

set_globalshare ==
    /\ pc = "idle"
    /\ \E m \in ShareForms : Save([file EXCEPT !.Share = m.Rate])

insRules ==
    /\ pc = "idle"
    /\ \E m \in RuleForms :
          /\ m.op = "insert"
          /\ Named(file, m.Name) = {}
          /\ Save([file EXCEPT !.Rules = Append(@,
                        [Name |-> m.Name, Rate |-> m.Rate, Enabled |-> m.Enabled])])

\* The keys of the form replace those of the rule.
updateRules ==
    /\ pc = "idle"
    /\ \E m \in RuleForms \cup EnableForms :
          /\ m.op = "update"
          /\ Named(file, m.Name) # {}
          /\ Save([file EXCEPT !.Rules = [k \in 1 .. Len(@) |->
                IF @[k].Name # m.Name THEN @[k]
                ELSE [Name |-> m.Name, Enabled |-> m.Enabled,
                      Rate |-> IF m.Rate = NULL THEN @[k].Rate ELSE m.Rate]]])

deletRules ==
    /\ pc = "idle"
    /\ \E m \in DeleteForms :
          /\ Named(file, m.Name) # {}
          /\ Save([file EXCEPT !.Rules = Kept(@, (1 .. Len(@)) \ Named(file, m.Name))])

\* save_file's text: the strings of the form become booleans.
Bool(v) == CASE v = "'true'"  -> "true"
             [] v = "'false'" -> "false"
             [] OTHER -> v

Encode(conf) ==
    LET Saved(r) == [r EXCEPT !.Enabled = Bool(r.Enabled)]
    IN  [conf EXCEPT !.Rules = [k \in 1 .. Len(@) |-> Saved(@[k])]]

\* Mutant: the file itself is opened.
SaveOpen_InPlace ==
    /\ pc = "open"
    /\ file' = Partial
    /\ pc' = "write"
    /\ UNCHANGED <<tmp, fmap, tbq, settled>>

\* io.open(tmp, "wb")
SaveOpen ==
    /\ pc = "open"
    /\ tmp' = Partial
    /\ pc' = "write"
    /\ UNCHANGED <<file, fmap, tbq, settled>>

\* fp:write, fp:flush, fp:close
SaveWrite ==
    /\ pc = "write"
    /\ tmp' = Encode(fmap)
    /\ pc' = "mv"
    /\ UNCHANGED <<file, fmap, tbq, settled>>

\* Mutant: the kernel module is not told.
SaveMove_Only ==
    /\ pc = "mv"
    /\ file' = tmp
    /\ tmp' = NULL
    /\ pc' = "idle"
    /\ fmap' = NULL
    /\ settled' = TRUE
    /\ UNCHANGED tbq

\* mv tmp path
SaveMove ==
    /\ pc = "mv"
    /\ file' = tmp
    /\ tmp' = NULL
    /\ pc' = "settc"
    /\ settled' = FALSE
    /\ UNCHANGED <<fmap, tbq>>

\* settc.lua | cat > /sys/module/tbq/tbq; echo 1; the request answers
\* {state = 0}.
SaveTbq ==
    /\ pc = "settc"
    /\ tbq' = convert(file)
    /\ pc' = "idle"
    /\ fmap' = NULL
    /\ settled' = TRUE
    /\ UNCHANGED <<file, tmp>>

(***************************************************************************)
(* What may happen to a request and to the router.                         *)
(***************************************************************************)
Kill ==
    /\ pc \notin {"idle", "boot"}
    /\ pc' = "idle"
    /\ fmap' = NULL
    /\ UNCHANGED <<file, tmp, tbq, settled>>

\* Files outlive a reboot; /etc/init.d/tbqd starts the module with them.
Reboot ==
    /\ pc' = "boot"
    /\ fmap' = NULL
    /\ tbq' = NULL
    /\ settled' = FALSE
    /\ UNCHANGED <<file, tmp>>

Boot ==
    /\ pc = "boot"
    /\ tbq' = convert(file)
    /\ pc' = "idle"
    /\ settled' = TRUE
    /\ UNCHANGED <<file, tmp, fmap>>

\* The tc.json of the package.
Init ==
    /\ \E r \in Shares : file = [Share |-> r, Rules |-> <<>>]
    /\ tmp = NULL
    /\ pc = "boot"
    /\ fmap = NULL
    /\ tbq = NULL
    /\ settled = FALSE

Request == set_globalshare \/ insRules \/ updateRules \/ deletRules
           \/ SaveOpen \/ SaveWrite \/ SaveMove \/ SaveTbq

Next == Request \/ Kill \/ Reboot \/ Boot

Spec == Init /\ [][Next]_vars

(***************************************************************************)
(* Properties.                                                             *)
(***************************************************************************)

\* Wherever a request is killed and the router restarted, the settings are
\* those of before the request or those of after it, never a partial file.
FileWhole == file # Partial

\* Between requests the kernel module has the rules that are enabled in the
\* file, in their order, unless a request was killed after it moved the
\* file; it never has one that is disabled.
ModuleFollowsFile ==
    pc = "idle" /\ settled =>
        [k \in 1 .. Len(tbq) |-> tbq[k].Name] =
        <<"UI-GLOBAL">> \o LET On == Kept(file.Rules, {k \in 1 .. Len(file.Rules) :
                                                          file.Rules[k].Enabled = "true"})
                           IN  [k \in 1 .. Len(On) |-> On[k].Name]

Unit(u) == CASE u = "G" -> 1000000000 [] u = "M" -> 1000000
             [] u = "K" -> 1000 [] OTHER -> 1

\* The rate a user asked for, in bytes per second.
Asked(r) ==
    LET perK == IF r.kind = "bps" THEN 125 ELSE 1000
    IN  IF r.unit = "K" THEN r.num * perK ELSE r.num * perK * 1000

\* The limits in the kernel module are exactly the ones asked for, through
\* three unit systems: bits or bytes, K or M in the form; bytes with the
\* largest fitting suffix in the module.
RatesExact ==
    pc = "idle" /\ settled =>
        LET Is(limit, r) == limit.num * Unit(limit.unit) = Asked(r)
        IN  /\ Is(tbq[1].limit, file.Share)
            /\ \A k \in 2 .. Len(tbq), j \in 1 .. Len(file.Rules) :
                  file.Rules[j].Name = tbq[k].Name => Is(tbq[k].limit, file.Rules[j].Rate)
=============================================================================
