------------------------------ MODULE RuleText -----------------------------
(***************************************************************************)
(* From the text that ntrackd sends to the list of rules: the parser of    *)
(* drivers/nos_track/src/nxjson.c, which builds a tree of nodes linked by  *)
(* child, last_child and next and decodes strings in place, and the loop   *)
(* of ntrack_conf_sync that reads the tree.  How the list replaces the one *)
(* in use is the subject of AuthConf.tla.                                  *)
(*                                                                         *)
(* The text is a sequence of tokens.  It is one of Seeds, read to its end, *)
(* or is made up while it is read, so that every text of MaxLen tokens is. *)
(* The parser's recursion is the stack of open nodes.  White space, commas *)
(* and comments are skipped alike and stand for one token, "comma".        *)
(***************************************************************************)
EXTENDS Integers, Sequences

CONSTANTS Keys,          \* strings that stand before a colon
          Names,         \* strings that stand for themselves, ipset names
          KnownSets,     \* the ipsets that exist
          Seeds,         \* whole texts
          MaxLen,        \* tokens of a text that is made up
          MaxUnits,      \* characters and escapes of a string
          MAX_USR_SET,   \* ipsets of a rule
          MAX_URL_RULES  \* rules of a list

Strings == Keys \cup Names
Literals == {"int", "bool", "null"}
Marks == {"lbrace", "rbrace", "lbracket", "rbracket", "colon", "comma", "bad", "nul"}
Tokens == Marks \cup Literals \cup Strings
NoKey == "nokey"

\* A string is its own token and its node's type: no other token is called so.
ASSUME RuleTextAssumption ==
    /\ {"IPSets", "Flags"} \subseteq Keys
    /\ KnownSets \subseteq Names
    /\ \A t \in Seeds : t \in Seq(Tokens)
    /\ Strings \cap (Marks \cup Literals \cup {"object", "array", "root", NoKey}) = {}
    /\ MAX_USR_SET \in Nat /\ MAX_URL_RULES \in Nat

VARIABLES pc,      \* where the parser is, or ntrack_conf_sync
          seed,    \* what is left of the text, or Free
          text,    \* tokens read, without those that are skipped
          nodes,   \* the nodes; nodes[1] is js of nx_json_parse, 0 is none
          stack,   \* the open nodes, innermost first
          key,     \* new_key of parse_value
          gap,     \* how far unescape_string reads ahead of what it writes
          units,   \* what it has read
          live,    \* nodes between kzalloc and kfree
          i, j,    \* the loop counters of ntrack_conf_sync
          rule,    \* its rule
          rules    \* conf_tmp->rules

parser == <<seed, text, nodes, stack, key, gap, units, live>>
loop == <<i, j, rule, rules>>
textvars == <<pc, parser, loop>>

NoNode == 0
Free == <<"free">>

Node(type, k) == [type |-> type, key |-> k, child |-> NoNode, last |-> NoNode,
                  next |-> NoNode, length |-> 0]

\* The token at p.
Peek == IF seed # Free
        THEN {IF seed = <<>> THEN "nul" ELSE Head(seed)}
        ELSE IF Len(text) < MaxLen THEN Tokens ELSE {"nul"}

\* p++
Consume(t) == /\ seed' = IF seed \in {Free, <<>>} THEN seed ELSE Tail(seed)
              /\ text' = IF t = "comma" THEN text ELSE Append(text, t)

(***************************************************************************)
(* create_json and nx_json_free                                            *)
(***************************************************************************)

\* Mutant: a node that is not its parent's first is not linked to the one
\* before it.
create_json_NoNext(type, k) ==
    LET n == Len(nodes) + 1
        p == Head(stack)
    IN Append([nodes EXCEPT
            ![p].child = IF nodes[p].last = NoNode THEN n ELSE @,
            ![p].last = n,
            ![p].length = @ + 1], Node(type, k))

\* The nodes with a new one, the last child of the innermost open node.
create_json(type, k) ==
    LET n == Len(nodes) + 1
        p == Head(stack)
        linked == IF nodes[p].last = NoNode
                  THEN [nodes EXCEPT ![p].child = n]
                  ELSE [nodes EXCEPT ![nodes[p].last].next = n]
    IN Append([linked EXCEPT ![p].last = n, ![p].length = @ + 1], Node(type, k))

\* A node and those behind it, by next.
Chain[n \in 0 .. Len(nodes)] == IF n = NoNode THEN <<>> ELSE <<n>> \o Chain[nodes[n].next]

Children(n) == Chain[nodes[n].child]

\* What the loop of nx_json_free frees from n on.
Freed[n \in 0 .. Len(nodes)] ==
    IF n = NoNode THEN {} ELSE {n} \cup Freed[nodes[n].child] \cup Freed[nodes[n].next]

\* Mutant: the children are freed and not theirs.
nx_json_free_Flat(n) == {n} \cup {Children(n)[k] : k \in DOMAIN Children(n)}

\* The nodes that nx_json_free(n) frees.
nx_json_free(n) == {n} \cup Freed[nodes[n].child]

Fail == /\ pc' = "failed"
        /\ live' = IF nodes[1].child = NoNode THEN live
                   ELSE live \ nx_json_free(nodes[1].child)
        /\ UNCHANGED <<seed, text, nodes, stack, key, gap, units, loop>>

(***************************************************************************)
(* parse_value and parse_key                                               *)
(***************************************************************************)

AtValue == pc \in {"value", "member"}

\* Where a value or an object that ends here leaves its caller.
After(st) == IF Len(st) = 1 THEN "parsed"
             ELSE IF nodes[Head(st)].type = "object" THEN "key" ELSE "value"

Create(type, t, next) ==
    /\ nodes' = create_json(type, key)
    /\ live' = live \cup {Len(nodes) + 1}
    /\ Consume(t)
    /\ key' = NoKey
    /\ pc' = next
    /\ UNCHANGED <<gap, units, loop>>

Open ==
    /\ AtValue
    /\ \E t \in Peek \cap {"lbrace", "lbracket"} :
          /\ Create(IF t = "lbrace" THEN "object" ELSE "array", t,
                    IF t = "lbrace" THEN "key" ELSE "value")
          /\ stack' = <<Len(nodes) + 1>> \o stack

Literal ==
    /\ AtValue
    /\ \E t \in Peek \cap Literals : Create(t, t, After(stack))
    /\ UNCHANGED stack

\* The string's text is its token; it is decoded by Unescape.
StringValue ==
    /\ AtValue
    /\ \E t \in Peek \cap Strings : Create(t, t, "string")
    /\ UNCHANGED stack

\* parse_value returns at "]", whoever called it: an array ends, an object
\* finds it where a key should be, and nx_json_parse takes it for success.
CloseArray ==
    /\ AtValue
    /\ "rbracket" \in Peek
    /\ IF Len(stack) > 1 /\ nodes[Head(stack)].type = "object"
       THEN Fail
       ELSE /\ Consume("rbracket")
            /\ stack' = IF Len(stack) = 1 THEN stack ELSE Tail(stack)
            /\ pc' = IF Len(stack) = 1 THEN "parsed" ELSE After(Tail(stack))
            /\ key' = NoKey
            /\ UNCHANGED <<nodes, gap, units, live, loop>>

Skip ==
    /\ pc \in {"value", "member", "key", "colon"}
    /\ "comma" \in Peek
    /\ Consume("comma")
    /\ pc' = IF pc = "member" THEN "value" ELSE pc
    /\ UNCHANGED <<nodes, stack, key, gap, units, live, loop>>

\* After the colon parse_value is called, unless the object ends there: the
\* key is then forgotten.
CloseObject ==
    /\ pc \in {"key", "member"}
    /\ "rbrace" \in Peek
    /\ Consume("rbrace")
    /\ stack' = Tail(stack)
    /\ pc' = After(Tail(stack))
    /\ key' = NoKey
    /\ UNCHANGED <<nodes, gap, units, live, loop>>

Key ==
    /\ pc = "key"
    /\ \E t \in Peek \cap Strings : Consume(t) /\ key' = t
    /\ pc' = "keystring"
    /\ UNCHANGED <<nodes, stack, gap, units, live, loop>>

Colon ==
    /\ pc = "colon"
    /\ "colon" \in Peek
    /\ Consume("colon")
    /\ pc' = "member"
    /\ UNCHANGED <<nodes, stack, key, gap, units, live, loop>>

Expected == CASE pc = "value" -> Tokens \ {"rbrace", "colon", "bad", "nul"}
              [] pc = "member" -> Tokens \ {"colon", "bad", "nul"}
              [] pc = "key" -> Strings \cup {"rbrace", "comma"}
              [] pc = "colon" -> {"colon", "comma"}
              [] OTHER -> Tokens

\* Before the colon white space is skipped, a comma or a comment is not.
Unexpected ==
    /\ \/ Peek \ Expected # {}
       \/ pc = "colon" /\ "comma" \in Peek
    /\ Fail

NoMemory ==
    /\ AtValue
    /\ Peek \cap ({"lbrace", "lbracket"} \cup Literals \cup Strings) # {}
    /\ Fail

(***************************************************************************)
(* unescape_string                                                         *)
(***************************************************************************)

\* Mutant: an unknown escape is copied whole, and its letter read again.
Unit_CopyEscape == {<<1, 2>>, <<2, 1>>} \cup {<<6, n>> : n \in 1 .. 3} \cup {<<12, 4>>}

\* Characters read and written: one as it is (also the backslash of an
\* unknown escape), an escape, \u for one to three bytes, a surrogate pair.
Unit == {<<1, 1>>, <<2, 1>>} \cup {<<6, n>> : n \in 1 .. 3} \cup {<<12, 4>>}

InString == pc \in {"string", "keystring"}

Unescape ==
    /\ InString
    /\ units < MaxUnits
    /\ \E u \in Unit : gap' = gap + u[1] - u[2]
    /\ units' = units + 1
    /\ UNCHANGED <<pc, seed, text, nodes, stack, key, live, loop>>

Quote ==
    /\ InString
    /\ pc' = IF pc = "string" THEN After(stack) ELSE "colon"
    /\ gap' = 0
    /\ units' = 0
    /\ UNCHANGED <<seed, text, nodes, stack, key, live, loop>>

\* No closing quote, or a \u that is no code point.
BadString == InString /\ Fail

(***************************************************************************)
(* ntrack_conf_sync                                                        *)
(***************************************************************************)

json == nodes[1].child

\* Not an array: -EINVAL, and the tree is not freed.
NotArray ==
    /\ pc = "parsed"
    /\ IF json = NoNode THEN TRUE ELSE nodes[json].type # "array"
    /\ pc' = "einval"
    /\ UNCHANGED <<parser, loop>>

IsArray ==
    /\ pc = "parsed"
    /\ json # NoNode /\ nodes[json].type = "array"
    /\ pc' = "entries"
    /\ UNCHANGED <<parser, loop>>

\* The dummy node, of type null, for what is not there.
nx_json_item(n, k) == IF k < Len(Children(n)) THEN nodes[Children(n)[k + 1]]
                      ELSE Node("null", NoKey)

nx_json_get(n, k) ==
    LET hits == {l \in DOMAIN Children(n) : nodes[Children(n)[l]].key = k}
    IN IF hits = {} THEN NoNode
       ELSE Children(n)[CHOOSE l \in hits : \A m \in hits : l <= m]

Entry == Children(json)[i]
Sets == nx_json_get(Entry, "IPSets")
Flags == nx_json_get(Entry, "Flags")
IsRule == /\ nx_json_item(json, i - 1).type = "object"
          /\ Sets # NoNode
          /\ nodes[Sets].type = "array"

EmptyRule == [sets |-> <<>>, flags |-> 0]

\* Mutant: the rule is cleared once and not for every entry.
NextEntry_Stale ==
    /\ pc = "entries"
    /\ i' = i + 1
    /\ pc' = IF nx_json_item(json, i).type = "null" THEN "install" ELSE "entry"
    /\ UNCHANGED <<parser, j, rule, rules>>

\* node = nx_json_item(json, i++): null ends the list.
NextEntry ==
    /\ pc = "entries"
    /\ i' = i + 1
    /\ pc' = IF nx_json_item(json, i).type = "null" THEN "install" ELSE "entry"
    /\ rule' = EmptyRule
    /\ UNCHANGED <<parser, j, rules>>

TakeEntry ==
    /\ pc = "entry"
    /\ pc' = IF IsRule THEN "sets" ELSE "entries"
    /\ j' = 0
    /\ UNCHANGED <<parser, i, rule, rules>>

\* Only strings that name an ipset count; the limit is tested after the
\* entry was written.  One past the end of uset_idx lies in the rule's name,
\* one past the end of rules in the rest of the page vmalloc gave, so that
\* either entry is read back.
TakeSet ==
    /\ pc = "sets"
    /\ LET str == nx_json_item(Sets, j)
           new == Append(rule.sets, str.type)
       IN /\ rule' = IF str.type \in KnownSets THEN [rule EXCEPT !.sets = new] ELSE rule
          /\ pc' = IF \/ str.type = "null"
                      \/ str.type \in KnownSets /\ Len(new) > MAX_USR_SET
                   THEN "flags" ELSE "sets"
    /\ j' = j + 1
    /\ UNCHANGED <<parser, i, rules>>

SaveRule ==
    /\ pc = "flags"
    /\ LET f == IF Flags = NoNode THEN "null" ELSE nodes[Flags].type
           new == Append(rules, [rule EXCEPT !.flags = IF f = "int" THEN 1 ELSE @])
       IN IF rule.sets = <<>>
          THEN rules' = rules /\ pc' = "entries"
          ELSE /\ rules' = new
               /\ pc' = IF Len(new) > MAX_URL_RULES THEN "install" ELSE "entries"
    /\ UNCHANGED <<parser, i, j, rule>>

Install ==
    /\ pc = "install"
    /\ live' = live \ nx_json_free(json)
    /\ pc' = "synced"
    /\ UNCHANGED <<seed, text, nodes, stack, key, gap, units, loop>>

TextInit ==
    /\ pc = "value"
    /\ seed \in Seeds \cup {Free}
    /\ text = <<>>
    /\ nodes = <<Node("root", NoKey)>>
    /\ stack = <<1>>
    /\ key = NoKey
    /\ gap = 0 /\ units = 0
    /\ live = {}
    /\ i = 0 /\ j = 0
    /\ rule = EmptyRule
    /\ rules = <<>>

Finished == pc \in {"failed", "einval", "synced"} /\ UNCHANGED textvars

TextNext == \/ Open \/ Literal \/ StringValue \/ CloseArray \/ Skip
            \/ CloseObject \/ Key \/ Colon \/ Unexpected \/ NoMemory
            \/ Unescape \/ Quote \/ BadString
            \/ NotArray \/ IsArray \/ NextEntry \/ TakeEntry \/ TakeSet \/ SaveRule
            \/ Install \/ Finished

TextSpec == TextInit /\ [][TextNext]_textvars

(***************************************************************************)
(* Properties.                                                             *)
(***************************************************************************)

\* Every node is freed: by nx_json_parse when the text is wrong or memory
\* runs out in the middle of it, by ntrack_conf_sync when the rules are read.
\* (What is well-formed and not an array is not freed.)
NoLeak == pc \in {"failed", "synced"} => live = {}

Prefix(n) == IF nodes[n].key = NoKey THEN <<>> ELSE <<nodes[n].key, "colon">>
Opening(n) == CASE nodes[n].type = "object" -> "lbrace"
                [] nodes[n].type = "array" -> "lbracket"
                [] OTHER -> nodes[n].type
Closing(n) == CASE nodes[n].type = "object" -> <<"rbrace">>
                [] nodes[n].type = "array" -> <<"rbracket">>
                [] OTHER -> <<>>

\* The tokens that a node and those behind it stand for.
Render[n \in 0 .. Len(nodes)] ==
    IF n = NoNode THEN <<>>
    ELSE Prefix(n) \o <<Opening(n)>> \o Render[nodes[n].child] \o Closing(n)
         \o Render[nodes[n].next]

\* What the parser accepts beyond JSON: a key without a value before "}", and
\* "]" for a text.
Odd == \/ text = <<"rbracket">>
       \/ \E k \in 1 .. Len(text) - 1 : text[k] = "colon" /\ text[k + 1] = "rbrace"

\* The tree is the text: a text that is accepted is the one its tree stands
\* for, however deep arrays and objects are nested, and length counts the
\* children.
Faithful ==
    pc = "parsed" /\ ~Odd =>
        /\ Render[json] = text
        /\ \A n \in DOMAIN nodes : nodes[n].length = Len(Children(n))

\* Decoding in place never writes where it has not read yet.
WritesBehind == gap >= 0

UpTo(s, n) == SubSeq(s, 1, IF Len(s) < n THEN Len(s) ELSE n)

\* The ipsets that m and the nodes behind it name, up to a null.
SetsFrom[m \in 0 .. Len(nodes)] ==
    IF m = NoNode THEN <<>>
    ELSE IF nodes[m].type = "null" THEN <<>>
    ELSE (IF nodes[m].type \in KnownSets THEN <<nodes[m].type>> ELSE <<>>)
         \o SetsFrom[nodes[m].next]

SetsOf(n) ==
    LET a == nx_json_get(n, "IPSets")
    IN IF nodes[n].type # "object" \/ a = NoNode THEN <<>>
       ELSE IF nodes[a].type # "array" THEN <<>>
       ELSE UpTo(SetsFrom[nodes[a].child], MAX_USR_SET + 1)

FlagsOf(n) ==
    LET f == nx_json_get(n, "Flags")
    IN IF f = NoNode THEN 0 ELSE IF nodes[f].type = "int" THEN 1 ELSE 0

\* The rules that n and the nodes behind it ask for, up to a null.
RulesFrom[n \in 0 .. Len(nodes)] ==
    IF n = NoNode THEN <<>>
    ELSE IF nodes[n].type = "null" THEN <<>>
    ELSE (IF SetsOf(n) = <<>> THEN <<>> ELSE <<[sets |-> SetsOf(n), flags |-> FlagsOf(n)]>>)
         \o RulesFrom[nodes[n].next]

\* The rules are what the text says: one for each object before the first
\* null that names an existing ipset, with these ipsets, in their order, its
\* flags, and nothing of another entry.  Each list is cut off one entry after
\* its limit.
RulesAsSent ==
    pc = "synced" => rules = UpTo(RulesFrom[nodes[json].child], MAX_URL_RULES + 1)
=============================================================================
