----------------------------- MODULE MCRuleText ----------------------------
(***************************************************************************)
(* Every short text, and longer ones: the shape of the one ntrackd sends,  *)
(* lists beyond both limits, entries that are skipped, and a null.         *)
(***************************************************************************)
EXTENDS RuleText, SequencesExt

MCKeys == {"IPSets", "Flags"}
MCNames == {"web", "gone"}

List(entries) == <<"lbracket">> \o FlattenSeq(entries) \o <<"rbracket">>
Member(k, v) == <<k, "colon">> \o v
Object(members) == <<"lbrace">> \o FlattenSeq(members) \o <<"rbrace">>

RuleOf(sets) ==
    Object(<<Member("IPSets", List(<<sets>>)), <<"comma">>, Member("Flags", <<"int">>)>>)

MCSeeds ==
    {List(<<RuleOf(<<"web", "comma", "web">>), <<"comma">>, RuleOf(<<"web">>)>>),
     List(<<RuleOf(<<"web", "web", "web">>), RuleOf(<<"gone">>), RuleOf(<<"gone", "web">>)>>),
     List(<<RuleOf(<<"web">>), <<"int">>, RuleOf(<<"web">>), RuleOf(<<"web">>)>>),
     List(<<RuleOf(<<"web">>), Object(<<Member("Flags", <<"null">>)>>), <<"null">>,
            RuleOf(<<"web">>)>>),
     List(<<RuleOf(<<"null", "web">>), Object(<<Member("IPSets", <<"web">>)>>),
            RuleOf(<<"int", "web">>)>>)}
=============================================================================
