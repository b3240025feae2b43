------------------------------ MODULE MCRuleset -----------------------------
(* Instances of Ruleset for TLC: two sets, one of them without a timer. *)
EXTENDS Ruleset

CONSTANTS s1, s2, old, new, html

\* The names com, ads.com and x.ads.com, and org.
MCNames == {<<"com">>, <<"com", "ads">>, <<"com", "ads", "x">>, <<"org">>}
MCHits  == [p \in Patterns |-> IF p = "ads" THEN {<<"com", "ads">>, <<"com", "ads", "x">>} ELSE {<<"org">>}]

\* A tag that is given twice has its last action.
MCTags == [s \in Sets |->
             IF s = s1 THEN <<[name |-> "a", action |-> "direct"], [name |-> "b", action |-> "block"],
                              [name |-> "a", action |-> "fakeip"]>>
             ELSE <<[name |-> "a", action |-> "direct"], [name |-> "b", action |-> "fakeip"]>>]

MCSite == [c \in Contents |->
  IF c = old THEN {[kind |-> "suffix",  value |-> <<"com", "ads">>,      tag |-> "a"],
                   [kind |-> "full",    value |-> <<"com", "ads", "x">>, tag |-> "b"],
                   [kind |-> "keyword", value |-> "ads",                 tag |-> "c"]}
  ELSE IF c = new THEN {[kind |-> "suffix", value |-> <<"com">>, tag |-> "b"],
                        [kind |-> "regex",  value |-> "o.g",     tag |-> "a"]}
  ELSE {}]

MCFirst == [s \in Sets |-> old]
=============================================================================
