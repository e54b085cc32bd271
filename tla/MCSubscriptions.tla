--------------------------- MODULE MCSubscriptions --------------------------
(* Subscriptions on a small instance: segments "a", "ab" and "b", and the  *)
(* patterns that tell them apart: exact, a glob, wildcards, a malformed one.*)
EXTENDS Subscriptions

MCWild == {"*", "**", "a*", "[a"}
MCMalformed == {"[a"}
\* path.Match: "*" and "**" accept every segment, "a*" those that begin with "a".
MCGlobs == ({"*", "**"} \X {"a", "ab", "b"}) \cup ({"a*"} \X {"a", "ab"})
MCPrefixed == {<<"[a", "[ab">>}

SeqsOver(S, lengths) == UNION {[1..k -> S] : k \in lengths}

Types ==
    SeqsOver({"a", "b"}, 1..2)
    \cup {<<"a", "b", "a">>, <<"b", "a", "b">>, <<"ab">>, <<"a", "ab">>, <<"[ab">>}
TypePatterns ==
    SeqsOver({"a", "*", "**"}, 1..2)
    \cup {<<"**", "a", "**">>, <<"a", "**", "a">>, <<"**", "**", "a">>, <<"a", "*", "**">>}
    \cup {<<"">>, <<"a*">>, <<"a", "a*">>, <<"[a">>}

Filter(stream, providers, types, subject) ==
    [stream |-> stream, providers |-> providers, types |-> types, subject |-> subject]
Event(stream, provider, type, subject) ==
    [stream |-> stream, provider |-> provider, type |-> type, subject |-> subject]

MCFilters ==
    {Filter("all", {}, types, "") : types \in {{p} : p \in TypePatterns}
                                         \cup {{}, {<<"b">>, <<"a", "**">>}}}
    \cup {Filter("s", providers, {}, "") : providers \in {{}, {"a"}, {"a*", "b"}, {"**"}, {"[a"}}}
    \cup {Filter("all", {"a*"}, {}, subject) : subject \in {"", "a", "a*", "*"}}

MCEvents ==
    {Event("s", "a", type, "") : type \in Types}
    \cup {Event(stream, provider, <<"a">>, "") :
              stream \in {"s", "t"}, provider \in {"a", "ab", "b", "[ab"}}
    \cup {Event("s", "a", <<"a">>, subject) : subject \in {"a", "ab", "b"}}

MCLimits == {-1, 1, 5}
=============================================================================
