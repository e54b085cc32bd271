------------------------------- MODULE Filter -------------------------------
(***************************************************************************)
(* internal/filter: which events a subscription addresses.                 *)
(*                                                                         *)
(* A dotted type, or a pattern of types, is the sequence of its segments   *)
(* (strings.Split keeps at least one); providers and subjects are single   *)
(* values. What path.Match and strings.HasPrefix answer for a pattern and  *)
(* a value is given by constants.                                          *)
(***************************************************************************)
EXTENDS Integers, Sequences

CONSTANTS
    All,        \* model.StreamAll
    Wild,       \* the patterns that contain one of the characters *?[
    Malformed,  \* the patterns path.Match rejects with ErrBadPattern
    Globs,      \* <<pattern, value>> where path.Match answers true
    Prefixed    \* <<pattern, value>>: value begins with pattern less a final *

ASSUME PatternsAssumption == Malformed \subseteq Wild

Globbed(p, v) == p \in Wild /\ <<p, v>> \in (IF p \in Malformed THEN Prefixed ELSE Globs)

MatchSegment(p, v) == p = v \/ p = "*" \/ Globbed(p, v)
MatchPath(p, v)    == p = v \/ Globbed(p, v)

\* Variants of a definition, as a plausible slip would write it, stand right
\* before it: a property is shown to reject them.

MatchTypeSegmentsZero(ps, vs) ==
    LET m[c \in (1..Len(ps) + 1) \X (1..Len(vs) + 1)] ==
            LET i == c[1] j == c[2] IN
            IF i > Len(ps) THEN j > Len(vs)
            ELSE IF ps[i] = "**"
                 THEN \E k \in j..Len(vs) + 1 : m[<<i + 1, k>>]
                 ELSE j <= Len(vs) /\ MatchSegment(ps[i], vs[j]) /\ m[<<i + 1, j + 1>>]
    IN m[<<1, 1>>]

\* m[<<i, j>>] answers for ps[i:] and vs[j:].
MatchTypeSegments(ps, vs) ==
    LET m[c \in (1..Len(ps) + 1) \X (1..Len(vs) + 1)] ==
            LET i == c[1] j == c[2] IN
            IF i > Len(ps) THEN j > Len(vs)
            ELSE IF ps[i] = "**"
                 THEN \E k \in j + 1..Len(vs) + 1 : m[<<i + 1, k>>]
                 ELSE j <= Len(vs) /\ MatchSegment(ps[i], vs[j]) /\ m[<<i + 1, j + 1>>]
    IN m[<<1, 1>>]

MatchType(p, v) == p = v \/ MatchTypeSegments(p, v)

\* matchAny lets "", "*" and "**" stand for anything before it asks a matcher.
Anything == {"", "*", "**"}
MatchAnyProvider(patterns, v) == \E p \in patterns : p \in Anything \/ MatchSegment(p, v)
MatchAnyType(patterns, v) ==
    \E p \in patterns : p \in {<<a>> : a \in Anything} \/ MatchType(p, v)

Matches(sub, ev) ==
    /\ sub.stream \in {"", All, ev.stream}
    /\ sub.providers = {} \/ MatchAnyProvider(sub.providers, ev.provider)
    /\ sub.types = {} \/ MatchAnyType(sub.types, ev.type)
    /\ sub.subject = "" \/ MatchPath(sub.subject, ev.subject)

-----------------------------------------------------------------------------
(* What the head of filter.go and DESIGN.md say, without a recursion: the  *)
(* type can be cut into one block per segment of the pattern, "**" taking  *)
(* one segment or more and everything else exactly one.                    *)

DocumentedType(ps, vs) ==
    \E cut \in [0..Len(ps) -> 0..Len(vs)] :
        /\ cut[0] = 0
        /\ cut[Len(ps)] = Len(vs)
        /\ \A i \in 1..Len(ps) :
               IF ps[i] = "**" THEN cut[i] > cut[i - 1]
               ELSE cut[i] = cut[i - 1] + 1 /\ MatchSegment(ps[i], vs[cut[i]])

\* An omitted filter matches everything.
Documented(sub, ev) ==
    /\ sub.stream # All => sub.stream = ev.stream
    /\ sub.providers # {} => \E p \in sub.providers : MatchSegment(p, ev.provider)
    /\ sub.types # {} => \E p \in sub.types : DocumentedType(p, ev.type)
    /\ sub.subject # "" => sub.subject = ev.subject \/ Globbed(sub.subject, ev.subject)

\* What they do not say: a list that holds a lone wildcard, or "", counts as
\* omitted. TestMatchesExactAndWildcardTypes asks it of the type "*", which the
\* documents have match one segment.
LoneProvider(sub) == sub.providers \cap Anything # {}
LoneType(sub) == sub.types \cap {<<p>> : p \in Anything} # {}
Loosened(sub) ==
    [stream    |-> sub.stream,
     providers |-> IF LoneProvider(sub) THEN {} ELSE sub.providers,
     types     |-> IF LoneType(sub) THEN {} ELSE sub.types,
     subject   |-> sub.subject]
=============================================================================
