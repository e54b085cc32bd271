---------------------------- MODULE FilterProofs ----------------------------
(***************************************************************************)
(* Filter's recursive match answers as documented, for every pattern and   *)
(* every type, whatever their lengths and whatever path.Match answers.     *)
(***************************************************************************)
EXTENDS Filter, WellFoundedInduction, TLAPS

-----------------------------------------------------------------------------
(* Induction, as a least counterexample: the library's WFMin needs no      *)
(* operator for the formula that is proved.                                *)

\* A set of naturals that is not empty has a least element.
LEMMA Least == ASSUME NEW T, T \subseteq Nat, T # {} PROVE \E n \in T : \A m \in T : n <= m
  <1> DEFINE R == {ss \in Nat \X Nat : ss[1] < ss[2]}
  <1>1. IsWellFoundedOn(R, Nat)
    BY NatLessThanWellFounded DEF OpToRel
  <1>2. PICK x \in T : \A y \in T : ~ (<<y, x>> \in R)
    <2> HIDE DEF R
    <2> QED
      BY <1>1, WFMin
  <1>3. ASSUME NEW y \in T PROVE x <= y
    <2>1. x \in Nat /\ y \in Nat
      OBVIOUS
    <2>2. ~ (y < x)
      BY <1>2, <2>1
    <2> QED
      BY <2>1, <2>2
  <1> QED
    BY <1>3

-----------------------------------------------------------------------------
(* The table MatchTypeSegments fills in.                                   *)

\* What the table m says at <<i, j>>, as its equation has it.
Entry(m, ps, vs, i, j) ==
    IF i > Len(ps) THEN j > Len(vs)
    ELSE IF ps[i] = "**"
         THEN \E k \in j + 1..Len(vs) + 1 : m[<<i + 1, k>>]
         ELSE j <= Len(vs) /\ MatchSegment(ps[i], vs[j]) /\ m[<<i + 1, j + 1>>]

Cells(ps, vs) == (1..Len(ps) + 1) \X (1..Len(vs) + 1)
Table(m, ps, vs) == [c \in Cells(ps, vs) |-> Entry(m, ps, vs, c[1], c[2])]

\* How segment i of the pattern may be laid over the block of vs from `from` to `to`.
Block(ps, vs, i, from, to) ==
    IF ps[i] = "**" THEN to > from ELSE to = from + 1 /\ MatchSegment(ps[i], vs[to])

\* ps[i:] can be laid over vs[j:], as DocumentedType says it for the whole.
Cuts(ps, vs, i, j) ==
    {cut \in [i - 1..Len(ps) -> 0..Len(vs)] :
        /\ cut[i - 1] = j - 1
        /\ cut[Len(ps)] = Len(vs)
        /\ \A h \in i..Len(ps) : Block(ps, vs, h, cut[h - 1], cut[h])}
Laid(ps, vs, i, j) == Cuts(ps, vs, i, j) # {}
Layout(ps, vs) == [c \in Cells(ps, vs) |-> Laid(ps, vs, c[1], c[2])]

\* The recursive function is a fixed point of its equation, any one.
LEMMA Unfold ==
    ASSUME NEW ps, NEW vs
    PROVE  MatchTypeSegments(ps, vs) = (CHOOSE m : m = Table(m, ps, vs))[<<1, 1>>]
  BY DEF MatchTypeSegments, Table, Cells, Entry

\* DocumentedType is Laid from the first segments on.
LEMMA DocumentedIsLaid ==
    ASSUME NEW ps, NEW vs, Len(ps) \in Nat, Len(vs) \in Nat
    PROVE  DocumentedType(ps, vs) <=> Laid(ps, vs, 1, 1)
  BY DEF DocumentedType, Laid, Cuts, Block

\* The end of the pattern lies over the end of the type, and nowhere else.
LEMMA LaidAtEnd ==
    ASSUME NEW ps, NEW vs, Len(ps) \in Nat, Len(vs) \in Nat, NEW j \in 1..Len(vs) + 1
    PROVE  Laid(ps, vs, Len(ps) + 1, j) <=> j > Len(vs)
  <1>1. ASSUME NEW cut \in Cuts(ps, vs, Len(ps) + 1, j) PROVE j > Len(vs)
    BY DEF Cuts
  <1>2. ASSUME j > Len(vs) PROVE [h \in {Len(ps)} |-> Len(vs)] \in Cuts(ps, vs, Len(ps) + 1, j)
    BY <1>2 DEF Cuts
  <1> QED
    BY <1>1, <1>2 DEF Laid

\* A layout of ps[i:] is one block for ps[i] and a layout of ps[i+1:].
LEMMA LaidOneMore ==
    ASSUME NEW ps, NEW vs, Len(ps) \in Nat, Len(vs) \in Nat,
           NEW i \in 1..Len(ps), NEW j \in 1..Len(vs) + 1
    PROVE  Laid(ps, vs, i, j) <=>
             \E k \in 1..Len(vs) + 1 : Block(ps, vs, i, j - 1, k - 1) /\ Laid(ps, vs, i + 1, k)
  <1>1. ASSUME NEW cut \in Cuts(ps, vs, i, j)
        PROVE  \E k \in 1..Len(vs) + 1 :
                   Block(ps, vs, i, j - 1, k - 1) /\ Laid(ps, vs, i + 1, k)
    <2> DEFINE k == cut[i] + 1
               rest == [h \in i..Len(ps) |-> cut[h]]
    <2>1. cut[i] \in 0..Len(vs) /\ k \in 1..Len(vs) + 1 /\ k - 1 = cut[i]
      <3>1. cut \in [i - 1..Len(ps) -> 0..Len(vs)] /\ i \in i - 1..Len(ps)
        BY DEF Cuts
      <3>2. cut[i] \in 0..Len(vs)
        BY <3>1
      <3> QED
        BY <3>2
    <2>0. /\ cut[i - 1] = j - 1 /\ cut[Len(ps)] = Len(vs)
          /\ \A h \in i..Len(ps) : Block(ps, vs, h, cut[h - 1], cut[h])
      BY DEF Cuts
    <2>2. Block(ps, vs, i, j - 1, k - 1)
      BY <2>0, <2>1
    <2>3. rest \in Cuts(ps, vs, i + 1, k)
      <3>1. rest \in [i..Len(ps) -> 0..Len(vs)] /\ i = (i + 1) - 1
        BY DEF Cuts
      <3>2. rest[i] = k - 1 /\ rest[Len(ps)] = Len(vs)
        BY <2>0, <2>1
      <3>3. ASSUME NEW h \in i + 1..Len(ps) PROVE Block(ps, vs, h, rest[h - 1], rest[h])
        <4>1. h \in i..Len(ps) /\ rest[h] = cut[h] /\ rest[h - 1] = cut[h - 1]
          OBVIOUS
        <4> HIDE DEF rest
        <4> QED
          BY <2>0, <4>1
      <3> HIDE DEF rest, k
      <3> QED
        BY <3>1, <3>2, <3>3 DEF Cuts
    <2> QED
      BY <2>1, <2>2, <2>3 DEF Laid
  <1>2. ASSUME NEW k \in 1..Len(vs) + 1, Block(ps, vs, i, j - 1, k - 1),
               NEW rest \in Cuts(ps, vs, i + 1, k)
        PROVE  Laid(ps, vs, i, j)
    <2> DEFINE cut == [h \in i - 1..Len(ps) |-> IF h = i - 1 THEN j - 1 ELSE rest[h]]
    <2>1. rest \in [i..Len(ps) -> 0..Len(vs)] /\ rest[i] = k - 1 /\ rest[Len(ps)] = Len(vs)
      BY DEF Cuts
    <2>2. cut \in [i - 1..Len(ps) -> 0..Len(vs)]
      BY <2>1
    <2>3. cut[i - 1] = j - 1 /\ cut[i] = k - 1 /\ cut[Len(ps)] = Len(vs)
      BY <2>1
    <2>4. ASSUME NEW h \in i..Len(ps) PROVE Block(ps, vs, h, cut[h - 1], cut[h])
      <3>1. CASE h = i
        BY <1>2, <2>3, <3>1
      <3>2. CASE h # i
        <4>1. h \in i + 1..Len(ps) /\ cut[h] = rest[h] /\ cut[h - 1] = rest[h - 1]
          BY <3>2
        <4>2. Block(ps, vs, h, rest[h - 1], rest[h])
          BY <4>1 DEF Cuts
        <4> QED
          BY <4>1, <4>2
      <3> QED
        BY <3>1, <3>2
    <2>5. cut \in Cuts(ps, vs, i, j)
      BY <2>2, <2>3, <2>4 DEF Cuts
    <2> QED
      BY <2>5 DEF Laid
  <1> QED
    BY <1>1, <1>2 DEF Laid

\* Truth values that imply one another are one value.
LEMMA Equal == ASSUME NEW a \in BOOLEAN, NEW b \in BOOLEAN, a <=> b PROVE a = b
  OBVIOUS

\* Where a layout can be cut off is what the recursion of matchTypeSegments asks:
\* Layout solves its equation.
LEMMA LayoutFills ==
    ASSUME NEW ps, NEW vs, Len(ps) \in Nat, Len(vs) \in Nat
    PROVE  Layout(ps, vs) = Table(Layout(ps, vs), ps, vs)
  <1> DEFINE m == Layout(ps, vs)
  <1>1. ASSUME NEW i \in 1..Len(ps) + 1, NEW j \in 1..Len(vs) + 1
        PROVE  Laid(ps, vs, i, j) = Entry(m, ps, vs, i, j)
    <2>0. \A a \in 1..Len(ps) + 1, b \in 1..Len(vs) + 1 : m[<<a, b>>] = Laid(ps, vs, a, b)
      BY DEF Layout, Cells
    <2> HIDE DEF m
    <2>b. Laid(ps, vs, i, j) \in BOOLEAN
      BY DEF Laid
    <2>c. Entry(m, ps, vs, i, j) \in BOOLEAN
      <3>1. CASE i > Len(ps)
        BY <3>1 DEF Entry
      <3>2. CASE ~ (i > Len(ps)) /\ ps[i] = "**"
        BY <3>2, Zenon DEF Entry
      <3>3. CASE ~ (i > Len(ps)) /\ ps[i] # "**"
        BY <3>3, Zenon DEF Entry
      <3> QED
        BY <3>1, <3>2, <3>3
    <2>1. ASSUME i = Len(ps) + 1 PROVE Laid(ps, vs, i, j) <=> Entry(m, ps, vs, i, j)
      <3>1. i > Len(ps)
        BY <2>1
      <3>2. Entry(m, ps, vs, i, j) <=> j > Len(vs)
        BY <3>1 DEF Entry
      <3> QED
        BY <2>1, <3>2, LaidAtEnd
    <2>2. ASSUME i # Len(ps) + 1, ps[i] = "**" PROVE Laid(ps, vs, i, j) <=> Entry(m, ps, vs, i, j)
      <3>1. i \in 1..Len(ps) /\ ~ (i > Len(ps)) /\ i + 1 \in 1..Len(ps) + 1
        BY <2>2
      <3>2. Entry(m, ps, vs, i, j) <=> \E k \in j + 1..Len(vs) + 1 : m[<<i + 1, k>>]
        BY <2>2, <3>1 DEF Entry
      <3>3. \A k \in 1..Len(vs) + 1 : Block(ps, vs, i, j - 1, k - 1) <=> k \in j + 1..Len(vs) + 1
        BY <2>2 DEF Block
      <3>4. Laid(ps, vs, i, j) <=> \E k \in j + 1..Len(vs) + 1 : Laid(ps, vs, i + 1, k)
        BY <3>1, <3>3, LaidOneMore
      <3>5. \A k \in j + 1..Len(vs) + 1 : m[<<i + 1, k>>] = Laid(ps, vs, i + 1, k)
        BY <2>0, <3>1
      <3> QED
        BY <3>2, <3>4, <3>5
    <2>3. ASSUME i # Len(ps) + 1, ps[i] # "**" PROVE Laid(ps, vs, i, j) <=> Entry(m, ps, vs, i, j)
      <3>1. i \in 1..Len(ps) /\ ~ (i > Len(ps)) /\ i + 1 \in 1..Len(ps) + 1
        BY <2>3
      <3>2. Entry(m, ps, vs, i, j) <=>
                j <= Len(vs) /\ MatchSegment(ps[i], vs[j]) /\ m[<<i + 1, j + 1>>]
        BY <2>3, <3>1 DEF Entry
      <3>3. \A k \in 1..Len(vs) + 1 : Block(ps, vs, i, j - 1, k - 1) <=>
                                        (k = j + 1 /\ MatchSegment(ps[i], vs[j]))
        BY <2>3 DEF Block
      <3>4. Laid(ps, vs, i, j) <=>
                j <= Len(vs) /\ MatchSegment(ps[i], vs[j]) /\ Laid(ps, vs, i + 1, j + 1)
        <4>1. Laid(ps, vs, i, j) <=> \E k \in 1..Len(vs) + 1 :
                  Block(ps, vs, i, j - 1, k - 1) /\ Laid(ps, vs, i + 1, k)
          BY <3>1, LaidOneMore
        <4>2. j <= Len(vs) => j + 1 \in 1..Len(vs) + 1
          OBVIOUS
        <4>3. j + 1 \in 1..Len(vs) + 1 => j <= Len(vs)
          OBVIOUS
        <4> QED
          BY <3>3, <4>1, <4>2, <4>3
      <3>5. j <= Len(vs) => m[<<i + 1, j + 1>>] = Laid(ps, vs, i + 1, j + 1)
        BY <2>0, <3>1
      <3> QED
        BY <3>2, <3>4, <3>5
    <2>4. Laid(ps, vs, i, j) <=> Entry(m, ps, vs, i, j)
      BY <2>1, <2>2, <2>3
    <2> QED
      BY <2>b, <2>c, <2>4, Equal
  <1> QED
    BY <1>1 DEF Layout, Table, Cells

Agree(m, n, vs, i) == \A k \in 1..Len(vs) + 1 : m[<<i, k>>] = n[<<i, k>>]

\* Where the rows below agree, the equation gives the same entry.
LEMMA SameRowBelow ==
    ASSUME NEW ps, NEW vs, Len(ps) \in Nat, Len(vs) \in Nat, NEW m, NEW n,
           NEW i \in 1..Len(ps) + 1, NEW j \in 1..Len(vs) + 1,
           i <= Len(ps) => Agree(m, n, vs, i + 1)
    PROVE  Entry(m, ps, vs, i, j) = Entry(n, ps, vs, i, j)
  <1>1. CASE i > Len(ps)
    BY <1>1 DEF Entry
  <1>2. CASE ~ (i > Len(ps)) /\ ps[i] = "**"
    <2>1. \A k \in j + 1..Len(vs) + 1 : m[<<i + 1, k>>] = n[<<i + 1, k>>]
      BY <1>2 DEF Agree
    <2>2. (\E k \in j + 1..Len(vs) + 1 : m[<<i + 1, k>>])
              = (\E k \in j + 1..Len(vs) + 1 : n[<<i + 1, k>>])
      BY <2>1, Zenon
    <2> QED
      BY <1>2, <2>2 DEF Entry
  <1>3. CASE ~ (i > Len(ps)) /\ ps[i] # "**"
    <2>1. j <= Len(vs) => m[<<i + 1, j + 1>>] = n[<<i + 1, j + 1>>]
      BY <1>3 DEF Agree
    <2> QED
      BY <1>3, <2>1 DEF Entry
  <1> QED
    BY <1>1, <1>2, <1>3

\* The equation has one solution: the lowest row in which another one differed
\* would follow from the row below it.
LEMMA OneSolution ==
    ASSUME NEW ps, NEW vs, Len(ps) \in Nat, Len(vs) \in Nat, NEW m, m = Table(m, ps, vs)
    PROVE  m = Layout(ps, vs)
  <1> DEFINE Differ == {n \in 0..Len(ps) : \E j \in 1..Len(vs) + 1 :
                           m[<<Len(ps) + 1 - n, j>>] # Layout(ps, vs)[<<Len(ps) + 1 - n, j>>]}
  <1>1. ASSUME NEW n, n = Table(n, ps, vs), NEW i \in 1..Len(ps) + 1, NEW j \in 1..Len(vs) + 1
        PROVE  n[<<i, j>>] = Entry(n, ps, vs, i, j)
    <2>1. <<i, j>> \in Cells(ps, vs)
      BY DEF Cells
    <2>2. Table(n, ps, vs)[<<i, j>>] = Entry(n, ps, vs, i, j)
      BY <2>1 DEF Table
    <2> QED
      BY <1>1, <2>2
  <1>2. Differ = {}
    <2> SUFFICES ASSUME Differ # {} PROVE FALSE
      OBVIOUS
    <2>1. PICK n \in Differ : \A o \in Differ : n <= o
      <3>1. Differ \subseteq Nat
        OBVIOUS
      <3> HIDE DEF Differ
      <3> QED
        BY <3>1, Least
    <2> DEFINE i == Len(ps) + 1 - n
    <2>2. n \in 0..Len(ps) /\ i \in 1..Len(ps) + 1
      OBVIOUS
    <2>3. PICK j \in 1..Len(vs) + 1 : m[<<i, j>>] # Layout(ps, vs)[<<i, j>>]
      OBVIOUS
    <2>4. i <= Len(ps) => Agree(m, Layout(ps, vs), vs, i + 1)
      <3> SUFFICES ASSUME i <= Len(ps) PROVE n - 1 \notin Differ /\ n - 1 \in 0..Len(ps)
                                             /\ Len(ps) + 1 - (n - 1) = i + 1
        BY DEF Agree
      <3>1. n - 1 \in 0..Len(ps) /\ Len(ps) + 1 - (n - 1) = i + 1 /\ ~ (n <= n - 1)
        BY <2>2
      <3> HIDE DEF Differ
      <3> QED
        BY <2>1, <3>1
    <2> HIDE DEF i, Differ
    <2>5. Entry(m, ps, vs, i, j) = Entry(Layout(ps, vs), ps, vs, i, j)
      BY <2>2, <2>4, SameRowBelow
    <2> QED
      BY <1>1, <2>2, <2>3, <2>5, LayoutFills
  <1>3. ASSUME NEW c \in Cells(ps, vs) PROVE m[c] = Layout(ps, vs)[c]
    <2>1. PICK i \in 1..Len(ps) + 1, j \in 1..Len(vs) + 1 : c = <<i, j>>
      BY DEF Cells
    <2> DEFINE n == Len(ps) + 1 - i
    <2>2. n \in 0..Len(ps) /\ Len(ps) + 1 - n = i
      OBVIOUS
    <2>3. n \notin Differ
      BY <1>2
    <2> HIDE DEF n
    <2> QED
      BY <2>1, <2>2, <2>3
  <1>4. m = [c \in Cells(ps, vs) |-> m[c]]
    BY DEF Table
  <1> HIDE DEF Differ
  <1>5. Layout(ps, vs) = [c \in Cells(ps, vs) |-> Layout(ps, vs)[c]]
    BY DEF Layout
  <1> QED
    BY <1>3, <1>4, <1>5

\* matchTypeSegments (filter.go) answers true for exactly the types that can be
\* cut into one block per segment of the pattern: a "**" anywhere in it, and
\* several of them, take every number of segments but none at all.
THEOREM SegmentsAsDocumented ==
    ASSUME NEW ps, NEW vs, Len(ps) \in Nat, Len(vs) \in Nat
    PROVE  MatchTypeSegments(ps, vs) <=> DocumentedType(ps, vs)
  <1> DEFINE t == CHOOSE m : m = Table(m, ps, vs)
  <1>1. t = Table(t, ps, vs)
    BY LayoutFills
  <1>2. t = Layout(ps, vs)
    <2> HIDE DEF t
    <2> QED
      BY <1>1, OneSolution
  <1>3. t[<<1, 1>>] = Laid(ps, vs, 1, 1)
    <2>1. <<1, 1>> \in Cells(ps, vs)
      BY DEF Cells
    <2> HIDE DEF t
    <2> QED
      BY <1>2, <2>1 DEF Layout
  <1> QED
    BY <1>3, Unfold, DocumentedIsLaid

\* A pattern that equals the type lies over it segment by segment.
LEMMA EqualIsLaid ==
    ASSUME NEW ps, Len(ps) \in Nat PROVE DocumentedType(ps, ps)
  <1> DEFINE cut == [h \in 0..Len(ps) |-> h]
  <1>1. cut \in [0..Len(ps) -> 0..Len(ps)] /\ cut[0] = 0 /\ cut[Len(ps)] = Len(ps)
    OBVIOUS
  <1>2. \A i \in 1..Len(ps) : cut[i] = i /\ cut[i - 1] = i - 1
    OBVIOUS
  <1>3. \A i \in 1..Len(ps) : MatchSegment(ps[i], ps[cut[i]])
    BY <1>2 DEF MatchSegment
  <1> HIDE DEF cut
  <1> QED
    BY <1>1, <1>2, <1>3 DEF DocumentedType

\* The WHERE clause of MatchingSubscriptions (store.go) and filter.Matches together.
Selects(sub, ev) == sub.stream \in {ev.stream, All} /\ Matches(sub, ev)

\* A filter is read as DESIGN.md and the head of filter.go say, but for a list of
\* types or providers with a lone wildcard, which counts as omitted; a filter
\* without one is read to the letter.
THEOREM MatchesAsDocumented ==
    ASSUME NEW S, NEW sub, NEW ev, sub.types \subseteq Seq(S), ev.type \in Seq(S)
    PROVE  /\ Selects(sub, ev) <=> Documented(Loosened(sub), ev)
           /\ ~ LoneProvider(sub) /\ ~ LoneType(sub) =>
                  (Selects(sub, ev) <=> Documented(sub, ev))
  <1>1. ASSUME NEW p \in sub.types
        PROVE  MatchType(p, ev.type) <=> DocumentedType(p, ev.type)
    <2>1. p \in Seq(S) /\ Len(p) \in Nat /\ Len(ev.type) \in Nat
      OBVIOUS
    <2>2. MatchTypeSegments(p, ev.type) <=> DocumentedType(p, ev.type)
      BY <2>1, SegmentsAsDocumented
    <2>3. p = ev.type => DocumentedType(p, ev.type)
      BY <2>1, EqualIsLaid
    <2> QED
      BY <2>2, <2>3 DEF MatchType
  <1>2. MatchAnyType(sub.types, ev.type) <=>
            LoneType(sub) \/ \E p \in sub.types : DocumentedType(p, ev.type)
    BY <1>1 DEF MatchAnyType, LoneType
  <1>3. MatchAnyProvider(sub.providers, ev.provider) <=>
            LoneProvider(sub) \/ \E p \in sub.providers : MatchSegment(p, ev.provider)
    BY DEF MatchAnyProvider, LoneProvider
  <1>4. (sub.stream \in {ev.stream, All} /\ sub.stream \in {"", All, ev.stream}) <=>
            (sub.stream # All => sub.stream = ev.stream)
    OBVIOUS
  <1>5. /\ Loosened(sub).stream = sub.stream /\ Loosened(sub).subject = sub.subject
        /\ Loosened(sub).providers = (IF LoneProvider(sub) THEN {} ELSE sub.providers)
        /\ Loosened(sub).types = (IF LoneType(sub) THEN {} ELSE sub.types)
    BY DEF Loosened
  <1>6. /\ LoneProvider(sub) => sub.providers # {}
        /\ LoneType(sub) => sub.types # {}
    BY DEF LoneProvider, LoneType
  <1>7. Selects(sub, ev) <=>
            /\ sub.stream # All => sub.stream = ev.stream
            /\ sub.providers = {} \/ LoneProvider(sub)
                   \/ \E p \in sub.providers : MatchSegment(p, ev.provider)
            /\ sub.types = {} \/ LoneType(sub) \/ \E p \in sub.types : DocumentedType(p, ev.type)
            /\ sub.subject # "" => sub.subject = ev.subject \/ Globbed(sub.subject, ev.subject)
    BY <1>2, <1>3, <1>4 DEF Selects, Matches, MatchPath
  <1> QED
    BY <1>5, <1>6, <1>7 DEF Documented
=============================================================================
