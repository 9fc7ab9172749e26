----------------------------- MODULE PagesProofs -----------------------------
(***************************************************************************)
(* What holds of every page and of all limits: what is sent is within the  *)
(* broker's budget and summarised as the kind it was found to be, and      *)
(* neither drafts nor layers that were set aside are in it.                *)
(***************************************************************************)
EXTENDS Pages, FiniteSetTheorems, WellFoundedInduction, TLAPS

-----------------------------------------------------------------------------
(* Sums over finite sets.  The induction theorems of the library take an   *)
(* operator, so these proofs go by the least number that is an exception.  *)

\* A set of naturals has a least element.
LEMMA LeastNatural ==
    ASSUME NEW T \in SUBSET Nat, T # {}
    PROVE  \E n \in T : \A m \in T : n <= m
<1>1. \E R : IsWellFoundedOn(R, Nat) /\ \A m, n \in Nat : m < n => <<m, n>> \in R
  <2>1. \A m, n \in Nat : m < n => <<m, n>> \in OpToRel(<, Nat)
    BY DEF OpToRel
  <2> QED
    BY <2>1, NatLessThanWellFounded, Zenon
<1>2. PICK R : IsWellFoundedOn(R, Nat) /\ \A m, n \in Nat : m < n => <<m, n>> \in R
  BY <1>1
<1>3. \E n \in T : \A m \in T : ~(<<m, n>> \in R)
  <2>1. IsWellFoundedOn(R, Nat) /\ T \subseteq Nat
    BY <1>2
  <2> QED
    BY <2>1, WFMin
<1>4. \A m, n \in T : m < n => <<m, n>> \in R
  BY <1>2
<1>5. \A m, n \in T : m < n \/ n <= m
  OBVIOUS
<1> QED
  BY <1>3, <1>4, <1>5

\* What MapThenFoldSet picks, and the function it defines by recursion.
First(T) == CHOOSE x \in T : TRUE
Adds(g, w, S) ==
    g = [T \in SUBSET S |-> IF T = {} THEN 0 ELSE w[First(T)] + g[T \ {First(T)}]]

\* That function exists: the values of the sets of n elements give those of the
\* sets of n + 1.
LEMMA SumExists ==
    ASSUME NEW S, IsFiniteSet(S), NEW w \in [S -> Nat]
    PROVE  \E g \in [SUBSET S -> Nat] : Adds(g, w, S)
<1> DEFINE rest(T) == T \ {First(T)}
           value(g, T) == IF T = {} THEN 0 ELSE w[First(T)] + g[rest(T)]
           upTo(g, n) == \A T \in SUBSET S : Cardinality(T) <= n => g[T] = value(g, T)
           reached == {n \in Nat : \E g \in [SUBSET S -> Nat] : upTo(g, n)}
<1>1. \A T \in SUBSET S : /\ IsFiniteSet(T) /\ Cardinality(T) \in Nat
                          /\ Cardinality(T) <= Cardinality(S) /\ Cardinality(S) \in Nat
                          /\ Cardinality(T) = 0 <=> T = {}
  BY FS_Subset, FS_CardinalityType, FS_EmptySet
<1>2. \A T \in SUBSET S : T # {} =>
        /\ First(T) \in S /\ First(T) \in T
        /\ rest(T) \in SUBSET S /\ Cardinality(rest(T)) = Cardinality(T) - 1
  <2> SUFFICES ASSUME NEW T \in SUBSET S, T # {}
               PROVE  /\ First(T) \in S /\ First(T) \in T
                      /\ rest(T) \in SUBSET S /\ Cardinality(rest(T)) = Cardinality(T) - 1
    OBVIOUS
  <2>1. First(T) \in T
    BY DEF First
  <2> QED
    BY <2>1, <1>1, FS_RemoveElement
<1>3. \A g \in [SUBSET S -> Nat] : \A T \in SUBSET S : value(g, T) \in Nat
  BY <1>2
<1>4. 0 \in reached
  <2> DEFINE g == [T \in SUBSET S |-> 0]
  <2>1. g \in [SUBSET S -> Nat] /\ upTo(g, 0)
    BY <1>1
  <2> QED
    BY <2>1
<1>5. ASSUME NEW n \in reached
      PROVE  n + 1 \in reached
  <2>0. n \in Nat /\ n + 1 \in Nat
    OBVIOUS
  <2>1. PICK g \in [SUBSET S -> Nat] : upTo(g, n)
    OBVIOUS
  <2> DEFINE h == [T \in SUBSET S |-> IF Cardinality(T) = n + 1 THEN value(g, T) ELSE g[T]]
  <2>2. h \in [SUBSET S -> Nat]
    BY <1>3
  <2>3. ASSUME NEW T \in SUBSET S, Cardinality(T) <= n + 1
        PROVE  h[T] = value(h, T)
    <3>1. h[T] = value(g, T)
      BY <2>1, <2>3, <1>1
    <3>2. T # {} => h[rest(T)] = g[rest(T)]
      BY <2>3, <1>1, <1>2
    <3> QED
      BY <3>1, <3>2
  <2>4. upTo(h, n + 1)
    BY <2>3
  <2> HIDE DEF h
  <2> QED
    BY <2>0, <2>2, <2>4
<1>6. \A n \in Nat : n \in reached
  <2> SUFFICES ASSUME Nat \ reached # {}
               PROVE  FALSE
    OBVIOUS
  <2>1. PICK n \in Nat \ reached : \A m \in Nat \ reached : n <= m
    BY LeastNatural
  <2> HIDE DEF reached
  <2>2. n # 0 /\ n - 1 \in Nat /\ ~(n <= n - 1) /\ (n - 1) + 1 = n
    BY <1>4
  <2>3. n - 1 \in reached
    BY <2>1, <2>2
  <2>4. (n - 1) + 1 \in reached
    BY <2>3, <1>5
  <2> QED
    BY <2>2, <2>4
<1>7. PICK g \in [SUBSET S -> Nat] : upTo(g, Cardinality(S))
  BY <1>1, <1>6
<1>8. g = [T \in SUBSET S |-> value(g, T)]
  BY <1>1, <1>7
<1> QED
  BY <1>8 DEF Adds

\* It adds naturals to a natural, of at most the greatest of them each.
LEMMA SumBound ==
    ASSUME NEW S, IsFiniteSet(S), NEW w \in [S -> Nat], NEW g, Adds(g, w, S)
    PROVE  \A T \in SUBSET S :
              /\ g[T] \in Nat
              /\ \A most \in Nat : (\A x \in S : w[x] <= most) => g[T] <= Cardinality(T) * most
<1> DEFINE bounded(T, most) == (\A x \in S : w[x] <= most) => g[T] <= Cardinality(T) * most
           good(T) == g[T] \in Nat /\ \A most \in Nat : bounded(T, most)
           bad == {n \in Nat : \E T \in SUBSET S : Cardinality(T) = n /\ ~good(T)}
<1>1. \A T \in SUBSET S : /\ IsFiniteSet(T) /\ Cardinality(T) \in Nat
                          /\ Cardinality(T) = 0 <=> T = {}
  BY FS_Subset, FS_CardinalityType, FS_EmptySet
<1> SUFFICES ASSUME bad # {}
             PROVE  FALSE
  BY <1>1
<1>2. PICK n \in bad : \A m \in bad : n <= m
  BY LeastNatural
<1>3. PICK T \in SUBSET S : Cardinality(T) = n /\ ~good(T)
  BY <1>2
<1>4. T # {}
  BY <1>3, <1>1 DEF Adds
<1>5. First(T) \in T
  BY <1>4 DEF First
<1> DEFINE U == T \ {First(T)}
<1>6. U \in SUBSET S /\ Cardinality(U) = n - 1
  BY <1>3, <1>5, <1>1, FS_RemoveElement
<1>7. good(U)
  <2> HIDE DEF good
  <2>1. n \in Nat /\ Cardinality(U) \in Nat /\ ~(n <= Cardinality(U))
    BY <1>6, <1>1
  <2>2. Cardinality(U) \notin bad
    BY <1>2, <2>1
  <2> QED
    BY <1>6, <2>1, <2>2
<1>8. g[T] = w[First(T)] + g[U]
  BY <1>4 DEF Adds
<1>9. w[First(T)] \in Nat /\ n \in Nat
  BY <1>5
<1>10. g[T] \in Nat
  BY <1>7, <1>8, <1>9
<1>11. ASSUME NEW most \in Nat, \A x \in S : w[x] <= most
       PROVE  g[T] <= Cardinality(T) * most
  <2>1. w[First(T)] <= most
    BY <1>5, <1>11
  <2>2. g[U] <= (n - 1) * most
    BY <1>6, <1>7, <1>11
  <2>3. (n - 1) * most + most = n * most
    BY <1>9
  <2> QED
    BY <1>3, <1>7, <1>8, <1>9, <2>1, <2>2, <2>3
<1> QED
  BY <1>3, <1>10, <1>11

LEMMA CharsType ==
    ASSUME NEW p, NEW S, IsFiniteSet(S), \A n \in S : p.own[n] \in Nat
    PROVE  Chars(p, S) \in Nat
<1> DEFINE w == [n \in S |-> p.own[n]]
           adds(g) == g = [T \in SUBSET S |-> IF T = {} THEN 0 ELSE p.own[First(T)] + g[T \ {First(T)}]]
<1>1. \A T \in SUBSET S : T # {} => First(T) \in S
  BY DEF First
<1>2. \A g : adds(g) <=> Adds(g, w, S)
  BY <1>1 DEF Adds
<1>3. \E g : adds(g)
  BY <1>2, SumExists
<1>4. adds(CHOOSE g : adds(g))
  BY <1>3
<1>5. Chars(p, S) = (CHOOSE g : adds(g))[S]
  BY DEF Chars, MapThenSumSet, MapThenFoldSet, First
<1> DEFINE h == CHOOSE g : adds(g)
<1>6. Adds(h, w, S)
  BY <1>2, <1>4
<1> QED
  BY <1>5, <1>6, SumBound, w \in [S -> Nat], S \in SUBSET S
LEMMA FactsWeightBound ==
    ASSUME NEW F, IsFiniteSet(F), NEW most \in Nat,
           \A f \in F : f.label \in Nat /\ f.value \in Nat /\ f.label + f.value <= most
    PROVE  FactsWeight(F) \in Nat /\ FactsWeight(F) <= Cardinality(F) * most
<1> DEFINE w == [f \in F |-> f.label + f.value]
           adds(g) == g = [T \in SUBSET F |-> IF T = {} THEN 0
                            ELSE First(T).label + First(T).value + g[T \ {First(T)}]]
<1>1. \A T \in SUBSET F : T # {} => First(T) \in F
  BY DEF First
<1>2. w \in [F -> Nat] /\ \A f \in F : w[f] <= most
  OBVIOUS
<1>3. \A g : adds(g) <=> Adds(g, w, F)
  BY <1>1 DEF Adds
<1> HIDE DEF w, adds
<1>4. \E g : adds(g)
  <2>1. \E g : Adds(g, w, F)
    BY <1>2, SumExists
  <2> QED
    BY <1>3, <2>1
<1> USE DEF adds
<1> DEFINE h == CHOOSE g : adds(g)
<1>5. Adds(h, w, F)
  BY <1>3, <1>4
<1>6. FactsWeight(F) = h[F]
  BY DEF FactsWeight, MapThenSumSet, MapThenFoldSet, First
<1> QED
  BY <1>2, <1>5, <1>6, SumBound, F \in SUBSET F

-----------------------------------------------------------------------------
(* The tree.                                                               *)

\* What IsPage says of a node and of what is below it.
LEMMA Tree ==
    ASSUME NEW p, IsPage(p), NEW n \in p.nodes
    PROVE  /\ n \in Up(p, n) /\ Body \in Up(p, n) /\ Up(p, n) \subseteq p.nodes
           /\ Below(p, n) \subseteq p.nodes
           /\ \A a \in Up(p, n) : Up(p, a) \subseteq Up(p, n)
           /\ \A a, b \in Up(p, n) : a \in Up(p, b) \/ b \in Up(p, a)
           /\ \A m : m \in Below(p, n) <=> m \in p.nodes /\ n \in Up(p, m)
  BY DEF IsPage, Up, Below

LEMMA BodyAlone ==
    ASSUME NEW p, IsPage(p)
    PROVE  Body \in p.nodes /\ Up(p, Body) = {Body} /\ p.role[Body] \in {"plain", "editable"}
  BY DEF IsPage, Up

\* What is below a node that is below another.
LEMMA BelowBelow ==
    ASSUME NEW p, IsPage(p), NEW n \in p.nodes, NEW m \in Below(p, n)
    PROVE  Below(p, m) \subseteq Below(p, n)
  BY Tree

\* A page is finite, and so are its texts.
LEMMA PageFinite ==
    ASSUME NEW p, IsPage(p), NEW S \in SUBSET p.nodes
    PROVE  IsFiniteSet(S) /\ Chars(p, S) \in Nat
<1>1. IsFiniteSet(S)
  BY FS_Subset DEF IsPage
<1>2. \A n \in S : p.own[n] \in Nat
  BY DEF IsPage, PageTree
<1> QED
  BY <1>1, <1>2, CharsType

LEMMA TextBelow ==
    ASSUME NEW p, NEW n, NEW out
    PROVE  Text(p, n, out) \subseteq Below(p, n)
  BY DEF Text

\* Of a node that is in nothing of A, the text holds nothing that is in A, when
\* what A has below the node is cut out.
LEMMA TextClear ==
    ASSUME NEW p, IsPage(p), NEW n \in p.nodes, NEW A, NEW out, ~Inside(p, n, A),
           A \cap Below(p, n) \subseteq out \cup Of(p, {"editable"})
    PROVE  \A k \in Text(p, n, out) : ~Inside(p, k, A)
<1> SUFFICES ASSUME NEW k \in Text(p, n, out), NEW a \in Up(p, k) \cap A
             PROVE  FALSE
  BY DEF Inside
<1>1. k \in p.nodes /\ n \in Up(p, k)
  BY TextBelow, Tree
<1>2. a \notin Up(p, n)
  BY DEF Inside
<1>3. a \in p.nodes /\ n \in Up(p, a) /\ a # n
  BY <1>1, <1>2, Tree
<1>4. a \in (Below(p, n) \ {n}) \cap (out \cup Of(p, {"editable"}))
  BY <1>3, Tree
<1>5. k \in Below(p, a)
  BY <1>1, <1>3, Tree
<1> QED
  BY <1>4, <1>5 DEF Text

\* The same of all that a node shows.
LEMMA BelowClear ==
    ASSUME NEW p, IsPage(p), NEW n \in p.nodes, NEW A, ~Inside(p, n, A), Below(p, n) \cap A = {}
    PROVE  \A k \in Below(p, n) : ~Inside(p, k, A)
<1> SUFFICES ASSUME NEW k \in Below(p, n), NEW a \in Up(p, k) \cap A
             PROVE  FALSE
  BY DEF Inside
<1>1. k \in p.nodes /\ n \in Up(p, k)
  BY Tree
<1>2. a \in p.nodes /\ (a \in Up(p, n) \/ n \in Up(p, a))
  BY <1>1, Tree
<1> QED
  BY <1>1, <1>2, Tree DEF Inside

LEMMA InsideMonotone ==
    ASSUME NEW p, NEW n, NEW A, NEW B, A \subseteq B, ~Inside(p, n, B)
    PROVE  ~Inside(p, n, A)
  BY DEF Inside

\* A region is the root, or in the root and in nothing that is cut out; then it
\* is an article or outside of what is editable, and long enough.
LEMMA RegionsIn ==
    ASSUME NEW p, IsPage(p), NEW root \in p.nodes, NEW out, NEW m \in Regions(p, root, out)
    PROVE  /\ m \in p.nodes /\ m \in Below(p, root)
           /\ \/ m = root
              \/ /\ ~Inside(p, m, out)
                 /\ m \in Of(p, {"semantic"}) \/ ~Inside(p, m, Of(p, {"editable"}))
                 /\ Chars(p, Text(p, m, out)) >= Limit.region
<1> DEFINE within == {n \in Below(p, root) \ {root} : ~Inside(p, n, out)}
           enough(n, least) == Chars(p, Text(p, n, out)) >= least
           semantic == {n \in within \cap Of(p, {"semantic"}) : enough(n, Limit.region + 1)}
           blocks == {n \in within \ Of(p, {"semantic"}) :
                        /\ ~Inside(p, n, Of(p, {"chrome", "form", "editable"}))
                        /\ ~InSidebar(p, n)
                        /\ enough(n, Limit.region)}
<1>1. m \in semantic \/ m \in blocks \/ m = root
  BY DEF Regions, Densest
<1>2. root \in Below(p, root)
  BY Tree
<1>3. Limit.region \in Nat
  BY LimitAssumption
<1>4. CASE m \in semantic
  <2>1. Chars(p, Text(p, m, out)) >= Limit.region + 1
    BY <1>4
  <2>2. Chars(p, Text(p, m, out)) >= Limit.region
    <3>1. Chars(p, Text(p, m, out)) \in Nat
      BY <1>4, Tree, TextBelow, PageFinite
    <3> QED
      BY <2>1, <3>1, <1>3
  <2> QED
    BY <1>4, <2>2, Tree
<1>5. CASE m \in blocks
  <2>1. ~Inside(p, m, Of(p, {"editable"}))
    BY <1>5, InsideMonotone DEF Of
  <2> QED
    BY <1>5, <2>1, Tree
<1> QED
  BY <1>1, <1>2, <1>4, <1>5
-----------------------------------------------------------------------------
(* What a context can be.                                                  *)

\* A record of the fields of Blank.
IsContext(c) == DOMAIN c = DOMAIN Blank

\* A context of the page without structure, with this text.
Flat(p, c, text) ==
    /\ IsContext(c)
    /\ c.kind = "page" /\ c.pageKind \in {"absent", "article", "other"}
    /\ c.facts = {} /\ c.items = {} /\ c.read = {}
    /\ c.text = text /\ c.chars = Least(Chars(p, text), Limit.chars)

\* A listing, with facts that are seen in the root.
Listing(p, c, text, root, out) ==
    /\ IsContext(c)
    /\ c.kind = "page" /\ c.pageKind = "listing" /\ c.items = {}
    /\ c.text = text /\ c.chars = Least(Chars(p, text), Limit.chars - FactsWeight(c.facts))
    /\ Cardinality(c.facts) >= Limit.facts
    /\ \E seen \in SUBSET FactsSeen(p, root, out) :
          c.facts \in CappedFacts(seen) /\ c.read \subseteq UNION {Below(p, f.at) : f \in seen}

\* What names an entry, and a list with entries of the container around m.
Names(p, e) == {h \in p.heads \cap Below(p, e) :
                   h # e /\ Below(p, h) \cap Of(p, {"editable"}) = {}}
List(p, c, m, out) ==
    /\ IsContext(c)
    /\ c.kind = "page" /\ c.pageKind = "list" /\ c.facts = {} /\ c.item = Item(p.card)
    /\ c.chars = Least(Chars(p, c.text), Limit.chars - Cardinality(c.items) * Weight(c.item))
    /\ c.read = UNION {Text(p, e, out) \cup UNION {Below(p, h) : h \in Names(p, e)} : e \in c.items}
    /\ Container(p, m) # None
    /\ \E kept \in SUBSET Group(p, Container(p, m)) :
          /\ kept # {}
          /\ c.items \in Some(kept, Limit.itemCount)
          /\ c.text = Text(p, m, out \cup kept)

\* The text of the region m of the root r.
Main(p, r, m) == IF p.breaks = "text" THEN {} ELSE Text(p, m, r.out)

LEMMA FlatShape ==
    ASSUME NEW p, NEW t, NEW k \in {"absent", "article", "other"}
    PROVE  Flat(p, WithText(OfKind(k), p, t, Limit.chars), t)
  BY DEF Flat, IsContext, WithText, OfKind, Blank

LEMMA SeenLess ==
    ASSUME NEW p, NEW root, NEW out, NEW more
    PROVE  FactsSeen(p, root, out \cup more) \subseteq FactsSeen(p, root, out)
  BY DEF FactsSeen, Readable, Inside

\* The contexts without entries.
LEMMA FlatContextsShape ==
    ASSUME NEW p, NEW m, NEW main, NEW root, NEW out,
           NEW seen \in SUBSET FactsSeen(p, root, out),
           NEW c \in FlatContexts(p, m, main, seen)
    PROVE  \/ Chars(p, main) > 0 /\ Flat(p, c, main)
           \/ ~(Chars(p, main) > 0) /\ \E t \in WholePage(p) : Flat(p, c, t)
           \/ Listing(p, c, main, root, out)
<1> DEFINE listing(F) == WithText([OfKind("listing") EXCEPT
                             !.facts = F,
                             !.read = UNION {Below(p, f.at) : f \in {g \in seen : Pair(g) \in F}}],
                          p, main, Room(FactsWeight(F)))
           kind == IF Of(p, {"semantic"}) # {} \/ Chars(p, main) > Limit.article
                   THEN "article" ELSE "other"
           texts == IF Chars(p, main) > 0 THEN {main} ELSE WholePage(p)
<1>1. PICK F \in CappedFacts(seen) :
         IF Cardinality(F) >= Limit.facts /\ Chief(p, F)
         THEN c = listing(F)
         ELSE \E t \in texts : c = WithText(OfKind(kind), p, t, Limit.chars)
  BY Zenon DEF FlatContexts
<1>2. CASE Cardinality(F) >= Limit.facts /\ c = listing(F)
  <2>1. Listing(p, listing(F), main, root, out)
    <3>1. listing(F).read \subseteq UNION {Below(p, f.at) : f \in seen}
      BY DEF WithText, OfKind, Blank
    <3> QED
      BY <1>2, <3>1 DEF Listing, IsContext, WithText, OfKind, Blank, Room
  <2> QED
    BY <1>2, <2>1
<1>3. CASE \E t \in texts : c = WithText(OfKind(kind), p, t, Limit.chars)
  <2>1. PICK t \in texts : c = WithText(OfKind(kind), p, t, Limit.chars)
    BY <1>3
  <2>2. Flat(p, c, t)
    BY <2>1, FlatShape
  <2> QED
    BY <2>1, <2>2
<1> QED
  BY <1>1, <1>2, <1>3

LEMMA ListContextsShape ==
    ASSUME NEW p, NEW m, NEW out, NEW kept \in SUBSET Group(p, Container(p, m)), kept # {},
           Container(p, m) # None, NEW c \in ListContexts(p, m, kept, out)
    PROVE  List(p, c, m, out)
<1> DEFINE read(I) == UNION {Text(p, e, out) \cup UNION {Below(p, h) : h \in Names(p, e)} : e \in I}
           text == Text(p, m, out \cup kept)
           room(I) == Room(Cardinality(I) * Weight(Item(p.card)))
           list(I) == WithText([OfKind("list") EXCEPT !.items = I, !.item = Item(p.card),
                                                      !.read = read(I)], p, text, room(I))
<1>1. PICK I \in Some(kept, Limit.itemCount) : c = list(I)
  BY Zenon DEF ListContexts, Names
<1>2. List(p, list(I), m, out)
  <2> HIDE DEF read
  <2>1. /\ list(I).kind = "page" /\ list(I).pageKind = "list" /\ list(I).facts = {}
        /\ list(I).item = Item(p.card) /\ list(I).items = I /\ list(I).read = read(I)
        /\ list(I).text = text /\ list(I).chars = Least(Chars(p, text), room(I))
        /\ IsContext(list(I))
    BY DEF IsContext, WithText, OfKind, Blank
  <2> HIDE DEF list
  <2> QED
    BY <1>1, <2>1 DEF List, Room, read
<1> QED
  BY <1>1, <1>2

LEMMA RegionContextsShape ==
    ASSUME NEW p, NEW r, NEW m, NEW c \in RegionContexts(p, r, m)
    PROVE  \/ Chars(p, Main(p, r, m)) > 0 /\ Flat(p, c, Main(p, r, m))
           \/ ~(Chars(p, Main(p, r, m)) > 0) /\ \E t \in WholePage(p) : Flat(p, c, t)
           \/ Listing(p, c, Main(p, r, m), r.root, r.out)
           \/ List(p, c, m, r.out)
<1> DEFINE main == Main(p, r, m)
           k == Container(p, m)
           length == IF Chars(p, main) = 0 THEN 1 ELSE Chars(p, main)
           kept == IF /\ k # None
                      /\ p.breaks # "facts"
                      /\ Cardinality(FactsSeen(p, r.root, r.out \cup {k})) < Limit.facts
                   THEN Kept(p, k, length, r.out) ELSE {}
           seen == IF p.breaks = "facts" THEN {}
                   ELSE FactsSeen(p, r.root, IF k = None THEN r.out ELSE r.out \cup Group(p, k))
<1>1. c \in IF kept # {} /\ p.breaks # "items" THEN ListContexts(p, m, kept, r.out)
            ELSE FlatContexts(p, m, main, seen)
  BY Zenon DEF RegionContexts, Main
<1>2. kept # {} => k # None /\ kept \in SUBSET Group(p, k)
  BY DEF Kept
<1>3. seen \in SUBSET FactsSeen(p, r.root, r.out)
  BY SeenLess
<1> HIDE DEF main, k, kept, seen
<1>4. CASE kept # {} /\ c \in ListContexts(p, m, kept, r.out)
  BY <1>2, <1>4, ListContextsShape DEF k
<1>5. CASE c \in FlatContexts(p, m, main, seen)
  BY <1>3, <1>5, FlatContextsShape DEF main
<1> QED
  BY <1>1, <1>4, <1>5

\* The whole page is read when a layer leaves too little of it, or a region
\* cannot be found, or has no text.
LEMMA PageContextsShape ==
    ASSUME NEW p, NEW c \in PageContexts(p)
    PROVE  \E r \in Roots(p) :
              \/ /\ p.breaks = "nothing" =>
                      r.root = Body /\ r.out # {} /\ Chars(p, Text(p, Body, r.out)) < Limit.region
                 /\ \E t \in WholePage(p) : Flat(p, c, t)
              \/ \E m \in Regions(p, r.root, r.out) :
                    \/ Chars(p, Main(p, r, m)) > 0 /\ Flat(p, c, Main(p, r, m))
                    \/ ~(Chars(p, Main(p, r, m)) > 0) /\ \E t \in WholePage(p) : Flat(p, c, t)
                    \/ Listing(p, c, Main(p, r, m), r.root, r.out)
                    \/ List(p, c, m, r.out)
<1> DEFINE little(r) == r.root = Body /\ r.out # {} /\ Chars(p, Text(p, Body, r.out)) < Limit.region
<1>1. PICK r \in Roots(p) :
         c \in IF little(r) THEN {WithText(OfKind("other"), p, t, Limit.chars) : t \in WholePage(p)}
               ELSE IF p.breaks = "region"
               THEN {WithText(Blank, p, t, Limit.chars) : t \in WholePage(p)}
               ELSE UNION {RegionContexts(p, r, m) : m \in Regions(p, r.root, r.out)}
  BY Zenon DEF PageContexts
<1>2. CASE little(r) /\ \E t \in WholePage(p) : c = WithText(OfKind("other"), p, t, Limit.chars)
  BY <1>2, FlatShape
<1>3. CASE p.breaks = "region" /\ \E t \in WholePage(p) : c = WithText(Blank, p, t, Limit.chars)
  <2>1. Blank = OfKind("absent")
    BY DEF Blank, OfKind
  <2> QED
    BY <1>3, <2>1, FlatShape
<1>4. CASE \E m \in Regions(p, r.root, r.out) : c \in RegionContexts(p, r, m)
  BY <1>4, RegionContextsShape
<1> HIDE DEF little
<1> QED
  BY <1>1, <1>2, <1>3, <1>4

-----------------------------------------------------------------------------
(* Where what is sent comes from.                                          *)

\* The nodes of A and all that is in them.
In(p, A) == UNION {Below(p, n) : n \in A}

LEMMA InIff ==
    ASSUME NEW p, IsPage(p), NEW A \in SUBSET p.nodes
    PROVE  /\ In(p, A) \subseteq p.nodes
           /\ \A k \in p.nodes : k \in In(p, A) <=> Inside(p, k, A)
  BY Tree DEF In, Inside

\* What a text still holds of A, when what A has below its node is cut out, it
\* holds because its node is itself in A.
LEMMA TextIn ==
    ASSUME NEW p, IsPage(p), NEW n \in p.nodes, NEW A \in SUBSET p.nodes, NEW out,
           A \cap Below(p, n) \subseteq out \cup Of(p, {"editable"}),
           NEW k \in Text(p, n, out) \cap In(p, A)
    PROVE  n \in In(p, A) /\ k \in Below(p, n)
<1>1. k \in p.nodes /\ Inside(p, k, A)
  BY InIff
<1>2. Inside(p, n, A)
  BY <1>1, TextClear
<1> QED
  BY <1>2, InIff, TextBelow

LEMMA BelowIn ==
    ASSUME NEW p, IsPage(p), NEW n \in p.nodes, NEW A \in SUBSET p.nodes, Below(p, n) \cap A = {},
           NEW k \in Below(p, n) \cap In(p, A)
    PROVE  n \in In(p, A)
<1>1. k \in p.nodes /\ Inside(p, k, A)
  BY InIff
<1>2. Inside(p, n, A)
  BY <1>1, BelowClear
<1> QED
  BY <1>2, InIff

LEMMA RootsIn ==
    ASSUME NEW p, IsPage(p), NEW r \in Roots(p)
    PROVE  /\ r.root \in p.nodes
           /\ r.root = Body \/ r.root \in Of(p, {"dialog"})
           /\ p.breaks # "layers" /\ ContentLayers(p) = {} =>
                r.root = Body /\ r.out = {n \in p.nodes : ShouldExclude(p, n)}
           /\ p.breaks # "layers" /\ ContentLayers(p) # {} => r.root \in ContentLayers(p) /\ r.out = {}
  BY BodyAlone DEF Roots, ContentLayers, Of

\* What a list says of A is its region, an entry that is in A, or what names one.
LEMMA ListIn ==
    ASSUME NEW p, IsPage(p), NEW m \in p.nodes, NEW out, NEW c, List(p, c, m, out),
           NEW A \in SUBSET p.nodes, A \subseteq out \cup Of(p, {"editable"}), NEW k \in In(p, A)
    PROVE  /\ k \in c.text => m \in In(p, A) /\ k \in Below(p, m)
           /\ k \in c.read => \/ \E e \in p.entries \cap In(p, A) : k \in Below(p, e)
                             \/ \E e \in p.nodes : \E h \in Names(p, e) : k \in Below(p, h)
<1>1. PICK kept \in SUBSET Group(p, Container(p, m)) :
         c.items \in Some(kept, Limit.itemCount) /\ c.text = Text(p, m, out \cup kept)
  BY DEF List
<1>2. ASSUME k \in c.text
      PROVE  m \in In(p, A) /\ k \in Below(p, m)
  <2>1. A \cap Below(p, m) \subseteq (out \cup kept) \cup Of(p, {"editable"})
    OBVIOUS
  <2> QED
    BY <1>1, <1>2, <2>1, TextIn
<1>3. ASSUME k \in c.read
      PROVE  \/ \E e \in p.entries \cap In(p, A) : k \in Below(p, e)
             \/ \E e \in p.nodes : \E h \in Names(p, e) : k \in Below(p, h)
  <2>1. PICK e \in c.items : k \in Text(p, e, out) \cup UNION {Below(p, h) : h \in Names(p, e)}
    BY <1>3 DEF List
  <2>2. e \in p.entries /\ e \in p.nodes
    BY <1>1 DEF Some, Group, IsPage
  <2>3. CASE k \in Text(p, e, out)
    <3>1. A \cap Below(p, e) \subseteq out \cup Of(p, {"editable"})
      OBVIOUS
    <3> QED
      BY <2>2, <2>3, <3>1, TextIn
  <2> QED
    BY <2>1, <2>2, <2>3
<1> QED
  BY <1>2, <1>3

\* What is read of a listing is the rows of the facts that are seen.
LEMMA ListingIn ==
    ASSUME NEW p, NEW c, NEW text, NEW root, NEW out, Listing(p, c, text, root, out), NEW k \in c.read
    PROVE  \E f \in p.facts : f.at \in Below(p, root) /\ k \in Below(p, f.at) /\ Readable(p, f, out)
  BY DEF Listing, FactsSeen

-----------------------------------------------------------------------------
(* Drafts.                                                                 *)

Writable(p) == Of(p, {"editable"})
Drafts(p) == In(p, Writable(p))

\* The elements that the code takes even if they are in what is editable.
Taken(p) == Of(p, {"semantic"}) \cup ContentLayers(p) \cup {Body} \cup p.entries \cup p.heads
Excused(p, S) == \A k \in S \cap Drafts(p) : \E n \in Taken(p) \cap Drafts(p) : k \in Below(p, n)

LEMMA DraftsIn ==
    ASSUME NEW p, IsPage(p)
    PROVE  /\ Writable(p) \in SUBSET p.nodes
           /\ \A n \in p.nodes : ~Inside(p, n, Writable(p)) => n \notin Drafts(p)
<1>1. Writable(p) \in SUBSET p.nodes
  BY DEF Writable, Of
<1> QED
  BY <1>1, InIff DEF Drafts

\* The text of an element that is taken, or is in nothing editable.
LEMMA TextExcused ==
    ASSUME NEW p, IsPage(p), NEW n \in p.nodes, n \in Taken(p) \/ n \notin Drafts(p), NEW out
    PROVE  Excused(p, Text(p, n, out))
<1> SUFFICES ASSUME NEW k \in Text(p, n, out) \cap Drafts(p)
             PROVE  \E t \in Taken(p) \cap Drafts(p) : k \in Below(p, t)
  BY DEF Excused
<1>1. Writable(p) \cap Below(p, n) \subseteq out \cup Of(p, {"editable"})
  BY DEF Writable
<1>2. n \in Drafts(p) /\ k \in Below(p, n)
  BY <1>1, DraftsIn, TextIn DEF Drafts
<1> QED
  BY <1>2

LEMMA WholePageExcused ==
    ASSUME NEW p, IsPage(p), NEW t \in WholePage(p)
    PROVE  Excused(p, t)
<1> DEFINE semantic == {n \in Of(p, {"semantic"}) : Chars(p, Text(p, n, {})) > Limit.region}
           blocks == {n \in p.nodes \ (Of(p, {"semantic"}) \cup {Body}) :
                        /\ ~Inside(p, n, Of(p, {"chrome", "editable"}))
                        /\ Chars(p, Text(p, n, {})) >= Limit.region}
<1>1. PICK n \in IF semantic # {} THEN semantic
                 ELSE IF blocks # {} THEN Densest(p, blocks, {})
                 ELSE {Body} : t = Text(p, n, {})
  BY DEF WholePage
<1>2. n \in p.nodes /\ (n \in Taken(p) \/ n \notin Drafts(p))
  <2>1. CASE n \in Of(p, {"semantic"}) \cup {Body}
    BY <2>1, BodyAlone DEF Taken, Of
  <2>2. CASE n \in blocks
    <3>1. n \in p.nodes /\ ~Inside(p, n, Writable(p))
      BY <2>2, InsideMonotone DEF Of, Writable
    <3> QED
      BY <3>1, DraftsIn
  <2> QED
    BY <1>1, <2>1, <2>2 DEF Densest
<1> QED
  BY <1>1, <1>2, TextExcused

LEMMA RegionTaken ==
    ASSUME NEW p, IsPage(p), NEW r \in Roots(p), NEW m \in Regions(p, r.root, r.out)
    PROVE  m \in p.nodes /\ (m \in Taken(p) \/ m \notin Drafts(p))
<1>1. r.root \in p.nodes /\ (r.root = Body \/ r.root \in ContentLayers(p))
  BY BodyAlone DEF Roots, ContentLayers, Of
<1>2. /\ m \in p.nodes
      /\ m = r.root \/ m \in Of(p, {"semantic"}) \/ ~Inside(p, m, Writable(p))
  BY <1>1, RegionsIn DEF Writable
<1>3. CASE m = r.root \/ m \in Of(p, {"semantic"})
  BY <1>1, <1>2, <1>3 DEF Taken
<1>4. CASE ~Inside(p, m, Writable(p))
  BY <1>2, <1>4, DraftsIn
<1> QED
  BY <1>2, <1>3, <1>4

LEMMA DraftsOut ==
    ASSUME NEW p, IsPage(p), NEW c \in PageContexts(p)
    PROVE  Excused(p, c.text) /\ Excused(p, c.read)
<1>1. ASSUME NEW t \in WholePage(p), Flat(p, c, t)
      PROVE  Excused(p, c.text) /\ Excused(p, c.read)
  BY <1>1, WholePageExcused DEF Flat, Excused
<1>2. ASSUME NEW r \in Roots(p), NEW m \in Regions(p, r.root, r.out),
             \/ Flat(p, c, Main(p, r, m))
             \/ Listing(p, c, Main(p, r, m), r.root, r.out)
             \/ List(p, c, m, r.out)
      PROVE  Excused(p, c.text) /\ Excused(p, c.read)
  <2>1. m \in p.nodes /\ (m \in Taken(p) \/ m \notin Drafts(p))
    BY RegionTaken
  <2>2. Excused(p, Main(p, r, m))
    <3>1. Excused(p, Text(p, m, r.out))
      BY <2>1, TextExcused
    <3> QED
      BY <3>1 DEF Main, Excused
  <2>3. CASE Flat(p, c, Main(p, r, m))
    BY <2>2, <2>3 DEF Flat, Excused
  <2>4. CASE Listing(p, c, Main(p, r, m), r.root, r.out)
    <3>1. c.text = Main(p, r, m)
      BY <2>4 DEF Listing
    <3>2. ASSUME NEW k \in c.read, k \in Drafts(p)
          PROVE  FALSE
      <4>1. PICK f \in p.facts : /\ f.at \in Below(p, r.root) /\ k \in Below(p, f.at)
                                 /\ Readable(p, f, r.out)
        BY <2>4, ListingIn
      <4>2. f.at \in p.nodes
        BY <4>1, RootsIn, Tree
      <4>3. Below(p, f.at) \cap Writable(p) = {} /\ ~Inside(p, f.at, Writable(p))
        BY <4>1, InsideMonotone DEF Readable, Writable, Inside, Of
      <4> QED
        BY <3>2, <4>1, <4>2, <4>3, DraftsIn, BelowIn DEF Drafts
    <3> QED
      BY <2>2, <3>1, <3>2 DEF Excused
  <2>5. CASE List(p, c, m, r.out)
    <3> SUFFICES ASSUME NEW k \in Drafts(p), k \in c.text \/ k \in c.read
                 PROVE  \E t \in Taken(p) \cap Drafts(p) : k \in Below(p, t)
      BY DEF Excused
    <3>1. Writable(p) \in SUBSET p.nodes /\ Writable(p) \subseteq r.out \cup Of(p, {"editable"})
      BY DraftsIn DEF Writable
    <3>2. \/ m \in Drafts(p) /\ k \in Below(p, m)
          \/ \E e \in p.entries \cap Drafts(p) : k \in Below(p, e)
          \/ \E e \in p.nodes : \E h \in Names(p, e) : k \in Below(p, h)
      BY <2>1, <2>5, <3>1, ListIn DEF Drafts
    <3>3. ASSUME NEW e \in p.nodes, NEW h \in Names(p, e), k \in Below(p, h)
          PROVE  h \in p.heads \cap Drafts(p)
      <4>1. h \in p.nodes /\ h \in p.heads /\ Below(p, h) \cap Writable(p) = {}
        BY Tree DEF Names, Writable
      <4> QED
        BY <3>1, <3>3, <4>1, BelowIn DEF Drafts
    <3> QED
      BY <2>1, <3>2, <3>3 DEF Taken
  <2> QED
    BY <1>2, <2>3, <2>4, <2>5
<1> QED
  BY <1>1, <1>2, PageContextsShape

-----------------------------------------------------------------------------
(* Layers.                                                                 *)

Aside(p) == {n \in p.nodes : ShouldExclude(p, n)}
Layers(p) == In(p, Aside(p))

\* What is read with the layers that it holds or is in.
TakenOf(p, c) ==
    IF c.pageKind = "listing" THEN {f.at : f \in p.facts} \ Layers(p)
    ELSE IF c.pageKind = "list" THEN (p.entries \cap Layers(p)) \cup p.heads
    ELSE {}

LEMMA BodyNotAside ==
    ASSUME NEW p, IsPage(p)
    PROVE  Body \notin Aside(p) /\ ~Inside(p, Body, Aside(p))
  BY BodyAlone DEF Aside, ShouldExclude, Inside

\* A region without text is the root.
LEMMA EmptyRegion ==
    ASSUME NEW p, IsPage(p), NEW root \in p.nodes, NEW out, NEW m \in Regions(p, root, out),
           ~(Chars(p, Text(p, m, out)) > 0)
    PROVE  m = root
<1>1. m \in p.nodes /\ (m = root \/ Chars(p, Text(p, m, out)) >= Limit.region)
  BY RegionsIn
<1>2. Chars(p, Text(p, m, out)) \in Nat
  BY <1>1, Tree, TextBelow, PageFinite
<1> QED
  BY <1>1, <1>2, LimitAssumption

\* Without a dialog that is the content, the layers are left out.
LEMMA LayersOut ==
    ASSUME NEW p, IsPage(p), p.breaks = "nothing", ContentLayers(p) = {},
           NEW c \in PageContexts(p), ~(Chars(p, Text(p, Body, Aside(p))) < Limit.region)
    PROVE  /\ c.text \cap Layers(p) = {}
           /\ \A k \in c.read \cap Layers(p) : \E n \in TakenOf(p, c) : k \in Below(p, n)
<1> DEFINE A == Aside(p)
<1>0. A \in SUBSET p.nodes
  BY DEF Aside
<1>1. PICK r \in Roots(p) :
         \/ r.root = Body /\ r.out # {} /\ Chars(p, Text(p, Body, r.out)) < Limit.region
         \/ \E m \in Regions(p, r.root, r.out) :
               \/ Flat(p, c, Main(p, r, m))
               \/ ~(Chars(p, Main(p, r, m)) > 0)
               \/ Listing(p, c, Main(p, r, m), r.root, r.out)
               \/ List(p, c, m, r.out)
  BY PageContextsShape
<1>2. r.root = Body /\ r.out = A /\ Body \in p.nodes
  BY RootsIn, BodyAlone DEF Aside
<1>3. PICK m \in Regions(p, Body, A) :
         \/ Flat(p, c, Text(p, m, A))
         \/ ~(Chars(p, Text(p, m, A)) > 0)
         \/ Listing(p, c, Text(p, m, A), Body, A)
         \/ List(p, c, m, A)
  BY <1>1, <1>2 DEF Main
<1>4. m \in p.nodes /\ ~Inside(p, m, A)
  BY <1>2, RegionsIn, BodyNotAside
<1>5. Chars(p, Text(p, m, A)) > 0
  <2> SUFFICES ASSUME ~(Chars(p, Text(p, m, A)) > 0)
               PROVE  FALSE
    OBVIOUS
  <2>1. m = Body
    BY <1>2, EmptyRegion
  <2>2. Chars(p, Text(p, m, A)) \in Nat
    BY <1>4, Tree, TextBelow, PageFinite
  <2> QED
    BY <2>1, <2>2, LimitAssumption
<1>6. m \notin Layers(p)
  BY <1>0, <1>4, InIff DEF Layers
<1>7. Text(p, m, A) \cap Layers(p) = {}
  <2>1. A \cap Below(p, m) \subseteq A \cup Of(p, {"editable"})
    OBVIOUS
  <2> QED
    BY <1>0, <1>4, <1>6, <2>1, TextIn DEF Layers
<1>8. CASE Flat(p, c, Text(p, m, A))
  BY <1>7, <1>8 DEF Flat
<1>9. CASE Listing(p, c, Text(p, m, A), Body, A)
  <2>1. c.text = Text(p, m, A) /\ c.pageKind = "listing"
    BY <1>9 DEF Listing
  <2>2. ASSUME NEW k \in c.read
        PROVE  \E n \in {f.at : f \in p.facts} \ Layers(p) : k \in Below(p, n)
    <3>1. PICK f \in p.facts : f.at \in Below(p, Body) /\ k \in Below(p, f.at) /\ Readable(p, f, A)
      BY <1>9, ListingIn
    <3>2. f.at \in p.nodes
      BY <1>2, <3>1, Tree
    <3>3. ~Inside(p, f.at, A)
      BY <3>1 DEF Readable, Inside
    <3>4. f.at \notin Layers(p)
      BY <1>0, <3>2, <3>3, InIff DEF Layers
    <3> QED
      BY <3>1, <3>4
  <2> QED
    BY <1>7, <2>1, <2>2 DEF TakenOf
<1>10. CASE List(p, c, m, A)
  <2>1. c.pageKind = "list"
    BY <1>10 DEF List
  <2>2. ASSUME NEW k \in Layers(p)
        PROVE  /\ k \notin c.text
               /\ k \in c.read => \E n \in (p.entries \cap Layers(p)) \cup p.heads : k \in Below(p, n)
    <3>1. A \subseteq A \cup Of(p, {"editable"})
      OBVIOUS
    <3> QED
      BY <1>0, <1>4, <1>6, <1>10, <3>1, ListIn DEF Layers, Names
  <2> QED
    BY <2>1, <2>2 DEF TakenOf
<1> QED
  BY <1>3, <1>5, <1>8, <1>9, <1>10

\* A dialog that is the content is all that is sent.
LEMMA DialogAlone ==
    ASSUME NEW p, IsPage(p), p.breaks = "nothing", ContentLayers(p) # {},
           NEW c \in PageContexts(p)
    PROVE  \E d \in ContentLayers(p) :
              \/ Chars(p, Text(p, d, {})) = 0
              \/ /\ c.text \subseteq Below(p, d)
                 /\ c.pageKind = "list" \/ c.read \subseteq Below(p, d)
<1>1. PICK r \in Roots(p) :
         \/ r.out # {}
         \/ \E m \in Regions(p, r.root, r.out) :
               \/ Flat(p, c, Main(p, r, m))
               \/ ~(Chars(p, Main(p, r, m)) > 0)
               \/ Listing(p, c, Main(p, r, m), r.root, r.out)
               \/ List(p, c, m, r.out)
  BY PageContextsShape
<1>2. r.root \in ContentLayers(p) /\ r.out = {} /\ r.root \in p.nodes
  BY RootsIn
<1> DEFINE d == r.root
<1>3. PICK m \in Regions(p, d, {}) :
         \/ Flat(p, c, Text(p, m, {}))
         \/ ~(Chars(p, Text(p, m, {})) > 0)
         \/ Listing(p, c, Text(p, m, {}), d, {})
         \/ List(p, c, m, {})
  BY <1>1, <1>2 DEF Main
<1>4. m \in p.nodes /\ m \in Below(p, d)
  BY <1>2, RegionsIn
<1>5. \A out : Text(p, m, out) \subseteq Below(p, d)
  BY <1>2, <1>4, TextBelow, BelowBelow
<1>6. CASE ~(Chars(p, Text(p, m, {})) > 0)
  <2>1. m = d
    BY <1>2, <1>6, EmptyRegion
  <2>2. Chars(p, Text(p, d, {})) \in Nat
    BY <1>2, Tree, TextBelow, PageFinite
  <2>3. Chars(p, Text(p, d, {})) = 0
    BY <1>6, <2>1, <2>2
  <2> QED
    BY <1>2, <2>3
<1>7. CASE Flat(p, c, Text(p, m, {}))
  BY <1>2, <1>5, <1>7 DEF Flat
<1>8. CASE Listing(p, c, Text(p, m, {}), d, {})
  <2>1. c.read \subseteq Below(p, d)
    BY <1>2, <1>8, ListingIn, BelowBelow
  <2> QED
    BY <1>2, <1>5, <1>8, <2>1 DEF Listing
<1>9. CASE List(p, c, m, {})
  BY <1>2, <1>5, <1>9 DEF List
<1> QED
  BY <1>3, <1>6, <1>7, <1>8, <1>9

-----------------------------------------------------------------------------
(* The budget.                                                             *)

LEMMA Products ==
    ASSUME NEW a \in Nat, NEW b \in Nat, NEW x \in Nat, NEW y \in Nat, a <= x, b <= y
    PROVE  a * b \in Nat /\ a * b <= x * y
<1>1. a * b <= x * b
  OBVIOUS
<1>2. x * b <= x * y
  OBVIOUS
<1> QED
  BY <1>1, <1>2

LEMMA Shared ==
    ASSUME NEW n \in Nat, NEW room \in Nat, NEW rest \in Nat, rest <= room
    PROVE  Least(n, room - rest) \in Nat /\ Least(n, room - rest) + rest <= room
  BY DEF Least

\* An item within the caps, with a title.
Trimmed(item) ==
    /\ item.title \in 1..Limit.title /\ item.price \in 0..Limit.price
    /\ item.place \in 0..Limit.place /\ item.detail \in 0..Limit.detail

\* A fact within them.
Short(f) == f.label \in 1..Limit.label /\ f.value \in 0..Limit.value

\* A context that fits, with the facts or the items of its kind.
Fits(c) ==
    /\ IsContext(c)
    /\ c.kind \in {"page", "youtube"} /\ c.chars \in Nat /\ c.chars <= Limit.chars
    /\ c.pageKind # "listing" => c.facts = {}
    /\ c.pageKind # "list" => c.items = {}
    /\ c.pageKind = "listing" =>
         /\ c.kind = "page" /\ c.facts # {} /\ IsFiniteSet(c.facts)
         /\ Cardinality(c.facts) <= Limit.factCount
         /\ \A f \in c.facts : Short(f)
         /\ FactsWeight(c.facts) \in Nat /\ c.chars + FactsWeight(c.facts) <= Limit.chars
    /\ c.pageKind = "list" =>
         /\ c.kind = "page" /\ c.items # {} /\ IsFiniteSet(c.items)
         /\ Cardinality(c.items) <= Limit.itemCount
         /\ Trimmed(c.item)
         /\ c.chars + Cardinality(c.items) * Weight(c.item) <= Limit.chars

LEMMA SomeType ==
    ASSUME NEW S, IsFiniteSet(S), NEW most \in Nat \ {0}, NEW T \in Some(S, most)
    PROVE  /\ T \subseteq S /\ IsFiniteSet(T) /\ Cardinality(T) \in Nat
           /\ Cardinality(T) <= most
           /\ S # {} => T # {}
<1>1. T \subseteq S /\ Cardinality(T) = Least(most, Cardinality(S))
  BY DEF Some
<1>2. IsFiniteSet(T) /\ Cardinality(T) \in Nat /\ Cardinality(S) \in Nat
  BY <1>1, FS_Subset, FS_CardinalityType
<1>3. Cardinality(T) <= most
  BY <1>1, <1>2 DEF Least
<1>4. S # {} => Cardinality(S) # 0
  BY FS_EmptySet
<1>5. S # {} => Cardinality(T) # 0
  BY <1>1, <1>2, <1>4 DEF Least
<1> QED
  BY <1>1, <1>2, <1>3, <1>5, FS_EmptySet

LEMMA ItemTrimmed ==
    ASSUME NEW p, IsPage(p)
    PROVE  Trimmed(Item(p.card))
<1>1. /\ p.card.title \in Nat \ {0} /\ p.card.price \in Nat
      /\ p.card.place \in Nat /\ p.card.detail \in Nat
  BY DEF IsPage, PageTree
<1>2. /\ Limit.title \in Nat \ {0} /\ Limit.price \in Nat
      /\ Limit.place \in Nat /\ Limit.detail \in Nat
  BY LimitAssumption
<1> QED
  BY <1>1, <1>2 DEF Trimmed, Item, Least

LEMMA ListFits ==
    ASSUME NEW p, IsPage(p), NEW c, NEW m \in p.nodes, NEW out, List(p, c, m, out)
    PROVE  Fits(c)
<1>1. PICK kept \in SUBSET Group(p, Container(p, m)) :
         /\ kept # {}
         /\ c.items \in Some(kept, Limit.itemCount)
         /\ c.text = Text(p, m, out \cup kept)
  BY DEF List
<1>2. kept \in SUBSET p.nodes
  BY DEF Group, IsPage
<1>3. Limit.itemCount \in Nat \ {0} /\ Limit.chars \in Nat
  BY LimitAssumption
<1>4. /\ c.items # {} /\ IsFiniteSet(c.items)
      /\ Cardinality(c.items) \in Nat /\ Cardinality(c.items) <= Limit.itemCount
  BY <1>1, <1>2, <1>3, PageFinite, SomeType
<1>5. Trimmed(c.item)
  BY ItemTrimmed DEF List
<1> DEFINE most == Limit.title + Limit.price + Limit.place + Limit.detail
           used == Cardinality(c.items) * Weight(c.item)
<1>6. /\ Limit.title \in Nat /\ Limit.price \in Nat /\ Limit.place \in Nat /\ Limit.detail \in Nat
      /\ most \in Nat
  BY LimitAssumption
<1>7. Weight(c.item) \in Nat /\ Weight(c.item) <= most
  BY <1>5, <1>6 DEF Trimmed, Weight
<1>8. used \in Nat /\ used <= Limit.itemCount * most
  BY <1>3, <1>4, <1>6, <1>7, Products
<1>9. Limit.itemCount * most <= Limit.chars /\ Limit.itemCount * most \in Nat
  BY <1>3, <1>6, LimitAssumption
<1>10. used <= Limit.chars
  BY <1>3, <1>8, <1>9
<1>11. Chars(p, c.text) \in Nat
  BY <1>1, Tree, TextBelow, PageFinite
<1>12. c.chars \in Nat /\ c.chars + used <= Limit.chars
  <2>1. c.chars = Least(Chars(p, c.text), Limit.chars - used)
    BY DEF List
  <2>2. Limit.chars \in Nat /\ used \in Nat
    BY <1>3, <1>8
  <2> HIDE DEF used
  <2>3. LET left == Least(Chars(p, c.text), Limit.chars - used)
        IN  left \in Nat /\ left + used <= Limit.chars
    BY <1>10, <1>11, <2>2, Shared
  <2> QED
    BY <2>1, <2>3
<1>13. c.chars <= Limit.chars
  BY <1>3, <1>8, <1>12
<1> QED
  BY <1>4, <1>5, <1>12, <1>13 DEF Fits, List

LEMMA CappedShort ==
    ASSUME NEW p, IsPage(p), NEW seen \in SUBSET p.facts, NEW F \in CappedFacts(seen)
    PROVE  /\ IsFiniteSet(F) /\ Cardinality(F) \in Nat /\ Cardinality(F) <= Limit.factCount
           /\ \A f \in F : Short(f)
<1> DEFINE G == {g \in seen : g.label \in 1..Limit.label /\ g.value > 0 /\ ~g.advert}
           pairs == {Pair(f) : f \in G}
           pair == [f \in G |-> Pair(f)]
<1>1. IsFiniteSet(G)
  <2>1. IsFiniteSet(p.facts) /\ G \in SUBSET p.facts
    BY DEF IsPage
  <2> QED
    BY <2>1, FS_Subset
<1>2. pair \in Surjection(G, pairs)
  BY DEF Surjection
<1>3. IsFiniteSet(pairs)
  BY <1>1, <1>2, FS_Surjection
<1>4. F \in Some(pairs, Limit.factCount)
  BY DEF CappedFacts
<1>5. Limit.factCount \in Nat \ {0} /\ Limit.value \in Nat
  BY LimitAssumption
<1>6. \A g \in G : g.value \in Nat
  BY DEF IsPage, PageTree, PageFact
<1>7. \A g \in G : Short(Pair(g))
  BY <1>5, <1>6 DEF Short, Pair, Least
<1> QED
  BY <1>3, <1>4, <1>5, <1>7, SomeType

LEMMA ListingFits ==
    ASSUME NEW p, IsPage(p), NEW c, NEW text \in SUBSET p.nodes, NEW root, NEW out,
           Listing(p, c, text, root, out)
    PROVE  Fits(c)
<1>1. PICK seen \in SUBSET p.facts : c.facts \in CappedFacts(seen)
  BY DEF Listing, FactsSeen
<1>2. /\ IsFiniteSet(c.facts) /\ Cardinality(c.facts) \in Nat
      /\ Cardinality(c.facts) <= Limit.factCount /\ \A f \in c.facts : Short(f)
  BY <1>1, CappedShort
<1>3. /\ Limit.facts \in Nat \ {0} /\ Limit.chars \in Nat /\ Limit.factCount \in Nat
      /\ Limit.label \in Nat /\ Limit.value \in Nat
      /\ Limit.factCount * (Limit.label + Limit.value) <= Limit.chars
  BY LimitAssumption
<1>4. c.facts # {}
  BY <1>2, <1>3, FS_EmptySet DEF Listing
<1> DEFINE most == Limit.label + Limit.value
           used == FactsWeight(c.facts)
<1>5. most \in Nat /\ \A f \in c.facts : f.label \in Nat /\ f.value \in Nat /\ f.label + f.value <= most
  BY <1>2, <1>3 DEF Short
<1>6. used \in Nat /\ used <= Cardinality(c.facts) * most
  BY <1>2, <1>5, FactsWeightBound
<1>7. Cardinality(c.facts) * most \in Nat /\ Cardinality(c.facts) * most <= Limit.factCount * most
  BY <1>2, <1>3, <1>5, Products
<1>8. used <= Limit.chars
  <2>1. Limit.factCount * most \in Nat
    BY <1>3, <1>5
  <2> HIDE DEF used
  <2> QED
    BY <1>3, <1>6, <1>7, <2>1
<1>9. Chars(p, text) \in Nat
  BY PageFinite
<1>10. c.chars \in Nat /\ c.chars + used <= Limit.chars
  <2>1. c.chars = Least(Chars(p, text), Limit.chars - used)
    BY DEF Listing
  <2>2. Limit.chars \in Nat /\ used \in Nat
    BY <1>3, <1>6
  <2> HIDE DEF used
  <2>3. LET left == Least(Chars(p, text), Limit.chars - used)
        IN  left \in Nat /\ left + used <= Limit.chars
    BY <1>8, <1>9, <2>2, Shared
  <2> QED
    BY <2>1, <2>3
<1>11. c.chars <= Limit.chars
  BY <1>3, <1>6, <1>10
<1> QED
  BY <1>2, <1>4, <1>6, <1>10, <1>11 DEF Fits, Listing

LEMMA FlatFits ==
    ASSUME NEW p, IsPage(p), NEW c, NEW text \in SUBSET p.nodes, Flat(p, c, text)
    PROVE  Fits(c)
<1>1. Chars(p, text) \in Nat /\ Limit.chars \in Nat
  BY PageFinite, LimitAssumption
<1>2. c.chars \in Nat /\ c.chars <= Limit.chars
  BY <1>1 DEF Flat, Least
<1> QED
  BY <1>2 DEF Fits, Flat

LEMMA WholePageIn ==
    ASSUME NEW p, IsPage(p), NEW t \in WholePage(p)
    PROVE  t \in SUBSET p.nodes
<1>1. PICK n \in p.nodes : t = Text(p, n, {})
  BY BodyAlone DEF WholePage, Of, Densest
<1> QED
  BY <1>1, Tree, TextBelow

LEMMA PageContextsFit ==
    ASSUME NEW p, IsPage(p), NEW c \in PageContexts(p)
    PROVE  Fits(c)
<1>1. CASE \E t \in WholePage(p) : Flat(p, c, t)
  BY <1>1, WholePageIn, FlatFits
<1>2. ASSUME NEW r \in Roots(p), NEW m \in Regions(p, r.root, r.out),
             \/ Flat(p, c, Main(p, r, m))
             \/ Listing(p, c, Main(p, r, m), r.root, r.out)
             \/ List(p, c, m, r.out)
      PROVE  Fits(c)
  <2>1. m \in p.nodes
    BY RootsIn, RegionsIn
  <2>2. Main(p, r, m) \in SUBSET p.nodes
    BY <2>1, Tree, TextBelow DEF Main
  <2> QED
    BY <1>2, <2>1, <2>2, FlatFits, ListingFits, ListFits
<1> QED
  BY <1>1, <1>2, PageContextsShape

LEMMA VideoContextsFit ==
    ASSUME NEW p, IsPage(p), NEW c \in VideoContexts(p)
    PROVE  Fits(c) /\ c.text \subseteq {Body} /\ c.read = {}
<1>1. Chars(p, {Body}) \in Nat /\ Limit.chars \in Nat
  BY BodyAlone, PageFinite, LimitAssumption
<1>2. \/ c = [Blank EXCEPT !.kind = "youtube", !.needsTranscript = TRUE]
      \/ c = WithText([Blank EXCEPT !.kind = "youtube"], p, {Body}, Limit.chars)
  BY DEF VideoContexts
<1>3. /\ c.kind = "youtube" /\ c.pageKind = "absent" /\ c.facts = {} /\ c.items = {}
      /\ c.read = {} /\ c.text \subseteq {Body}
      /\ c.chars = 0 \/ c.chars = Least(Chars(p, {Body}), Limit.chars)
      /\ IsContext(c)
  BY <1>2 DEF Blank, IsContext, WithText
<1>4. c.chars \in Nat /\ c.chars <= Limit.chars
  BY <1>1, <1>3 DEF Least
<1> QED
  BY <1>3, <1>4 DEF Fits

LEMMA ExtractionsFit ==
    ASSUME NEW p, IsPage(p), NEW c \in Extractions(p)
    PROVE  Fits(c)
  BY PageContextsFit, VideoContextsFit DEF Extractions

LEMMA BlankFits == Fits(Blank)
  BY LimitAssumption DEF Fits, IsContext, Blank

\* What parseContext leaves of a context that fits is that context.
LEMMA FitsParsed ==
    ASSUME NEW c, Fits(c)
    PROVE  /\ Parsed(c).facts = c.facts /\ Parsed(c).items = c.items
           /\ Parsed(c).kind = c.kind /\ Parsed(c).pageKind = c.pageKind
           /\ Parsed(c).chars = c.chars /\ Parsed(c).item = c.item
<1>1. {"kind", "pageKind", "chars", "facts", "items", "item"} \subseteq DOMAIN c
  BY DEF Fits, IsContext, Blank
<1> DEFINE facts == IF c.kind = "page" /\ c.pageKind = "listing" THEN c.facts ELSE {}
           items == IF c.kind = "page" /\ c.pageKind = "list" /\ c.item.title > 0 THEN c.items ELSE {}
<1>2. facts = c.facts
  BY DEF Fits
<1>3. items = c.items
  <2>1. c.pageKind = "list" => c.item.title > 0
    BY LimitAssumption DEF Fits, Trimmed
  <2> QED
    BY <2>1 DEF Fits
<1>4. Parsed(c) = [c EXCEPT !.facts = facts, !.items = items]
  BY DEF Parsed
<1> HIDE DEF facts, items
<1> QED
  BY <1>1, <1>2, <1>3, <1>4

\* The broker accepts it.
LEMMA FitsAccepted ==
    ASSUME NEW c, Fits(c)
    PROVE  ~TooLarge(Parsed(c))
<1>1. FactsWeight({}) = 0
  <2>1. IsFiniteSet({}) /\ Cardinality({}) = 0
    BY FS_EmptySet
  <2>2. FactsWeight({}) \in Nat /\ FactsWeight({}) <= Cardinality({}) * 0
    BY <2>1, FactsWeightBound
  <2> QED
    BY <2>1, <2>2
<1>2. Cardinality({}) = 0
  BY FS_EmptySet
<1>3. /\ Limit.factCount \in Nat /\ Limit.itemCount \in Nat /\ Limit.chars \in Nat
      /\ Limit.label \in Nat /\ Limit.value \in Nat
      /\ Limit.title \in Nat /\ Limit.price \in Nat /\ Limit.place \in Nat /\ Limit.detail \in Nat
  BY LimitAssumption
<1>4. ~TooLarge(c)
  <2>1. CASE c.pageKind = "list"
    <3>1. c.facts = {}
      BY <2>1 DEF Fits
    <3>2. Cardinality(c.items) \in Nat
      BY <2>1, FS_CardinalityType DEF Fits
    <3> DEFINE used == Cardinality(c.items) * Weight(c.item)
    <3>3. c.items # {} /\ Trimmed(c.item) /\ Cardinality(c.items) <= Limit.itemCount
      BY <2>1 DEF Fits
    <3>4. used \in Nat
      <4>1. Weight(c.item) \in Nat
        BY <1>3, <3>3 DEF Trimmed, Weight
      <4> QED
        BY <3>2, <4>1, Products
    <3>5. c.chars \in Nat /\ c.chars + used <= Limit.chars
      BY <2>1 DEF Fits
    <3> HIDE DEF used
    <3>6. ~(c.chars + 0 + used > Limit.chars)
      BY <1>3, <3>4, <3>5
    <3>7. ~(\/ c.item.title > Limit.title \/ c.item.price > Limit.price
            \/ c.item.place > Limit.place \/ c.item.detail > Limit.detail)
      BY <1>3, <3>3 DEF Trimmed
    <3>8. ~(Cardinality(c.facts) > Limit.factCount) /\ ~(Cardinality(c.items) > Limit.itemCount)
      BY <1>2, <1>3, <3>1, <3>2, <3>3
    <3> QED
      BY <1>1, <3>1, <3>3, <3>6, <3>7, <3>8 DEF TooLarge, used
  <2>2. CASE c.pageKind = "listing"
    <3>1. c.items = {} /\ Cardinality(c.facts) \in Nat
      BY <2>2, FS_CardinalityType DEF Fits
    <3> QED
      BY <1>2, <1>3, <2>2, <3>1 DEF TooLarge, Fits, Short
  <2>3. CASE c.pageKind \notin {"list", "listing"}
    BY <1>1, <1>2, <1>3, <2>3 DEF TooLarge, Fits
  <2> QED
    BY <2>1, <2>2, <2>3
<1> QED
  BY <1>4, FitsParsed DEF TooLarge

-----------------------------------------------------------------------------
(* The request.                                                            *)

\* The context is one that the page gives, and the outcome is what the broker
\* makes of it; nothing is read again once there is one.
IInv ==
    /\ IsPage(page) /\ step \in Step /\ opened \in BOOLEAN
    /\ context = Blank \/ context \in Extractions(page)
    /\ outcome # "none" => step = "over"
    /\ outcome \in {"none", "unreadable", "question"} \/ outcome = Instruction(Parsed(context))

LEMMA OtherVideo ==
    ASSUME NEW p, IsPage(p), NEW v \in {"no", "open", "closed", "none"}
    PROVE  IsPage([p EXCEPT !.video = v])
<1> DEFINE q == [p EXCEPT !.video = v]
<1>1. q \in PageTree
  BY DEF IsPage, PageTree
<1>2. /\ q.nodes = p.nodes /\ q.facts = p.facts /\ q.entries = p.entries
      /\ q.up = p.up /\ q.role = p.role /\ q.guard = p.guard
  BY DEF IsPage, PageTree
<1> HIDE DEF q
<1>3. IsPage(q)
  BY <1>1, <1>2, Zenon DEF IsPage
<1> QED
  BY <1>3 DEF q

LEMMA InvInit == PagesInit => IInv
  BY PageAssumption DEF PagesInit, IInv, Step

LEMMA InvNext ==
    ASSUME IInv, [PagesNext]_pageVars
    PROVE  IInv'
<1>1. ASSUME NEW next \in {"summarize", "chat"}, Read(next)
      PROVE  IInv'
  BY <1>1 DEF IInv, Read, Step
<1>2. CASE OpenTranscript
  <2>1. PICK v \in {"no", "open", "closed", "none"} : page' = [page EXCEPT !.video = v]
    BY <1>2 DEF OpenTranscript, IInv, IsPage, PageTree
  <2>2. IsPage(page')
    BY <2>1, OtherVideo DEF IInv
  <2>3. outcome = "none"
    BY <1>2 DEF OpenTranscript, IInv
  <2> QED
    BY <1>2, <2>2, <2>3 DEF OpenTranscript, IInv
<1>3. CASE GiveUp \/ SendSummarize \/ SendQuestion
  BY <1>3 DEF GiveUp, SendSummarize, SendQuestion, IInv, Step
<1>4. CASE Receive
  <2>1. Fits(context)
    BY BlankFits, ExtractionsFit DEF IInv
  <2>2. ~TooLarge(Parsed(context))
    BY <2>1, FitsAccepted
  <2>3. outcome' \in {Instruction(Parsed(context)), "question"}
    BY <1>4, <2>2 DEF Receive
  <2> QED
    BY <1>4, <2>3 DEF Receive, IInv, Step
<1>5. CASE UNCHANGED pageVars
  BY <1>5 DEF pageVars, IInv
<1> QED
  BY <1>1, <1>2, <1>3, <1>4, <1>5 DEF PagesNext, ReadToSummarize, ReadToChat

THEOREM Invariant == PagesSpec => []IInv
<1>1. PagesInit => IInv
  BY InvInit
<1>2. IInv /\ [PagesNext]_pageVars => IInv'
  BY InvNext
<1> QED
  BY <1>1, <1>2, PTL DEF PagesSpec

\* Whatever the page, what is extracted of it fits: the room left for its text is
\* never negative, so that the Math.max of extract.js:1096 and :1113 is idle, and
\* a list has entries and a listing facts (extract.js:1084-1142).
THEOREM ContextFits == PagesSpec => []Fits(context)
<1>1. IInv => Fits(context)
  BY BlankFits, ExtractionsFit DEF IInv
<1> QED
  BY <1>1, Invariant, PTL

\* Nothing that is sent of a page is refused for its size (server.ts:60-111).
THEOREM SentIsAcceptedHolds == PagesSpec => []SentIsAccepted
<1>1. IInv => SentIsAccepted
  BY DEF IInv, SentIsAccepted, Instruction
<1> QED
  BY <1>1, Invariant, PTL

\* The summary is of the kind that was found (model.ts:276-299).
THEOREM InstructionFitsHolds == PagesSpec => []InstructionFits
<1>1. IInv => InstructionFits
  <2> SUFFICES ASSUME IInv, outcome \in {"list", "listing", "default"}
               PROVE  outcome = (IF context.pageKind \in {"list", "listing"} THEN context.pageKind
                                 ELSE "default")
    BY DEF InstructionFits
  <2>1. outcome = Instruction(Parsed(context))
    BY DEF IInv
  <2>2. Fits(context)
    BY BlankFits, ExtractionsFit DEF IInv
  <2> QED
    BY <2>1, <2>2, FitsParsed DEF Instruction, Fits
<1> QED
  BY <1>1, Invariant, PTL

\* Drafts are not sent (extract.js:36-43).
THEOREM DraftStaysHolds == PagesSpec => []DraftStays
<1>1. IInv => DraftStays
  <2> SUFFICES ASSUME IInv
               PROVE  Excused(page, context.text \cup context.read)
    BY DEF DraftStays, Excused, Taken, Drafts, In, Writable
  <2>1. IsPage(page)
    BY DEF IInv
  <2>2. CASE context = Blank
    BY <2>2 DEF Blank, Excused
  <2>3. CASE context \in PageContexts(page)
    BY <2>1, <2>3, DraftsOut DEF Excused
  <2>4. CASE context \in VideoContexts(page)
    <3>1. context.text \subseteq {Body} /\ context.read = {}
      BY <2>1, <2>4, VideoContextsFit
    <3>2. Body \in Taken(page) /\ Body \in Below(page, Body)
      BY <2>1, BodyAlone, Tree DEF Taken
    <3> QED
      BY <3>1, <3>2 DEF Excused
  <2> QED
    BY <2>2, <2>3, <2>4 DEF IInv, Extractions
<1> QED
  BY <1>1, Invariant, PTL

\* Layers that are set aside are not sent (extract.js:357-462).
THEOREM LayersStayOutHolds == PagesSpec => []LayersStayOut
<1>1. IInv => LayersStayOut
  <2> SUFFICES ASSUME IInv, page.video = "no", page.breaks = "nothing", context # Blank
               PROVE  LayersStayOut
    BY DEF LayersStayOut
  <2>1. IsPage(page) /\ context \in PageContexts(page)
    BY DEF IInv, Extractions
  <2>2. CASE ContentLayers(page) = {}
    <3>1. \/ Chars(page, Text(page, Body, Aside(page))) < Limit.region
          \/ /\ context.text \cap Layers(page) = {}
             /\ \A k \in context.read \cap Layers(page) :
                   \E n \in TakenOf(page, context) : k \in Below(page, n)
      BY <2>1, <2>2, LayersOut
    <3> QED
      BY <2>2, <3>1 DEF LayersStayOut, Layers, In, Aside, TakenOf
  <2>3. CASE ContentLayers(page) # {}
    <3>1. \E d \in ContentLayers(page) :
             \/ Chars(page, Text(page, d, {})) = 0
             \/ /\ context.text \subseteq Below(page, d)
                /\ context.pageKind = "list" \/ context.read \subseteq Below(page, d)
      BY <2>1, <2>3, DialogAlone
    <3> QED
      BY <2>3, <3>1 DEF LayersStayOut
  <2> QED
    BY <2>2, <2>3
<1> QED
  BY <1>1, Invariant, PTL
=============================================================================
