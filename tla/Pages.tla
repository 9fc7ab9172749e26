-------------------------------- MODULE Pages --------------------------------
(***************************************************************************)
(* What the extension sends of a page, and what the broker makes of it:    *)
(* extension/content/extract.js, the checks of panel.js before it sends,   *)
(* protocol.ts's parseContext, server.ts's budget and model.ts's choice of *)
(* an instruction.                                                         *)
(*                                                                         *)
(* A page is a tree of nodes, each with some text of its own: a text is    *)
(* the set of nodes it comes from and has a length.  Subtracting an        *)
(* element's text is subtracting its nodes (the code looks its rendered    *)
(* text up in its container's and cuts it out; here no two nodes read      *)
(* alike).  Lines, regular expressions, CSS and the wording of prompts are *)
(* what the attributes of a page say they found.                           *)
(***************************************************************************)
EXTENDS Naturals, FiniteSets, FiniteSetsExt

CONSTANTS
    Node,    \* elements
    Body,    \* document.body
    None,    \* "no element"
    Page,    \* the pages explored
    Limit    \* the thresholds and caps, shared by extract.js and the broker

VARIABLES
    page,     \* the page the user looks at
    step,     \* how far the request is: Step
    opened,   \* the panel has opened the video's transcript itself
    context,  \* what extract.js returned last
    outcome   \* Outcome

pageVars == <<page, step, opened, context, outcome>>

Step == {"seen", "summarize", "chat", "summary sent", "question sent", "over"}
Outcome == {"none", "unreadable", "context-too-large", "list", "listing", "default", "question"}

Role == {"plain", "semantic", "dialog", "fixed", "chrome", "form", "editable"}

\* A pair that the page shows somewhere.
PageFact == [name : STRING, at : Node, label : Nat, value : Nat,
             figure : BOOLEAN, advert : BOOLEAN, displayed : BOOLEAN]

\* up: a node and its ancestors; consent: the nodes whose words are those of a
\* consent banner; guard: the first article or main of the document; unusable: the
\* nodes without a box, or hidden; heads: the headings or links that entries are
\* named by; breaks: the step of the reading that throws.
PageTree ==
    [nodes : SUBSET Node, up : [Node -> SUBSET Node], own : [Node -> Nat], role : [Node -> Role],
     consent : SUBSET Node, h1 : Node, guard : Node \cup {None}, entries : SUBSET Node,
     linked : SUBSET Node, unusable : SUBSET Node, numeric : SUBSET Node, heads : SUBSET Node,
     card : [title : Nat \ {0}, price : Nat, place : Nat, detail : Nat],
     facts : SUBSET PageFact, priced : BOOLEAN,
     breaks : {"nothing", "layers", "region", "text", "facts", "items"},
     video : {"no", "open", "closed", "none"}]

\* A page is a finite tree with the body at its root.
IsPage(p) ==
    /\ p \in PageTree
    /\ IsFiniteSet(p.nodes) /\ IsFiniteSet(p.facts)
    /\ p.entries \subseteq p.nodes
    /\ \A n \in p.nodes :
          /\ {n, Body} \subseteq p.up[n] /\ p.up[n] \subseteq p.nodes
          /\ \A a, b \in p.up[n] : a \in p.up[b] \/ b \in p.up[a]
          /\ \A a \in p.up[n] : p.up[a] \subseteq p.up[n]
    /\ LET semantic == {n \in p.nodes : p.role[n] = "semantic"}
       IN  IF semantic = {} THEN p.guard = None ELSE p.guard \in semantic
    /\ Body \in p.nodes /\ p.up[Body] = {Body} /\ p.role[Body] \in {"plain", "editable"}

ASSUME PageAssumption == \A p \in Page : IsPage(p)

\* The caps of facts and items leave room in the budget
\* (docs/PROTOCOL.md, "Budget de taille").
ASSUME LimitAssumption ==
    /\ Limit \in [{"chars", "readable", "region", "layer", "banner", "article", "group",
                   "entryMin", "entryMax", "facts", "factCount", "label", "value",
                   "itemCount", "title", "price", "place", "detail"} -> Nat \ {0}]
    /\ Limit.factCount * (Limit.label + Limit.value) <= Limit.chars
    /\ Limit.itemCount * (Limit.title + Limit.price + Limit.place + Limit.detail) <= Limit.chars

-----------------------------------------------------------------------------
(* Text.                                                                   *)

\* n and its ancestors; n and its descendants; c is the parent of n.
Up(p, n) == p.up[n]
IsChild(p, n, c) == n # c /\ Up(p, n) = {n} \cup Up(p, c)
Below(p, n) == {m \in p.nodes : n \in Up(p, m)}
Inside(p, n, S) == Up(p, n) \cap S # {}
Of(p, roles) == {n \in p.nodes : p.role[n] \in roles}

Chars(p, S) == MapThenSumSet(LAMBDA n : p.own[n], S)

\* textExcludingNodes: what n shows, but for the editable elements and those
\* of out that are in it.  (Mutant: editable ones are kept.)
TextWithDrafts(p, n, out) ==
    Below(p, n) \ UNION {Below(p, m) : m \in (Below(p, n) \ {n}) \cap out}
Text(p, n, out) ==
    Below(p, n) \ UNION {Below(p, m) : m \in (Below(p, n) \ {n}) \cap (out \cup Of(p, {"editable"}))}

-----------------------------------------------------------------------------
(* Layers over the page.                                                   *)

\* hasLexicalConfirmation.
Confirmed(p, n) == Below(p, n) \cap p.consent # {}

\* isContentLayer: what the user looks at is in this dialog.
ContentLayers(p) ==
    {n \in Of(p, {"dialog"}) : Chars(p, Below(p, n)) >= Limit.layer /\ ~Confirmed(p, n)}

\* shouldExcludeLayer.  A fixed element is one that also covers the viewport
\* or is docked to an edge.
ShouldExclude(p, n) ==
    \/ p.role[n] = "dialog" /\ n \notin ContentLayers(p)
    \/ /\ p.role[n] = "fixed"
       /\ Confirmed(p, n) /\ Chars(p, Below(p, n)) < Limit.banner
    \/ /\ p.role[n] \in {"plain", "chrome"} /\ n # Body
       /\ Confirmed(p, n) /\ Chars(p, Below(p, n)) < Limit.banner
       /\ Below(p, n) \cap {p.h1, p.guard} = {}

\* resolveOverlayExclusion, of the candidates it collects and measures.  (Mutant: a layer is left where it is.)
RootsWithLayers(p) ==
    IF ContentLayers(p) # {} THEN {[root |-> d, out |-> {}] : d \in ContentLayers(p)}
    ELSE {[root |-> Body, out |-> {}]}
Roots(p) ==
    IF p.breaks = "layers" THEN {[root |-> Body, out |-> {}]}
    ELSE IF ContentLayers(p) # {} THEN {[root |-> d, out |-> {}] : d \in ContentLayers(p)}
    ELSE {[root |-> Body, out |-> {n \in p.nodes : ShouldExclude(p, n)}]}

-----------------------------------------------------------------------------
(* The main region.                                                        *)

Densest(p, S, out) ==
    {n \in S : \A m \in S :
        Chars(p, Text(p, n, out)) * Cardinality(Below(p, m))
            >= Chars(p, Text(p, m, out)) * Cardinality(Below(p, n))}

\* isInsideFixedOrSticky, of the nearest fixed element around n.
InSidebar(p, n) ==
    \E f \in Up(p, n) \cap Of(p, {"fixed"}) :
        /\ Up(p, n) \cap Of(p, {"fixed"}) \subseteq Up(p, f)
        /\ 2 * Chars(p, Below(p, f)) < Chars(p, Below(p, Body))

\* findMainRegion: an article or a main, or the densest block, or all of it.
\* Which comes first in the document is left open.
Regions(p, root, out) ==
    LET enough(n, least) == Chars(p, Text(p, n, out)) >= least
        within == {n \in Below(p, root) \ {root} : ~Inside(p, n, out)}
        semantic == {n \in within \cap Of(p, {"semantic"}) : enough(n, Limit.region + 1)}
        blocks == {n \in within \ Of(p, {"semantic"}) :
                     /\ ~Inside(p, n, Of(p, {"chrome", "form", "editable"}))
                     /\ ~InSidebar(p, n)
                     /\ enough(n, Limit.region)}
    IN  IF semantic # {} THEN semantic
        ELSE IF blocks # {} THEN Densest(p, blocks, out)
        ELSE {root}

\* articleText: the same before layers were thought of.
WholePage(p) ==
    LET semantic == {n \in Of(p, {"semantic"}) : Chars(p, Text(p, n, {})) > Limit.region}
        blocks == {n \in p.nodes \ (Of(p, {"semantic"}) \cup {Body}) :
                     /\ ~Inside(p, n, Of(p, {"chrome", "editable"}))
                     /\ Chars(p, Text(p, n, {})) >= Limit.region}
    IN  {Text(p, n, {}) : n \in IF semantic # {} THEN semantic
                                ELSE IF blocks # {} THEN Densest(p, blocks, {})
                                ELSE {Body}}

-----------------------------------------------------------------------------
(* Facts and entries.                                                      *)

\* isFactsExcludedContext, isElementUsable and isOrContainsEditable: only an
\* editable element is looked for below the row of a pair, not a layer.
Readable(p, f, out) ==
    /\ f.displayed
    /\ ~Inside(p, f.at, out \cup Of(p, {"chrome", "form", "editable"}))
    /\ Below(p, f.at) \cap Of(p, {"editable"}) = {}

\* findFacts, whichever of its four shapes shows the pair; the caller adds the
\* entries, or their container, to out.
FactsSeen(p, root, out) == {f \in p.facts : f.at \in Below(p, root) /\ Readable(p, f, out)}

Least(a, b) == IF a <= b THEN a ELSE b
Some(S, most) == {T \in SUBSET S : Cardinality(T) = Least(most, Cardinality(S))}

\* capFacts: pairs, seen once however often they are displayed.
Pair(f) == [name |-> f.name, label |-> f.label, value |-> Least(f.value, Limit.value), figure |-> f.figure]
CappedFacts(F) ==
    Some({Pair(f) : f \in {g \in F : g.label \in 1..Limit.label /\ g.value > 0 /\ ~g.advert}},
         Limit.factCount)

\* findCandidateEntryGroup: entries are children of one shape; twelve levels
\* up are as good as all.
Group(p, n) == {e \in p.entries : IsChild(p, e, n)}
Containers(p) == {n \in p.nodes : Cardinality(Group(p, n)) >= Limit.group}
Container(p, m) ==
    LET around == {c \in Up(p, m) \cap Containers(p) : Up(p, m) \cap Containers(p) \subseteq Up(p, c)}
        children == {c \in Containers(p) : IsChild(p, c, m)}
    IN  IF around # {} THEN CHOOSE c \in around : TRUE
        ELSE IF children # {} THEN CHOOSE c \in children : TRUE
        ELSE None

\* evaluateListCandidate: the entries that count, {} when it is no list.
Kept(p, c, length, out) ==
    LET kept == {e \in Group(p, c) :
                    /\ e \in p.linked /\ e \notin p.unusable
                    /\ Chars(p, Text(p, e, out)) \in Limit.entryMin..Limit.entryMax}
        sum == MapThenSumSet(LAMBDA e : Chars(p, Text(p, e, out)), kept)
    IN  IF /\ Cardinality(kept) >= Limit.group
           /\ 2 * Cardinality(kept \cap p.numeric) >= Cardinality(kept)
           /\ 2 * sum >= length
        THEN kept ELSE {}

\* buildItem, titleForEntry and capItems: of the entry's lines, p.card says
\* what each field gets.
Item(card) ==
    [title  |-> Least(card.title, Limit.title),
     price  |-> IF card.price <= Limit.price THEN card.price ELSE 0,
     place  |-> IF card.place <= Limit.place THEN card.place ELSE 0,
     detail |-> Least(card.detail, Limit.detail)]

Weight(item) == item.title + item.price + item.place + item.detail
FactsWeight(F) == MapThenSumSet(LAMBDA f : f.label + f.value, F)

-----------------------------------------------------------------------------
(* What extract.js returns.                                                *)

\* text: the nodes it comes from, chars its length; read: the nodes of the
\* facts and items.
Blank == [kind |-> "page", pageKind |-> "absent", needsTranscript |-> FALSE,
          text |-> {}, chars |-> 0, facts |-> {}, items |-> {}, item |-> <<>>, read |-> {}]

WithText(c, p, nodes, room) == [c EXCEPT !.text = nodes, !.chars = Least(Chars(p, nodes), room)]
OfKind(k) == [Blank EXCEPT !.pageKind = k]

\* The room that the facts or the items leave.  (Mutant: they are not counted.)
RoomUnshared(weight) == Limit.chars
Room(weight) == Limit.chars - weight

\* An entry is named by all that its first heading or link says.
ListContexts(p, m, kept, out) ==
    LET item == Item(p.card)
        text == Text(p, m, out \cup kept)
        names(e) == {h \in p.heads \cap Below(p, e) :
                        h # e /\ Below(p, h) \cap Of(p, {"editable"}) = {}}
        entry(e) == Text(p, e, out) \cup UNION {Below(p, h) : h \in names(e)}
    IN  {WithText([OfKind("list") EXCEPT !.items = I, !.item = item,
                                         !.read = UNION {entry(e) : e \in I}],
                  p, text, Room(Cardinality(I) * Weight(item)))
         : I \in Some(kept, Limit.itemCount)}

\* hasChiefNumericFact, or a short line near the h1.
Chief(p, F) == p.priced \/ \E f \in F : f.figure

\* A listing, or one of the two kinds without structure.  The cells of a pair are
\* read with all that is in them.
FlatContexts(p, m, main, seen) ==
    UNION {IF Cardinality(F) >= Limit.facts /\ Chief(p, F)
           THEN {WithText([OfKind("listing") EXCEPT
                             !.facts = F,
                             !.read = UNION {Below(p, f.at) : f \in {g \in seen : Pair(g) \in F}}],
                          p, main, Room(FactsWeight(F)))}
           ELSE LET kind == IF Of(p, {"semantic"}) # {} \/ Chars(p, main) > Limit.article
                            THEN "article" ELSE "other"
                IN  {WithText(OfKind(kind), p, t, Limit.chars)
                     : t \in IF Chars(p, main) > 0 THEN {main} ELSE WholePage(p)}
           : F \in CappedFacts(seen)}

\* buildPageKindContext, once the layers are resolved; p.breaks is what throws.
RegionContexts(p, r, m) ==
    LET main == IF p.breaks = "text" THEN {} ELSE Text(p, m, r.out)
        c == Container(p, m)
        length == IF Chars(p, main) = 0 THEN 1 ELSE Chars(p, main)
        kept == IF /\ c # None
                   /\ p.breaks # "facts"
                   /\ Cardinality(FactsSeen(p, r.root, r.out \cup {c})) < Limit.facts
                THEN Kept(p, c, length, r.out) ELSE {}
        seen == IF p.breaks = "facts" THEN {}
                ELSE FactsSeen(p, r.root, IF c = None THEN r.out ELSE r.out \cup Group(p, c))
    IN  IF kept # {} /\ p.breaks # "items" THEN ListContexts(p, m, kept, r.out)
        ELSE FlatContexts(p, m, main, seen)

PageContexts(p) ==
    UNION {IF r.root = Body /\ r.out # {} /\ Chars(p, Text(p, Body, r.out)) < Limit.region
           THEN {WithText(OfKind("other"), p, t, Limit.chars) : t \in WholePage(p)}
           ELSE IF p.breaks = "region"
           THEN {WithText(Blank, p, t, Limit.chars) : t \in WholePage(p)}
           ELSE UNION {RegionContexts(p, r, m) : m \in Regions(p, r.root, r.out)}
           : r \in Roots(p)}

\* A video shows its transcript, or keeps it closed, or has none.
VideoContexts(p) ==
    IF p.video = "open"
    THEN {WithText([Blank EXCEPT !.kind = "youtube"], p, {Body}, Limit.chars)}
    ELSE {[Blank EXCEPT !.kind = "youtube", !.needsTranscript = TRUE]}

Extractions(p) == IF p.video = "no" THEN PageContexts(p) ELSE VideoContexts(p)

-----------------------------------------------------------------------------
(* The panel.                                                              *)

PagesInit ==
    /\ page \in Page
    /\ step = "seen" /\ opened = FALSE /\ context = Blank /\ outcome = "none"

\* summarize, or sendChat with the page, reads it.
Read(next) ==
    /\ step = "seen"
    /\ step' = next
    /\ context' \in Extractions(page)
    /\ UNCHANGED <<page, opened, outcome>>
ReadToSummarize == Read("summarize")
ReadToChat == Read("chat")

\* openYouTubeTranscript, once; then the page is read again.
OpenTranscript ==
    /\ step = "summarize" /\ context.needsTranscript /\ ~opened
    /\ opened' = TRUE
    /\ \E video \in IF page.video = "closed" THEN {"open", "closed"} ELSE {page.video} :
         page' = [page EXCEPT !.video = video]
    /\ context' \in Extractions(page')
    /\ UNCHANGED <<step, outcome>>

\* The notices of summarize: no transcript, nothing readable.
Unreadable == context.needsTranscript \/ context.chars < Limit.readable
GiveUp ==
    /\ step = "summarize" /\ (context.needsTranscript => opened) /\ Unreadable
    /\ step' = "over" /\ outcome' = "unreadable"
    /\ UNCHANGED <<page, opened, context>>

SendSummarize ==
    /\ step = "summarize" /\ (context.needsTranscript => opened) /\ ~Unreadable
    /\ step' = "summary sent"
    /\ UNCHANGED <<page, opened, context, outcome>>

\* sendChat looks at nothing.
SendQuestion ==
    /\ step = "chat"
    /\ step' = "question sent"
    /\ UNCHANGED <<page, opened, context, outcome>>

-----------------------------------------------------------------------------
(* The broker.                                                             *)

\* parseContext: facts and items only with the kind they belong to, items
\* only with a title.  (Mutant: items with the kind of facts.)
ParsedAlike(c) == [c EXCEPT !.items = IF c.pageKind = "listing" THEN @ ELSE {}]
Parsed(c) ==
    [c EXCEPT !.facts = IF c.kind = "page" /\ c.pageKind = "listing" THEN @ ELSE {},
              !.items = IF c.kind = "page" /\ c.pageKind = "list" /\ c.item.title > 0 THEN @ ELSE {}]

\* contextBudgetError.
TooLarge(c) ==
    \/ Cardinality(c.facts) > Limit.factCount \/ Cardinality(c.items) > Limit.itemCount
    \/ \E f \in c.facts : f.label > Limit.label \/ f.value > Limit.value
    \/ /\ c.items # {}
       /\ \/ c.item.title > Limit.title \/ c.item.price > Limit.price
          \/ c.item.place > Limit.place \/ c.item.detail > Limit.detail
    \/ c.chars + FactsWeight(c.facts)
         + (IF c.items = {} THEN 0 ELSE Cardinality(c.items) * Weight(c.item)) > Limit.chars

\* resolvePageSummaryKind.
Instruction(c) ==
    IF c.pageKind = "list" /\ c.items # {} THEN "list"
    ELSE IF c.pageKind = "listing" /\ c.facts # {} THEN "listing"
    ELSE "default"

Receive ==
    /\ step \in {"summary sent", "question sent"}
    /\ step' = "over"
    /\ LET c == Parsed(context)
       IN  outcome' = IF TooLarge(c) THEN "context-too-large"
                      ELSE IF step = "summary sent" THEN Instruction(c)
                      ELSE "question"
    /\ UNCHANGED <<page, opened, context>>

PagesNext ==
    \/ ReadToSummarize \/ ReadToChat
    \/ OpenTranscript \/ GiveUp \/ SendSummarize \/ SendQuestion
    \/ Receive

PagesSpec == PagesInit /\ [][PagesNext]_pageVars

-----------------------------------------------------------------------------
(* Properties.                                                             *)

\* What is sent of a page is within the broker's budget, whatever the page:
\* its texts, facts and items are cut so that it never is refused.
SentIsAccepted == outcome # "context-too-large"

\* The summary asked for is of the kind that the panel's button announces:
\* nothing that extract.js found is lost on the way to the prompt.
InstructionFits ==
    outcome \in {"list", "listing", "default"} =>
        outcome = (IF context.pageKind \in {"list", "listing"} THEN context.pageKind ELSE "default")

\* What the user is writing in the page is not sent (extract.js:36-43), except
\* where the code takes an element that is itself in an editable one: an article
\* or a main, a dialog that is the content, the body, an entry of a list or the
\* heading it is named by.  Then only what is in that element goes.
DraftStays ==
    LET p == page
        drafts == UNION {Below(p, n) : n \in Of(p, {"editable"})}
        taken == Of(p, {"semantic"}) \cup ContentLayers(p) \cup {Body} \cup p.entries \cup p.heads
    IN  (context.text \cup context.read) \cap drafts \subseteq UNION {Below(p, n) : n \in taken \cap drafts}

\* A layer that was set aside is not sent, nor read for facts or entries, unless
\* that left nothing of the page or some step of the reading threw.  But the cells
\* of a pair are read with the layers in them, and so are the headings that
\* entries are named by; and an entry in a layer is read.  Nor is the page under
\* a dialog that is the content sent, but for a list around the dialog, and unless
\* all that the dialog says is a draft.
LayersStayOut ==
    LET p == page
        aside == {n \in p.nodes : ShouldExclude(p, n)}
        layers == UNION {Below(p, n) : n \in aside}
        taken == IF context.pageKind = "listing" THEN {f.at : f \in p.facts} \ layers
                 ELSE IF context.pageKind = "list" THEN (p.entries \cap layers) \cup p.heads
                 ELSE {}
    IN  p.video = "no" /\ p.breaks = "nothing" /\ context # Blank =>
        IF ContentLayers(p) = {}
        THEN \/ Chars(p, Text(p, Body, aside)) < Limit.region
             \/ /\ context.text \cap layers = {}
                /\ context.read \cap layers \subseteq UNION {Below(p, n) : n \in taken}
        ELSE \E d \in ContentLayers(p) :
                \/ Chars(p, Text(p, d, {})) = 0
                \/ /\ context.text \subseteq Below(p, d)
                   /\ context.pageKind = "list" \/ context.read \subseteq Below(p, d)
=============================================================================
