------------------------------- MODULE MCPages -------------------------------
EXTENDS Pages

MCNode == {"body", "main", "layer", "list", "entry1", "entry2", "entry3", "table", "draft"}
MCEntries == {"entry1", "entry2", "entry3"}

\* The thresholds and caps, in the order they have in the code, a few
\* characters each.
MCLimit == [chars |-> 15, readable |-> 2, region |-> 3, layer |-> 5, banner |-> 8, article |-> 9,
            group |-> 2, entryMin |-> 2, entryMax |-> 5, facts |-> 2,
            factCount |-> 3, label |-> 2, value |-> 3,
            itemCount |-> 2, title |-> 2, price |-> 1, place |-> 1, detail |-> 2]

Fact(name, at, label, value, figure, advert) ==
    [name |-> name, at |-> at, label |-> label, value |-> value,
     figure |-> figure, advert |-> advert, displayed |-> TRUE]

\* No fact; two; one, displayed twice; one and an advertisement; four, too long.
Facts(at, n) ==
    <<{},
      {Fact("a", at, 1, 1, TRUE, FALSE), Fact("b", at, 1, 4, FALSE, FALSE)},
      {Fact("a", at, 1, 1, TRUE, FALSE), Fact("a", "body", 1, 1, TRUE, FALSE)},
      {Fact("a", at, 1, 1, TRUE, FALSE), Fact("b", at, 1, 1, FALSE, TRUE)},
      {Fact(name, at, 2, 4, TRUE, FALSE) : name \in {"a", "b", "c", "d"}}>>[n]

\* A second article, an entry without a box, a body that is editable; a list or
\* an entry that is a dialog or editable.
Odd == {"nothing", "second", "boxless", "body", "list dialog", "list editable",
        "entry dialog", "entry editable"}
InList == {"list dialog", "list editable", "entry dialog", "entry editable"}

\* What each node is in, and what it is; one thing at most is odd.
Shape == [layer : {"none", "body", "main", "list", "entry1", "table"},
          list : {"none", "body", "main", "layer"},
          table : {"body", "main", "layer", "list", "entry1", "draft"},
          draft : {"none", "main", "entry1", "around main", "all the layer"},
          main : {"plain", "semantic"},
          kind : {"dialog", "fixed", "plain"}, consent : BOOLEAN, size : {2, 6},
          linked : {{"entry1"}, MCEntries}, long : {{}, {"entry1"}},
          facts : 1..5,
          odd : Odd]

\* A page with little in it but, perhaps, a banner in its main.
Simple(s) ==
    /\ s.odd \in {"nothing", "body"} /\ s.main = "plain"
    /\ \/ s.kind = "plain" /\ ~s.consent
       \/ s.kind = "fixed" /\ s.consent /\ s.size = 2 /\ s.layer = "main" /\ s.list = "none"
    /\ s.draft = "none" /\ s.facts \in {1, 2}

\* Whether a shape is one page, and not the name of one that another shape has.
IsShape(s) ==
    /\ s.layer = "none" =>
         s.list # "layer" /\ s.table # "layer" /\ s.kind = "plain" /\ ~s.consent /\ s.size = 2
    /\ s.list = "none" =>
         /\ s.layer \notin {"list", "entry1"} /\ {s.table, s.draft} \cap {"list", "entry1"} = {}
         /\ s.linked = MCEntries /\ s.long = {}
    /\ ~(s.layer \in {"list", "entry1", "table"} /\ s.list = "layer")
    /\ s.facts = 1 => s.table \in {"body", "layer", "entry1", "draft"}
    /\ s.linked = {"entry1"} => s.long = {}
    /\ s.draft = "all the layer" =>
         s.kind = "dialog" /\ s.layer = "body" /\ ~s.consent /\ s.facts = 1
    /\ s.table = "draft" => s.draft = "entry1" /\ s.facts = 1
    \* What would only multiply the pages.
    /\ s.draft # "none" => s.facts \in {1, 2}
    /\ s.kind # "dialog" /\ ~s.consent => s.size = 2
    /\ s.long # {} => s.facts \in {1, 2}
    /\ s.facts = 1 /\ s.table \in {"entry1", "layer"} =>
         s.draft = "none" /\ s.long = {} /\ s.main = "plain"
    /\ s.layer = "table" =>
         \/ s.table = "entry1" /\ s.facts = 1
         \/ s.table \in {"body", "main"} /\ s.facts = 2 /\ s.list = "none" /\ s.draft = "none"
    /\ s.odd = "second" => s.table = "layer" /\ s.kind = "plain" /\ s.consent /\ s.draft = "none"
    /\ s.odd = "boxless" => s.list # "none" /\ s.kind = "plain" /\ ~s.consent /\ s.draft = "none"
    /\ s.layer = "entry1" => s.table = "layer" /\ s.facts = 1
    /\ s.odd = "body" => Simple(s) /\ s.layer = "none"
    /\ s.odd \in InList =>
         /\ s.list # "none" /\ s.kind = "plain" /\ ~s.consent /\ s.main = "plain" /\ s.draft = "none"
         /\ s.facts \in {1, 2}

\* The page of a shape; breaks is what throws in it, video what it has of one.
PageOf(s, breaks, video) ==
    LET parent == [body |-> "none", main |-> IF s.draft = "around main" THEN "draft" ELSE "body",
                   layer |-> s.layer, list |-> s.list,
                   entry1 |-> "list", entry2 |-> "list", entry3 |-> "list",
                   table |-> s.table,
                   draft |-> CASE s.draft = "around main" -> "body"
                               [] s.draft = "all the layer" -> "layer"
                               [] OTHER -> s.draft]
        nodes == {n \in MCNode : /\ n = "body" \/ parent[n] # "none"
                                 /\ n \in MCEntries => s.list # "none"}
        up[n \in nodes] == IF n = "body" THEN {n} ELSE {n} \cup up[parent[n]]
        above(n) == IF n \in nodes THEN up[n] ELSE {}
        own(n) == IF n \in s.long THEN 6 ELSE 3
        full == s.draft = "all the layer"
        odd(editable, dialog) ==
            CASE s.odd = editable -> "editable" [] s.odd = dialog -> "dialog" [] OTHER -> "plain"
    IN  [nodes |-> nodes,
         up |-> [body |-> above("body"), main |-> above("main"), layer |-> above("layer"),
                 list |-> above("list"), entry1 |-> above("entry1"), entry2 |-> above("entry2"),
                 entry3 |-> above("entry3"), table |-> above("table"), draft |-> above("draft")],
         own |-> [body |-> 1, main |-> 4, layer |-> IF full THEN 0 ELSE s.size, list |-> 1, entry1 |-> own("entry1"),
                  entry2 |-> own("entry2"), entry3 |-> own("entry3"), table |-> 2, draft |-> IF full THEN 6 ELSE 3],
         role |-> [body |-> odd("body", "none"), main |-> s.main, layer |-> s.kind, list |-> odd("list editable", "list dialog"),
                   entry1 |-> odd("entry editable", "entry dialog"), entry2 |-> "plain", entry3 |-> "plain",
                   table |-> IF s.odd = "second" THEN "semantic" ELSE "plain", draft |-> "editable"],
         consent |-> (IF s.consent THEN {"layer"} ELSE {})
                     \cup (IF s.odd = "list dialog" THEN {"list"} ELSE {}),
         h1 |-> "main",
         guard |-> IF s.main = "semantic" THEN "main" ELSE IF s.odd = "second" THEN "table" ELSE "none",
         unusable |-> IF s.odd = "boxless" THEN {"entry3"} ELSE {},
         entries |-> IF s.list = "none" THEN {} ELSE MCEntries,
         linked |-> s.linked,
         numeric |-> {"entry1", "entry2"},
         \* A heading where there are no facts.
         heads |-> IF s.facts = 1 THEN {"table"} ELSE {},
         card |-> [title |-> 3, price |-> 1, place |-> 2, detail |-> 4],
         facts |-> Facts(s.table, s.facts),
         priced |-> FALSE,
         breaks |-> breaks,
         video |-> video]

\* Most pages read well; in a few something throws, and a few are videos.
Shapes == {s \in Shape : IsShape(s)}
MCPage ==
    {PageOf(t[1], t[2], t[3]) :
        t \in {u \in Shapes \X {"nothing", "layers", "region", "text", "facts", "items"}
                            \X {"no", "open", "closed", "none"} :
                  (u[2] = "nothing" /\ u[3] = "no") \/ Simple(u[1])}}
=============================================================================
