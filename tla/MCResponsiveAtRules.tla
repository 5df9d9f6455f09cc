------------------------ MODULE MCResponsiveAtRules ------------------------
(***************************************************************************)
(* Model for ResponsiveAtRules.  Stylesheets with @responsive blocks at     *)
(* the top level and inside an @media block, with and without an explicit  *)
(* `@tailwind screens` site (one, or two of which one is nested), with an  *)
(* empty block, and with no block at all; rules whose selectors have one   *)
(* class, several classes among other components, several selectors, or  *)
(* no class.  Breakpoint lists of zero, one and two screens in both        *)
(* orders.                                                                  *)
(***************************************************************************)
EXTENDS ResponsiveAtRules

Cls(v)  == [t |-> "class", v |-> <<v>>]
Tag(v)  == [t |-> "tag", v |-> <<v>>]
Pseudo(v) == [t |-> "pseudo", v |-> <<v>>]
Descendant == [t |-> "combinator", v |-> <<" ">>]

Rule(nm, sels) == [type |-> "rule", name |-> nm, params |-> "", sel |-> sels]
At(t, nm, p) == [type |-> t, name |-> nm, params |-> p, sel |-> <<>>]

\* .flex
Flex  == Rule("flex", << <<Cls("flex")>> >>)
\* a .nav .item:hover  (the last class is rewritten, not the first)
Item  == Rule("item", << <<Tag("a"), Descendant, Cls("nav"), Descendant,
                          Cls("item"), Pseudo("hover")>> >>)
\* .a, .b.c  (each selector of the list on its own)
Pair  == Rule("pair", << <<Cls("a")>>, <<Cls("b"), Cls("c")>> >>)
\* div:not(.x)  (no top-level class)
Plain == Rule("plain", << <<Tag("div"), Pseudo("not(.x)")>> >>)
Body  == Rule("body", << <<Tag("body")>> >>)

Resp1   == At("responsive", "r1", "")
Resp2   == At("responsive", "r2", "")
PrintMedia   == At("media", "print", "")
Screens1 == At("tailwind", "s1", "screens")
Screens2 == At("tailwind", "s2", "screens")
Other   == At("tailwind", "o", "components")

MCInputTrees ==
  { \* one block, no explicit site: appended
    (Root :> <<Body, Resp1, Other>>) @@ (Resp1 :> <<Flex, Item>>),
    \* a top-level and a nested block, explicit site at the end
    (Root :> <<Resp1, PrintMedia, Screens1>>) @@ (Resp1 :> <<Flex>>)
      @@ (PrintMedia :> <<Resp2, Body>>) @@ (Resp2 :> <<Pair>>),
    \* two explicit sites, the second nested
    (Root :> <<Screens1, Resp1, PrintMedia>>) @@ (Resp1 :> <<Item>>)
      @@ (PrintMedia :> <<Screens2, Body>>),
    \* a rule without a class
    (Root :> <<Resp1, Screens1>>) @@ (Resp1 :> <<Flex, Plain>>),
    \* an empty block: nothing is emitted, the site stays
    (Root :> <<Body, Screens1, Resp1>>) @@ (Resp1 :> <<>>),
    \* no block at all
    (Root :> <<Body, PrintMedia>>) @@ (PrintMedia :> <<Flex>>) }

\* An @responsive block nested in another.
MCNestedTrees ==
  { (Root :> <<Resp1, Screens1>>) @@ (Resp1 :> <<Resp2, Flex>>) @@ (Resp2 :> <<Item>>) }

MCScreenConfigs == { <<>>, <<"sm">>, <<"sm", "md">>, <<"md", "sm">> }

\* No key is an array index.
MCArrayIndexValue == [n \in {} |-> 0]

\* Breakpoints named by their width, declared widest first.
MCNumericScreenConfigs == { <<"lg", "1024", "640">> }

MCNumericArrayIndexValue == ("1024" :> 1024) @@ ("640" :> 640)

MCSeparator == ":"

=============================================================================
