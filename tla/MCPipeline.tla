------------------------------ MODULE MCPipeline ------------------------------
(***************************************************************************)
(* Model for Pipeline.  The stylesheet is that of MCTailwindAtRules (two   *)
(* rules, a @media container, three @tailwind markers, two at the top      *)
(* level and one in the container, each naming any directive, no category *)
(* twice) with a user @responsive block at the end, holding .btn:hover and *)
(* possibly div:not(.x), whose missing class makes the second pass throw.  *)
(* The utilities category generates a plain rule and an @responsive block, *)
(* as a utility with and one without the responsive variant; components    *)
(* generates nothing.  Breakpoint lists of zero, one and two screens.      *)
(***************************************************************************)
EXTENDS Pipeline

Cls(v)    == [t |-> "class", v |-> <<v>>]
Tag(v)    == [t |-> "tag", v |-> <<v>>]
Pseudo(v) == [t |-> "pseudo", v |-> <<v>>]

Rule(nm, sels) == [type |-> "rule", name |-> nm, params |-> "", sel |-> sels]
At(t, nm, p)   == [type |-> t, name |-> nm, params |-> p, sel |-> <<>>]

\* html  (a base rule)
Reset   == Rule("reset", << <<Tag("html")>> >>)
\* .flex
Flex    == Rule("flex", << <<Cls("flex")>> >>)
\* .hidden, inside @responsive
Hidden  == Rule("hidden", << <<Cls("hidden")>> >>)
HiddenVariants == At("responsive", "hidden-variants", "")

MCGenerated ==
  [base       |-> <<Reset>>,
   components |-> <<>>,
   utilities  |-> <<Flex, HiddenVariants>>]

Directives == {"base", "components", "utilities", "preflight", "screens"}

Body    == Rule("body", << <<Tag("body")>> >>)
\* .btn:hover, inside the user's @responsive block
Btn     == Rule("btn", << <<Cls("btn"), Pseudo("hover")>> >>)
PrintMedia   == At("media", "print", "")
\* div:not(.x), whose selector has no class
Plain   == Rule("plain", << <<Tag("div"), Pseudo("not(.x)")>> >>)
UserResponsive == At("responsive", "user", "")

\* The generated @responsive block exists, with its rule, before the pass
\* places it.
TreeOf(p1, p2, p3, user) ==
  (Root  :> <<Body, At("tailwind", "t1", p1), PrintMedia,
              At("tailwind", "t2", p2), UserResponsive>>)
  @@ (PrintMedia :> <<At("tailwind", "t3", p3)>>)
  @@ (UserResponsive :> user)
  @@ (HiddenVariants :> <<Hidden>>)

IsMarkerOf(n, cat) == n.type = "tailwind" /\ n.params = cat

\* The spec's one-to-one promise presumes one marker per category.
OneMarkerPerCategory(t) ==
  \A cat \in DOMAIN MCGenerated :
    \A m1, m2 \in InTree(t) : IsMarkerOf(m1, cat) /\ IsMarkerOf(m2, cat) => m1 = m2

\* spec.md 4.4 step 4 replaces "that single site".  Sites in different
\* containers are kept; two in one container are not (see the hazard on
\* substituteResponsiveAtRules.js:64 in PROJECT.json).
OneScreensSitePerContainer(t) ==
  \A c \in DOMAIN t :
    \A i, j \in DOMAIN t[c] :
      IsMarkerOf(t[c][i], "screens") /\ IsMarkerOf(t[c][j], "screens") => i = j

MCInputTrees ==
  { t \in { TreeOf(p1, p2, p3, user) :
               p1, p2, p3 \in Directives, user \in {<<Btn>>, <<Btn, Plain>>} } :
      OneMarkerPerCategory(t) /\ OneScreensSitePerContainer(t) }

MCScreenConfigs == { <<>>, <<"sm">>, <<"sm", "md">> }

\* No key is an array index.
MCArrayIndexValue == [n \in {} |-> 0]

MCSeparator == ":"

=============================================================================
