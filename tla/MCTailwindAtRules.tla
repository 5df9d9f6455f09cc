------------------------- MODULE MCTailwindAtRules -------------------------
(***************************************************************************)
(* Model for TailwindAtRules.  The stylesheet has two ordinary rules, a    *)
(* @media container and three @tailwind markers, two at the top level and  *)
(* one inside the container, each naming any of the directives; the         *)
(* components category generates no node, the utilities category two.     *)
(***************************************************************************)
EXTENDS TailwindAtRules

Node(t, nm, p) == [type |-> t, name |-> nm, params |-> p, sel |-> <<>>]

MCGenerated ==
  [base       |-> <<Node("rule", "preflight-reset", "")>>,
   components |-> <<>>,
   utilities  |-> <<Node("rule", "flex", ""), Node("rule", "hidden", "")>>]

Directives == {"base", "components", "utilities", "preflight", "screens"}

Media == Node("media", "print", "")

TreeOf(p1, p2, p3) ==
  (Root  :> <<Node("rule", "a", ""), Node("tailwind", "t1", p1), Media,
              Node("tailwind", "t2", p2), Node("rule", "b", "")>>) @@
  (Media :> <<Node("tailwind", "t3", p3)>>)

AllTrees == { TreeOf(p1, p2, p3) : p1, p2, p3 \in Directives }

\* The spec's one-to-one promise presumes one marker per category.
OneMarkerPerCategory(t) ==
  \A cat \in DOMAIN MCGenerated :
    \A m1, m2 \in InTree(t) : IsTailwind(m1, cat) /\ IsTailwind(m2, cat) => m1 = m2

MCInputTrees == { t \in AllTrees : OneMarkerPerCategory(t) }

\* Stylesheets that name the same category twice.
MCDuplicateTrees == { t \in AllTrees : ~OneMarkerPerCategory(t) }

=============================================================================
