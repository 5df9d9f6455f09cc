------------------------- MODULE DirectiveSubstitution -------------------------
(***************************************************************************)
(* What the directive substituter promises (spec.md 4.3, 3 "Category       *)
(* Marker"): in one pass, every `@tailwind base|components|utilities`       *)
(* marker is replaced, in place and one-to-one, by the generated nodes of   *)
(* its category, each generated node carrying the marker's source          *)
(* location; any other marker is left untouched; a `@tailwind preflight`   *)
(* marker anywhere aborts the build.                                        *)
(***************************************************************************)
EXTENDS CssTree

CONSTANTS
  Generated,    \* [category -> Seq(node)]: processPlugins' output per category
  InputTrees,   \* the stylesheets the pass may be given
  NoSource      \* source of a node no directive has placed

Categories == DOMAIN Generated

GeneratedNodes == UNION { ToSet(Generated[cat]) : cat \in Categories }

CategoryOf(n) == CHOOSE cat \in Categories : Contains(Generated[cat], n)

IsMarker(n, p) == n.type = "tailwind" /\ n.params = p

IsCategoryMarker(n) == n.type = "tailwind" /\ n.params \in Categories

HasPreflight(doc) == \E n \in InTree(doc) : IsMarker(n, "preflight")

\* Each category marker replaced in place by its category's nodes.
Substituted(doc) ==
  [c \in DOMAIN doc |->
     FlattenSeq([k \in 1..Len(doc[c]) |->
                   IF IsCategoryMarker(doc[c][k])
                   THEN Generated[doc[c][k].params]
                   ELSE <<doc[c][k]>>])]

\* The source each generated node carries: the marker of its category.
Attribution(doc) ==
  [n \in GeneratedNodes |->
     IF \E m \in InTree(doc) : IsMarker(m, CategoryOf(n))
     THEN CHOOSE m \in InTree(doc) : IsMarker(m, CategoryOf(n))
     ELSE NoSource]

VARIABLES doc, state, attributed

Init ==
  /\ doc \in InputTrees
  /\ state = "pending"
  /\ attributed = [n \in GeneratedNodes |-> NoSource]

Substitute ==
  /\ state = "pending"
  /\ ~HasPreflight(doc)
  /\ doc' = Substituted(doc)
  /\ attributed' = Attribution(doc)
  /\ state' = "done"

Reject ==
  /\ state = "pending"
  /\ HasPreflight(doc)
  /\ state' = "failed"
  /\ UNCHANGED <<doc, attributed>>

Next == Substitute \/ Reject

Spec == Init /\ [][Next]_<<doc, state, attributed>>

=============================================================================
