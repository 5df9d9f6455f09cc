--------------------------- MODULE TailwindFeatures ---------------------------
(***************************************************************************)
(* What the feature pipeline promises (spec.md 4.3 "Order", 4.4, 5): one   *)
(* build takes the stylesheet to the responsive expansion of its directive *)
(* substitution.  Substitution completes before expansion starts, so        *)
(* generated nodes that sit in a responsive block are expanded like the     *)
(* user's own.  A build that fails in either pass produces no output.      *)
(***************************************************************************)
EXTENDS CssTree

CONSTANTS
  Generated,      \* [category -> Seq(node)]: processPlugins' output
  InputTrees,     \* the stylesheets a build may be given
  NoSource,       \* source of a node no directive has placed
  ScreenConfigs,  \* the breakpoint names of theme.screens, in declared order
  Separator       \* config.separator

VARIABLES src, screens, out, state

Substitution == INSTANCE DirectiveSubstitution WITH
  doc <- src, attributed <- [n \in {} |-> NoSource]

Expansion == INSTANCE ResponsiveExpansion

\* The stylesheet the expansion pass is given.
Intermediate == Substitution!Substituted(src)

BuildFails ==
  Substitution!HasPreflight(src) \/ Expansion!Fails(Intermediate, screens)

Init ==
  /\ src \in InputTrees
  /\ screens \in ScreenConfigs
  /\ out = Render(src, Root)
  /\ state = "pending"

Process ==
  /\ state = "pending"
  /\ ~BuildFails
  /\ out' = Render(Expansion!Expanded(Intermediate, screens), Root)
  /\ state' = "done"
  /\ UNCHANGED <<src, screens>>

Abort ==
  /\ state = "pending"
  /\ BuildFails
  /\ state' = "failed"
  /\ UNCHANGED <<src, screens, out>>

Next == Process \/ Abort

Spec == Init /\ [][Next]_<<src, screens, out, state>>

=============================================================================
