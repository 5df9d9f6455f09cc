------------------------------ MODULE Pipeline ------------------------------
(***************************************************************************)
(* processTailwindFeatures.js: one build runs the postcss plugins          *)
(*   substituteTailwindAtRules, evaluateTailwindFunctions,                 *)
(*   substituteVariantsAtRules, substituteResponsiveAtRules,               *)
(*   substituteScreenAtRules, substituteClassApplyAtRules                  *)
(* in that order over one stylesheet root; postcss starts a plugin when    *)
(* the one before it has returned, and a plugin that throws rejects the    *)
(* build, so the later plugins never run.                                  *)
(*                                                                         *)
(* The two passes of this repository are composed here: TailwindAtRules   *)
(* and ResponsiveAtRules, each with its own walk.  The others are not in  *)
(* the repository; over the stylesheets of the model, which have no       *)
(* theme() call, no @variants, @screen or @apply, they leave the tree as   *)
(* it is.  The generated nodes are taken in the form substituteVariants-   *)
(* AtRules leaves them: a utility whose variants include responsive sits   *)
(* in an @responsive block.                                                *)
(***************************************************************************)
EXTENDS CssTree

CONSTANTS
  Generated, InputTrees, NoSource, NoNode,
  ScreenConfigs, ArrayIndexValue, Separator

VARIABLES
  \* substituteTailwindAtRules (TailwindAtRules)
  input, tree, stack, status, source, err, visited,
  \* substituteResponsiveAtRules (ResponsiveAtRules); the stylesheet it is
  \* given is the tree substituteTailwindAtRules left
  screens, rtree, rstack, phase, responsiveRules, pending, finalRules,
  explicit, rerr

tvars == <<input, tree, stack, status, source, err, visited>>

rvars == <<screens, rtree, rstack, phase, responsiveRules, pending,
           finalRules, explicit, rerr>>

vars == <<tvars, rvars>>

T == INSTANCE TailwindAtRules

R == INSTANCE ResponsiveAtRules WITH
  input <- tree, tree <- rtree, stack <- rstack, err <- rerr

\* The responsive pass has not started: phase "pending".
Init ==
  /\ T!Init
  /\ screens \in ScreenConfigs
  /\ rtree = input
  /\ rstack = <<>>
  /\ phase = "pending"
  /\ responsiveRules = <<>>
  /\ pending = <<>>
  /\ finalRules = <<>>
  /\ explicit = FALSE
  /\ rerr = NoNode

\* A step of substituteTailwindAtRules' walk.
TailwindStep == T!Next /\ UNCHANGED rvars

\* Fault variant (PROJECT.json mutants): the chain goes on with the next
\* plugin after one has thrown.
HandoffAfterFailure ==
  /\ status \in {"done", "failed"}
  /\ phase = "pending"
  /\ rtree' = tree
  /\ rstack' = <<[c |-> Root, i |-> 1]>>
  /\ phase' = "collect"
  /\ UNCHANGED <<tvars, screens, responsiveRules, pending, finalRules,
                 explicit, rerr>>

\* postcss([...]).process(css): substituteTailwindAtRules has returned
\* without throwing; the plugins up to substituteResponsiveAtRules run on
\* the same root, which it starts walking.
Handoff ==
  /\ status = "done"
  /\ phase = "pending"
  /\ rtree' = tree
  /\ rstack' = <<[c |-> Root, i |-> 1]>>
  /\ phase' = "collect"
  /\ UNCHANGED <<tvars, screens, responsiveRules, pending, finalRules,
                 explicit, rerr>>

\* A step of substituteResponsiveAtRules.
ResponsiveStep == R!Next /\ UNCHANGED tvars

Next == TailwindStep \/ Handoff \/ ResponsiveStep

\* No fairness, as for each pass (TailwindAtRules, ResponsiveAtRules).
Spec == Init /\ [][Next]_vars

-----------------------------------------------------------------------------

TypeOK ==
  /\ T!TypeOK
  /\ screens \in ScreenConfigs
  /\ phase = "pending" \/ R!TypeOK

(***************************************************************************)
(* Refinement of the substituting pass, inside the build: the walk of      *)
(* substituteTailwindAtRules replaces every category marker in place by    *)
(* its category's nodes with the marker's source and rejects preflight.    *)
(* (TailwindAtRules!SubstitutionRefinement; the later plugins never touch *)
(* its variables.)                                                         *)
(***************************************************************************)
SubstitutionRefinement == T!SubstitutionRefinement

(***************************************************************************)
(* The substituting walk calls back on every node of the stylesheet it was *)
(* given exactly once, in document order, and never on a node it          *)
(* inserted (TailwindAtRules!WalkVisitsInputOnce).                         *)
(***************************************************************************)
WalkVisitsInputOnce == T!WalkVisitsInputOnce

(***************************************************************************)
(* Refinement of the whole build: the two passes, each rewriting the tree  *)
(* under its own walk, run in the order of processTailwindFeatures.js and  *)
(* produce the responsive expansion of the directive substitution; the     *)
(* @tailwind screens site the first pass leaves alone is where the second *)
(* puts the @media blocks, generated utilities in @responsive blocks get   *)
(* their breakpoint copies, and a throw in either pass fails the build.    *)
(***************************************************************************)
Features == INSTANCE TailwindFeatures WITH
  src   <- input,
  out   <- IF phase = "done" THEN Render(rtree, Root) ELSE Render(input, Root),
  state <- CASE phase = "done"                       -> "done"
             [] status = "failed" \/ phase = "failed" -> "failed"
             [] OTHER                                -> "pending"

FeaturesRefinement == Features!Spec

=============================================================================
