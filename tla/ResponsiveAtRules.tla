-------------------------- MODULE ResponsiveAtRules --------------------------
(***************************************************************************)
(* lib/substituteResponsiveAtRules.js.  The plugin                         *)
(*   1. walks the @responsive at-rules: it appends clones of each one's    *)
(*      children to responsiveRules, moves the children out in front of    *)
(*      the at-rule and removes it;                                        *)
(*   2. for each key of theme.screens builds an @media at-rule holding a   *)
(*      clone of responsiveRules with every selector rewritten by          *)
(*      buildSelectorVariant, whose onError throws;                        *)
(*   3. returns if no @media at-rule has children;                         *)
(*   4. walks the `@tailwind` at-rules, replacing each `screens` one with  *)
(*      the @media at-rules;                                               *)
(*   5. appends them to the stylesheet if step 4 replaced nothing.         *)
(* Both walks rewrite the tree under their own cursor; they are modelled   *)
(* one visit per step with the cursor bookkeeping of CssTree.              *)
(***************************************************************************)
EXTENDS CssTree, SelectorVariant

CONSTANTS
  InputTrees,      \* the stylesheets the pass may be given
  ScreenConfigs,   \* the keys of theme.screens, in declared order
  ArrayIndexValue, \* [keys that are canonical array indices -> their value]
  Separator,       \* config.separator
  NoNode           \* err before any error

VARIABLES
  input,           \* the stylesheet the pass was given (history)
  screens,         \* the keys of theme.screens in declared order
  tree,            \* the stylesheet as the pass rewrites it
  stack,           \* cursors of the walk in progress
  phase,           \* "collect", "build", "place", "placed", "done", "failed"
  responsiveRules, \* the collected rules
  pending,         \* the screens whose @media at-rule is still to build
  finalRules,      \* the @media at-rules built so far
  explicit,        \* includesScreensExplicitly
  err              \* the rule whose error was thrown

vars == <<input, screens, tree, stack, phase, responsiveRules, pending,
          finalRules, explicit, err>>

Lib == [tree |-> tree, stack |-> stack]

SetLib(st) == tree' = st.tree /\ stack' = st.stack

IsTailwind(n, p) == n.type = "tailwind" /\ n.params = p

\* _.keys(screens): JavaScript enumerates the keys that are array indices
\* first, in ascending numeric order, then the other keys in insertion
\* order.
Keys(decl) ==
  SetToSortSeq({n \in ToSet(decl) : n \in DOMAIN ArrayIndexValue},
               LAMBDA a, b : ArrayIndexValue[a] < ArrayIndexValue[b])
  \o SelectSeq(decl, LAMBDA n : n \notin DOMAIN ArrayIndexValue)

\* The node each walk hands to its callback.
Matches(x) ==
  IF phase = "collect" THEN x.type = "responsive" ELSE IsTailwind(x, "screens")

Init ==
  /\ input \in InputTrees
  /\ screens \in ScreenConfigs
  /\ tree = input
  /\ stack = <<[c |-> Root, i |-> 1]>>
  /\ phase = "collect"
  /\ responsiveRules = <<>>
  /\ pending = <<>>
  /\ finalRules = <<>>
  /\ explicit = FALSE
  /\ err = NoNode

\* Fault variant (PROJECT.json mutants): the @responsive at-rule itself is
\* collected instead of its children.
CollectResponsiveAtRule ==
  LET x == Current(Lib) IN
  /\ phase = "collect"
  /\ CanVisit(Lib)
  /\ Matches(x)
  /\ responsiveRules' = Append(responsiveRules, x)
  /\ SetLib(Descend(ReplaceNode(Lib, x, tree[x]), x))
  /\ UNCHANGED <<input, screens, phase, pending, finalRules, explicit, err>>

\* css.walkAtRules('responsive', atRule => {
\*   responsiveRules.append(...cloneNodes(atRule.nodes));
\*   atRule.before(atRule.nodes); atRule.remove(); })
CollectResponsive ==
  LET x == Current(Lib) IN
  /\ phase = "collect"
  /\ CanVisit(Lib)
  /\ Matches(x)
  /\ responsiveRules' = responsiveRules \o tree[x]
  /\ SetLib(Descend(ReplaceNode(Lib, x, tree[x]), x))
  /\ UNCHANGED <<input, screens, phase, pending, finalRules, explicit, err>>

\* atRule.replaceWith(finalRules); includesScreensExplicitly = true
PlaceScreens ==
  LET x == Current(Lib) IN
  /\ phase = "place"
  /\ CanVisit(Lib)
  /\ Matches(x)
  /\ SetLib(Descend(ReplaceNode(Lib, x, finalRules), x))
  /\ explicit' = TRUE
  /\ UNCHANGED <<input, screens, phase, responsiveRules, pending, finalRules, err>>

\* A node the walk's filter passes over: the walk goes on into it.
WalkOther ==
  LET x == Current(Lib) IN
  /\ phase \in {"collect", "place"}
  /\ CanVisit(Lib)
  /\ ~Matches(x)
  /\ SetLib(Descend(Lib, x))
  /\ UNCHANGED <<input, screens, phase, responsiveRules, pending, finalRules,
                 explicit, err>>

\* The iteration over a container ends; the end of the root's iteration
\* ends the walk.
EndContainer ==
  /\ phase \in {"collect", "place"}
  /\ CanPop(Lib)
  /\ SetLib(WalkPop(Lib))
  /\ IF Len(stack) = 1
     THEN /\ phase' = IF phase = "collect" THEN "build" ELSE "placed"
          /\ pending' = IF phase = "collect" THEN Keys(screens) ELSE pending
     ELSE UNCHANGED <<phase, pending>>
  /\ UNCHANGED <<input, screens, responsiveRules, finalRules, explicit, err>>

\* The @media at-rule of screen s: responsiveRules.clone() with
\* rule.selectors = rule.selectors.map(buildSelectorVariant(_, s, separator)).
ScreenRules(s) ==
  [k \in 1..Len(responsiveRules) |->
     [responsiveRules[k] EXCEPT !.sel =
        [j \in DOMAIN responsiveRules[k].sel |->
           BuildSelectorVariant(responsiveRules[k].sel[j], s, Separator)]]]

MediaQuery(s) == [type |-> "media", name |-> s, params |-> "", sel |-> <<>>]

\* Rules with a selector buildSelectorVariant rejects.
Rejected == { k \in 1..Len(responsiveRules) :
                \E j \in DOMAIN responsiveRules[k].sel :
                  VariantError(responsiveRules[k].sel[j]) }

\* One iteration of _.keys(screens).forEach: the @media at-rule of the
\* next screen, with every selector rewritten.
BuildScreen ==
  LET s == Head(pending) IN
  /\ phase = "build"
  /\ pending # <<>>
  /\ Rejected = {}
  /\ tree' = tree @@ (MediaQuery(s) :> ScreenRules(s))
  /\ finalRules' = Append(finalRules, MediaQuery(s))
  /\ pending' = Tail(pending)
  /\ UNCHANGED <<input, screens, stack, phase, responsiveRules, explicit, err>>

\* onError: message => { throw rule.error(message) }: the walkRules over
\* the clone stops at the first rule with a selector without a class, and
\* so does the build.
RejectSelector ==
  /\ phase = "build"
  /\ pending # <<>>
  /\ Rejected # {}
  /\ phase' = "failed"
  /\ err' = responsiveRules[Min(Rejected)]
  /\ UNCHANGED <<input, screens, tree, stack, responsiveRules, pending,
                 finalRules, explicit>>

HasScreenRules == \E k \in 1..Len(finalRules) : tree[finalRules[k]] # <<>>

\* if (!hasScreenRules) return;
SkipPlacement ==
  /\ phase = "build"
  /\ pending = <<>>
  /\ ~HasScreenRules
  /\ phase' = "done"
  /\ UNCHANGED <<input, screens, tree, stack, responsiveRules, pending,
                 finalRules, explicit, err>>

\* css.walkAtRules('tailwind', ...) starts.
StartPlacement ==
  /\ phase = "build"
  /\ pending = <<>>
  /\ HasScreenRules
  /\ phase' = "place"
  /\ stack' = <<[c |-> Root, i |-> 1]>>
  /\ UNCHANGED <<input, screens, tree, responsiveRules, pending, finalRules,
                 explicit, err>>

\* if (!includesScreensExplicitly) { css.append(finalRules); return; }
AppendScreens ==
  /\ phase = "placed"
  /\ ~explicit
  /\ SetLib(AppendNodes(Lib, Root, finalRules))
  /\ phase' = "done"
  /\ UNCHANGED <<input, screens, responsiveRules, pending, finalRules, explicit, err>>

KeepExplicitPlacement ==
  /\ phase = "placed"
  /\ explicit
  /\ phase' = "done"
  /\ UNCHANGED <<input, screens, tree, stack, responsiveRules, pending,
                 finalRules, explicit, err>>

Next ==
  \/ CollectResponsive
  \/ PlaceScreens
  \/ WalkOther
  \/ EndContainer
  \/ BuildScreen
  \/ RejectSelector
  \/ SkipPlacement
  \/ StartPlacement
  \/ AppendScreens
  \/ KeepExplicitPlacement

\* No fairness: the pass is checked for safety; the walks are bounded by the
\* nodes of the input (see TailwindAtRules!WalkVisitsInputOnce).
Spec == Init /\ [][Next]_vars

-----------------------------------------------------------------------------

ScreenBlocks == { MediaQuery(s) : s \in ToSet(screens) }

TypeOK ==
  /\ phase \in {"collect", "build", "place", "placed", "done", "failed"}
  /\ DOMAIN tree = DOMAIN input \cup ToSet(finalRules)
  /\ \A k \in DOMAIN stack :
       /\ stack[k].c \in DOMAIN tree
       /\ stack[k].i \in 1..(Len(tree[stack[k].c]) + 1)
  /\ responsiveRules \in Seq({ n \in InTree(input) : n.type = "rule" })
  /\ IsSuffix(pending, Keys(screens))
  /\ finalRules \in Seq(ScreenBlocks)
  /\ explicit \in BOOLEAN

(***************************************************************************)
(* Refinement: the two walks, the per-screen build and the placement,      *)
(* mutating the stylesheet in place, produce the stylesheet that           *)
(* ResponsiveExpansion specifies in one step (rules unwrapped in place,    *)
(* one @media block per breakpoint in declared order with the last class  *)
(* of every selector prefixed, placed at the explicit `@tailwind screens`  *)
(* site or appended) and fail exactly when it says the build aborts.       *)
(***************************************************************************)
Abstract == INSTANCE ResponsiveExpansion WITH
  src     <- input,
  screens <- screens,
  out     <- IF phase = "done" THEN Render(tree, Root) ELSE Render(input, Root),
  state   <- CASE phase = "done"   -> "done"
               [] phase = "failed" -> "failed"
               [] OTHER            -> "pending"

ExpansionRefinement == Abstract!Spec

(***************************************************************************)
(* spec.md 4.4 step 3 and 7: a selector with no class is reported through  *)
(* the error callback and left unrewritten; it never aborts the expansion. *)
(* The callback passed by substituteResponsiveAtRules throws.              *)
(***************************************************************************)
SelectorErrorIsLocal == phase # "failed"

(***************************************************************************)
(* spec.md 3 "Breakpoint" and 4.4 step 5: the @media blocks of the output  *)
(* follow the declared order of theme.screens, never a sorted one.         *)
(***************************************************************************)
BreakpointsInDeclaredOrder ==
  LET emitted == SelectSeq(PreOrder(tree, Root), LAMBDA n : n \in ScreenBlocks)
  IN phase = "done" /\ emitted # <<>> =>
       [k \in DOMAIN emitted |-> emitted[k].name] = screens

(***************************************************************************)
(* spec.md 4.4 step 1: every @responsive block is unwrapped, so none is    *)
(* left in the stylesheet the pass produces.  The collecting walk moves a  *)
(* block's children in front of its cursor (atRule.before(nodes)).         *)
(***************************************************************************)
ResponsiveBlocksUnwrapped ==
  phase = "done" =>
    \A k \in DOMAIN PreOrder(tree, Root) : PreOrder(tree, Root)[k].type # "responsive"

=============================================================================
