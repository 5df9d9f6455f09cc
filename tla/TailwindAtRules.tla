--------------------------- MODULE TailwindAtRules ---------------------------
(***************************************************************************)
(* lib/substituteTailwindAtRules.js: the plugin walks every `@tailwind`     *)
(* at-rule of the stylesheet with css.walkAtRules and, inside the walk,    *)
(* replaces each category marker by the category's generated nodes         *)
(* (atRule.before(updateSource(nodes, atRule.source)); atRule.remove()),   *)
(* or throws on `@tailwind preflight`.  The walk is modelled one visit per *)
(* step, with the cursor bookkeeping of CssTree, because the tree is        *)
(* mutated while it is being walked.                                        *)
(***************************************************************************)
EXTENDS CssTree

CONSTANTS
  Generated,    \* [category -> Seq(node)]: processPlugins' base/components/utilities
  InputTrees,   \* the stylesheets the pass may be given
  NoSource,     \* source of a node no directive has placed
  NoNode        \* err before any error

VARIABLES
  input,        \* the stylesheet the pass was given (history, never changes)
  tree,         \* the stylesheet as the pass rewrites it
  stack,        \* cursors of the walk, innermost last
  status,       \* "walking", "done" or "failed"
  source,       \* node.source of each generated node
  err,          \* the at-rule whose error was thrown
  visited       \* the nodes the walk has visited, in order (history)

vars == <<input, tree, stack, status, source, err, visited>>

Categories == DOMAIN Generated

GeneratedNodes == UNION { ToSet(Generated[cat]) : cat \in Categories }

Lib == [tree |-> tree, stack |-> stack]

IsTailwind(n, p) == n.type = "tailwind" /\ n.params = p

Init ==
  /\ input \in InputTrees
  /\ tree = input
  /\ stack = <<[c |-> Root, i |-> 1]>>
  /\ status = "walking"
  /\ source = [n \in GeneratedNodes |-> NoSource]
  /\ err = NoNode
  /\ visited = <<>>

\* The library state after a visit, written back to the variables.
SetLib(st) == tree' = st.tree /\ stack' = st.stack

\* if (atRule.params === 'preflight') throw atRule.error(...): the walk and
\* the whole build stop; what was already substituted stays substituted.
RejectPreflight ==
  /\ status = "walking"
  /\ CanVisit(Lib)
  /\ IsTailwind(Current(Lib), "preflight")
  /\ status' = "failed"
  /\ err' = Current(Lib)
  /\ visited' = Append(visited, Current(Lib))
  /\ UNCHANGED <<input, tree, stack, source>>

\* Fault variant (PROJECT.json mutants): the nodes get the source of the
\* marker's parent instead of the marker's own.
UpdateSourceFromParent(nodes, marker) ==
  [n \in GeneratedNodes |-> IF Contains(nodes, n) THEN ParentOf(tree, marker) ELSE source[n]]

\* updateSource(nodes, atRule.source): every generated node of the
\* category now carries the marker's source.
UpdateSource(nodes, marker) ==
  [n \in GeneratedNodes |-> IF Contains(nodes, n) THEN marker ELSE source[n]]

\* Fault variant (PROJECT.json mutants): the generated nodes are inserted
\* but the marker is never removed.
SubstituteDirectiveKeepingMarker ==
  LET x == Current(Lib) IN
  /\ status = "walking"
  /\ CanVisit(Lib)
  /\ x.type = "tailwind"
  /\ x.params \in Categories
  /\ source' = UpdateSource(Generated[x.params], x)
  /\ SetLib(Descend(InsertBefore(Lib, ParentOf(tree, x), x, Generated[x.params]), x))
  /\ visited' = Append(visited, x)
  /\ UNCHANGED <<input, status, err>>

\* if (atRule.params === 'base' | 'components' | 'utilities'):
\*   atRule.before(updateSource(pluginX, atRule.source)); atRule.remove();
SubstituteDirective ==
  LET x == Current(Lib) IN
  /\ status = "walking"
  /\ CanVisit(Lib)
  /\ x.type = "tailwind"
  /\ x.params \in Categories
  /\ source' = UpdateSource(Generated[x.params], x)
  /\ SetLib(Descend(ReplaceNode(Lib, x, Generated[x.params]), x))
  /\ visited' = Append(visited, x)
  /\ UNCHANGED <<input, status, err>>

\* Any other node: walkAtRules('tailwind') does not call the callback on
\* it (or calls it on an unknown `@tailwind` marker, which no branch
\* matches); the walk goes on into its children.
VisitOther ==
  LET x == Current(Lib) IN
  /\ status = "walking"
  /\ CanVisit(Lib)
  /\ ~(x.type = "tailwind" /\ x.params \in Categories \cup {"preflight"})
  /\ SetLib(Descend(Lib, x))
  /\ visited' = Append(visited, x)
  /\ UNCHANGED <<input, status, source, err>>

\* Fault variant (PROJECT.json mutants): the enclosing iteration's cursor
\* is not advanced past the container whose iteration ended.
EndContainerWithoutAdvance ==
  /\ status = "walking"
  /\ CanPop(Lib)
  /\ stack' = Front(stack)
  /\ UNCHANGED tree
  /\ status' = IF Len(stack) = 1 THEN "done" ELSE "walking"
  /\ UNCHANGED <<input, source, err, visited>>

\* The iteration over a container ends; when the root's ends, so does the
\* pass.
EndContainer ==
  /\ status = "walking"
  /\ CanPop(Lib)
  /\ SetLib(WalkPop(Lib))
  /\ status' = IF Len(stack) = 1 THEN "done" ELSE "walking"
  /\ UNCHANGED <<input, source, err, visited>>

Next ==
  \/ RejectPreflight
  \/ SubstituteDirective
  \/ VisitOther
  \/ EndContainer

\* No fairness: that the pass runs to its end is checked as a safety
\* property (WalkVisitsInputOnce), which bounds the number of its steps.
Spec == Init /\ [][Next]_vars

-----------------------------------------------------------------------------

TypeOK ==
  /\ tree \in [DOMAIN input -> Seq(InTree(input) \cup GeneratedNodes)]
  /\ \A k \in DOMAIN stack :
       /\ stack[k].c \in DOMAIN input
       /\ stack[k].i \in 1..(Len(tree[stack[k].c]) + 1)
  /\ status \in {"walking", "done", "failed"}
  /\ source \in [GeneratedNodes -> InTree(input) \cup {NoSource}]

(***************************************************************************)
(* Refinement: the walk that rewrites the tree in place implements the     *)
(* one-step substitution of DirectiveSubstitution.  The abstract tree is    *)
(* the input until the walk has finished, and the rewritten tree after.    *)
(* This is the property that every category marker, wherever it sits      *)
(* (also inside a container, also after an earlier marker moved nodes      *)
(* around the cursor), ends up replaced in place by its category's nodes,  *)
(* that the nodes carry that marker's source, and that the pass fails      *)
(* exactly when a preflight marker is present.                             *)
(***************************************************************************)
Abstract == INSTANCE DirectiveSubstitution WITH
  doc        <- IF status = "done" THEN tree ELSE input,
  state      <- IF status = "walking" THEN "pending" ELSE status,
  attributed <- IF status = "done" THEN source
                ELSE [n \in GeneratedNodes |-> NoSource]

SubstitutionRefinement == Abstract!Spec

(***************************************************************************)
(* The walk sees the stylesheet it was given, not the one it is writing:   *)
(* it calls back on every node of the input exactly once, in document      *)
(* order, and never on a node it inserted.  A walk that rewrites the tree  *)
(* under its own cursor could revisit a marker (and loop), skip the node   *)
(* after one, or process generated nodes; each visit step appends to      *)
(* visited, so this also bounds the pass: it ends after at most one visit  *)
(* per input node and one pop per container.                              *)
(***************************************************************************)
WalkVisitsInputOnce ==
  /\ IsPrefix(visited, PreOrder(input, Root))
  /\ status = "done" => visited = PreOrder(input, Root)

=============================================================================
