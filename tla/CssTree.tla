------------------------------ MODULE CssTree ------------------------------
(***************************************************************************)
(* The stylesheet tree the Tailwind passes rewrite, and the container      *)
(* operations of the external postcss library that they call.  postcss is  *)
(* not part of this repository; these operators state its container        *)
(* contract as the passes rely on it:                                      *)
(*   - a node has at most one parent: inserting a node that already sits  *)
(*     in the tree first detaches it from its old parent;                  *)
(*   - a walk over a container keeps one cursor per active iteration, and *)
(*     insertions and removals in that container shift the cursors at or  *)
(*     after the changed position, so that the walk neither revisits nor  *)
(*     skips the nodes that were there before the change.                  *)
(*                                                                         *)
(* A tree is a function from containers (the root and every container      *)
(* at-rule that ever existed) to the sequence of its children.  A walk is  *)
(* a stack of frames [c |-> container, i |-> cursor], innermost last.       *)
(* Nodes are records [type, name, params, sel]; the contents of a node     *)
(* that is a container are in the tree, not in the record.                 *)
(***************************************************************************)
EXTENDS Integers, Sequences, SequencesExt

Root == [type |-> "root", name |-> "root", params |-> "", sel |-> <<>>]

\* Every node that currently sits in the tree.
InTree(tree) == UNION { ToSet(tree[c]) : c \in DOMAIN tree }

\* The container of a node that sits in the tree.
ParentOf(tree, n) == CHOOSE c \in DOMAIN tree : Contains(tree[c], n)

\* Position of n in a sequence that contains it.
IndexOf(s, n) == SelectInSeq(s, LAMBDA x : x = n)

\* A state of the library: the tree and the cursors of the active walk.
\* Container.removeChild: drop the child and pull back the cursors at or
\* after it.
RemoveChild(st, c, p) ==
  [tree  |-> [st.tree EXCEPT ![c] = RemoveAt(@, p)],
   stack |-> [k \in DOMAIN st.stack |->
                IF st.stack[k].c = c /\ st.stack[k].i >= p
                THEN [st.stack[k] EXCEPT !.i = @ - 1]
                ELSE st.stack[k]]]

\* Node.remove(): detach n from its parent, if it has one.
Detach(st, n) ==
  IF n \in InTree(st.tree)
  THEN RemoveChild(st, ParentOf(st.tree, n), IndexOf(st.tree[ParentOf(st.tree, n)], n))
  ELSE st

RECURSIVE DetachAll(_, _)
DetachAll(st, ns) ==
  IF ns = <<>> THEN st ELSE DetachAll(Detach(st, Head(ns)), Tail(ns))

\* Container.insertBefore(exist, ns) of postcss 7, which Node.before(ns)
\* calls on the parent: exist's index p is taken first; normalize then
\* detaches every node of ns from its old parent (which may be c itself);
\* the nodes are spliced in at p, which JavaScript's splice clamps to the
\* end, and the cursors at or after p are pushed forward.  When nodes of
\* ns sat in c before exist, p is stale and they land after it.
InsertBefore(st, c, exist, ns) ==
  LET p == IndexOf(st.tree[c], exist)
      d == DetachAll(st, ns)
      q == IF p > Len(d.tree[c]) THEN Len(d.tree[c]) + 1 ELSE p
  IN [tree  |-> [d.tree EXCEPT ![c] = SubSeq(@, 1, q - 1) \o ns \o SubSeq(@, q, Len(@))],
      stack |-> [k \in DOMAIN d.stack |->
                   IF d.stack[k].c = c /\ d.stack[k].i >= p
                   THEN [d.stack[k] EXCEPT !.i = @ + Len(ns)]
                   ELSE d.stack[k]]]

\* Node.before(ns) followed by Node.remove(): the idiom both passes use to
\* replace a node (it is also what Node.replaceWith does).
ReplaceNode(st, n, ns) ==
  Detach(InsertBefore(st, ParentOf(st.tree, n), n, ns), n)

\* Container.append(ns) on c.
AppendNodes(st, c, ns) ==
  LET d == DetachAll(st, ns)
  IN [d EXCEPT !.tree[c] = @ \o ns]

(***************************************************************************)
(* Container.walk(callback): visit every descendant in document order,     *)
(* running the callback on a node before walking the node's own children.  *)
(* WalkStep(st, Callback) is one visit: Callback(st, x) is the library     *)
(* state after the callback ran on the node x under the top cursor; the    *)
(* walk then descends into x if x is a container (even if the callback     *)
(* removed x: the walk uses the node object it already holds) and          *)
(* otherwise advances the cursor.  WalkPop ends the iteration of a         *)
(* container whose cursor ran past its last child and advances the cursor  *)
(* of the enclosing iteration.                                             *)
(***************************************************************************)
Top(st) == st.stack[Len(st.stack)]

CanVisit(st) == st.stack # <<>> /\ Top(st).i <= Len(st.tree[Top(st).c])

Current(st) == st.tree[Top(st).c][Top(st).i]

Advance(stack) == [stack EXCEPT ![Len(stack)].i = @ + 1]

Descend(st, x) ==
  IF x \in DOMAIN st.tree
  THEN [st EXCEPT !.stack = Append(@, [c |-> x, i |-> 1])]
  ELSE [st EXCEPT !.stack = Advance(@)]

CanPop(st) == st.stack # <<>> /\ Top(st).i > Len(st.tree[Top(st).c])

WalkPop(st) ==
  LET rest == Front(st.stack)
  IN [st EXCEPT !.stack = IF rest = <<>> THEN rest ELSE Advance(rest)]

\* Every node in document (pre-)order below container c.
RECURSIVE PreOrder(_, _)
PreOrder(tree, c) ==
  FlattenSeq([k \in 1..Len(tree[c]) |->
                <<tree[c][k]>> \o (IF tree[c][k] \in DOMAIN tree
                                   THEN PreOrder(tree, tree[c][k]) ELSE <<>>)])

\* The document as the printer sees it: the nodes reachable from container
\* c, each container with the rendering of its children.
RECURSIVE Render(_, _)
Render(tree, c) ==
  [k \in 1..Len(tree[c]) |->
     IF tree[c][k] \in DOMAIN tree
     THEN <<tree[c][k], Render(tree, tree[c][k])>>
     ELSE <<tree[c][k]>>]

=============================================================================
