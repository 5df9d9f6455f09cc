-------------------------- MODULE ResponsiveExpansion --------------------------
(***************************************************************************)
(* What the responsive variant expander promises (spec.md 4.4), as one     *)
(* step from the stylesheet it is given to the stylesheet it produces:     *)
(*   - every @responsive block is unwrapped in place, and its rules are    *)
(*     collected, in document order, into one working list;               *)
(*   - when that list and the configured breakpoints are both non-empty,   *)
(*     one @media block per breakpoint, in declared order, holds a copy   *)
(*     of the list whose every selector has its last class prefixed with  *)
(*     breakpoint + separator;                                             *)
(*   - those blocks replace the `@tailwind screens` marker (the last one  *)
(*     in document order, the others being dropped) or, without a marker, *)
(*     are appended to the stylesheet; otherwise nothing is added;        *)
(*   - a collected selector with no class aborts the build (the code's    *)
(*     behaviour; spec.md 4.4 asks for a warning instead, see             *)
(*     ResponsiveAtRules!SelectorErrorIsLocal).                            *)
(***************************************************************************)
EXTENDS CssTree

CONSTANTS
  InputTrees,     \* the stylesheets the pass may be given
  ScreenConfigs,  \* the breakpoint names of theme.screens, in declared order
  Separator       \* config.separator

IsResponsive(n) == n.type = "responsive"

IsScreensMarker(n) == n.type = "tailwind" /\ n.params = "screens"

HasClass(sel) == \E k \in DOMAIN sel : sel[k].t = "class"

\* The last class component of a selector, and only it, renamed.
VariantOfSelector(sel, s) ==
  [k \in DOMAIN sel |->
     IF sel[k].t = "class" /\ \A j \in (k + 1)..Len(sel) : sel[j].t # "class"
     THEN [sel[k] EXCEPT !.v = <<s, Separator>> \o @]
     ELSE sel[k]]

ScreenRule(r, s) ==
  [r EXCEPT !.sel = [k \in DOMAIN r.sel |-> VariantOfSelector(r.sel[k], s)]]

MediaQuery(s) == [type |-> "media", name |-> s, params |-> "", sel |-> <<>>]

\* The rules of every @responsive block, in document order.
Collected(t) ==
  LET blocks == SelectSeq(PreOrder(t, Root), IsResponsive)
  IN FlattenSeq([k \in 1..Len(blocks) |-> t[blocks[k]]])

Fails(t, screens) ==
  /\ screens # <<>>
  /\ \E k \in 1..Len(Collected(t)) :
       \E j \in DOMAIN Collected(t)[k].sel : ~HasClass(Collected(t)[k].sel[j])

Expanded(t, screens) ==
  LET rr       == Collected(t)
      U        == [c \in DOMAIN t |->
                     FlattenSeq([k \in 1..Len(t[c]) |->
                                   IF IsResponsive(t[c][k]) THEN t[t[c][k]]
                                   ELSE <<t[c][k]>>])]
      mqs      == [k \in 1..Len(screens) |-> MediaQuery(screens[k])]
      withMq   == U @@ [m \in ToSet(mqs) |->
                          [j \in 1..Len(rr) |-> ScreenRule(rr[j], m.name)]]
      markers  == SelectSeq(PreOrder(U, Root), IsScreensMarker)
      Site(x)  == IF ~IsScreensMarker(x) THEN <<x>>
                  ELSE IF x = markers[Len(markers)] THEN mqs ELSE <<>>
      placed   == IF markers = <<>>
                  THEN [withMq EXCEPT ![Root] = @ \o mqs]
                  ELSE [c \in DOMAIN withMq |->
                          FlattenSeq([k \in 1..Len(withMq[c]) |-> Site(withMq[c][k])])]
  IN IF rr # <<>> /\ screens # <<>> THEN placed ELSE U

VARIABLES src, screens, out, state

Init ==
  /\ src \in InputTrees
  /\ screens \in ScreenConfigs
  /\ out = Render(src, Root)
  /\ state = "pending"

Expand ==
  /\ state = "pending"
  /\ ~Fails(src, screens)
  /\ out' = Render(Expanded(src, screens), Root)
  /\ state' = "done"
  /\ UNCHANGED <<src, screens>>

Abort ==
  /\ state = "pending"
  /\ Fails(src, screens)
  /\ state' = "failed"
  /\ UNCHANGED <<src, screens, out>>

Next == Expand \/ Abort

Spec == Init /\ [][Next]_<<src, screens, out, state>>

=============================================================================
