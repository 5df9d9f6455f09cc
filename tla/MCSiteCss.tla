------------------------------ MODULE MCSiteCss ------------------------------
(***************************************************************************)
(* Models of the site's CSS build for TLC.  Two layouts, each a class      *)
(* attribute (or a JavaScript template literal) holding two classes, or an *)
(* empty one; the stylesheet @imports a file holding an @tailwind         *)
(* directive, and tailwindcss generates the layouts' classes and one more. *)
(***************************************************************************)
EXTENDS SiteCss

CONSTANTS f1, f2

\* The UTF-16 code units of the characters the layouts are written with;
\* "backtick" stands for the character `.
MCCodeOf ==
  ("m" :> 109) @@ ("d" :> 100) @@ (":" :> 58) @@ ("f" :> 102) @@ ("l" :> 108)
  @@ ("e" :> 101) @@ ("x" :> 120) @@ ("w" :> 119) @@ ("-" :> 45) @@ ("1" :> 49)
  @@ ("/" :> 47) @@ ("2" :> 50)
  @@ (" " :> 32) @@ ("'" :> 39) @@ ("(" :> 40) @@ (")" :> 41) @@ ("backtick" :> 96)

\* Classes: md:flex (a responsive variant), w-1/2 (a fraction), -m-1 (a
\* negative margin), flex (used by no layout).
MdFlex == <<"m", "d", ":", "f", "l", "e", "x">>
WHalf == <<"w", "-", "1", "/", "2">>
NegM1 == <<"-", "m", "-", "1">>
Flex == <<"f", "l", "e", "x">>

\* open c1 ' ' c2 close, as in class='c1 c2', add(c1 c2), `c1 c2`, or a
\* text that ends with c2.
Layout(open, c1, c2, close) ==
  [text |-> open \o c1 \o <<" ">> \o c2 \o close, used |-> {c1, c2}]

EmptyLayout == [text |-> <<"'", "'">>, used |-> {}]

LayoutsOver(wrappers, classes) ==
  {Layout(w[1], c1, c2, w[2]) : w \in wrappers, c1 \in classes, c2 \in classes}
    \cup {EmptyLayout}

\* class attributes and call arguments
MCLayouts ==
  LayoutsOver({<<<<"'">>, <<"'">>>>, <<<<"(">>, <<")">>>>, <<<<" ">>, <<>>>>},
              {MdFlex, WHalf, NegM1})

\* class attributes and JavaScript template literals
MCLayoutsTemplate ==
  LayoutsOver({<<<<"'">>, <<"'">>>>, <<<<"backtick">>, <<"backtick">>>>},
              {MdFlex, WHalf})

MCImported == {[kind |-> "tailwind", cls |-> <<>>]}

MCGenerated == {MdFlex, WHalf, NegM1, Flex}

MCConfigs == {PostcssConfigPlugins, PostcssJsPlugins}

=============================================================================
