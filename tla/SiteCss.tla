------------------------------- MODULE SiteCss -------------------------------
(***************************************************************************)
(* The documentation site's CSS build: the postcss plugin chain of         *)
(* site/assets/css/postcss.config.js (postcss-import, tailwindcss,         *)
(* postcss-nesting, @fullhuman/postcss-purgecss, autoprefixer) or of       *)
(* site/postcss.js (postcss-import, tailwindcss, autoprefixer), run in     *)
(* order over one stylesheet, and the TailwindExtractor that PurgeCSS uses *)
(* to find the class names in the layouts.                                  *)
(*                                                                         *)
(* A character is a one-letter string; CodeOf gives its UTF-16 code unit,  *)
(* which is what a regular expression's character class tests.  A class   *)
(* name is the sequence of its characters.  The stylesheet is a set of     *)
(* items: an @import, an @tailwind directive, a @font-face rule, or a rule *)
(* whose selector is one class.  The plugins not in the repository are     *)
(* modelled by what they do to such a stylesheet: postcss-import inlines   *)
(* the imported file, tailwindcss replaces its directive by the generated  *)
(* rules, postcss-nesting and autoprefixer change no selector.  PurgeCSS   *)
(* keeps a one-class rule when the class is among the extracted selectors *)
(* or the whitelist.                                                       *)
(***************************************************************************)
EXTENDS Integers, Sequences, SequencesExt

CONSTANTS
  CodeOf,     \* [characters -> code unit]
  Files,      \* the layouts matched by 'layouts/**/*.html'
  Layouts,    \* the layouts' possible contents: [text |-> chars, used |-> classes]
  Imported,   \* the items of the file the stylesheet @imports
  Generated,  \* the classes tailwindcss generates
  Configs     \* the plugin chains the site may be built with

-----------------------------------------------------------------------------
(* TailwindExtractor.extract(content) == content.match(/[A-z0-9-:\/]+/g)   *)

\* Fault variant (PROJECT.json mutants): the class written [A-z0-9-],
\* without ':' and '/'.
TokenCharWithoutColonSlash(c) == CodeOf[c] \in (65..122) \cup (48..57) \cup {45}

\* The character class [A-z0-9-:\/]: the code units 'A'..'z' (which take in
\* [ \ ] ^ _ and the backtick), '0'..'9', '-', ':' and '/'.
TokenChar(c) == CodeOf[c] \in (65..122) \cup (48..57) \cup {45, 58, 47}

\* Scanning left to right, cur is the match in progress and acc the
\* matches found; a maximal run of class characters is one match.
RECURSIVE Scan(_, _, _)
Scan(s, cur, acc) ==
  LET flushed == IF cur = <<>> THEN acc ELSE Append(acc, cur)
  IN IF s = <<>> THEN flushed
     ELSE IF TokenChar(Head(s)) THEN Scan(Tail(s), Append(cur, Head(s)), acc)
     ELSE Scan(Tail(s), <<>>, flushed)

\* String.prototype.match with a global regex: the array of matches, or
\* null (matched = FALSE) when there is none.
Extract(content) ==
  LET m == Scan(content, <<>>, <<>>)
  IN [matched |-> m # <<>>, tokens |-> m]

-----------------------------------------------------------------------------
(* The plugin chains.                                                      *)

\* Fault variant (PROJECT.json mutants): tailwindcss listed before
\* postcss-import.
PostcssConfigPluginsTailwindFirst ==
  <<"tailwindcss", "postcss-import", "postcss-nesting", "purgecss", "autoprefixer">>

\* site/assets/css/postcss.config.js, module.exports.plugins
PostcssConfigPlugins ==
  <<"postcss-import", "tailwindcss", "postcss-nesting", "purgecss", "autoprefixer">>

\* site/postcss.js, module.exports.plugins
PostcssJsPlugins == <<"postcss-import", "tailwindcss", "autoprefixer">>

\* whitelist: ['class1', 'class2']
Whitelist ==
  { <<"c", "l", "a", "s", "s", "1">>, <<"c", "l", "a", "s", "s", "2">> }

\* A rule whose selector is the one class c.
Rule(c) == [kind |-> "rule", cls |-> c]

VARIABLES
  plugins,    \* the chain this build runs
  step,       \* the index of the plugin running
  css,        \* the stylesheet
  layout,     \* [Files -> the layout's content]
  read,       \* the layouts PurgeCSS has read
  selectors,  \* the selectors PurgeCSS extracted from them
  status      \* "running", "done", "failed"

vars == <<plugins, step, css, layout, read, selectors, status>>

Init ==
  /\ plugins \in Configs
  /\ step = 1
  /\ css = {[kind |-> "import", cls |-> <<>>], [kind |-> "font-face", cls |-> <<>>]}
  /\ layout \in [Files -> Layouts]
  /\ read = {}
  /\ selectors = {}
  /\ status = "running"

\* postcss(plugins).process(css) calls the plugin at index step next.
Running(p) == status = "running" /\ step <= Len(plugins) /\ plugins[step] = p

\* A plugin that rewrites every item of one kind into a set of items.
Replace(kind, items) ==
  {i \in css : i.kind # kind}
    \cup (IF \E i \in css : i.kind = kind THEN items ELSE {})

\* require('postcss-import')({path: ["assets/css"]}): the @import is
\* replaced by the imported file's items.
RunImport ==
  /\ Running("postcss-import")
  /\ css' = Replace("import", Imported)
  /\ step' = step + 1
  /\ UNCHANGED <<plugins, layout, read, selectors, status>>

\* require('tailwindcss')(config): every @tailwind directive left in the
\* stylesheet is replaced by the generated rules.
RunTailwind ==
  /\ Running("tailwindcss")
  /\ css' = Replace("tailwind", {Rule(c) : c \in Generated})
  /\ step' = step + 1
  /\ UNCHANGED <<plugins, layout, read, selectors, status>>

\* require('postcss-nesting')(): the stylesheet has no nested rule.
RunNesting ==
  /\ Running("postcss-nesting")
  /\ step' = step + 1
  /\ UNCHANGED <<plugins, css, layout, read, selectors, status>>

\* require('autoprefixer')({grid: true, browsers: ['>1%']}) adds prefixed
\* declarations and rewrites no selector.
RunAutoprefixer ==
  /\ Running("autoprefixer")
  /\ step' = step + 1
  /\ UNCHANGED <<plugins, css, layout, read, selectors, status>>

\* Fault variant (PROJECT.json mutants): the match array is added as one
\* selector instead of each of its matches.
ExtractLayoutAddingArray(f) ==
  /\ Running("purgecss")
  /\ f \notin read
  /\ Extract(layout[f].text).matched
  /\ selectors' = selectors \cup {Extract(layout[f].text).tokens}
  /\ read' = read \cup {f}
  /\ UNCHANGED <<plugins, step, css, layout, status>>

\* content: ['layouts/**/*.html'] with extractors: [{extractor:
\* TailwindExtractor, extensions: ['html']}]: one layout is read and the
\* extractor's matches become selectors.
ExtractLayout(f) ==
  /\ Running("purgecss")
  /\ f \notin read
  /\ Extract(layout[f].text).matched
  /\ selectors' = selectors \cup ToSet(Extract(layout[f].text).tokens)
  /\ read' = read \cup {f}
  /\ UNCHANGED <<plugins, step, css, layout, status>>

\* The extractor returns null for a layout without a class character.  The
\* purge engine is not in the repository: it either throws (purgecss 1.x,
\* 'The extractor has failed to extract the selectors.') or takes no
\* selector from the layout.
ExtractNull(f) ==
  /\ Running("purgecss")
  /\ f \notin read
  /\ ~Extract(layout[f].text).matched
  /\ \/ status' = "failed" /\ UNCHANGED read
     \/ read' = read \cup {f} /\ UNCHANGED status
  /\ UNCHANGED <<plugins, step, css, layout, selectors>>

\* Once every layout is read, a class rule outside the selectors and the
\* whitelist is removed; fontFace: false (and no keyframes option) keeps
\* the @font-face rules.
Purge ==
  /\ Running("purgecss")
  /\ read = Files
  /\ css' = {i \in css : i.kind # "rule" \/ i.cls \in selectors \cup Whitelist}
  /\ step' = step + 1
  /\ UNCHANGED <<plugins, layout, read, selectors, status>>

\* The last plugin has run: postcss hands the result to the site build.
Finish ==
  /\ status = "running"
  /\ step = Len(plugins) + 1
  /\ status' = "done"
  /\ UNCHANGED <<plugins, step, css, layout, read, selectors>>

Next ==
  \/ RunImport \/ RunTailwind \/ RunNesting \/ Purge \/ RunAutoprefixer \/ Finish
  \/ \E f \in Files : ExtractLayout(f) \/ ExtractNull(f)

\* No fairness: the properties are about the stylesheet a finished build
\* leaves.
Spec == Init /\ [][Next]_vars

-----------------------------------------------------------------------------

TypeOK ==
  /\ plugins \in Configs
  /\ step \in 1..Len(plugins) + 1
  /\ css \subseteq [kind : {"import", "tailwind", "font-face", "rule"}, cls : Seq(DOMAIN CodeOf)]
  /\ layout \in [Files -> Layouts]
  /\ read \subseteq Files
  /\ selectors \subseteq Seq(DOMAIN CodeOf)
  /\ status \in {"running", "done", "failed"}

(***************************************************************************)
(* A class the layouts use survives the build: when the plugin chain has  *)
(* run, every generated class written in a layout still has its rule.     *)
(* This is about TailwindExtractor's character class and PurgeCSS's place *)
(* after tailwindcss in postcss.config.js.                                 *)
(***************************************************************************)
UsedClassesKept ==
  status = "done" =>
    \A f \in Files : \A c \in layout[f].used \cap Generated : Rule(c) \in css

(***************************************************************************)
(* No directive reaches the output: when the chain has run, the @import is *)
(* inlined and every @tailwind it brought in is replaced, which needs       *)
(* postcss-import to run before tailwindcss.                               *)
(***************************************************************************)
DirectivesResolved ==
  status = "done" => \A i \in css : i.kind \in {"rule", "font-face"}

=============================================================================
