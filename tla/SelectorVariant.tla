--------------------------- MODULE SelectorVariant ---------------------------
(***************************************************************************)
(* util/buildSelectorVariant.js.  A selector is the sequence of the        *)
(* top-level components postcss-selector-parser yields for it: records     *)
(* [t |-> kind, v |-> value], kind one of "class", "tag", "id", "pseudo",  *)
(* "attribute", "combinator".  A class inside a pseudo-class argument      *)
(* (:not(.x)) is not a top-level component, so it is part of the pseudo's  *)
(* value and never a "class" here.  A value is a sequence of name          *)
(* fragments, so that `${variantName}${separator}${value}` is the          *)
(* concatenation of fragments.                                             *)
(***************************************************************************)
EXTENDS Sequences, SequencesExt

\* selectors.first.filter(({type}) => type === 'class').pop(): the index of
\* the last top-level class component, 0 when there is none.
LastClass(sel) == SelectLastInSeq(sel, LAMBDA comp : comp.t = "class")

\* onError is called: 'Variant cannot be generated because selector
\* contains no classes.'
VariantError(sel) == LastClass(sel) = 0

\* Fault variant (PROJECT.json mutants): the first class is renamed.
BuildSelectorVariantFirstClass(sel, variantName, separator) ==
  LET first == SelectInSeq(sel, LAMBDA comp : comp.t = "class") IN
  IF first = 0 THEN sel
  ELSE [sel EXCEPT ![first].v = <<variantName, separator>> \o @]

\* The selector with its last class renamed to variant + separator + name;
\* a selector without a class comes back as it was.
BuildSelectorVariant(sel, variantName, separator) ==
  IF VariantError(sel) THEN sel
  ELSE [sel EXCEPT ![LastClass(sel)].v = <<variantName, separator>> \o @]

=============================================================================
