---------------------------- MODULE MCPluginComposer ----------------------------
(***************************************************************************)
(* Model for PluginComposer: the five built-in plugins of the repository   *)
(* in registry order, one user plugin, and a palette with a 'default'      *)
(* entry (which borderColor omits).  corePlugins is false, every object    *)
(* of true/false/absent flags, every array that lists built-in plugins in  *)
(* registry order, and an array naming a plugin the registry lacks.        *)
(***************************************************************************)
EXTENDS PluginComposer

MCCorePlugins == <<"backgroundColor", "borderColor", "display", "stroke", "textColor">>

MCUserPlugins == <<"forms">>

MCPalette == <<"default", "black", "red-500">>

Subsequences(s) ==
  { [k \in 1..Cardinality(S) |-> s[SetToSortSeq(S, <)[k]]] : S \in SUBSET DOMAIN s }

ObjectConfigs ==
  [kind : {"object"}, flags : [ToSet(MCCorePlugins) -> {"true", "false", "undefined"}]]

MCConfigs ==
  {[kind |-> "false"]}
  \cup ObjectConfigs
  \cup {[kind |-> "array", names |-> ns] : ns \in Subsequences(MCCorePlugins)}
  \cup {[kind |-> "array", names |-> <<"display", "container">>]}

\* Arrays out of registry order, or naming a plugin twice.
MCArrayConfigs ==
  {[kind |-> "array", names |-> ns] :
     ns \in {<<"textColor", "backgroundColor">>, <<"display", "display">>}}

\* Every configuration, the arrays out of registry order included.
MCAllConfigs == MCConfigs \cup MCArrayConfigs

=============================================================================
