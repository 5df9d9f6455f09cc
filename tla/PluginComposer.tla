---------------------------- MODULE PluginComposer ----------------------------
(***************************************************************************)
(* The plugin list of one build and the utilities it generates.           *)
(* util/configurePlugins.js turns config.corePlugins into the list of      *)
(* built-in plugins; processTailwindFeatures.js appends config.plugins and *)
(* hands the list to processPlugins, which calls every plugin once, in     *)
(* order, with a context whose addUtilities appends the plugin's entries.  *)
(* The leaf plugins (plugins/*.js) are the entries they add.               *)
(*                                                                         *)
(* config.corePlugins is one of                                            *)
(*   [kind |-> "false"]                      corePlugins: false            *)
(*   [kind |-> "array",  names |-> <<...>>]  corePlugins: ['display', ...] *)
(*   [kind |-> "object", flags |-> [name -> "true" | "false" | "undefined"]] *)
(* An entry [cls |-> <<prefix, modifier>>, decl |-> property, variants |-> *)
(* key] is the rule `.${e(prefix-modifier)} { property: value }` tagged    *)
(* with variants(key); a class name is kept as its (prefix, modifier)      *)
(* pair, which e() maps to distinct escaped names.                         *)
(***************************************************************************)
EXTENDS Sequences, SequencesExt

CONSTANTS
  CorePlugins,  \* Object.keys of the built-in plugin registry, in order
  UserPlugins,  \* config.plugins
  Palette,      \* flattenColorPalette(theme(key)): the modifiers, in key order
  Configs       \* the values config.corePlugins may take

\* plugins/backgroundColor.js, stroke.js, textColor.js: one utility per
\* palette entry, _.map over the flattened palette in key order.
ColorUtilities(prefix, property, modifiers, key) ==
  [k \in 1..Len(modifiers) |->
     [cls |-> <<prefix, modifiers[k]>>, decl |-> property, variants |-> key]]

BackgroundColorUtilities ==
  ColorUtilities("bg", "background-color", Palette, "backgroundColor")

\* plugins/borderColor.js: _.omit(colors, 'default').
BorderColorUtilities ==
  ColorUtilities("border", "border-color",
                 SelectSeq(Palette, LAMBDA m : m # "default"), "borderColor")

StrokeUtilities == ColorUtilities("stroke", "stroke", Palette, "stroke")

TextColorUtilities == ColorUtilities("text", "color", Palette, "textColor")

\* plugins/display.js: nine fixed classes.
DisplayUtilities ==
  LET classes == <<"block", "inline-block", "inline", "flex", "inline-flex",
                   "table", "table-row", "table-cell", "hidden">>
  IN [k \in 1..Len(classes) |->
        [cls |-> <<"", classes[k]>>, decl |-> "display", variants |-> "display"]]

\* A user plugin adds one utility of its own.
UserUtilities(p) == <<[cls |-> <<"user", p>>, decl |-> p, variants |-> p]>>

\* What addUtilities receives when the plugin runs.
Utilities(p) ==
  CASE p = "backgroundColor" -> BackgroundColorUtilities
    [] p = "borderColor"     -> BorderColorUtilities
    [] p = "display"         -> DisplayUtilities
    [] p = "stroke"          -> StrokeUtilities
    [] p = "textColor"       -> TextColorUtilities
    [] OTHER                 -> UserUtilities(p)

\* Fault variant (PROJECT.json mutants): without the pluginConfig !== false
\* test, false[pluginName] is undefined and every plugin passes.
PluginNamesWithoutFalseTest(pluginConfig) ==
  IF pluginConfig.kind = "array" THEN pluginConfig.names
  ELSE SelectSeq(CorePlugins, LAMBDA n : pluginConfig.kind = "false"
                                         \/ pluginConfig.flags[n] # "false")

\* configurePlugins: the array itself, or the registry's keys filtered by
\* pluginConfig !== false && pluginConfig[pluginName] !== false.
PluginNames(pluginConfig) ==
  IF pluginConfig.kind = "array" THEN pluginConfig.names
  ELSE SelectSeq(CorePlugins, LAMBDA n : pluginConfig.kind # "false"
                                         /\ pluginConfig.flags[n] # "false")

VARIABLES
  pluginConfig,  \* config.corePlugins
  plugins,       \* the plugins still to run
  utilities,     \* the entries added so far
  status         \* "configuring", "running", "done", "failed"

vars == <<pluginConfig, plugins, utilities, status>>

Init ==
  /\ pluginConfig \in Configs
  /\ plugins = <<>>
  /\ utilities = <<>>
  /\ status = "configuring"

\* [...corePlugins(config), ...config.plugins]: pluginNames.map(pluginName
\* => plugins[pluginName]()) finds every name in the registry.
ConfigurePlugins ==
  /\ status = "configuring"
  /\ ToSet(PluginNames(pluginConfig)) \subseteq ToSet(CorePlugins)
  /\ plugins' = PluginNames(pluginConfig) \o UserPlugins
  /\ status' = "running"
  /\ UNCHANGED <<pluginConfig, utilities>>

\* plugins[pluginName] is undefined for a name outside the registry:
\* calling it throws a TypeError and the build aborts.
RejectUnknownPlugin ==
  /\ status = "configuring"
  /\ ~(ToSet(PluginNames(pluginConfig)) \subseteq ToSet(CorePlugins))
  /\ status' = "failed"
  /\ UNCHANGED <<pluginConfig, plugins, utilities>>

\* The next plugin runs: addUtilities(utilities, variants(key)).
RunPlugin ==
  /\ status = "running"
  /\ plugins # <<>>
  /\ utilities' = utilities \o Utilities(Head(plugins))
  /\ plugins' = Tail(plugins)
  /\ UNCHANGED <<pluginConfig, status>>

FinishPlugins ==
  /\ status = "running"
  /\ plugins = <<>>
  /\ status' = "done"
  /\ UNCHANGED <<pluginConfig, plugins, utilities>>

Next == ConfigurePlugins \/ RejectUnknownPlugin \/ RunPlugin \/ FinishPlugins

Spec == Init /\ [][Next]_vars

-----------------------------------------------------------------------------

\* spec.md 4.2: a built-in plugin is included unless it is disabled by
\* name or the whole built-in set is disabled; an array lists the ones
\* included.
Enabled(cfg, p) ==
  CASE cfg.kind = "false"  -> FALSE
    [] cfg.kind = "object" -> cfg.flags[p] # "false"
    [] cfg.kind = "array"  -> p \in ToSet(cfg.names)

\* spec.md 4.2: the enabled built-in plugins in registry order, then the
\* user plugins, each invoked exactly once, entries appended in that order.
SpecifiedUtilities(cfg) ==
  LET ordered == SelectSeq(CorePlugins, LAMBDA p : Enabled(cfg, p)) \o UserPlugins
  IN FlattenSeq([k \in 1..Len(ordered) |-> Utilities(ordered[k])])

(***************************************************************************)
(* spec.md 4.2: when the plugins have run, the generated utilities are     *)
(* those of the enabled built-in plugins in registry order followed by the *)
(* user plugins', each plugin's once.  This is about configurePlugins'     *)
(* filter and the order in which processTailwindFeatures lists plugins.    *)
(***************************************************************************)
ComposedAsSpecified ==
  status = "done" => utilities = SpecifiedUtilities(pluginConfig)

=============================================================================
