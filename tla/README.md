# TLA+ models of the Tailwind CSS pipeline in kudobuilder/kudo

The repository vendors Tailwind CSS v1 (compiled, under
`src/site/node_modules/tailwindcss/lib`) and the PurgeCSS postcss plugin for
its documentation site. `spec.md` describes the Tailwind core: plugins
generate utility rules, a directive substituter puts them where the
stylesheet's `@tailwind` markers are, and a responsive expander turns
`@responsive` blocks into one `@media` block per breakpoint. These modules
model that code for TLC, as it is written.

## 1. Inventory

### Components and how they interact

| Component | Source | State it changes | Operations |
|---|---|---|---|
| Build script | `lib/build.js` | `dist/*.css`, `*.css.map`, `*.min.css`; four promises | `buildDistFile` ×4 under `Promise.all`: readFile callback, postcss process, three writes, minify, resolve/reject |
| Pipeline | `lib/processTailwindFeatures.js` | none of its own | runs the passes in order: tailwind, functions, variants, responsive, screen, apply |
| Plugin composer | `lib/util/configurePlugins.js`, `lib/plugins/*.js` | the list of utility entries | filter the plugin names by the config, then call each plugin, which calls `addUtilities` |
| Directive substituter | `lib/lib/substituteTailwindAtRules.js` | the stylesheet tree; the `source` of generated nodes | `walkAtRules('tailwind')`: throw on `preflight`, replace `base`/`components`/`utilities` markers |
| Responsive expander | `lib/lib/substituteResponsiveAtRules.js`, `lib/util/buildSelectorVariant.js` | the tree; `responsiveRules`; `finalRules`; `includesScreensExplicitly` | collecting walk, per-screen build, early return, placing walk, append |
| Config dependency | `lib/lib/registerConfigAsDependency.js` | postcss `result.messages` | existence check, then pushes a dependency message |
| PurgeCSS plugin | `@fullhuman/postcss-purgecss/src/index.js` (and its build, `lib/postcss-purgecss.js`) | the closure's `opts`; `opts.css`; the tree | load the config once, default `opts.css`, purge selectors, keyframes, font faces |
| Site CSS build | `site/assets/css/postcss.config.js`, `site/postcss.js` | the site stylesheet | postcss runs the listed plugins in order: postcss-import, tailwindcss, postcss-nesting, PurgeCSS with `TailwindExtractor`, autoprefixer (`postcss.js` lists no nesting and no purge) |
| Constants | `lib/constants.js`, PurgeCSS `rollup.config.js` | none | configuration data only |
| CI action | `.github/actions/current-time/index.js` | an action output | reads the clock |

The pipeline runs inside one postcss `process` call. The substituter runs
first and inserts the plugins' generated nodes. The responsive expander runs
later, so generated rules wrapped in `@responsive` get their breakpoint
copies. The build script runs four such pipelines concurrently on the Node
event loop.

### What makes it hard

- **The passes mutate the tree while walking it.** postcss's `walk` iterates a
  container with a per-iteration cursor. Insertions before the cursor shift
  it forward. Removals before it shift it back. After the callback, the walk
  descends into the node it just visited, even if the node was removed.
  Whether a pass visits each node once, skips none and never visits what it
  inserted depends on these rules.
- **Moves instead of copies.** postcss moves a node that already has a
  parent. Both passes insert the same node objects at more than one site.
- **Throws in the middle of a pass** leave a partly rewritten tree.
- **JavaScript key order.** `_.keys` puts array-index keys first.
- **Event-loop interleavings** of the four builds, and a throw inside an
  fs callback (`build.js:18`).

## 2. Modules

| Module | Models | Kind |
|---|---|---|
| `CssTree` | the postcss container operations the passes call (`before`, `remove`, `replaceWith`, `append`) and `walk`'s cursor bookkeeping | operators |
| `DirectiveSubstitution` | what the substituter promises, as one step | abstract spec |
| `TailwindAtRules` | `substituteTailwindAtRules.js`, one walk visit per step | detailed spec, refines `DirectiveSubstitution` |
| `SelectorVariant` | `buildSelectorVariant.js` | operators |
| `ResponsiveExpansion` | what the expander promises, as one step | abstract spec |
| `ResponsiveAtRules` | `substituteResponsiveAtRules.js`, one walk visit or one screen per step | detailed spec, refines `ResponsiveExpansion` |
| `BuildDist` | `build.js` on the Node event loop | detailed spec |
| `PluginComposer` | `configurePlugins.js`, the plugin list of `processTailwindFeatures.js`, `plugins/*.js` | detailed spec with a reference definition |
| `SiteCss` | the site's two postcss configs and `TailwindExtractor` | detailed spec with a reference definition |
| `PurgecssPlugin` | `@fullhuman/postcss-purgecss/src/index.js` across the builds of one process | detailed spec |
| `TailwindFeatures` | what one build of the pipeline promises: substitution, then expansion, as one step | abstract spec, composing the two above |
| `Pipeline` | the postcss chain of `processTailwindFeatures.js`, composing `TailwindAtRules` and `ResponsiveAtRules` | composition, refines `TailwindFeatures` |
| `MCTailwindAtRules`, `MCResponsiveAtRules`, `MCPipeline`, `MCBuildDist`, `MCPluginComposer`, `MCSiteCss`, `MCPurgecssPlugin` | the models TLC checks | MC modules |

### CssTree: the postcss contract

postcss itself is not part of the repository. `CssTree` states what the
passes rely on, from postcss 7's `Container`:

- A tree is a function from container to the sequence of its children.
- A node is a record `[type, name, params, sel]`.
- `removeChild` decrements every cursor at or after the removed index.
- `insertBefore(exist, nodes)` is postcss 7's, the version tailwindcss 1.x
  depends on. It takes `exist`'s index first. It then detaches each node
  that has a parent, which may be this same container. It splices the nodes
  in at the index it took, which JavaScript clamps to the end. Last, it
  increments every cursor at or after that index by the number of nodes.
  When some of the nodes sat in the container before `exist`, the index is
  stale and they land after `exist`. postcss 8 takes the index after
  detaching.
- The walk state is a stack of `[c, i]` frames: the container and the
  cursor. One visit is one step:
  - the callback runs;
  - `Descend` pushes a frame for the visited node's children, or advances
    the cursor if it has none;
  - `WalkPop` ends a container's iteration and advances the enclosing cursor.

### TailwindAtRules

| Variable | Code |
|---|---|
| `input` | the stylesheet the pass was given (history) |
| `tree`, `stack` | `css` and the walk's iteration state |
| `status` | walking / done / failed (thrown) |
| `source` | `node.source` of each generated node |
| `err` | the at-rule of the thrown error |
| `visited` | the nodes the walk handed to its callback (history) |

`Generated` maps each category to the node sequence `processedPlugins` holds
for it. These are the same node objects for every marker, as in the code.

Actions:
- `RejectPreflight` is lines 29-34.
- `SubstituteDirective` is lines 36-49, with `updateSource` at 14-20.
- `VisitOther` is a node the callback leaves alone.
- `EndContainer` is the end of a container's iteration.

### ResponsiveAtRules

`phase` runs `collect → build → place → placed → done`. There are two exits:
`build → done` (the early return) and `build → failed` (the throw).

| Action | Code |
|---|---|
| `CollectResponsive` | lines 32-37 |
| `BuildScreen` | one `forEach` iteration, lines 39-53 |
| `RejectSelector` | the throwing `onError`, line 48 |
| `SkipPlacement` | line 57 |
| `StartPlacement`, `PlaceScreens`, `WalkOther`, `EndContainer` | the second walk, lines 61-67 |
| `AppendScreens`, `KeepExplicitPlacement` | lines 69-72 |

`Keys` is `_.keys`: array-index keys first, ascending, then the others in
declared order.

### BuildDist

| Variable | Code |
|---|---|
| `pc[b]` | where build `b`'s chain is: reading, processing, writing, minifying, resolved, rejected |
| `dist[b][f]` | whether `dist/<b>.css`, `.css.map`, `.min.css` hold this run's output |
| `all` | the `Promise.all` state |
| `finished` | the "Finished Building Tailwind!" log |
| `alive`, `exitCode` | the process |
| `crashOnUnhandled` | whether the runtime ends the process on an unhandled rejection (Node 15 and later). The repository pins no Node version, so both are explored |

Each `.then` or fs callback is one action of one build. The interleaving of
the four builds is free, as on the event loop.

- `ReadFileFails` is the `throw err` of line 18. The exception is uncaught,
  so the process ends with status 1.
- `WriteResult` is the callback writing `.css` and then `.css.map`. Either
  write may throw, and a throw leads to `.catch` and `reject()`.
- `WriteMinified` is the next callback, writing `.min.css`.
- `Exit` happens when no callback is left.

### PluginComposer

- `ConfigurePlugins` is `configurePlugins`, followed by appending
  `config.plugins` (`processTailwindFeatures.js:46`).
- `RejectUnknownPlugin` is the TypeError when the registry lacks a listed
  name.
- `RunPlugin` is one plugin call. Its `addUtilities` entries come from the
  leaf plugin's operator (`BackgroundColorUtilities`, ...).

`SpecifiedUtilities` is the reference, written from spec.md 4.2:
- the enabled built-in plugins in registry order, then the user plugins;
- each plugin once.

`processPlugins` and `flattenColorPalette` are not in the repository. They
are assumed to call the plugins in list order and to give the palette keys
in order.

### SiteCss

Characters are keys of `CodeOf`, which gives each its UTF-16 code unit.
This is what the regex's character class tests. A class name is the
sequence of its characters.

- `TokenChar` is the class `[A-z0-9-:\/]`. Code units 65..122 include
  `[ \ ] ^ _` and the backtick.
- `Scan` and `Extract` are `content.match(/.../g)`. The result is the maximal
  runs of class characters, left to right, or null (`matched = FALSE`).

The plugin chain is `plugins`, `PostcssConfigPlugins` or `PostcssJsPlugins`,
and `step` indexes it. Each plugin is one action, guarded by `Running`.
The stylesheet starts as an `@import` and a `@font-face` rule.

| Action | Code |
|---|---|
| `RunImport` | `postcss-import`: the imported file (an `@tailwind` directive) replaces the `@import` |
| `RunTailwind` | `tailwindcss`: the directive becomes one rule per generated class |
| `RunNesting`, `RunAutoprefixer` | change no selector |
| `ExtractLayout`, `ExtractNull` | PurgeCSS reads one layout with `TailwindExtractor`. On null, the engine throws (purgecss 1.x) or takes nothing; both are explored, since the engine is not in the repository |
| `Purge` | once every layout is read, drops a class rule outside the selectors and `whitelist`; `fontFace: false` keeps `@font-face` |
| `Finish` | the chain has run |

The layouts, the imported stylesheet and the site's tailwind config are not
in the repository. They are constants of the model.

### Pipeline

`Pipeline` instantiates both passes over shared state. `T == INSTANCE
TailwindAtRules` keeps that module's variable names. `R == INSTANCE
ResponsiveAtRules` takes `tree` (the stylesheet the first pass left) as its
`input` and has its own `rtree`, `rstack` and `rerr`. The phase `"pending"`
means the responsive pass has not started.

| Action | Code (`processTailwindFeatures.js`) |
|---|---|
| `TailwindStep` | a step of the first plugin of the chain (line 34) |
| `Handoff` | postcss starts the next plugin on the same root once the previous one returned (lines 34-36) |
| `ResponsiveStep` | a step of `substituteResponsiveAtRules` |

`evaluateTailwindFunctions` and `substituteVariantsAtRules` run between the
two passes. `substituteScreenAtRules` and `substituteClassApplyAtRules` run
after them. None of these four is in the repository. The model's stylesheets
contain nothing they rewrite (no `theme()`, `@variants`, `@screen` or
`@apply`), so they are identities here. The generated nodes are given in the
form `substituteVariantsAtRules` leaves them: a utility with the responsive
variant sits in an `@responsive` block.

A pass that throws (`status` or `phase` `"failed"`) rejects the build. No
`Handoff` follows, so the later passes never run.

`FeaturesRefinement` maps the composition onto `TailwindFeatures`:
- the output is the final responsive tree once that pass is done;
- the build has failed once either pass has thrown.

### PurgecssPlugin

The model follows one process of a watch pipeline. Each build calls the
plugin's closure once and synchronously, so a build is one action.

| Variable | Code |
|---|---|
| `arg` | what the pipeline passes to the plugin creator: `undefined`, a config path, or an object literal |
| `opts` | the closure's `opts` |
| `heap` | the two options objects a build can purge with: the caller's literal, and the config module's export. Each holds its version, its `css` list now, and the list as written (`declared`) |
| `cached` | Node's `require` cache holds the config module |
| `disk` | the config file: a version, or missing |
| `builds` | the history: each build's outcome, version, css list and the file at that moment |

| Action | Code |
|---|---|
| `BuildWithOptions` | lines 24-65 with `opts` already an object |
| `BuildLoadingConfig` | line 26, where `loadConfigFile` succeeds (`require` at line 16, from the cache if the module is there), then lines 28-64 |
| `BuildConfigMissing` | lines 17-18: the load throws, the build rejects, `opts` stays a path |
| `NewInstance` | `postcss.plugin(...)(arg)` again, as a pipeline that rebuilds its chain does |
| `EditConfig` | the file is edited or deleted between builds |

`Purge` writes the placeholder into the object itself (lines 28-30). It then
records the options the external engine purges with.

## 3. Runs

| Run | Expect | What it shows |
|---|---|---|
| `feature_pipeline` | pass | For every stylesheet of the model with at most one marker per category and one `@tailwind screens` site per container, and each screen list: the first pass refines `DirectiveSubstitution`. Its walk hands every input node to its callback exactly once, in document order, and never a generated node (`WalkVisitsInputOnce`). The two passes in chain order refine `TailwindFeatures` (`FeaturesRefinement`): the `@tailwind screens` site survives substitution and receives the `@media` blocks; generated utilities in `@responsive` get breakpoint copies; a preflight throw, or the responsive pass's throw on a classless selector, fails the build. |
| `tailwind_duplicate_marker` | violation | Two markers of one category: the second steals the nodes of the first. |
| `responsive_expansion` | pass | The expander refines `ResponsiveExpansion` over 6 stylesheets × 4 screen lists. |
| `responsive_selector_error` | violation | A classless selector aborts the build, against spec.md 4.4's local error. |
| `responsive_numeric_screens` | violation | Screens named `1024` and `640` are emitted out of declared order. |
| `responsive_nested_block` | violation | An `@responsive` block nested in another is never visited and survives into the output. |
| `build_dist` | pass | Under every interleaving and every I/O failure, "Finished" is logged only after all twelve dist files are written. |
| `build_silent_failure` | violation | Without a crash on unhandled rejections, a failed build exits with status 0. |
| `plugins_composition` | violation | `corePlugins` false, all 243 objects of true/false/absent flags, and the arrays `<<textColor, backgroundColor>>` and `<<display, display>>`. An array is taken as the plugin list itself, in its own order and with repeats, against spec.md 4.2's registry order and one call per plugin. |
| `site_css` | pass | For both plugin chains and every pair of layouts, a finished build keeps the rule of every class a layout uses (`UsedClassesKept`), and no `@import` or `@tailwind` survives (`DirectivesResolved`). |
| `purgecss_rebuilds` | pass | Over three builds of one process, with edits, deletions and new instances between them, every successful build purges with the config version first loaded (`ConfigStableWithinProcess`). |
| `site_template_literal` | violation | A class in a JavaScript template literal is extracted with its backtick attached, so its rule is purged. The `A-z` range is a bug; `A-Za-z` was meant. |

Every property of a passing run has a mutant in `PROJECT.json`. A mutant is
a fault variant of a mapped definition, written next to it, which TLC must
catch.

### Bounds

`MCPipeline` (and `MCTailwindAtRules`, which the duplicate-marker run uses) has one stylesheet shape:
- two rules, three markers, one of them nested in an `@media` container;
- each marker ranges over all five directive names.

This covers:
- markers before, between and after containers;
- a marker as the last child of a nested container;
- the empty category (`components`);
- the two-node category (`utilities`);
- preflight at any position.

`MCPipeline` adds:
- a user `@responsive` block at the end, holding `.btn:hover` and possibly
  `div:not(.x)`, whose missing class makes the responsive pass throw;
- an `@responsive` block among the generated utilities;
- the screen lists `<<>>`, `<<sm>>` and `<<sm, md>>`.

With these, a marker may be `screens`, at the top level or nested, before
or after the utilities. The responsive pass therefore sees generated and
user blocks in both orders, and both placements. Two `screens`
markers at the top level are left out. spec.md 4.4 step 4 speaks of a
single site, and with two in one container postcss 7's stale index
misplaces the `@media` blocks (see the hazards). Sites in different
containers are kept. The run reaches 6222 states in about 130 s.

`MCResponsiveAtRules` has six stylesheets:
- blocks at the top level and nested in `@media`;
- zero, one and two screens sites;
- an empty block, and no block at all;
- a selector with no class;
- a descendant selector where the last class is not the first;
- a selector list.

The screen lists are `<<>>`, `<<sm>>`, `<<sm, md>>` and `<<md, sm>>`. They
exercise the early return and key order.

`MCBuildDist` has the four builds of the code, as symmetric model values.
Every I/O step can fail.

`MCPluginComposer` has:
- the five plugins in the repository;
- one user plugin;
- a palette with a `default` entry, which borderColor omits.

`MCSiteCss` has two layouts. Each is an empty class attribute, or two of
`md:flex`, `w-1/2` and `-m-1` in one of three wrappers: `'...'`, `(...)`, or
unwrapped at the end of the text. This covers:
- the `:`, `/` and leading `-` of real Tailwind classes;
- a match that ends the text;
- null;
- an unused generated class (`flex`), which must be purged.

Neither the site's config nor Tailwind v1's default theme has a class with
`.`, so none is included.

`MCPurgecssPlugin` has two config versions, one with a `css` list and one
with an empty list, and an object literal without one. Three builds and two
edits are enough for an edit or deletion to fall between two builds of one
instance, and between two instances.

### Fairness

No specification asserts fairness:
- Each walk pass is one synchronous postcss plugin call, and its termination
  follows from the walk being bounded. `WalkVisitsInputOnce` checks that
  bound: when the walk ends, it has visited exactly the preorder of the
  input.
- `BuildDist`, `PluginComposer` and `SiteCss` are checked for safety only.
  `SiteCss`'s properties are about the stylesheet a finished build leaves.
- In `PurgecssPlugin`, the pipeline decides when to build, so no build is
  owed. Deadlock checking is off because a finished or failed
pass, and an exited process, are meant to stop.

## 4. Plan and what is not modelled

Still to do:
- **Termination as liveness.** For the walks, TLC's evaluation of
  `ENABLED` over the `CssTree` operators is too slow for weak fairness.
  Termination is checked instead through the `visited` history
  (`WalkVisitsInputOnce`).
- Not modelled:
  - `registerConfigAsDependency.js` only pushes a message;
  - the purge engine (`purgecss`) is not in the repository. The PurgeCSS
    tests that compare fixture output test that engine;
  - `constants.js` and PurgeCSS's `rollup.config.js` are data;
  - the `TailwindExtractor` class copied into `site/postcss.js` (lines 1-5)
    is never used there;
  - the CI action (`.github/actions/current-time`) reads the clock once and
    sets one output. `new Date()` is always valid, so only a failure inside
    `@actions/core` (not in the repository) could reach its `catch`. There is
    no state, input or ordering for a model to vary;
  - the layouts and the site's `tailwind.config.js` are not in the
    repository; `MCSiteCss` chooses representative ones;
  - `evaluateTailwindFunctions`, `substituteVariantsAtRules`,
    `substituteScreenAtRules` and `substituteClassApplyAtRules` are not in
    the repository. `Pipeline` treats them as identities on stylesheets
    without the constructs they rewrite;
  - `flattenColorPalette`, `processPlugins` and postcss are not in the
    repository (`CssTree` states what is assumed of postcss).
