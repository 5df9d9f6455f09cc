---------------------------- MODULE PurgecssPlugin ----------------------------
(***************************************************************************)
(* @fullhuman/postcss-purgecss (src/index.js) across the builds of one     *)
(* process, as a watch pipeline runs them.  postcss.plugin(name, fn)(arg)  *)
(* makes an instance: a closure whose variable opts starts as arg.  Each   *)
(* build calls the closure once, synchronously: when opts is a string or   *)
(* undefined it becomes loadConfigFile(opts), i.e. require() of the config  *)
(* file; an options object without a css list gets the placeholder list;   *)
(* then the purge engine runs with opts.  Between builds the config file   *)
(* may be edited or deleted, and the pipeline may make a new instance with *)
(* the same arg.  require() caches a module it has loaded for the rest of  *)
(* the process and caches nothing when it throws.                          *)
(*                                                                         *)
(* An options object is "inline" (the object literal the caller passes) or *)
(* "module" (the config file's export, shared through require's cache).  *)
(* Its css list is "absent", "empty", "given" or "placeholder"; declared   *)
(* keeps the list as it was written.  The purge engine is external: a     *)
(* build is recorded by the options it purged with.                        *)
(***************************************************************************)
EXTENDS Naturals, Sequences

CONSTANTS
  Versions,   \* the contents the config file may have
  CssOf,      \* [Versions -> "absent" | "empty" | "given"]: its css list
  InlineCss,  \* the css list of the caller's object literal
  MaxBuilds,  \* bound on the builds of the process
  MaxEdits    \* bound on the edits of the config file

Objects == {"inline", "module"}

Args == {"undefined", "path", "inline"}

CssValues == {"absent", "empty", "given", "placeholder"}

\* An options object as a config file of version v exports it.
Exported(v) == [version |-> v, css |-> CssOf[v], declared |-> CssOf[v]]

VARIABLES
  arg,      \* what the pipeline passes to the plugin creator
  opts,     \* the closure's opts: an Args value or an object
  heap,     \* [Objects -> the object's version and css list]
  cached,   \* require's cache holds the config module
  disk,     \* the config file: a version, or "missing"
  builds,   \* the builds so far (history)
  edits     \* edits of the config file so far

vars == <<arg, opts, heap, cached, disk, builds, edits>>

Init ==
  /\ arg \in Args
  /\ opts = arg
  /\ heap = [inline |-> [version |-> "inline", css |-> InlineCss, declared |-> InlineCss],
             module |-> [version |-> "none", css |-> "absent", declared |-> "absent"]]
  /\ cached = FALSE
  /\ disk \in Versions \cup {"missing"}
  /\ builds = <<>>
  /\ edits = 0

\* if (typeof opts === 'string' || typeof opts === 'undefined')
NeedsLoad(o) == o \in {"undefined", "path"}

\* Fault variant (PROJECT.json mutants): require() re-reads the file
\* whenever it exists, as after delete require.cache[t].
RequireUncached == IF disk # "missing" THEN Exported(disk) ELSE heap["module"]

\* loadConfigFile: require(path.resolve(process.cwd(), pathConfig)) gives
\* the cached export if the module was loaded before, else the file's.
Require == IF cached THEN heap["module"] ELSE Exported(disk)

\* require() throws, and loadConfigFile rethrows, only when the module is
\* not cached and the file is missing.
ConfigLoadable == cached \/ disk # "missing"

\* if (!opts.css || !opts.css.length) opts.css = ['__postcss_purgecss_placeholder']
DefaultCss(c) == IF c \in {"absent", "empty"} THEN "placeholder" ELSE c

Done(o, h) == [ok |-> TRUE, version |-> h[o].version,
               css |-> DefaultCss(h[o].css), disk |-> disk]

Failed == [ok |-> FALSE, version |-> "none", css |-> "absent", disk |-> disk]

\* Fault variant (PROJECT.json mutants): the build records the object's
\* reference instead of the options read from it.
PurgeRecordingRef(o, h) ==
  /\ heap' = [h EXCEPT ![o].css = DefaultCss(@)]
  /\ builds' = Append(builds, [Done(o, h) EXCEPT !.version = o])

\* Lines 28-64 on the options object o of heap h: the css default is
\* written into the object, then the engine purges with it.
Purge(o, h) ==
  /\ heap' = [h EXCEPT ![o].css = DefaultCss(@)]
  /\ builds' = Append(builds, Done(o, h))

\* A build with opts already an object.
BuildWithOptions ==
  /\ Len(builds) < MaxBuilds
  /\ ~NeedsLoad(opts)
  /\ Purge(opts, heap)
  /\ UNCHANGED <<arg, opts, cached, disk, edits>>

\* opts = loadConfigFile(opts) succeeds: opts is the module's export from
\* now on, and require's cache holds it.
BuildLoadingConfig ==
  /\ Len(builds) < MaxBuilds
  /\ NeedsLoad(opts)
  /\ ConfigLoadable
  /\ opts' = "module"
  /\ cached' = TRUE
  /\ Purge("module", [heap EXCEPT !["module"] = Require])
  /\ UNCHANGED <<arg, disk, edits>>

\* throw new Error(ERROR_CONFIG_FILE_LOADING + e.message): the build
\* rejects and opts keeps its string (or undefined).
BuildConfigMissing ==
  /\ Len(builds) < MaxBuilds
  /\ NeedsLoad(opts)
  /\ ~ConfigLoadable
  /\ builds' = Append(builds, Failed)
  /\ UNCHANGED <<arg, opts, heap, cached, disk, edits>>

\* postcss.plugin('postcss-plugin-purgecss', function(opts) {...})(arg):
\* the pipeline makes a new instance, whose opts is arg again.
NewInstance ==
  /\ opts # arg
  /\ opts' = arg
  /\ UNCHANGED <<arg, heap, cached, disk, builds, edits>>

\* The config file is edited or deleted between builds.
EditConfig ==
  /\ edits < MaxEdits
  /\ disk' \in (Versions \cup {"missing"}) \ {disk}
  /\ edits' = edits + 1
  /\ UNCHANGED <<arg, opts, heap, cached, builds>>

Next ==
  \/ BuildWithOptions \/ BuildLoadingConfig \/ BuildConfigMissing
  \/ NewInstance \/ EditConfig

\* No fairness: the pipeline decides when to build.
Spec == Init /\ [][Next]_vars

-----------------------------------------------------------------------------

TypeOK ==
  /\ arg \in Args
  /\ opts \in Args \cup Objects
  /\ heap \in [Objects -> [version : Versions \cup {"inline", "none"},
                           css : CssValues, declared : CssValues]]
  /\ cached \in BOOLEAN
  /\ disk \in Versions \cup {"missing"}
  /\ builds \in Seq([ok : BOOLEAN, version : Versions \cup {"inline", "none"},
                     css : CssValues, disk : Versions \cup {"missing"}])
  /\ edits \in 0..MaxEdits

(***************************************************************************)
(* Every build of the process purges with one configuration: once a build *)
(* has loaded the config file, later builds use that version, through     *)
(* edits of the file and new plugin instances alike.  This is about the   *)
(* closure's opts (line 26) together with require's module cache (line    *)
(* 16): either one alone pins the version.                                 *)
(***************************************************************************)
ConfigStableWithinProcess ==
  \A i, j \in DOMAIN builds :
    builds[i].ok /\ builds[j].ok => builds[i].version = builds[j].version

=============================================================================
