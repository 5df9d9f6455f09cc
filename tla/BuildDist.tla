------------------------------ MODULE BuildDist ------------------------------
(***************************************************************************)
(* lib/build.js: four buildDistFile promises under Promise.all on the Node *)
(* event loop.  Each build reads its source file (fs callback), runs the   *)
(* postcss pipeline (a promise), writes dist/<f>.css and dist/<f>.css.map  *)
(* in one .then callback, minifies and writes dist/<f>.min.css in the next, *)
(* and resolves; any rejection in the chain is caught and calls reject().  *)
(* Callbacks of different builds interleave in any order.  An error passed *)
(* to the readFile callback is thrown there: nothing catches it, so the    *)
(* process dies at once.  Promise.all's rejection has no handler; whether  *)
(* that unhandled rejection kills the process depends on the Node version  *)
(* (it does from Node 15 on), so it is chosen in Init.                     *)
(* Every fs and postcss step may fail.                                      *)
(***************************************************************************)
EXTENDS Integers, FiniteSets

CONSTANT Builds  \* the file names given to buildDistFile

Files == {"css", "map", "min"}

\* with map: {inline: false} postcss always sets result.map, so
\* `if (result.map)` always writes the .css.map file.

\* writeFileSync(dist/<f>.css), then writeFileSync(dist/<f>.css.map): the
\* files after the first n of them were written.
WriteFirst(files, n) ==
  [f \in Files |-> IF f \in {"css", "map"} \cap {<<"css", "map">>[k] : k \in 1..n}
                   THEN "new" ELSE files[f]]

Working == {"reading", "processing", "writing", "minifying"}

Settled == {"resolved", "rejected"}

VARIABLES
  pc,                 \* [Builds -> where each build's chain is]
  dist,               \* [Builds -> [Files -> "old" | "new"]]
  all,                \* Promise.all: "pending", "fulfilled", "rejected"
  finished,           \* 'Finished Building Tailwind!' was logged
  alive,              \* the process runs
  exitCode,           \* -1 while it runs
  crashOnUnhandled    \* the Node runtime ends the process on an unhandled rejection

vars == <<pc, dist, all, finished, alive, exitCode, crashOnUnhandled>>

\* Promise.all([...]) with the executors run: every readFile is issued.
Init ==
  /\ pc = [b \in Builds |-> "reading"]
  /\ dist = [b \in Builds |-> [f \in Files |-> "old"]]
  /\ all = "pending"
  /\ finished = FALSE
  /\ alive = TRUE
  /\ exitCode = -1
  /\ crashOnUnhandled \in BOOLEAN

\* resolve(): Promise.all fulfils when the last of its promises does.
Resolve(b) ==
  /\ pc' = [pc EXCEPT ![b] = "resolved"]
  /\ all' = IF all = "pending" /\ \A o \in Builds \ {b} : pc[o] = "resolved"
            THEN "fulfilled" ELSE all

\* .catch(error => { console.log(error); reject(); }): Promise.all
\* rejects with the first rejection.
Reject(b) ==
  /\ pc' = [pc EXCEPT ![b] = "rejected"]
  /\ all' = IF all = "pending" THEN "rejected" ELSE all

\* fs.readFile(..., (err, css) => { ... postcss(...).process(css, ...) })
ReadFileDone(b) ==
  /\ alive
  /\ pc[b] = "reading"
  /\ pc' = [pc EXCEPT ![b] = "processing"]
  /\ UNCHANGED <<dist, all, finished, alive, exitCode, crashOnUnhandled>>

\* if (err) throw err: an uncaught exception in an fs callback.
ReadFileFails(b) ==
  /\ alive
  /\ pc[b] = "reading"
  /\ alive' = FALSE
  /\ exitCode' = 1
  /\ UNCHANGED <<pc, dist, all, finished, crashOnUnhandled>>

\* The postcss promise settles: fulfilled, or rejected into the .catch.
ProcessDone(b) ==
  /\ alive
  /\ pc[b] = "processing"
  /\ \/ /\ pc' = [pc EXCEPT ![b] = "writing"]
        /\ UNCHANGED all
     \/ Reject(b)
  /\ UNCHANGED <<dist, finished, alive, exitCode, crashOnUnhandled>>

\* Fault variant (PROJECT.json mutants): resolve() chained after the first
\* .then, so the minify step runs after the promise has resolved.
WriteResultResolving(b) ==
  /\ alive
  /\ pc[b] = "writing"
  /\ \E written \in 0..2 :
       /\ dist' = [dist EXCEPT ![b] = WriteFirst(@, written)]
       /\ IF written = 2 THEN Resolve(b) ELSE Reject(b)
  /\ UNCHANGED <<finished, alive, exitCode, crashOnUnhandled>>

\* .then(result => { writeFileSync(css); writeFileSync(map); }): the
\* first `written` of the two writes succeed; a throwing one rejects.
WriteResult(b) ==
  /\ alive
  /\ pc[b] = "writing"
  /\ \E written \in 0..2 :
       /\ dist' = [dist EXCEPT ![b] = WriteFirst(@, written)]
       /\ IF written = 2
          THEN pc' = [pc EXCEPT ![b] = "minifying"] /\ UNCHANGED all
          ELSE Reject(b)
  /\ UNCHANGED <<finished, alive, exitCode, crashOnUnhandled>>

\* .then(result => { writeFileSync(min) }).then(resolve)
WriteMinified(b) ==
  /\ alive
  /\ pc[b] = "minifying"
  /\ \/ /\ dist' = [dist EXCEPT ![b]["min"] = "new"]
        /\ Resolve(b)
     \/ /\ Reject(b)
        /\ UNCHANGED dist
  /\ UNCHANGED <<finished, alive, exitCode, crashOnUnhandled>>

\* Promise.all(...).then(() => console.log('Finished Building Tailwind!'))
LogFinished ==
  /\ alive
  /\ all = "fulfilled"
  /\ ~finished
  /\ finished' = TRUE
  /\ UNCHANGED <<pc, dist, all, alive, exitCode, crashOnUnhandled>>

\* The rejection of Promise.all reaches no handler.
UnhandledRejection ==
  /\ alive
  /\ all = "rejected"
  /\ crashOnUnhandled
  /\ alive' = FALSE
  /\ exitCode' = 1
  /\ UNCHANGED <<pc, dist, all, finished, crashOnUnhandled>>

\* Nothing is left on the event loop: the process ends with status 0.
Exit ==
  /\ alive
  /\ \A b \in Builds : pc[b] \notin Working
  /\ all = "fulfilled" => finished
  /\ ~(all = "rejected" /\ crashOnUnhandled)
  /\ alive' = FALSE
  /\ exitCode' = 0
  /\ UNCHANGED <<pc, dist, all, finished, crashOnUnhandled>>

Next ==
  \/ \E b \in Builds :
       ReadFileDone(b) \/ ReadFileFails(b) \/ ProcessDone(b)
       \/ WriteResult(b) \/ WriteMinified(b)
  \/ LogFinished
  \/ UnhandledRejection
  \/ Exit

\* No fairness: the properties checked are safety properties.
Spec == Init /\ [][Next]_vars

-----------------------------------------------------------------------------

TypeOK ==
  /\ pc \in [Builds -> Working \cup Settled]
  /\ dist \in [Builds -> [Files -> {"old", "new"}]]
  /\ all \in {"pending", "fulfilled", "rejected"}
  /\ finished \in BOOLEAN
  /\ alive \in BOOLEAN
  /\ exitCode \in {-1, 0, 1}
  /\ crashOnUnhandled \in BOOLEAN

(***************************************************************************)
(* 'Finished Building Tailwind!' is logged only when every build wrote all *)
(* three of its dist files: Promise.all fulfils only after each chain has  *)
(* reached resolve, which follows the last write.                          *)
(***************************************************************************)
FinishedOnlyWhenComplete ==
  finished => \A b \in Builds : \A f \in Files : dist[b][f] = "new"

(***************************************************************************)
(* spec.md 7: build errors propagate to the caller.  The process ends with *)
(* status 0 only when the build finished; a rejected build is a failure.   *)
(***************************************************************************)
SuccessOnlyWhenFinished ==
  exitCode = 0 => finished

=============================================================================
