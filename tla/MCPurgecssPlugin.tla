--------------------------- MODULE MCPurgecssPlugin ---------------------------
(***************************************************************************)
(* Two versions of the config file: one with a css list, one with an empty *)
(* one; the caller's object literal has none.  Three builds and two edits  *)
(* reach an edit (or a deletion) between two builds of one instance and    *)
(* between two instances.                                                  *)
(***************************************************************************)
EXTENDS PurgecssPlugin, TLC

CONSTANTS v1, v2

MCCssOf == (v1 :> "given") @@ (v2 :> "empty")

=============================================================================
