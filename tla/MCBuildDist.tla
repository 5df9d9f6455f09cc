------------------------------ MODULE MCBuildDist ------------------------------
(***************************************************************************)
(* Model for BuildDist: the four files build.js builds.  The builds do the *)
(* same steps on distinct files, so they are symmetric.                    *)
(***************************************************************************)
EXTENDS BuildDist, TLC

CONSTANTS base, components, utilities, tailwind

MCBuilds == {base, components, utilities, tailwind}

BuildSymmetry == Permutations(MCBuilds)

=============================================================================
