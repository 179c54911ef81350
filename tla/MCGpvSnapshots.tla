--------------------------- MODULE MCGpvSnapshots ---------------------------
(* Two reports with another RUC for the same placement; the first has a row    *)
(* that cannot be read.                                                        *)
EXTENDS GpvSnapshots, TLC

CONSTANTS r1, r2, k1, u1, u2

MCRowsOf == r1 :> (k1 :> u1) @@ r2 :> (k1 :> u2)

\* The second is cut before, with or after the first.
MCCutsOf == r1 :> {2} @@ r2 :> {1, 2, 3}

MCRejectedRows == r1 :> {1} @@ r2 :> {}
=============================================================================
