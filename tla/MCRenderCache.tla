--------------------------- MODULE MCRenderCache ----------------------------
(* An instance of RenderCache for TLC.  It has no symmetry set: the run       *)
(* checks liveness.                                                           *)
EXTENDS RenderCache
=============================================================================
