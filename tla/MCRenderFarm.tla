--------------------------- MODULE MCRenderFarm ---------------------------
(* RenderFarm on small instances. *)
EXTENDS RenderFarm
=============================================================================
