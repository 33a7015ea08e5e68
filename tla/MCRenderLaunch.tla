----------------------------- MODULE MCRenderLaunch -----------------------------
(* Instances of RenderLaunch for TLC. *)
EXTENDS RenderLaunch, TLC

===============================================================================
