---------------------------- MODULE MCPanelCard ----------------------------
(***************************************************************************)
(* PanelCard for TLC: one card, over a safe and over an unsafe operation.  *)
(***************************************************************************)
EXTENDS PanelCard
============================================================================
