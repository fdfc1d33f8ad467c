----------------------------- MODULE MCPanelPtt -----------------------------
(* Instances of PanelPtt for TLC. *)
EXTENDS PanelPtt
=============================================================================
