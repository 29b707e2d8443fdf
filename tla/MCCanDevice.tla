---------------------------- MODULE MCCanDevice ----------------------------
(* Plugins for CanDevice's runs.                                             *)
EXTENDS CanDevice

AllBackends == {"serialbus", "cannelloni", "direct"}
CannelloniOnly == {"cannelloni"}
=============================================================================
