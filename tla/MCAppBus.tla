------------------------------ MODULE MCAppBus ------------------------------
(***************************************************************************)
(* AppBus for TLC with the plugins of nodeos (module MCAppBase).           *)
(***************************************************************************)
EXTENDS MCAppBase, AppBus
=============================================================================
