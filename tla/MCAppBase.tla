----------------------------- MODULE MCAppBase ------------------------------
(***************************************************************************)
(* AppBase for TLC with the plugins of nodeos, what each requires, and the *)
(* order in which nodeos gives them to initialize.                         *)
(***************************************************************************)
EXTENDS AppBase

NodeosPlugins == {"http", "chain", "chain_api", "sqlite", "schedule"}

NodeosRequires ==
    [p \in NodeosPlugins |->
        CASE p = "chain"     -> <<"sqlite">>
          [] p = "chain_api" -> <<"chain", "http">>
          [] OTHER           -> <<>>]

NodeosAutostart == <<"http", "chain", "chain_api", "sqlite", "schedule">>

(***************************************************************************)
(* The same with two more plugins that require each other, as the macro    *)
(* allows, one of them also schedule, and on which chain_api is made to    *)
(* depend.                                                                 *)
(***************************************************************************)
CyclePlugins == NodeosPlugins \cup {"a", "b"}

CycleRequires ==
    [p \in CyclePlugins |->
        CASE p = "chain_api" -> <<"chain", "a", "http">>
          [] p = "a"         -> <<"b", "schedule">>
          [] p = "b"         -> <<"a">>
          [] OTHER           -> NodeosRequires[p]]
=============================================================================
