---------------------------- MODULE MCProxySync ----------------------------
(* One name that is in the user's file, one that is not; a store.         *)
EXTENDS ProxySync

CONSTANTS web, ssh

MCFiles  == {web :> 1 @@ ssh :> 0}
MCStores == {web :> 0 @@ ssh :> 0, web :> 0 @@ ssh :> 1}
=============================================================================
