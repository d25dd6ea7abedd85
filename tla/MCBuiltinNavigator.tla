------------------------ MODULE MCBuiltinNavigator ------------------------
(* Two client threads (an asyncio.to_thread pool in use by two requests).   *)
EXTENDS BuiltinNavigator, TLC

CONSTANTS c1, c2

MCClients == {c1, c2}

=============================================================================
