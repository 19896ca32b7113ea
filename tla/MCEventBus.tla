---------------------------- MODULE MCEventBus ----------------------------
(* A small bus: one callback that only listens and one that answers. *)
EXTENDS EventBus

CONSTANTS listener, replier

MCCallbacks == {listener, replier}
MCRepliers == {replier}
=============================================================================
