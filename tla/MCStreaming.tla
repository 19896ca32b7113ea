----------------------------- MODULE MCStreaming -----------------------------
(* Model values of Streaming for TLC. *)
EXTENDS Streaming

\* More clients than sockets; with FB_COUNT = 1 and SOCKETS = 2 there are more
\* streams than buffers too.
ThreeClients == {"c1", "c2", "c3"}
=============================================================================
