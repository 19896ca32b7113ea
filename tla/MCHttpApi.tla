----------------------------- MODULE MCHttpApi -----------------------------
(* Model values of HttpApi for TLC. *)
EXTENDS HttpApi

OneBlock == {1}
TwoBlocks == {1, 2}

AllEndpoints == AllKinds
\* One endpoint of each sort: one that answers, one that changes the
\* configuration, and the one with the long wait.
Station == {"sta_get", "sta_post", "wifi_scan"}
PostSta1 == {"sta_post"}
=============================================================================
