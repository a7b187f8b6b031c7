----------------------------- MODULE MCWsServer -----------------------------
(* WsServer on small instances. *)
EXTENDS WsServer, TLC

\* Viewers differ only in whether malloc may fail for them.
ViewerSymmetry == Permutations(Oom) \cup Permutations(Viewers \ Oom)
=============================================================================
