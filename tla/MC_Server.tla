----------------------------- MODULE MC_Server -----------------------------
(* Two configurations, that listen on different addresses, which name      *)
(* different sockets.                                                      *)
EXTENDS Server, TLC

CONSTANTS c1, c2, a1, a2, p1, p2

MCListenOf == c1 :> a1 @@ c2 :> a2

TwoSockets == a1 :> p1 @@ a2 :> p2

=============================================================================
