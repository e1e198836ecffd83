----------------------------- MODULE MCWebServer -----------------------------
(* Instances of WebServer for TLC. *)
EXTENDS WebServer

CONSTANTS v1, v2

NoLock   == {<<>>}
OneLock  == {<<>>, <<v1>>}
TwoLocks == {<<v1, v2>>, <<v2, v1>>}
=============================================================================
