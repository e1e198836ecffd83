---------------------------- MODULE MCRsdClients ----------------------------
(* Two threads, two credentials, a cache for one client. *)
EXTENDS RsdClients

CONSTANTS t1, t2, c1, c2

Together ==
  {{"test", "save"}, {"save", "revoke"}, {"pull", "save"}, {"pull", "pdf", "expire"},
   {"start", "pdf", "revoke"}, {"update", "revoke"}, {"poll"}}
TestAndSave == {{"test", "save"}}
=============================================================================
