------------------------- MODULE MCDatabaseAccess -------------------------
(* Two requests in two processes. *)
EXTENDS DatabaseAccess
CONSTANTS r1, r2, w1, w2
MCDatabases == {"primary", "fallback"}
MCKinds == {"read", "write", "export", "restore", "health", "job"}
MCHome == [r \in Requests |-> IF r = r1 THEN w1 ELSE w2]
=============================================================================
