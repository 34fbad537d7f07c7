---------------------------- MODULE SharedState ----------------------------
(* Gateway processes that share a session in Redis and a token vault in       *)
(* SQLite.  The two stores do not interact; a process that ends loses its     *)
(* session copy and its vault connection together.                            *)
EXTENDS SessionStore, TokenVault

vars == <<sessVars, vaultVars>>

Init == SessInit /\ VaultInit

\* The gateway process dies, or is stopped, at any point.
Crash(p) ==
  /\ Bound(p) \/ phase[p] = "creating" \/ vault[p].st # "closed"
  /\ IF Bound(p) \/ phase[p] = "creating" THEN Release(p) ELSE UNCHANGED sessVars
  /\ IF vault[p].st # "closed" THEN CloseVault(p) ELSE UNCHANGED vaultVars

Next == \/ SessNext /\ UNCHANGED vaultVars
        \/ VaultNext /\ UNCHANGED sessVars
        \/ \E p \in Procs \cap Replicas : Crash(p)

Spec == Init /\ [][Next]_vars
=============================================================================
