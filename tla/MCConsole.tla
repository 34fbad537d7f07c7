----------------------------- MODULE MCConsole -----------------------------
EXTENDS Console, TLC

CONSTANTS sA, r1, r2, r3

MCLines == {[sid |-> sA, name |-> "blocked", score |-> 3],
            [sid |-> sA, name |-> "suspended", score |-> 5]}
MCSessionIds == {sA}
MCRequests == {r1, r2, r3}
Interchangeable == Permutations(MCRequests)
MCBackends == {"none", "sqlite", "postgres"}
MCMaxLines == [b \in MCBackends |-> IF b = "none" THEN 2 ELSE 3]
MCPageLimits == {0, 2}

User(name, role, password) == [username |-> name, role |-> role, password |-> password]
Ann(role) == User("ann", role, "pw")

\* The same name twice, a demotion, a file with a misspelt role, an empty file;
\* a configured or a random secret; tokens that are set, set to the empty
\* string, named but unset, or not asked for.
EnvSecret == <<"env", 0>>
Local(users, secret) == [users |-> users, secret |-> secret, named |-> FALSE, token |-> Absent,
                         loopback |-> TRUE, override |-> FALSE]
Remote(named, token, override) ==
  [users |-> <<Ann("approver")>>, secret |-> Absent, named |-> named, token |-> token,
   loopback |-> FALSE, override |-> override]
MCCommands == {
  Local(<<Ann("viewer"), Ann("approver")>>, EnvSecret), Local(<<Ann("viewer")>>, EnvSecret),
  Local(<<Ann("aprover")>>, EnvSecret), Local(<<>>, EnvSecret),
  Remote(TRUE, "token", FALSE), Remote(TRUE, "empty", FALSE), Remote(TRUE, Absent, FALSE),
  Remote(FALSE, Absent, TRUE) }
=============================================================================
