----------------------------- MODULE MCGateway -----------------------------
(* Instances of Gateway for TLC: the policies the runs enforce. *)
EXTENDS Gateway, TLC

\* A source, and a sink that needs a human: the taint gate passes before the
\* human answers.
OfficeTools == {"fetch", "post", "read", "drop"}
OfficeActions == "fetch" :> "allow" @@ "post" :> "require_approval" @@
                 "read" :> "redact" @@ "drop" :> "block"
OfficeThen == [t \in OfficeTools |-> IF t = "post" THEN "redact" ELSE "allow"]
OfficeSources == {"fetch"}
OfficeSinks == {"post"}
OfficeRules == {}

\* No sink and no forbidden tool waits for a human; one source does.
ShopTools == {"ask", "push", "list", "logs", "drop"}
ShopActions == "ask" :> "require_approval" @@ "push" :> "rewrite" @@
               "list" :> "allow" @@ "logs" :> "quarantine" @@ "drop" :> "block"
ShopThen == [t \in ShopTools |-> "redact"]
ShopSources == {"ask"}
ShopSinks == {"push"}
ShopRules == {<<"list", "logs">>}

\* Weights small enough that two or three events suspend the session.
RiskWeights ==
  "blocked_tool" :> 2 @@ "constraint_violation" :> 2 @@ "sequence_violation" :> 3 @@
  "approval_denied" :> 2 @@ "heavy_redaction" :> 2 @@ "anomaly_low" :> -1 @@
  "anomaly_medium" :> 2 @@ "anomaly_high" :> 4

Symmetry == Permutations(Calls) \cup Permutations(Ids)
=============================================================================
