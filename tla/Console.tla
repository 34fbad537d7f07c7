------------------------------ MODULE Console ------------------------------
(***************************************************************************)
(* The console as a whole: its users and cookies (ConsoleAuth) with its    *)
(* read model and live feed (AuditIndex).  A feed is opened with a cookie  *)
(* that is good at that moment and lives as long as its connection; it     *)
(* ends with the console that serves it.                                   *)
(*                                                                         *)
(* Users come and go in the behaviours where the feed is watched (backend  *)
(* "none"); a request of the index is one that a user who is in has made,  *)
(* or a reindex command.                                                   *)
(***************************************************************************)
EXTENDS AuditIndex, ConsoleAuth

indexVars == <<spool, events, rows, next, req, backend, feed, rebuilds, crashes, raced>>
consoleVars == <<indexVars, authVars>>

ConsoleInit == Init /\ AuthInit

\* GET /api/stream with Depends(current_user).
OpenFeed ==
  /\ \E c \in Presentable : current_user(c)
  /\ Connect
  /\ UNCHANGED authVars

Stop ==
  /\ StopConsole
  /\ feed' = [feed EXCEPT !.stream = NoFeed]
  /\ UNCHANGED <<spool, events, rows, next, req, backend, rebuilds, crashes, raced>>

Users ==
  /\ \/ \E c \in Commands : StartConsole(c)
     \/ \E n \in Names, pw \in Passwords : Login(n, pw)
     \/ \E l \in logins : Logout(l)
     \/ PassTime
  /\ UNCHANGED indexVars

ConsoleNext ==
  \/ IndexNext /\ UNCHANGED authVars
  \/ OpenFeed
  \/ backend = "none" /\ (Users \/ Stop)

ConsoleSpec == ConsoleInit /\ [][ConsoleNext]_consoleVars
=============================================================================
