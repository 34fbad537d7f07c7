---------------------------- MODULE ConsoleAuth ----------------------------
(***************************************************************************)
(* Who may use the console (console/auth.py, the dependencies and the      *)
(* login of console/app.py, console serve of cli/__init__.py): local users *)
(* from a file, and cookies that carry a name, a role and an expiry under  *)
(* a MAC.  The console keeps no table of sessions, so what a cookie is     *)
(* worth after a restart is settled by the secret alone.                   *)
(*                                                                         *)
(* A MAC is the secret that made it and the body it covers; a password     *)
(* hash stands for its password.                                           *)
(***************************************************************************)
EXTENDS Integers, FiniteSets, Sequences, SequencesExt

CONSTANTS
  Commands,     \* command lines: [users, secret, named, token, loopback, override]
  Names, Passwords, Tokens,
  CookieTTL,    \* CookieSigner ttl_seconds, in ticks
  MaxTime, MaxBoots, MaxLogins,    \* bounds
  Absent        \* a field, variable or answer that is not there

\* users: records in file order; secret, token: the values of the environment
\* variables, or Absent; named: --gateway-token-env was given.
ASSUME CommandsAssumption ==
  /\ CookieTTL \in Nat /\ MaxTime \in Nat /\ MaxBoots \in Nat /\ MaxLogins \in Nat
  /\ \A c \in Commands :
       /\ c.named \in BOOLEAN /\ c.loopback \in BOOLEAN /\ c.override \in BOOLEAN
       /\ c.token \in Tokens \cup {Absent}

VARIABLES
  console,   \* the serving process, or Absent
  boots,     \* how many consoles have started
  now,       \* the clock
  logins     \* the cookies handed out, with (history) when, and by which console

authVars == <<console, boots, now, logins>>

-----------------------------------------------------------------------------
(* Users *)

ROLES == {"viewer", "approver"}

ValidUser(rec) == /\ rec.username # Absent
                  /\ rec.role \in ROLES
                  /\ rec.password # Absent

\* LocalUsers: a file with one bad entry is refused; the last entry of a name
\* counts.
LocalUsers(records) ==
  IF \E i \in DOMAIN records : ~ValidUser(records[i]) THEN Absent
  ELSE LET add(users, rec) ==
             [n \in DOMAIN users \cup {rec.username} |-> IF n = rec.username THEN rec ELSE users[n]]
       IN FoldLeft(add, <<>>, records)

\* authenticate, verify_password: the role of the user, or Absent.
authenticate(users, name, password) ==
  IF name \in DOMAIN users /\ users[name].password = password THEN users[name].role ELSE Absent

-----------------------------------------------------------------------------
(* Cookies *)

Sign(secret, body) == [secret |-> secret, over |-> body]

mint(secret, name, role, at) ==
  LET body == [u |-> name, r |-> role, exp |-> at + CookieTTL] IN
  [body |-> body, mac |-> Sign(secret, body)]

\* Mutant of verify: the expiry is left to the browser.
VerifyForever(secret, cookie) ==
  /\ cookie.mac = Sign(secret, cookie.body)
  /\ cookie.body.r \in ROLES

verify(secret, cookie) ==
  /\ cookie.mac = Sign(secret, cookie.body)
  /\ cookie.body.exp >= now
  /\ cookie.body.r \in ROLES

\* What a browser may send: a cookie it was given, or one whose body was
\* changed without the secret.
Presentable ==
  LET given == {l.cookie : l \in logins} IN
  given \cup {[c EXCEPT !.body.r = r] : c \in given, r \in ROLES \cup {"admin"}}
        \cup {[c EXCEPT !.body.exp = @ + 1] : c \in given}

Serving == console # Absent
current_user(cookie) == Serving /\ verify(console.secret, cookie)
require_approver(cookie) == current_user(cookie) /\ cookie.body.r = "approver"

\* submit_approval: the shared token, if there is one, and no cookie.
MaySubmit(presented) == console.token = Absent \/ presented = console.token

-----------------------------------------------------------------------------

AuthInit == console = Absent /\ boots = 0 /\ now = 0 /\ logins = {}

\* Mutant of Exposed: a token that is named counts as a token.
ExposedUnlessNamed(c) == ~c.named /\ ~c.loopback /\ ~c.override

\* The cookieless endpoint would be open to the network.  Only an unset
\* variable is no token; one set to the empty string is a token.
Exposed(c) == c.token = Absent /\ ~c.loopback /\ ~c.override

\* _run_console_serve: refused with a bad or empty users file, or an exposed
\* endpoint.  Without a secret in the environment a random one is drawn.
StartConsole(c) ==
  LET users == LocalUsers(c.users) IN
  /\ ~Serving /\ boots < MaxBoots
  /\ users # Absent /\ users # <<>>
  /\ ~Exposed(c)
  /\ boots' = boots + 1
  /\ console' = [users |-> users, token |-> c.token, loopback |-> c.loopback,
                 override |-> c.override,
                 secret |-> IF c.secret # Absent THEN c.secret ELSE <<"random", boots'>>]
  /\ UNCHANGED <<now, logins>>

StopConsole ==
  /\ Serving
  /\ console' = Absent
  /\ UNCHANGED <<boots, now, logins>>

Login(name, password) ==
  /\ Serving /\ Cardinality(logins) < MaxLogins
  /\ LET role == authenticate(console.users, name, password) IN
     /\ role # Absent
     /\ logins' = logins \cup {[cookie |-> mint(console.secret, name, role, now),
                                at |-> now, boot |-> boots]}
  /\ UNCHANGED <<console, boots, now>>

\* logout: the browser forgets its cookie; the console has nothing to forget.
Logout(l) ==
  /\ l \in logins
  /\ logins' = logins \ {l}
  /\ UNCHANGED <<console, boots, now>>

PassTime ==
  /\ now < MaxTime
  /\ now' = now + 1
  /\ UNCHANGED <<console, boots, logins>>

-----------------------------------------------------------------------------
(* Properties *)

\* The users a console has and the secret it signs with decide everything: at
\* any time, whoever can resolve an approval logged in as an approver less than
\* a cookie's lifetime ago, with the password of the file served then, and with
\* this very console or with one that had the same configured secret.  No
\* edited cookie, no old one, and no earlier run with a random secret helps.
\* (auth.py CookieSigner, app.py require_approver, cli console serve)
ApproverAuthority ==
  \A c \in Presentable : require_approver(c) =>
    \E l \in logins :
      /\ l.cookie.body.u = c.body.u /\ l.cookie.body.r = "approver"
      /\ now <= l.at + CookieTTL
      /\ l.cookie.mac.secret = console.secret
      /\ l.boot # boots => \E d \in Commands : d.secret = console.secret

\* A peer on the network that does not have the shared token can park an
\* approval only where the operator asked for it: the check at the start and
\* the check of each request add up.  A variable set to the empty string is a
\* token here, which a peer that sends an empty header has.  (cli console
\* serve, app.py submit_approval, auth.py is_loopback_host)
StrangersCannotSubmit ==
  Serving => \A presented \in {Absent} \cup Tokens :
    MaySubmit(presented) =>
      console.loopback \/ console.override \/ presented \in {console.token} \ {Absent}


\* The approval queue is closed to outsiders on both sides: to those who would
\* decide and to those who would submit.  (app.py resolve_approval,
\* submit_approval; cli console serve)
QueueIsGuarded == ApproverAuthority /\ StrangersCannotSubmit
=============================================================================
