--------------------------- MODULE ConsoleProofs ---------------------------
(***************************************************************************)
(* The console, for every spool and every number of requests, commands,    *)
(* users and restarts: the index has no hole, its pages miss nothing, the  *)
(* live feed shows every event once and in order, and the approval queue   *)
(* is closed to those who have no right to it.                             *)
(***************************************************************************)
EXTENDS Console, FiniteSetTheorems, WellFoundedInduction, TLAPS

-----------------------------------------------------------------------------
(* Sorting: Ascending(S) lists a finite set of offsets in their order.     *)

LEMMA Ranking ==
  ASSUME NEW S \in SUBSET Int, IsFiniteSet(S)
  PROVE  /\ Ascending(S) \in [1..Cardinality(S) -> S]
         /\ \A i, j \in 1..Cardinality(S) : i < j => Ascending(S)[i] < Ascending(S)[j]
<1> DEFINE Below(x) == {y \in S : y < x}
           n == Cardinality(S)
           rank == [x \in S |-> Cardinality(Below(x)) + 1]
<1>0. n \in Nat
  BY FS_CardinalityType
<1>1. ASSUME NEW x \in S
      PROVE  IsFiniteSet(Below(x)) /\ Cardinality(Below(x)) \in 0..n - 1
  <2>1. Below(x) \in SUBSET S /\ S # Below(x)
    OBVIOUS
  <2>2. IsFiniteSet(Below(x)) /\ Cardinality(Below(x)) <= n /\ Cardinality(Below(x)) # n
    BY <2>1, FS_Subset
  <2>3. Cardinality(Below(x)) \in Nat
    BY <2>2, FS_CardinalityType
  <2> QED
    BY <1>0, <2>2, <2>3
<1>2. ASSUME NEW x \in S, NEW z \in S, x < z
      PROVE  Cardinality(Below(x)) < Cardinality(Below(z))
  <2>0. x \in Int /\ z \in Int
    OBVIOUS
  <2>1. Below(x) \in SUBSET Below(z) /\ Below(z) # Below(x)
    <3>1. \A y \in S : y < x => y < z
      BY <1>2, <2>0
    <3>2. x \in Below(z) /\ x \notin Below(x)
      BY <1>2, <2>0
    <3> QED
      BY <3>1, <3>2
  <2>2. /\ Cardinality(Below(x)) <= Cardinality(Below(z))
        /\ Cardinality(Below(x)) # Cardinality(Below(z))
    BY <1>1, <2>1, FS_Subset
  <2> QED
    BY <1>1, <2>2
<1>2a. Ascending(S) = [i \in 1..n |-> CHOOSE x \in S : Cardinality(Below(x)) = i - 1]
  BY DEF Ascending
<1> HIDE DEF Below
<1>3. rank \in [S -> 1..n] /\ \A x \in S : rank[x] = Cardinality(Below(x)) + 1
  BY <1>0, <1>1
<1>4. \A x, z \in S : x < z => rank[x] < rank[z]
  BY <1>1, <1>2, <1>3
<1> HIDE DEF rank, n
<1>5. \A x, z \in S : rank[x] = rank[z] => x = z
  <2> SUFFICES ASSUME NEW x \in S, NEW z \in S, rank[x] = rank[z], x # z PROVE FALSE
    OBVIOUS
  <2>1. x \in Int /\ z \in Int /\ rank[x] \in 1..n
    BY <1>3
  <2>2. x < z \/ z < x
    BY <2>1
  <2> QED
    BY <1>0, <1>4, <2>1, <2>2
<1>6. rank \in Injection(S, 1..n)
  BY <1>3, <1>5 DEF Injection, IsInjective
<1>7. IsFiniteSet(1..n) /\ Cardinality(1..n) = n
  BY <1>0, FS_Interval
<1>8. rank \in Surjection(S, 1..n)
  BY <1>6, <1>7, FS_Injection DEF n
<1>9. \A i \in 1..n : \E x \in S : rank[x] = i
  BY <1>8 DEF Surjection
<1> DEFINE f == Ascending(S)
<1>10. f \in [1..n -> S] /\ \A i \in 1..n : rank[f[i]] = i
  <2>0. ASSUME NEW i \in 1..n, NEW x \in S
        PROVE  rank[x] = i <=> Cardinality(Below(x)) = i - 1
    <3>1. rank[x] = Cardinality(Below(x)) + 1 /\ Cardinality(Below(x)) \in Int /\ i \in Int
      BY <1>0, <1>1, <1>3
    <3> QED
      BY <3>1
  <2>1. \A i \in 1..n : \E x \in S : Cardinality(Below(x)) = i - 1
    BY <1>9, <2>0
  <2>2. \A i \in 1..n : f[i] \in S /\ Cardinality(Below(f[i])) = i - 1
    BY <1>2a, <2>1
  <2>3. DOMAIN f = 1..n
    BY <1>2a
  <2>4. f \in [1..n -> S]
    BY <1>2a, <2>2
  <2> QED
    BY <2>0, <2>2, <2>4
<1> HIDE DEF f
<1>11. ASSUME NEW i \in 1..n, NEW j \in 1..n, i < j PROVE f[i] < f[j]
  <2>1. f[i] \in S /\ f[j] \in S /\ f[i] \in Int /\ f[j] \in Int
    BY <1>10
  <2>2. f[j] < f[i] => j < i
    BY <1>4, <1>10, <2>1
  <2>3. f[i] # f[j]
    BY <1>10, <1>11
  <2> QED
    BY <1>0, <1>11, <2>1, <2>2, <2>3
<1> QED
  BY <1>10, <1>11 DEF n, f

\* What a sequence of that kind has, in either order.
AllDistinct(f, n) == \A i, j \in 1..n : i # j => f[i] # f[j]

Reaches(f, S) == \A x \in S : \E i \in 1..Len(f) : f[i] = x

LEMMA Enumerates ==
  ASSUME NEW S \in SUBSET Int, IsFiniteSet(S), NEW f \in [1..Cardinality(S) -> S],
         AllDistinct(f, Cardinality(S))
  PROVE  /\ Cardinality(S) \in Nat
         /\ f \in Seq(S) /\ Len(f) = Cardinality(S)
         /\ Reaches(f, S)
<1>1. Cardinality(S) \in Nat
  BY FS_CardinalityType
<1>2. f \in Seq(S) /\ Len(f) = Cardinality(S)
  BY <1>1
<1>3. f \in Injection(1..Cardinality(S), S)
  BY DEF Injection, IsInjective, AllDistinct
<1>4. Cardinality(1..Cardinality(S)) = Cardinality(S)
  BY <1>1, FS_Interval
<1>5. f \in Surjection(1..Cardinality(S), S)
  BY <1>3, <1>4, FS_Injection
<1> QED
  BY <1>1, <1>2, <1>5 DEF Surjection, Reaches

LEMMA AscendingFacts ==
  ASSUME NEW S \in SUBSET Int, IsFiniteSet(S)
  PROVE  /\ Ascending(S) \in Seq(S)
         /\ \A i, j \in 1..Len(Ascending(S)) : i < j => Ascending(S)[i] < Ascending(S)[j]
         /\ \A x \in S : \E i \in 1..Len(Ascending(S)) : Ascending(S)[i] = x
<1> DEFINE f == Ascending(S)
           n == Cardinality(S)
<1>0. n \in Nat
  BY FS_CardinalityType
<1>1. f \in [1..n -> S]
  BY Ranking
<1>2. \A i, j \in 1..n : i < j => f[i] < f[j]
  BY Ranking
<1> HIDE DEF f
<1>3. \A i, j \in 1..n : i # j => f[i] # f[j]
  <2> SUFFICES ASSUME NEW i \in 1..n, NEW j \in 1..n, i # j PROVE f[i] # f[j]
    OBVIOUS
  <2>1. f[i] \in Int /\ f[j] \in Int
    BY <1>1
  <2>2. i < j \/ j < i
    BY <1>0
  <2> QED
    BY <1>2, <2>1, <2>2
<1>4. f \in Seq(S) /\ Len(f) = n /\ \A x \in S : \E i \in 1..Len(f) : f[i] = x
  <2>1. f \in [1..Cardinality(S) -> S]
    BY <1>1
  <2>2. AllDistinct(f, Cardinality(S))
    BY <1>3 DEF AllDistinct
  <2>3. f \in Seq(S) /\ Len(f) = Cardinality(S) /\ Reaches(f, S)
    BY <2>1, <2>2, Enumerates
  <2> QED
    BY <2>3 DEF Reaches
<1> QED
  BY <1>2, <1>4 DEF f

LEMMA DescendingFacts ==
  ASSUME NEW S \in SUBSET Int, IsFiniteSet(S)
  PROVE  /\ Descending(S) \in Seq(S)
         /\ \A i, j \in 1..Len(Descending(S)) : i < j => Descending(S)[i] > Descending(S)[j]
         /\ \A x \in S : \E i \in 1..Len(Descending(S)) : Descending(S)[i] = x
<1> DEFINE f == Descending(S)
           n == Cardinality(S)
<1>0. n \in Nat
  BY FS_CardinalityType
<1> DEFINE g == Ascending(S)
<1>1. g \in [1..n -> S] /\ \A i, j \in 1..n : i < j => g[i] < g[j]
  BY Ranking
<1> HIDE DEF g
<1> DEFINE h == [i \in 1..n |-> g[n + 1 - i]]
<1>2. h \in [1..n -> S] /\ \A i, j \in DOMAIN h : i < j => h[i] > h[j]
  <2>1. \A i \in 1..n : n + 1 - i \in 1..n /\ h[i] = g[n + 1 - i]
    BY <1>0
  <2>2. h \in [1..n -> S]
    BY <1>1, <2>1
  <2>3. ASSUME NEW i \in 1..n, NEW j \in 1..n, i < j PROVE h[i] > h[j]
    <3>1. n + 1 - j < n + 1 - i
      BY <1>0, <2>3
    <3>2. g[n + 1 - j] < g[n + 1 - i] /\ g[n + 1 - j] \in Int /\ g[n + 1 - i] \in Int
      BY <1>1, <2>1, <3>1
    <3> QED
      BY <2>1, <3>2
  <2> QED
    BY <2>2, <2>3
<1>3. f \in [1..n -> S] /\ \A i, j \in DOMAIN f : i < j => f[i] > f[j]
  <2>1. g \in Seq(S) /\ Len(g) = n
    BY <1>0, <1>1
  <2>2. \A i \in 1..n : (n - i) + 1 = n + 1 - i
    BY <1>0
  <2>3. f = [i \in 1..n |-> g[(n - i) + 1]]
    BY <2>1 DEF Descending, Reverse, g
  <2>4. f = h
    BY <2>2, <2>3
  <2> HIDE DEF f, h
  <2> QED
    BY <1>2, <2>4
<1> HIDE DEF f, h
<1>4. \A i, j \in 1..n : i < j => f[i] > f[j]
  BY <1>3
<1>5. \A i, j \in 1..n : i # j => f[i] # f[j]
  <2> SUFFICES ASSUME NEW i \in 1..n, NEW j \in 1..n, i # j PROVE f[i] # f[j]
    OBVIOUS
  <2>1. f[i] \in Int /\ f[j] \in Int
    BY <1>3
  <2>2. i < j \/ j < i
    BY <1>0
  <2> QED
    BY <1>4, <2>1, <2>2
<1>6. f \in Seq(S) /\ Len(f) = n /\ \A x \in S : \E i \in 1..Len(f) : f[i] = x
  <2>1. f \in [1..Cardinality(S) -> S]
    BY <1>3
  <2>2. AllDistinct(f, Cardinality(S))
    BY <1>5 DEF AllDistinct
  <2>3. f \in Seq(S) /\ Len(f) = Cardinality(S) /\ Reaches(f, S)
    BY <2>1, <2>2, Enumerates
  <2> QED
    BY <2>3 DEF Reaches
<1> QED
  BY <1>4, <1>6 DEF f

-----------------------------------------------------------------------------
(* Users and cookies.  A MAC covers the whole body, so a cookie that       *)
(* verifies is one that was handed out; a random secret is drawn once.     *)

Genuine(l) ==
  /\ l.at \in Nat
  /\ l.cookie = [body |-> l.cookie.body, mac |-> l.cookie.mac]
  /\ l.cookie.mac = [secret |-> l.cookie.mac.secret, over |-> l.cookie.body]
  /\ l.cookie.body = [u |-> l.cookie.body.u, r |-> l.cookie.body.r, exp |-> l.at + CookieTTL]
  /\ \/ \E d \in Commands : d.secret = l.cookie.mac.secret
     \/ l.cookie.mac.secret = <<"random", l.boot>>

AuthOK ==
  /\ now \in Nat /\ boots \in Nat
  /\ \A l \in logins : Genuine(l)
  /\ Serving =>
       /\ console.token = Absent => console.loopback \/ console.override
       /\ \/ \E d \in Commands : d.secret = console.secret
          \/ console.secret = <<"random", boots>>

\* An edited cookie does not verify, so a presented one that does is genuine.
LEMMA PresentedIsGiven ==
  ASSUME AuthOK, NEW c \in Presentable, NEW secret, verify(secret, c)
  PROVE  \E l \in logins : c.body = l.cookie.body /\ l.cookie.mac.secret = secret
<1>1. PICK l \in logins :
        \/ c = l.cookie
        \/ \E r \in ROLES \cup {"admin"} : c = [l.cookie EXCEPT !.body.r = r]
        \/ c = [l.cookie EXCEPT !.body.exp = @ + 1]
  BY DEF Presentable
<1>2. l.cookie = [body |-> l.cookie.body, mac |-> l.cookie.mac]
  BY DEF AuthOK, Genuine
<1>3. c.mac = l.cookie.mac
  BY <1>1, <1>2
<1>4. c.mac = [secret |-> secret, over |-> c.body]
  BY DEF verify, Sign
<1>5. l.cookie.mac = [secret |-> l.cookie.mac.secret, over |-> l.cookie.body]
  BY DEF AuthOK, Genuine
<1>6. c.mac.secret = secret /\ c.mac.over = c.body
  BY <1>4
<1>7. c.mac.over = l.cookie.body
  BY <1>3, <1>5
<1> QED
  BY <1>3, <1>6, <1>7

LEMMA AuthGuards == AuthOK => QueueIsGuarded
<1> SUFFICES ASSUME AuthOK PROVE QueueIsGuarded
  OBVIOUS
<1>1. StrangersCannotSubmit
  BY DEF AuthOK, StrangersCannotSubmit, MaySubmit
<1>2. ASSUME NEW c \in Presentable, require_approver(c)
      PROVE  \E l \in logins :
               /\ l.cookie.body.u = c.body.u /\ l.cookie.body.r = "approver"
               /\ now <= l.at + CookieTTL
               /\ l.cookie.mac.secret = console.secret
               /\ l.boot # boots => \E d \in Commands : d.secret = console.secret
  <2>1. Serving /\ verify(console.secret, c) /\ c.body.r = "approver"
    BY <1>2 DEF require_approver, current_user
  <2>2. PICK l \in logins : c.body = l.cookie.body /\ l.cookie.mac.secret = console.secret
    BY <2>1, PresentedIsGiven
  <2>3. Genuine(l)
    BY DEF AuthOK
  <2>4. l.cookie.body.exp = l.at + CookieTTL /\ c.body.exp >= now
    BY <2>1, <2>3 DEF Genuine, verify
  <2>5. now <= l.at + CookieTTL
    BY <2>2, <2>3, <2>4, CommandsAssumption DEF AuthOK, Genuine
  <2>6. l.boot # boots => \E d \in Commands : d.secret = console.secret
    <3> SUFFICES ASSUME l.boot # boots, ~ \E d \in Commands : d.secret = console.secret
                 PROVE  FALSE
      OBVIOUS
    <3>1. console.secret = <<"random", boots>>
      BY <2>1 DEF AuthOK
    <3>2. console.secret = <<"random", l.boot>>
      BY <2>2, <2>3 DEF Genuine
    <3> QED
      BY <3>1, <3>2
  <2> QED
    BY <2>1, <2>2, <2>5, <2>6
<1> QED
  BY <1>1, <1>2 DEF QueueIsGuarded, ApproverAuthority

LEMMA AuthStep ==
  ASSUME AuthOK, [ConsoleNext]_consoleVars
  PROVE  AuthOK'
<1>1. CASE UNCHANGED authVars
  BY <1>1 DEF AuthOK, Genuine, Serving, authVars
<1>2. ASSUME NEW c \in Commands, StartConsole(c) PROVE AuthOK'
  <2>1. /\ now' = now /\ logins' = logins /\ boots' = boots + 1
        /\ console'.token = c.token /\ console'.loopback = c.loopback
        /\ console'.override = c.override
        /\ console'.secret = IF c.secret # Absent THEN c.secret ELSE <<"random", boots'>>
    BY <1>2 DEF StartConsole
  <2>2. c.token = Absent => c.loopback \/ c.override
    BY <1>2 DEF StartConsole, Exposed
  <2>3. \A l \in logins' : Genuine(l)'
    BY <2>1 DEF AuthOK, Genuine
  <2>4. boots' \in Nat /\ now' \in Nat
    BY <2>1 DEF AuthOK
  <2>5. \/ \E d \in Commands : d.secret = console'.secret
        \/ console'.secret = <<"random", boots'>>
    BY <2>1
  <2>6. console'.token = Absent => console'.loopback \/ console'.override
    BY <2>1, <2>2
  <2> QED
    BY <2>3, <2>4, <2>5, <2>6 DEF AuthOK
<1>3. CASE StopConsole
  <2>1. ~Serving' /\ UNCHANGED <<boots, now, logins>>
    BY <1>3 DEF StopConsole, Serving
  <2> QED
    BY <2>1 DEF AuthOK, Genuine
<1>4. ASSUME NEW n \in Names, NEW pw \in Passwords, Login(n, pw) PROVE AuthOK'
  <2> DEFINE role == authenticate(console.users, n, pw)
             l == [cookie |-> mint(console.secret, n, role, now), at |-> now, boot |-> boots]
  <2>1. logins' = logins \cup {l} /\ UNCHANGED <<console, boots, now>> /\ Serving
    BY <1>4 DEF Login
  <2> HIDE DEF role
  <2>2. /\ l.at = now /\ l.boot = boots
        /\ l.cookie.body = [u |-> n, r |-> role, exp |-> now + CookieTTL]
        /\ l.cookie.mac = [secret |-> console.secret, over |-> l.cookie.body]
        /\ l.cookie = [body |-> l.cookie.body, mac |-> l.cookie.mac]
    BY DEF mint, Sign
  <2> HIDE DEF l
  <2>3. Genuine(l)
    BY <2>1, <2>2 DEF AuthOK, Genuine
  <2> QED
    BY <2>1, <2>3 DEF AuthOK, Genuine, Serving
<1>5. ASSUME NEW l \in logins, Logout(l) PROVE AuthOK'
  BY <1>5 DEF Logout, AuthOK, Genuine, Serving
<1>6. CASE PassTime
  BY <1>6 DEF PassTime, AuthOK, Genuine, Serving
<1> QED
  BY <1>1, <1>2, <1>3, <1>4, <1>5, <1>6
  DEF ConsoleNext, consoleVars, OpenFeed, Users, Stop

\* Only an approver who logged in less than a cookie's lifetime ago can resolve
\* an approval, and only a peer with the shared token, or one the operator let
\* in, can park one; restarts and edited cookies included (console/auth.py,
\* app.py require_approver and submit_approval, cli console serve).
THEOREM QueueGuarded == ConsoleSpec => []QueueIsGuarded
<1>1. ConsoleInit => AuthOK
  BY DEF ConsoleInit, AuthInit, AuthOK, Serving
<1>2. AuthOK /\ [ConsoleNext]_consoleVars => AuthOK'
  BY AuthStep
<1> QED
  BY <1>1, <1>2, AuthGuards, PTL DEF ConsoleSpec

-----------------------------------------------------------------------------
(* The index: what every request has read and has yet to write.  The parts *)
(* are stated of the lines that parse (G), the indexed offsets (E), the    *)
(* number of lines and the rebuilds so far.                                *)

Good == {i \in 0..Len(spool) - 1 : At(i) # BadLine}

\* Everything that parses below n is indexed.
Has(G, E, n) == \A i \in G : i < n => i \in E

\* ... or is in the list a request has still to insert.
HasOr(G, E, n, todo) ==
  \A i \in G : i < n => i \in E \/ \E m \in 1..Len(todo) : todo[m] = i

\* What is missing below an entry of the list comes before it in the list.
InTurn(G, E, todo) ==
  \A k \in 1..Len(todo) : \A i \in G :
    i < todo[k] => i \in E \/ \E m \in 1..Len(todo) : m < k /\ todo[m] = i

Deleting(q) == q.pc \in {"delete_sessions", "delete_meta"}

Active(q) == q.pc \notin {"idle", "serve", "done"}

\* Where a request stands.
Plan(G, E, b, q) ==
  /\ q.pc = "read" => Has(G, E, q.start)
  /\ q.pc \in {"insert", "select", "upsert"} =>
       /\ InTurn(G, E, q.todo)
       /\ HasOr(G, E, q.end, q.todo) /\ HasOr(G, E, q.upto, q.todo)
  /\ q.pc \in {"select", "upsert"} => q.todo[1] \in E
  /\ q.pc = "mark" => Has(G, E, q.end) /\ Has(G, E, q.upto)
  /\ q.pc = "serve" /\ b = 0 => Has(G, E, q.upto)

Closed(G, E) == \A j \in E : Has(G, E, j)

Covered == (\E r \in Requests : Deleting(req[r])) \/ Has(Good, events, next)

\* A table is emptied while nobody else works on it.
DeletesAlone ==
  \A r, q \in Requests : Deleting(req[r]) /\ Active(req[q]) => r = q

IndexOK ==
  ~raced => /\ Closed(Good, events) /\ Covered /\ DeletesAlone
            /\ \A r \in Requests : Plan(Good, events, rebuilds, req[r])

Request(G, len, q) ==
  /\ q = [pc |-> q.pc, start |-> q.start, todo |-> q.todo, end |-> q.end, upto |-> q.upto,
          row |-> q.row]
  /\ q.pc \in {"idle", "start", "read", "insert", "select", "upsert", "mark", "serve", "done",
               "delete_sessions", "delete_meta"}
  /\ q.start \in 0..len /\ q.end \in 0..len /\ q.upto \in 0..len
  /\ q.todo \in Seq(Nat)
  /\ \A m \in 1..Len(q.todo) : q.todo[m] \in G /\ q.todo[m] \in 0..len - 1
  /\ q.pc \in {"insert", "select", "upsert"} => q.todo # <<>>

Types ==
  /\ spool \in Seq(Lines \cup {BadLine})
  /\ events \subseteq Good
  /\ DOMAIN rows = SessionIds
  /\ next \in 0..Len(spool)
  /\ req = [r \in Requests |-> req[r]]
  /\ \A r \in Requests : Request(Good, Len(spool), req[r])
  /\ backend \in Backends
  /\ rebuilds \in 0..MaxRebuilds /\ crashes \in 0..MaxCrashes /\ raced \in BOOLEAN

-----------------------------------------------------------------------------
(* The live feed: what was shown, then what is about to be shown, is the   *)
(* beginning of what parses.                                               *)

Entries(s, n) == {s[m] : m \in 1..n}

FeedType(G, len, fd) ==
  /\ fd = [stream |-> fd.stream, got |-> fd.got]
  /\ fd.stream = [on |-> fd.stream.on, after |-> fd.stream.after, pos |-> fd.stream.pos,
                  batch |-> fd.stream.batch, first |-> fd.stream.first]
  /\ fd.stream.after \in Int /\ fd.stream.pos \in 0..len
  /\ fd.got \in Seq(Nat) /\ fd.stream.batch \in Seq(Nat)
  /\ \A m \in 1..Len(fd.got) : fd.got[m] \in G
  /\ \A m \in 1..Len(fd.stream.batch) : fd.stream.batch[m] \in G

FeedOK(G, got, f) ==
  /\ \A n \in 1..Len(got) : {i \in G : i < got[n]} = Entries(got, n - 1)
  /\ \A n \in 1..Len(f.batch) :
       {i \in G : i < f.batch[n]} = Entries(got, Len(got)) \cup Entries(f.batch, n - 1)
  /\ f.on /\ ~f.first =>
       {i \in G : i < f.pos} = Entries(got, Len(got)) \cup Entries(f.batch, Len(f.batch))
  /\ f.on /\ f.first =>
       /\ f.batch = <<>>
       /\ {i \in G : i <= f.after} = Entries(got, Len(got))
       /\ f.pos = IF f.after < 0 THEN 0 ELSE f.after
       /\ f.after >= 0 => f.after \in G

-----------------------------------------------------------------------------
(* Pages *)

LEMMA MaxMin ==
  ASSUME NEW a \in Int, NEW b \in Int
  PROVE  /\ Max({a, b}) = IF a >= b THEN a ELSE b
         /\ Min({a, b}) = IF a <= b THEN a ELSE b
<1>1. \E x \in {a, b} : \A y \in {a, b} : x >= y
  OBVIOUS
<1>2. \E x \in {a, b} : \A y \in {a, b} : x =< y
  OBVIOUS
<1> QED
  BY <1>1, <1>2 DEF Max, Min

LEMMA MaxOf ==
  ASSUME NEW S \in SUBSET Int, IsFiniteSet(S), S # {}
  PROVE  Max(S) \in S /\ \A x \in S : Max(S) >= x
<1> DEFINE s == Ascending(S)
<1>1. /\ s \in Seq(S)
      /\ \A i, j \in 1..Len(s) : i < j => s[i] < s[j]
      /\ \A x \in S : \E i \in 1..Len(s) : s[i] = x
  BY AscendingFacts
<1> HIDE DEF s
<1>2. Len(s) \in Nat /\ Len(s) >= 1
  <2>1. PICK x \in S : TRUE
    OBVIOUS
  <2>2. PICK i \in 1..Len(s) : s[i] = x
    BY <1>1, <2>1
  <2>3. Len(s) \in Nat
    BY <1>1
  <2> QED
    BY <2>2, <2>3
<1>3. s[Len(s)] \in S
  BY <1>1, <1>2
<1>4. ASSUME NEW x \in S PROVE s[Len(s)] >= x
  <2>1. PICK i \in 1..Len(s) : s[i] = x
    BY <1>1
  <2>2. i = Len(s) \/ (i < Len(s) /\ Len(s) \in 1..Len(s))
    BY <1>2
  <2>3. x \in Int /\ s[Len(s)] \in Int
    BY <1>3
  <2> QED
    BY <1>1, <2>1, <2>2, <2>3
<1> QED
  BY <1>3, <1>4 DEF Max

\* The first entries of an enumeration, at least one if there is one.
LEMMA PageOf ==
  ASSUME NEW R \in SUBSET Int, NEW s \in Seq(R), NEW limit \in Int, NEW asc \in BOOLEAN,
         \A x \in R : \E i \in 1..Len(s) : s[i] = x,
         \A i, j \in 1..Len(s) : i < j => IF asc THEN s[i] < s[j] ELSE s[i] > s[j]
  PROVE  LET page == SubSeq(s, 1, Min({Len(s), Max({1, limit})})) IN
         /\ R # {} => page # <<>>
         /\ IsInjective(page) /\ ToSet(page) \subseteq R
         /\ \A i \in R \ ToSet(page) : \A j \in ToSet(page) : IF asc THEN i > j ELSE i < j
<1> DEFINE m == Min({Len(s), Max({1, limit})})
           page == SubSeq(s, 1, m)
<1>1. m \in 0..Len(s) /\ (Len(s) > 0 => m >= 1)
  <2> DEFINE least == Max({1, limit})
             all == Len(s)
  <2>1. least \in Int /\ least >= 1
    BY MaxMin
  <2>2. all \in Nat /\ all \in Int
    OBVIOUS
  <2> HIDE DEF least, all
  <2>3. Min({all, least}) = IF all <= least THEN all ELSE least
    BY <2>1, <2>2, MaxMin
  <2> USE DEF least, all
  <2> QED
    BY <2>1, <2>2, <2>3
<1> HIDE DEF m
<1>2. page \in Seq(R) /\ Len(page) = m /\ DOMAIN page = 1..m /\ \A i \in 1..m : page[i] = s[i]
  BY <1>1
<1>2a. \A i \in 1..Len(s) : s[i] \in R /\ s[i] \in Int
  <2>1. \A i \in 1..Len(s) : s[i] \in R
    OBVIOUS
  <2> QED
    BY <2>1
<1> HIDE DEF page
<1>3. R # {} => page # <<>>
  <2>1. ASSUME NEW x \in R PROVE Len(s) > 0
    <3>1. PICK i \in 1..Len(s) : s[i] = x
      OBVIOUS
    <3>2. Len(s) \in Nat
      OBVIOUS
    <3> QED
      BY <3>1, <3>2
  <2>2. R # {} => Len(page) >= 1
    BY <1>1, <1>2, <2>1
  <2>3. Len(<<>>) = 0
    OBVIOUS
  <2> QED
    BY <2>2, <2>3
<1>4. IsInjective(page)
  <2> SUFFICES ASSUME NEW i \in 1..m, NEW j \in 1..m, page[i] = page[j], i # j PROVE FALSE
    BY <1>2 DEF IsInjective
  <2>1. i \in 1..Len(s) /\ j \in 1..Len(s) /\ s[i] = s[j] /\ (i < j \/ j < i)
    BY <1>1, <1>2
  <2> QED
    BY <1>2a, <2>1
<1>5. ToSet(page) \subseteq R
  BY <1>2 DEF ToSet
<1>6. ASSUME NEW i \in R \ ToSet(page), NEW j \in ToSet(page)
      PROVE  IF asc THEN i > j ELSE i < j
  <2>1. PICK k \in 1..m : j = s[k]
    BY <1>2 DEF ToSet
  <2>2. PICK l \in 1..Len(s) : i = s[l]
    OBVIOUS
  <2>3. l \notin 1..m
    BY <1>2, <2>2 DEF ToSet
  <2>4. k \in 1..Len(s) /\ k < l
    BY <1>1, <2>3
  <2> QED
    BY <1>2a, <2>1, <2>2, <2>4
<1> QED
  BY <1>3, <1>4, <1>5, <1>6 DEF page, m

LEMMA SpoolFinite ==
  ASSUME spool \in Seq(Lines \cup {BadLine}), NEW S \in SUBSET Good
  PROVE  IsFiniteSet(S) /\ S \in SUBSET Int /\ S \in SUBSET Nat
<1>1. Good \in SUBSET (0..Len(spool) - 1) /\ Len(spool) \in Nat
  BY DEF Good
<1>2. IsFiniteSet(0..Len(spool) - 1)
  BY <1>1, FS_Interval
<1>3. IsFiniteSet(Good)
  BY <1>1, <1>2, FS_Subset
<1>4. S \in SUBSET (0..Len(spool) - 1)
  BY <1>1
<1>5. S \in SUBSET Nat /\ S \in SUBSET Int
  BY <1>4
<1>6. IsFiniteSet(S)
  BY <1>3, FS_Subset
<1> QED
  BY <1>5, <1>6

LEMMA Tiles ==
  ASSUME Types
  PROVE  PagesTile
<1> SUFFICES ASSUME NEW limit \in PageLimits, NEW asc \in BOOLEAN,
                    NEW after \in events \cup {NoScore}
             PROVE  LET page == QueryEvents(NoSession, after, limit, asc)
                        rest == {i \in events : after = NoScore \/ (IF asc THEN i > after ELSE i < after)}
                        shown == ToSet(page) IN
                    /\ rest # {} => page # <<>>
                    /\ IsInjective(page) /\ shown \subseteq rest
                    /\ \A i \in rest \ shown : \A j \in shown : IF asc THEN i > j ELSE i < j
  BY DEF PagesTile
<1> DEFINE rest == {i \in events : after = NoScore \/ (IF asc THEN i > after ELSE i < after)}
           s == IF asc THEN Ascending(rest) ELSE Descending(rest)
           size == Min({limit, MaxPage})
<1>1. QueryEvents(NoSession, after, limit, asc) = SubSeq(s, 1, Min({Len(s), Max({1, size})}))
  BY DEF QueryEvents
<1>2. IsFiniteSet(rest) /\ rest \in SUBSET Int
  BY SpoolFinite DEF Types
<1> HIDE DEF rest
<1>3. /\ s \in Seq(rest)
      /\ \A x \in rest : \E i \in 1..Len(s) : s[i] = x
      /\ \A i, j \in 1..Len(s) : i < j => IF asc THEN s[i] < s[j] ELSE s[i] > s[j]
  BY <1>2, AscendingFacts, DescendingFacts
<1>4. size \in Int
  <2>1. limit \in Int /\ MaxPage \in Int
    BY IndexAssumption DEF MaxPage
  <2> QED
    BY <2>1, MaxMin
<1> HIDE DEF s, size
<1> DEFINE page == SubSeq(s, 1, Min({Len(s), Max({1, size})}))
<1>5. /\ rest # {} => page # <<>>
      /\ IsInjective(page) /\ ToSet(page) \subseteq rest
      /\ \A i \in rest \ ToSet(page) : \A j \in ToSet(page) : IF asc THEN i > j ELSE i < j
  BY <1>2, <1>3, <1>4, PageOf
<1> HIDE DEF page
<1> QED
  BY <1>1, <1>5 DEF page, rest

-----------------------------------------------------------------------------
(* Steps of the index *)

\* What a pass over the spool returns.
LEMMA ReadFacts ==
  ASSUME spool \in Seq(Lines \cup {BadLine}), NEW start \in 0..Len(spool)
  PROVE  LET result == ReadSpool(start)
             s == result.records
             good == {i \in Good : i >= start} IN
         /\ s = Ascending(good)
         /\ s \in Seq(good) /\ s \in Seq(Nat)
         /\ \A i, j \in 1..Len(s) : i < j => s[i] < s[j]
         /\ \A x \in good : \E i \in 1..Len(s) : s[i] = x
         /\ result.end \in start..Len(spool)
         /\ \A x \in good : x < result.end
         /\ s = <<>> => good = {} /\ result.end = start
<1> DEFINE result == ReadSpool(start)
           s == result.records
           good == {i \in Good : i >= start}
<1>0. Len(spool) \in Nat /\ start \in Nat
  OBVIOUS
<1>1. good = {i \in start..Len(spool) - 1 : At(i) # BadLine}
  BY <1>0 DEF Good
<1>2. result = [records |-> Ascending(good), end |-> IF good = {} THEN start ELSE Max(good) + 1]
  BY <1>1 DEF ReadSpool
<1>3. good \in SUBSET Good /\ \A x \in good : x \in Nat /\ start <= x /\ x < Len(spool)
  BY <1>0 DEF Good
<1>4. IsFiniteSet(good) /\ good \in SUBSET Int /\ good \in SUBSET Nat
  BY <1>3, SpoolFinite
<1>5. s = Ascending(good)
  BY <1>2
<1> HIDE DEF good
<1>6. /\ s \in Seq(good)
      /\ \A i, j \in 1..Len(s) : i < j => s[i] < s[j]
      /\ \A x \in good : \E i \in 1..Len(s) : s[i] = x
  BY <1>4, <1>5, AscendingFacts
<1>7. s \in Seq(Nat)
  <2> HIDE DEF s
  <2>1. Len(s) \in Nat /\ s \in [1..Len(s) -> good]
    BY <1>6
  <2>2. s \in [1..Len(s) -> Nat]
    BY <1>4, <2>1
  <2> QED
    BY <2>1, <2>2
<1>8. s = <<>> => good = {}
  BY <1>6
<1>9. ASSUME good # {} PROVE Max(good) \in good /\ \A x \in good : Max(good) >= x
  BY <1>4, <1>9, MaxOf
<1>10. result.end = IF good = {} THEN start ELSE Max(good) + 1
  BY <1>2
<1> HIDE DEF result
<1>11. result.end \in start..Len(spool) /\ \A x \in good : x < result.end
  <2>1. CASE good = {}
    BY <1>0, <1>10, <2>1
  <2>2. CASE good # {}
    <3>1. Max(good) \in Nat /\ start <= Max(good) /\ Max(good) < Len(spool)
      BY <1>3, <1>9, <2>2
    <3>2. \A x \in good : x \in Nat /\ Max(good) >= x
      BY <1>3, <1>9, <2>2
    <3> QED
      BY <1>0, <1>10, <2>2, <3>1, <3>2
  <2> QED
    BY <2>1, <2>2
<1>12. s = <<>> => result.end = start
  BY <1>8, <1>10
<1> QED
  BY <1>5, <1>6, <1>7, <1>8, <1>11, <1>12 DEF result, good

\* Indexing more spoils no plan.
LEMMA PlanGrows ==
  ASSUME NEW G, NEW E, NEW F, E \subseteq F, NEW b, NEW q, Plan(G, E, b, q)
  PROVE  Plan(G, F, b, q)
<1>1. \A n : Has(G, E, n) => Has(G, F, n)
  BY DEF Has
<1>2. \A n, t : HasOr(G, E, n, t) => HasOr(G, F, n, t)
  BY DEF HasOr
<1>3. \A t : InTurn(G, E, t) => InTurn(G, F, t)
  BY DEF InTurn
<1> QED
  BY <1>1, <1>2, <1>3 DEF Plan

\* Neither does a line that is appended.
LEMMA PlanExtends ==
  ASSUME NEW G, NEW H, NEW E, NEW b, NEW q, NEW len \in Nat, Request(G, len, q), Plan(G, E, b, q),
         \A i \in H : i \in Nat /\ (i \in G \/ i >= len)
  PROVE  Plan(H, E, b, q)
<1>1. \A n \in 0..len : Has(G, E, n) => Has(H, E, n)
  BY DEF Has
<1>2. \A n \in 0..len : HasOr(G, E, n, q.todo) => HasOr(H, E, n, q.todo)
  BY DEF HasOr
<1>3. InTurn(G, E, q.todo) => InTurn(H, E, q.todo)
  <2>1. \A k \in 1..Len(q.todo) : q.todo[k] \in 0..len - 1
    BY DEF Request
  <2> QED
    BY <2>1 DEF InTurn
<1>4. q.start \in 0..len /\ q.end \in 0..len /\ q.upto \in 0..len
  BY DEF Request
<1> QED
  BY <1>1, <1>2, <1>3, <1>4 DEF Plan

Put(r, q) == [p \in Requests |-> IF p = r THEN q ELSE req[p]]

IndexInv == Types /\ IndexOK

\* One request moves on.
LEMMA Advance ==
  ASSUME IndexInv, NEW r \in Requests, NEW q,
         req' = Put(r, q), Request(Good, Len(spool), q),
         UNCHANGED <<spool, backend, rebuilds>>,
         events \subseteq events', events' \subseteq Good,
         DOMAIN rows' = SessionIds, next' \in 0..Len(spool),
         crashes' \in 0..MaxCrashes, raced' \in BOOLEAN,
         Deleting(q) => Deleting(req[r]), Active(q) => Active(req[r]),
         ~raced' => /\ ~raced
                    /\ Plan(Good, events', rebuilds, q)
                    /\ Closed(Good, events')
                    /\ (\E p \in Requests : Deleting(Put(r, q)[p])) \/ Has(Good, events', next')
  PROVE  IndexInv'
<1>0. Good' = Good
  BY DEF Good, At
<1>1. \A p \in Requests : req'[p] = IF p = r THEN q ELSE req[p]
  BY DEF Put
<1>2. Types'
  <2>1. req' = [p \in Requests |-> req'[p]]
    BY DEF Put
  <2>2. \A p \in Requests : Request(Good, Len(spool), req'[p])
    BY <1>1 DEF IndexInv, Types
  <2> QED
    BY <1>0, <2>1, <2>2 DEF IndexInv, Types
<1>3. IndexOK'
  <2> SUFFICES ASSUME ~raced' PROVE /\ Closed(Good, events)' /\ Covered' /\ DeletesAlone'
                                    /\ \A p \in Requests : Plan(Good, events, rebuilds, req[p])'
    BY DEF IndexOK
  <2>1. /\ Closed(Good, events) /\ Covered /\ DeletesAlone
        /\ \A p \in Requests : Plan(Good, events, rebuilds, req[p])
    BY DEF IndexInv, IndexOK
  <2>2. Closed(Good', events')
    BY <1>0
  <2>3. Covered'
    BY <1>0 DEF Covered
  <2>4. DeletesAlone'
    BY <1>1, <2>1 DEF DeletesAlone
  <2>5. \A p \in Requests : Plan(Good', events', rebuilds', req'[p])
    BY <1>0, <1>1, <2>1, PlanGrows
  <2> QED
    BY <2>2, <2>3, <2>4, <2>5
<1> QED
  BY <1>2, <1>3 DEF IndexInv

\* The fields of a request, so that a changed one can be written out.
LEMMA RequestFields ==
  ASSUME IndexInv, NEW r \in Requests
  PROVE  /\ req[r] = [pc |-> req[r].pc, start |-> req[r].start, todo |-> req[r].todo,
                      end |-> req[r].end, upto |-> req[r].upto, row |-> req[r].row]
         /\ Request(Good, Len(spool), req[r])
         /\ req = [p \in Requests |-> req[p]]
         /\ Len(spool) \in Nat
         /\ ~raced => Plan(Good, events, rebuilds, req[r])
         /\ ~raced => Closed(Good, events) /\ Covered /\ DeletesAlone
BY DEF IndexInv, Types, IndexOK, Request

\* A request ends: its work is done, or it died.
LEMMA Ends ==
  ASSUME IndexInv, NEW r \in Requests, req' = [req EXCEPT ![r] = Done],
         UNCHANGED <<spool, events, rows, next, backend, rebuilds>>,
         crashes' \in 0..MaxCrashes, raced' \in BOOLEAN,
         ~raced' => ~raced /\ ~Deleting(req[r])
  PROVE  IndexInv'
<1>1. Done = [pc |-> "done", start |-> 0, todo |-> <<>>, end |-> 0, upto |-> 0, row |-> NoRow]
  BY DEF Done, Idle
<1>2. req' = Put(r, Done)
  BY RequestFields DEF Put
<1>3. Request(Good, Len(spool), Done)
  BY <1>1, RequestFields DEF Request
<1>4. Plan(Good, events, rebuilds, Done) /\ ~Deleting(Done) /\ ~Active(Done)
  BY <1>1 DEF Plan, Deleting, Active
<1>5. ~raced' => (\E p \in Requests : Deleting(Put(r, Done)[p])) \/ Has(Good, events, next)
  <2> SUFFICES ASSUME ~raced' PROVE (\E p \in Requests : Deleting(Put(r, Done)[p]))
                                      \/ Has(Good, events, next)
    OBVIOUS
  <2>1. Covered
    BY RequestFields
  <2> QED
    BY <2>1 DEF Covered, Put
<1>6. events' \subseteq Good /\ DOMAIN rows' = SessionIds /\ next' \in 0..Len(spool)
  BY DEF IndexInv, Types
<1>7. ~raced' => Closed(Good, events')
  BY RequestFields
<1> QED
  BY <1>2, <1>3, <1>4, <1>5, <1>6, <1>7, Advance

\* A step of a catch-up that leaves the tables alone.
LEMMA Proceeds ==
  ASSUME IndexInv, NEW r \in Requests, NEW q, req' = Put(r, q), Request(Good, Len(spool), q),
         UNCHANGED <<spool, events, rows, next, backend, rebuilds, crashes, raced>>,
         ~Deleting(q), ~Deleting(req[r]), Active(q) => Active(req[r]),
         ~raced => Plan(Good, events, rebuilds, q)
  PROVE  IndexInv'
<1>1. ~raced => (\E p \in Requests : Deleting(Put(r, q)[p])) \/ Has(Good, events, next)
  <2> SUFFICES ASSUME ~raced PROVE (\E p \in Requests : Deleting(Put(r, q)[p]))
                                     \/ Has(Good, events, next)
    OBVIOUS
  <2>1. Covered
    BY RequestFields
  <2> QED
    BY <2>1 DEF Covered, Put
<1>2. /\ events' \subseteq Good /\ DOMAIN rows' = SessionIds /\ next' \in 0..Len(spool)
      /\ crashes' \in 0..MaxCrashes /\ raced' \in BOOLEAN
  BY DEF IndexInv, Types
<1>3. ~raced' => Closed(Good, events')
  BY RequestFields
<1> QED
  BY <1>1, <1>2, <1>3, Advance

LEMMA ReadSteps ==
  ASSUME IndexInv, NEW r \in Requests, ReadOffset(r) \/ ReadLines(r) \/ SelectRow(r)
  PROVE  IndexInv'
<1> DEFINE old == req[r]
<1>0. Len(spool) \in Nat /\ next \in 0..Len(spool) /\ spool \in Seq(Lines \cup {BadLine})
  BY DEF IndexInv, Types
<1>1. CASE ReadOffset(r)
  <2> DEFINE q == [pc |-> "read", start |-> next, todo |-> old.todo, end |-> old.end,
                   upto |-> old.upto, row |-> old.row]
  <2>1. req' = [req EXCEPT ![r] = [req[r] EXCEPT !.pc = "read", !.start = next]]
    BY <1>1 DEF ReadOffset
  <2>2. req' = Put(r, q) /\ old.pc = "start"
    BY <1>1, <2>1, RequestFields DEF Put, ReadOffset
  <2>3. Request(Good, Len(spool), q)
    BY <1>0, RequestFields DEF Request
  <2>4. ~Deleting(q) /\ ~Deleting(old) /\ Active(old)
    BY <2>2 DEF Deleting, Active
  <2>5. ~raced => Plan(Good, events, rebuilds, q)
    <3> SUFFICES ASSUME ~raced PROVE Plan(Good, events, rebuilds, q)
      OBVIOUS
    <3>1. Covered /\ DeletesAlone
      BY RequestFields
    <3>2. \A p \in Requests : ~Deleting(req[p])
      BY <2>4, <3>1 DEF DeletesAlone
    <3>3. Has(Good, events, next)
      BY <3>1, <3>2 DEF Covered
    <3> QED
      BY <3>3 DEF Plan
  <2>6. UNCHANGED <<spool, events, rows, next, backend, rebuilds, crashes, raced>>
    BY <1>1 DEF ReadOffset
  <2> HIDE DEF q
  <2> QED
    BY <2>2, <2>3, <2>4, <2>5, <2>6, Proceeds
<1>2. CASE ReadLines(r)
  <2> DEFINE result == ReadSpool(old.start)
             s == result.records
             good == {i \in Good : i >= old.start}
             phase == IF s = <<>> THEN "mark" ELSE "insert"
             q == [pc |-> phase, start |-> 0, todo |-> s,
                   end |-> result.end, upto |-> Len(spool), row |-> NoRow]
  <2>1. req' = [req EXCEPT ![r] = q]
    BY <1>2 DEF ReadLines
  <2>0. old.pc = "read" /\ UNCHANGED <<spool, events, rows, next, backend, rebuilds, crashes, raced>>
    BY <1>2 DEF ReadLines
  <2>2. old.start \in 0..Len(spool)
    BY RequestFields DEF Request
  <2>3. /\ s \in Seq(good) /\ s \in Seq(Nat)
        /\ \A i, j \in 1..Len(s) : i < j => s[i] < s[j]
        /\ \A x \in good : \E i \in 1..Len(s) : s[i] = x
        /\ result.end \in old.start..Len(spool)
        /\ s = <<>> => good = {} /\ result.end = old.start
    BY <1>0, <2>2, ReadFacts
  <2>3a. phase \in {"mark", "insert"} /\ (phase = "mark" => s = <<>>) /\ (phase = "insert" => s # <<>>)
    OBVIOUS
  <2> HIDE DEF result, s, good, phase
  <2>4. req' = Put(r, q)
    <3> HIDE DEF q
    <3> QED
      BY <2>1, RequestFields DEF Put
  <2>5. \A m \in 1..Len(s) : s[m] \in good /\ s[m] \in Good /\ s[m] \in 0..Len(spool) - 1
    <3>1. \A m \in 1..Len(s) : s[m] \in good
      BY <2>3
    <3>2. \A x \in good : x \in Good /\ x \in 0..Len(spool) - 1
      BY DEF good, Good
    <3> QED
      BY <3>1, <3>2
  <2>6. result.end \in 0..Len(spool)
    <3>1. result.end \in old.start..Len(spool)
      BY <2>3
    <3>2. old.start \in Nat /\ Len(spool) \in Nat
      BY <1>0, <2>2
    <3> QED
      BY <3>1, <3>2
  <2>7. Request(Good, Len(spool), q)
    <3>1. /\ q = [pc |-> q.pc, start |-> q.start, todo |-> q.todo, end |-> q.end,
                  upto |-> q.upto, row |-> q.row]
          /\ q.pc = phase /\ q.start = 0 /\ q.todo = s /\ q.end = result.end
          /\ q.upto = Len(spool)
      OBVIOUS
    <3> HIDE DEF q
    <3> QED
      <4>1. q.pc \in {"idle", "start", "read", "insert", "select", "upsert", "mark", "serve",
                      "done", "delete_sessions", "delete_meta"}
        BY <2>3a, <3>1
      <4>2. q.start \in 0..Len(spool) /\ q.end \in 0..Len(spool) /\ q.upto \in 0..Len(spool)
        BY <1>0, <2>6, <3>1
      <4>3. q.todo \in Seq(Nat)
        BY <2>3, <3>1
      <4>4. \A m \in 1..Len(q.todo) : q.todo[m] \in Good /\ q.todo[m] \in 0..Len(spool) - 1
        BY <2>5, <3>1
      <4>5. q.pc \in {"insert", "select", "upsert"} => q.todo # <<>>
        BY <2>3a, <3>1
      <4> QED
        BY <3>1, <4>1, <4>2, <4>3, <4>4, <4>5 DEF Request
  <2>8. ~Deleting(q) /\ ~Deleting(old) /\ Active(old)
    BY <2>0, <2>3a DEF Deleting, Active
  <2>9. ~raced => Plan(Good, events, rebuilds, q)
    <3> SUFFICES ASSUME ~raced PROVE Plan(Good, events, rebuilds, q)
      OBVIOUS
    <3>1. Has(Good, events, old.start)
      BY <2>0, RequestFields DEF Plan
    <3>2. \A i \in Good : i \in events \/ \E m \in 1..Len(s) : s[m] = i
      <4> SUFFICES ASSUME NEW i \in Good, i \notin events PROVE \E m \in 1..Len(s) : s[m] = i
        OBVIOUS
      <4>1. i \in Nat /\ ~(i < old.start)
        BY <1>0, <3>1 DEF Has, Good
      <4>2. i \in good
        BY <2>2, <4>1 DEF good
      <4> QED
        BY <2>3, <4>2
    <3>3. InTurn(Good, events, s)
      <4> SUFFICES ASSUME NEW k \in 1..Len(s), NEW i \in Good, i < s[k], i \notin events
                   PROVE  \E m \in 1..Len(s) : m < k /\ s[m] = i
        BY DEF InTurn
      <4>1. PICK m \in 1..Len(s) : s[m] = i
        BY <3>2
      <4>2. s[m] \in Int /\ s[k] \in Int /\ m \in Int /\ k \in Int
        BY <2>5
      <4>3. k < m => s[k] < s[m]
        BY <2>3
      <4>4. m < k
        BY <4>1, <4>2, <4>3
      <4> QED
        BY <4>1, <4>4
    <3>4. HasOr(Good, events, result.end, s) /\ HasOr(Good, events, Len(spool), s)
      BY <3>2 DEF HasOr
    <3>5. s = <<>> => Has(Good, events, result.end) /\ Has(Good, events, Len(spool))
      BY <3>2 DEF Has
    <3> QED
      BY <2>3a, <3>3, <3>4, <3>5 DEF Plan
  <2> HIDE DEF q
  <2> QED
    BY <2>0, <2>4, <2>7, <2>8, <2>9, Proceeds
<1>3. CASE SelectRow(r)
  <2> DEFINE row == rows[At(Head(req[r].todo)).sid]
             q == [pc |-> "upsert", start |-> old.start, todo |-> old.todo, end |-> old.end,
                   upto |-> old.upto, row |-> row]
  <2> HIDE DEF row
  <2>1. req' = [req EXCEPT ![r] = [req[r] EXCEPT !.pc = "upsert", !.row = row]]
    BY <1>3 DEF SelectRow, row
  <2>2. req' = Put(r, q) /\ old.pc = "select"
    BY <1>3, <2>1, RequestFields DEF Put, SelectRow
  <2>3. Request(Good, Len(spool), q)
    BY <1>0, <2>2, RequestFields DEF Request
  <2>4. ~Deleting(q) /\ ~Deleting(old) /\ Active(old)
    BY <2>2 DEF Deleting, Active
  <2>5. ~raced => Plan(Good, events, rebuilds, q)
    BY <2>2, RequestFields DEF Plan
  <2>6. UNCHANGED <<spool, events, rows, next, backend, rebuilds, crashes, raced>>
    BY <1>3 DEF SelectRow
  <2> HIDE DEF q
  <2> QED
    BY <2>2, <2>3, <2>4, <2>5, <2>6, Proceeds
<1> QED
  BY <1>1, <1>2, <1>3

\* The first entry of the list is in: the rest of the list will do.
LEMMA TailPlan ==
  ASSUME NEW G, NEW E, NEW F, NEW todo \in Seq(Nat), todo # <<>>, E \subseteq F, todo[1] \in F
  PROVE  /\ Tail(todo) \in Seq(Nat) /\ Len(Tail(todo)) = Len(todo) - 1 /\ Len(todo) \in Nat \ {0}
         /\ \A m \in 1..Len(Tail(todo)) : Tail(todo)[m] = todo[m + 1]
         /\ InTurn(G, E, todo) => InTurn(G, F, Tail(todo))
         /\ \A n : HasOr(G, E, n, todo) => HasOr(G, F, n, Tail(todo))
         /\ Len(todo) = 1 => \A n : HasOr(G, E, n, todo) => Has(G, F, n)
<1> DEFINE t == Tail(todo)
<1>1. t \in Seq(Nat) /\ Len(t) = Len(todo) - 1 /\ Len(todo) \in Nat \ {0}
  OBVIOUS
<1>2. \A m \in 1..Len(t) : t[m] = todo[m + 1]
  OBVIOUS
<1> HIDE DEF t
<1>3. ASSUME NEW m \in 1..Len(todo), m # 1 PROVE m - 1 \in 1..Len(t) /\ t[m - 1] = todo[m]
  BY <1>1, <1>2, <1>3
<1>4. ASSUME InTurn(G, E, todo) PROVE InTurn(G, F, t)
  <2> SUFFICES ASSUME NEW k \in 1..Len(t), NEW i \in G, i < t[k], i \notin F
               PROVE  \E m \in 1..Len(t) : m < k /\ t[m] = i
    BY DEF InTurn
  <2>1. k + 1 \in 1..Len(todo) /\ t[k] = todo[k + 1]
    BY <1>1, <1>2
  <2>2. PICK m \in 1..Len(todo) : m < k + 1 /\ todo[m] = i
    BY <1>4, <2>1 DEF InTurn
  <2>3. m # 1
    BY <2>2
  <2>4. m - 1 \in 1..Len(t) /\ t[m - 1] = i
    BY <1>3, <2>2, <2>3
  <2>5. m - 1 < k
    BY <1>1, <2>2
  <2> QED
    BY <2>4, <2>5
<1>5. ASSUME NEW n, HasOr(G, E, n, todo) PROVE HasOr(G, F, n, t)
  <2> SUFFICES ASSUME NEW i \in G, i < n, i \notin F PROVE \E m \in 1..Len(t) : t[m] = i
    BY DEF HasOr
  <2>1. PICK m \in 1..Len(todo) : todo[m] = i
    BY <1>5 DEF HasOr
  <2>2. m # 1
    BY <2>1
  <2> QED
    BY <1>3, <2>1, <2>2
<1>6. ASSUME Len(todo) = 1, NEW n, HasOr(G, E, n, todo) PROVE Has(G, F, n)
  BY <1>6 DEF Has, HasOr
<1> QED
  BY <1>1, <1>2, <1>4, <1>5, <1>6 DEF t

\* A row, or a whole list, goes into the table.
LEMMA Inserts ==
  ASSUME IndexInv, NEW r \in Requests, NEW q, req' = Put(r, q), Request(Good, Len(spool), q),
         UNCHANGED <<spool, next, backend, rebuilds, crashes, raced>>,
         DOMAIN rows' = SessionIds,
         events \subseteq events', events' \subseteq Good,
         ~Deleting(q), ~Deleting(req[r]), Active(q) => Active(req[r]),
         ~raced => Plan(Good, events', rebuilds, q) /\ Closed(Good, events')
  PROVE  IndexInv'
<1>1. ~raced => (\E p \in Requests : Deleting(Put(r, q)[p])) \/ Has(Good, events', next)
  <2> SUFFICES ASSUME ~raced PROVE (\E p \in Requests : Deleting(Put(r, q)[p]))
                                     \/ Has(Good, events', next)
    OBVIOUS
  <2>1. Covered
    BY RequestFields
  <2> QED
    BY <2>1 DEF Covered, Put, Has
<1>2. /\ next' \in 0..Len(spool)
      /\ crashes' \in 0..MaxCrashes /\ raced' \in BOOLEAN
  BY DEF IndexInv, Types
<1> QED
  BY <1>1, <1>2, Advance

\* The request after its first entry is dealt with.
LEMMA FollowingPlan ==
  ASSUME IndexInv, NEW r \in Requests, req[r].pc \in {"insert", "upsert"}, NEW F,
         events \subseteq F, req[r].todo[1] \in F
  PROVE  /\ Request(Good, Len(spool), Following(req[r]))
         /\ ~raced => Plan(Good, F, rebuilds, Following(req[r]))
         /\ ~Deleting(Following(req[r]))
         /\ ~Deleting(req[r]) /\ Active(req[r])
<1> DEFINE old == req[r]
           todo == old.todo
           phase == IF Len(todo) = 1 THEN "mark" ELSE "insert"
           q == [pc |-> phase, start |-> 0, todo |-> Tail(todo), end |-> old.end,
                 upto |-> old.upto, row |-> NoRow]
<1>1. Following(old) = q
  BY DEF Following
<1>2. phase \in {"mark", "insert"} /\ (phase = "mark" <=> Len(todo) = 1)
  OBVIOUS
<1>3. /\ todo \in Seq(Nat) /\ Len(spool) \in Nat /\ todo # <<>>
      /\ \A m \in 1..Len(todo) : todo[m] \in Good /\ todo[m] \in 0..Len(spool) - 1
      /\ old.end \in 0..Len(spool) /\ old.upto \in 0..Len(spool)
  BY RequestFields DEF Request
<1>4. ~raced => /\ InTurn(Good, events, todo)
                /\ HasOr(Good, events, old.end, todo) /\ HasOr(Good, events, old.upto, todo)
  BY RequestFields DEF Plan
<1>5. /\ Tail(todo) \in Seq(Nat) /\ Len(Tail(todo)) = Len(todo) - 1 /\ Len(todo) \in Nat \ {0}
      /\ \A m \in 1..Len(Tail(todo)) : Tail(todo)[m] = todo[m + 1]
      /\ InTurn(Good, events, todo) => InTurn(Good, F, Tail(todo))
      /\ \A n : HasOr(Good, events, n, todo) => HasOr(Good, F, n, Tail(todo))
      /\ Len(todo) = 1 => \A n : HasOr(Good, events, n, todo) => Has(Good, F, n)
  BY <1>3, TailPlan
<1>6. /\ q = [pc |-> q.pc, start |-> q.start, todo |-> q.todo, end |-> q.end,
              upto |-> q.upto, row |-> q.row]
      /\ q.pc = phase /\ q.start = 0 /\ q.todo = Tail(todo) /\ q.end = old.end
      /\ q.upto = old.upto
  OBVIOUS
<1> HIDE DEF q, phase
<1>6a. phase = "insert" => q.todo # <<>>
  <2>1. phase = "insert" => Len(q.todo) # 0
    BY <1>2, <1>5, <1>6
  <2> QED
    BY <2>1
<1>7. Request(Good, Len(spool), q)
  <2>1. q.start \in 0..Len(spool) /\ q.end \in 0..Len(spool) /\ q.upto \in 0..Len(spool)
    BY <1>3, <1>6
  <2>2. \A m \in 1..Len(Tail(todo)) : m + 1 \in 1..Len(todo)
    BY <1>5
  <2>3. \A m \in 1..Len(q.todo) : q.todo[m] \in Good /\ q.todo[m] \in 0..Len(spool) - 1
    BY <1>3, <1>5, <1>6, <2>2
  <2>4. q.todo \in Seq(Nat)
    BY <1>5, <1>6
  <2> QED
    BY <1>2, <1>6, <1>6a, <2>1, <2>3, <2>4 DEF Request
<1>8. ASSUME ~raced PROVE Plan(Good, F, rebuilds, q)
  <2>1. CASE phase = "mark"
    BY <1>2, <1>4, <1>5, <1>6, <1>8, <2>1 DEF Plan
  <2>2. CASE phase = "insert"
    BY <1>4, <1>5, <1>6, <1>8, <2>2 DEF Plan
  <2> QED
    BY <1>2, <2>1, <2>2
<1>9. ~Deleting(q) /\ ~Deleting(old) /\ Active(old)
  BY <1>2, <1>6 DEF Deleting, Active
<1> QED
  BY <1>1, <1>7, <1>8, <1>9

LEMMA InsertSteps ==
  ASSUME IndexInv, NEW r \in Requests, Ingest(r) \/ InsertRow(r) \/ UpsertRow(r)
  PROVE  IndexInv'
<1> DEFINE old == req[r]
           todo == old.todo
<1>0. /\ Len(spool) \in Nat /\ DOMAIN rows = SessionIds /\ events \subseteq Good
      /\ crashes \in 0..MaxCrashes /\ raced \in BOOLEAN
  BY DEF IndexInv, Types
<1>1. /\ todo \in Seq(Nat)
      /\ \A m \in 1..Len(todo) : todo[m] \in Good /\ todo[m] \in 0..Len(spool) - 1
      /\ old.end \in 0..Len(spool) /\ old.upto \in 0..Len(spool) /\ old.start \in 0..Len(spool)
      /\ old.pc \in {"insert", "select", "upsert"} => todo # <<>>
  BY RequestFields DEF Request
<1>2. todo # <<>> => Head(todo) = todo[1] /\ 1 \in 1..Len(todo) /\ todo[1] \in Good
  BY <1>1
<1>3. ~raced /\ old.pc \in {"insert", "select", "upsert"} =>
        /\ InTurn(Good, events, todo)
        /\ HasOr(Good, events, old.end, todo) /\ HasOr(Good, events, old.upto, todo)
  BY RequestFields DEF Plan
<1>4. CASE Ingest(r)
  <2> DEFINE new == ToSet(todo) \ events
             q == [pc |-> "mark", start |-> old.start, todo |-> <<>>, end |-> old.end,
                   upto |-> old.upto, row |-> old.row]
  <2>1. req' = [req EXCEPT ![r] = [req[r] EXCEPT !.pc = "mark", !.todo = <<>>]]
    BY <1>4 DEF Ingest
  <2>2. req' = Put(r, q) /\ old.pc = "insert"
    BY <1>4, <2>1, RequestFields DEF Put, Ingest
  <2>3. /\ UNCHANGED <<spool, next, backend, rebuilds, crashes, raced>>
        /\ DOMAIN rows' = SessionIds
        /\ events' = events \cup new
    BY <1>4 DEF Ingest
  <2>4. \A j : j \in events' <=> j \in events \/ \E m \in 1..Len(todo) : todo[m] = j
    BY <1>1, <2>3 DEF ToSet
  <2> HIDE DEF new
  <2>5. events \subseteq events' /\ events' \subseteq Good
    BY <1>0, <1>1, <2>4
  <2>6. Request(Good, Len(spool), q)
    BY <1>0, <1>1, RequestFields DEF Request
  <2>7. ~Deleting(q) /\ ~Deleting(old) /\ Active(old)
    BY <2>2 DEF Deleting, Active
  <2>8. ASSUME ~raced PROVE Plan(Good, events', rebuilds, q)
    <3>1. Has(Good, events', old.end) /\ Has(Good, events', old.upto)
      BY <1>3, <2>2, <2>4, <2>8 DEF HasOr, Has
    <3> QED
      BY <3>1 DEF Plan
  <2>9. ASSUME ~raced PROVE Closed(Good, events')
    <3> SUFFICES ASSUME NEW j \in events', NEW i \in Good, i < j PROVE i \in events'
      BY DEF Closed, Has
    <3>1. CASE j \in events
      BY <2>4, <2>9, <3>1, RequestFields DEF Closed, Has
    <3>2. CASE \E k \in 1..Len(todo) : todo[k] = j
      BY <1>3, <2>2, <2>4, <2>9, <3>2 DEF InTurn
    <3> QED
      BY <2>4, <3>1, <3>2
  <2> HIDE DEF q
  <2> QED
    BY <2>2, <2>3, <2>5, <2>6, <2>7, <2>8, <2>9, Inserts
<1>5. CASE InsertRow(r)
  <2> DEFINE q == IF todo[1] \in events \/ At(todo[1]).sid = NoSession THEN Following(old)
                  ELSE [old EXCEPT !.pc = "select"]
             s == [pc |-> "select", start |-> old.start, todo |-> todo, end |-> old.end,
                   upto |-> old.upto, row |-> old.row]
  <2>0. old.pc = "insert" /\ todo # <<>>
    BY <1>1, <1>5 DEF InsertRow
  <2>1. /\ UNCHANGED <<spool, next, rows, backend, rebuilds, crashes, raced>>
        /\ events' = events \cup {todo[1]}
        /\ req' = [req EXCEPT ![r] = q]
    BY <1>2, <1>5, <2>0 DEF InsertRow
  <2>2. [old EXCEPT !.pc = "select"] = s
    <3>1. old = [pc |-> old.pc, start |-> old.start, todo |-> old.todo,
                 end |-> old.end, upto |-> old.upto, row |-> old.row]
      BY RequestFields
    <3> HIDE DEF old
    <3> QED
      BY <3>1
  <2>3. q \in {Following(old), s}
    BY <2>2
  <2> HIDE DEF q
  <2>4. req' = Put(r, q)
    BY <2>1, RequestFields DEF Put
  <2>5. events \subseteq events' /\ events' \subseteq Good /\ todo[1] \in events'
    BY <1>0, <1>2, <2>0, <2>1
  <2>6. /\ Request(Good, Len(spool), Following(old)) /\ ~Deleting(Following(old))
        /\ ~raced => Plan(Good, events', rebuilds, Following(old))
        /\ ~Deleting(old) /\ Active(old)
    BY <2>0, <2>5, FollowingPlan
  <2>7. Request(Good, Len(spool), s) /\ ~Deleting(s)
    BY <1>0, <1>1, <2>0 DEF Request, Deleting
  <2>8. ASSUME ~raced PROVE Plan(Good, events', rebuilds, s)
    <3>1. Plan(Good, events', rebuilds, old)
      BY <2>5, <2>8, PlanGrows, RequestFields
    <3> QED
      BY <2>0, <2>5, <3>1 DEF Plan
  <2>9. ASSUME ~raced PROVE Closed(Good, events')
    <3> SUFFICES ASSUME NEW j \in events', NEW i \in Good, i < j PROVE i \in events'
      BY DEF Closed, Has
    <3>1. CASE j \in events
      BY <2>1, <2>9, <3>1, RequestFields DEF Closed, Has
    <3>2. CASE j = todo[1]
      <4>1. i \in events \/ \E m \in 1..Len(todo) : m < 1 /\ todo[m] = i
        BY <1>2, <1>3, <2>0, <2>9, <3>2 DEF InTurn
      <4> QED
        BY <2>1, <4>1
    <3> QED
      BY <2>1, <3>1, <3>2
  <2>10. DOMAIN rows' = SessionIds
    BY <1>0, <2>1
  <2> HIDE DEF s
  <2>11. Request(Good, Len(spool), q) /\ ~Deleting(q) /\ (~raced => Plan(Good, events', rebuilds, q))
    BY <2>3, <2>6, <2>7, <2>8
  <2> QED
    BY <2>1, <2>4, <2>5, <2>6, <2>9, <2>10, <2>11, Inserts
<1>6. CASE UpsertRow(r)
  <2>0. /\ old.pc = "upsert" /\ todo # <<>>
        /\ UNCHANGED <<spool, events, next, backend, rebuilds, crashes, raced>>
    BY <1>1, <1>6 DEF UpsertRow
  <2>1. CASE rows' = rows /\ req' = [req EXCEPT ![r] = Done]
    <3>1. ~Deleting(old)
      BY <2>0 DEF Deleting
    <3> QED
      BY <1>0, <2>0, <2>1, <3>1, Ends
  <2>2. CASE /\ DOMAIN rows' = DOMAIN rows
             /\ req' = [req EXCEPT ![r] = Following(req[r])]
    <3>1. req' = Put(r, Following(old))
      BY <2>2, RequestFields DEF Put
    <3>2. CASE raced
      <4> DEFINE F == events \cup {todo[1]}
      <4>0. events \subseteq F /\ todo[1] \in F
        OBVIOUS
      <4> HIDE DEF F
      <4>1. /\ Request(Good, Len(spool), Following(old)) /\ ~Deleting(Following(old))
            /\ ~Deleting(old) /\ Active(old)
        BY <2>0, <4>0, FollowingPlan
      <4> QED
        BY <1>0, <2>0, <2>2, <3>1, <3>2, <4>1, Inserts
    <3>3. CASE ~raced
      <4>1. todo[1] \in events
        BY <2>0, <3>3, RequestFields DEF Plan
      <4>2. /\ Request(Good, Len(spool), Following(old)) /\ ~Deleting(Following(old))
            /\ Plan(Good, events, rebuilds, Following(old))
            /\ ~Deleting(old) /\ Active(old)
        BY <2>0, <3>3, <4>1, FollowingPlan
      <4>3. Closed(Good, events)
        BY <3>3, RequestFields
      <4> QED
        BY <1>0, <2>0, <2>2, <3>1, <4>2, <4>3, Inserts
    <3> QED
      BY <3>2, <3>3
  <2> QED
    BY <1>6, <2>1, <2>2 DEF UpsertRow
<1> QED
  BY <1>4, <1>5, <1>6

LEMMA EndSteps ==
  ASSUME IndexInv, NEW r \in Requests,
         Mark(r) \/ Serve(r) \/ Crash(r) \/ DeleteSessions(r) \/ DeleteMeta(r)
  PROVE  IndexInv'
<1> DEFINE old == req[r]
<1>0. /\ Len(spool) \in Nat /\ DOMAIN rows = SessionIds /\ events \subseteq Good
      /\ next \in 0..Len(spool) /\ Good \subseteq Nat
      /\ crashes \in 0..MaxCrashes /\ raced \in BOOLEAN
  BY DEF IndexInv, Types, Good
<1>1. old = [pc |-> old.pc, start |-> old.start, todo |-> old.todo,
             end |-> old.end, upto |-> old.upto, row |-> old.row]
  BY RequestFields
<1>1a. /\ old.start \in 0..Len(spool) /\ old.end \in 0..Len(spool) /\ old.upto \in 0..Len(spool)
       /\ old.todo \in Seq(Nat)
       /\ \A m \in 1..Len(old.todo) : old.todo[m] \in Good /\ old.todo[m] \in 0..Len(spool) - 1
  BY RequestFields DEF Request
<1>2. CASE Mark(r)
  <2> DEFINE q == [pc |-> "serve", start |-> old.start, todo |-> old.todo, end |-> 0,
                   upto |-> old.upto, row |-> old.row]
  <2>1. req' = [req EXCEPT ![r] = [req[r] EXCEPT !.pc = "serve", !.end = 0]]
    BY <1>2 DEF Mark
  <2>2. req' = Put(r, q)
    <3>1. [old EXCEPT !.pc = "serve", !.end = 0] = q
      <4> DEFINE a == [old EXCEPT !.pc = "serve"]
      <4>1. a = [pc |-> "serve", start |-> old.start, todo |-> old.todo, end |-> old.end,
                 upto |-> old.upto, row |-> old.row]
        <5> HIDE DEF old
        <5> QED
          BY <1>1
      <4>2. [a EXCEPT !.end = 0] = q
        <5> HIDE DEF a
        <5> QED
          BY <4>1
      <4>3. [old EXCEPT !.pc = "serve", !.end = 0] = [a EXCEPT !.end = 0]
        <5> HIDE DEF old
        <5> QED
          OBVIOUS
      <4> QED
        BY <4>2, <4>3
    <3> HIDE DEF q
    <3> QED
      BY <2>1, <3>1, RequestFields DEF Put
  <2>3. /\ old.pc = "mark" /\ next' = old.end
        /\ UNCHANGED <<spool, events, rows, backend, rebuilds, crashes, raced>>
    BY <1>2 DEF Mark
  <2>4. Request(Good, Len(spool), q) /\ next' \in 0..Len(spool)
    BY <1>0, <1>1a, <2>3 DEF Request
  <2>5. ~Deleting(q) /\ ~Active(q)
    BY DEF Deleting, Active
  <2>6. ~raced => /\ Has(Good, events, next') /\ Plan(Good, events, rebuilds, q)
                  /\ Closed(Good, events)
    BY <2>3, RequestFields DEF Plan
  <2> HIDE DEF q
  <2> QED
    BY <1>0, <2>2, <2>3, <2>4, <2>5, <2>6, Advance
<1>3. CASE Serve(r)
  <2>1. ~Deleting(old)
    BY <1>3 DEF Serve, Deleting
  <2> QED
    BY <1>0, <1>3, <2>1, Ends DEF Serve
<1>4. CASE Crash(r)
  <2>1. crashes' \in 0..MaxCrashes
    BY <1>0, <1>4, IndexAssumption DEF Crash
  <2>2. raced' \in BOOLEAN /\ (~raced' => ~raced /\ ~Deleting(old))
    BY <1>0, <1>4 DEF Crash, Deleting
  <2> QED
    BY <1>4, <2>1, <2>2, Ends DEF Crash
<1>5. CASE DeleteSessions(r)
  <2> DEFINE q == [pc |-> "delete_meta", start |-> old.start, todo |-> old.todo, end |-> old.end,
                   upto |-> old.upto, row |-> old.row]
  <2>1. req' = [req EXCEPT ![r] = [req[r] EXCEPT !.pc = "delete_meta"]]
    BY <1>5 DEF DeleteSessions
  <2>2. req' = Put(r, q)
    <3>1. [old EXCEPT !.pc = "delete_meta"] = q
      <4> HIDE DEF old
      <4> QED
        BY <1>1
    <3> HIDE DEF q
    <3> QED
      BY <2>1, <3>1, RequestFields DEF Put
  <2>3. /\ old.pc = "delete_sessions" /\ DOMAIN rows' = SessionIds
        /\ UNCHANGED <<spool, events, next, backend, rebuilds, crashes, raced>>
    BY <1>5 DEF DeleteSessions
  <2>4. Request(Good, Len(spool), q)
    BY <1>0, <1>1a, <2>3 DEF Request
  <2>5. Deleting(q) /\ Deleting(old) /\ Active(old) /\ Plan(Good, events, rebuilds, q)
    BY <2>3 DEF Deleting, Active, Plan
  <2> HIDE DEF q
  <2>6. \E p \in Requests : Deleting(Put(r, q)[p])
    BY <2>5 DEF Put
  <2>7. ~raced => Closed(Good, events)
    BY RequestFields
  <2> QED
    BY <1>0, <2>2, <2>3, <2>4, <2>5, <2>6, <2>7, Advance
<1>6. CASE DeleteMeta(r)
  <2> DEFINE q == [pc |-> "start", start |-> old.start, todo |-> old.todo, end |-> old.end,
                   upto |-> old.upto, row |-> old.row]
  <2>1. req' = [req EXCEPT ![r] = [req[r] EXCEPT !.pc = "start"]]
    BY <1>6 DEF DeleteMeta
  <2>2. req' = Put(r, q)
    <3>1. [old EXCEPT !.pc = "start"] = q
      <4> HIDE DEF old
      <4> QED
        BY <1>1
    <3> HIDE DEF q
    <3> QED
      BY <2>1, <3>1, RequestFields DEF Put
  <2>3. /\ old.pc = "delete_meta" /\ next' = 0
        /\ UNCHANGED <<spool, events, rows, backend, rebuilds, crashes, raced>>
    BY <1>6 DEF DeleteMeta
  <2>4. Request(Good, Len(spool), q) /\ next' \in 0..Len(spool)
    BY <1>0, <1>1a, <2>3 DEF Request
  <2>5. ~Deleting(q) /\ Active(old) /\ Plan(Good, events, rebuilds, q)
    BY <2>3 DEF Deleting, Active, Plan
  <2>6. Has(Good, events, next')
    <3>1. \A i \in Good : ~(i < 0)
      BY DEF Good
    <3> QED
      BY <2>3, <3>1 DEF Has
  <2>7. ~raced => Closed(Good, events)
    BY RequestFields
  <2> HIDE DEF q
  <2> QED
    BY <1>0, <2>2, <2>3, <2>4, <2>5, <2>6, <2>7, Advance
<1> QED
  BY <1>2, <1>3, <1>4, <1>5, <1>6

\* A catch-up or a rebuild starts: alone, or history notes it.
LEMMA BeginSteps ==
  ASSUME IndexInv, NEW r \in Requests, Begin(r) \/ Rebuild(r)
  PROVE  IndexInv'
<1> DEFINE q(pc) == [pc |-> pc, start |-> 0, todo |-> <<>>, end |-> 0, upto |-> 0, row |-> NoRow]
<1>0. /\ Len(spool) \in Nat /\ DOMAIN rows = SessionIds /\ events \subseteq Good
      /\ next \in 0..Len(spool) /\ Good \subseteq Nat
      /\ rebuilds \in 0..MaxRebuilds /\ raced \in BOOLEAN
  BY DEF IndexInv, Types, Good
<1>1. \A pc : [Idle EXCEPT !.pc = pc] = q(pc)
  BY DEF Idle
<1>2. PICK pc \in {"start", "delete_sessions"} :
        /\ req' = [req EXCEPT ![r] = q(pc)]
        /\ pc = "delete_sessions" => Rebuild(r)
        /\ Rebuild(r) => pc = "delete_sessions" \/ next' = 0
  BY <1>1 DEF Begin, Rebuild
<1>3. req' = Put(r, q(pc))
  BY <1>2, RequestFields DEF Put
<1>4. Request(Good, Len(spool), q(pc))
  BY <1>0, <1>2 DEF Request
<1>5. Good' = Good /\ UNCHANGED <<spool, backend, crashes>>
  BY DEF Begin, Rebuild, Good, At
<1>6. \A p \in Requests : req'[p] = IF p = r THEN q(pc) ELSE req[p]
  BY <1>3 DEF Put
<1>7. Types'
  <2>1. req' = [p \in Requests |-> req'[p]]
    BY <1>3 DEF Put
  <2>2. \A p \in Requests : Request(Good, Len(spool), req'[p])
    BY <1>4, <1>6 DEF IndexInv, Types
  <2>3. rebuilds' \in 0..MaxRebuilds
    BY <1>0, IndexAssumption DEF Begin, Rebuild
  <2>4. raced' \in BOOLEAN
    BY <1>0 DEF Begin, Rebuild
  <2>5. events' \subseteq Good /\ DOMAIN rows' = SessionIds /\ next' \in 0..Len(spool)
    BY <1>0 DEF Begin, Rebuild
  <2> QED
    BY <1>5, <2>1, <2>2, <2>3, <2>4, <2>5 DEF IndexInv, Types
<1>8. Plan(Good, events', rebuilds', q(pc)) /\ (Deleting(q(pc)) <=> pc = "delete_sessions")
  BY <1>2 DEF Plan, Deleting
<1> HIDE DEF q
<1>9. ASSUME ~raced'
      PROVE  /\ Closed(Good', events') /\ Covered' /\ DeletesAlone'
             /\ \A p \in Requests : Plan(Good', events', rebuilds', req'[p])
  <2>0. ~raced /\ Closed(Good, events) /\ Covered /\ DeletesAlone
    BY <1>9, RequestFields DEF Begin, Rebuild
  <2>1. CASE Begin(r)
    <3>1. /\ \A p \in Requests \ {r} : ~Deleting(req[p])
          /\ UNCHANGED <<events, next, rebuilds>> /\ req[r].pc = "idle"
      BY <1>9, <2>1 DEF Begin, Deleting
    <3>2. \A p \in Requests : ~Deleting(req[p])
      BY <3>1 DEF Deleting
    <3>3. ~Deleting(q(pc))
      BY <1>0, <1>2, <1>8, <2>1 DEF Begin, Rebuild
    <3>4. Has(Good, events, next)
      BY <2>0, <3>2 DEF Covered
    <3>5. Covered'
      BY <1>5, <3>1, <3>4 DEF Covered
    <3>6. DeletesAlone'
      BY <1>6, <3>2, <3>3 DEF DeletesAlone
    <3>7. \A p \in Requests : Plan(Good, events, rebuilds, req[p])
      BY <2>0 DEF IndexInv, IndexOK
    <3> QED
      BY <1>5, <1>6, <1>8, <2>0, <3>1, <3>5, <3>6, <3>7
  <2>2. CASE Rebuild(r)
    <3>1. /\ \A p \in Requests \ {r} : ~Active(req[p])
          /\ events' = {} /\ rebuilds' = rebuilds + 1
      BY <1>9, <2>2 DEF Rebuild, Busy, Active
    <3>2. \A p \in Requests \ {r} : Plan(Good, {}, rebuilds', req[p])
      BY <1>0, <3>1 DEF Active, Plan
    <3>3. Closed(Good, {})
      BY DEF Closed
    <3>4. Covered'
      <4>1. CASE next' = 0
        BY <1>0, <1>5, <4>1 DEF Covered, Has
      <4>2. CASE pc = "delete_sessions"
        <5>1. Deleting(req'[r])
          BY <1>6, <1>8, <4>2
        <5> QED
          BY <5>1 DEF Covered
      <4> QED
        BY <1>2, <2>2, <4>1, <4>2
    <3>5. DeletesAlone'
      <4>1. \A p \in Requests \ {r} : ~Active(req[p]) /\ ~Deleting(req[p])
        BY <3>1 DEF Active, Deleting
      <4> QED
        BY <1>6, <4>1 DEF DeletesAlone
    <3> QED
      BY <1>5, <1>6, <1>8, <3>1, <3>2, <3>3, <3>4, <3>5
  <2> QED
    BY <2>1, <2>2
<1>10. IndexOK'
  BY <1>9 DEF IndexOK
<1> QED
  BY <1>7, <1>10 DEF IndexInv

\* A line is appended, behind everything that was read.
LEMMA SpoolGrows ==
  ASSUME Types, NEW line \in Lines \cup {BadLine}, spool' = Append(spool, line)
  PROVE  /\ Len(spool)' = Len(spool) + 1 /\ Len(spool) \in Nat
         /\ spool' \in Seq(Lines \cup {BadLine})
         /\ Good \subseteq Good'
         /\ \A i \in Good' : i \in Nat /\ (i \in Good \/ i >= Len(spool))
<1>1. Len(spool') = Len(spool) + 1 /\ Len(spool) \in Nat /\ spool' \in Seq(Lines \cup {BadLine})
  BY DEF Types
<1>2. \A i \in 0..Len(spool) - 1 : i + 1 \in 1..Len(spool)
  BY <1>1
<1>3. \A i \in 1..Len(spool) : spool'[i] = spool[i]
  BY DEF Types
<1>4. \A i \in 0..Len(spool) - 1 : spool'[i + 1] = spool[i + 1]
  BY <1>2, <1>3
<1> QED
  BY <1>1, <1>4 DEF Good, At

LEMMA EmitStep ==
  ASSUME IndexInv, NEW line \in Lines \cup {BadLine}, Emit(line)
  PROVE  IndexInv'
<1>0. /\ spool' = Append(spool, line) /\ Types
      /\ UNCHANGED <<events, rows, next, req, backend, rebuilds, crashes, raced>>
  BY DEF Emit, IndexInv
<1>1. /\ Len(spool') = Len(spool) + 1 /\ Len(spool) \in Nat
      /\ spool' \in Seq(Lines \cup {BadLine})
      /\ Good \subseteq Good'
      /\ \A i \in Good' : i \in Nat /\ (i \in Good \/ i >= Len(spool))
  BY <1>0, SpoolGrows
<1>2. \A r \in Requests : Request(Good', Len(spool'), req[r])
  <2> SUFFICES ASSUME NEW r \in Requests PROVE Request(Good', Len(spool'), req[r])
    OBVIOUS
  <2>1. Request(Good, Len(spool), req[r])
    BY <1>0 DEF Types
  <2> QED
    BY <1>1, <2>1 DEF Request
<1>3. Types'
  <2>1. events \subseteq Good' /\ next \in 0..Len(spool')
    BY <1>0, <1>1 DEF Types
  <2> QED
    BY <1>0, <1>1, <1>2, <2>1 DEF Types
<1>4. ASSUME ~raced PROVE IndexOK'
  <2>0. /\ Closed(Good, events) /\ Covered /\ DeletesAlone
        /\ \A r \in Requests : Plan(Good, events, rebuilds, req[r])
    BY <1>4 DEF IndexInv, IndexOK
  <2>1. \A n \in 0..Len(spool) : Has(Good, events, n) => Has(Good', events, n)
    BY <1>1 DEF Has
  <2>2. Closed(Good', events)
    <3>1. events \subseteq 0..Len(spool)
      BY <1>0, <1>1 DEF Types, Good
    <3> QED
      BY <2>0, <2>1, <3>1 DEF Closed
  <2>3. Covered'
    BY <1>0, <2>0, <2>1 DEF Covered, Types
  <2>4. DeletesAlone'
    BY <1>0, <2>0 DEF DeletesAlone
  <2>5. \A r \in Requests : Plan(Good', events, rebuilds, req[r])
    <3> SUFFICES ASSUME NEW r \in Requests PROVE Plan(Good', events, rebuilds, req[r])
      OBVIOUS
    <3>1. Request(Good, Len(spool), req[r]) /\ Plan(Good, events, rebuilds, req[r])
      BY <1>0, <2>0 DEF Types
    <3> QED
      BY <1>1, <3>1, PlanExtends
  <2> QED
    BY <1>0, <2>2, <2>3, <2>4, <2>5 DEF IndexOK
<1> QED
  BY <1>0, <1>3, <1>4 DEF IndexInv, IndexOK

LEMMA IndexFrame ==
  ASSUME IndexInv, UNCHANGED <<spool, events, rows, next, req, backend, rebuilds, raced>>,
         crashes' \in 0..MaxCrashes
  PROVE  IndexInv'
<1>1. Good' = Good
  BY DEF Good, At
<1> QED
  BY <1>1 DEF IndexInv, Types, IndexOK, Covered, DeletesAlone

LEMMA IndexStep ==
  ASSUME IndexInv, [ConsoleNext]_consoleVars
  PROVE  IndexInv'
<1>0. crashes \in 0..MaxCrashes
  BY DEF IndexInv, Types
<1>1. ASSUME NEW line \in Lines \cup {BadLine}, Emit(line) PROVE IndexInv'
  BY <1>1, EmitStep
<1>2. ASSUME NEW r \in Requests, Begin(r) \/ Rebuild(r) \/ CatchUpStep(r) \/ Crash(r)
      PROVE  IndexInv'
  BY <1>2, BeginSteps, ReadSteps, InsertSteps, EndSteps DEF CatchUpStep
<1>3. CASE FeedStep \/ Connect \/ Stop \/ Users
  <2>1. UNCHANGED <<spool, events, rows, next, req, backend, rebuilds, crashes, raced>>
    BY <1>3 DEF FeedStep, Poll, Deliver, Connect, Stop, Users, indexVars
  <2> QED
    BY <1>0, <2>1, IndexFrame
<1>4. CASE Disconnect
  <2>1. /\ UNCHANGED <<spool, events, rows, next, req, backend, rebuilds, raced>>
        /\ crashes < MaxCrashes /\ crashes' = crashes + 1
    BY <1>4 DEF Disconnect
  <2>2. crashes' \in 0..MaxCrashes
    BY <1>0, <2>1, IndexAssumption
  <2> QED
    BY <2>1, <2>2, IndexFrame
<1>5. CASE UNCHANGED consoleVars
  BY <1>0, <1>5, IndexFrame DEF consoleVars, indexVars
<1> QED
  BY <1>1, <1>2, <1>3, <1>4, <1>5 DEF ConsoleNext, IndexNext, OpenFeed

LEMMA IndexStart ==
  ASSUME ConsoleInit
  PROVE  IndexInv
<1>1. /\ spool = <<>> /\ events = {} /\ rows = [s \in SessionIds |-> NoRow] /\ next = 0
      /\ req = [r \in Requests |-> Idle] /\ backend \in Backends
      /\ rebuilds = 0 /\ crashes = 0 /\ raced = FALSE
  BY DEF ConsoleInit, Init
<1>2. Len(spool) = 0 /\ spool \in Seq(Lines \cup {BadLine})
  BY <1>1
<1>3. Good = {}
  BY <1>2 DEF Good
<1>4. Idle = [pc |-> "idle", start |-> 0, todo |-> <<>>, end |-> 0, upto |-> 0, row |-> NoRow]
  BY DEF Idle
<1>5. Request(Good, Len(spool), Idle)
  BY <1>2, <1>4 DEF Request
<1>6. Plan(Good, events, rebuilds, Idle) /\ ~Deleting(Idle)
  BY <1>4 DEF Plan, Deleting
<1> HIDE DEF Idle
<1>7. Types
  <2>1. req = [r \in Requests |-> req[r]] /\ \A r \in Requests : req[r] = Idle
    BY <1>1
  <2>2. \A r \in Requests : Request(Good, Len(spool), req[r])
    BY <1>5, <2>1
  <2>3. DOMAIN rows = SessionIds /\ events \subseteq Good
    BY <1>1
  <2>4. raced \in BOOLEAN
    BY <1>1
  <2>5. next \in 0..Len(spool) /\ rebuilds \in 0..MaxRebuilds /\ crashes \in 0..MaxCrashes
    BY <1>1, <1>2, IndexAssumption
  <2> QED
    BY <1>1, <1>2, <2>1, <2>2, <2>3, <2>4, <2>5 DEF Types
<1>8. IndexOK
  BY <1>1, <1>3, <1>6 DEF IndexOK, Closed, Covered, DeletesAlone, Has
<1> QED
  BY <1>7, <1>8 DEF IndexInv

LEMMA IndexAlways == ConsoleSpec => []IndexInv
<1>1. ConsoleInit => IndexInv
  BY IndexStart
<1>2. IndexInv /\ [ConsoleNext]_consoleVars => IndexInv'
  BY IndexStep
<1> QED
  BY <1>1, <1>2, PTL DEF ConsoleSpec

\* The index is the beginning of the spool without a hole, whichever requests
\* overlap and wherever one dies, as long as rebuilds (and on Postgres every
\* catch-up) run alone (audit/index.py catch_up, state/postgres.py ingest).
THEOREM IndexHasNoHoles == ConsoleSpec => []NothingSkipped
<1>1. IndexInv => NothingSkipped
  <2> SUFFICES ASSUME IndexInv, ~raced, NEW i \in 0..Len(spool) - 1, At(i) # BadLine,
                      i < next \/ \E j \in events : i < j,
                      ~ \E r \in Requests : req[r].pc \in {"delete_sessions", "delete_meta"}
               PROVE  i \in events
    BY DEF NothingSkipped
  <2>1. i \in Good /\ Closed(Good, events) /\ Has(Good, events, next)
    BY DEF IndexInv, IndexOK, Covered, Deleting, Good
  <2> QED
    BY <2>1 DEF Closed, Has
<1> QED
  BY <1>1, IndexAlways, PTL

\* A request answers from an index with every event that was on the spool when
\* it looked, and walking the pages of query_events, in either direction, meets
\* each event once; tables and watermark keep their types (audit/index.py
\* catch_up and query_events).
THEOREM RequestsSeeEachOnce == ConsoleSpec => []RequestSeesEachOnce
<1>1. IndexInv => TypeOK
  <2> SUFFICES ASSUME IndexInv PROVE TypeOK
    OBVIOUS
  <2>0. Types
    BY DEF IndexInv
  <2>1. \A i \in 1..Len(spool) : spool[i] \in Lines \cup {BadLine}
    BY <2>0 DEF Types
  <2>2. events \subseteq {i \in 0..Len(spool) - 1 : At(i) # BadLine}
    BY <2>0 DEF Types, Good
  <2>3. \A r \in Requests :
          /\ req[r].pc \in {"idle", "start", "read", "insert", "select", "upsert", "mark", "serve",
                            "done", "delete_sessions", "delete_meta"}
          /\ \A i \in 1..Len(req[r].todo) : req[r].todo[i] \in 0..Len(spool) - 1
    BY <2>0 DEF Types, Request
  <2> QED
    BY <2>0, <2>1, <2>2, <2>3 DEF Types, TypeOK
<1>2. IndexInv => RequestSeesAll
  <2> SUFFICES ASSUME IndexInv, ~raced, NEW r \in Requests, req[r].pc = "serve", rebuilds = 0,
                      NEW i \in 0..req[r].upto - 1, At(i) # BadLine
               PROVE  i \in events
    BY DEF RequestSeesAll
  <2>1. Has(Good, events, req[r].upto) /\ req[r].upto \in 0..Len(spool) /\ Len(spool) \in Nat
    BY RequestFields DEF Plan, Request
  <2>2. i \in Good /\ i < req[r].upto
    BY <2>1 DEF Good
  <2> QED
    BY <2>1, <2>2 DEF Has
<1>3. IndexInv => PagesTile
  BY Tiles DEF IndexInv
<1>4. IndexInv => RequestSeesEachOnce
  BY <1>1, <1>2, <1>3 DEF RequestSeesEachOnce
<1> QED
  BY <1>4, IndexAlways, PTL


-----------------------------------------------------------------------------
(* Steps of the feed *)

LEMMA EntriesAppend ==
  ASSUME NEW s \in Seq(Nat), NEW x \in Nat
  PROVE  /\ \A n \in 0..Len(s) : Entries(Append(s, x), n) = Entries(s, n)
         /\ Entries(Append(s, x), Len(s) + 1) = Entries(s, Len(s)) \cup {x}
<1>1. /\ Len(s) \in Nat
      /\ \A m \in 1..Len(s) : Append(s, x)[m] = s[m]
      /\ Append(s, x)[Len(s) + 1] = x
  OBVIOUS
<1>2. \A m \in 1..Len(s) + 1 : m \in 1..Len(s) \/ m = Len(s) + 1
  BY <1>1
<1> DEFINE t == Append(s, x)
<1> HIDE DEF t
<1>3. \A n \in 0..Len(s) : Entries(t, n) = Entries(s, n)
  <2> SUFFICES ASSUME NEW n \in 0..Len(s) PROVE Entries(t, n) = Entries(s, n)
    OBVIOUS
  <2>1. \A m \in 1..n : t[m] = s[m]
    BY <1>1 DEF t
  <2> QED
    BY <2>1 DEF Entries
<1>4. Entries(t, Len(s) + 1) = Entries(s, Len(s)) \cup {x}
  <2>1. Len(s) + 1 \in 1..Len(s) + 1 /\ t[Len(s) + 1] = x /\ \A m \in 1..Len(s) : t[m] = s[m] /\ m \in 1..Len(s) + 1
    BY <1>1 DEF t
  <2> QED
    BY <1>2, <2>1 DEF Entries
<1> QED
  BY <1>3, <1>4 DEF t

LEMMA EntriesTail ==
  ASSUME NEW s \in Seq(Nat), s # <<>>
  PROVE  /\ Len(Tail(s)) = Len(s) - 1 /\ Tail(s) \in Seq(Nat) /\ Len(s) \in Nat /\ Len(s) >= 1
         /\ \A m \in 1..Len(s) - 1 : Tail(s)[m] = s[m + 1]
         /\ Head(s) = s[1]
         /\ \A n \in 0..Len(s) - 1 : {s[1]} \cup Entries(Tail(s), n) = Entries(s, n + 1)
<1>1. /\ Len(Tail(s)) = Len(s) - 1 /\ Tail(s) \in Seq(Nat) /\ Len(s) \in Nat /\ Len(s) >= 1
      /\ \A m \in 1..Len(s) - 1 : Tail(s)[m] = s[m + 1]
      /\ Head(s) = s[1]
  OBVIOUS
<1> DEFINE t == Tail(s)
<1>2. \A m \in 1..Len(s) - 1 : t[m] = s[m + 1]
  BY <1>1
<1> HIDE DEF t
<1>3. ASSUME NEW n \in 0..Len(s) - 1
      PROVE  {s[1]} \cup Entries(t, n) = Entries(s, n + 1)
  <2>1. \A m \in 1..n : m + 1 \in 1..n + 1 /\ t[m] = s[m + 1]
    BY <1>1, <1>2
  <2>2. \A m \in 1..n + 1 : m = 1 \/ (m - 1 \in 1..n /\ t[m - 1] = s[m])
    BY <1>1, <1>2
  <2>3. 1 \in 1..n + 1
    BY <1>1
  <2>4. \A x \in Entries(t, n) : x \in Entries(s, n + 1)
    BY <2>1 DEF Entries
  <2>5. ASSUME NEW x \in Entries(s, n + 1) PROVE x = s[1] \/ x \in Entries(t, n)
    <3>1. PICK m \in 1..n + 1 : x = s[m]
      BY DEF Entries
    <3>2. CASE m = 1
      BY <3>1, <3>2
    <3>3. CASE m - 1 \in 1..n /\ t[m - 1] = s[m]
      BY <3>1, <3>3 DEF Entries
    <3> QED
      BY <2>2, <3>2, <3>3
  <2>6. s[1] \in Entries(s, n + 1)
    BY <2>3 DEF Entries
  <2> QED
    BY <2>4, <2>5, <2>6
<1> QED
  BY <1>1, <1>3 DEF t

\* b lists what is left of G, in order, behind D.
Lists(b, R, D, G) ==
  /\ G \subseteq Nat /\ D \subseteq G /\ R \subseteq G /\ b \in Seq(Nat)
  /\ \A i \in G : i \in D \/ i \in R
  /\ \A d \in D, x \in R : d < x
  /\ \A n \in 1..Len(b) : b[n] \in R
  /\ \A i, j \in 1..Len(b) : i < j => b[i] < b[j]
  /\ \A x \in R : \E n \in 1..Len(b) : b[n] = x

\* A new batch: all that is left to show, in order, behind what was shown.
LEMMA NewBatch ==
  ASSUME NEW G, NEW D, NEW R, NEW b, Lists(b, R, D, G)
  PROVE  /\ \A n \in 1..Len(b) :
              /\ Entries(b, n - 1) \subseteq G
              /\ \A i \in G : i < b[n] <=> i \in D \/ i \in Entries(b, n - 1)
         /\ Entries(b, Len(b)) = R
<1> USE DEF Lists
<1>1. ASSUME NEW n \in 1..Len(b)
      PROVE  /\ Entries(b, n - 1) \subseteq G
             /\ \A i \in G : i < b[n] <=> i \in D \/ i \in Entries(b, n - 1)
  <2>0. Len(b) \in Nat /\ b[n] \in R /\ b[n] \in Nat
    OBVIOUS
  <2>1. ASSUME NEW i \in G, i < b[n], i \notin D PROVE i \in Entries(b, n - 1)
    <3>1. PICK m \in 1..Len(b) : b[m] = i
      BY <2>1
    <3>2. i \in Nat /\ ~(b[n] < i) /\ b[n] # i
      BY <2>0, <2>1
    <3>3. m < n
      BY <2>0, <3>1, <3>2
    <3>4. m \in 1..n - 1
      BY <2>0, <3>3
    <3> QED
      BY <3>1, <3>4 DEF Entries
  <2>2. ASSUME NEW m \in 1..n - 1 PROVE b[m] \in G /\ b[m] < b[n]
    <3>1. m \in 1..Len(b) /\ m < n
      BY <2>0
    <3> QED
      BY <3>1
  <2>3. \A d \in D : d \in G /\ d < b[n]
    BY <2>0
  <2> QED
    BY <2>1, <2>2, <2>3 DEF Entries
<1>2. Entries(b, Len(b)) = R
  BY DEF Entries
<1> QED
  BY <1>1, <1>2

\* Lines appended behind everything that was read change nothing.
LEMMA FeedGrows ==
  ASSUME NEW G \in SUBSET Nat, NEW H \in SUBSET Nat, NEW len \in Nat, G \subseteq H,
         \A i \in G : i < len, \A i \in H : i \in G \/ i >= len,
         NEW fd, FeedType(G, len, fd), FeedOK(G, fd.got, fd.stream)
  PROVE  FeedType(H, len + 1, fd) /\ FeedOK(H, fd.got, fd.stream)
<1> DEFINE got == fd.got
           f == fd.stream
<1>1. ASSUME NEW x \in 0..len PROVE {i \in H : i < x} = {i \in G : i < x}
  <2>1. \A i \in H : i < x => i \in G
    OBVIOUS
  <2> QED
    BY <2>1
<1>2. \A n \in 1..Len(got) : got[n] \in 0..len
  BY DEF FeedType
<1>3. \A n \in 1..Len(f.batch) : f.batch[n] \in 0..len
  BY DEF FeedType
<1>4. FeedType(H, len + 1, fd)
  BY DEF FeedType
<1>5. f.pos \in 0..len /\ f.after \in Int
  BY DEF FeedType
<1>6. ASSUME f.on /\ f.first
      PROVE  {i \in H : i <= f.after} = {i \in G : i <= f.after} /\ (f.after >= 0 => f.after \in H)
  <2>1. f.after >= 0 => f.after \in G
    BY <1>6 DEF FeedOK
  <2>2. f.after < len
    BY <1>5, <2>1
  <2>3. \A i \in H : i <= f.after => i \in G
    BY <1>5, <2>2
  <2> QED
    BY <2>1, <2>3
<1> QED
  BY <1>1, <1>2, <1>3, <1>4, <1>5, <1>6 DEF FeedOK

FeedInv == FeedType(Good, Len(spool), feed) /\ FeedOK(Good, feed.got, feed.stream)

LEMMA GoodFacts ==
  ASSUME Types
  PROVE  /\ Len(spool) \in Nat /\ spool \in Seq(Lines \cup {BadLine})
         /\ Good \in SUBSET Nat /\ \A i \in Good : i < Len(spool)
<1>1. Len(spool) \in Nat /\ spool \in Seq(Lines \cup {BadLine})
  BY DEF Types
<1> QED
  BY <1>1 DEF Good

LEMMA FeedTypeOf ==
  ASSUME NEW G, NEW len, NEW fd, NEW f, NEW got,
         fd = [stream |-> fd.stream, got |-> fd.got], fd.stream = f, fd.got = got,
         f = [on |-> f.on, after |-> f.after, pos |-> f.pos, batch |-> f.batch, first |-> f.first],
         f.after \in Int, f.pos \in 0..len, got \in Seq(Nat), f.batch \in Seq(Nat),
         \A m \in 1..Len(got) : got[m] \in G,
         \A m \in 1..Len(f.batch) : f.batch[m] \in G
  PROVE  FeedType(G, len, fd)
BY DEF FeedType

\* The client shows the id of the last event it has.
LEMMA ConnectStep ==
  ASSUME Types, FeedInv, Connect
  PROVE  FeedInv'
<1>0. Good' = Good /\ spool' = spool
  BY DEF Connect, Good, At
<1> DEFINE G == Good
           got == feed.got
           after == IF got = <<>> THEN -1 ELSE Last(got)
           f == [on |-> TRUE, after |-> after, pos |-> Max({0, after}), batch |-> <<>>,
                 first |-> TRUE]
<1>1. got \in Seq(Nat) /\ \A m \in 1..Len(got) : got[m] \in G
  BY DEF FeedInv, FeedType
<1>2. \A n \in 1..Len(got) : {i \in G : i < got[n]} = Entries(got, n - 1)
  BY DEF FeedInv, FeedOK
<1>3. feed' = [stream |-> f, got |-> got]
  <2>1. feed' = [feed EXCEPT !.stream = f]
    BY DEF Connect
  <2>2. feed = [stream |-> feed.stream, got |-> feed.got]
    BY DEF FeedInv, FeedType
  <2> HIDE DEF f
  <2> QED
    BY <2>1, <2>2
<1>4. G \in SUBSET Nat /\ Len(spool) \in Nat /\ \A i \in G : i < Len(spool)
  BY GoodFacts
<1>4a. /\ f.on = TRUE /\ f.first = TRUE /\ f.after = after /\ f.pos = Max({0, after})
       /\ f.batch = <<>>
       /\ f = [on |-> f.on, after |-> f.after, pos |-> f.pos, batch |-> f.batch, first |-> f.first]
  <2> HIDE DEF after
  <2> QED
    OBVIOUS
<1>4b. feed'.stream = f /\ feed'.got = got /\ feed' = [stream |-> feed'.stream, got |-> feed'.got]
  <2> HIDE DEF f, got
  <2> QED
    BY <1>3
<1> HIDE DEF G
<1>5. CASE got = <<>>
  <2>1. after = -1 /\ Len(got) = 0
    BY <1>5
  <2>2. Max({0, -1}) = 0
    BY MaxMin
  <2>3. f.on /\ f.first /\ f.after = -1 /\ f.pos = 0 /\ f.batch = <<>>
    BY <1>4a, <2>1, <2>2
  <2>4. Entries(got, Len(got)) = {}
    BY <2>1 DEF Entries
  <2>5. {i \in G : i <= -1} = {}
    <3>1. \A i \in G : ~(i <= -1)
      BY <1>4
    <3> QED
      BY <3>1
  <2> HIDE DEF f, got
  <2>6. FeedType(G, Len(spool), feed')
    <3>1. f.after \in Int /\ f.pos \in 0..Len(spool)
      BY <1>4, <2>3
    <3>2. f.batch \in Seq(Nat) /\ Len(f.batch) = 0
      BY <2>3
    <3>3. \A m \in 1..Len(f.batch) : f.batch[m] \in G
      BY <3>2
    <3> QED
      BY <1>1, <1>4a, <1>4b, <3>1, <3>2, <3>3, FeedTypeOf
  <2>7. FeedOK(G, got, f)
    BY <1>2, <2>3, <2>4, <2>5 DEF FeedOK
  <2> QED
    BY <1>0, <1>3, <2>6, <2>7 DEF FeedInv, G
<1>6. CASE got # <<>>
  <2> DEFINE k == Len(got)
  <2>1. k \in Nat /\ k >= 1 /\ k \in 1..k
    BY <1>1, <1>6
  <2>2. after = got[k] /\ got[k] \in G /\ got[k] \in Nat
    BY <1>1, <1>4, <1>6, <2>1 DEF Last
  <2>3. Max({0, got[k]}) = got[k]
    BY <2>2, MaxMin
  <2>4. f.on /\ f.first /\ f.after = got[k] /\ f.pos = got[k] /\ f.batch = <<>>
    BY <1>4a, <2>2, <2>3
  <2>5. {i \in G : i <= got[k]} = Entries(got, k)
    <3>1. {i \in G : i < got[k]} = Entries(got, k - 1)
      BY <1>2, <2>1
    <3>2. Entries(got, k) = Entries(got, k - 1) \cup {got[k]}
      BY <2>1 DEF Entries
    <3>3. \A i \in G : i <= got[k] <=> (i < got[k] \/ i = got[k])
      BY <1>4, <2>2
    <3> QED
      BY <2>2, <3>1, <3>2, <3>3
  <2> HIDE DEF f, got
  <2>6. FeedType(G, Len(spool), feed')
    <3>1. f.after \in Int /\ f.pos \in 0..Len(spool)
      BY <1>4, <2>2, <2>4
    <3>2. f.batch \in Seq(Nat) /\ Len(f.batch) = 0
      BY <2>4
    <3>3. \A m \in 1..Len(f.batch) : f.batch[m] \in G
      BY <3>2
    <3> QED
      BY <1>1, <1>4a, <1>4b, <3>1, <3>2, <3>3, FeedTypeOf
  <2>7. FeedOK(G, got, f)
    BY <1>2, <2>2, <2>4, <2>5 DEF FeedOK
  <2> QED
    BY <1>0, <1>3, <2>6, <2>7 DEF FeedInv, G
<1> QED
  BY <1>5, <1>6

LEMMA DeliverStep ==
  ASSUME Types, FeedInv, Deliver
  PROVE  FeedInv'
<1>0. Good' = Good /\ spool' = spool
  BY DEF Deliver, Good, At
<1> DEFINE G == Good
           got == feed.got
           f == feed.stream
           b == f.batch
           h == [f EXCEPT !.batch = Tail(b)]
           more == Append(got, b[1])
<1>1. /\ got \in Seq(Nat) /\ b \in Seq(Nat) /\ f.pos \in 0..Len(spool) /\ f.after \in Int
      /\ \A m \in 1..Len(got) : got[m] \in G
      /\ \A m \in 1..Len(b) : b[m] \in G
      /\ f = [on |-> f.on, after |-> f.after, pos |-> f.pos, batch |-> f.batch, first |-> f.first]
  BY DEF FeedInv, FeedType
<1>2. f.on /\ b # <<>>
  BY DEF Deliver
<1>3. /\ \A n \in 1..Len(got) : {i \in G : i < got[n]} = Entries(got, n - 1)
      /\ \A n \in 1..Len(b) :
           {i \in G : i < b[n]} = Entries(got, Len(got)) \cup Entries(b, n - 1)
      /\ f.on /\ ~f.first =>
           {i \in G : i < f.pos} = Entries(got, Len(got)) \cup Entries(b, Len(b))
      /\ f.on /\ f.first => b = <<>>
  BY DEF FeedInv, FeedOK
<1>4. feed' = [stream |-> h, got |-> Append(got, Head(b))]
  BY DEF Deliver
<1> HIDE DEF G, got, f
<1>5. /\ h = [on |-> h.on, after |-> h.after, pos |-> h.pos, batch |-> h.batch, first |-> h.first]
      /\ h.on = f.on /\ h.after = f.after /\ h.pos = f.pos /\ h.first = f.first
      /\ h.batch = Tail(b)
  <2> DEFINE t == Tail(b)
  <2>1. h = [f EXCEPT !.batch = t]
    OBVIOUS
  <2> HIDE DEF t, b, h
  <2>2. h = [on |-> f.on, after |-> f.after, pos |-> f.pos, batch |-> t, first |-> f.first]
    BY <1>1, <2>1
  <2> QED
    BY <2>2 DEF t
<1> HIDE DEF b, h
<1>6. /\ Len(Tail(b)) = Len(b) - 1 /\ Tail(b) \in Seq(Nat) /\ Len(b) \in Nat /\ Len(b) >= 1
      /\ \A m \in 1..Len(b) - 1 : Tail(b)[m] = b[m + 1]
      /\ Head(b) = b[1]
      /\ \A n \in 0..Len(b) - 1 : {b[1]} \cup Entries(Tail(b), n) = Entries(b, n + 1)
  BY <1>1, <1>2, EntriesTail
<1>7. b[1] \in G /\ b[1] \in Nat /\ 1 \in 1..Len(b) /\ Len(got) \in Nat
  <2>1. 1 \in 1..Len(b)
    BY <1>6
  <2>2. b[1] \in G /\ b[1] \in Nat
    <3>1. \A m \in 1..Len(b) : b[m] \in G
      BY <1>1
    <3>2. b \in Seq(Nat)
      BY <1>1
    <3> QED
      BY <2>1, <3>1, <3>2
  <2>3. Len(got) \in Nat
    BY <1>1
  <2> QED
    BY <2>1, <2>2, <2>3
<1>8. /\ \A n \in 0..Len(got) : Entries(more, n) = Entries(got, n)
      /\ Entries(more, Len(got) + 1) = Entries(got, Len(got)) \cup {b[1]}
  BY <1>1, <1>7, EntriesAppend
<1>9. /\ more \in Seq(Nat) /\ Len(more) = Len(got) + 1
      /\ \A m \in 1..Len(got) : more[m] = got[m]
      /\ more[Len(got) + 1] = b[1]
  BY <1>1, <1>7
<1>10. feed' = [stream |-> h, got |-> more]
  BY <1>4, <1>6
<1> HIDE DEF more
<1>11. \A n \in 1..Len(more) : n \in 1..Len(got) \/ n = Len(got) + 1
  BY <1>7, <1>9
<1>12. FeedType(G, Len(spool), feed')
  <2>1. \A m \in 1..Len(more) : more[m] \in G
    BY <1>1, <1>7, <1>9, <1>11
  <2>2. \A m \in 1..Len(h.batch) : h.batch[m] \in G
    <3>1. \A m \in 1..Len(b) - 1 : m + 1 \in 1..Len(b)
      BY <1>6
    <3> QED
      BY <1>1, <1>5, <1>6, <3>1
  <2> QED
    BY <1>1, <1>5, <1>6, <1>9, <1>10, <2>1, <2>2 DEF FeedType
<1>13. FeedOK(G, more, h)
  <2>0. ~f.first
    BY <1>2, <1>3
  <2>1. ASSUME NEW n \in 1..Len(more)
        PROVE  {i \in G : i < more[n]} = Entries(more, n - 1)
    <3>1. CASE n \in 1..Len(got)
      <4>1. n - 1 \in 0..Len(got)
        BY <1>7, <3>1
      <4> QED
        BY <1>3, <1>8, <1>9, <3>1, <4>1
    <3>2. CASE n = Len(got) + 1
      <4>1. {i \in G : i < b[1]} = Entries(got, Len(got)) \cup Entries(b, 0)
        BY <1>3, <1>7
      <4>2. Entries(b, 0) = {}
        BY DEF Entries
      <4>3. n - 1 = Len(got) /\ Len(got) \in 0..Len(got)
        BY <1>7, <3>2
      <4>4. {i \in G : i < b[1]} = Entries(got, Len(got))
        BY <4>1, <4>2
      <4>5. Entries(more, Len(got)) = Entries(got, Len(got))
        BY <1>8, <4>3
      <4> QED
        BY <1>9, <3>2, <4>3, <4>4, <4>5
    <3> QED
      BY <1>11, <3>1, <3>2
  <2>2. \A n \in 0..Len(b) - 1 :
          Entries(more, Len(more)) \cup Entries(h.batch, n)
            = Entries(got, Len(got)) \cup Entries(b, n + 1)
    <3> SUFFICES ASSUME NEW n \in 0..Len(b) - 1
                 PROVE  Entries(more, Len(more)) \cup Entries(h.batch, n)
                          = Entries(got, Len(got)) \cup Entries(b, n + 1)
      OBVIOUS
    <3>1. {b[1]} \cup Entries(h.batch, n) = Entries(b, n + 1)
      BY <1>5, <1>6
    <3>2. Entries(more, Len(more)) = Entries(got, Len(got)) \cup {b[1]}
      BY <1>8, <1>9
    <3> QED
      BY <3>1, <3>2
  <2>3. ASSUME NEW n \in 1..Len(h.batch)
        PROVE  {i \in G : i < h.batch[n]} = Entries(more, Len(more)) \cup Entries(h.batch, n - 1)
    <3>1. n - 1 \in 0..Len(b) - 1 /\ n + 1 \in 1..Len(b) /\ n \in 1..Len(b) - 1 /\ (n - 1) + 1 = n
          /\ (n + 1) - 1 = n
      BY <1>5, <1>6
    <3>2. {i \in G : i < b[n + 1]} = Entries(got, Len(got)) \cup Entries(b, n)
      BY <1>3, <3>1
    <3>3. h.batch[n] = b[n + 1]
      BY <1>5, <1>6, <3>1
    <3>4. Entries(more, Len(more)) \cup Entries(h.batch, n - 1)
            = Entries(got, Len(got)) \cup Entries(b, n)
      BY <2>2, <3>1
    <3> QED
      BY <3>2, <3>3, <3>4
  <2>4. {i \in G : i < h.pos} = Entries(more, Len(more)) \cup Entries(h.batch, Len(h.batch))
    <3>1. Len(h.batch) = Len(b) - 1 /\ Len(b) - 1 \in 0..Len(b) - 1 /\ (Len(b) - 1) + 1 = Len(b)
      BY <1>5, <1>6
    <3>2. {i \in G : i < f.pos} = Entries(got, Len(got)) \cup Entries(b, Len(b))
      BY <1>2, <1>3, <2>0
    <3>3. Entries(more, Len(more)) \cup Entries(h.batch, Len(b) - 1)
            = Entries(got, Len(got)) \cup Entries(b, Len(b))
      BY <2>2, <3>1
    <3> QED
      BY <1>5, <3>1, <3>2, <3>3
  <2> QED
    BY <1>5, <2>0, <2>1, <2>3, <2>4 DEF FeedOK
<1> QED
  BY <1>0, <1>10, <1>12, <1>13 DEF FeedInv, G

\* A pass over the spool fetches all that is left to show, and nothing else.
LEMMA PollStep ==
  ASSUME Types, FeedInv, Poll
  PROVE  FeedInv'
<1>0. Good' = Good /\ spool' = spool
  BY DEF Poll, Good, At
<1> DEFINE G == Good
           got == feed.got
           f == feed.stream
           result == ReadSpool(f.pos)
           seen == {i \in G : i >= f.pos}
           b == IF f.first THEN Ascending({i \in ToSet(result.records) : i > f.after})
                ELSE result.records
           end == result.end
           h == [on |-> TRUE, after |-> f.after, pos |-> end, first |-> FALSE, batch |-> b]
           D == Entries(got, Len(got))
           R == IF f.first THEN {i \in G : i > f.after} ELSE seen
<1>1. /\ got \in Seq(Nat) /\ f.pos \in 0..Len(spool) /\ f.after \in Int
      /\ \A m \in 1..Len(got) : got[m] \in G
      /\ feed = [stream |-> f, got |-> got]
  BY DEF FeedInv, FeedType
<1>2. f.on /\ f.batch = <<>>
  BY DEF Poll
<1>3. /\ \A n \in 1..Len(got) : {i \in G : i < got[n]} = Entries(got, n - 1)
      /\ f.on /\ ~f.first =>
           {i \in G : i < f.pos} = Entries(got, Len(got)) \cup Entries(f.batch, Len(f.batch))
      /\ f.on /\ f.first =>
           /\ {i \in G : i <= f.after} = Entries(got, Len(got))
           /\ f.pos = IF f.after < 0 THEN 0 ELSE f.after
  BY DEF FeedInv, FeedOK
<1>4. feed' = [feed EXCEPT !.stream = h]
  BY DEF Poll
<1>5. /\ Len(spool) \in Nat /\ spool \in Seq(Lines \cup {BadLine})
      /\ G \in SUBSET Nat /\ \A i \in G : i < Len(spool)
  BY GoodFacts
<1>6. LET s == result.records IN
      /\ s \in Seq(seen) /\ s \in Seq(Nat)
      /\ \A i, j \in 1..Len(s) : i < j => s[i] < s[j]
      /\ \A x \in seen : \E i \in 1..Len(s) : s[i] = x
      /\ end \in f.pos..Len(spool)
      /\ \A x \in seen : x < end
  BY <1>1, <1>5, ReadFacts
<1> HIDE DEF got, f
<1>7. ToSet(result.records) = seen
  <2> DEFINE s == result.records
  <2> HIDE DEF result, seen
  <2>1. \A i \in 1..Len(s) : s[i] \in seen
    BY <1>6
  <2>2. DOMAIN s = 1..Len(s)
    BY <1>6
  <2> QED
    BY <1>6, <2>1, <2>2 DEF ToSet
<1>8. feed' = [stream |-> h, got |-> got]
  <2> HIDE DEF h
  <2> QED
    BY <1>1, <1>4
<1>9. /\ h.on = TRUE /\ h.first = FALSE /\ h.after = f.after /\ h.pos = end /\ h.batch = b
      /\ h = [on |-> h.on, after |-> h.after, pos |-> h.pos, batch |-> h.batch, first |-> h.first]
  <2> HIDE DEF b, end
  <2> QED
    OBVIOUS
<1>10. ASSUME f.first
       PROVE  {i \in seen : i > f.after} = {i \in G : i > f.after}
  <2>1. f.pos = IF f.after < 0 THEN 0 ELSE f.after
    BY <1>2, <1>3, <1>10
  <2>2. \A i \in G : i > f.after => i >= f.pos
    BY <1>1, <1>5, <2>1
  <2> QED
    BY <2>2
<1>11. /\ b \in Seq(Nat) /\ \A n \in 1..Len(b) : b[n] \in R
       /\ \A i, j \in 1..Len(b) : i < j => b[i] < b[j]
       /\ \A x \in R : \E n \in 1..Len(b) : b[n] = x
  <2>1. CASE f.first
    <3>1. b = Ascending(R) /\ R \in SUBSET G
      BY <1>7, <1>10, <2>1
    <3> HIDE DEF b, R
    <3>2. IsFiniteSet(R) /\ R \in SUBSET Int /\ R \in SUBSET Nat
      BY <1>5, <3>1, SpoolFinite
    <3>3. /\ b \in Seq(R)
          /\ \A i, j \in 1..Len(b) : i < j => b[i] < b[j]
          /\ \A x \in R : \E i \in 1..Len(b) : b[i] = x
      BY <3>1, <3>2, AscendingFacts
    <3>4. Len(b) \in Nat /\ b \in [1..Len(b) -> R]
      BY <3>3
    <3>5. b \in [1..Len(b) -> Nat]
      BY <3>2, <3>4
    <3> QED
      BY <3>3, <3>4, <3>5
  <2>2. CASE ~f.first
    <3>1. b = result.records /\ R = seen
      BY <2>2
    <3> HIDE DEF b, R, seen, result
    <3> QED
      BY <1>6, <3>1
  <2> QED
    BY <2>1, <2>2
<1>12. D \cup R = G /\ \A d \in D, x \in R : d < x
  <2>1. CASE f.first
    <3>1. D = {i \in G : i <= f.after} /\ R = {i \in G : i > f.after}
      BY <1>2, <1>3, <2>1
    <3>2. \A i \in G : i \in Nat /\ (i <= f.after \/ i > f.after)
      BY <1>1, <1>5
    <3> HIDE DEF D, R
    <3> QED
      BY <1>1, <3>1, <3>2
  <2>2. CASE ~f.first
    <3>0. Entries(f.batch, Len(f.batch)) = {}
      BY <1>2 DEF Entries
    <3>1. D = {i \in G : i < f.pos} /\ R = {i \in G : i >= f.pos}
      BY <1>2, <1>3, <2>2, <3>0
    <3>2. \A i \in G : i \in Nat /\ (i < f.pos \/ i >= f.pos)
      BY <1>1, <1>5
    <3> HIDE DEF D, R
    <3> QED
      BY <1>1, <3>1, <3>2
  <2> QED
    BY <2>1, <2>2
<1>13. {i \in G : i < end} = G
  <2>1. \A i \in G : i < end
    <3> SUFFICES ASSUME NEW i \in G PROVE i < end
      OBVIOUS
    <3>1. i \in Nat /\ end \in Nat /\ f.pos \in Nat /\ f.pos <= end
      BY <1>1, <1>5, <1>6
    <3>2. i >= f.pos => i < end
      BY <1>6
    <3> HIDE DEF end
    <3> QED
      BY <3>1, <3>2
  <2> QED
    BY <2>1
<1>14. R \in SUBSET G /\ end \in 0..Len(spool)
  <2>1. R \in SUBSET G
    OBVIOUS
  <2> QED
    BY <1>1, <1>5, <1>6, <2>1
<1> HIDE DEF G, R, D, b, h, end
<1>15. /\ \A n \in 1..Len(b) : {i \in G : i < b[n]} = D \cup Entries(b, n - 1)
       /\ Entries(b, Len(b)) = R
  <2>1. D \subseteq G /\ R \subseteq G
    BY <1>12
  <2>2. Lists(b, R, D, G)
    BY <1>5, <1>11, <1>12, <2>1 DEF Lists
  <2>8. /\ \A n \in 1..Len(b) :
             /\ Entries(b, n - 1) \subseteq G
             /\ \A i \in G : i < b[n] <=> i \in D \/ i \in Entries(b, n - 1)
        /\ Entries(b, Len(b)) = R
    BY <2>2, NewBatch
  <2>9. ASSUME NEW n \in 1..Len(b)
        PROVE  {i \in G : i < b[n]} = D \cup Entries(b, n - 1)
    BY <2>1, <2>8
  <2> QED
    BY <2>8, <2>9
<1>16. FeedType(G, Len(spool), feed')
  <2>1. feed'.stream = h /\ feed'.got = got /\ feed' = [stream |-> feed'.stream, got |-> feed'.got]
    BY <1>8
  <2>2. \A n \in 1..Len(b) : b[n] \in G
    BY <1>11, <1>14
  <2> QED
    BY <1>1, <1>9, <1>11, <1>14, <2>1, <2>2, FeedTypeOf
<1>17. FeedOK(G, got, h)
  <2>1. {i \in G : i < h.pos} = D \cup Entries(b, Len(b))
    BY <1>9, <1>12, <1>13, <1>15
  <2> QED
    BY <1>3, <1>9, <1>15, <2>1 DEF FeedOK, D
<1> QED
  BY <1>0, <1>8, <1>16, <1>17 DEF FeedInv, G

\* A connection that is gone leaves what was shown.
LEMMA CloseStep ==
  ASSUME Types, FeedInv, UNCHANGED spool, feed' = [feed EXCEPT !.stream = NoFeed]
  PROVE  FeedInv'
<1>0. Good' = Good /\ spool' = spool
  BY DEF Good, At
<1>1. /\ NoFeed = [on |-> FALSE, after |-> -1, pos |-> 0, batch |-> <<>>, first |-> FALSE]
      /\ NoFeed.on = FALSE /\ NoFeed.after = -1 /\ NoFeed.pos = 0 /\ NoFeed.batch = <<>>
      /\ NoFeed.first = FALSE
  BY DEF NoFeed
<1>2. /\ feed.got \in Seq(Nat) /\ \A m \in 1..Len(feed.got) : feed.got[m] \in Good
      /\ feed = [stream |-> feed.stream, got |-> feed.got]
  BY DEF FeedInv, FeedType
<1>3. feed' = [stream |-> NoFeed, got |-> feed.got]
  BY <1>2
<1>4. feed'.stream = NoFeed /\ feed'.got = feed.got
  BY <1>3
<1>5. Len(spool) \in Nat /\ <<>> \in Seq(Nat) /\ Len(<<>>) = 0
  BY GoodFacts
<1>6. NoFeed.after \in Int /\ NoFeed.pos \in 0..Len(spool) /\ NoFeed.batch \in Seq(Nat)
  BY <1>1, <1>5
<1>7. \A m \in 1..Len(NoFeed.batch) : NoFeed.batch[m] \in Good
  BY <1>1, <1>5
<1>8. NoFeed = [on |-> NoFeed.on, after |-> NoFeed.after, pos |-> NoFeed.pos,
                batch |-> NoFeed.batch, first |-> NoFeed.first]
  BY <1>1
<1>9. FeedType(Good, Len(spool), feed')
  BY <1>2, <1>3, <1>4, <1>6, <1>7, <1>8, FeedTypeOf
<1>10. FeedOK(Good, feed.got, NoFeed)
  <2>1. \A n \in 1..Len(feed.got) : {i \in Good : i < feed.got[n]} = Entries(feed.got, n - 1)
    BY DEF FeedInv, FeedOK
  <2>2. \A n \in 1..Len(NoFeed.batch) : FALSE
    BY <1>1, <1>5
  <2> QED
    BY <1>1, <2>1, <2>2 DEF FeedOK
<1> QED
  BY <1>0, <1>4, <1>9, <1>10 DEF FeedInv

LEMMA FeedStepKeeps ==
  ASSUME IndexInv, FeedInv, [ConsoleNext]_consoleVars
  PROVE  FeedInv'
<1>0. Types
  BY DEF IndexInv
<1>1. ASSUME NEW line \in Lines \cup {BadLine}, Emit(line) PROVE FeedInv'
  <2>1. spool' = Append(spool, line) /\ feed' = feed
    BY <1>1 DEF Emit
  <2>2. /\ Len(spool') = Len(spool) + 1 /\ Len(spool) \in Nat
        /\ Good \subseteq Good'
        /\ \A i \in Good' : i \in Nat /\ (i \in Good \/ i >= Len(spool))
    BY <1>0, <2>1, SpoolGrows
  <2>3. Good \in SUBSET Nat /\ Good' \in SUBSET Nat /\ \A i \in Good : i < Len(spool)
    BY <1>0, <2>2, GoodFacts
  <2>4. FeedType(Good', Len(spool) + 1, feed) /\ FeedOK(Good', feed.got, feed.stream)
    BY <2>2, <2>3, FeedGrows DEF FeedInv
  <2> QED
    BY <2>1, <2>2, <2>4 DEF FeedInv
<1>2. CASE UNCHANGED <<spool, feed>>
  <2>1. Good' = Good
    BY <1>2 DEF Good, At
  <2> QED
    BY <1>2, <2>1 DEF FeedInv
<1>3. ASSUME NEW r \in Requests, Begin(r) \/ Rebuild(r) \/ CatchUpStep(r) \/ Crash(r)
      PROVE  UNCHANGED <<spool, feed>>
  BY <1>3 DEF Begin, Rebuild, CatchUpStep, Crash, ReadOffset, ReadLines, Ingest, InsertRow,
              SelectRow, UpsertRow, Mark, Serve, DeleteSessions, DeleteMeta
<1>4. CASE Disconnect \/ Stop
  <2>1. UNCHANGED spool /\ feed' = [feed EXCEPT !.stream = NoFeed]
    BY <1>4 DEF Disconnect, Stop
  <2> QED
    BY <1>0, <2>1, CloseStep
<1>5. CASE Users \/ UNCHANGED consoleVars
  BY <1>2, <1>5 DEF Users, consoleVars, indexVars
<1>6. CASE FeedStep \/ Connect
  BY <1>0, <1>6, ConnectStep, DeliverStep, PollStep DEF FeedStep
<1> QED
  BY <1>1, <1>2, <1>3, <1>4, <1>5, <1>6 DEF ConsoleNext, IndexNext, OpenFeed

\* The live feed shows its client every event that parses once and in the order
\* of the spool, however often the connection is lost and picked up again
\* (console/app.py stream, audit/reader.py read_spool).
THEOREM FeedShowsEachInOrder == ConsoleSpec => []FeedInOrder
<1>1. ConsoleInit => FeedInv
  <2> SUFFICES ASSUME ConsoleInit PROVE FeedInv
    OBVIOUS
  <2>1. spool = <<>> /\ feed = [stream |-> NoFeed, got |-> <<>>]
    BY DEF ConsoleInit, Init
  <2>2. feed.stream = NoFeed /\ feed.got = <<>> /\ Len(spool) = 0
    BY <2>1
  <2>3. /\ NoFeed = [on |-> NoFeed.on, after |-> NoFeed.after, pos |-> NoFeed.pos,
                     batch |-> NoFeed.batch, first |-> NoFeed.first]
        /\ NoFeed.on = FALSE /\ NoFeed.after = -1 /\ NoFeed.pos = 0 /\ NoFeed.batch = <<>>
    BY DEF NoFeed
  <2>4. NoFeed.after \in Int /\ NoFeed.pos \in 0..Len(spool) /\ NoFeed.batch \in Seq(Nat)
    BY <2>2, <2>3
  <2>5. FeedType(Good, Len(spool), feed)
    <3>1. /\ \A m \in 1..Len(feed.got) : feed.got[m] \in Good
          /\ \A m \in 1..Len(NoFeed.batch) : NoFeed.batch[m] \in Good
      BY <2>2, <2>3
    <3>2. feed = [stream |-> feed.stream, got |-> feed.got] /\ feed.got \in Seq(Nat)
      BY <2>1, <2>2
    <3> QED
      BY <2>2, <2>3, <2>4, <3>1, <3>2, FeedTypeOf
  <2>6. FeedOK(Good, feed.got, feed.stream)
    BY <2>2, <2>3 DEF FeedOK
  <2> QED
    BY <2>5, <2>6 DEF FeedInv
<1>2. IndexInv /\ FeedInv /\ [ConsoleNext]_consoleVars => FeedInv'
  BY FeedStepKeeps
<1>3. FeedInv => FeedInOrder
  <2> SUFFICES ASSUME FeedInv, NEW n \in 1..Len(feed.got)
               PROVE  {i \in Good : i < feed.got[n]} = {feed.got[m] : m \in 1..n - 1}
    BY DEF FeedInOrder, Good
  <2> QED
    BY DEF FeedInv, FeedOK, Entries
<1> QED
  BY <1>1, <1>2, <1>3, IndexAlways, PTL DEF ConsoleSpec

-----------------------------------------------------------------------------
(* The roll-up.  What _roll_up makes of the events of a session, one after *)
(* the other, is what they add up to: an induction over the batch.         *)

LEMMA LoopInduction ==
  ASSUME NEW N \in Nat, NEW S, 0 \in S, \A n \in 1..N : n - 1 \in S => n \in S
  PROVE  \A n \in 0..N : n \in S
<1> SUFFICES ASSUME NEW m \in 0..N, m \notin S PROVE FALSE
  OBVIOUS
<1> DEFINE T == {n \in 0..N : n \notin S}
<1>1. T \subseteq Nat /\ T # {}
  OBVIOUS
<1>2. IsWellFoundedOn(OpToRel(<, Nat), Nat)
  BY NatLessThanWellFounded
<1>3. PICK x \in T : \A y \in T : ~(<<y, x>> \in OpToRel(<, Nat))
  BY <1>1, <1>2, WFMin
<1>4. \A y \in T : ~(y < x)
  BY <1>1, <1>3 DEF OpToRel
<1>5. x # 0 /\ x \in 1..N /\ x - 1 \in 0..N /\ x - 1 < x
  OBVIOUS
<1>6. x - 1 \in S
  BY <1>4, <1>5
<1> QED
  BY <1>5, <1>6

Rows == [count : Nat, allowed : Nat, blocked : Nat, tainted : BOOLEAN, suspended : BOOLEAN,
         score : {0} \cup {e.score : e \in Lines}]

\* A set of offsets gains an element, or not.
LEMMA CountOneMore ==
  ASSUME NEW A, IsFiniteSet(A), NEW i, i \notin A, NEW B, NEW yes \in BOOLEAN,
         B = IF yes THEN A \cup {i} ELSE A
  PROVE  /\ Cardinality(B) = Cardinality(A) + (IF yes THEN 1 ELSE 0)
         /\ Cardinality(A) \in Nat
<1>1. Cardinality(A) \in Nat
  BY FS_CardinalityType
<1>2. CASE yes
  <2>1. Cardinality(A \cup {i}) = Cardinality(A) + 1
    BY FS_AddElement
  <2> QED
    BY <1>1, <1>2, <2>1
<1>3. CASE ~yes
  BY <1>1, <1>3
<1> QED
  BY <1>1, <1>2, <1>3

LEMMA Parts ==
  ASSUME NEW S, IsFiniteSet(S), NEW i, i \notin S, NEW names
  PROVE  /\ IsFiniteSet(Named(names, S)) /\ i \notin Named(names, S)
         /\ Named(names, S \cup {i}) =
              IF At(i).name \in names THEN Named(names, S) \cup {i} ELSE Named(names, S)
         /\ Cardinality(Named(names, S \cup {i})) =
              Cardinality(Named(names, S)) + (IF At(i).name \in names THEN 1 ELSE 0)
         /\ Cardinality(Named(names, S)) \in Nat
<1>1. Named(names, S) \in SUBSET S
  BY DEF Named
<1>2. IsFiniteSet(Named(names, S)) /\ i \notin Named(names, S)
  BY <1>1, FS_Subset
<1>3. Named(names, S \cup {i}) =
        IF At(i).name \in names THEN Named(names, S) \cup {i} ELSE Named(names, S)
  BY DEF Named
<1> DEFINE yes == At(i).name \in names
<1>4. yes \in BOOLEAN
  OBVIOUS
<1>5. Named(names, S \cup {i}) = IF yes THEN Named(names, S) \cup {i} ELSE Named(names, S)
  BY <1>3
<1> HIDE DEF yes
<1>6. /\ Cardinality(Named(names, S \cup {i})) = Cardinality(Named(names, S)) + (IF yes THEN 1 ELSE 0)
      /\ Cardinality(Named(names, S)) \in Nat
  BY <1>2, <1>4, <1>5, CountOneMore
<1> QED
  BY <1>2, <1>3, <1>6 DEF yes

\* The score of the last event that has one.
LastScore(S) == IF Scored(S) = {} THEN 0 ELSE At(Max(Scored(S))).score

LEMMA LastScoreGrows ==
  ASSUME NEW S \in SUBSET Nat, IsFiniteSet(S), NEW i \in Nat, \A j \in S : j < i
  PROVE  LastScore(S \cup {i}) = IF At(i).score = NoScore THEN LastScore(S) ELSE At(i).score
<1>1. CASE At(i).score = NoScore
  <2>1. Scored(S \cup {i}) = Scored(S)
    BY <1>1 DEF Scored
  <2> QED
    BY <1>1, <2>1 DEF LastScore
<1>2. CASE At(i).score # NoScore
  <2> DEFINE T == Scored(S \cup {i})
  <2>1. i \in T /\ \A j \in T : j <= i /\ j \in Nat
    BY <1>2 DEF Scored
  <2> HIDE DEF T
  <2>2. Max(T) \in T /\ \A j \in T : Max(T) >= j
    BY <2>1 DEF Max
  <2>3. Max(T) = i
    <3>1. Max(T) \in Nat /\ Max(T) <= i /\ Max(T) >= i
      BY <2>1, <2>2
    <3> QED
      BY <3>1
  <2> QED
    BY <1>2, <2>1, <2>3 DEF LastScore, T
<1> QED
  BY <1>1, <1>2

LEMMA SummaryFields ==
  ASSUME spool \in Seq(Lines \cup {BadLine}), NEW S \in SUBSET Good
  PROVE  /\ Summary(S) \in Rows /\ Summary(S) # NoRow
         /\ Summary(S).count = Cardinality(S)
         /\ Summary(S).allowed = Cardinality(Named({"allowed"}, S))
         /\ Summary(S).blocked = Cardinality(Named({"blocked", "blocked_suspended"}, S))
         /\ Summary(S).tainted = (Named({"tainted"}, S) # {})
         /\ Summary(S).suspended = (Named({"suspended"}, S) # {})
         /\ Summary(S).score = LastScore(S)
<1>1. IsFiniteSet(S) /\ S \in SUBSET Nat
  BY SpoolFinite
<1>2. Cardinality(S) \in Nat
  BY <1>1, FS_CardinalityType
<1>3. \A names : Cardinality(Named(names, S)) \in Nat
  <2> TAKE names
  <2>1. Named(names, S) \in SUBSET S
    BY DEF Named
  <2>2. IsFiniteSet(Named(names, S))
    BY <1>1, <2>1, FS_Subset
  <2> QED
    BY <2>2, FS_CardinalityType
<1>4. LastScore(S) \in {0} \cup {e.score : e \in Lines}
  <2>1. CASE Scored(S) = {}
    BY <2>1 DEF LastScore
  <2>2. CASE Scored(S) # {}
    <3> DEFINE T == Scored(S)
    <3>1. T \in SUBSET S
      BY DEF Scored
    <3>2. T # {}
      BY <2>2
    <3> HIDE DEF T
    <3>3. IsFiniteSet(T) /\ T \in SUBSET Int
      <4>1. T \in SUBSET Good
        BY <3>1
      <4> QED
        BY <4>1, SpoolFinite
    <3>4. Max(T) \in T
      BY <3>2, <3>3, MaxOf
    <3>5. At(Max(T)) \in Lines
      <4>1. Max(T) \in Good
        BY <3>1, <3>4
      <4>2. Max(T) \in 0..Len(spool) - 1 /\ At(Max(T)) # BadLine
        BY <4>1 DEF Good
      <4>3. Max(T) + 1 \in 1..Len(spool)
        BY <4>2
      <4>4. At(Max(T)) \in Lines \cup {BadLine}
        BY <4>3 DEF At
      <4> QED
        BY <4>2, <4>4
    <3> QED
      BY <2>2, <3>5 DEF LastScore, T
  <2> QED
    BY <2>1, <2>2
<1> DEFINE c == Cardinality(S)
           a == Cardinality(Named({"allowed"}, S))
           b == Cardinality(Named({"blocked", "blocked_suspended"}, S))
           t == Named({"tainted"}, S) # {}
           u == Named({"suspended"}, S) # {}
           k == LastScore(S)
<1>5. Summary(S) = [count |-> c, allowed |-> a, blocked |-> b, tainted |-> t, suspended |-> u,
                    score |-> k]
  BY DEF Summary, LastScore
<1>6. c \in Nat /\ a \in Nat /\ b \in Nat /\ k \in {0} \cup {e.score : e \in Lines}
  BY <1>2, <1>3, <1>4
<1>7. t \in BOOLEAN /\ u \in BOOLEAN
  OBVIOUS
<1> HIDE DEF c, a, b, t, u, k
<1>8. Summary(S) \in Rows
  BY <1>5, <1>6, <1>7 DEF Rows
<1>9. NoRow \notin Rows
  BY IndexAssumption DEF Rows
<1>10. /\ Summary(S).count = c /\ Summary(S).allowed = a /\ Summary(S).blocked = b
       /\ Summary(S).tainted = t /\ Summary(S).suspended = u /\ Summary(S).score = k
  BY <1>5
<1> QED
  BY <1>8, <1>9, <1>10 DEF c, a, b, t, u, k

\* One more event, later than all of them.
LEMMA SummaryGrows ==
  ASSUME spool \in Seq(Lines \cup {BadLine}), NEW S \in SUBSET Good, NEW i \in Good,
         \A j \in S : j < i
  PROVE  RollUp(IF S = {} THEN NoRow ELSE Summary(S), At(i)) = Summary(S \cup {i})
<1> DEFINE old == IF S = {} THEN EmptyRow ELSE Summary(S)
           R == S \cup {i}
           e == At(i)
<1>1. IsFiniteSet(S) /\ S \in SUBSET Nat
  BY SpoolFinite
<1>2. i \in Nat /\ i \notin S
  <2>1. i \in Nat
    BY DEF Good
  <2> QED
    BY <1>1, <2>1
<1>3. R \in SUBSET Good
  OBVIOUS
<1>4. /\ old.count = Cardinality(S)
      /\ old.allowed = Cardinality(Named({"allowed"}, S))
      /\ old.blocked = Cardinality(Named({"blocked", "blocked_suspended"}, S))
      /\ old.tainted = (Named({"tainted"}, S) # {})
      /\ old.suspended = (Named({"suspended"}, S) # {})
      /\ old.score = LastScore(S)
  <2>1. CASE S = {}
    <3>1. old = EmptyRow
      BY <2>1
    <3> HIDE DEF old
    <3>2. \A names : Named(names, S) = {}
      BY <2>1 DEF Named
    <3>3. LastScore(S) = 0
      BY <2>1 DEF LastScore, Scored
    <3>4. Cardinality({}) = 0
      BY FS_EmptySet
    <3> QED
      BY <2>1, <3>1, <3>2, <3>3, <3>4 DEF EmptyRow
  <2>2. CASE S # {}
    <3>1. old = Summary(S)
      BY <2>2
    <3> QED
      BY <3>1, SummaryFields
  <2> QED
    BY <2>1, <2>2
<1>5. RollUp(IF S = {} THEN NoRow ELSE Summary(S), e) =
        [count |-> old.count + 1,
         allowed |-> old.allowed + (IF e.name = "allowed" THEN 1 ELSE 0),
         blocked |-> old.blocked + (IF e.name \in {"blocked", "blocked_suspended"} THEN 1 ELSE 0),
         tainted |-> old.tainted \/ e.name = "tainted",
         suspended |-> old.suspended \/ e.name = "suspended",
         score |-> IF e.score = NoScore THEN old.score ELSE e.score]
  <2>1. S # {} => Summary(S) # NoRow
    BY SummaryFields
  <2>2. old = IF (IF S = {} THEN NoRow ELSE Summary(S)) = NoRow THEN EmptyRow
              ELSE (IF S = {} THEN NoRow ELSE Summary(S))
    BY <2>1
  <2> HIDE DEF old
  <2> QED
    BY <2>2 DEF RollUp
<1>6. Cardinality(R) = Cardinality(S) + 1
  BY <1>1, <1>2, FS_AddElement
<1>7. \A names : /\ Cardinality(Named(names, R)) =
                      Cardinality(Named(names, S)) + (IF e.name \in names THEN 1 ELSE 0)
                 /\ Named(names, R) # {} <=> Named(names, S) # {} \/ e.name \in names
  <2> TAKE names
  <2>1. Cardinality(Named(names, R)) =
          Cardinality(Named(names, S)) + (IF e.name \in names THEN 1 ELSE 0)
    BY <1>1, <1>2, Parts
  <2>2. Named(names, R) = IF e.name \in names THEN Named(names, S) \cup {i} ELSE Named(names, S)
    BY <1>1, <1>2, Parts
  <2> QED
    BY <2>1, <2>2
<1>8. LastScore(R) = IF e.score = NoScore THEN LastScore(S) ELSE e.score
  BY <1>1, <1>2, LastScoreGrows
<1>9. Summary(R) = [count |-> Cardinality(R),
                    allowed |-> Cardinality(Named({"allowed"}, R)),
                    blocked |-> Cardinality(Named({"blocked", "blocked_suspended"}, R)),
                    tainted |-> Named({"tainted"}, R) # {},
                    suspended |-> Named({"suspended"}, R) # {},
                    score |-> LastScore(R)]
  BY DEF Summary, LastScore
<1> HIDE DEF old, R, e
<1>10. /\ old.count + 1 = Cardinality(R)
       /\ old.allowed + (IF e.name = "allowed" THEN 1 ELSE 0) = Cardinality(Named({"allowed"}, R))
       /\ old.blocked + (IF e.name \in {"blocked", "blocked_suspended"} THEN 1 ELSE 0) =
            Cardinality(Named({"blocked", "blocked_suspended"}, R))
       /\ (IF e.score = NoScore THEN old.score ELSE e.score) = LastScore(R)
  <2>1. e.name \in {"allowed"} <=> e.name = "allowed"
    OBVIOUS
  <2> QED
    BY <1>4, <1>6, <1>7, <1>8, <2>1
<1>11. (old.tainted \/ e.name = "tainted") = (Named({"tainted"}, R) # {})
  <2>1. e.name \in {"tainted"} <=> e.name = "tainted"
    OBVIOUS
  <2> QED
    BY <1>4, <1>7, <2>1
<1>12. (old.suspended \/ e.name = "suspended") = (Named({"suspended"}, R) # {})
  <2>1. e.name \in {"suspended"} <=> e.name = "suspended"
    OBVIOUS
  <2> QED
    BY <1>4, <1>7, <2>1
<1>13. RollUp(IF S = {} THEN NoRow ELSE Summary(S), e) = Summary(R)
  BY <1>5, <1>9, <1>10, <1>11, <1>12
<1> QED
  BY <1>13 DEF R, e

LEMMA ReferenceGrows ==
  ASSUME spool \in Seq(Lines \cup {BadLine}), NEW sid, NEW S \in SUBSET Good, NEW i \in Good,
         \A j \in S : j < i
  PROVE  Reference(sid, S \cup {i}) =
           IF At(i).sid = sid THEN RollUp(Reference(sid, S), At(i)) ELSE Reference(sid, S)
<1> DEFINE T == Of(sid, S)
<1>1. T \in SUBSET Good /\ \A j \in T : j < i
  BY DEF Of
<1>2. Reference(sid, S) = IF T = {} THEN NoRow ELSE Summary(T)
  BY DEF Reference
<1>3. CASE At(i).sid = sid
  <2>1. Of(sid, S \cup {i}) = T \cup {i}
    BY <1>3 DEF Of
  <2>2. Reference(sid, S \cup {i}) = Summary(T \cup {i})
    BY <2>1 DEF Reference
  <2> HIDE DEF T
  <2>3. RollUp(IF T = {} THEN NoRow ELSE Summary(T), At(i)) = Summary(T \cup {i})
    BY <1>1, SummaryGrows
  <2> QED
    BY <1>2, <1>3, <2>2, <2>3
<1>4. CASE At(i).sid # sid
  <2>1. Of(sid, S \cup {i}) = T
    BY <1>4 DEF Of
  <2> QED
    BY <1>2, <1>4, <2>1 DEF Reference
<1> QED
  BY <1>3, <1>4

\* The loop of _roll_up over a batch of a session's events adds them to the row.
LEMMA RollsUpBatch ==
  ASSUME spool \in Seq(Lines \cup {BadLine}), NEW sid, NEW E \in SUBSET Good,
         NEW D \in SUBSET Good, \A i \in D : At(i).sid = sid, \A i \in D, j \in E : j < i
  PROVE  RolledUp(Reference(sid, E), D) = Reference(sid, E \cup D)
<1> DEFINE order == Ascending(D)
           N == Len(order)
           row == Reference(sid, E)
           Loop(f) == f = [n \in 0..N |-> IF n = 0 THEN row ELSE RollUp(f[n - 1], At(order[n]))]
           g == [n \in 0..N |-> Reference(sid, E \cup Entries(order, n))]
           h == CHOOSE f : Loop(f)
<1>1. IsFiniteSet(D) /\ D \in SUBSET Int
  BY SpoolFinite
<1>2. /\ order \in Seq(D)
      /\ \A i, j \in 1..Len(order) : i < j => order[i] < order[j]
      /\ \A x \in D : \E i \in 1..Len(order) : order[i] = x
  BY <1>1, AscendingFacts
<1>3. RolledUp(row, D) = h[N]
  BY DEF RolledUp
<1> HIDE DEF order
<1>4. N \in Nat /\ \A n \in 1..N : order[n] \in D
  BY <1>2
<1>5. \A n \in 1..N : n \in 0..N /\ n - 1 \in 0..N
  BY <1>4
<1>6. g[0] = row
  <2>1. Entries(order, 0) = {}
    BY DEF Entries
  <2>2. E \cup Entries(order, 0) = E
    BY <2>1
  <2>3. 0 \in 0..N
    BY <1>4
  <2> QED
    BY <2>2, <2>3
<1>7. ASSUME NEW n \in 1..N PROVE g[n] = RollUp(g[n - 1], At(order[n]))
  <2> DEFINE S == E \cup Entries(order, n - 1)
             i == order[n]
  <2>1. /\ Entries(order, n) = Entries(order, n - 1) \cup {i}
        /\ \A x \in Entries(order, n - 1) : \E m \in 1..N : m < n /\ x = order[m]
    <3>1. 1..n = (1..n - 1) \cup {n} /\ \A m \in 1..n - 1 : m \in 1..N /\ m < n
      BY <1>4
    <3> QED
      BY <3>1 DEF Entries
  <2>2. E \cup Entries(order, n) = S \cup {i}
    BY <2>1
  <2>3. S \in SUBSET Good
    BY <1>4, <2>1
  <2>4. i \in Good /\ At(i).sid = sid
    BY <1>4
  <2>5. \A j \in S : j < i
    <3>1. \A j \in E : j < i
      BY <1>4
    <3>2. ASSUME NEW j \in Entries(order, n - 1) PROVE j < i
      <4>1. PICK m \in 1..N : m < n /\ j = order[m]
        BY <2>1
      <4>2. order[m] < order[n]
        BY <1>2, <4>1
      <4> QED
        BY <4>1, <4>2
    <3> QED
      BY <3>1, <3>2
  <2> HIDE DEF S, i
  <2>6. Reference(sid, S \cup {i}) = RollUp(Reference(sid, S), At(i))
    BY <2>3, <2>4, <2>5, ReferenceGrows
  <2>7. g[n] = Reference(sid, E \cup Entries(order, n))
    BY <1>5
  <2>8. g[n - 1] = Reference(sid, S)
    BY <1>5 DEF S
  <2> HIDE DEF g
  <2> QED
    BY <2>2, <2>6, <2>7, <2>8 DEF i
<1>8. g[N] = Reference(sid, E \cup D)
  <2>1. Entries(order, N) = D
    BY <1>2, <1>4 DEF Entries
  <2>2. N \in 0..N
    BY <1>4
  <2> QED
    BY <2>1, <2>2
<1>9. g = [n \in 0..N |-> g[n]]
  OBVIOUS
<1> HIDE DEF g, row
<1>10. Loop(g)
  <2>1. \A n \in 0..N : n = 0 \/ n \in 1..N
    BY <1>4
  <2>2. \A n \in 0..N : g[n] = IF n = 0 THEN row ELSE RollUp(g[n - 1], At(order[n]))
    BY <1>6, <1>7, <2>1
  <2> QED
    BY <1>9, <2>2
<1>11. Loop(h)
  BY <1>10
<1> HIDE DEF h
<1>12. h[0] = row /\ \A n \in 1..N : h[n] = RollUp(h[n - 1], At(order[n]))
  <2>1. \A n \in 0..N : h[n] = IF n = 0 THEN row ELSE RollUp(h[n - 1], At(order[n]))
    BY <1>11
  <2>2. 0 \in 0..N /\ \A n \in 1..N : n \in 0..N /\ n # 0
    BY <1>4
  <2> QED
    BY <2>1, <2>2
<1>13. \A n \in 0..N : h[n] = g[n]
  <2> DEFINE S == {n \in 0..N : h[n] = g[n]}
  <2>1. 0 \in S
    BY <1>4, <1>6, <1>12
  <2>2. ASSUME NEW n \in 1..N, n - 1 \in S PROVE n \in S
    BY <1>5, <1>7, <1>12, <2>2
  <2> HIDE DEF S
  <2>3. \A n \in 0..N : n \in S
    BY <1>4, <2>1, <2>2, LoopInduction
  <2> QED
    BY <2>3 DEF S
<1>14. h[N] = g[N]
  BY <1>4, <1>13
<1> QED
  BY <1>3, <1>8, <1>14 DEF row

-----------------------------------------------------------------------------
(* The rows of the table sessions.  SQLite rolls a batch up in one commit; *)
(* on Postgres the event comes first and its roll-up two statements later, *)
(* and in between the rows lag behind by that event.                       *)

Writing(q) == q.pc \in {"select", "upsert"}

Exact(E, R) == \A s \in SessionIds : R[s] = Reference(s, E)

\* The event whose roll-up is under way is the last one indexed, and the row
\* that was read for it is still the one in the table.
Held(E, R, q) ==
  Writing(q) => /\ q.todo[1] \in E /\ At(q.todo[1]).sid \in SessionIds
                /\ \A j \in E : j <= q.todo[1]
                /\ Exact(E \ {q.todo[1]}, R)
                /\ q.pc = "upsert" => q.row = R[At(q.todo[1]).sid]

RowsOK ==
  ~raced =>
    /\ backend = "postgres" => \A r, q \in Requests : Active(req[r]) /\ Active(req[q]) => r = q
    /\ \A r \in Requests : Writing(req[r]) => backend = "postgres"
    /\ \A r \in Requests : Deleting(req[r]) => events = {}
    /\ \A r \in Requests : Held(events, rows, req[r])
    /\ \/ \E r \in Requests : Writing(req[r]) \/ req[r].pc = "delete_sessions"
       \/ Exact(events, rows)

\* What the spool says of indexed events does not change.
LEMMA ReferenceKept ==
  ASSUME spool \in Seq(Lines \cup {BadLine}), NEW sid, NEW E \in SUBSET Good,
         \A i \in E : At(i)' = At(i)
  PROVE  Reference(sid, E)' = Reference(sid, E)
<1>1. Of(sid, E)' = Of(sid, E) /\ Of(sid, E) \subseteq E
  BY DEF Of
<1>2. \A names : \A S : S \subseteq E => Named(names, S)' = Named(names, S)
  BY DEF Named
<1>3. \A S : S \subseteq E => Scored(S)' = Scored(S)
  BY DEF Scored
<1>4. ASSUME NEW S, S \subseteq E PROVE Summary(S)' = Summary(S)
  <2> DEFINE T == Scored(S)
  <2>1. T \subseteq E
    BY <1>4 DEF Scored
  <2>2. T # {} => At(Max(T))' = At(Max(T))
    <3> SUFFICES ASSUME T # {} PROVE Max(T) \in E
      BY <1>3, <1>4
    <3> HIDE DEF T
    <3>1. IsFiniteSet(T) /\ T \in SUBSET Int
      <4>1. T \in SUBSET Good
        BY <2>1
      <4> QED
        BY <4>1, SpoolFinite
    <3>2. Max(T) \in T
      BY <3>1, MaxOf
    <3> QED
      BY <2>1, <3>2
  <2> QED
    BY <1>2, <1>3, <1>4, <2>2 DEF Summary
<1> QED
  BY <1>1, <1>4 DEF Reference

LEMMA ExactKept ==
  ASSUME UNCHANGED spool, NEW E, NEW R, Exact(E, R)
  PROVE  Exact(E, R)'
<1>1. \A s, F : Reference(s, F)' = Reference(s, F)
  BY DEF Reference, Summary, Named, Scored, Of, At
<1> QED
  BY <1>1 DEF Exact

LEMMA HeldKept ==
  ASSUME UNCHANGED spool, NEW E, NEW R, NEW q, Held(E, R, q)
  PROVE  Held(E, R, q)'
<1>1. \A i : At(i)' = At(i)
  BY DEF At
<1>2. Writing(q) => Exact(E \ {q.todo[1]}, R)'
  BY ExactKept DEF Held
<1> QED
  BY <1>1, <1>2 DEF Held

\* One request moves on.
LEMMA RowsMove ==
  ASSUME RowsOK, NEW r \in Requests, UNCHANGED <<spool, backend>>,
         \A p \in Requests : p # r => req'[p] = req[p],
         ~raced' =>
           /\ ~raced
           /\ backend = "postgres" /\ Active(req'[r]) => \A p \in Requests \ {r} : ~Active(req[p])
           /\ Writing(req'[r]) => backend = "postgres"
           /\ Deleting(req'[r]) => events' = {}
           /\ events' # events => \A p \in Requests \ {r} : ~Deleting(req[p]) \/ events' = {}
           /\ Held(events', rows', req'[r])
           /\ (\A p \in Requests \ {r} : ~Writing(req[p])) \/ (events' = events /\ rows' = rows)
           /\ \/ Writing(req'[r]) \/ req'[r].pc = "delete_sessions"
              \/ \E p \in Requests \ {r} : Writing(req[p]) \/ req[p].pc = "delete_sessions"
              \/ Exact(events', rows')
  PROVE  RowsOK'
<1> SUFFICES ASSUME ~raced' PROVE
    /\ backend' = "postgres" => \A p, q \in Requests : Active(req'[p]) /\ Active(req'[q]) => p = q
    /\ \A p \in Requests : Writing(req'[p]) => backend' = "postgres"
    /\ \A p \in Requests : Deleting(req'[p]) => events' = {}
    /\ \A p \in Requests : Held(events, rows, req[p])'
    /\ \/ \E p \in Requests : Writing(req'[p]) \/ req'[p].pc = "delete_sessions"
       \/ Exact(events, rows)'
  BY DEF RowsOK
<1>0. /\ ~raced
      /\ backend = "postgres" => \A p, q \in Requests : Active(req[p]) /\ Active(req[q]) => p = q
      /\ \A p \in Requests : Writing(req[p]) => backend = "postgres"
      /\ \A p \in Requests : Deleting(req[p]) => events = {}
      /\ \A p \in Requests : Held(events, rows, req[p])
  BY DEF RowsOK
<1>1. backend' = "postgres" => \A p, q \in Requests : Active(req'[p]) /\ Active(req'[q]) => p = q
  BY <1>0
<1>2. \A p \in Requests : Writing(req'[p]) => backend' = "postgres"
  BY <1>0
<1>3. \A p \in Requests : Deleting(req'[p]) => events' = {}
  BY <1>0
<1>4. ASSUME NEW p \in Requests PROVE Held(events, rows, req[p])'
  <2>1. Held(events', rows', req'[p])
    <3>1. CASE p = r
      BY <3>1
    <3>2. CASE p # r /\ events' = events /\ rows' = rows
      BY <1>0, <3>2
    <3>3. CASE p # r /\ ~Writing(req[p])
      BY <3>3 DEF Held
    <3> QED
      BY <3>1, <3>2, <3>3
  <2> QED
    BY <2>1, HeldKept
<1>5. \/ \E p \in Requests : Writing(req'[p]) \/ req'[p].pc = "delete_sessions"
      \/ Exact(events, rows)'
  <2>1. CASE Exact(events', rows')
    BY <2>1, ExactKept
  <2>2. CASE Writing(req'[r]) \/ req'[r].pc = "delete_sessions"
    BY <2>2
  <2>3. CASE \E p \in Requests \ {r} : Writing(req[p]) \/ req[p].pc = "delete_sessions"
    BY <2>3
  <2> QED
    BY <2>1, <2>2, <2>3
<1> QED
  BY <1>1, <1>2, <1>3, <1>4, <1>5

RowsInv == IndexInv /\ RowsOK

Others(r) == \A p \in Requests : p # r => req'[p] = req[p]

\* While a request works on the index, nobody else deletes, and nobody else is
\* in the middle of a roll-up.
LEMMA WorksAlone ==
  ASSUME RowsInv, ~raced, NEW r \in Requests, Active(req[r])
  PROVE  /\ \A p \in Requests \ {r} : ~Deleting(req[p]) /\ ~Writing(req[p])
         /\ backend = "postgres" => \A p \in Requests \ {r} : ~Active(req[p])
         /\ ~Writing(req[r]) /\ req[r].pc # "delete_sessions" => Exact(events, rows)
<1>1. DeletesAlone
  BY RequestFields DEF RowsInv
<1>2. \A p \in Requests \ {r} : ~Deleting(req[p])
  BY <1>1 DEF DeletesAlone
<1>3. backend = "postgres" => \A p \in Requests \ {r} : ~Active(req[p])
  BY DEF RowsInv, RowsOK
<1>4. \A p \in Requests \ {r} : ~Writing(req[p])
  <2>1. \A p \in Requests : Writing(req[p]) => backend = "postgres"
    BY DEF RowsInv, RowsOK
  <2> QED
    BY <1>3, <2>1 DEF Writing, Active
<1>5. ASSUME ~Writing(req[r]), req[r].pc # "delete_sessions" PROVE Exact(events, rows)
  <2>1. \A p \in Requests : ~Writing(req[p]) /\ req[p].pc # "delete_sessions"
    BY <1>2, <1>4, <1>5 DEF Deleting
  <2> QED
    BY <2>1 DEF RowsInv, RowsOK
<1> QED
  BY <1>2, <1>3, <1>4, <1>5

\* A step that leaves the tables alone, outside a roll-up.
LEMMA RowsStill ==
  ASSUME RowsInv, NEW r \in Requests, UNCHANGED <<spool, events, rows, backend>>, Others(r),
         ~Writing(req'[r]), ~Deleting(req'[r]),
         ~raced' => /\ ~raced /\ ~Writing(req[r]) /\ req[r].pc # "delete_sessions"
                    /\ \/ Active(req[r]) \/ ~Active(req'[r]) \/ backend # "postgres"
                       \/ \A p \in Requests \ {r} : ~Active(req[p])
  PROVE  RowsOK'
<1>1. ASSUME ~raced'
      PROVE  /\ ~raced
             /\ backend = "postgres" /\ Active(req'[r]) =>
                  \A p \in Requests \ {r} : ~Active(req[p])
             /\ \/ \E p \in Requests \ {r} : Writing(req[p]) \/ req[p].pc = "delete_sessions"
                \/ Exact(events', rows')
  <2>1. ~raced
    BY <1>1
  <2>2. backend = "postgres" /\ Active(req'[r]) => \A p \in Requests \ {r} : ~Active(req[p])
    BY <1>1, <2>1, WorksAlone
  <2>3. \/ \E p \in Requests : Writing(req[p]) \/ req[p].pc = "delete_sessions"
        \/ Exact(events, rows)
    BY <2>1 DEF RowsInv, RowsOK
  <2> QED
    BY <1>1, <2>1, <2>2, <2>3
<1>2. Held(events', rows', req'[r])
  BY DEF Held
<1>3. \A p \in Requests : p # r => req'[p] = req[p]
  BY DEF Others
<1>4. RowsOK
  BY DEF RowsInv
<1> QED
  BY <1>1, <1>2, <1>3, <1>4, RowsMove

\* Where a step leaves its request.
LEMMA PcAfter ==
  ASSUME IndexInv, NEW r \in Requests
  PROVE  /\ Begin(r) => Others(r) /\ req'[r].pc = "start"
         /\ ReadOffset(r) => Others(r) /\ req'[r].pc = "read"
         /\ ReadLines(r) => Others(r) /\ req'[r].pc \in {"mark", "insert"}
         /\ Mark(r) => Others(r) /\ req'[r].pc = "serve"
         /\ Serve(r) \/ Crash(r) => Others(r) /\ req'[r].pc = "done"
         /\ DeleteSessions(r) => Others(r) /\ req'[r].pc = "delete_meta"
         /\ DeleteMeta(r) => Others(r) /\ req'[r].pc = "start"
         /\ Ingest(r) => Others(r) /\ req'[r].pc = "mark"
<1> DEFINE old == req[r]
<1>1. req = [p \in Requests |-> req[p]]
  BY RequestFields
<1>2. old = [pc |-> old.pc, start |-> old.start, todo |-> old.todo,
             end |-> old.end, upto |-> old.upto, row |-> old.row]
  BY RequestFields
<1>3. \A q : req' = [req EXCEPT ![r] = q] => Others(r) /\ req'[r] = q
  BY <1>1 DEF Others
<1> HIDE DEF old
<1>4. Begin(r) => Others(r) /\ req'[r].pc = "start"
  <2>1. [Idle EXCEPT !.pc = "start"].pc = "start"
    BY DEF Idle
  <2> QED
    BY <1>3, <2>1 DEF Begin
<1>5. ReadOffset(r) => Others(r) /\ req'[r].pc = "read"
  <2>1. ReadOffset(r) => req' = [req EXCEPT ![r] = [old EXCEPT !.pc = "read", !.start = next]]
    BY DEF ReadOffset, old
  <2>2. [old EXCEPT !.pc = "read", !.start = next].pc = "read"
    BY <1>2
  <2> QED
    BY <1>3, <2>1, <2>2
<1>6. ReadLines(r) => Others(r) /\ req'[r].pc \in {"mark", "insert"}
  <2> DEFINE result == ReadSpool(req[r].start)
             q == [pc |-> IF result.records = <<>> THEN "mark" ELSE "insert",
                   start |-> 0, todo |-> result.records, end |-> result.end,
                   upto |-> Len(spool), row |-> NoRow]
  <2>1. ReadLines(r) => req' = [req EXCEPT ![r] = q]
    BY DEF ReadLines
  <2>2. q.pc \in {"mark", "insert"}
    OBVIOUS
  <2> HIDE DEF q
  <2> QED
    BY <1>3, <2>1, <2>2
<1>7. Mark(r) => Others(r) /\ req'[r].pc = "serve"
  <2>1. Mark(r) => req' = [req EXCEPT ![r] = [old EXCEPT !.pc = "serve", !.end = 0]]
    BY DEF Mark, old
  <2>2. [old EXCEPT !.pc = "serve", !.end = 0].pc = "serve"
    BY <1>2
  <2> QED
    BY <1>3, <2>1, <2>2
<1>8. Serve(r) \/ Crash(r) => Others(r) /\ req'[r].pc = "done"
  <2>1. Done.pc = "done"
    BY DEF Done, Idle
  <2> QED
    BY <1>3, <2>1 DEF Serve, Crash
<1>9. \A pc : [old EXCEPT !.pc = pc].pc = pc
  BY <1>2
<1>10. DeleteSessions(r) => Others(r) /\ req'[r].pc = "delete_meta"
  BY <1>3, <1>9 DEF DeleteSessions, old
<1>11. DeleteMeta(r) => Others(r) /\ req'[r].pc = "start"
  BY <1>3, <1>9 DEF DeleteMeta, old
<1>12. Ingest(r) => Others(r) /\ req'[r].pc = "mark"
  <2>1. Ingest(r) => req' = [req EXCEPT ![r] = [old EXCEPT !.pc = "mark", !.todo = <<>>]]
    BY DEF Ingest, old
  <2>2. [old EXCEPT !.pc = "mark", !.todo = <<>>].pc = "mark"
    BY <1>2
  <2> QED
    BY <1>3, <2>1, <2>2
<1> QED
  BY <1>4, <1>5, <1>6, <1>7, <1>8, <1>10, <1>11, <1>12

LEMMA RowsRest ==
  ASSUME RowsInv, NEW r \in Requests,
         Begin(r) \/ ReadOffset(r) \/ ReadLines(r) \/ Mark(r) \/ Serve(r) \/ Crash(r) \/ DeleteMeta(r)
  PROVE  RowsOK'
<1>0. IndexInv /\ RowsOK /\ UNCHANGED <<spool, events, rows, backend>>
  BY DEF RowsInv, Begin, ReadOffset, ReadLines, Mark, Serve, Crash, DeleteMeta
<1>1. Others(r) /\ req'[r].pc \in {"start", "read", "mark", "insert", "serve", "done"}
  BY <1>0, PcAfter
<1>2. ~Writing(req'[r]) /\ ~Deleting(req'[r])
  BY <1>1 DEF Writing, Deleting
<1>3. ASSUME ~raced'
      PROVE  /\ ~raced /\ ~Writing(req[r]) /\ req[r].pc # "delete_sessions"
             /\ \/ Active(req[r]) \/ ~Active(req'[r]) \/ backend # "postgres"
                \/ \A p \in Requests \ {r} : ~Active(req[p])
  <2>1. CASE Begin(r)
    BY <1>3, <2>1 DEF Begin, Busy, Active, Writing
  <2>2. CASE ReadOffset(r) \/ ReadLines(r) \/ Mark(r) \/ DeleteMeta(r)
    BY <1>3, <2>2 DEF ReadOffset, ReadLines, Mark, DeleteMeta, Active, Writing
  <2>3. CASE Serve(r)
    <3>1. ~Active(req'[r])
      BY <1>0, <2>3, PcAfter DEF Active
    <3> QED
      BY <1>3, <2>3, <3>1 DEF Serve, Writing
  <2>4. CASE Crash(r)
    <3>1. ~Active(req'[r])
      BY <1>0, <2>4, PcAfter DEF Active
    <3>2. /\ ~raced /\ ~(backend = "postgres" /\ Busy(r))
          /\ req[r].pc \notin {"delete_sessions", "delete_meta"}
      BY <1>3, <2>4 DEF Crash
    <3>3. Writing(req[r]) => backend = "postgres"
      BY <1>0, <3>2 DEF RowsOK
    <3>4. ~Writing(req[r])
      BY <3>2, <3>3 DEF Writing, Busy
    <3> QED
      BY <3>1, <3>2, <3>4
  <2> QED
    BY <2>1, <2>2, <2>3, <2>4
<1> QED
  BY <1>0, <1>1, <1>2, <1>3, RowsStill

\* An offset that is not indexed is above all that are.
LEMMA NewIsLater ==
  ASSUME IndexInv, ~raced, NEW i \in Good, i \notin events
  PROVE  \A j \in events : j < i
<1>1. Closed(Good, events) /\ events \subseteq Good
  BY DEF IndexInv, IndexOK, Types
<1>2. i \in Nat /\ \A j \in Good : j \in Nat
  BY DEF Good, IndexInv, Types
<1>3. \A j \in events : ~(i < j)
  BY <1>1 DEF Closed, Has
<1> QED
  BY <1>1, <1>2, <1>3

\* SQLite: a batch and its roll-up.
LEMMA RowsIngest ==
  ASSUME RowsInv, NEW r \in Requests, Ingest(r)
  PROVE  RowsOK'
<1> DEFINE todo == req[r].todo
           new == ToSet(todo) \ events
<1>0. IndexInv /\ RowsOK /\ Types
  BY DEF RowsInv, IndexInv
<1>1. /\ backend = "sqlite" /\ req[r].pc = "insert" /\ UNCHANGED <<spool, backend, raced>>
      /\ events' = events \cup new
      /\ rows' = [s \in SessionIds |-> RolledUp(rows[s], {i \in new : At(i).sid = s})]
  BY DEF Ingest
<1>2. Others(r) /\ req'[r].pc = "mark"
  BY <1>0, PcAfter
<1>3. new \in SUBSET Good
  <2>1. \A m \in 1..Len(todo) : todo[m] \in Good
    BY <1>0, RequestFields DEF Request
  <2>2. todo \in Seq(Nat)
    BY <1>0, RequestFields DEF Request
  <2> QED
    BY <2>1, <2>2 DEF ToSet
<1>4. \A i \in new : i \notin events
  OBVIOUS
<1> HIDE DEF new
<1>5. ASSUME ~raced PROVE Exact(events', rows')
  <2>1. Exact(events, rows)
    BY <1>1, <1>5, WorksAlone DEF Active, Writing
  <2>2. \A i \in new, j \in events : j < i
    BY <1>0, <1>3, <1>4, <1>5, NewIsLater
  <2>3. ASSUME NEW s \in SessionIds PROVE rows'[s] = Reference(s, events')
    <3> DEFINE D == {i \in new : At(i).sid = s}
    <3>1. D \in SUBSET Good /\ (\A i \in D : At(i).sid = s) /\ \A i \in D, j \in events : j < i
      BY <1>3, <2>2
    <3>2. Of(s, events \cup D) = Of(s, events')
      BY <1>1 DEF Of
    <3>3. rows'[s] = RolledUp(rows[s], D) /\ rows[s] = Reference(s, events)
      BY <1>1, <2>1 DEF Exact
    <3> HIDE DEF D
    <3>4. spool \in Seq(Lines \cup {BadLine}) /\ events \in SUBSET Good
      BY <1>0 DEF Types
    <3>5. RolledUp(Reference(s, events), D) = Reference(s, events \cup D)
      BY <3>1, <3>4, RollsUpBatch
    <3>6. Reference(s, events \cup D) = Reference(s, events')
      BY <3>2 DEF Reference
    <3> QED
      BY <3>3, <3>5, <3>6
  <2> QED
    BY <2>3 DEF Exact
<1>6. /\ ~Writing(req'[r]) /\ ~Deleting(req'[r]) /\ Active(req[r])
      /\ Held(events', rows', req'[r]) /\ backend # "postgres"
  BY <1>1, <1>2 DEF Writing, Deleting, Active, Held
<1>7. ~raced => \A p \in Requests \ {r} : ~Deleting(req[p]) /\ ~Writing(req[p])
  BY <1>6, WorksAlone
<1>8. \A p \in Requests : p # r => req'[p] = req[p]
  BY <1>2 DEF Others
<1> QED
  BY <1>0, <1>1, <1>5, <1>6, <1>7, <1>8, RowsMove

LEMMA RowsDelete ==
  ASSUME RowsInv, NEW r \in Requests, DeleteSessions(r)
  PROVE  RowsOK'
<1>0. IndexInv /\ RowsOK
  BY DEF RowsInv
<1>1. /\ req[r].pc = "delete_sessions" /\ UNCHANGED <<spool, events, backend, raced>>
      /\ rows' = [s \in SessionIds |-> NoRow]
  BY DEF DeleteSessions
<1>2. Others(r) /\ req'[r].pc = "delete_meta"
  BY <1>0, PcAfter
<1>3. /\ ~Writing(req'[r]) /\ Deleting(req[r]) /\ Active(req[r])
      /\ Held(events', rows', req'[r])
  BY <1>1, <1>2 DEF Writing, Deleting, Active, Held
<1>4. ASSUME ~raced
      PROVE  /\ events = {} /\ Exact(events', rows')
             /\ \A p \in Requests \ {r} : ~Deleting(req[p]) /\ ~Writing(req[p])
             /\ backend = "postgres" => \A p \in Requests \ {r} : ~Active(req[p])
  <2>1. events = {}
    BY <1>0, <1>3, <1>4 DEF RowsOK
  <2>2. \A s : Reference(s, {}) = NoRow
    BY DEF Reference, Of
  <2> QED
    BY <1>1, <1>3, <1>4, <2>1, <2>2, WorksAlone DEF Exact
<1>5. \A p \in Requests : p # r => req'[p] = req[p]
  BY <1>2 DEF Others
<1> QED
  BY <1>0, <1>1, <1>3, <1>4, <1>5, RowsMove

LEMMA RowsRebuild ==
  ASSUME RowsInv, NEW r \in Requests, Rebuild(r)
  PROVE  RowsOK'
<1> DEFINE q(pc) == [pc |-> pc, start |-> 0, todo |-> <<>>, end |-> 0, upto |-> 0, row |-> NoRow]
<1>0. IndexInv /\ RowsOK
  BY DEF RowsInv
<1>1. req = [p \in Requests |-> req[p]]
  BY <1>0, RequestFields
<1>2. \A pc : [Idle EXCEPT !.pc = pc] = q(pc)
  BY DEF Idle
<1>3. PICK pc \in {"start", "delete_sessions"} :
        /\ req' = [req EXCEPT ![r] = q(pc)]
        /\ pc = "delete_sessions" \/ rows' = [s \in SessionIds |-> NoRow]
  BY <1>2 DEF Rebuild
<1>4. Others(r) /\ req'[r] = q(pc)
  BY <1>1, <1>3 DEF Others
<1>5. req'[r].pc = pc
  BY <1>4
<1> HIDE DEF q
<1>6. UNCHANGED <<spool, backend>> /\ events' = {}
  BY DEF Rebuild
<1>7. ~raced' => ~raced /\ \A p \in Requests \ {r} : ~Active(req[p])
  BY DEF Rebuild, Busy, Active
<1>8. ~Writing(req'[r]) /\ Held(events', rows', req'[r])
  BY <1>3, <1>5 DEF Writing, Held
<1>9. \A p \in Requests : ~Active(req[p]) => ~Writing(req[p]) /\ ~Deleting(req[p])
  BY DEF Active, Writing, Deleting
<1>10. req'[r].pc = "delete_sessions" \/ Exact(events', rows')
  <2>1. \A s : Reference(s, {}) = NoRow
    BY DEF Reference, Of
  <2> QED
    BY <1>3, <1>5, <1>6, <2>1 DEF Exact
<1>11. \A p \in Requests : p # r => req'[p] = req[p]
  BY <1>4 DEF Others
<1> QED
  BY <1>0, <1>6, <1>7, <1>8, <1>9, <1>10, <1>11, RowsMove

\* An indexed line is an event, of a session or of none.
LEMMA EventAt ==
  ASSUME Types, NEW i \in Good
  PROVE  At(i) \in Lines /\ At(i).sid \in SessionIds \cup {NoSession}
<1>1. i \in 0..Len(spool) - 1 /\ At(i) # BadLine
  BY DEF Good
<1>2. i + 1 \in 1..Len(spool) /\ spool \in Seq(Lines \cup {BadLine})
  BY <1>1 DEF Types
<1>3. At(i) \in Lines \cup {BadLine}
  BY <1>2 DEF At
<1>4. At(i) \in Lines
  BY <1>1, <1>3
<1> QED
  BY <1>4, IndexAssumption

\* Postgres: the event is in, its roll-up follows.
LEMMA RowsInsert ==
  ASSUME RowsInv, NEW r \in Requests, InsertRow(r)
  PROVE  RowsOK'
<1> DEFINE old == req[r]
           i == old.todo[1]
<1>0. IndexInv /\ RowsOK /\ Types
  BY DEF RowsInv, IndexInv
<1>1. /\ backend = "postgres" /\ old.pc = "insert" /\ UNCHANGED <<spool, rows, backend, raced>>
      /\ old.todo \in Seq(Nat) /\ old.todo # <<>>
  BY <1>0, RequestFields DEF InsertRow, Request
<1>2. Head(old.todo) = i /\ i \in Good
  <2>1. \A m \in 1..Len(old.todo) : old.todo[m] \in Good
    BY <1>0, RequestFields DEF Request
  <2>2. 1 \in 1..Len(old.todo) /\ Head(old.todo) = i
    BY <1>1
  <2> QED
    BY <2>1, <2>2
<1>3. /\ events' = events \cup {i}
      /\ req' = [req EXCEPT ![r] = IF i \in events \/ At(i).sid = NoSession THEN Following(old)
                                   ELSE [old EXCEPT !.pc = "select"]]
  BY <1>2 DEF InsertRow
<1>4. /\ Others(r)
      /\ req'[r] = IF i \in events \/ At(i).sid = NoSession THEN Following(old)
                   ELSE [old EXCEPT !.pc = "select"]
  <2>1. req = [p \in Requests |-> req[p]]
    BY <1>0, RequestFields
  <2> QED
    BY <1>3, <2>1 DEF Others
<1>5. Active(old) /\ ~Writing(old) /\ old.pc # "delete_sessions"
  BY <1>1 DEF Active, Writing
<1>6. ASSUME ~raced
      PROVE  /\ Exact(events, rows)
             /\ \A p \in Requests \ {r} : ~Deleting(req[p]) /\ ~Writing(req[p]) /\ ~Active(req[p])
  BY <1>1, <1>5, <1>6, WorksAlone
<1>7. \A p \in Requests : p # r => req'[p] = req[p]
  BY <1>4 DEF Others
<1>8. CASE i \in events \/ At(i).sid = NoSession
  <2>1. req'[r].pc \in {"mark", "insert"}
    BY <1>4, <1>8 DEF Following
  <2>2. ~Writing(req'[r]) /\ ~Deleting(req'[r]) /\ Held(events', rows', req'[r])
    BY <2>1 DEF Writing, Deleting, Held
  <2>3. ASSUME ~raced PROVE Exact(events', rows')
    <3>1. CASE i \in events
      BY <1>1, <1>3, <1>6, <2>3, <3>1
    <3>2. CASE At(i).sid = NoSession
      <4>1. \A s \in SessionIds : Of(s, events') = Of(s, events)
        BY <1>3, <3>2, IndexAssumption DEF Of
      <4>2. \A s \in SessionIds : Reference(s, events') = Reference(s, events)
        BY <4>1 DEF Reference
      <4> QED
        BY <1>1, <1>6, <2>3, <4>2 DEF Exact
    <3> QED
      BY <1>8, <3>1, <3>2
  <2> QED
    BY <1>0, <1>1, <1>6, <1>7, <2>2, <2>3, RowsMove
<1>9. CASE ~(i \in events \/ At(i).sid = NoSession)
  <2>1. req'[r].pc = "select" /\ req'[r].todo = old.todo
    <3>1. old = [pc |-> old.pc, start |-> old.start, todo |-> old.todo,
                 end |-> old.end, upto |-> old.upto, row |-> old.row]
      BY <1>0, RequestFields
    <3>2. req'[r] = [old EXCEPT !.pc = "select"]
      BY <1>4, <1>9
    <3> HIDE DEF old
    <3> QED
      BY <3>1, <3>2
  <2>2. Writing(req'[r]) /\ ~Deleting(req'[r])
    BY <2>1 DEF Writing, Deleting
  <2>3. ASSUME ~raced PROVE Held(events', rows', req'[r])
    <3>1. i \in events' /\ events' \ {i} = events
      BY <1>3, <1>9
    <3>2. At(i).sid \in SessionIds
      BY <1>0, <1>2, <1>9, EventAt
    <3>3. \A j \in events' : j <= i
      <4>1. \A j \in events : j < i
        BY <1>0, <1>2, <1>9, <2>3, NewIsLater
      <4>2. i \in Nat /\ \A j \in events : j \in Nat
        BY <1>0, <1>2 DEF Types, Good
      <4> QED
        BY <1>3, <4>1, <4>2
    <3>4. Exact(events' \ {i}, rows')
      BY <1>1, <1>6, <2>3, <3>1
    <3> QED
      BY <2>1, <3>1, <3>2, <3>3, <3>4 DEF Held
  <2> QED
    BY <1>0, <1>1, <1>6, <1>7, <2>2, <2>3, RowsMove
<1> QED
  BY <1>8, <1>9

LEMMA RowsSelect ==
  ASSUME RowsInv, NEW r \in Requests, SelectRow(r)
  PROVE  RowsOK'
<1> DEFINE old == req[r]
           i == old.todo[1]
           row == rows[At(i).sid]
<1>0. IndexInv /\ RowsOK /\ Types
  BY DEF RowsInv, IndexInv
<1>1. /\ old.pc = "select" /\ UNCHANGED <<spool, events, rows, backend, raced>>
      /\ old.todo \in Seq(Nat) /\ old.todo # <<>>
  BY <1>0, RequestFields DEF SelectRow, Request
<1>2. req' = [req EXCEPT ![r] = [old EXCEPT !.pc = "upsert", !.row = row]]
  <2>1. Head(old.todo) = i
    BY <1>1
  <2> QED
    BY <2>1 DEF SelectRow
<1>3. Others(r) /\ req'[r] = [old EXCEPT !.pc = "upsert", !.row = row]
  <2>1. req = [p \in Requests |-> req[p]]
    BY <1>0, RequestFields
  <2> HIDE DEF row
  <2> QED
    BY <1>2, <2>1 DEF Others
<1>4. req'[r].pc = "upsert" /\ req'[r].todo = old.todo /\ req'[r].row = row
  <2>1. old = [pc |-> old.pc, start |-> old.start, todo |-> old.todo,
               end |-> old.end, upto |-> old.upto, row |-> old.row]
    BY <1>0, RequestFields
  <2> HIDE DEF row, old
  <2> QED
    BY <1>3, <2>1
<1>5. Active(old) /\ Writing(old) /\ Writing(req'[r]) /\ ~Deleting(req'[r])
  BY <1>1, <1>4 DEF Active, Writing, Deleting
<1>6. ASSUME ~raced
      PROVE  /\ backend = "postgres" /\ Held(events, rows, old)
             /\ \A p \in Requests \ {r} : ~Deleting(req[p]) /\ ~Writing(req[p]) /\ ~Active(req[p])
  <2>1. backend = "postgres" /\ Held(events, rows, old)
    BY <1>0, <1>5, <1>6 DEF RowsOK
  <2> QED
    BY <1>5, <1>6, <2>1, WorksAlone
<1>7. ~raced => Held(events', rows', req'[r])
  BY <1>1, <1>4, <1>5, <1>6 DEF Held
<1>8. \A p \in Requests : p # r => req'[p] = req[p]
  BY <1>3 DEF Others
<1> QED
  BY <1>0, <1>1, <1>5, <1>6, <1>7, <1>8, RowsMove

LEMMA RowsUpsert ==
  ASSUME RowsInv, NEW r \in Requests, UpsertRow(r)
  PROVE  RowsOK'
<1> DEFINE old == req[r]
           i == old.todo[1]
           sid == At(i).sid
<1>0. IndexInv /\ RowsOK /\ Types
  BY DEF RowsInv, IndexInv
<1>1. /\ old.pc = "upsert" /\ UNCHANGED <<spool, events, backend, raced>>
      /\ old.todo \in Seq(Nat) /\ old.todo # <<>>
  BY <1>0, RequestFields DEF UpsertRow, Request
<1>2. Head(old.todo) = i
  BY <1>1
<1>3. \/ /\ old.row = NoRow /\ rows[sid] # NoRow
         /\ rows' = rows /\ req' = [req EXCEPT ![r] = Done]
      \/ /\ rows' = [rows EXCEPT ![sid] = RollUp(old.row, At(i))]
         /\ req' = [req EXCEPT ![r] = Following(old)]
  BY <1>2 DEF UpsertRow
<1>4. PICK q \in {Done, Following(old)} : req' = [req EXCEPT ![r] = q]
  BY <1>3
<1>5. Others(r) /\ req'[r] = q
  <2>1. req = [p \in Requests |-> req[p]]
    BY <1>0, RequestFields
  <2> QED
    BY <1>4, <2>1 DEF Others
<1>6. req'[r].pc \in {"done", "mark", "insert"}
  BY <1>4, <1>5 DEF Done, Idle, Following
<1>7. /\ Active(old) /\ Writing(old)
      /\ ~Writing(req'[r]) /\ ~Deleting(req'[r]) /\ Held(events', rows', req'[r])
  BY <1>1, <1>6 DEF Active, Writing, Deleting, Held
<1>8. ASSUME ~raced
      PROVE  /\ backend = "postgres" /\ Held(events, rows, old)
             /\ \A p \in Requests \ {r} : ~Deleting(req[p]) /\ ~Writing(req[p]) /\ ~Active(req[p])
  <2>1. backend = "postgres" /\ Held(events, rows, old)
    BY <1>0, <1>7, <1>8 DEF RowsOK
  <2> QED
    BY <1>7, <1>8, <2>1, WorksAlone
<1>9. ASSUME ~raced PROVE Exact(events', rows')
  <2> DEFINE E == events \ {i}
  <2>1. /\ i \in events /\ sid \in SessionIds /\ (\A j \in events : j <= i)
        /\ Exact(E, rows) /\ old.row = rows[sid]
    BY <1>1, <1>7, <1>8, <1>9 DEF Held
  <2>2. rows' = [rows EXCEPT ![sid] = RollUp(rows[sid], At(i))]
    BY <1>3, <2>1
  <2>3. /\ E \in SUBSET Good /\ i \in Good /\ events = E \cup {i}
        /\ spool \in Seq(Lines \cup {BadLine}) /\ DOMAIN rows = SessionIds
    BY <1>0, <2>1 DEF Types
  <2>4. \A j \in E : j < i
    <3>1. \A j \in Good : j \in Nat
      BY <1>0 DEF Good, Types
    <3> QED
      BY <2>1, <2>3, <3>1
  <2> HIDE DEF E, sid, i
  <2>5. ASSUME NEW s \in SessionIds PROVE rows'[s] = Reference(s, events)
    <3>1. Reference(s, E \cup {i}) =
            IF At(i).sid = s THEN RollUp(Reference(s, E), At(i)) ELSE Reference(s, E)
      BY <2>3, <2>4, ReferenceGrows
    <3>2. rows[s] = Reference(s, E)
      BY <2>1 DEF Exact
    <3>3. rows'[s] = IF s = sid THEN RollUp(rows[s], At(i)) ELSE rows[s]
      BY <2>2, <2>3
    <3>4. sid = At(i).sid
      BY DEF sid
    <3> QED
      BY <2>3, <3>1, <3>2, <3>3, <3>4
  <2> QED
    BY <1>1, <2>5 DEF Exact
<1>10. \A p \in Requests : p # r => req'[p] = req[p]
  BY <1>5 DEF Others
<1> QED
  BY <1>0, <1>1, <1>7, <1>8, <1>9, <1>10, RowsMove

\* The gateway appends: no indexed line changes.
LEMMA RowsEmit ==
  ASSUME RowsInv, NEW line \in Lines \cup {BadLine}, Emit(line)
  PROVE  RowsOK'
<1>0. IndexInv /\ RowsOK /\ Types /\ spool \in Seq(Lines \cup {BadLine}) /\ events \subseteq Good
  BY DEF RowsInv, IndexInv, Types
<1>1. spool' = Append(spool, line) /\ UNCHANGED <<events, rows, req, backend, raced>>
  BY DEF Emit
<1>2. \A i \in Good : At(i)' = At(i)
  <2>1. \A n \in 1..Len(spool) : spool'[n] = spool[n]
    BY <1>0, <1>1
  <2>2. \A i \in Good : i + 1 \in 1..Len(spool)
    BY <1>0 DEF Good
  <2> QED
    BY <2>1, <2>2 DEF At
<1>3. ASSUME NEW E \in SUBSET Good, NEW s PROVE Reference(s, E)' = Reference(s, E)
  <2>1. \A i \in E : At(i)' = At(i)
    BY <1>2
  <2> QED
    BY <1>0, <2>1, ReferenceKept
<1>4. \A E \in SUBSET Good : \A R : Exact(E, R) => Exact(E, R)'
  BY <1>3 DEF Exact
<1>5. \A E \in SUBSET Good : \A R, q : Held(E, R, q) => Held(E, R, q)'
  <2> SUFFICES ASSUME NEW E \in SUBSET Good, NEW R, NEW q, Held(E, R, q)
               PROVE  Held(E, R, q)'
    OBVIOUS
  <2>1. CASE ~Writing(q)
    BY <2>1 DEF Held
  <2>2. CASE Writing(q)
    <3>1. q.todo[1] \in Good /\ E \ {q.todo[1]} \in SUBSET Good
      BY <2>2 DEF Held
    <3>2. Exact(E \ {q.todo[1]}, R)'
      BY <1>4, <2>2, <3>1 DEF Held
    <3>3. At(q.todo[1])' = At(q.todo[1])
      BY <1>2, <3>1
    <3> QED
      BY <2>2, <3>2, <3>3 DEF Held
  <2> QED
    BY <2>1, <2>2
<1>6. ASSUME ~raced
      PROVE  /\ \A r \in Requests : Held(events, rows, req[r])'
             /\ \/ \E r \in Requests : Writing(req[r]) \/ req[r].pc = "delete_sessions"
                \/ Exact(events, rows)'
  <2>1. \A r \in Requests : Held(events, rows, req[r])'
    BY <1>0, <1>1, <1>5, <1>6 DEF RowsOK
  <2>2. Exact(events, rows) => Exact(events, rows)'
    BY <1>0, <1>1, <1>4
  <2> QED
    BY <1>0, <1>6, <2>1, <2>2 DEF RowsOK
<1> QED
  BY <1>0, <1>1, <1>6 DEF RowsOK

LEMMA RowsFrame ==
  ASSUME RowsOK, UNCHANGED <<spool, events, rows, req, backend, raced>>
  PROVE  RowsOK'
<1>1. \A r \in Requests : Held(events, rows, req[r]) => Held(events, rows, req[r])'
  BY HeldKept
<1>2. Exact(events, rows) => Exact(events, rows)'
  BY ExactKept
<1> QED
  BY <1>1, <1>2 DEF RowsOK

LEMMA RowsStep ==
  ASSUME RowsInv, [ConsoleNext]_consoleVars
  PROVE  RowsInv'
<1>0. IndexInv /\ RowsOK
  BY DEF RowsInv
<1>a. IndexInv'
  BY <1>0, IndexStep
<1> SUFFICES RowsOK'
  BY <1>a DEF RowsInv
<1>1. ASSUME NEW line \in Lines \cup {BadLine}, Emit(line) PROVE RowsOK'
  BY <1>1, RowsEmit
<1>2. ASSUME NEW r \in Requests, Begin(r) \/ Rebuild(r) \/ CatchUpStep(r) \/ Crash(r)
      PROVE  RowsOK'
  BY <1>2, RowsRest, RowsRebuild, RowsIngest, RowsInsert, RowsSelect, RowsUpsert, RowsDelete
     DEF CatchUpStep
<1>3. CASE FeedStep \/ Connect \/ Stop \/ Users \/ Disconnect
  <2>1. UNCHANGED <<spool, events, rows, req, backend, raced>>
    BY <1>3 DEF FeedStep, Poll, Deliver, Connect, Stop, Users, Disconnect, indexVars
  <2> QED
    BY <1>0, <2>1, RowsFrame
<1>4. CASE UNCHANGED consoleVars
  BY <1>0, <1>4, RowsFrame DEF consoleVars, indexVars
<1> QED
  BY <1>1, <1>2, <1>3, <1>4 DEF ConsoleNext, IndexNext, OpenFeed

\* A session's detail lists the events its row counts, up to a page of them.
LEMMA DetailListsAll ==
  ASSUME Types, NEW s \in SessionIds, rows[s] = Reference(s, events), rows[s] # NoRow
  PROVE  Len(SessionDetail(s, Len(spool)).replay) = Min({rows[s].count, MaxPage})
<1> DEFINE D == Of(s, events)
           n == Cardinality(D)
           match == {i \in events : /\ s = NoSession \/ At(i).sid = s
                                    /\ NoScore = NoScore \/ (IF TRUE THEN i > NoScore ELSE i < NoScore)}
           sorted == Ascending(D)
           limit == Len(spool)
           size == Min({Len(sorted), Max({1, Min({limit, MaxPage})})})
<1>1. D # {} /\ rows[s] = Summary(D)
  BY DEF Reference
<1>2. /\ D \in SUBSET Good /\ D \in SUBSET events
      /\ spool \in Seq(Lines \cup {BadLine}) /\ limit \in Nat
  BY DEF Of, Types
<1>3. rows[s].count = n
  BY <1>1, <1>2, SummaryFields
<1>4. match = D
  BY IndexAssumption DEF Of
<1>5. SessionDetail(s, limit).replay = QueryEvents(s, NoScore, limit, TRUE)
  BY DEF SessionDetail
<1>6. QueryEvents(s, NoScore, limit, TRUE) = SubSeq(sorted, 1, size)
  BY <1>4 DEF QueryEvents
<1>7. IsFiniteSet(D) /\ D \in SUBSET Int
  BY <1>2, SpoolFinite
<1>8. n \in Nat /\ n >= 1
  <2> HIDE DEF D
  <2>1. n \in Nat
    BY <1>7, FS_CardinalityType
  <2>2. n # 0
    BY <1>1, <1>7, FS_EmptySet
  <2> QED
    BY <2>1, <2>2
<1>9. n <= limit
  <2>1. D \in SUBSET (0..limit - 1)
    BY <1>2 DEF Good
  <2> HIDE DEF D, limit
  <2>2. IsFiniteSet(0..limit - 1) /\ Cardinality(0..limit - 1) = limit
    <3>1. 0 \in Int /\ limit - 1 \in Int
      BY <1>2
    <3>2. /\ IsFiniteSet(0..limit - 1)
          /\ Cardinality(0..limit - 1) = IF 0 > limit - 1 THEN 0 ELSE limit - 1 - 0 + 1
      BY <3>1, FS_Interval
    <3> QED
      BY <1>2, <3>2
  <2> QED
    BY <2>1, <2>2, FS_Subset
<1>10. sorted \in Seq(D) /\ Len(sorted) = n
  <2> HIDE DEF D
  <2>1. sorted \in Seq(D)
    BY <1>7, AscendingFacts
  <2>2. Len(sorted) = n
    BY <1>8 DEF Ascending
  <2> QED
    BY <2>1, <2>2
<1> HIDE DEF D, n, match, sorted, limit
<1>11. size = Min({n, MaxPage}) /\ size \in 1..Len(sorted)
  <2>1. MaxPage = 1000
    BY DEF MaxPage
  <2> DEFINE a == Min({limit, MaxPage})
             b == Max({1, a})
  <2>2. a = IF limit <= MaxPage THEN limit ELSE MaxPage
    <3>1. limit \in Int /\ MaxPage \in Int
      BY <1>2, <2>1
    <3> QED
      BY <3>1, MaxMin
  <2> HIDE DEF a
  <2>3. a \in Int
    BY <1>2, <2>1, <2>2
  <2>4. b = IF 1 >= a THEN 1 ELSE a
    BY <2>3, MaxMin
  <2>5. size = Min({n, b})
    BY <1>10 DEF a
  <2> HIDE DEF b, size
  <2>6. b \in Int
    BY <2>3, <2>4
  <2>7. Min({n, b}) = IF n <= b THEN n ELSE b
    BY <1>8, <2>6, MaxMin
  <2>8. Min({n, MaxPage}) = IF n <= MaxPage THEN n ELSE MaxPage
    BY <1>8, <2>1, MaxMin
  <2> QED
    BY <1>2, <1>8, <1>9, <1>10, <2>1, <2>2, <2>4, <2>5, <2>7, <2>8
<1> HIDE DEF size
<1>12. Len(SubSeq(sorted, 1, size)) = size
  BY <1>10, <1>11
<1> QED
  BY <1>3, <1>5, <1>6, <1>11, <1>12 DEF limit

\* A session's row is exactly what its indexed events add up to, each counted
\* once and in order, whatever a request read twice and wherever one died, and
\* the detail of the session lists as many of them as fit on a page
\* (audit/index.py ingest, _roll_up and session_detail; state/postgres.py).
THEOREM RollUpsAreExact == ConsoleSpec => []RollUpIsExact
<1>1. ConsoleInit => RowsInv
  <2> SUFFICES ASSUME ConsoleInit PROVE RowsInv
    OBVIOUS
  <2>1. IndexInv
    BY IndexStart
  <2>2. /\ events = {} /\ rows = [s \in SessionIds |-> NoRow]
        /\ \A r \in Requests : req[r].pc = "idle"
    BY DEF ConsoleInit, Init, Idle
  <2>3. \A r \in Requests : ~Active(req[r]) /\ ~Writing(req[r]) /\ ~Deleting(req[r])
                            /\ Held(events, rows, req[r])
    BY <2>2 DEF Active, Writing, Deleting, Held
  <2>4. Exact(events, rows)
    BY <2>2 DEF Exact, Reference, Of
  <2> QED
    BY <2>1, <2>3, <2>4 DEF RowsInv, RowsOK
<1>2. RowsInv /\ [ConsoleNext]_consoleVars => RowsInv'
  BY RowsStep
<1>3. RowsInv => RollUpIsExact
  <2> SUFFICES ASSUME RowsInv, ~raced, NEW s \in SessionIds,
                      ~ \E r \in Requests : req[r].pc \in {"select", "upsert", "delete_sessions"}
               PROVE  /\ rows[s] = Reference(s, events)
                      /\ rows[s] # NoRow =>
                           Len(SessionDetail(s, Len(spool)).replay) = Min({rows[s].count, MaxPage})
    BY DEF RollUpIsExact
  <2>1. Types
    BY DEF RowsInv, IndexInv
  <2>2. Exact(events, rows)
    BY DEF RowsInv, RowsOK, Writing
  <2>3. rows[s] = Reference(s, events)
    BY <2>2 DEF Exact
  <2> QED
    BY <2>1, <2>3, DetailListsAll
<1> QED
  BY <1>1, <1>2, <1>3, PTL DEF ConsoleSpec
=============================================================================
