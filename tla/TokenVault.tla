----------------------------- MODULE TokenVault -----------------------------
(* The encrypted token vault (redaction/vault.py EncryptedSqliteVault) as     *)
(* several gateway processes use one database file.  A value's token is a     *)
(* keyed MAC of it, so tokens are named by the value they stand for; the 48   *)
(* bits of the MAC that reach the token are taken to be distinct.             *)
(*                                                                            *)
(* SQLite in WAL mode, as Python's sqlite3 drives it, is external: a SELECT   *)
(* outside a transaction reads the latest commit; an INSERT opens a           *)
(* transaction that only commit() closes; an INSERT that violates the primary *)
(* key raises and leaves that transaction open, holding the write lock; an    *)
(* INSERT against another's lock, or from a snapshot that is no longer the    *)
(* latest, raises "database is locked" and leaves the transaction open too.   *)
EXTENDS Naturals, FiniteSets

CONSTANTS Procs, Keks, Values, NoKey, NoLock, NoSnap, NoJob

VARIABLES meta,         \* the wrapped DEK: NoKey or [dek, kek]
          rows,         \* value -> the DEK its ciphertext is under, or NoKey
          vault,        \* process -> [st, kek, dek, job]
          tx,           \* process -> a transaction is open on its connection
          snap,         \* process -> NoSnap or the values its transaction sees
          lock,         \* the process holding the write lock, or NoLock
          handed,       \* (history) values whose token was returned
          raced         \* (history) some process lost an insert race

\* No key is not one of the keys.  The DEK a process mints bears its name.
ASSUME VaultAssumption == NoKey \notin Procs /\ NoKey \notin [dek : Procs, kek : Keks]

vaultVars == <<meta, rows, vault, tx, snap, lock, handed, raced>>

Closed == [st |-> "closed", kek |-> NoKey, dek |-> NoKey, job |-> NoJob]
Kept == {v \in Values : rows[v] # NoKey}

VaultInit == /\ meta = NoKey
             /\ rows = [v \in Values |-> NoKey]
             /\ vault = [p \in Procs |-> Closed]
             /\ tx = [p \in Procs |-> FALSE]
             /\ snap = [p \in Procs |-> NoSnap]
             /\ lock = NoLock
             /\ handed = {}
             /\ raced = FALSE

\* _open_vault, load_kek_from_env, __init__ and the SELECT of
\* _load_or_create_dek.  Without a valid KEK the vault is not opened at all; a
\* KEK that does not unwrap the stored DEK raises.
OpenVault(p, k) ==
  /\ vault[p].st = "closed"
  /\ k # NoKey
  /\ IF meta = NoKey
       THEN vault' = [vault EXCEPT ![p] = [Closed EXCEPT !.st = "minting", !.kek = k]]
       ELSE /\ k = meta.kek
            /\ vault' = [vault EXCEPT ![p] =
                           [st |-> "open", kek |-> k, dek |-> meta.dek, job |-> NoJob]]
  /\ UNCHANGED <<meta, rows, tx, snap, lock, handed, raced>>

\* Mutant of MintDek: the meta row is replaced, as INSERT OR REPLACE would.
MintDekReplacing(p) ==
  /\ vault[p].st = "minting"
  /\ meta' = [dek |-> p, kek |-> vault[p].kek]
  /\ vault' = [vault EXCEPT ![p].st = "open", ![p].dek = p]
  /\ UNCHANGED <<rows, tx, snap, lock, handed, raced>>

\* _load_or_create_dek: INSERT the wrapped DEK.  Whoever comes second raises
\* out of the constructor, and its connection goes with it.
MintDek(p) ==
  /\ vault[p].st = "minting"
  /\ IF meta = NoKey
       THEN /\ meta' = [dek |-> p, kek |-> vault[p].kek]
            /\ vault' = [vault EXCEPT ![p].st = "open", ![p].dek = p]
       ELSE /\ vault' = [vault EXCEPT ![p] = Closed]
            /\ UNCHANGED meta
  /\ UNCHANGED <<rows, tx, snap, lock, handed, raced>>

Visible(p) == IF snap[p] = NoSnap THEN Kept ELSE snap[p]

\* tokenize: the SELECT.  A row that is there needs no write.
Tokenize(p, v) ==
  /\ vault[p].st = "open" /\ vault[p].job = NoJob
  /\ snap' = [snap EXCEPT ![p] = IF tx[p] THEN Visible(p) ELSE NoSnap]
  /\ IF v \in Visible(p)
       THEN handed' = handed \cup {v} /\ UNCHANGED vault
       ELSE vault' = [vault EXCEPT ![p].job = v] /\ UNCHANGED handed
  /\ UNCHANGED <<meta, rows, tx, lock, raced>>

\* tokenize: the INSERT and the commit, by what SQLite makes of them.
CanWrite(p) == /\ lock \in {NoLock, p}
               /\ snap[p] \in {NoSnap, Kept}

\* Mutant of Insert: the row is written and the token returned, but the
\* transaction is not committed, so a crash or a rollback forgets the row.
InsertUncommitted(p) ==
  LET v == vault[p].job IN
  /\ v # NoJob
  /\ CanWrite(p) /\ rows[v] = NoKey
  /\ handed' = handed \cup {v}
  /\ vault' = [vault EXCEPT ![p].job = NoJob]
  /\ tx' = [tx EXCEPT ![p] = TRUE]
  /\ lock' = p
  /\ UNCHANGED <<meta, rows, snap, raced>>

Insert(p) ==
  LET v == vault[p].job IN
  /\ v # NoJob
  /\ CanWrite(p) /\ rows[v] = NoKey
  /\ rows' = [rows EXCEPT ![v] = vault[p].dek]
  /\ handed' = handed \cup {v}
  /\ vault' = [vault EXCEPT ![p].job = NoJob]
  /\ tx' = [tx EXCEPT ![p] = FALSE]
  /\ snap' = [snap EXCEPT ![p] = NoSnap]
  /\ lock' = NoLock
  /\ UNCHANGED <<meta, raced>>

\* Another process stored the same value since the SELECT: IntegrityError, no
\* token, and nothing rolls the transaction back.
InsertLoses(p) ==
  LET v == vault[p].job IN
  /\ v # NoJob
  /\ CanWrite(p) /\ rows[v] # NoKey
  /\ vault' = [vault EXCEPT ![p].job = NoJob]
  /\ tx' = [tx EXCEPT ![p] = TRUE]
  /\ snap' = [snap EXCEPT ![p] = Kept]
  /\ lock' = p
  /\ raced' = TRUE
  /\ UNCHANGED <<meta, rows, handed>>

\* OperationalError: database is locked, after the busy timeout.
InsertLocked(p) ==
  /\ vault[p].job # NoJob
  /\ ~CanWrite(p)
  /\ vault' = [vault EXCEPT ![p].job = NoJob]
  /\ tx' = [tx EXCEPT ![p] = TRUE]
  /\ UNCHANGED <<meta, rows, snap, lock, handed, raced>>

\* The process ends: SQLite rolls its transaction back.
CloseVault(p) ==
  /\ vault[p].st # "closed"
  /\ vault' = [vault EXCEPT ![p] = Closed]
  /\ tx' = [tx EXCEPT ![p] = FALSE]
  /\ snap' = [snap EXCEPT ![p] = NoSnap]
  /\ lock' = IF lock = p THEN NoLock ELSE lock
  /\ UNCHANGED <<meta, rows, handed, raced>>

VaultNext ==
  \E p \in Procs :
    \/ \E k \in Keks : OpenVault(p, k)
    \/ \E v \in Values : Tokenize(p, v)
    \/ MintDek(p) \/ Insert(p) \/ InsertLoses(p) \/ InsertLocked(p)

\* detokenize: the row's ciphertext under the process's DEK.
detokenize(p, v) == IF v \in Visible(p) /\ rows[v] = vault[p].dek THEN v ELSE NoJob

(* Every token ever returned can be reversed by every process that has the   *)
(* vault open and is not reading an old snapshot: the processes agree on one  *)
(* DEK however they raced to create it, and a token is returned only once its *)
(* row is committed, so no crash leaves a token nobody can reverse            *)
(* (vault.py _load_or_create_dek, tokenize, detokenize).                      *)
TokensReverse ==
  \A v \in handed, p \in Procs :
    vault[p].st = "open" /\ snap[p] \in {NoSnap, Kept} => detokenize(p, v) = v

(* A connection is left inside a transaction, and the write lock held between *)
(* calls, only once some process has lost an insert race: without a race no   *)
(* tokenize is ever refused as locked (vault.py tokenize, no rollback on      *)
(* IntegrityError).                                                           *)
StuckOnlyAfterARace ==
  ~raced => lock = NoLock /\ \A p \in Procs : ~tx[p] /\ CanWrite(p)
=============================================================================
