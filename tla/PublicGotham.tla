---------------------------- MODULE PublicGotham ----------------------------
(***************************************************************************)
(* The server's store and its lock: gotham-server/src/public_gotham.rs     *)
(* and server.rs.  Every request handler of gotham_engine works on one     *)
(* `Db` behind one tokio mutex; PublicGotham implements that Db over a      *)
(* RocksDB map from identifiers to values.  This module is the state and   *)
(* the operations; Signing and Keygen are the handlers that use them.      *)
(***************************************************************************)
EXTENDS Integers

CONSTANTS
    Ids,        \* the ids of the master keys (a fresh uuid per key generation)
    Tables,     \* the record kinds (MPCStruct) kept for an id
    Values,     \* what can be stored
    Handlers,   \* the request handlers that may hold the lock
    None,       \* no record, and nobody holding the lock
    Faults      \* the failures of the environment that may happen in a run

\* put, get: RocksDB returns an error; crash: the server process dies and is
\* started again; timeout: a client gives up on a request still in progress.
FaultKinds == {"put", "get", "crash", "timeout"}

ASSUME NoneIsNothing == None \notin Values /\ None \notin Handlers
ASSUME FaultsKnown == Faults \subseteq FaultKinds

VARIABLES
    db,         \* identifier -> stored value, or None
    mutex       \* the handler that holds the lock, or None

serverVars == <<db, mutex>>

\* Mutants: the table's name is left out; the id is left out.
NoTable(id, table) == <<id, "EphEcKeyPair">>
OneForAll(id, table) == <<CHOOSE i \in Ids : TRUE, table>>

\* "{user}_{id}_{table}".  There is one user (the pass-through one), and
\* neither an id nor a table name has an underscore: different parts give
\* different identifiers, which is all the store depends on.
idify(id, table) == <<id, table>>

Identifiers == Ids \X Tables

StoreTypeOK ==
    /\ db \in [Identifiers -> Values \cup {None}]
    /\ mutex \in Handlers \cup {None}

\* Mutant: the table's name is stored for the value.
InsertName(id, table, value) == db' = [db EXCEPT ![idify(id, table)] = table]

\* Insert answers Ok whether or not RocksDB kept the value: `let _ = put`.
Insert(id, table, value) ==
    \/ db' = [db EXCEPT ![idify(id, table)] = value]
    \/ "put" \in Faults /\ UNCHANGED db

\* Get yields the record or None ...
Get(id, table) == db[idify(id, table)]

\* ... and panics when RocksDB returns an error (`.unwrap()`).
GetMayPanic == "get" \in Faults

\* Every transaction is authorised.
Granted(message) == TRUE

\* Mutant: the store is shared without a lock.
LockAtOnce(h) == mutex' = h

\* `state.lock().await` and the end of the guard's scope.
Lock(h) == mutex = None /\ mutex' = h
Unlock == mutex' = None

\* Mutant: each process makes a database of its own.
OpenAnew == mutex' = None /\ db' = [i \in Identifiers |-> None]

\* A new process opens the same database and makes a new mutex.
Reopen == mutex' = None /\ UNCHANGED db
=============================================================================
