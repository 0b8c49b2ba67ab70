-------------------------------- MODULE Keygen --------------------------------
(***************************************************************************)
(* Two-party key generation: get_master_key in gotham-client's             *)
(* ecdsa/keygen.rs against the six keygen routes of the server.  A session *)
(* is one call of get_master_key; it posts six requests in turn, and any   *)
(* answer that does not parse, or a proof that does not verify, panics.    *)
(* The server keeps what it must remember from one request to the next     *)
(* under a fresh id, here named like the session it was made for.          *)
(***************************************************************************)
EXTENDS PublicGotham

CONSTANT Sessions       \* the calls of get_master_key

VARIABLES
    round,      \* the request the client waits for: 1..6; 0 before the first
    client,     \* "idle", "waiting", "done" or "failed"
    handler,    \* where the server is in that request
    reply       \* the answer under way

keygenVars == <<db, mutex, round, client, handler, reply>>

First == 1
Second == 2
Third == 3
Fourth == 4
ChainFirst == 5
ChainSecond == 6
Rounds == First..ChainSecond

\* What each request leaves in the store for later ones, if anything ...
Stored == [r \in Rounds |->
    CASE r = First -> {"CommWitness"}
      [] r = Second -> {"Party1Private"}
      [] r = Third -> {"PDLDecommit"}
      [] r = Fourth -> {}
      [] r = ChainFirst -> {"CCCommWitness"}
      [] r = ChainSecond -> {"Party1MasterKey"}]

\* ... and what it needs of them: the second and the last message open the
\* commitments of the first and of the fifth, the proof of the third is checked
\* and opened in the fourth, and the master key is made of all of it.
Needed == [r \in Rounds |->
    CASE r = First -> {}
      [] r = Second -> {"CommWitness"}
      [] r = Third -> {"Party1Private"}
      [] r = Fourth -> {"Party1Private", "PDLDecommit"}
      [] r = ChainFirst -> {}
      [] r = ChainSecond -> {"CommWitness", "Party1Private", "CCCommWitness"}]

KeygenTables == UNION {Stored[r] : r \in Rounds}

ASSUME KeygenConstants ==
    /\ Ids = Sessions
    /\ Sessions \subseteq Handlers
    /\ Sessions \subseteq Values
    /\ KeygenTables \subseteq Tables

KeygenTypeOK ==
    /\ StoreTypeOK
    /\ round \in [Sessions -> {0} \cup Rounds]
    /\ client \in [Sessions -> {"idle", "waiting", "done", "failed"}]
    /\ handler \in [Sessions -> {"none", "lock", "get", "put"}]
    /\ reply \in [Sessions -> {"none", "ok", "error"}]

Init ==
    /\ db = [i \in Identifiers |-> None]
    /\ mutex = None
    /\ round = [s \in Sessions |-> 0]
    /\ client = [s \in Sessions |-> "idle"]
    /\ handler = [s \in Sessions |-> "none"]
    /\ reply = [s \in Sessions |-> "none"]

-----------------------------------------------------------------------------
(* The client. *)

Post(s) ==
    /\ round' = [round EXCEPT ![s] = @ + 1]
    /\ client' = [client EXCEPT ![s] = "waiting"]
    /\ handler' = [handler EXCEPT ![s] = "lock"]
    /\ reply' = [reply EXCEPT ![s] = "none"]
    /\ UNCHANGED serverVars

Begin(s) == client[s] = "idle" /\ Post(s)

\* Mutant: the client goes on after an error.
ContinueOnError(s) ==
    /\ client[s] = "waiting" /\ reply[s] # "none" /\ round[s] < ChainSecond
    /\ Post(s)

\* An answer is parsed and checked, and the next message posted.
Continue(s) ==
    /\ client[s] = "waiting" /\ reply[s] = "ok" /\ round[s] < ChainSecond
    /\ Post(s)

\* Mutant: the client computes its share without the last answer.
FinishEarly(s) ==
    /\ client[s] = "waiting" /\ reply[s] = "ok" /\ round[s] >= ChainFirst
    /\ client' = [client EXCEPT ![s] = "done"]
    /\ reply' = [reply EXCEPT ![s] = "none"]
    /\ UNCHANGED <<serverVars, round, handler>>

\* After the last answer the client computes its share: only then is there a
\* PrivateShare for the caller to save.
Finish(s) ==
    /\ client[s] = "waiting" /\ reply[s] = "ok" /\ round[s] = ChainSecond
    /\ client' = [client EXCEPT ![s] = "done"]
    /\ reply' = [reply EXCEPT ![s] = "none"]
    /\ UNCHANGED <<serverVars, round, handler>>

GiveUp(s) ==
    /\ client' = [client EXCEPT ![s] = "failed"]
    /\ reply' = [reply EXCEPT ![s] = "none"]
    /\ UNCHANGED <<serverVars, round, handler>>

\* Mutant: only an error page ends the request, not a connection that is gone.
OnlyErrorPages(s) == client[s] = "waiting" /\ reply[s] = "error" /\ GiveUp(s)

\* `unwrap` of None: an error page, or a connection that is gone.
Panic(s) ==
    /\ client[s] = "waiting"
    /\ reply[s] = "error" \/ (reply[s] = "none" /\ handler[s] = "none")
    /\ GiveUp(s)

\* The same while the server is still at work.
TimeOut(s) == "timeout" \in Faults /\ client[s] = "waiting" /\ GiveUp(s)

-----------------------------------------------------------------------------
(* The handlers. *)

Answer(s, answer) ==
    /\ Unlock
    /\ handler' = [handler EXCEPT ![s] = "none"]
    /\ reply' = [reply EXCEPT ![s] = IF client[s] = "waiting" THEN answer ELSE "none"]

AcquireLock(s) ==
    /\ handler[s] = "lock" /\ Lock(s)
    /\ handler' = [handler EXCEPT ![s] = "get"]
    /\ UNCHANGED <<db, round, client, reply>>

AllThere(s) == \A t \in Needed[round[s]] : Get(s, t) # None

GetRecords(s) ==
    /\ handler[s] = "get"
    /\ AllThere(s)
    /\ handler' = [handler EXCEPT ![s] = "put"]
    /\ UNCHANGED <<serverVars, round, client, reply>>

GetFails(s) ==
    /\ handler[s] = "get"
    /\ ~AllThere(s) \/ (GetMayPanic /\ Needed[round[s]] # {})
    /\ Answer(s, "error")
    /\ UNCHANGED <<db, round, client>>

\* Every insert says Ok, so a handler that has its records answers.
PutAndAnswer(s) ==
    /\ handler[s] = "put"
    /\ IF Stored[round[s]] = {} THEN UNCHANGED db
       ELSE \E t \in Stored[round[s]] : Insert(s, t, s)
    /\ Answer(s, "ok")
    /\ UNCHANGED <<round, client>>

\* The server dies, with every request in it, and is started again.  A client
\* that has the answer to its request posts the next one to the new server; an
\* answer still on its way may be lost.
Crash ==
    /\ "crash" \in Faults
    /\ Reopen
    /\ handler' = [s \in Sessions |-> "none"]
    /\ \E lost \in SUBSET {s \in Sessions : reply[s] # "none"} :
          reply' = [s \in Sessions |-> IF s \in lost THEN "none" ELSE reply[s]]
    /\ UNCHANGED <<round, client>>

-----------------------------------------------------------------------------
ClientStep(s) == Continue(s) \/ Finish(s) \/ Panic(s)
HandlerStep(s) == AcquireLock(s) \/ GetRecords(s) \/ GetFails(s) \/ PutAndAnswer(s)

Next ==
    \/ \E s \in Sessions : Begin(s) \/ TimeOut(s) \/ ClientStep(s) \/ HandlerStep(s)
    \/ Crash

Spec == Init /\ [][Next]_keygenVars

FairSpec ==
    /\ Spec
    /\ \A s \in Sessions : WF_keygenVars(ClientStep(s)) /\ WF_keygenVars(HandlerStep(s))

-----------------------------------------------------------------------------
(* Properties. *)

\* A write that is lost on the way is noticed before the client has a share:
\* some later request needs each record but the last.
LossIsNoticed ==
    \A s \in Sessions : client[s] = "done" =>
        \A t \in KeygenTables \ {"Party1MasterKey"} : Get(s, t) # None

\* The server makes a master key only with a client that went through all the
\* proofs: the records of every earlier request are there.
MasterKeyIsEarned ==
    \A s \in Sessions : Get(s, "Party1MasterKey") # None =>
        /\ round[s] = ChainSecond
        /\ \A t \in KeygenTables : Get(s, t) # None

\* get_master_key returns or panics, whatever fails.
EveryKeygenEnds ==
    \A s \in Sessions : client[s] = "waiting" ~> client[s] \in {"done", "failed"}

\* What insert's Result says, and every caller of get_master_key relies on: a
\* key generation that went through left a key the server can sign with.
FinishedKeyIsStored ==
    \A s \in Sessions : client[s] = "done" => Get(s, "Party1MasterKey") # None
=============================================================================
