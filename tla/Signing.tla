------------------------------- MODULE Signing -------------------------------
(***************************************************************************)
(* Two-party signing: gotham-client/src/ecdsa/sign.rs against the two sign *)
(* routes of the server (server.rs).  A session is one call of `sign`; it   *)
(* makes two requests and never repeats one.  The server keeps its side of *)
(* the ephemeral key under the master key's id, not under the session, so  *)
(* concurrent sessions of one key overwrite each other's records.          *)
(*                                                                         *)
(* Both parties draw a fresh nonce in the first request of a session.  The *)
(* two nonces of session s are both named s: nothing at the server binds   *)
(* the nonce it stores to a message, and none is in the model.             *)
(***************************************************************************)
EXTENDS PublicGotham

CONSTANTS
    Sessions,       \* the calls of `sign`
    KeyOf,          \* the id of the master key each session signs with
    Strays,         \* the sessions whose share is not one of that master key
    MasterKey       \* the value of a Party1MasterKey record

VARIABLES
    client,     \* where `sign` is
    handler,    \* where the server is in the request of the session
    reply,      \* the answer under way to the client
    nonce1,     \* EphEcKeyPair as the second handler read it
    nonce2,     \* EphKeyGenFirstMsg as the second handler read it
    released    \* the signatures the server has computed

vars == <<db, mutex, client, handler, reply, nonce1, nonce2, released>>

SigningTables == {"Party1MasterKey", "EphKeyGenFirstMsg", "EphEcKeyPair"}

ASSUME SigningConstants ==
    /\ KeyOf \in [Sessions -> Ids]
    /\ Strays \subseteq Sessions
    /\ Sessions \subseteq Handlers
    /\ SigningTables \subseteq Tables
    /\ Sessions \cup {MasterKey} \subseteq Values
    /\ MasterKey \notin Sessions

Signatures == [key : Ids, nonce1 : Sessions, nonce2 : Sessions, session : Sessions]

ClientStates == {"idle", "first", "second", "signed", "failed"}
FirstHandler == {"first_lock", "first_put_msg", "first_put_key"}
SecondHandler == {"second_lock", "second_get_key", "second_get_nonce1",
                  "second_get_nonce2", "second_sign"}
Replies == {"none", "error", "first", "signature"}

TypeOK ==
    /\ StoreTypeOK
    /\ client \in [Sessions -> ClientStates]
    /\ handler \in [Sessions -> {"none"} \cup FirstHandler \cup SecondHandler]
    /\ reply \in [Sessions -> Replies]
    /\ nonce1 \in [Sessions -> Sessions \cup {None}]
    /\ nonce2 \in [Sessions -> Sessions \cup {None}]
    /\ released \subseteq Signatures

\* A database in which key generation stored the master key of some of the ids;
\* it is missing where the write was lost or the server died before it.
StoreAfterKeygen(generated) ==
    [i \in Identifiers |-> IF i \in generated \X {"Party1MasterKey"}
                           THEN MasterKey ELSE None]

Init ==
    /\ \E generated \in SUBSET Ids : db = StoreAfterKeygen(generated)
    /\ mutex = None
    /\ client = [s \in Sessions |-> "idle"]
    /\ handler = [s \in Sessions |-> "none"]
    /\ reply = [s \in Sessions |-> "none"]
    /\ nonce1 = [s \in Sessions |-> None]
    /\ nonce2 = [s \in Sessions |-> None]
    /\ released = {}

-----------------------------------------------------------------------------
(* The client. *)

\* A fresh ephemeral key; its commitment is posted to /ecdsa/sign/{id}/first.
SendFirst(s) ==
    /\ client[s] = "idle"
    /\ client' = [client EXCEPT ![s] = "first"]
    /\ handler' = [handler EXCEPT ![s] = "first_lock"]
    /\ UNCHANGED <<serverVars, reply, nonce1, nonce2, released>>

\* The answer parses: the partial signature is posted to .../second.
SendSecond(s) ==
    /\ client[s] = "first" /\ reply[s] = "first"
    /\ client' = [client EXCEPT ![s] = "second"]
    /\ handler' = [handler EXCEPT ![s] = "second_lock"]
    /\ reply' = [reply EXCEPT ![s] = "none"]
    /\ UNCHANGED <<serverVars, nonce1, nonce2, released>>

\* The signature is returned to the caller as it came.
ReceiveSignature(s) ==
    /\ client[s] = "second" /\ reply[s] = "signature"
    /\ client' = [client EXCEPT ![s] = "signed"]
    /\ reply' = [reply EXCEPT ![s] = "none"]
    /\ UNCHANGED <<serverVars, handler, nonce1, nonce2, released>>

\* Mutant: only an error page ends the request, not a connection that is gone.
OnlyErrorPages(s) ==
    /\ client[s] \in {"first", "second"} /\ reply[s] = "error"
    /\ client' = [client EXCEPT ![s] = "failed"]
    /\ reply' = [reply EXCEPT ![s] = "none"]
    /\ UNCHANGED <<serverVars, handler, nonce1, nonce2, released>>

\* post yields None: an answer that is no JSON of the expected type, or a
\* connection that is gone.  `sign` returns Err; nothing is tried again.
RequestFails(s) ==
    /\ client[s] \in {"first", "second"}
    /\ reply[s] = "error" \/ (reply[s] = "none" /\ handler[s] = "none")
    /\ client' = [client EXCEPT ![s] = "failed"]
    /\ reply' = [reply EXCEPT ![s] = "none"]
    /\ UNCHANGED <<serverVars, handler, nonce1, nonce2, released>>

\* post yields None while the server is still at work: its handler goes on,
\* and what it answers nobody reads.
TimeOut(s) ==
    /\ "timeout" \in Faults
    /\ client[s] \in {"first", "second"}
    /\ client' = [client EXCEPT ![s] = "failed"]
    /\ reply' = [reply EXCEPT ![s] = "none"]
    /\ UNCHANGED <<serverVars, handler, nonce1, nonce2, released>>

-----------------------------------------------------------------------------
(* The handlers: gotham_engine, as the routes, the tests and the client     *)
(* show them.                                                               *)

\* A handler ends: the guard is dropped and the answer goes to a client that
\* still waits.
Answer(s, answer) ==
    /\ Unlock
    /\ handler' = [handler EXCEPT ![s] = "none"]
    /\ reply' = [reply EXCEPT ![s] = IF client[s] = "failed" THEN "none" ELSE answer]

\* The request gets the lock.
AcquireLock(s) ==
    /\ Lock(s)
    /\ \/ /\ handler[s] = "first_lock"
          /\ handler' = [handler EXCEPT ![s] = "first_put_msg"]
       \/ /\ handler[s] = "second_lock"
          /\ handler' = [handler EXCEPT ![s] = "second_get_key"]
    /\ UNCHANGED <<db, client, reply, nonce1, nonce2, released>>

\* wrap_sign_first stores the client's commitment ...
PutMsg(s) ==
    /\ handler[s] = "first_put_msg"
    /\ Insert(KeyOf[s], "EphKeyGenFirstMsg", s)
    /\ handler' = [handler EXCEPT ![s] = "first_put_key"]
    /\ UNCHANGED <<mutex, client, reply, nonce1, nonce2, released>>

\* ... and then its own ephemeral key pair, whose public part is the answer.
PutKey(s) ==
    /\ handler[s] = "first_put_key"
    /\ Insert(KeyOf[s], "EphEcKeyPair", s)
    /\ Answer(s, "first")
    /\ UNCHANGED <<client, nonce1, nonce2, released>>

\* wrap_sign_second reads the three records, in turn.
GetMasterKey(s) ==
    /\ handler[s] = "second_get_key"
    /\ Get(KeyOf[s], "Party1MasterKey") # None
    /\ handler' = [handler EXCEPT ![s] = "second_get_nonce1"]
    /\ UNCHANGED <<serverVars, client, reply, nonce1, nonce2, released>>

GetNonce1(s) ==
    /\ handler[s] = "second_get_nonce1"
    /\ Get(KeyOf[s], "EphEcKeyPair") # None
    /\ nonce1' = [nonce1 EXCEPT ![s] = Get(KeyOf[s], "EphEcKeyPair")]
    /\ handler' = [handler EXCEPT ![s] = "second_get_nonce2"]
    /\ UNCHANGED <<serverVars, client, reply, nonce2, released>>

GetNonce2(s) ==
    /\ handler[s] = "second_get_nonce2"
    /\ Get(KeyOf[s], "EphKeyGenFirstMsg") # None
    /\ nonce2' = [nonce2 EXCEPT ![s] = Get(KeyOf[s], "EphKeyGenFirstMsg")]
    /\ handler' = [handler EXCEPT ![s] = "second_sign"]
    /\ UNCHANGED <<serverVars, client, reply, nonce1, released>>

\* The record a handler wants is not there, or the read panics: the request
\* ends in an error page.
GetFails(s) ==
    /\ \/ /\ handler[s] = "second_get_key"
          /\ GetMayPanic \/ Get(KeyOf[s], "Party1MasterKey") = None
       \/ /\ handler[s] = "second_get_nonce1"
          /\ GetMayPanic \/ Get(KeyOf[s], "EphEcKeyPair") = None
       \/ /\ handler[s] = "second_get_nonce2"
          /\ GetMayPanic \/ Get(KeyOf[s], "EphKeyGenFirstMsg") = None
    /\ Answer(s, "error")
    /\ UNCHANGED <<db, client, nonce1, nonce2, released>>

\* The client's opening fits the commitment that was read.
CommitmentOpens(s) == nonce2[s] = s

\* Mutant: what was made with another key's share is taken too.
AnyShareFits(s) == nonce1[s] = s

\* Its partial signature was made with the server nonce that was read and with
\* a share of the master key (else the result does not verify under the key).
PartialFits(s) == nonce1[s] = s /\ s \notin Strays

\* Mutant: what the signing function reports is ignored.
SignUnchecked(s) ==
    /\ handler[s] = "second_sign"
    /\ released' = released \cup
          {[key |-> KeyOf[s], nonce1 |-> nonce1[s], nonce2 |-> nonce2[s], session |-> s]}
    /\ Answer(s, "signature")
    /\ UNCHANGED <<db, client, nonce1, nonce2>>

Sign(s) ==
    /\ handler[s] = "second_sign"
    /\ Granted(s) /\ CommitmentOpens(s) /\ PartialFits(s)
    /\ released' = released \cup
          {[key |-> KeyOf[s], nonce1 |-> nonce1[s], nonce2 |-> nonce2[s], session |-> s]}
    /\ Answer(s, "signature")
    /\ UNCHANGED <<db, client, nonce1, nonce2>>

Reject(s) ==
    /\ handler[s] = "second_sign"
    /\ ~(Granted(s) /\ CommitmentOpens(s) /\ PartialFits(s))
    /\ Answer(s, "error")
    /\ UNCHANGED <<db, client, nonce1, nonce2, released>>

\* The server dies, with every request in it, and is started again.  A client
\* that has the answer to its request goes on with the new server; an answer
\* still on its way may be lost.
Crash ==
    /\ "crash" \in Faults
    /\ Reopen
    /\ handler' = [s \in Sessions |-> "none"]
    /\ \E lost \in SUBSET {s \in Sessions : reply[s] # "none"} :
          reply' = [s \in Sessions |-> IF s \in lost THEN "none" ELSE reply[s]]
    /\ nonce1' = [s \in Sessions |-> None]
    /\ nonce2' = [s \in Sessions |-> None]
    /\ UNCHANGED <<client, released>>

-----------------------------------------------------------------------------
ClientStep(s) == SendSecond(s) \/ ReceiveSignature(s) \/ RequestFails(s)

HandlerStep(s) ==
    \/ AcquireLock(s) \/ PutMsg(s) \/ PutKey(s)
    \/ GetMasterKey(s) \/ GetNonce1(s) \/ GetNonce2(s) \/ GetFails(s)
    \/ Sign(s) \/ Reject(s)

Next ==
    \/ \E s \in Sessions : SendFirst(s) \/ TimeOut(s) \/ ClientStep(s) \/ HandlerStep(s)
    \/ Crash

Spec == Init /\ [][Next]_vars

\* A client reads an answer that is there and the runtime polls every handler;
\* nobody must start a session, and no failure must happen.
FairSpec ==
    /\ Spec
    /\ \A s \in Sessions : WF_vars(ClientStep(s)) /\ WF_vars(HandlerStep(s))
-----------------------------------------------------------------------------
(* Properties. *)

\* Between requests the two ephemeral records of a key stem from the same
\* session.  The two puts are one unit only through the lock; a crash between
\* them, or a put whose error is swallowed, tears the pair.
EphPairWhole ==
    (Faults \cap {"put", "crash"} = {} /\ mutex = None) =>
        \A k \in Ids : Get(k, "EphEcKeyPair") = Get(k, "EphKeyGenFirstMsg")

\* Contending sessions can displace each other, but not all of them: when no
\* failure happens and all sessions of a generated key are over, one has signed
\* (unless a stray was among them, which can displace the others and fail).
SomeoneSigns ==
    Faults = {} => \A k \in Ids :
        LET contenders == {s \in Sessions : KeyOf[s] = k}
        IN  (/\ Get(k, "Party1MasterKey") # None
             /\ contenders # {} /\ contenders \cap Strays = {}
             /\ \A s \in contenders : client[s] \in {"signed", "failed"})
            => \E s \in contenders : client[s] = "signed"

\* A caller of `sign` gets a signature or an error, and no request holds the
\* others up for ever, whatever fails on the way.
EveryCallReturns ==
    \A s \in Sessions :
        client[s] \in {"first", "second"} ~> client[s] \in {"signed", "failed"}

\* The sessions implement the signing slots: the slot of a key is held by the
\* session that both its ephemeral records come from.
SlotHolder(k) ==
    IF Get(k, "EphEcKeyPair") = Get(k, "EphKeyGenFirstMsg")
    THEN Get(k, "EphEcKeyPair") ELSE None

SlotOfKey == [k \in Ids |-> SlotHolder(k)]

PastFirst == {s \in Sessions : client[s] # "idle" /\ handler[s] \notin FirstHandler}

SignedFor == {s \in Sessions : \E g \in released : g.session = s}

Slots == INSTANCE SigningSlot WITH
    Nobody <- None, slot <- SlotOfKey, entered <- PastFirst, signed <- SignedFor

\* Every step takes, misses or empties a slot, signs from it, or changes nothing
\* a session could notice: in particular a session displaced by another's first
\* request never signs.
SigningRefinesSlots == Slots!SlotSpec
=============================================================================
