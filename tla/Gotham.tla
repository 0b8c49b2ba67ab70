-------------------------------- MODULE Gotham --------------------------------
(***************************************************************************)
(* The server with everything its clients do to it: key generations and    *)
(* signing sessions over one store and one lock (server.rs mounts all      *)
(* eight routes on one PublicGotham).  The routes take a signing under any *)
(* id at any time.  A caller that signs with a share of the id's own key   *)
(* has it from a key generation that ended well; a stray (say an app that  *)
(* passes the id of one wallet and the share of another to the bindings)   *)
(* may come before, while or after the key of its id is generated.  Here   *)
(* Sessions are the key generations, as in Keygen, and Signings the calls  *)
(* of `sign`.                                                              *)
(***************************************************************************)
EXTENDS Keygen

CONSTANTS
    Signings,       \* the calls of `sign`
    KeyOf,          \* the key generation whose id each of them signs under
    Strays,         \* the signings whose share is not one of that key
    MasterKey       \* for Signing; the records are those of Keygen here

VARIABLES
    signer, signing, answer, nonce1, nonce2, released

S == INSTANCE Signing WITH
    Sessions <- Signings, client <- signer, handler <- signing, reply <- answer

ASSUME GothamConstants ==
    /\ KeyOf \in [Signings -> Sessions]
    /\ Strays \subseteq Signings
    /\ Signings \subseteq Handlers
    /\ Sessions \cap Signings = {}       \* a request is of one protocol
    /\ Signings \subseteq Values
    /\ MasterKey \in Values \ Signings
    /\ S!SigningTables \subseteq Tables

keygenOnly == <<round, client, handler, reply>>
signOnly == <<signer, signing, answer, nonce1, nonce2, released>>
gothamVars == <<serverVars, keygenOnly, signOnly>>

GothamInit ==
    /\ Init
    /\ signer = [s \in Signings |-> "idle"]
    /\ signing = [s \in Signings |-> "none"]
    /\ answer = [s \in Signings |-> "none"]
    /\ nonce1 = [s \in Signings |-> None]
    /\ nonce2 = [s \in Signings |-> None]
    /\ released = {}

\* unit_test_key_gen_and_sign, create-wallet and send have a share first and then
\* call `sign`; a stray has the share of something else, and no reason to wait.
SignWithShare(s) == (s \in Strays \/ client[KeyOf[s]] = "done") /\ S!SendFirst(s)

GothamNext ==
    \/ /\ \E k \in Sessions : Begin(k) \/ TimeOut(k) \/ ClientStep(k) \/ HandlerStep(k)
       /\ UNCHANGED signOnly
    \/ /\ \E s \in Signings :
             SignWithShare(s) \/ S!TimeOut(s) \/ S!ClientStep(s) \/ S!HandlerStep(s)
       /\ UNCHANGED keygenOnly
    \/ Crash /\ S!Crash

GothamSpec == GothamInit /\ [][GothamNext]_gothamVars

FairGothamSpec ==
    /\ GothamSpec
    /\ \A k \in Sessions :
          /\ WF_gothamVars(ClientStep(k) /\ UNCHANGED signOnly)
          /\ WF_gothamVars(HandlerStep(k) /\ UNCHANGED signOnly)
    /\ \A s \in Signings :
          /\ WF_gothamVars(S!ClientStep(s) /\ UNCHANGED keygenOnly)
          /\ WF_gothamVars(S!HandlerStep(s) /\ UNCHANGED keygenOnly)

-----------------------------------------------------------------------------
(* Properties. *)

\* The key generations and the calls of `sign` implement the life of keys: what
\* the server can sign with, whom its last answer reached or may yet reach, what
\* clients have a share of, and what was signed.
ServerHalf == [k \in Sessions |-> Get(k, "Party1MasterKey")]
HeldKeys == {k \in Sessions : client[k] = "done"}
ToldKeys == HeldKeys \cup {k \in Sessions : round[k] = ChainSecond /\ reply[k] = "ok"}
SignedFor == {s \in Signings : \E g \in released : g.session = s}

Life == INSTANCE KeyLife WITH
    Keys <- Sessions, Nothing <- None, Sessions <- Signings,
    Lossy <- "put" \in Faults,
    half <- ServerHalf, told <- ToldKeys, held <- HeldKeys, signed <- SignedFor

\* No step of either protocol, and no restart, makes the server forget or replace
\* its half of a key or give one key the half of another; no client gets a share
\* before the last answer, nor after one whose half was not stored (unless a write
\* is lost); and nobody, stray or not, gets a signature from a key of which the
\* server or the client has not its half.
GothamImplementsKeyLife == Life!KeySpec

\* The store is shared, the tables are not: a signing never leaves anything in
\* the records of a key generation, nor the reverse.
TablesApart ==
    \A k \in Sessions :
        /\ \A t \in KeygenTables : Get(k, t) \in {k, None}
        /\ \A t \in S!SigningTables \ KeygenTables : Get(k, t) \in Signings \cup {None}

\* The signing slots stand: a key generation on the same store and lock neither
\* takes the slot of a key nor empties it, and lets nobody sign who lost it.
GothamKeepsSlots == S!SigningRefinesSlots

\* Whatever fails, every call of `sign` comes back, also while key generations
\* compete with it for the lock.
EverySigningReturns ==
    \A s \in Signings :
        signer[s] \in {"first", "second"} ~> signer[s] \in {"signed", "failed"}

\* Who signs under a generated key contends with the others of that key only:
\* without failures one of them signs, whatever keys are generated meanwhile and
\* however early a stray of another key comes.
SomeoneSigns == S!SomeoneSigns

\* The one lock keeps the two ephemeral records of a key those of one session,
\* with both protocols at work.
EphPairWhole == S!EphPairWhole
=============================================================================
