------------------------------- MODULE KeyLife -------------------------------
(***************************************************************************)
(* What the server and its clients promise about keys, without requests,   *)
(* locks or records: the server makes its half of a key at most once, for  *)
(* that key, and never changes or forgets it; a client gets its half only  *)
(* after the server said it has the other; whoever signs with a key does   *)
(* so with both.                                                           *)
(***************************************************************************)
CONSTANTS
    Keys,       \* the keys that may be generated
    Nothing,    \* no half of a key
    Sessions,   \* the attempts to sign
    KeyOf,      \* the key each of them uses
    Lossy       \* TRUE: the server's half may be lost while it is made

VARIABLES
    half,       \* key -> the key generation the server's half is from, or Nothing
    told,       \* the keys whose client was told that the server has its half
    held,       \* the keys a client holds its half of
    signed      \* the attempts a signature was made for

keyVars == <<half, told, held, signed>>

KeyInit ==
    /\ half = [k \in Keys |-> Nothing]
    /\ told = {} /\ held = {} /\ signed = {}

\* The server makes its half and says so, if the client still listens.
MakeKey(k) ==
    /\ half[k] = Nothing
    /\ half' = [half EXCEPT ![k] = k]
    /\ told' \in {told, told \cup {k}}
    /\ UNCHANGED <<held, signed>>

\* It says so, but the half was lost.
LoseKey(k) ==
    /\ Lossy
    /\ half[k] = Nothing
    /\ told' = told \cup {k}
    /\ UNCHANGED <<half, held, signed>>

\* What was said is lost before the clients have their halves.
Untell ==
    /\ held \subseteq told' /\ told' \subseteq told
    /\ UNCHANGED <<half, held, signed>>

TakeShare(k) ==
    /\ k \in told
    /\ held' = held \cup {k}
    /\ UNCHANGED <<half, told, signed>>

SignWithBoth(s) ==
    /\ half[KeyOf[s]] = KeyOf[s] /\ KeyOf[s] \in held
    /\ signed' = signed \cup {s}
    /\ UNCHANGED <<half, told, held>>

KeyNext ==
    \/ \E k \in Keys : MakeKey(k) \/ LoseKey(k) \/ TakeShare(k)
    \/ Untell
    \/ \E s \in Sessions : SignWithBoth(s)

KeySpec == KeyInit /\ [][KeyNext]_keyVars
=============================================================================
