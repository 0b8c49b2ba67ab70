----------------------------- MODULE SigningSlot -----------------------------
(***************************************************************************)
(* What the two sign routes promise, without requests, locks or records:   *)
(* every master key has one signing slot.  A session takes the slot at     *)
(* most once, displacing whoever had it; only the session in the slot can  *)
(* sign, and a failure can empty a slot but never fill it.  So a displaced *)
(* session never signs: at most one attempt per key is alive at any time.  *)
(***************************************************************************)
CONSTANTS Sessions, Ids, KeyOf, Nobody

VARIABLES
    slot,       \* key -> the session that may sign with it, or Nobody
    entered,    \* the sessions whose attempt to take a slot is behind them
    signed      \* the sessions a signature was made for

slotVars == <<slot, entered, signed>>

SlotInit ==
    /\ slot = [k \in Ids |-> Nobody]
    /\ entered = {}
    /\ signed = {}

Enter(s) == s \notin entered /\ entered' = entered \cup {s}

\* The session takes its key's slot ...
Take(s) ==
    /\ Enter(s)
    /\ slot' = [slot EXCEPT ![KeyOf[s]] = s]
    /\ UNCHANGED signed

\* ... or fails to, leaving it as it was or empty.
Miss(s) ==
    /\ Enter(s)
    /\ slot' \in {slot, [slot EXCEPT ![KeyOf[s]] = Nobody]}
    /\ UNCHANGED signed

\* A newcomer is displacing the occupant.
Clear(k) ==
    /\ slot' = [slot EXCEPT ![k] = Nobody]
    /\ UNCHANGED <<entered, signed>>

\* Sessions lost before they took anything.
Abandon ==
    /\ entered \subseteq entered' /\ entered' \subseteq Sessions
    /\ UNCHANGED <<slot, signed>>

SignInSlot(s) ==
    /\ slot[KeyOf[s]] = s
    /\ signed' = signed \cup {s}
    /\ UNCHANGED <<slot, entered>>

SlotNext ==
    \/ Abandon
    \/ \E s \in Sessions : Take(s) \/ Miss(s) \/ SignInSlot(s)
    \/ \E k \in Ids : Clear(k)

SlotSpec == SlotInit /\ [][SlotNext]_slotVars
=============================================================================
