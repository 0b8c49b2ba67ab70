--------------------------- MODULE GothamSlotProofs ---------------------------
(* What is proved of Signing alone, carried over to the server with all its   *)
(* clients: key generations use the same store and the same lock, and take    *)
(* nothing of it away.                                                        *)
EXTENDS GothamProofs

P == INSTANCE SigningProofs WITH
    Sessions <- Signings, client <- signer, handler <- signing, reply <- answer

(***************************************************************************)
(* Gotham's Signing is an instance that its proofs are about.              *)
(***************************************************************************)

LEMMA SigningFits == P!SigningConstants /\ P!NoneIsNothing /\ P!FaultsKnown
<1>1. KeyOf \in [Signings -> Ids] /\ Signings \subseteq Handlers /\ Strays \subseteq Signings
  BY GothamConstants, KeygenConstants
<1>2. P!SigningTables \subseteq Tables /\ Signings \cup {MasterKey} \subseteq Values
      /\ MasterKey \notin Signings
  BY GothamConstants DEF P!SigningTables, S!SigningTables
<1>3. P!FaultsKnown
  BY FaultsKnown DEF P!FaultsKnown, FaultKinds, P!FaultKinds
<1> QED
  BY <1>1, <1>2, <1>3, NoneIsNothing DEF P!SigningConstants, P!NoneIsNothing

LEMMA InitIsSigningInit == GothamInit => P!Init
<1> SUFFICES ASSUME GothamInit PROVE P!Init
  OBVIOUS
<1>1. db = P!StoreAfterKeygen({})
  BY DEF GothamInit, Init, Identifiers, P!Identifiers, P!StoreAfterKeygen
<1> QED
  BY <1>1 DEF GothamInit, Init, P!Init

LEMMA SigningStepIsNext ==
    ASSUME NEW s \in Signings, SigningStep(s)
    PROVE  P!Next
<1>1. CASE SignWithShare(s) \/ S!TimeOut(s)
  BY <1>1 DEF SignWithShare, S!SendFirst, S!TimeOut, S!serverVars,
     P!Next, P!SendFirst, P!TimeOut, P!serverVars
<1>2. CASE S!ClientStep(s)
  BY <1>2 DEF S!ClientStep, S!SendSecond, S!ReceiveSignature, S!RequestFails, S!serverVars,
     P!Next, P!ClientStep, P!SendSecond, P!ReceiveSignature, P!RequestFails, P!serverVars
<1>3. CASE S!HandlerStep(s)
  <2>1. S!AcquireLock(s) => P!AcquireLock(s)
    BY DEF S!AcquireLock, S!Lock, P!AcquireLock, P!Lock
  <2>2. (S!PutMsg(s) => P!PutMsg(s)) /\ (S!PutKey(s) => P!PutKey(s))
    BY DEF S!PutMsg, S!PutKey, S!Insert, S!idify, S!Answer, S!Unlock,
       P!PutMsg, P!PutKey, P!Insert, P!idify, P!Answer, P!Unlock
  <2>3. /\ S!GetMasterKey(s) => P!GetMasterKey(s)
        /\ S!GetNonce1(s) => P!GetNonce1(s)
        /\ S!GetNonce2(s) => P!GetNonce2(s)
    BY DEF S!GetMasterKey, S!GetNonce1, S!GetNonce2, S!Get, S!idify, S!serverVars,
       P!GetMasterKey, P!GetNonce1, P!GetNonce2, P!Get, P!idify, P!serverVars
  <2>4. S!GetFails(s) => P!GetFails(s)
    BY DEF S!GetFails, S!Get, S!idify, S!GetMayPanic, S!Answer, S!Unlock,
       P!GetFails, P!Get, P!idify, P!GetMayPanic, P!Answer, P!Unlock
  <2>5. (S!Sign(s) => P!Sign(s)) /\ (S!Reject(s) => P!Reject(s))
    BY DEF S!Sign, S!Reject, S!Granted, S!CommitmentOpens, S!PartialFits, S!Answer, S!Unlock,
       P!Sign, P!Reject, P!Granted, P!CommitmentOpens, P!PartialFits, P!Answer, P!Unlock
  <2> QED
    BY <1>3, <2>1, <2>2, <2>3, <2>4, <2>5 DEF S!HandlerStep, P!HandlerStep, P!Next
<1> QED
  BY <1>1, <1>2, <1>3 DEF SigningStep

LEMMA CrashIsNext == S!Crash => P!Next
  BY DEF S!Crash, S!Reopen, P!Crash, P!Reopen, P!Next

(***************************************************************************)
(* The lock is one for both protocols: the handler of a key generation has *)
(* it exactly while it reads and writes.                                   *)
(***************************************************************************)

KeygenExclusion == \A k \in Sessions : handler[k] \in {"get", "put"} <=> mutex = k

LEMMA KeygenKeepsExclusion ==
    ASSUME KInv, KeygenExclusion, NEW k \in Sessions, KeygenStep(k)
    PROVE  /\ KeygenExclusion'
           /\ \/ UNCHANGED mutex
              \/ mutex = None /\ mutex' = k
              \/ mutex = k /\ mutex' = None
<1> USE KeygenConstants, NoneIsNothing
    DEF KInv, KeygenTypeOK, StoreTypeOK, KeygenExclusion, OneRequest
<1>1. CASE Begin(k) \/ Continue(k)
  BY <1>1 DEF Begin, Continue, Post, serverVars
<1>2. CASE Finish(k) \/ Panic(k) \/ TimeOut(k)
  BY <1>2 DEF Finish, Panic, TimeOut, GiveUp, serverVars
<1>3. CASE AcquireLock(k) \/ GetRecords(k)
  BY <1>3 DEF AcquireLock, GetRecords, Lock, serverVars
<1>4. CASE GetFails(k) \/ PutAndAnswer(k)
  <2>1. handler[k] \in {"get", "put"} /\ mutex' = None /\ handler' = [handler EXCEPT ![k] = "none"]
    BY <1>4 DEF GetFails, PutAndAnswer, Answer, Unlock
  <2> QED
    BY <2>1
<1> QED
  BY <1>1, <1>2, <1>3, <1>4 DEF KeygenStep, ClientStep, HandlerStep

LEMMA SigningKeepsKeygenExclusion ==
    ASSUME KInv, KeygenExclusion, P!Exclusion, UNCHANGED keygenOnly,
           NEW s \in Signings, SigningStep(s)
    PROVE  KeygenExclusion'
<1> USE KeygenConstants, GothamConstants, NoneIsNothing DEF KeygenExclusion, keygenOnly
<1>1. CASE SignWithShare(s) \/ S!TimeOut(s) \/ S!ClientStep(s)
  BY <1>1 DEF SignWithShare, S!SendFirst, S!TimeOut, S!ClientStep, S!SendSecond,
     S!ReceiveSignature, S!RequestFails, S!serverVars
<1>2. CASE S!AcquireLock(s)
  BY <1>2 DEF S!AcquireLock, S!Lock
<1>3. CASE S!PutMsg(s) \/ S!GetMasterKey(s) \/ S!GetNonce1(s) \/ S!GetNonce2(s)
  BY <1>3 DEF S!PutMsg, S!GetMasterKey, S!GetNonce1, S!GetNonce2, S!serverVars
<1>4. CASE S!PutKey(s) \/ S!GetFails(s) \/ S!Sign(s) \/ S!Reject(s)
  <2>1. signing[s] \in P!Critical /\ mutex' = None
    BY <1>4 DEF S!PutKey, S!GetFails, S!Sign, S!Reject, S!Answer, S!Unlock, P!Critical
  <2>2. mutex = s
    BY <2>1 DEF P!Exclusion
  <2> QED
    BY <2>1, <2>2
<1> QED
  BY <1>1, <1>2, <1>3, <1>4 DEF SigningStep, S!HandlerStep

(***************************************************************************)
(* What a key generation leaves alone.                                     *)
(***************************************************************************)

LEMMA KeygenLeavesPairs ==
    ASSUME KInv, NEW k \in Sessions, KeygenStep(k)
    PROVE  \A x \in Ids : P!Eph1(x)' = P!Eph1(x) /\ P!Eph2(x)' = P!Eph2(x)
<1>1. \A t \in SigningOnly : t \in Tables /\ \A r \in Rounds : t \notin Stored[r]
  BY TableFacts, StoredIsTable, GothamConstants DEF SigningOnly
<1>2. \A x \in Sessions, t \in SigningOnly : Rec(x, t)' = Rec(x, t)
  BY <1>1, RecordsGrow
<1> QED
  BY <1>2, KeygenConstants DEF SigningOnly, Rec, P!Eph1, P!Eph2

LEMMA KeygenKeepsSigning ==
    ASSUME GInv, KeygenExclusion, P!IInv, UNCHANGED signOnly, NEW k \in Sessions, KeygenStep(k)
    PROVE  P!IInv'
<1> USE KeygenLeavesPairs, SigningFits DEF GInv, P!IInv
<1>1. UNCHANGED <<signer, signing, answer, nonce1, nonce2, released>>
  BY DEF signOnly
<1>2. \A s \in Signings : KeyOf[s] \in Ids
  BY GothamConstants, KeygenConstants
<1>3. P!TypeOK'
  <2>1. StoreTypeOK'
    BY KeygenFrame DEF KeygenTypeOK
  <2> QED
    BY <1>1, <2>1 DEF P!TypeOK, P!StoreTypeOK, StoreTypeOK, P!Identifiers, Identifiers
<1>4. P!Exclusion'
  <2>1. mutex' = mutex \/ (mutex = None /\ mutex' = k) \/ (mutex = k /\ mutex' = None)
    BY KeygenKeepsExclusion
  <2>2. None \notin Signings /\ k \notin Signings
    BY GothamConstants, NoneIsNothing
  <2> QED
    BY <1>1, <2>1, <2>2 DEF P!Exclusion
<1>5. P!EphRecordsTyped' /\ P!NoPairYet' /\ P!ReadsCurrent' /\ P!PairInWork'
  BY <1>1, <1>2 DEF P!EphRecordsTyped, P!NoPairYet, P!ReadsCurrent, P!PairInWork, P!PastFirst
<1>6. P!OneRequest'
  BY <1>1 DEF P!OneRequest
<1> QED
  BY <1>3, <1>4, <1>5, <1>6

\* Who signs and is no stray has a share, so its key was generated before: a key
\* generation that ends brings no signer of its key who has lost already, unless a
\* stray came too early.
LEMMA KeygenKeepsContention ==
    ASSUME GInv, P!RequestsFit, P!SomeoneWins, UNCHANGED signOnly,
           NEW k \in Sessions, KeygenStep(k)
    PROVE  P!RequestsFit' /\ P!SomeoneWins'
<1>1. UNCHANGED <<signer, signing, answer, nonce1, nonce2, released>>
  BY DEF signOnly
<1>2. \A s \in Signings : KeyOf[s] \in Ids /\ KeyOf[s] \in Sessions
  BY GothamConstants, KeygenConstants
<1>3. P!RequestsFit'
  BY <1>1 DEF P!RequestsFit
<1>4. ASSUME Faults = {}, NEW s \in Signings, P!NoStray(KeyOf[s]), signer[s] # "idle"
      PROVE  \E w \in Signings : KeyOf[w] = KeyOf[s] /\ P!Winning(w)'
  <2>1. client[KeyOf[s]] = "done"
    BY <1>4 DEF GInv, SignerHasShare, P!NoStray
  <2>2. P!Generated(KeyOf[s])
    BY <1>2, <1>4, <2>1 DEF GInv, KInv, DoneIsLast, LastIsKept, P!Generated, Rec
  <2>3. PICK w \in Signings : KeyOf[w] = KeyOf[s] /\ P!Winning(w)
    BY <1>4, <2>2 DEF P!SomeoneWins
  <2>4. P!Winning(w)'
    <3>1. P!Eph1(KeyOf[w])' = P!Eph1(KeyOf[w]) /\ P!Eph2(KeyOf[w])' = P!Eph2(KeyOf[w])
      BY <1>2, KeygenLeavesPairs DEF GInv
    <3> QED
      BY <1>1, <2>3, <3>1 DEF P!Winning, P!OwnPair
  <2> QED
    BY <2>3, <2>4
<1>5. P!SomeoneWins'
  BY <1>1, <1>4 DEF P!SomeoneWins
<1> QED
  BY <1>3, <1>5

(***************************************************************************)
(* The invariant of the composition, and the theorems.                     *)
(***************************************************************************)

SInv == GInv /\ KeygenExclusion /\ P!IInv /\ P!RequestsFit /\ P!SomeoneWins

LEMMA InitSInv == GothamInit => SInv
<1> SUFFICES ASSUME GothamInit PROVE SInv
  OBVIOUS
<1>1. P!IInv
  BY SigningFits, InitIsSigningInit, P!InitIInv
<1>2. P!RequestsFit /\ P!SomeoneWins
  BY DEF GothamInit, P!RequestsFit, P!SomeoneWins, P!FirstHandler, P!SecondHandler
<1>3. KeygenExclusion
  BY KeygenConstants, NoneIsNothing DEF GothamInit, Init, KeygenExclusion
<1> QED
  BY <1>1, <1>2, <1>3, InitGInv DEF SInv

\* A step of Signing keeps what was proved of Signing.
LEMMA NextKeepsSigning ==
    ASSUME SInv, [P!Next]_(P!vars)
    PROVE  P!IInv' /\ P!RequestsFit' /\ P!SomeoneWins'
  BY SigningFits, P!StepIInv, P!RequestsFitStep, P!SomeoneWinsStep DEF SInv

LEMMA NextKeepsSInv == SInv /\ [GothamNext]_gothamVars => SInv'
<1> SUFFICES ASSUME SInv, [GothamNext]_gothamVars PROVE SInv'
  OBVIOUS
<1>1. GInv'
  BY NextKeepsGInv DEF SInv
<1>2. ASSUME NEW k \in Sessions, KeygenStep(k), UNCHANGED signOnly PROVE SInv'
  BY <1>1, <1>2, KeygenKeepsExclusion, KeygenKeepsSigning, KeygenKeepsContention DEF SInv, GInv
<1>3. ASSUME NEW s \in Signings, SigningStep(s), UNCHANGED keygenOnly PROVE SInv'
  <2>1. KeygenExclusion'
    BY <1>3, SigningKeepsKeygenExclusion DEF SInv, GInv, P!IInv
  <2> QED
    BY <1>1, <1>3, <2>1, SigningStepIsNext, NextKeepsSigning DEF SInv
<1>4. ASSUME Crash, S!Crash PROVE SInv'
  <2>1. KeygenExclusion'
    BY <1>4, KeygenConstants, NoneIsNothing DEF Crash, Reopen, KeygenExclusion
  <2> QED
    BY <1>1, <1>4, <2>1, CrashIsNext, NextKeepsSigning DEF SInv
<1>5. ASSUME UNCHANGED gothamVars PROVE SInv'
  <2>1. KeygenExclusion' /\ UNCHANGED P!vars
    BY <1>5 DEF gothamVars, serverVars, keygenOnly, signOnly, SInv, KeygenExclusion, P!vars
  <2> QED
    BY <1>1, <2>1, NextKeepsSigning DEF SInv
<1> QED
  BY <1>2, <1>3, <1>4, <1>5 DEF GothamNext, KeygenStep, SigningStep

LEMMA SInvariance == GothamSpec => []SInv
  BY InitSInv, NextKeepsSInv, PTL DEF GothamSpec

\* The lock keeps the pair of a key together although key generations take turns
\* with it, as long as every put is kept and the server does not die between two.
THEOREM PairSafetyOfGotham == GothamSpec => []EphPairWhole
<1>1. SInv => EphPairWhole
  <2>1. SInv => P!EphPairWhole
    BY SigningFits, P!PairsFromInv DEF SInv
  <2> QED
    BY <2>1 DEF EphPairWhole, P!EphPairWhole, S!EphPairWhole, P!Get, S!Get, P!idify, S!idify
<1> QED
  BY <1>1, SInvariance, PTL

\* Contending calls of `sign` never all fail on a server without failures, even
\* while it generates other keys, and strays of those come too early.
THEOREM ContentionSafetyOfGotham == GothamSpec => []SomeoneSigns
<1>1. SInv => SomeoneSigns
  <2>1. SInv => P!SomeoneSigns
    BY SigningFits, P!WinnerSigns DEF SInv
  <2> QED
    BY <2>1 DEF SomeoneSigns, P!SomeoneSigns, S!SomeoneSigns, P!Get, S!Get, P!idify, S!idify
<1> QED
  BY <1>1, SInvariance, PTL

(***************************************************************************)
(* The refinement: a key generation takes no slot and empties none.        *)
(***************************************************************************)

LEMMA SameSlots ==
    /\ P!SlotOfKey = S!SlotOfKey /\ P!PastFirst = S!PastFirst /\ P!SignedFor = S!SignedFor
  BY DEF P!SlotOfKey, P!PastFirst, P!SignedFor, P!SlotHolder, P!Get, P!idify, P!FirstHandler,
     S!SlotOfKey, S!PastFirst, S!SignedFor, S!SlotHolder, S!Get, S!idify, S!FirstHandler

LEMMA InitTakesNoSlot == GothamInit => S!Slots!SlotInit
<1>1. P!Slots!SlotInit => S!Slots!SlotInit
  BY SameSlots DEF P!Slots!SlotInit, S!Slots!SlotInit
<1> QED
  BY <1>1, SigningFits, InitIsSigningInit, P!InitRefines

LEMMA SigningStepIsSlotStep ==
    [P!Slots!SlotNext]_(P!Slots!slotVars) => [S!Slots!SlotNext]_(S!Slots!slotVars)
  BY DEF P!Slots!SlotNext, P!Slots!slotVars, P!Slots!Take, P!Slots!Miss, P!Slots!Enter,
     P!Slots!SignInSlot, P!Slots!Clear, P!Slots!Abandon,
     P!SlotOfKey, P!PastFirst, P!SignedFor, P!SlotHolder, P!Get, P!idify, P!FirstHandler,
     S!Slots!SlotNext, S!Slots!slotVars, S!Slots!Take, S!Slots!Miss, S!Slots!Enter,
     S!Slots!SignInSlot, S!Slots!Clear, S!Slots!Abandon,
     S!SlotOfKey, S!PastFirst, S!SignedFor, S!SlotHolder, S!Get, S!idify, S!FirstHandler

LEMMA KeygenLeavesSlots ==
    ASSUME SInv, UNCHANGED signOnly, NEW k \in Sessions, KeygenStep(k)
    PROVE  UNCHANGED S!Slots!slotVars
<1>1. \A x \in Ids : P!Eph1(x)' = P!Eph1(x) /\ P!Eph2(x)' = P!Eph2(x)
  BY KeygenLeavesPairs DEF SInv, GInv
<1>2. UNCHANGED S!SlotOfKey
  BY <1>1 DEF S!SlotOfKey, S!SlotHolder, S!Get, S!idify, P!Eph1, P!Eph2
<1>3. UNCHANGED S!PastFirst /\ UNCHANGED S!SignedFor
  BY DEF signOnly, S!PastFirst, S!SignedFor
<1> QED
  BY <1>2, <1>3 DEF S!Slots!slotVars

LEMMA GothamStepIsSlotStep ==
    SInv /\ [GothamNext]_gothamVars => [S!Slots!SlotNext]_(S!Slots!slotVars)
<1> SUFFICES ASSUME SInv, [GothamNext]_gothamVars PROVE [S!Slots!SlotNext]_(S!Slots!slotVars)
  OBVIOUS
<1>1. ASSUME [P!Next]_(P!vars) PROVE [S!Slots!SlotNext]_(S!Slots!slotVars)
  BY <1>1, SigningFits, P!StepRefines, SigningStepIsSlotStep DEF SInv
<1>2. ASSUME NEW k \in Sessions, KeygenStep(k), UNCHANGED signOnly
      PROVE  [S!Slots!SlotNext]_(S!Slots!slotVars)
  BY <1>2, KeygenLeavesSlots
<1>3. ASSUME NEW s \in Signings, SigningStep(s) PROVE P!Next
  BY <1>3, SigningStepIsNext
<1>4. ASSUME UNCHANGED gothamVars PROVE UNCHANGED P!vars
  BY <1>4 DEF gothamVars, serverVars, signOnly, P!vars
<1> QED
  BY <1>1, <1>2, <1>3, <1>4, CrashIsNext DEF GothamNext, KeygenStep, SigningStep

\* The signing slots of the keys are what Signing alone promises, with their keys
\* generated and others being generated on the same server.
THEOREM SlotRefinementOfGotham == GothamSpec => GothamKeepsSlots
  BY InitTakesNoSlot, GothamStepIsSlotStep, SInvariance, PTL
  DEF GothamSpec, GothamKeepsSlots, S!SigningRefinesSlots, S!Slots!SlotSpec
===============================================================================
