---------------------------- MODULE SigningProofs ----------------------------
(* What holds of Signing for every set of sessions, keys and faults. *)
EXTENDS Signing, TLAPS

Eph1(k) == db[<<k, "EphEcKeyPair">>]
Eph2(k) == db[<<k, "EphKeyGenFirstMsg">>]

Critical == {"first_put_msg", "first_put_key", "second_get_key",
             "second_get_nonce1", "second_get_nonce2", "second_sign"}

(***************************************************************************)
(* The inductive invariant.                                                *)
(***************************************************************************)

\* The ephemeral records of a key only ever hold nonces.
EphRecordsTyped ==
    \A k \in Ids : Eph1(k) \in Sessions \cup {None} /\ Eph2(k) \in Sessions \cup {None}

\* Exactly the holder of the lock is inside a handler.
Exclusion == \A s \in Sessions : handler[s] \in Critical <=> mutex = s

\* A request is in work only for a session that was started, and its answer
\* comes when the work is over.
OneRequest ==
    \A s \in Sessions :
        /\ client[s] = "idle" => handler[s] = "none" /\ reply[s] = "none"
        /\ reply[s] # "none" => handler[s] = "none"

\* A session whose first handler has not ended has stored no key pair.
NoPairYet == \A s \in Sessions : s \notin PastFirst => Eph1(KeyOf[s]) # s

\* What the second handler has read is still what the store holds.
ReadsCurrent ==
    \A s \in Sessions :
        /\ handler[s] \in {"second_get_nonce2", "second_sign"} => nonce1[s] = Eph1(KeyOf[s])
        /\ handler[s] = "second_sign" => nonce2[s] = Eph2(KeyOf[s])

\* Without torn writes a pair differs only while the handler that replaces it
\* is between its two puts.
PairInWork ==
    Faults \cap {"put", "crash"} = {} =>
        /\ \A s \in Sessions : handler[s] = "first_put_key" => Eph2(KeyOf[s]) = s
        /\ \A k \in Ids : (\A s \in Sessions : handler[s] = "first_put_key" => KeyOf[s] # k)
                          => Eph1(k) = Eph2(k)

IInv ==
    /\ TypeOK /\ EphRecordsTyped /\ Exclusion /\ OneRequest /\ NoPairYet
    /\ ReadsCurrent /\ PairInWork

(***************************************************************************)
(* It holds initially, and every step keeps each of its parts.             *)
(***************************************************************************)

LEMMA InitIInv == Init => IInv
<1> SUFFICES ASSUME Init PROVE IInv
  OBVIOUS
<1> USE SigningConstants, NoneIsNothing
<1>1. TypeOK
  BY DEF Init, TypeOK, StoreTypeOK, StoreAfterKeygen, Identifiers, ClientStates, Replies
<1>2. \A k \in Ids : Eph1(k) = None /\ Eph2(k) = None
  BY DEF Init, StoreAfterKeygen, Identifiers, SigningTables, Eph1, Eph2
<1>3. EphRecordsTyped /\ NoPairYet
  BY <1>2 DEF EphRecordsTyped, NoPairYet
<1>4. Exclusion /\ OneRequest /\ ReadsCurrent
  BY DEF Init, Exclusion, Critical, OneRequest, ReadsCurrent
<1>5. PairInWork
  BY <1>2 DEF Init, PairInWork
<1> QED
  BY <1>1, <1>3, <1>4, <1>5 DEF IInv

\* Types, with the ephemeral records holding nonces only.
LEMMA TypeStep ==
    TypeOK /\ EphRecordsTyped /\ [Next]_vars => (TypeOK /\ EphRecordsTyped)'
<1> SUFFICES ASSUME TypeOK, EphRecordsTyped, [Next]_vars
             PROVE (TypeOK /\ EphRecordsTyped)'
  OBVIOUS
<1> USE SigningConstants, NoneIsNothing DEF TypeOK, StoreTypeOK, Identifiers, SigningTables,
            ClientStates, FirstHandler, SecondHandler, Replies,
            EphRecordsTyped, Eph1, Eph2, serverVars
<1>1. ASSUME NEW s \in Sessions, SendFirst(s) PROVE (TypeOK /\ EphRecordsTyped)'
  BY <1>1 DEF SendFirst
<1>2. ASSUME NEW s \in Sessions, TimeOut(s) PROVE (TypeOK /\ EphRecordsTyped)'
  BY <1>2 DEF TimeOut
<1>3. ASSUME NEW s \in Sessions, SendSecond(s) PROVE (TypeOK /\ EphRecordsTyped)'
  BY <1>3 DEF SendSecond
<1>4. ASSUME NEW s \in Sessions, ReceiveSignature(s) PROVE (TypeOK /\ EphRecordsTyped)'
  BY <1>4 DEF ReceiveSignature
<1>5. ASSUME NEW s \in Sessions, RequestFails(s) PROVE (TypeOK /\ EphRecordsTyped)'
  BY <1>5 DEF RequestFails
<1>6. ASSUME NEW s \in Sessions, AcquireLock(s) PROVE (TypeOK /\ EphRecordsTyped)'
  BY <1>6 DEF AcquireLock, Lock
<1>7. ASSUME NEW s \in Sessions, PutMsg(s) PROVE (TypeOK /\ EphRecordsTyped)'
  BY <1>7 DEF PutMsg, Insert, idify
<1>8. ASSUME NEW s \in Sessions, PutKey(s) PROVE (TypeOK /\ EphRecordsTyped)'
  <2>1. mutex' = None /\ handler' = [handler EXCEPT ![s] = "none"]
    BY <1>8 DEF PutKey, Answer, Unlock
  <2>2. reply' \in [Sessions -> Replies]
    BY <1>8 DEF PutKey, Answer
  <2>3. db' \in [Identifiers -> Values \cup {None}] /\ EphRecordsTyped'
    BY <1>8 DEF PutKey, Insert, idify
  <2> QED
    BY <1>8, <2>1, <2>2, <2>3 DEF PutKey
<1>9. ASSUME NEW s \in Sessions, GetMasterKey(s) PROVE (TypeOK /\ EphRecordsTyped)'
  BY <1>9 DEF GetMasterKey
<1>10. ASSUME NEW s \in Sessions, GetNonce1(s) PROVE (TypeOK /\ EphRecordsTyped)'
  BY <1>10 DEF GetNonce1, Get, idify
<1>11. ASSUME NEW s \in Sessions, GetNonce2(s) PROVE (TypeOK /\ EphRecordsTyped)'
  BY <1>11 DEF GetNonce2, Get, idify
<1>12. ASSUME NEW s \in Sessions, GetFails(s) PROVE (TypeOK /\ EphRecordsTyped)'
  BY <1>12 DEF GetFails, Answer, Unlock
<1>13. ASSUME NEW s \in Sessions, Sign(s) PROVE (TypeOK /\ EphRecordsTyped)'
  BY <1>13 DEF Sign, Answer, Unlock, Signatures, CommitmentOpens, PartialFits
<1>14. ASSUME NEW s \in Sessions, Reject(s) PROVE (TypeOK /\ EphRecordsTyped)'
  BY <1>14 DEF Reject, Answer, Unlock
<1>15. ASSUME Crash PROVE (TypeOK /\ EphRecordsTyped)'
  BY <1>15 DEF Crash, Reopen
<1>16. ASSUME UNCHANGED vars PROVE (TypeOK /\ EphRecordsTyped)'
  BY <1>16 DEF vars
<1> QED
  BY <1>1, <1>2, <1>3, <1>4, <1>5, <1>6, <1>7, <1>8,
     <1>9, <1>10, <1>11, <1>12, <1>13, <1>14, <1>15, <1>16
  DEF Next, ClientStep, HandlerStep

\* The lock: who is inside a handler holds it.
LEMMA ExclusionStep ==
    TypeOK /\ OneRequest /\ Exclusion /\ [Next]_vars => Exclusion'
<1> SUFFICES ASSUME TypeOK, OneRequest, Exclusion, [Next]_vars
             PROVE Exclusion'
  OBVIOUS
<1> USE SigningConstants, NoneIsNothing DEF TypeOK, StoreTypeOK, OneRequest, Exclusion, Critical,
            FirstHandler, SecondHandler, serverVars
<1>1. ASSUME NEW s \in Sessions, SendFirst(s) PROVE Exclusion'
  BY <1>1 DEF SendFirst
<1>2. ASSUME NEW s \in Sessions, TimeOut(s) PROVE Exclusion'
  BY <1>2 DEF TimeOut
<1>3. ASSUME NEW s \in Sessions, SendSecond(s) PROVE Exclusion'
  BY <1>3 DEF SendSecond
<1>4. ASSUME NEW s \in Sessions, ReceiveSignature(s) PROVE Exclusion'
  BY <1>4 DEF ReceiveSignature
<1>5. ASSUME NEW s \in Sessions, RequestFails(s) PROVE Exclusion'
  BY <1>5 DEF RequestFails
<1>6. ASSUME NEW s \in Sessions, AcquireLock(s) PROVE Exclusion'
  BY <1>6 DEF AcquireLock, Lock
<1>7. ASSUME NEW s \in Sessions, PutMsg(s) PROVE Exclusion'
  BY <1>7 DEF PutMsg, Insert, idify
<1>8. ASSUME NEW s \in Sessions, PutKey(s) PROVE Exclusion'
  BY <1>8 DEF PutKey, Insert, idify, Answer, Unlock
<1>9. ASSUME NEW s \in Sessions, GetMasterKey(s) PROVE Exclusion'
  BY <1>9 DEF GetMasterKey
<1>10. ASSUME NEW s \in Sessions, GetNonce1(s) PROVE Exclusion'
  BY <1>10 DEF GetNonce1, Get, idify
<1>11. ASSUME NEW s \in Sessions, GetNonce2(s) PROVE Exclusion'
  BY <1>11 DEF GetNonce2, Get, idify
<1>12. ASSUME NEW s \in Sessions, GetFails(s) PROVE Exclusion'
  BY <1>12 DEF GetFails, Answer, Unlock
<1>13. ASSUME NEW s \in Sessions, Sign(s) PROVE Exclusion'
  BY <1>13 DEF Sign, Answer, Unlock, Signatures, CommitmentOpens, PartialFits
<1>14. ASSUME NEW s \in Sessions, Reject(s) PROVE Exclusion'
  BY <1>14 DEF Reject, Answer, Unlock
<1>15. ASSUME Crash PROVE Exclusion'
  BY <1>15 DEF Crash, Reopen
<1>16. ASSUME UNCHANGED vars PROVE Exclusion'
  BY <1>16 DEF vars
<1> QED
  BY <1>1, <1>2, <1>3, <1>4, <1>5, <1>6, <1>7, <1>8,
     <1>9, <1>10, <1>11, <1>12, <1>13, <1>14, <1>15, <1>16
  DEF Next, ClientStep, HandlerStep

\* One request per session at a time.
LEMMA OneRequestStep == TypeOK /\ OneRequest /\ [Next]_vars => OneRequest'
<1> SUFFICES ASSUME TypeOK, OneRequest, [Next]_vars
             PROVE OneRequest'
  OBVIOUS
<1> USE SigningConstants, NoneIsNothing DEF TypeOK, OneRequest, ClientStates,
            FirstHandler, SecondHandler, Replies
<1>1. ASSUME NEW s \in Sessions, SendFirst(s) PROVE OneRequest'
  BY <1>1 DEF SendFirst
<1>2. ASSUME NEW s \in Sessions, TimeOut(s) PROVE OneRequest'
  BY <1>2 DEF TimeOut
<1>3. ASSUME NEW s \in Sessions, SendSecond(s) PROVE OneRequest'
  BY <1>3 DEF SendSecond
<1>4. ASSUME NEW s \in Sessions, ReceiveSignature(s) PROVE OneRequest'
  BY <1>4 DEF ReceiveSignature
<1>5. ASSUME NEW s \in Sessions, RequestFails(s) PROVE OneRequest'
  BY <1>5 DEF RequestFails
<1>6. ASSUME NEW s \in Sessions, AcquireLock(s) PROVE OneRequest'
  BY <1>6 DEF AcquireLock, Lock
<1>7. ASSUME NEW s \in Sessions, PutMsg(s) PROVE OneRequest'
  BY <1>7 DEF PutMsg, Insert, idify
<1>8. ASSUME NEW s \in Sessions, PutKey(s) PROVE OneRequest'
  BY <1>8 DEF PutKey, Insert, idify, Answer, Unlock
<1>9. ASSUME NEW s \in Sessions, GetMasterKey(s) PROVE OneRequest'
  BY <1>9 DEF GetMasterKey
<1>10. ASSUME NEW s \in Sessions, GetNonce1(s) PROVE OneRequest'
  BY <1>10 DEF GetNonce1, Get, idify
<1>11. ASSUME NEW s \in Sessions, GetNonce2(s) PROVE OneRequest'
  BY <1>11 DEF GetNonce2, Get, idify
<1>12. ASSUME NEW s \in Sessions, GetFails(s) PROVE OneRequest'
  BY <1>12 DEF GetFails, Answer, Unlock
<1>13. ASSUME NEW s \in Sessions, Sign(s) PROVE OneRequest'
  BY <1>13 DEF Sign, Answer, Unlock, Signatures, CommitmentOpens, PartialFits
<1>14. ASSUME NEW s \in Sessions, Reject(s) PROVE OneRequest'
  BY <1>14 DEF Reject, Answer, Unlock
<1>15. ASSUME Crash PROVE OneRequest'
  BY <1>15 DEF Crash, Reopen
<1>16. ASSUME UNCHANGED vars PROVE OneRequest'
  BY <1>16 DEF vars
<1> QED
  BY <1>1, <1>2, <1>3, <1>4, <1>5, <1>6, <1>7, <1>8,
     <1>9, <1>10, <1>11, <1>12, <1>13, <1>14, <1>15, <1>16
  DEF Next, ClientStep, HandlerStep

\* A key pair is stored at the very end of the first handler.
LEMMA NoPairYetStep ==
    TypeOK /\ OneRequest /\ NoPairYet /\ [Next]_vars => NoPairYet'
<1> SUFFICES ASSUME TypeOK, OneRequest, NoPairYet, [Next]_vars
             PROVE NoPairYet'
  OBVIOUS
<1> USE SigningConstants, NoneIsNothing DEF TypeOK, StoreTypeOK, Identifiers, SigningTables, NoPairYet,
            OneRequest, PastFirst, FirstHandler, SecondHandler, ClientStates, Eph1, serverVars
<1>1. ASSUME NEW s \in Sessions, SendFirst(s) PROVE NoPairYet'
  BY <1>1 DEF SendFirst
<1>2. ASSUME NEW s \in Sessions, TimeOut(s) PROVE NoPairYet'
  BY <1>2 DEF TimeOut
<1>3. ASSUME NEW s \in Sessions, SendSecond(s) PROVE NoPairYet'
  BY <1>3 DEF SendSecond
<1>4. ASSUME NEW s \in Sessions, ReceiveSignature(s) PROVE NoPairYet'
  BY <1>4 DEF ReceiveSignature
<1>5. ASSUME NEW s \in Sessions, RequestFails(s) PROVE NoPairYet'
  BY <1>5 DEF RequestFails
<1>6. ASSUME NEW s \in Sessions, AcquireLock(s) PROVE NoPairYet'
  BY <1>6 DEF AcquireLock, Lock
<1>7. ASSUME NEW s \in Sessions, PutMsg(s) PROVE NoPairYet'
  BY <1>7 DEF PutMsg, Insert, idify
<1>8. ASSUME NEW s \in Sessions, PutKey(s) PROVE NoPairYet'
  <2> SUFFICES ASSUME NEW x \in Sessions, x \notin PastFirst' PROVE Eph1(KeyOf[x])' # x
    OBVIOUS
  <2>1. client' = client /\ handler' = [handler EXCEPT ![s] = "none"]
    BY <1>8 DEF PutKey, Answer
  <2>2. x # s /\ x \notin PastFirst
    BY <1>8, <2>1 DEF PutKey
  <2>3. Eph1(KeyOf[x])' \in {Eph1(KeyOf[x]), s}
    BY <1>8 DEF PutKey, Insert, idify
  <2> QED
    BY <2>2, <2>3
<1>9. ASSUME NEW s \in Sessions, GetMasterKey(s) PROVE NoPairYet'
  BY <1>9 DEF GetMasterKey
<1>10. ASSUME NEW s \in Sessions, GetNonce1(s) PROVE NoPairYet'
  BY <1>10 DEF GetNonce1, Get, idify
<1>11. ASSUME NEW s \in Sessions, GetNonce2(s) PROVE NoPairYet'
  BY <1>11 DEF GetNonce2, Get, idify
<1>12. ASSUME NEW s \in Sessions, GetFails(s) PROVE NoPairYet'
  BY <1>12 DEF GetFails, Answer, Unlock
<1>13. ASSUME NEW s \in Sessions, Sign(s) PROVE NoPairYet'
  BY <1>13 DEF Sign, Answer, Unlock, Signatures, CommitmentOpens, PartialFits
<1>14. ASSUME NEW s \in Sessions, Reject(s) PROVE NoPairYet'
  BY <1>14 DEF Reject, Answer, Unlock
<1>15. ASSUME Crash PROVE NoPairYet'
  BY <1>15 DEF Crash, Reopen
<1>16. ASSUME UNCHANGED vars PROVE NoPairYet'
  BY <1>16 DEF vars
<1> QED
  BY <1>1, <1>2, <1>3, <1>4, <1>5, <1>6, <1>7, <1>8,
     <1>9, <1>10, <1>11, <1>12, <1>13, <1>14, <1>15, <1>16
  DEF Next, ClientStep, HandlerStep

\* Nobody writes a record while its reader holds the lock.
LEMMA ReadsCurrentStep ==
    TypeOK /\ Exclusion /\ ReadsCurrent /\ [Next]_vars => ReadsCurrent'
<1> SUFFICES ASSUME TypeOK, Exclusion, ReadsCurrent, [Next]_vars
             PROVE ReadsCurrent'
  OBVIOUS
<1> USE SigningConstants, NoneIsNothing DEF TypeOK, StoreTypeOK, Identifiers, SigningTables,
            Exclusion, Critical, ReadsCurrent, Eph1, Eph2, serverVars
<1>1. ASSUME NEW s \in Sessions, SendFirst(s) PROVE ReadsCurrent'
  BY <1>1 DEF SendFirst
<1>2. ASSUME NEW s \in Sessions, TimeOut(s) PROVE ReadsCurrent'
  BY <1>2 DEF TimeOut
<1>3. ASSUME NEW s \in Sessions, SendSecond(s) PROVE ReadsCurrent'
  BY <1>3 DEF SendSecond
<1>4. ASSUME NEW s \in Sessions, ReceiveSignature(s) PROVE ReadsCurrent'
  BY <1>4 DEF ReceiveSignature
<1>5. ASSUME NEW s \in Sessions, RequestFails(s) PROVE ReadsCurrent'
  BY <1>5 DEF RequestFails
<1>6. ASSUME NEW s \in Sessions, AcquireLock(s) PROVE ReadsCurrent'
  BY <1>6 DEF AcquireLock, Lock
<1>7. ASSUME NEW s \in Sessions, PutMsg(s) PROVE ReadsCurrent'
  BY <1>7 DEF PutMsg, Insert, idify
<1>8. ASSUME NEW s \in Sessions, PutKey(s) PROVE ReadsCurrent'
  BY <1>8 DEF PutKey, Insert, idify, Answer, Unlock
<1>9. ASSUME NEW s \in Sessions, GetMasterKey(s) PROVE ReadsCurrent'
  BY <1>9 DEF GetMasterKey
<1>10. ASSUME NEW s \in Sessions, GetNonce1(s) PROVE ReadsCurrent'
  BY <1>10 DEF GetNonce1, Get, idify
<1>11. ASSUME NEW s \in Sessions, GetNonce2(s) PROVE ReadsCurrent'
  BY <1>11 DEF GetNonce2, Get, idify
<1>12. ASSUME NEW s \in Sessions, GetFails(s) PROVE ReadsCurrent'
  BY <1>12 DEF GetFails, Answer, Unlock
<1>13. ASSUME NEW s \in Sessions, Sign(s) PROVE ReadsCurrent'
  BY <1>13 DEF Sign, Answer, Unlock, Signatures, CommitmentOpens, PartialFits
<1>14. ASSUME NEW s \in Sessions, Reject(s) PROVE ReadsCurrent'
  BY <1>14 DEF Reject, Answer, Unlock
<1>15. ASSUME Crash PROVE ReadsCurrent'
  BY <1>15 DEF Crash, Reopen
<1>16. ASSUME UNCHANGED vars PROVE ReadsCurrent'
  BY <1>16 DEF vars
<1> QED
  BY <1>1, <1>2, <1>3, <1>4, <1>5, <1>6, <1>7, <1>8,
     <1>9, <1>10, <1>11, <1>12, <1>13, <1>14, <1>15, <1>16
  DEF Next, ClientStep, HandlerStep

\* Only the holder of the lock replaces a pair.
LEMMA PairInWorkStep ==
    TypeOK /\ OneRequest /\ Exclusion /\ PairInWork /\ [Next]_vars => PairInWork'
<1> SUFFICES ASSUME TypeOK, OneRequest, Exclusion, PairInWork, [Next]_vars
             PROVE PairInWork'
  OBVIOUS
<1> USE SigningConstants, NoneIsNothing DEF TypeOK, StoreTypeOK, Identifiers, SigningTables,
            OneRequest, Exclusion, Critical, PairInWork, Eph1, Eph2, serverVars
<1>1. ASSUME NEW s \in Sessions, SendFirst(s) PROVE PairInWork'
  BY <1>1 DEF SendFirst
<1>2. ASSUME NEW s \in Sessions, TimeOut(s) PROVE PairInWork'
  BY <1>2 DEF TimeOut
<1>3. ASSUME NEW s \in Sessions, SendSecond(s) PROVE PairInWork'
  BY <1>3 DEF SendSecond
<1>4. ASSUME NEW s \in Sessions, ReceiveSignature(s) PROVE PairInWork'
  BY <1>4 DEF ReceiveSignature
<1>5. ASSUME NEW s \in Sessions, RequestFails(s) PROVE PairInWork'
  BY <1>5 DEF RequestFails
<1>6. ASSUME NEW s \in Sessions, AcquireLock(s) PROVE PairInWork'
  BY <1>6 DEF AcquireLock, Lock
<1>7. ASSUME NEW s \in Sessions, PutMsg(s) PROVE PairInWork'
  <2> SUFFICES ASSUME Faults \cap {"put", "crash"} = {}
               PROVE /\ \A t \in Sessions : handler'[t] = "first_put_key"
                                            => Eph2(KeyOf[t])' = t
                     /\ \A k \in Ids :
                          (\A t \in Sessions : handler'[t] = "first_put_key" => KeyOf[t] # k)
                          => Eph1(k)' = Eph2(k)'
    BY DEF PairInWork
  <2>1. db' = [db EXCEPT ![<<KeyOf[s], "EphKeyGenFirstMsg">>] = s]
    BY <1>7 DEF PutMsg, Insert, idify
  <2>2. /\ handler[s] = "first_put_msg"
        /\ handler' = [handler EXCEPT ![s] = "first_put_key"]
    BY <1>7 DEF PutMsg
  <2>3. \A t \in Sessions \ {s} : handler[t] # "first_put_key"
    BY <1>7 DEF PutMsg
  <2>4. \A t \in Sessions : handler'[t] = "first_put_key" => t = s
    BY <2>2, <2>3
  <2>5. Eph2(KeyOf[s])' = s
    BY <2>1
  <2>6. \A k \in Ids \ {KeyOf[s]} : Eph1(k)' = Eph1(k) /\ Eph2(k)' = Eph2(k)
    BY <2>1
  <2>7. \A k \in Ids : Eph1(k) = Eph2(k)
    BY <2>2, <2>3
  <2> QED
    BY <2>2, <2>4, <2>5, <2>6, <2>7
<1>8. ASSUME NEW s \in Sessions, PutKey(s) PROVE PairInWork'
  <2> SUFFICES ASSUME Faults \cap {"put", "crash"} = {}
               PROVE /\ \A t \in Sessions : handler'[t] # "first_put_key"
                     /\ \A k \in Ids : Eph1(k)' = Eph2(k)'
    BY DEF PairInWork
  <2>1. db' = [db EXCEPT ![<<KeyOf[s], "EphEcKeyPair">>] = s]
    BY <1>8 DEF PutKey, Insert, idify
  <2>2. /\ handler[s] = "first_put_key"
        /\ handler' = [handler EXCEPT ![s] = "none"]
    BY <1>8 DEF PutKey, Answer
  <2>3. \A t \in Sessions \ {s} : handler[t] # "first_put_key"
    BY <1>8 DEF PutKey, Answer, Unlock
  <2>4. Eph1(KeyOf[s])' = s /\ Eph2(KeyOf[s])' = s
    BY <2>1, <2>2
  <2>5. \A k \in Ids \ {KeyOf[s]} : Eph1(k)' = Eph1(k) /\ Eph2(k)' = Eph2(k)
    BY <2>1
  <2>6. \A k \in Ids \ {KeyOf[s]} : Eph1(k) = Eph2(k)
    BY <2>2, <2>3
  <2> QED
    BY <2>2, <2>3, <2>4, <2>5, <2>6
<1>9. ASSUME NEW s \in Sessions, GetMasterKey(s) PROVE PairInWork'
  BY <1>9 DEF GetMasterKey
<1>10. ASSUME NEW s \in Sessions, GetNonce1(s) PROVE PairInWork'
  BY <1>10 DEF GetNonce1, Get, idify
<1>11. ASSUME NEW s \in Sessions, GetNonce2(s) PROVE PairInWork'
  BY <1>11 DEF GetNonce2, Get, idify
<1>12. ASSUME NEW s \in Sessions, GetFails(s) PROVE PairInWork'
  BY <1>12 DEF GetFails, Answer, Unlock
<1>13. ASSUME NEW s \in Sessions, Sign(s) PROVE PairInWork'
  BY <1>13 DEF Sign, Answer, Unlock, Signatures, CommitmentOpens, PartialFits
<1>14. ASSUME NEW s \in Sessions, Reject(s) PROVE PairInWork'
  BY <1>14 DEF Reject, Answer, Unlock
<1>15. ASSUME Crash PROVE PairInWork'
  BY <1>15 DEF Crash, Reopen
<1>16. ASSUME UNCHANGED vars PROVE PairInWork'
  BY <1>16 DEF vars
<1> QED
  BY <1>1, <1>2, <1>3, <1>4, <1>5, <1>6, <1>7, <1>8,
     <1>9, <1>10, <1>11, <1>12, <1>13, <1>14, <1>15, <1>16
  DEF Next, ClientStep, HandlerStep

LEMMA StepIInv == IInv /\ [Next]_vars => IInv'
  BY TypeStep, ExclusionStep, OneRequestStep, NoPairYetStep, ReadsCurrentStep,
     PairInWorkStep DEF IInv

LEMMA Invariance == Spec => []IInv
  BY InitIInv, StepIInv, PTL DEF Spec

(***************************************************************************)
(* The safety properties.                                                  *)
(***************************************************************************)

\* Type correctness of the two sign routes and their clients.
THEOREM TypeCorrect == Spec => []TypeOK
<1>1. IInv => TypeOK
  BY DEF IInv
<1> QED
  BY <1>1, Invariance, PTL

\* Nobody holds the lock, so nobody is between the two puts.
LEMMA PairsFromInv == IInv => EphPairWhole
  BY NoneIsNothing, SigningConstants
  DEF IInv, Exclusion, Critical, PairInWork, EphPairWhole, Eph1, Eph2, Get, idify

\* The lock alone keeps the two ephemeral records of a key together, as long as
\* every put is kept and the server does not die between them.
THEOREM PairSafety == Spec => []EphPairWhole
  BY Invariance, PairsFromInv, PTL

(***************************************************************************)
(* Contention.  While nothing fails and no stray signs under its id, every *)
(* key with a session under way has a session that can no longer lose: it  *)
(* is replacing the pair, or the                                           *)
(* pair is its own and its second request is still to come or in work, or  *)
(* its signature is made.  A session loses this only to another one's      *)
(* first put, which has it from then on.                                   *)
(***************************************************************************)

\* Nobody gives up: the client of a request in work waits for its answer.
RequestsFit ==
    Faults = {} => \A s \in Sessions :
        /\ handler[s] \in FirstHandler => client[s] = "first"
        /\ handler[s] \in SecondHandler => client[s] = "second"

Generated(k) == db[<<k, "Party1MasterKey">>] # None

NoStray(k) == \A s \in Sessions : KeyOf[s] = k => s \notin Strays

OwnPair(s) == Eph1(KeyOf[s]) = s /\ Eph2(KeyOf[s]) = s

Winning(s) ==
    \/ handler[s] \in FirstHandler
    \/ OwnPair(s) /\ client[s] = "first" /\ reply[s] = "first"
    \/ OwnPair(s) /\ handler[s] \in SecondHandler
    \/ client[s] = "second" /\ reply[s] = "signature"
    \/ client[s] = "signed"

SomeoneWins ==
    Faults = {} => \A s \in Sessions :
        Generated(KeyOf[s]) /\ NoStray(KeyOf[s]) /\ client[s] # "idle"
        => \E w \in Sessions : KeyOf[w] = KeyOf[s] /\ Winning(w)

LEMMA RequestsFitStep == IInv /\ RequestsFit /\ [Next]_vars => RequestsFit'
<1> SUFFICES ASSUME IInv, RequestsFit, [Next]_vars, Faults = {}
             PROVE RequestsFit'
  BY DEF RequestsFit
<1> USE DEF IInv, TypeOK, OneRequest, RequestsFit, ClientStates, FirstHandler, SecondHandler
<1>1. ASSUME NEW s \in Sessions, SendFirst(s) PROVE RequestsFit'
  BY <1>1 DEF SendFirst
<1>2. ASSUME NEW s \in Sessions, TimeOut(s) PROVE RequestsFit'
  BY <1>2 DEF TimeOut
<1>3. ASSUME NEW s \in Sessions, ClientStep(s) PROVE RequestsFit'
  BY <1>3 DEF ClientStep, SendSecond, ReceiveSignature, RequestFails
<1>4. ASSUME NEW s \in Sessions, AcquireLock(s) PROVE RequestsFit'
  BY <1>4 DEF AcquireLock
<1>5. ASSUME NEW s \in Sessions, PutMsg(s) \/ PutKey(s) PROVE RequestsFit'
  BY <1>5 DEF PutMsg, PutKey, Answer
<1>6. ASSUME NEW s \in Sessions, GetMasterKey(s) \/ GetNonce1(s) \/ GetNonce2(s)
      PROVE RequestsFit'
  BY <1>6 DEF GetMasterKey, GetNonce1, GetNonce2
<1>7. ASSUME NEW s \in Sessions, GetFails(s) \/ Sign(s) \/ Reject(s) PROVE RequestsFit'
  BY <1>7 DEF GetFails, Sign, Reject, Answer
<1>8. ASSUME Crash PROVE RequestsFit'
  BY <1>8 DEF Crash
<1>9. ASSUME UNCHANGED vars PROVE RequestsFit'
  BY <1>9 DEF vars
<1> QED
  BY <1>1, <1>2, <1>3, <1>4, <1>5, <1>6, <1>7, <1>8, <1>9 DEF Next, HandlerStep

\* The session that starts to replace a pair wins from then on; those of other
\* keys keep what they have.
LEMMA FirstPutWins ==
    ASSUME IInv, RequestsFit, Faults = {}, NEW s \in Sessions, PutMsg(s) \/ PutKey(s)
    PROVE  /\ Winning(s)'
           /\ \A w \in Sessions : KeyOf[w] # KeyOf[s] /\ Winning(w) => Winning(w)'
           /\ UNCHANGED client
           /\ \A k \in Ids : Generated(k)' = Generated(k)
<1> USE SigningConstants, NoneIsNothing
<1>1. PICK table \in {"EphKeyGenFirstMsg", "EphEcKeyPair"} :
        db' = [db EXCEPT ![<<KeyOf[s], table>>] = s]
  BY DEF PutMsg, PutKey, Insert, idify
<1>2. UNCHANGED client
  BY DEF PutMsg, PutKey
<1>3. \A k \in Ids : Generated(k)' = Generated(k)
  BY <1>1 DEF IInv, TypeOK, StoreTypeOK, Identifiers, SigningTables, Generated
<1>4. ASSUME NEW w \in Sessions, KeyOf[w] # KeyOf[s], Winning(w) PROVE Winning(w)'
  <2>1. Eph1(KeyOf[w])' = Eph1(KeyOf[w]) /\ Eph2(KeyOf[w])' = Eph2(KeyOf[w])
    BY <1>1, <1>4 DEF IInv, TypeOK, StoreTypeOK, Identifiers, SigningTables, Eph1, Eph2
  <2>2. handler'[w] = handler[w] /\ reply'[w] = reply[w]
    BY <1>4 DEF PutMsg, PutKey, Answer, IInv, TypeOK
  <2> QED
    BY <1>2, <1>4, <2>1, <2>2 DEF Winning, OwnPair
<1>5. CASE PutMsg(s)
  <2>1. handler'[s] = "first_put_key"
    BY <1>5 DEF PutMsg, IInv, TypeOK
  <2> QED
    BY <1>2, <1>3, <1>4, <2>1 DEF Winning, FirstHandler
<1>6. CASE PutKey(s)
  <2>1. handler[s] = "first_put_key" /\ client[s] = "first"
    BY <1>6 DEF PutKey, RequestsFit, FirstHandler
  <2>2. reply'[s] = "first"
    BY <1>6, <2>1 DEF PutKey, Answer, IInv, TypeOK
  <2>3. db' = [db EXCEPT ![<<KeyOf[s], "EphEcKeyPair">>] = s]
    BY <1>6 DEF PutKey, Insert, idify
  <2>4. Eph2(KeyOf[s]) = s
    BY <2>1 DEF IInv, PairInWork
  <2>5. OwnPair(s)'
    BY <2>3, <2>4 DEF IInv, TypeOK, StoreTypeOK, Identifiers, SigningTables,
       OwnPair, Eph1, Eph2
  <2> QED
    BY <1>2, <1>3, <1>4, <2>1, <2>2, <2>5 DEF Winning
<1> QED
  BY <1>5, <1>6

\* Who can no longer lose goes on to its signature, step by step: its records
\* are there, they are its own, and no client of it hears of an error.
LEMMA WinnerStays ==
    ASSUME IInv, RequestsFit, Faults = {}, NEW s \in Sessions,
           \/ SendFirst(s) \/ ClientStep(s) \/ AcquireLock(s) \/ GetMasterKey(s)
           \/ GetNonce1(s) \/ GetNonce2(s) \/ GetFails(s) \/ Sign(s) \/ Reject(s),
           NEW w \in Sessions \ Strays, Generated(KeyOf[w]), Winning(w)
    PROVE  Winning(w)'
<1> USE SigningConstants, NoneIsNothing
<1>1. UNCHANGED db
  BY DEF SendFirst, ClientStep, SendSecond, ReceiveSignature, RequestFails, AcquireLock,
     GetMasterKey, GetNonce1, GetNonce2, GetFails, Sign, Reject, serverVars
<1>2. OwnPair(w)' = OwnPair(w)
  BY <1>1 DEF OwnPair, Eph1, Eph2
<1>3. CASE w # s
  <2>1. client'[w] = client[w] /\ handler'[w] = handler[w] /\ reply'[w] = reply[w]
    BY <1>3 DEF IInv, TypeOK, SendFirst, ClientStep, SendSecond, ReceiveSignature,
       RequestFails, AcquireLock, GetMasterKey, GetNonce1, GetNonce2, GetFails, Sign,
       Reject, Answer
  <2> QED
    BY <1>2, <2>1 DEF Winning
<1>4. CASE w = s
  <2> USE <1>4 DEF IInv, TypeOK, OneRequest, RequestsFit, ClientStates, FirstHandler,
          SecondHandler
  <2>1. CASE SendFirst(s)
    BY <2>1 DEF SendFirst, Winning
  <2>2. CASE ClientStep(s)
    BY <1>2, <2>2 DEF ClientStep, SendSecond, ReceiveSignature, RequestFails, Winning
  <2>3. CASE AcquireLock(s)
    BY <1>2, <2>3 DEF AcquireLock, Winning
  <2>4. CASE GetMasterKey(s) \/ GetNonce1(s) \/ GetNonce2(s)
    BY <1>2, <2>4 DEF GetMasterKey, GetNonce1, GetNonce2, Winning
  <2>5. CASE GetFails(s)
    <3>1. handler[s] \in SecondHandler /\ OwnPair(s)
      BY <2>5 DEF GetFails, Winning
    <3>2. /\ Get(KeyOf[s], "Party1MasterKey") # None
          /\ Get(KeyOf[s], "EphEcKeyPair") = s
          /\ Get(KeyOf[s], "EphKeyGenFirstMsg") = s
      BY <3>1 DEF Generated, OwnPair, Eph1, Eph2, Get, idify
    <3> QED
      BY <2>5, <3>2 DEF GetFails, GetMayPanic
  <2>6. CASE Sign(s)
    BY <2>6 DEF Sign, Answer, Winning
  <2>7. CASE Reject(s)
    <3>1. handler[s] = "second_sign" /\ OwnPair(s)
      BY <2>7 DEF Reject, Winning
    <3>2. nonce1[s] = s /\ nonce2[s] = s
      BY <3>1 DEF ReadsCurrent, OwnPair
    <3> QED
      BY <2>7, <3>2 DEF Reject, Granted, CommitmentOpens, PartialFits
  <2> QED
    BY <2>1, <2>2, <2>3, <2>4, <2>5, <2>6, <2>7
<1> QED
  BY <1>3, <1>4

LEMMA SomeoneWinsStep ==
    IInv /\ RequestsFit /\ SomeoneWins /\ [Next]_vars => SomeoneWins'
<1> SUFFICES ASSUME IInv, RequestsFit, SomeoneWins, [Next]_vars, Faults = {},
                    NEW x \in Sessions, Generated(KeyOf[x])', NoStray(KeyOf[x]),
                    client'[x] # "idle"
             PROVE  \E w \in Sessions : KeyOf[w] = KeyOf[x] /\ Winning(w)'
  BY DEF SomeoneWins
<1> USE SigningConstants
<1>1. ASSUME NEW s \in Sessions, PutMsg(s) \/ PutKey(s)
      PROVE \E w \in Sessions : KeyOf[w] = KeyOf[x] /\ Winning(w)'
  <2>1. CASE KeyOf[x] = KeyOf[s]
    BY <1>1, <2>1, FirstPutWins
  <2>2. CASE KeyOf[x] # KeyOf[s]
    <3>1. PICK w \in Sessions : KeyOf[w] = KeyOf[x] /\ Winning(w)
      BY <1>1, FirstPutWins DEF SomeoneWins
    <3> QED
      BY <1>1, <2>2, <3>1, FirstPutWins
  <2> QED
    BY <2>1, <2>2
<1>2. ASSUME NEW s \in Sessions,
             \/ SendFirst(s) \/ ClientStep(s) \/ AcquireLock(s) \/ GetMasterKey(s)
             \/ GetNonce1(s) \/ GetNonce2(s) \/ GetFails(s) \/ Sign(s) \/ Reject(s)
      PROVE \E w \in Sessions : KeyOf[w] = KeyOf[x] /\ Winning(w)'
  <2>1. UNCHANGED db
    BY <1>2 DEF SendFirst, ClientStep, SendSecond, ReceiveSignature, RequestFails,
       AcquireLock, GetMasterKey, GetNonce1, GetNonce2, GetFails, Sign, Reject, serverVars
  <2>2. Generated(KeyOf[x])
    BY <2>1 DEF Generated
  <2>3. CASE client[x] # "idle"
    <3>1. PICK w \in Sessions : KeyOf[w] = KeyOf[x] /\ Winning(w)
      BY <2>2, <2>3 DEF SomeoneWins
    <3>2. Winning(w)'
      BY <1>2, <2>2, <3>1, WinnerStays DEF NoStray
    <3> QED
      BY <3>1, <3>2
  <2>4. CASE client[x] = "idle"
    <3>1. SendFirst(s) /\ x = s
      BY <1>2, <2>4 DEF IInv, TypeOK, SendFirst, ClientStep, SendSecond, ReceiveSignature,
         RequestFails, AcquireLock, GetMasterKey, GetNonce1, GetNonce2, GetFails, Sign,
         Reject
    <3>2. Winning(x)'
      BY <3>1 DEF SendFirst, Winning, FirstHandler, IInv, TypeOK
    <3> QED
      BY <3>2
  <2> QED
    BY <2>3, <2>4
<1>3. ASSUME (\E s \in Sessions : TimeOut(s)) \/ Crash PROVE FALSE
  BY <1>3 DEF TimeOut, Crash
<1>4. CASE UNCHANGED vars
  <2>1. Generated(KeyOf[x]) /\ client[x] # "idle"
    BY <1>4 DEF vars, Generated
  <2>2. PICK w \in Sessions : KeyOf[w] = KeyOf[x] /\ Winning(w)
    BY <2>1 DEF SomeoneWins
  <2>3. Winning(w)'
    BY <1>4, <2>2 DEF vars, Winning, OwnPair, Eph1, Eph2
  <2> QED
    BY <2>2, <2>3
<1> QED
  BY <1>1, <1>2, <1>3, <1>4 DEF Next, HandlerStep

LEMMA ContentionInvariance == Spec => [](RequestsFit /\ SomeoneWins)
<1>1. Init => RequestsFit /\ SomeoneWins
  BY DEF Init, RequestsFit, SomeoneWins, FirstHandler, SecondHandler
<1> QED
  BY <1>1, Invariance, RequestsFitStep, SomeoneWinsStep, PTL DEF Spec

\* Whoever can no longer lose has signed when everybody is over.
LEMMA WinnerSigns == IInv /\ RequestsFit /\ SomeoneWins => SomeoneSigns
<1> SUFFICES ASSUME IInv, RequestsFit, SomeoneWins, Faults = {},
                    NEW k \in Ids, Get(k, "Party1MasterKey") # None,
                    NEW s \in Sessions, KeyOf[s] = k, NoStray(k),
                    \A t \in Sessions : KeyOf[t] = k => client[t] \in {"signed", "failed"}
             PROVE  \E t \in Sessions : KeyOf[t] = k /\ client[t] = "signed"
  BY DEF SomeoneSigns, NoStray
<1>1. Generated(KeyOf[s]) /\ client[s] # "idle"
  BY DEF Generated, Get, idify
<1>2. PICK w \in Sessions : KeyOf[w] = k /\ Winning(w)
  BY <1>1 DEF SomeoneWins
<1>3. client[w] \in {"signed", "failed"}
  BY <1>2
<1>4. client[w] = "signed"
  BY <1>2, <1>3 DEF Winning, RequestsFit
<1> QED
  BY <1>2, <1>4

\* Contending sessions displace each other, but never all of them: without a
\* failure, one of the sessions of a generated key has signed when all are over.
THEOREM ContentionSafety == Spec => []SomeoneSigns
  BY Invariance, ContentionInvariance, WinnerSigns, PTL

(***************************************************************************)
(* The refinement: every step takes, misses or empties a signing slot, or  *)
(* signs from it.                                                          *)
(***************************************************************************)

LEMMA SlotUnchanged == UNCHANGED db => UNCHANGED SlotOfKey
  BY DEF SlotOfKey, SlotHolder, Get, idify

LEMMA InitRefines == Init => Slots!SlotInit
<1> SUFFICES ASSUME Init PROVE Slots!SlotInit
  OBVIOUS
<1>1. SlotOfKey = [k \in Ids |-> None]
  BY NoneIsNothing, SigningConstants DEF Init, StoreAfterKeygen, Identifiers,
     SigningTables, SlotOfKey, SlotHolder, Get, idify
<1>2. PastFirst = {} /\ SignedFor = {}
  BY DEF Init, PastFirst, SignedFor
<1> QED
  BY <1>1, <1>2 DEF Slots!SlotInit

LEMMA StepRefines == IInv /\ [Next]_vars => [Slots!SlotNext]_(Slots!slotVars)
<1> SUFFICES ASSUME IInv, [Next]_vars PROVE [Slots!SlotNext]_(Slots!slotVars)
  OBVIOUS
<1> USE SigningConstants, NoneIsNothing
<1> DEFINE Stutter == UNCHANGED <<SlotOfKey, PastFirst, SignedFor>>
\* The steps that leave the slots alone.
<1>1. ASSUME NEW s \in Sessions,
             \/ SendFirst(s) \/ TimeOut(s) \/ ClientStep(s) \/ AcquireLock(s)
             \/ GetMasterKey(s) \/ GetNonce1(s) \/ GetNonce2(s)
             \/ GetFails(s) \/ Reject(s)
      PROVE Stutter
  <2>1. UNCHANGED db /\ UNCHANGED released
    BY <1>1 DEF SendFirst, TimeOut, ClientStep, SendSecond, ReceiveSignature,
       RequestFails, AcquireLock, GetMasterKey, GetNonce1, GetNonce2, GetFails,
       Reject, serverVars
  <2>2. UNCHANGED SlotOfKey /\ UNCHANGED SignedFor
    BY <2>1, SlotUnchanged DEF SignedFor
  <2>3. UNCHANGED PastFirst
    BY <1>1 DEF IInv, TypeOK, OneRequest, PastFirst, FirstHandler, SendFirst, TimeOut,
       ClientStep, SendSecond, ReceiveSignature, RequestFails, AcquireLock,
       GetMasterKey, GetNonce1, GetNonce2, GetFails, Reject, Answer
  <2> QED
    BY <2>2, <2>3
\* The first put empties the slot.
<1>2. ASSUME NEW s \in Sessions, PutMsg(s)
      PROVE Slots!Clear(KeyOf[s]) \/ Stutter
  <2>1. UNCHANGED PastFirst /\ UNCHANGED SignedFor
    BY <1>2 DEF PutMsg, PastFirst, SignedFor, FirstHandler, IInv, TypeOK
  <2>2. CASE UNCHANGED db
    BY <2>1, <2>2, SlotUnchanged
  <2>3. CASE db' = [db EXCEPT ![<<KeyOf[s], "EphKeyGenFirstMsg">>] = s]
    <3>1. Eph1(KeyOf[s]) # s
      BY <1>2 DEF IInv, NoPairYet, PutMsg, PastFirst, FirstHandler
    <3>2. SlotOfKey' = [SlotOfKey EXCEPT ![KeyOf[s]] = None]
      BY <2>3, <3>1 DEF IInv, TypeOK, StoreTypeOK, Identifiers, SigningTables,
         SlotOfKey, SlotHolder, Get, idify, Eph1
    <3> QED
      BY <2>1, <3>2 DEF Slots!Clear
  <2> QED
    BY <1>2, <2>2, <2>3 DEF PutMsg, Insert, idify
\* The second put fills it, unless one of the two was lost.
<1>3. ASSUME NEW s \in Sessions, PutKey(s)
      PROVE Slots!Take(s) \/ Slots!Miss(s)
  <2>1. Slots!Enter(s) /\ UNCHANGED SignedFor
    <3>1. s \notin PastFirst /\ PastFirst' = PastFirst \cup {s}
      BY <1>3 DEF PutKey, Answer, PastFirst, FirstHandler, IInv, TypeOK, OneRequest
    <3> QED
      BY <1>3, <3>1 DEF PutKey, SignedFor, Slots!Enter
  <2>2. CASE UNCHANGED db
    BY <2>1, <2>2, SlotUnchanged DEF Slots!Miss
  <2>3. CASE db' = [db EXCEPT ![<<KeyOf[s], "EphEcKeyPair">>] = s]
    <3>1. SlotOfKey' = [SlotOfKey EXCEPT
                          ![KeyOf[s]] = IF Eph2(KeyOf[s]) = s THEN s ELSE None]
      BY <2>3 DEF IInv, TypeOK, StoreTypeOK, Identifiers, SigningTables,
         SlotOfKey, SlotHolder, Get, idify, Eph2
    <3> QED
      BY <2>1, <3>1 DEF Slots!Take, Slots!Miss
  <2> QED
    BY <1>3, <2>2, <2>3 DEF PutKey, Insert, idify
\* A signature is made for the session in the slot.
<1>4. ASSUME NEW s \in Sessions, Sign(s)
      PROVE Slots!SignInSlot(s)
  <2>1. SlotOfKey[KeyOf[s]] = s
    BY <1>4 DEF IInv, ReadsCurrent, Sign, CommitmentOpens, PartialFits, SlotOfKey,
       SlotHolder, Get, idify, Eph1, Eph2
  <2>2. SignedFor' = SignedFor \cup {s}
    <3> DEFINE sig == [key |-> KeyOf[s], nonce1 |-> nonce1[s],
                       nonce2 |-> nonce2[s], session |-> s]
    <3>0. released' = released \cup {sig} /\ sig.session = s
      BY <1>4 DEF Sign
    <3> HIDE DEF sig
    <3>1. PICK g : released' = released \cup {g} /\ g.session = s
      BY <3>0
    <3> QED
      BY <3>1 DEF SignedFor
  <2>3. UNCHANGED SlotOfKey
    BY <1>4, SlotUnchanged DEF Sign
  <2>4. UNCHANGED PastFirst
    BY <1>4 DEF Sign, Answer, PastFirst, FirstHandler, IInv, TypeOK
  <2> QED
    BY <2>1, <2>2, <2>3, <2>4 DEF Slots!SignInSlot
\* A crash ends the first requests in work, and keeps the store.
<1>5. ASSUME Crash PROVE Slots!Abandon
  <2>1. PastFirst \subseteq PastFirst' /\ PastFirst' \subseteq Sessions
    BY <1>5 DEF Crash, PastFirst, FirstHandler
  <2> QED
    BY <1>5, <2>1, SlotUnchanged DEF Crash, Reopen, SignedFor, Slots!Abandon
<1>6. ASSUME UNCHANGED vars PROVE Stutter
  BY <1>6, SlotUnchanged DEF vars, PastFirst, SignedFor
<1>7. CASE \E s \in Sessions : Sign(s) \/ PutMsg(s) \/ PutKey(s)
  BY <1>2, <1>3, <1>4, <1>7 DEF Slots!SlotNext, Slots!slotVars
<1>8. CASE Crash
  BY <1>5, <1>8 DEF Slots!SlotNext
<1> QED
  BY <1>1, <1>6, <1>7, <1>8 DEF Next, HandlerStep, Slots!slotVars

\* The sign routes implement one signing slot per key, under every failure the
\* model has: a session displaced by another's first request never signs.
THEOREM SlotRefinement == Spec => SigningRefinesSlots
  BY InitRefines, StepRefines, Invariance, PTL
  DEF Spec, SigningRefinesSlots, Slots!SlotSpec
=============================================================================
