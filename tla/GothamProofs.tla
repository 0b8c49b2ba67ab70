----------------------------- MODULE GothamProofs -----------------------------
(* What holds of Gotham for every set of key generations, of calls of `sign`, *)
(* and of faults.                                                             *)
EXTENDS Gotham, TLAPS

Rec(k, t) == db[<<k, t>>]

SigningOnly == {"EphKeyGenFirstMsg", "EphEcKeyPair"}

(***************************************************************************)
(* The inductive invariant.                                                *)
(***************************************************************************)

SignTypes ==
    /\ signer \in [Signings -> S!ClientStates]
    /\ signing \in [Signings -> {"none"} \cup S!FirstHandler \cup S!SecondHandler]

\* A key generation has posted nothing exactly while it is idle, and an answer
\* comes when the work for it is over.
OneRequest ==
    \A k \in Sessions :
        /\ round[k] = 0 <=> client[k] = "idle"
        /\ round[k] = 0 => handler[k] = "none" /\ reply[k] = "none"
        /\ reply[k] # "none" => handler[k] = "none"

\* A request that was answered well, or is about to be, had all it needs in the
\* store, and nothing is ever taken out of it.
Answered(k, r) ==
    \/ r < round[k]
    \/ r = round[k] /\ (reply[k] = "ok" \/ handler[k] = "put" \/ client[k] = "done")
Passed ==
    \A k \in Sessions, r \in Rounds :
        Answered(k, r) => \A t \in Needed[r] : Rec(k, t) # None

\* Where no write is lost, the master key is there when the last answer is.
LastIsKept ==
    "put" \notin Faults =>
        \A k \in Sessions :
            round[k] = ChainSecond /\ (reply[k] = "ok" \/ client[k] = "done") =>
                Rec(k, "Party1MasterKey") # None

\* Shares are only taken after the last round.
DoneIsLast == \A k \in Sessions : client[k] = "done" => round[k] = ChainSecond

\* A master key is made by the last request there is for it.
MadeAtLast ==
    \A k \in Sessions : Rec(k, "Party1MasterKey") # None => handler[k] = "none"

\* Who signs has a share, or is a stray; and a handler that has read the master
\* key found it.
SignerHasShare ==
    \A s \in Signings :
        /\ signer[s] # "idle" /\ s \notin Strays => client[KeyOf[s]] = "done"
        /\ signing[s] # "none" => signer[s] # "idle"
        /\ signing[s] \in {"second_get_nonce1", "second_get_nonce2", "second_sign"} =>
              Rec(KeyOf[s], "Party1MasterKey") # None

KInv == /\ KeygenTypeOK /\ OneRequest /\ Passed /\ LastIsKept /\ DoneIsLast
        /\ TablesApart /\ MasterKeyIsEarned /\ MadeAtLast
GInv == KInv /\ SignTypes /\ SignerHasShare

(***************************************************************************)
(* The tables, and which of them each protocol writes.                     *)
(***************************************************************************)

LEMMA TableFacts ==
    /\ KeygenTables = {"CommWitness", "Party1Private", "PDLDecommit", "CCCommWitness",
                       "Party1MasterKey"}
    /\ S!SigningTables \ KeygenTables = SigningOnly
    /\ \A r \in Rounds : Needed[r] \subseteq KeygenTables \ {"Party1MasterKey"}
    /\ UNION {Needed[r] : r \in Rounds} = KeygenTables \ {"Party1MasterKey"}
<1>0. Rounds = {1, 2, 3, 4, 5, 6}
  BY DEF Rounds, First, ChainSecond
<1>1. /\ Stored[1] = {"CommWitness"} /\ Stored[2] = {"Party1Private"}
      /\ Stored[3] = {"PDLDecommit"} /\ Stored[4] = {} /\ Stored[5] = {"CCCommWitness"}
      /\ Stored[6] = {"Party1MasterKey"}
  BY <1>0 DEF Stored, First, Second, Third, Fourth, ChainFirst, ChainSecond
<1>2. /\ Needed[1] = {} /\ Needed[2] = {"CommWitness"} /\ Needed[3] = {"Party1Private"}
      /\ Needed[4] = {"Party1Private", "PDLDecommit"} /\ Needed[5] = {}
      /\ Needed[6] = {"CommWitness", "Party1Private", "CCCommWitness"}
  BY <1>0 DEF Needed, First, Second, Third, Fourth, ChainFirst, ChainSecond
<1>3. KeygenTables = Stored[1] \cup Stored[2] \cup Stored[3] \cup Stored[4] \cup Stored[5]
                     \cup Stored[6]
  BY <1>0 DEF KeygenTables
<1>4. UNION {Needed[r] : r \in Rounds}
        = Needed[1] \cup Needed[2] \cup Needed[3] \cup Needed[4] \cup Needed[5] \cup Needed[6]
  BY <1>0
<1>5. KeygenTables = {"CommWitness", "Party1Private", "PDLDecommit", "CCCommWitness",
                      "Party1MasterKey"}
  BY <1>1, <1>3
<1>6. S!SigningTables \ KeygenTables = SigningOnly
  BY <1>5 DEF S!SigningTables, SigningOnly
<1>7. \A r \in Rounds : Needed[r] \subseteq KeygenTables \ {"Party1MasterKey"}
  BY <1>0, <1>2, <1>5
<1>8. UNION {Needed[r] : r \in Rounds} = KeygenTables \ {"Party1MasterKey"}
  BY <1>2, <1>4, <1>5
<1> QED
  BY <1>5, <1>6, <1>7, <1>8

LEMMA LastStores == Stored[ChainSecond] = {"Party1MasterKey"}
                    /\ \A r \in Rounds : r # ChainSecond => "Party1MasterKey" \notin Stored[r]
<1>0. Rounds = {1, 2, 3, 4, 5, 6}
  BY DEF Rounds, First, ChainSecond
<1> QED
  BY <1>0 DEF Stored, First, Second, Third, Fourth, ChainFirst, ChainSecond

LEMMA StoredIsTable == \A r \in Rounds : Stored[r] \subseteq KeygenTables
  BY DEF KeygenTables

LEMMA InitGInv == GothamInit => GInv
<1> SUFFICES ASSUME GothamInit PROVE GInv
  OBVIOUS
<1> USE KeygenConstants, GothamConstants, NoneIsNothing, TableFacts
<1>1. \A k \in Sessions, t \in KeygenTables \cup SigningOnly : Rec(k, t) = None
  BY DEF GothamInit, Init, Rec, Identifiers, S!SigningTables, SigningOnly
<1>2. KeygenTypeOK /\ OneRequest
  BY DEF GothamInit, Init, KeygenTypeOK, StoreTypeOK, OneRequest, Rounds, First, ChainSecond
<1>3. Passed /\ LastIsKept /\ DoneIsLast
  BY DEF GothamInit, Init, Passed, Answered, LastIsKept, DoneIsLast, Rounds, First, ChainSecond
<1>4. TablesApart /\ MasterKeyIsEarned /\ MadeAtLast
  BY <1>1 DEF TablesApart, MasterKeyIsEarned, MadeAtLast, Get, idify, Rec
<1>5. SignTypes /\ SignerHasShare
  BY DEF GothamInit, SignTypes, SignerHasShare, S!ClientStates
<1> QED
  BY <1>2, <1>3, <1>4, <1>5 DEF GInv, KInv

(***************************************************************************)
(* A signing step leaves the key generations alone, and their records.     *)
(***************************************************************************)

SigningStep(s) == SignWithShare(s) \/ S!TimeOut(s) \/ S!ClientStep(s) \/ S!HandlerStep(s)

LEMMA SigningFrame ==
    ASSUME KeygenTypeOK, NEW s \in Signings, SigningStep(s)
    PROVE  /\ StoreTypeOK'
           /\ \A k \in Sessions, t \in Tables \ SigningOnly : Rec(k, t)' = Rec(k, t)
           /\ \A k \in Sessions, t \in SigningOnly : Rec(k, t)' \in {Rec(k, t), s}
<1> USE KeygenConstants, GothamConstants, NoneIsNothing
    DEF StoreTypeOK, Identifiers, SigningOnly, Rec, KeygenTypeOK, S!SigningTables
<1>1. CASE S!PutMsg(s)
  BY <1>1 DEF S!PutMsg, S!Insert, S!idify
<1>2. CASE S!PutKey(s)
  BY <1>2 DEF S!PutKey, S!Insert, S!idify, S!Answer, S!Unlock
<1>3. CASE S!AcquireLock(s)
  BY <1>3 DEF S!AcquireLock, S!Lock
<1>4. CASE SignWithShare(s) \/ S!TimeOut(s) \/ S!ClientStep(s)
  BY <1>4 DEF SignWithShare, S!SendFirst, S!TimeOut, S!ClientStep, S!SendSecond,
     S!ReceiveSignature, S!RequestFails, S!serverVars
<1>5. CASE \/ S!GetMasterKey(s) \/ S!GetNonce1(s) \/ S!GetNonce2(s) \/ S!GetFails(s)
           \/ S!Sign(s) \/ S!Reject(s)
  BY <1>5 DEF S!GetMasterKey, S!GetNonce1, S!GetNonce2, S!GetFails, S!Sign, S!Reject,
     S!Answer, S!Unlock, S!serverVars
<1> QED
  BY <1>1, <1>2, <1>3, <1>4, <1>5 DEF SigningStep, S!HandlerStep

LEMMA SigningKeepsKeygen ==
    ASSUME KInv, UNCHANGED keygenOnly, NEW s \in Signings, SigningStep(s)
    PROVE  KInv'
<1> USE KeygenConstants, GothamConstants, TableFacts DEF KInv
<1>1. /\ StoreTypeOK'
      /\ \A k \in Sessions, t \in KeygenTables : Rec(k, t)' = Rec(k, t)
      /\ \A k \in Sessions, t \in SigningOnly : Rec(k, t)' \in {Rec(k, t), s}
  BY SigningFrame DEF SigningOnly
<1>2. KeygenTypeOK' /\ OneRequest' /\ DoneIsLast'
  BY <1>1 DEF keygenOnly, KeygenTypeOK, OneRequest, DoneIsLast
<1>3. Passed'
  <2> SUFFICES ASSUME NEW k \in Sessions, NEW r \in Rounds, Answered(k, r)', NEW t \in Needed[r]
               PROVE  Rec(k, t)' # None
    BY DEF Passed
  <2>1. Answered(k, r)
    BY DEF Answered, keygenOnly
  <2> QED
    BY <1>1, <2>1 DEF Passed
<1>4. LastIsKept' /\ MasterKeyIsEarned' /\ MadeAtLast'
  <2>1. \A k \in Sessions, t \in KeygenTables : Get(k, t)' = Get(k, t)
    BY <1>1 DEF Get, idify, Rec
  <2>2. "Party1MasterKey" \in KeygenTables
    OBVIOUS
  <2>3. LastIsKept'
    BY <1>1, <2>2 DEF keygenOnly, LastIsKept
  <2>4. MasterKeyIsEarned'
    BY <2>1, <2>2 DEF keygenOnly, MasterKeyIsEarned
  <2>5. MadeAtLast'
    BY <1>1, <2>2 DEF keygenOnly, MadeAtLast
  <2> QED
    BY <2>3, <2>4, <2>5
<1>5. TablesApart'
  BY <1>1 DEF TablesApart, Get, idify, Rec
<1> QED
  BY <1>2, <1>3, <1>4, <1>5

(***************************************************************************)
(* A step of a key generation.                                             *)
(***************************************************************************)

KeygenStep(k) == Begin(k) \/ TimeOut(k) \/ ClientStep(k) \/ HandlerStep(k)

\* Only the last lines of a handler write, and only a record it makes.
LEMMA KeygenFrame ==
    ASSUME KInv, NEW k \in Sessions, KeygenStep(k)
    PROVE  /\ KeygenTypeOK'
           /\ UNCHANGED db \/ (/\ handler[k] = "put"
                               /\ \E t \in Stored[round[k]] : db' = [db EXCEPT ![<<k, t>>] = k])
<1> USE KeygenConstants, NoneIsNothing
    DEF KInv, KeygenTypeOK, StoreTypeOK, Identifiers, OneRequest
<1>1. CASE Begin(k) \/ Continue(k)
  BY <1>1 DEF Begin, Continue, Post, serverVars, Rounds, First, ChainSecond
<1>2. CASE Finish(k) \/ Panic(k) \/ TimeOut(k)
  BY <1>2 DEF Finish, Panic, TimeOut, GiveUp, serverVars
<1>3. CASE AcquireLock(k) \/ GetRecords(k) \/ GetFails(k)
  BY <1>3 DEF AcquireLock, GetRecords, GetFails, Answer, Lock, Unlock, serverVars
<1>4. CASE PutAndAnswer(k)
  <2>1. /\ mutex' = None /\ handler' = [handler EXCEPT ![k] = "none"]
        /\ reply' = [reply EXCEPT ![k] = IF client[k] = "waiting" THEN "ok" ELSE "none"]
        /\ UNCHANGED <<round, client>> /\ handler[k] = "put"
    BY <1>4 DEF PutAndAnswer, Answer, Unlock
  <2>2. UNCHANGED db \/ \E t \in Stored[round[k]] : db' = [db EXCEPT ![<<k, t>>] = k]
    BY <1>4 DEF PutAndAnswer, Insert, idify
  <2>3. db' \in [Identifiers -> Values \cup {None}]
    BY <2>2
  <2>4. StoreTypeOK'
    BY <2>1, <2>3
  <2> QED
    BY <2>1, <2>2, <2>4
<1> QED
  BY <1>1, <1>2, <1>3, <1>4 DEF KeygenStep, ClientStep, HandlerStep

\* So a record stays once it is there, and is of its own generation.
LEMMA RecordsGrow ==
    ASSUME KInv, NEW k \in Sessions, KeygenStep(k)
    PROVE  /\ \A x \in Sessions, t \in Tables : Rec(x, t) # None => Rec(x, t)' # None
           /\ \A x \in Sessions, t \in Tables : x # k => Rec(x, t)' = Rec(x, t)
           /\ \A t \in Tables : Rec(k, t)' \in {Rec(k, t), k}
           /\ \A t \in Tables : Rec(k, t)' # Rec(k, t) =>
                 handler[k] = "put" /\ round[k] \in Rounds /\ t \in Stored[round[k]]
<1> USE DEF Rec
<1>1. db \in [Sessions \X Tables -> Values \cup {None}]
  BY KeygenConstants DEF KInv, KeygenTypeOK, StoreTypeOK, Identifiers
<1>2. handler[k] = "put" => round[k] \in Rounds
  BY DEF KInv, KeygenTypeOK, OneRequest
<1>3. CASE UNCHANGED db
  BY <1>3
<1>4. CASE handler[k] = "put" /\ \E t \in Stored[round[k]] : db' = [db EXCEPT ![<<k, t>>] = k]
  <2>1. PICK u \in Stored[round[k]] : db' = [db EXCEPT ![<<k, u>>] = k]
    BY <1>4
  <2>2. k # None
    BY KeygenConstants, NoneIsNothing
  <2>3. \A x \in Sessions, t \in Tables :
           Rec(x, t)' = IF x = k /\ t = u THEN k ELSE Rec(x, t)
    BY <1>1, <2>1
  <2> QED
    BY <1>2, <1>4, <2>2, <2>3
<1> QED
  BY <1>3, <1>4, KeygenFrame

LEMMA KeygenKeepsOneRequest ==
    ASSUME KInv, NEW k \in Sessions, KeygenStep(k)
    PROVE  OneRequest' /\ DoneIsLast'
<1> USE DEF KInv, KeygenTypeOK, OneRequest, DoneIsLast, Rounds, First, ChainSecond
<1>1. CASE Begin(k) \/ Continue(k)
  BY <1>1 DEF Begin, Continue, Post
<1>2. CASE Finish(k) \/ Panic(k) \/ TimeOut(k)
  BY <1>2 DEF Finish, Panic, TimeOut, GiveUp
<1>3. CASE AcquireLock(k) \/ GetRecords(k) \/ GetFails(k) \/ PutAndAnswer(k)
  BY <1>3 DEF AcquireLock, GetRecords, GetFails, PutAndAnswer, Answer, Lock, Unlock
<1> QED
  BY <1>1, <1>2, <1>3 DEF KeygenStep, ClientStep, HandlerStep

LEMMA KeygenKeepsPassed ==
    ASSUME KInv, NEW k \in Sessions, KeygenStep(k)
    PROVE  Passed'
<1> SUFFICES ASSUME NEW x \in Sessions, NEW r \in Rounds, Answered(x, r)'
             PROVE  Answered(x, r) \/ \A t \in Needed[r] : Rec(x, t) # None
  <2>1. \A r1 \in Rounds : Needed[r1] \subseteq Tables
    BY TableFacts, KeygenConstants
  <2> QED
    BY <2>1, RecordsGrow DEF Passed, KInv
<1> USE DEF KInv, KeygenTypeOK, OneRequest, Answered, Rounds, First, ChainSecond
<1>1. CASE Begin(k) \/ Continue(k)
  BY <1>1 DEF Begin, Continue, Post
<1>2. CASE Finish(k) \/ Panic(k) \/ TimeOut(k)
  BY <1>2 DEF Finish, Panic, TimeOut, GiveUp
<1>3. CASE AcquireLock(k) \/ GetFails(k) \/ PutAndAnswer(k)
  BY <1>3 DEF AcquireLock, GetFails, PutAndAnswer, Answer, Lock, Unlock
<1>4. CASE GetRecords(k)
  BY <1>4 DEF GetRecords, AllThere, Get, idify, Rec
<1> QED
  BY <1>1, <1>2, <1>3, <1>4 DEF KeygenStep, ClientStep, HandlerStep

LEMMA KeygenKeepsLast ==
    ASSUME KInv, NEW k \in Sessions, KeygenStep(k)
    PROVE  LastIsKept'
<1> SUFFICES ASSUME "put" \notin Faults, NEW x \in Sessions, round'[x] = ChainSecond,
                    reply'[x] = "ok" \/ client'[x] = "done"
             PROVE  Rec(x, "Party1MasterKey")' # None
  BY DEF LastIsKept
<1>0. "Party1MasterKey" \in Tables
  BY TableFacts, KeygenConstants
<1>1. SUFFICES ASSUME ~(round[x] = ChainSecond /\ (reply[x] = "ok" \/ client[x] = "done"))
               PROVE  Rec(x, "Party1MasterKey")' # None
  BY <1>0, RecordsGrow DEF KInv, LastIsKept
<1>2. PutAndAnswer(k) /\ x = k /\ round[k] = ChainSecond
  <2> USE <1>1 DEF KInv, KeygenTypeOK, OneRequest
  <2>1. ~Begin(k) /\ ~Continue(k)
    BY DEF Begin, Continue, Post
  <2>2. ~Finish(k) /\ ~Panic(k) /\ ~TimeOut(k)
    BY DEF Finish, Panic, TimeOut, GiveUp
  <2>3. ~AcquireLock(k) /\ ~GetRecords(k) /\ ~GetFails(k)
    BY DEF AcquireLock, GetRecords, GetFails, Answer
  <2>4. PutAndAnswer(k)
    BY <2>1, <2>2, <2>3 DEF KeygenStep, ClientStep, HandlerStep
  <2> QED
    BY <2>4 DEF PutAndAnswer, Answer
<1>3. Insert(k, "Party1MasterKey", k)
  BY <1>2, LastStores DEF PutAndAnswer
<1>4. k # None
  BY KeygenConstants, NoneIsNothing
<1>5. db' = [db EXCEPT ![<<k, "Party1MasterKey">>] = k]
  BY <1>3 DEF Insert, idify
<1> QED
  BY <1>0, <1>2, <1>4, <1>5, KeygenConstants
     DEF KInv, KeygenTypeOK, StoreTypeOK, Identifiers, Rec

LEMMA KeygenKeepsApart ==
    ASSUME KInv, NEW k \in Sessions, KeygenStep(k)
    PROVE  TablesApart' /\ MasterKeyIsEarned'
<1> USE TableFacts
<1>0. KeygenTables \subseteq Tables /\ SigningOnly \subseteq Tables
  BY KeygenConstants, GothamConstants DEF S!SigningTables, SigningOnly
<1>1. \A x \in Sessions, t \in Tables : Get(x, t) = Rec(x, t) /\ Get(x, t)' = Rec(x, t)'
  BY DEF Get, idify, Rec
<1>2. \A x \in Sessions, t \in SigningOnly : Rec(x, t)' = Rec(x, t)
  <2> SUFFICES ASSUME NEW t \in SigningOnly, round[k] \in Rounds PROVE t \notin Stored[round[k]]
    BY <1>0, RecordsGrow
  <2> QED
    BY StoredIsTable DEF SigningOnly
<1>3. TablesApart'
  <2>1. ASSUME NEW x \in Sessions, NEW t \in KeygenTables PROVE Rec(x, t)' \in {x, None}
    <3>1. t \in Tables /\ Rec(x, t) \in {x, None}
      BY <1>0, <1>1 DEF KInv, TablesApart
    <3>2. Rec(x, t)' \in {Rec(x, t), x}
      BY <3>1, RecordsGrow
    <3> QED
      BY <3>1, <3>2
  <2>2. ASSUME NEW x \in Sessions, NEW t \in SigningOnly
        PROVE  Rec(x, t)' \in Signings \cup {None}
    <3>1. Rec(x, t) \in Signings \cup {None}
      BY <1>0, <1>1 DEF KInv, TablesApart
    <3> QED
      BY <1>2, <3>1
  <2>3. /\ \A x \in Sessions, t \in KeygenTables : Get(x, t)' = Rec(x, t)'
        /\ \A x \in Sessions, t \in SigningOnly : Get(x, t)' = Rec(x, t)'
    BY <1>0, <1>1
  <2> QED
    <3>1. S!SigningTables \ KeygenTables = SigningOnly
      BY TableFacts
    <3>2. \A x \in Sessions, t \in KeygenTables : Get(x, t)' \in {x, None}
      BY <2>1, <2>3
    <3>3. \A x \in Sessions, t \in SigningOnly : Get(x, t)' \in Signings \cup {None}
      BY <2>2, <2>3
    <3> HIDE DEF SigningOnly
    <3> QED
      BY <3>1, <3>2, <3>3 DEF TablesApart
<1>4. SUFFICES ASSUME NEW x \in Sessions, Rec(x, "Party1MasterKey")' # None
               PROVE  round'[x] = ChainSecond /\ \A t \in KeygenTables : Rec(x, t)' # None
  BY <1>0, <1>1, <1>3 DEF MasterKeyIsEarned
<1>5. CASE Rec(x, "Party1MasterKey") # None
  <2>1. round[x] = ChainSecond /\ \A t \in KeygenTables : Rec(x, t) # None
    BY <1>0, <1>1, <1>5 DEF KInv, MasterKeyIsEarned
  <2>2. round'[x] = round[x]
    BY <2>1 DEF KInv, KeygenTypeOK, OneRequest, ChainSecond, KeygenStep, ClientStep,
       HandlerStep, Begin, Continue, Post, Finish, Panic, TimeOut, GiveUp, AcquireLock,
       GetRecords, GetFails, PutAndAnswer, Answer
  <2> QED
    BY <1>0, <2>1, <2>2, RecordsGrow
<1>6. CASE Rec(x, "Party1MasterKey") = None
  <2>1. x = k /\ handler[k] = "put" /\ round[k] \in Rounds
        /\ "Party1MasterKey" \in Stored[round[k]]
    BY <1>0, <1>4, <1>6, RecordsGrow
  <2>2. round[k] = ChainSecond
    BY <2>1, LastStores
  <2>3. \A r \in Rounds : Answered(k, r)
    BY <2>1, <2>2 DEF Answered, Rounds, First, ChainSecond
  <2>4. \A t \in KeygenTables \ {"Party1MasterKey"} : Rec(k, t) # None
    BY <2>3 DEF KInv, Passed
  <2>5. round'[k] = round[k]
    BY <2>1, <2>2 DEF KInv, KeygenTypeOK, OneRequest, ChainSecond, KeygenStep, ClientStep,
       HandlerStep, Begin, Continue, Post, Finish, Panic, TimeOut, GiveUp, AcquireLock,
       GetRecords, GetFails, PutAndAnswer, Answer
  <2> QED
    BY <1>0, <1>4, <2>1, <2>2, <2>4, <2>5, RecordsGrow
<1> QED
  BY <1>5, <1>6

\* The step that makes it ends its request, and after the last round there is no
\* other.
LEMMA KeygenKeepsMade ==
    ASSUME KInv, NEW k \in Sessions, KeygenStep(k)
    PROVE  MadeAtLast'
<1> SUFFICES ASSUME NEW x \in Sessions, Rec(x, "Party1MasterKey")' # None
             PROVE  handler'[x] = "none"
  BY DEF MadeAtLast
<1>0. "Party1MasterKey" \in Tables
  BY TableFacts, KeygenConstants
<1> USE DEF KInv, KeygenTypeOK, OneRequest
<1>1. CASE Rec(x, "Party1MasterKey") # None
  <2>1. handler[x] = "none" /\ round[x] = ChainSecond
    BY <1>1 DEF MadeAtLast, MasterKeyIsEarned, Get, idify, Rec
  <2> QED
    BY <2>1 DEF ChainSecond, KeygenStep, ClientStep, HandlerStep, Begin, Continue, Post,
       Finish, Panic, TimeOut, GiveUp, AcquireLock, GetRecords, GetFails, PutAndAnswer, Answer
<1>2. CASE Rec(x, "Party1MasterKey") = None
  <2>1. x = k /\ handler[k] = "put"
    BY <1>0, <1>2, RecordsGrow
  <2>2. Rec(k, "Party1MasterKey")' # Rec(k, "Party1MasterKey")
    BY <1>2, <2>1
  <2>3. PutAndAnswer(k) \/ TimeOut(k) \/ Panic(k)
    BY <2>1 DEF KeygenStep, ClientStep, HandlerStep, Begin, Continue, Finish, AcquireLock,
       GetRecords, GetFails
  <2>4. PutAndAnswer(k)
    BY <2>2, <2>3 DEF TimeOut, Panic, GiveUp, serverVars, Rec
  <2> QED
    BY <2>1, <2>4 DEF PutAndAnswer, Answer
<1> QED
  BY <1>1, <1>2

LEMMA KeygenKeepsKInv ==
    ASSUME KInv, NEW k \in Sessions, KeygenStep(k)
    PROVE  KInv'
  BY KeygenFrame, KeygenKeepsOneRequest, KeygenKeepsPassed, KeygenKeepsLast, KeygenKeepsApart,
     KeygenKeepsMade
  DEF KInv

(***************************************************************************)
(* Signers: their shares, and the server's halves.                         *)
(***************************************************************************)

\* Whatever a step does, a share that was taken and a master key that was stored
\* stay, so signers that do not move keep what they rest on.
LEMMA SignerFrame ==
    ASSUME SignTypes, SignerHasShare, UNCHANGED signOnly,
           \A k \in Sessions : client[k] = "done" => client'[k] = "done",
           \A k \in Sessions : Rec(k, "Party1MasterKey") # None =>
                                   Rec(k, "Party1MasterKey")' # None
    PROVE  SignTypes' /\ SignerHasShare'
<1>1. SignTypes'
  BY DEF SignTypes, signOnly
<1>2. \A s \in Signings : KeyOf[s] \in Sessions
  BY GothamConstants
<1>3. UNCHANGED <<signer, signing>>
  BY DEF signOnly
<1>4. SignerHasShare'
  BY <1>2, <1>3 DEF SignerHasShare
<1> QED
  BY <1>1, <1>4

LEMMA KeygenKeepsSigners ==
    ASSUME GInv, UNCHANGED signOnly, NEW k \in Sessions, KeygenStep(k)
    PROVE  SignTypes' /\ SignerHasShare'
<1>1. \A x \in Sessions : client[x] = "done" => client'[x] = "done"
  BY DEF GInv, KInv, KeygenTypeOK, OneRequest, KeygenStep, ClientStep,
     HandlerStep, Begin, Continue, Post, Finish, Panic, TimeOut, GiveUp, AcquireLock,
     GetRecords, GetFails, PutAndAnswer, Answer
<1>2. "Party1MasterKey" \in Tables
  BY TableFacts, KeygenConstants
<1>3. \A x \in Sessions : Rec(x, "Party1MasterKey") # None => Rec(x, "Party1MasterKey")' # None
  BY <1>2, RecordsGrow DEF GInv
<1> QED
  BY <1>1, <1>3, SignerFrame DEF GInv

LEMMA SigningKeepsSigners ==
    ASSUME GInv, UNCHANGED keygenOnly, NEW s \in Signings, SigningStep(s)
    PROVE  SignTypes' /\ SignerHasShare'
<1> USE DEF GInv, SignTypes, SignerHasShare, S!ClientStates, S!FirstHandler, S!SecondHandler
<1>1. \A x \in Signings : KeyOf[x] \in Sessions
  BY GothamConstants
<1>2. UNCHANGED client
  BY DEF keygenOnly
<1>3. \A k \in Sessions : Rec(k, "Party1MasterKey")' = Rec(k, "Party1MasterKey")
  <2>1. "Party1MasterKey" \in Tables \ SigningOnly
    BY TableFacts, KeygenConstants DEF SigningOnly
  <2> QED
    BY <2>1, SigningFrame DEF KInv
<1>4. CASE SignWithShare(s)
  BY <1>1, <1>2, <1>3, <1>4 DEF SignWithShare, S!SendFirst
<1>5. CASE S!SendSecond(s)
  BY <1>1, <1>2, <1>3, <1>5 DEF S!SendSecond
<1>6. CASE S!TimeOut(s) \/ S!ReceiveSignature(s) \/ S!RequestFails(s)
  BY <1>1, <1>2, <1>3, <1>6 DEF S!TimeOut, S!ReceiveSignature, S!RequestFails
<1>7. CASE S!AcquireLock(s) \/ S!PutMsg(s)
  BY <1>1, <1>2, <1>3, <1>7 DEF S!AcquireLock, S!PutMsg
<1>8. CASE S!GetMasterKey(s)
  BY <1>1, <1>2, <1>3, <1>8 DEF S!GetMasterKey, S!Get, S!idify, Rec
<1>9. CASE S!GetNonce1(s) \/ S!GetNonce2(s)
  BY <1>1, <1>2, <1>3, <1>9 DEF S!GetNonce1, S!GetNonce2
<1>10. CASE S!PutKey(s) \/ S!GetFails(s) \/ S!Sign(s) \/ S!Reject(s)
  BY <1>1, <1>2, <1>3, <1>10 DEF S!PutKey, S!GetFails, S!Sign, S!Reject, S!Answer
<1> QED
  BY <1>4, <1>5, <1>6, <1>7, <1>8, <1>9, <1>10 DEF SigningStep, S!ClientStep, S!HandlerStep

(***************************************************************************)
(* The server dies, and is started again.                                  *)
(***************************************************************************)

LEMMA CrashFrame ==
    ASSUME GInv, Crash
    PROVE  /\ reply' \in [Sessions -> {"none", "ok", "error"}]
           /\ \A k \in Sessions : reply'[k] \in {"none", reply[k]} /\ handler'[k] = "none"
           /\ UNCHANGED <<db, round, client>>
<1>1. PICK lost \in SUBSET {k \in Sessions : reply[k] # "none"} :
        reply' = [k \in Sessions |-> IF k \in lost THEN "none" ELSE reply[k]]
  BY DEF Crash
<1> QED
  BY <1>1 DEF Crash, Reopen, GInv, KInv, KeygenTypeOK

LEMMA CrashKeepsGInv ==
    ASSUME GInv, Crash, S!Crash
    PROVE  GInv'
<1> USE CrashFrame
<1>1. \A k \in Sessions, t \in Tables : Rec(k, t)' = Rec(k, t)
  BY DEF Rec
<1>2. KeygenTypeOK' /\ OneRequest' /\ DoneIsLast'
  BY DEF GInv, KInv, KeygenTypeOK, StoreTypeOK, OneRequest, DoneIsLast, Crash, Reopen
<1>3. Passed'
  <2> SUFFICES ASSUME NEW k \in Sessions, NEW r \in Rounds, Answered(k, r)'
               PROVE  Answered(k, r)
    BY DEF GInv, KInv, Passed, Rec
  <2> QED
    BY DEF Answered
<1>4. LastIsKept' /\ TablesApart' /\ MasterKeyIsEarned' /\ MadeAtLast'
  BY DEF GInv, KInv, LastIsKept, TablesApart, MasterKeyIsEarned, MadeAtLast, Get, idify, Rec
<1>5. SignTypes' /\ SignerHasShare'
  BY DEF GInv, SignTypes, SignerHasShare, Rec, S!Crash
<1> QED
  BY <1>2, <1>3, <1>4, <1>5 DEF GInv, KInv

LEMMA StutterKeepsGInv ==
    ASSUME GInv, UNCHANGED gothamVars
    PROVE  GInv'
<1> USE DEF gothamVars, serverVars, keygenOnly, signOnly
<1>1. KeygenTypeOK' /\ OneRequest' /\ DoneIsLast'
  BY DEF GInv, KInv, KeygenTypeOK, StoreTypeOK, OneRequest, DoneIsLast
<1>2. Passed'
  BY DEF GInv, KInv, Passed, Answered, Rec
<1>3. LastIsKept' /\ TablesApart' /\ MasterKeyIsEarned' /\ MadeAtLast'
  BY DEF GInv, KInv, LastIsKept, TablesApart, MasterKeyIsEarned, MadeAtLast, Get, idify, Rec
<1>4. SignTypes' /\ SignerHasShare'
  BY DEF GInv, SignTypes, SignerHasShare, Rec
<1> QED
  BY <1>1, <1>2, <1>3, <1>4 DEF GInv, KInv

LEMMA NextKeepsGInv == GInv /\ [GothamNext]_gothamVars => GInv'
<1> SUFFICES ASSUME GInv, [GothamNext]_gothamVars PROVE GInv'
  OBVIOUS
<1>1. ASSUME NEW k \in Sessions, KeygenStep(k), UNCHANGED signOnly PROVE GInv'
  BY <1>1, KeygenKeepsKInv, KeygenKeepsSigners DEF GInv
<1>2. ASSUME NEW s \in Signings, SigningStep(s), UNCHANGED keygenOnly PROVE GInv'
  BY <1>2, SigningKeepsKeygen, SigningKeepsSigners DEF GInv
<1> QED
  BY <1>1, <1>2, CrashKeepsGInv, StutterKeepsGInv DEF GothamNext, KeygenStep, SigningStep

LEMMA Invariance == GothamSpec => []GInv
  BY InitGInv, NextKeepsGInv, PTL DEF GothamSpec

(***************************************************************************)
(* The theorems.                                                           *)
(***************************************************************************)

\* Type correctness of the server with all its clients.
THEOREM KeygenTypeCorrect == GothamSpec => []KeygenTypeOK
<1>1. GInv => KeygenTypeOK
  BY DEF GInv, KInv
<1> QED
  BY <1>1, Invariance, PTL

\* A client that has its share went through requests each of which found the
\* records of the earlier ones: no lost intermediate write goes unnoticed.
THEOREM LossNoticed == GothamSpec => []LossIsNoticed
<1>1. GInv => LossIsNoticed
  <2> SUFFICES ASSUME GInv, NEW k \in Sessions, client[k] = "done",
                      NEW t \in KeygenTables \ {"Party1MasterKey"}
               PROVE  Get(k, t) # None
    BY DEF LossIsNoticed
  <2>1. \A r \in Rounds : Answered(k, r)
    BY DEF GInv, KInv, DoneIsLast, Answered, Rounds, First, ChainSecond
  <2>2. PICK r \in Rounds : t \in Needed[r]
    BY TableFacts
  <2>3. Rec(k, t) # None
    BY <2>1, <2>2 DEF GInv, KInv, Passed
  <2> QED
    BY <2>3 DEF Get, idify, Rec
<1> QED
  BY <1>1, Invariance, PTL

\* The server has a master key only of a client that went through every round.
THEOREM KeysAreEarned == GothamSpec => []MasterKeyIsEarned
<1>1. GInv => MasterKeyIsEarned
  BY DEF GInv, KInv
<1> QED
  BY <1>1, Invariance, PTL

\* Key generation and signing share the store without touching each other's
\* records.
THEOREM ProtocolsApart == GothamSpec => []TablesApart
<1>1. GInv => TablesApart
  BY DEF GInv, KInv
<1> QED
  BY <1>1, Invariance, PTL

\* What insert's Result says is true where RocksDB keeps every write: a key
\* generation that went through left a key the server can sign with.  Reads that
\* panic, crashes and timeouts do not take it away; only a lost write does, and
\* the callers of insert cannot tell.
THEOREM KeptKeyIsStored ==
    ASSUME "put" \notin Faults
    PROVE  GothamSpec => []FinishedKeyIsStored
<1>1. GInv => FinishedKeyIsStored
  BY DEF GInv, KInv, DoneIsLast, LastIsKept, FinishedKeyIsStored, Get, idify, Rec
<1> QED
  BY <1>1, Invariance, PTL

(***************************************************************************)
(* The refinement: what a step makes of the halves, of what the clients    *)
(* were told, and of what was signed.                                      *)
(***************************************************************************)

LEMMA InitIsKeyInit == GothamInit => Life!KeyInit
<1> SUFFICES ASSUME GothamInit PROVE Life!KeyInit
  OBVIOUS
<1>1. ServerHalf = [k \in Sessions |-> None]
  <2>1. \A k \in Sessions : <<k, "Party1MasterKey">> \in Identifiers
    BY TableFacts, KeygenConstants DEF Identifiers
  <2> QED
    BY <2>1 DEF GothamInit, Init, ServerHalf, Get, idify
<1>2. HeldKeys = {} /\ ToldKeys = {} /\ SignedFor = {}
  BY DEF GothamInit, Init, HeldKeys, ToldKeys, SignedFor
<1> QED
  BY <1>1, <1>2 DEF Life!KeyInit

\* The answer to the last request is under way, or the client has had it.
Told(k) == client[k] = "done" \/ (round[k] = ChainSecond /\ reply[k] = "ok")

LEMMA ToldIs ==
    /\ ToldKeys = {k \in Sessions : Told(k)}
    /\ ToldKeys' = {k \in Sessions : Told(k)'}
  BY DEF ToldKeys, HeldKeys, Told

\* The clients' part of a key generation, and what precedes the put of a handler,
\* leave the server's half alone.
LEMMA ClientStepIsLife ==
    ASSUME GInv, NEW k \in Sessions, UNCHANGED signOnly,
           \/ Begin(k) \/ TimeOut(k) \/ ClientStep(k)
           \/ AcquireLock(k) \/ GetRecords(k) \/ GetFails(k)
    PROVE  Life!TakeShare(k) \/ Life!Untell \/ UNCHANGED Life!keyVars
<1> USE ToldIs
<1>0. UNCHANGED SignedFor /\ UNCHANGED ServerHalf
  BY DEF SignedFor, signOnly, ServerHalf, Get, idify, Begin, TimeOut, ClientStep, Continue,
     Post, Finish, Panic, GiveUp, AcquireLock, GetRecords, GetFails, Answer, serverVars
<1> USE DEF GInv, KInv, KeygenTypeOK, OneRequest
<1>1. CASE Begin(k) \/ Continue(k)
  <2>1. \A x \in Sessions : (Told(x)' <=> Told(x)) /\ (client'[x] = "done" <=> client[x] = "done")
    BY <1>1 DEF Begin, Continue, Post, Told, Rounds, First, ChainSecond
  <2> QED
    BY <1>0, <2>1 DEF HeldKeys, Life!keyVars
<1>2. CASE Finish(k)
  <2>1. Told(k) /\ \A x \in Sessions : Told(x)' <=> Told(x)
    BY <1>2 DEF Finish, Told
  <2>2. HeldKeys' = HeldKeys \cup {k}
    BY <1>2 DEF Finish, HeldKeys
  <2> QED
    BY <1>0, <2>1, <2>2 DEF Life!TakeShare
<1>3. CASE Panic(k) \/ TimeOut(k)
  <2>1. \A x \in Sessions : (Told(x)' => Told(x)) /\ (client'[x] = "done" <=> client[x] = "done")
    BY <1>3 DEF Panic, TimeOut, GiveUp, Told
  <2>2. HeldKeys \subseteq ToldKeys'
    BY <2>1 DEF HeldKeys, Told
  <2> QED
    BY <1>0, <2>1, <2>2 DEF HeldKeys, Life!Untell
<1>4. CASE AcquireLock(k) \/ GetRecords(k) \/ GetFails(k)
  <2>1. UNCHANGED client /\ \A x \in Sessions : Told(x)' <=> Told(x)
    BY <1>4 DEF AcquireLock, GetRecords, GetFails, Answer, Told
  <2> QED
    BY <1>0, <2>1 DEF HeldKeys, Life!keyVars
<1> QED
  BY <1>1, <1>2, <1>3, <1>4 DEF ClientStep

\* The put of the last request makes the half, or loses it; the others leave it.
LEMMA PutIsLife ==
    ASSUME GInv, NEW k \in Sessions, UNCHANGED signOnly, PutAndAnswer(k)
    PROVE  Life!MakeKey(k) \/ Life!LoseKey(k) \/ UNCHANGED Life!keyVars
<1> USE ToldIs
<1>0. /\ UNCHANGED SignedFor /\ UNCHANGED HeldKeys
      /\ handler[k] = "put" /\ round[k] \in Rounds
      /\ "Party1MasterKey" \in Tables
  BY TableFacts, KeygenConstants
  DEF SignedFor, HeldKeys, signOnly, PutAndAnswer, GInv, KInv, KeygenTypeOK, OneRequest
<1>1. /\ UNCHANGED <<round, client>>
      /\ reply' = [reply EXCEPT ![k] = IF client[k] = "waiting" THEN "ok" ELSE "none"]
      /\ reply[k] = "none" /\ reply \in [Sessions -> {"none", "ok", "error"}]
  BY <1>0 DEF PutAndAnswer, Answer, GInv, KInv, KeygenTypeOK, OneRequest
<1>2. CASE round[k] # ChainSecond
  <2>1. \A x \in Sessions : Rec(x, "Party1MasterKey")' = Rec(x, "Party1MasterKey")
    <3>1. KeygenStep(k)
      BY DEF KeygenStep, HandlerStep
    <3>2. "Party1MasterKey" \notin Stored[round[k]]
      BY <1>0, <1>2, LastStores
    <3> QED
      BY <1>0, <3>1, <3>2, RecordsGrow DEF GInv
  <2>2. UNCHANGED ServerHalf
    BY <2>1 DEF ServerHalf, Get, idify, Rec
  <2>3. \A x \in Sessions : Told(x)' <=> Told(x)
    BY <1>1, <1>2 DEF Told
  <2> QED
    BY <1>0, <2>2, <2>3 DEF Life!keyVars
<1>3. CASE round[k] = ChainSecond
  <2>1. ServerHalf[k] = None
    BY <1>0 DEF GInv, KInv, MadeAtLast, ServerHalf, Get, idify, Rec
  <2>2. /\ client[k] = "waiting" => ToldKeys' = ToldKeys \cup {k}
        /\ client[k] # "waiting" => ToldKeys' = ToldKeys
    BY <1>1, <1>3 DEF Told
  <2>3. CASE UNCHANGED db /\ "put" \in Faults
    <3>1. UNCHANGED ServerHalf
      BY <2>3 DEF ServerHalf, Get, idify
    <3> QED
      BY <1>0, <2>1, <2>2, <2>3, <3>1 DEF Life!LoseKey, Life!keyVars
  <2>4. CASE db' = [db EXCEPT ![<<k, "Party1MasterKey">>] = k]
    <3>1. db \in [Sessions \X Tables -> Values \cup {None}]
      BY KeygenConstants DEF GInv, KInv, KeygenTypeOK, StoreTypeOK, Identifiers
    <3>2. ServerHalf' = [ServerHalf EXCEPT ![k] = k]
      BY <1>0, <2>4, <3>1 DEF ServerHalf, Get, idify
    <3> QED
      BY <1>0, <2>1, <2>2, <3>2 DEF Life!MakeKey
  <2> QED
    <3>1. \E t \in Stored[round[k]] : Insert(k, t, k)
      BY <1>3, LastStores DEF PutAndAnswer
    <3>2. Insert(k, "Party1MasterKey", k)
      BY <1>3, <3>1, LastStores
    <3> QED
      BY <2>3, <2>4, <3>2 DEF Insert, idify
<1> QED
  BY <1>2, <1>3

\* Only Sign adds to what was signed, and it has both halves: the server's was
\* read, and no stray's partial signature fits.
LEMMA SigningStepIsLife ==
    ASSUME GInv, NEW s \in Signings, SigningStep(s), UNCHANGED keygenOnly
    PROVE  Life!SignWithBoth(s) \/ UNCHANGED Life!keyVars
<1>1. UNCHANGED <<ServerHalf, ToldKeys, HeldKeys>>
  <2>1. "Party1MasterKey" \in Tables \ SigningOnly
    BY TableFacts, KeygenConstants DEF SigningOnly
  <2>2. \A k \in Sessions : Rec(k, "Party1MasterKey")' = Rec(k, "Party1MasterKey")
    BY <2>1, SigningFrame DEF GInv, KInv
  <2> QED
    BY <2>2 DEF ServerHalf, ToldKeys, HeldKeys, Get, idify, Rec, keygenOnly
<1>2. CASE S!Sign(s)
  <2>1. KeyOf[s] \in Sessions /\ signing[s] = "second_sign" /\ s \notin Strays
    BY <1>2, GothamConstants DEF S!Sign, S!PartialFits
  <2>2. KeyOf[s] \in HeldKeys /\ Get(KeyOf[s], "Party1MasterKey") # None
    BY <2>1 DEF GInv, SignerHasShare, HeldKeys, Get, idify, Rec
  <2>3. ServerHalf[KeyOf[s]] = KeyOf[s]
    <3>1. "Party1MasterKey" \in KeygenTables
      BY TableFacts
    <3> QED
      BY <2>1, <2>2, <3>1 DEF GInv, KInv, TablesApart, ServerHalf
  <2>4. SignedFor' = SignedFor \cup {s}
    <3> DEFINE sig == [key |-> KeyOf[s], nonce1 |-> nonce1[s],
                       nonce2 |-> nonce2[s], session |-> s]
    <3>0. released' = released \cup {sig} /\ sig.session = s
      BY <1>2 DEF S!Sign
    <3> HIDE DEF sig
    <3> QED
      BY <3>0 DEF SignedFor
  <2> QED
    BY <1>1, <2>2, <2>3, <2>4 DEF Life!SignWithBoth
<1>3. CASE ~S!Sign(s)
  <2>1. UNCHANGED released
    BY <1>3 DEF SigningStep, SignWithShare, S!SendFirst, S!TimeOut, S!ClientStep,
       S!SendSecond, S!ReceiveSignature, S!RequestFails, S!HandlerStep, S!AcquireLock,
       S!PutMsg, S!PutKey, S!GetMasterKey, S!GetNonce1, S!GetNonce2, S!GetFails, S!Reject
  <2> QED
    BY <1>1, <2>1 DEF SignedFor, Life!keyVars
<1> QED
  BY <1>2, <1>3

\* A restart keeps every half, and may lose a last answer.
LEMMA CrashIsLife ==
    ASSUME GInv, Crash, S!Crash
    PROVE  Life!Untell
<1> USE CrashFrame, ToldIs
<1>1. UNCHANGED ServerHalf /\ UNCHANGED HeldKeys
  BY DEF ServerHalf, HeldKeys, Get, idify
<1>2. UNCHANGED SignedFor
  BY DEF SignedFor, S!Crash
<1>3. HeldKeys \subseteq ToldKeys' /\ ToldKeys' \subseteq ToldKeys
  BY DEF HeldKeys, Told
<1> QED
  BY <1>1, <1>2, <1>3 DEF Life!Untell

LEMMA StepIsLife == GInv /\ [GothamNext]_gothamVars => [Life!KeyNext]_(Life!keyVars)
<1> SUFFICES ASSUME GInv, [GothamNext]_gothamVars PROVE [Life!KeyNext]_(Life!keyVars)
  OBVIOUS
<1>1. ASSUME NEW k \in Sessions, KeygenStep(k), UNCHANGED signOnly
      PROVE  [Life!KeyNext]_(Life!keyVars)
  BY <1>1, ClientStepIsLife, PutIsLife DEF Life!KeyNext, KeygenStep, HandlerStep
<1>2. ASSUME NEW s \in Signings, SigningStep(s), UNCHANGED keygenOnly
      PROVE  [Life!KeyNext]_(Life!keyVars)
  BY <1>2, SigningStepIsLife DEF Life!KeyNext
<1>3. CASE Crash /\ S!Crash
  BY <1>3, CrashIsLife DEF Life!KeyNext
<1>4. CASE UNCHANGED gothamVars
  BY <1>4 DEF gothamVars, serverVars, keygenOnly, signOnly, Life!keyVars, ServerHalf,
     ToldKeys, HeldKeys, SignedFor, Get, idify
<1> QED
  BY <1>1, <1>2, <1>3, <1>4 DEF GothamNext, KeygenStep, SigningStep

\* The server and its clients implement the life of keys: the server's half of a
\* key is made once, for that key, and outlives every restart; a client's half is
\* not given out before the server said it has the other; and nobody signs
\* without both, under every failure of the model.
THEOREM LifeOfKeys == GothamSpec => GothamImplementsKeyLife
  BY InitIsKeyInit, StepIsLife, Invariance, PTL
  DEF GothamSpec, GothamImplementsKeyLife, Life!KeySpec
=============================================================================
