---------------------------- MODULE BindingsProofs ----------------------------
(* What holds of Bindings for every set of wallets, threads and paths, and   *)
(* for every number of texts.                                                *)
EXTENDS Bindings, TLAPS

(***************************************************************************)
(* The inductive invariant: what an app can have of each kind, whatever it *)
(* passed to which function.                                               *)
(***************************************************************************)

\* The key of a wallet's child, the one both parties sign with.
Whole(wallet, path) == Factors(One(wallet, wallet, path)) \cup Factors(Two(wallet, path))

Named(text) ==
    /\ text.kind \in {"mk1", "mk2", "signature", "key"}
    /\ text.wallet \in Wallets \cup {None} /\ text.path \in Paths \cup {Root}

\* A half of the server, of whichever wallet the package was.
GoodOne(text) ==
    /\ text.wallet \in Wallets
    /\ \E package \in Wallets : text.key = One(package, text.wallet, text.path)

\* The client's half.
GoodTwo(text) == text.wallet \in Wallets /\ text.key = Two(text.wallet, text.path)

GoodSignature(text) ==
    text.wallet \in Wallets /\ text.path \in Paths /\ text.key = Whole(text.wallet, text.path)

\* A key with both secrets of the wallet it is for.
GoodKey(text) ==
    (/\ text.wallet # None /\ text.path # None
     /\ {<<"x1", text.wallet>>, <<"x2", text.wallet>>} \subseteq text.key)
    => text.key = Whole(text.wallet, text.path)

Good(text) ==
    /\ Named(text)
    /\ text.kind = "mk1" /\ ~IsError(text) => GoodOne(text)
    /\ text.kind = "mk2" /\ ~IsError(text) => GoodTwo(text)
    /\ text.kind = "signature" /\ ~IsError(text) => GoodSignature(text)
    /\ text.kind = "key" => GoodKey(text)

KeygenCalls == [name : {"keygen"}, wallet : Wallets]
SignCalls == [name : {"sign"}, wallet : Wallets, path : Paths, half : Halves]

Calls == calls \in [Threads -> {None} \cup KeygenCalls \cup SignCalls]

BInv == /\ flavour \in {"C", "JNI"} /\ alive \in BOOLEAN
        /\ Saved \subseteq served /\ served \subseteq Wallets
        /\ \A text \in texts : Good(text)
        /\ Calls
        /\ NoSilentOrphan

(***************************************************************************)
(* Data.                                                                   *)
(***************************************************************************)

LEMMA TwoType ==
    ASSUME NEW w \in Wallets, NEW path \in Paths \cup {Root}
    PROVE  Two(w, path) \in Halves
  BY DEF Two, Half, Halves

LEMMA OneType ==
    ASSUME NEW w \in Wallets, NEW public \in Wallets, NEW path \in Paths \cup {Root}
    PROVE  One(w, public, path) \in Halves /\ One(w, public, path).secret = "x1"
  BY DEF One, Half, Halves

LEMMA TextFields ==
    ASSUME NEW kind, NEW wallet, NEW path, NEW key
    PROVE  /\ Text(kind, wallet, path, key).kind = kind
           /\ Text(kind, wallet, path, key).wallet = wallet
           /\ Text(kind, wallet, path, key).path = path
           /\ Text(kind, wallet, path, key).key = key
  BY DEF Text

LEMMA ChildOfTwo ==
    ASSUME NEW w \in Wallets, NEW path \in Paths
    PROVE  Child(Two(w, Root), path) = Two(w, path)
  BY DEF Child, Two, Half

LEMMA ChildOfOne ==
    ASSUME NEW package, NEW w, NEW path
    PROVE  Child(One(package, w, Root), path) = One(package, w, path)
  BY DEF Child, One, Half

\* A base secret is a factor of its own half only: the tweak has a path besides.
LEMMA SecretOf ==
    ASSUME NEW half, NEW secret, NEW w, <<secret, w>> \in Factors(half)
    PROVE  secret = half.secret /\ w = half.wallet
<1>1. <<secret, w>> # <<half.secret, half.public, half.path>>
  OBVIOUS
<1>2. <<secret, w>> = <<half.secret, half.wallet>>
  BY <1>1 DEF Factors
<1> QED
  BY <1>2

\* The product of two halves of a wallet's address with both of its secrets in it
\* has one half of each party, the server's from the right package.
LEMMA ProductIsWhole ==
    ASSUME NEW one, NEW two, NEW w, NEW path,
           \/ one = Two(w, path) \/ \E package \in Wallets : one = One(package, w, path),
           \/ two = Two(w, path) \/ \E package \in Wallets : two = One(package, w, path),
           {<<"x1", w>>, <<"x2", w>>} \subseteq Factors(one) \cup Factors(two)
    PROVE  Factors(one) \cup Factors(two) = Whole(w, path)
<1>1. Two(w, path).secret = "x2"
  BY DEF Two, Half
<1>2. \A package : One(package, w, path).secret = "x1" /\ One(package, w, path).wallet = package
  BY DEF One, Half
<1>3. \A half : <<"x1", w>> \in Factors(half) => half.secret = "x1" /\ half.wallet = w
  BY SecretOf
<1>4. \A half : <<"x2", w>> \in Factors(half) => half.secret = "x2"
  BY SecretOf
<1>5. \E half \in {one, two} : half = One(w, w, path)
  BY <1>1, <1>2, <1>3
<1>6. \E half \in {one, two} : half = Two(w, path)
  BY <1>1, <1>2, <1>4
<1>7. One(w, w, path) # Two(w, path)
  BY <1>1, <1>2
<1> QED
  BY <1>5, <1>6, <1>7 DEF Whole

\* The text of an error is good for everything but a key.
LEMMA ErrorIsGood ==
    ASSUME NEW kind \in {"mk1", "mk2", "signature"}, NEW wallet \in Wallets \cup {None},
           NEW path \in Paths \cup {Root}
    PROVE  Good(Text(kind, wallet, path, None))
  BY TextFields DEF Good, Named, IsError

LEMMA ShareIsGood ==
    ASSUME NEW w \in Wallets
    PROVE  Good(Share(w))
<1>1. Share(w).kind = "mk2" /\ Share(w).wallet = w /\ Share(w).path = Root
      /\ Share(w).key = Two(w, Root)
  BY TextFields DEF Share
<1> QED
  BY <1>1 DEF Good, Named, GoodTwo

(***************************************************************************)
(* The steps.                                                              *)
(***************************************************************************)

LEMMA InitBInv == Init => BInv
<1> SUFFICES ASSUME Init PROVE BInv
  OBVIOUS
<1>1. \A text \in texts : Good(text)
  BY ShareIsGood, BindingsConstants DEF Init
<1>2. NoSilentOrphan
  BY DEF Init, NoSilentOrphan
<1> QED
  BY <1>1, <1>2, BindingsConstants DEF Init, BInv, Calls

\* A call that ends at once, with a good text or the app.
LEMMA ReturnStep ==
    ASSUME BInv, NEW text, Good(text), Return(text), UNCHANGED <<calls, served>>
    PROVE  BInv'
<1>1. texts \subseteq texts' /\ \A x \in texts' : Good(x)
  BY DEF Return, BInv
<1>2. NoSilentOrphan'
  BY <1>1 DEF Return, BInv, NoSilentOrphan
<1> QED
  BY <1>1, <1>2 DEF Return, BInv, Calls

LEMMA AbortStep ==
    ASSUME BInv, Abort, UNCHANGED <<calls, served>>
    PROVE  BInv'
  BY DEF Abort, BInv, Calls, NoSilentOrphan

LEMMA PostStep ==
    ASSUME BInv, NEW t \in Threads, NEW call \in KeygenCalls \cup SignCalls, Post(t, call)
    PROVE  BInv'
<1>1. Calls'
  BY DEF Post, BInv, Calls
<1>2. NoSilentOrphan'
  BY DEF Post, BInv, NoSilentOrphan, Calls
<1> QED
  BY <1>1, <1>2 DEF Post, BInv

LEMMA GenerateStep ==
    ASSUME BInv, NEW t \in Threads, Generate(t)
    PROVE  BInv'
<1>1. PICK w \in Wallets : Post(t, [name |-> "keygen", wallet |-> w])
  BY DEF Generate
<1>2. [name |-> "keygen", wallet |-> w] \in KeygenCalls
  BY DEF KeygenCalls
<1> QED
  BY <1>1, <1>2, PostStep

LEMMA SignStep ==
    ASSUME BInv, NEW t \in Threads, NEW share \in texts, NEW path \in Paths, NEW argument,
           Sign(t, share, path, argument)
    PROVE  BInv'
<1>1. share.wallet \in Wallets \cup {None} /\ (~IsError(share) => GoodTwo(share))
  BY DEF BInv, Good, Named, Sign
<1>2. CASE Return(Text("signature", share.wallet, path, None)) /\ UNCHANGED <<calls, served>>
  BY <1>1, <1>2, ErrorIsGood, ReturnStep
<1>3. CASE Abort /\ UNCHANGED <<calls, served>>
  BY <1>3, AbortStep
<1>4. CASE /\ ~IsError(share)
           /\ Post(t, [name |-> "sign", wallet |-> share.wallet, path |-> path,
                       half |-> Child(share.key, path)])
  <2>1. share.wallet \in Wallets /\ share.key = Two(share.wallet, Root)
    BY <1>1, <1>4 DEF GoodTwo, Sign
  <2>2. Child(share.key, path) \in Halves
    BY <2>1, ChildOfTwo, TwoType
  <2>3. [name |-> "sign", wallet |-> share.wallet, path |-> path,
         half |-> Child(share.key, path)] \in SignCalls
    BY <2>1, <2>2 DEF SignCalls
  <2> QED
    BY <1>4, <2>3, PostStep
<1> QED
  BY <1>2, <1>3, <1>4 DEF Sign

LEMMA RecoverStep ==
    ASSUME BInv, NEW share \in texts, NEW package \in Wallets, NEW y, NEW argument,
           Recover(share, package, y, argument)
    PROVE  BInv'
<1> DEFINE text == Text("mk1", share.wallet, Root, One(package, share.wallet, Root))
<1>0. share.wallet \in Wallets \cup {None} /\ (~IsError(share) => GoodTwo(share))
  BY DEF BInv, Good, Named, Recover
<1>1. CASE Abort
  BY <1>1, AbortStep DEF Recover
<1>2. CASE Return(Text("mk1", share.wallet, Root, None))
  BY <1>0, <1>2, ErrorIsGood, ReturnStep DEF Recover
<1>3. CASE ~IsError(share) /\ Return(text)
  <2>1. share.wallet \in Wallets
    BY <1>0, <1>3 DEF GoodTwo
  <2>2. text.kind = "mk1" /\ text.wallet = share.wallet /\ text.path = Root
        /\ text.key = One(package, share.wallet, Root)
    BY TextFields
  <2> HIDE DEF text
  <2>3. Good(text)
    BY <2>1, <2>2 DEF Good, Named, GoodOne
  <2> QED
    BY <1>3, <2>3, ReturnStep DEF Recover
<1> QED
  BY <1>1, <1>2, <1>3 DEF Recover

LEMMA DeriveStep ==
    ASSUME BInv, NEW kind \in {"mk1", "mk2"}, NEW master \in texts, NEW path \in Paths,
           NEW argument, Derive(kind, master, path, path, argument)
    PROVE  BInv'
<1> DEFINE text == Text(kind, master.wallet, path, Child(master.key, path))
<1>1. CASE Abort
  BY <1>1, AbortStep DEF Derive
<1>2. CASE ~IsError(master) /\ Return(text)
  <2>0. master.wallet \in Wallets \cup {None} /\ master.kind = kind /\ master.path = Root
    BY DEF BInv, Good, Named, Derive
  <2>1. text.kind = kind /\ text.wallet = master.wallet /\ text.path = path
        /\ text.key = Child(master.key, path)
    BY TextFields
  <2> HIDE DEF text
  <2>2. CASE kind = "mk1"
    <3>1. PICK package \in Wallets : master.key = One(package, master.wallet, Root)
      BY <1>2, <2>0, <2>2 DEF BInv, Good, GoodOne
    <3>2. text.key = One(package, text.wallet, text.path)
      BY <2>1, <3>1, ChildOfOne
    <3>3. text.wallet \in Wallets
      BY <1>2, <2>0, <2>1, <2>2 DEF BInv, Good, GoodOne
    <3>4. Good(text)
      BY <2>1, <2>2, <3>2, <3>3 DEF Good, Named, GoodOne
    <3> QED
      BY <1>2, <3>4, ReturnStep DEF Derive
  <2>3. CASE kind = "mk2"
    <3>1. master.wallet \in Wallets /\ master.key = Two(master.wallet, Root)
      BY <1>2, <2>0, <2>3 DEF BInv, Good, GoodTwo
    <3>2. Good(text)
      BY <2>0, <2>1, <2>3, <3>1, ChildOfTwo DEF Good, Named, GoodTwo
    <3> QED
      BY <1>2, <3>2, ReturnStep DEF Derive
  <2> QED
    BY <2>2, <2>3
<1> QED
  BY <1>1, <1>2 DEF Derive

LEMMA MultiplyStep ==
    ASSUME BInv, NEW one \in texts, NEW two \in texts, NEW argument, Multiply(one, two, argument)
    PROVE  BInv'
<1> DEFINE wallet == Both(one, two, "wallet")
           path == Both(one, two, "path")
           text == Text("key", wallet, path, Factors(one.key) \cup Factors(two.key))
<1>1. CASE Abort
  BY <1>1, AbortStep DEF Multiply
<1>2. CASE ~IsError(one) /\ ~IsError(two) /\ Return(text)
  <2>1. /\ Named(one) /\ (GoodOne(one) \/ GoodTwo(one))
        /\ Named(two) /\ (GoodOne(two) \/ GoodTwo(two))
    BY <1>2 DEF BInv, Good, Multiply
  <2>2. wallet \in Wallets \cup {None} /\ path \in Paths \cup {Root}
    BY <2>1 DEF Both, Named, Root
  <2>3. wallet # None => wallet = one.wallet /\ wallet = two.wallet
    BY DEF Both
  <2>4. path # None => path = one.path /\ path = two.path
    BY DEF Both
  <2> HIDE DEF wallet, path
  <2>5. text.kind = "key" /\ text.wallet = wallet /\ text.path = path
        /\ text.key = Factors(one.key) \cup Factors(two.key)
    BY TextFields
  <2> HIDE DEF text
  <2>6. GoodKey(text)
    <3> SUFFICES ASSUME wallet # None, path # None,
                        {<<"x1", wallet>>, <<"x2", wallet>>} \subseteq Factors(one.key) \cup Factors(two.key)
                 PROVE  Factors(one.key) \cup Factors(two.key) = Whole(wallet, path)
      BY <2>5 DEF GoodKey
    <3>1. \/ one.key = Two(wallet, path)
          \/ \E package \in Wallets : one.key = One(package, wallet, path)
      BY <2>1, <2>3, <2>4 DEF GoodOne, GoodTwo
    <3>2. \/ two.key = Two(wallet, path)
          \/ \E package \in Wallets : two.key = One(package, wallet, path)
      BY <2>1, <2>3, <2>4 DEF GoodOne, GoodTwo
    <3> QED
      BY <3>1, <3>2, ProductIsWhole
  <2>7. Good(text)
    BY <2>2, <2>5, <2>6 DEF Good, Named
  <2> QED
    BY <1>2, <2>7, ReturnStep DEF Multiply
<1> QED
  BY <1>1, <1>2 DEF Multiply

LEMMA ClientCallsStep == BInv /\ ClientCalls => BInv'
<1> SUFFICES ASSUME BInv, NEW t \in Threads, NEW argument \in Arguments,
                    \/ get_client_master_key(t, argument) \/ getClientMasterKey(t, argument)
                    \/ \E share \in texts, path \in Paths :
                          \/ sign_message(t, share, path, argument)
                          \/ signMessage(t, share, path, argument)
             PROVE  BInv'
  BY DEF ClientCalls
<1>1. CASE get_client_master_key(t, argument)
  BY <1>1, GenerateStep, AbortStep DEF get_client_master_key
<1>2. CASE getClientMasterKey(t, argument)
  <2>1. Good(Text("mk2", None, Root, None))
    BY ErrorIsGood
  <2> QED
    BY <1>2, <2>1, GenerateStep, ReturnStep DEF getClientMasterKey
<1>3. ASSUME NEW share \in texts, NEW path \in Paths,
             sign_message(t, share, path, argument) \/ signMessage(t, share, path, argument)
      PROVE  BInv'
  BY <1>3, SignStep DEF sign_message, signMessage
<1> QED
  BY <1>1, <1>2, <1>3

LEMMA RecoveryCallsStep == BInv /\ RecoveryCalls => BInv'
<1> SUFFICES ASSUME BInv, NEW argument \in Arguments, NEW text \in texts,
                    \/ \E package \in Wallets, y \in Ys :
                          \/ decrypt_party_one_master_key(text, package, y, argument)
                          \/ decryptPartyOneMasterKey(text, package, y, argument)
                    \/ \E path \in Paths :
                          \/ get_child_mk1(text, path, argument) \/ getChildMk1(text, path, argument)
                          \/ get_child_mk2(text, path, argument) \/ getChildMk2(text, path, argument)
                    \/ \E two \in texts :
                          \/ construct_single_private_key(text, two, argument)
                          \/ constructSinglePrivateKey(text, two, argument)
             PROVE  BInv'
  BY DEF RecoveryCalls
<1>1. ASSUME NEW package \in Wallets, NEW y \in Ys,
             \/ decrypt_party_one_master_key(text, package, y, argument)
             \/ decryptPartyOneMasterKey(text, package, y, argument)
      PROVE  BInv'
  BY <1>1, RecoverStep DEF decrypt_party_one_master_key, decryptPartyOneMasterKey
<1>2. ASSUME NEW path \in Paths,
             \/ get_child_mk1(text, path, argument) \/ getChildMk1(text, path, argument)
             \/ get_child_mk2(text, path, argument) \/ getChildMk2(text, path, argument)
      PROVE  BInv'
  BY <1>2, DeriveStep DEF get_child_mk1, getChildMk1, get_child_mk2, getChildMk2
<1>3. ASSUME NEW two \in texts,
             \/ construct_single_private_key(text, two, argument)
             \/ constructSinglePrivateKey(text, two, argument)
      PROVE  BInv'
  BY <1>3, MultiplyStep DEF construct_single_private_key, constructSinglePrivateKey
<1> QED
  BY <1>1, <1>2, <1>3

LEMMA KeygenStep ==
    ASSUME BInv, NEW t \in Threads, ServerKeygen(t) \/ KeygenEnds(t)
    PROVE  BInv'
<1>1. calls[t] # None /\ calls[t].name = "keygen"
  BY DEF ServerKeygen, KeygenEnds, KeygenReturns, KeygenFails
<1>2. calls[t].wallet \in Wallets
  BY <1>1 DEF BInv, Calls, KeygenCalls, SignCalls
<1>3. CASE ServerKeygen(t)
  BY <1>1, <1>2, <1>3 DEF ServerKeygen, BInv, Calls, NoSilentOrphan
<1>4. CASE KeygenReturns(t)
  <2>1. /\ texts' = texts \cup {Share(calls[t].wallet)}
        /\ calls' = [calls EXCEPT ![t] = None] /\ UNCHANGED <<flavour, alive, served>>
    BY <1>4 DEF KeygenReturns, Return
  <2>2. \A x \in texts' : Good(x)
    BY <1>2, <2>1, ShareIsGood DEF BInv
  <2>3. NoSilentOrphan'
    BY <1>2, <2>1 DEF BInv, NoSilentOrphan, Calls
  <2>4. Calls'
    BY <2>1 DEF BInv, Calls
  <2> QED
    BY <2>1, <2>2, <2>3, <2>4 DEF BInv
<1>5. CASE KeygenFails(t)
  BY <1>5, AbortStep DEF KeygenFails
<1> QED
  BY <1>3, <1>4, <1>5 DEF KeygenEnds

LEMMA SignEndsStep ==
    ASSUME BInv, NEW t \in Threads, SignEnds(t)
    PROVE  BInv'
<1>1. calls[t] # None /\ calls[t].name = "sign"
  BY DEF SignEnds, SignReturns, SignFails
<1>2. calls[t].wallet \in Wallets /\ calls[t].path \in Paths
  BY <1>1 DEF BInv, Calls, KeygenCalls, SignCalls
<1>3. PICK key : /\ Return(Text("signature", calls[t].wallet, calls[t].path, key))
                 /\ key \in {None, Whole(calls[t].wallet, calls[t].path)}
  BY DEF SignEnds, SignReturns, SignFails, Whole
<1> DEFINE text == Text("signature", calls[t].wallet, calls[t].path, key)
<1>4. Good(text)
  <2>1. text.kind = "signature" /\ text.wallet = calls[t].wallet /\ text.path = calls[t].path
        /\ text.key = key
    BY TextFields
  <2> HIDE DEF text
  <2> QED
    BY <1>2, <1>3, <2>1 DEF Good, Named, GoodSignature, IsError
<1>5. calls' = [calls EXCEPT ![t] = None] /\ UNCHANGED served
  BY DEF SignEnds, SignReturns, SignFails
<1>6. texts' = texts \cup {text} /\ UNCHANGED <<flavour, alive>>
  BY <1>3 DEF Return
<1> HIDE DEF text
<1>7. \A x \in texts' : Good(x)
  BY <1>4, <1>6 DEF BInv
<1>8. NoSilentOrphan'
  BY <1>1, <1>5, <1>6 DEF BInv, NoSilentOrphan, Calls
<1>9. Calls'
  BY <1>5 DEF BInv, Calls
<1> QED
  BY <1>5, <1>6, <1>7, <1>8, <1>9 DEF BInv

LEMMA Invariance == Spec => []BInv
<1>1. BInv /\ UNCHANGED bindingsVars => BInv'
  BY DEF bindingsVars, BInv, Calls, NoSilentOrphan
<1>2. BInv /\ [Next]_bindingsVars => BInv'
  BY <1>1, ClientCallsStep, RecoveryCallsStep, KeygenStep, SignEndsStep DEF Next
<1> QED
  BY InitBInv, <1>2, PTL DEF Spec

(***************************************************************************)
(* The theorems.                                                           *)
(***************************************************************************)

\* What the functions return is what the next function takes it for.
THEOREM BindingsTypeCorrect == Spec => []BindingsTypeOK
<1>1. BInv => BindingsTypeOK
  <2> SUFFICES ASSUME BInv PROVE BindingsTypeOK
    OBVIOUS
  <2>1. ASSUME NEW text \in texts
        PROVE  /\ text.kind \in {"mk1", "mk2", "signature", "key"}
               /\ text.wallet \in Wallets \cup {None} /\ text.path \in Paths \cup {Root}
               /\ text.kind \in {"mk1", "mk2"} => text.key \in Halves \cup {None}
    <3>1. Good(text) /\ Named(text)
      BY DEF BInv, Good
    <3>2. CASE text.kind = "mk2" /\ ~IsError(text)
      BY <3>1, <3>2, TwoType DEF Good, GoodTwo, Named
    <3>3. CASE text.kind = "mk1" /\ ~IsError(text)
      BY <3>1, <3>3, OneType DEF Good, GoodOne, Named
    <3>4. CASE text.kind \notin {"mk1", "mk2"} \/ IsError(text)
      BY <3>1, <3>4 DEF Named, IsError
    <3> QED
      BY <3>1, <3>2, <3>3, <3>4 DEF Named
  <2>2. \A t \in Threads : calls[t] = None \/ calls[t].wallet \in Wallets
    BY DEF BInv, Calls, KeygenCalls, SignCalls
  <2> QED
    BY <2>1, <2>2 DEF BInv, BindingsTypeOK
<1> QED
  BY Invariance, <1>1, PTL

\* Whatever an app calls with which of its halves, in which order, a private key for
\* an address that has the wallet's secrets of both parties in it is the one its
\* signatures are made with.
THEOREM RecoveryIsTheSigningKey == Spec => []RecoveredSignsAlike
<1>1. BInv => RecoveredSignsAlike
  <2> SUFFICES ASSUME BInv, NEW key \in texts, NEW signature \in texts,
                      key.kind = "key", signature.kind = "signature", ~IsError(signature),
                      key.wallet = signature.wallet, key.path = signature.path,
                      {<<"x1", key.wallet>>, <<"x2", key.wallet>>} \subseteq key.key
               PROVE  key.key = signature.key
    BY DEF RecoveredSignsAlike
  <2>1. GoodKey(key) /\ GoodSignature(signature)
    BY DEF BInv, Good
  <2>2. key.wallet # None /\ key.path # None
    BY <2>1, BindingsConstants DEF GoodSignature, Root
  <2> QED
    BY <2>1, <2>2 DEF GoodKey, GoodSignature
<1> QED
  BY Invariance, <1>1, PTL

\* A key generation that loses what the server has stored takes the app with it.
THEOREM OrphansAreLoud == Spec => []NoSilentOrphan
<1>1. BInv => NoSilentOrphan
  BY DEF BInv
<1> QED
  BY Invariance, <1>1, PTL
=============================================================================
