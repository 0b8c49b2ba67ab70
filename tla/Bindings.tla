------------------------------- MODULE Bindings -------------------------------
(***************************************************************************)
(* gotham-client as a library of C and of JNI functions: keygen.rs,        *)
(* sign.rs and recover.rs of its ecdsa module.  Everything goes in and out *)
(* as text, errors too, so an app can hand the text of an error to the     *)
(* next function.  A panic may not unwind out of an extern "C" function:   *)
(* it takes the app with it, whatever its other threads are doing.         *)
(*                                                                         *)
(* Secrets are symbols, and a private key is the set of its factors.  The  *)
(* app passes each function texts of the kind it parses, or text that does *)
(* not parse, and derives children of master keys only, as both wallets    *)
(* do.  Whose texts they are and how they fit together is up to the app.   *)
(***************************************************************************)
EXTENDS Integers, FiniteSets

CONSTANTS
    Wallets,    \* the ids of key generations
    Saved,      \* those the app has a share of when it starts
    Threads,    \* the app's threads
    Paths,      \* pairs <<x_pos, y_pos>>
    TextLimit,  \* how many texts the app keeps
    None

Root == None    \* the path of a master key

\* What the app may pass for an argument it should know: something that is not
\* UTF-8, or text that is not the JSON (or the hex) it should be.
Arguments == {"fine", "unreadable", "malformed"}

ASSUME BindingsConstants ==
    /\ Saved \subseteq Wallets
    /\ Root \notin Paths /\ None \notin Wallets
    /\ TextLimit \in Nat

VARIABLES
    flavour,    \* which functions this app is linked with
    alive,      \* the app runs
    texts,      \* what its calls returned and it kept
    calls,      \* the call to the server each thread is in, or None
    served      \* the wallets the server has its half of

bindingsVars == <<flavour, alive, texts, calls, served>>

\* A half of a wallet's key: a secret, and the public key and the path it was
\* derived for.
Half(secret, wallet, public, path) ==
    [secret |-> secret, wallet |-> wallet, public |-> public, path |-> path]
One(wallet, public, path) == Half("x1", wallet, public, path)
Two(wallet, path) == Half("x2", wallet, wallet, path)

\* The tweak of a child depends on the public key and on the path.
Factors(half) ==
    {<<half.secret, half.wallet>>, <<half.secret, half.public, half.path>>}

\* A text: what the app takes it for (the kind, the wallet and the path it asked
\* for), and the key that is in it; None is the text of an error.
Text(kind, wallet, path, key) ==
    [kind |-> kind, wallet |-> wallet, path |-> path, key |-> key]
Share(wallet) == Text("mk2", wallet, Root, Two(wallet, Root))
IsError(text) == text.key = None

Init ==
    /\ flavour \in {"C", "JNI"}
    /\ alive = TRUE
    /\ texts = {Share(w) : w \in Saved}
    /\ calls = [t \in Threads |-> None]
    /\ served = Saved

-----------------------------------------------------------------------------
Pending == {t \in Threads : calls[t] # None}

Call(name) ==
    /\ alive /\ flavour = name
    /\ Cardinality(texts) + Cardinality(Pending) < TextLimit

Return(text) ==
    /\ texts' = texts \cup {text}
    /\ UNCHANGED <<flavour, alive>>

Abort ==
    /\ alive' = FALSE
    /\ UNCHANGED <<flavour, texts>>

Post(t, call) ==
    /\ calls[t] = None
    /\ calls' = [calls EXCEPT ![t] = call]
    /\ UNCHANGED <<flavour, alive, texts, served>>

-----------------------------------------------------------------------------
(* Key generation.  Any failure of it panics, see Keygen.  The server has   *)
(* its half before the last answer, whatever becomes of that.               *)

Generate(t) ==
    \E w \in Wallets \ served :
        /\ \A other \in Pending : calls[other].wallet # w
        /\ Post(t, [name |-> "keygen", wallet |-> w])

get_client_master_key(t, argument) ==
    /\ Call("C") /\ calls[t] = None
    /\ \/ argument = "fine" /\ Generate(t)
       \/ argument = "unreadable" /\ Abort /\ UNCHANGED <<calls, served>>

getClientMasterKey(t, argument) ==
    /\ Call("JNI") /\ calls[t] = None
    /\ \/ argument = "fine" /\ Generate(t)
       \/ argument = "unreadable" /\ Return(Text("mk2", None, Root, None))
          /\ UNCHANGED <<calls, served>>

ServerKeygen(t) ==
    /\ calls[t] # None /\ calls[t].name = "keygen"
    /\ served' = served \cup {calls[t].wallet}
    /\ UNCHANGED <<flavour, alive, texts, calls>>

KeygenReturns(t) ==
    /\ alive /\ calls[t] # None /\ calls[t].name = "keygen" /\ calls[t].wallet \in served
    /\ Return(Share(calls[t].wallet))
    /\ calls' = [calls EXCEPT ![t] = None]
    /\ UNCHANGED served

\* Mutant: the panic is caught and made an error text.
KeygenFailsSoftly(t) ==
    /\ alive /\ calls[t] # None /\ calls[t].name = "keygen"
    /\ Return(Text("mk2", None, Root, None))
    /\ calls' = [calls EXCEPT ![t] = None]
    /\ UNCHANGED served

KeygenFails(t) ==
    /\ alive /\ calls[t] # None /\ calls[t].name = "keygen"
    /\ Abort
    /\ UNCHANGED <<calls, served>>

-----------------------------------------------------------------------------
(* Signing. *)

\* Mutant: one of the two positions is used.
LastPosition(half, path) == [half EXCEPT !.path = <<path[2]>>]

\* MasterKey1::get_child and MasterKey2::get_child.
Child(half, path) == [half EXCEPT !.path = path]

\* The texts are decoded first, which fails with an error text; then the JSON is
\* parsed, which panics; only then is anything sent.
Sign(t, share, path, argument) ==
    /\ calls[t] = None
    /\ share.kind = "mk2" /\ share.path = Root
    /\ \/ /\ argument = "unreadable"
          /\ Return(Text("signature", share.wallet, path, None))
          /\ UNCHANGED <<calls, served>>
       \/ /\ argument = "malformed" \/ (argument = "fine" /\ IsError(share))
          /\ Abort /\ UNCHANGED <<calls, served>>
       \/ /\ argument = "fine" /\ ~IsError(share)
          /\ Post(t, [name |-> "sign", wallet |-> share.wallet, path |-> path,
                      half |-> Child(share.key, path)])

sign_message(t, share, path, argument) == Call("C") /\ Sign(t, share, path, argument)
signMessage(t, share, path, argument) == Call("JNI") /\ Sign(t, share, path, argument)

\* The server derives its own half at the positions it was sent, and answers only
\* with a signature that verifies for the two.
SignReturns(t) ==
    /\ alive /\ calls[t] # None /\ calls[t].name = "sign"
    /\ LET c == calls[t]
           mine == One(c.wallet, c.wallet, c.path)
       IN  /\ c.half = Two(c.wallet, c.path)
           /\ Return(Text("signature", c.wallet, c.path, Factors(mine) \cup Factors(c.half)))
    /\ calls' = [calls EXCEPT ![t] = None]
    /\ UNCHANGED served

SignFails(t) ==
    /\ alive /\ calls[t] # None /\ calls[t].name = "sign"
    /\ Return(Text("signature", calls[t].wallet, calls[t].path, None))
    /\ calls' = [calls EXCEPT ![t] = None]
    /\ UNCHANGED served

-----------------------------------------------------------------------------
(* Recovery, once the escrow's key is published: the secret of the server   *)
(* is decrypted, both halves are derived for an address, and multiplied.    *)

Ys == {"right", "wrong"}      \* the key of the escrow, or something else

\* `package` is the wallet whose server secret the encryption holds; nothing
\* compares it with the share, and what comes out is the app's mk1 of the share's
\* wallet whichever it was.
Recover(share, package, y, argument) ==
    /\ share.kind = "mk2" /\ share.path = Root /\ package \in served
    /\ \/ /\ argument # "fine" \/ IsError(share)
          /\ Abort
       \/ /\ argument = "fine" /\ ~IsError(share) /\ y # "right"
          /\ Return(Text("mk1", share.wallet, Root, None))
       \/ /\ argument = "fine" /\ ~IsError(share) /\ y = "right"
          /\ Return(Text("mk1", share.wallet, Root, One(package, share.wallet, Root)))
    /\ UNCHANGED <<calls, served>>

decrypt_party_one_master_key(share, package, y, argument) ==
    Call("C") /\ Recover(share, package, y, argument)
decryptPartyOneMasterKey(share, package, y, argument) ==
    Call("JNI") /\ Recover(share, package, y, argument)

\* `path` is what the app asked for, `location` what the function makes of it.
Derive(kind, master, path, location, argument) ==
    /\ master.kind = kind /\ master.path = Root
    /\ \/ (argument # "fine" \/ IsError(master)) /\ Abort
       \/ /\ argument = "fine" /\ ~IsError(master)
          /\ Return(Text(kind, master.wallet, path, Child(master.key, location)))
    /\ UNCHANGED <<calls, served>>

\* Mutant: the positions are swapped.
get_child_mk1_swapped(master, path, argument) ==
    Call("C") /\ Derive("mk1", master, path, <<path[2], path[1]>>, argument)

get_child_mk1(master, path, argument) ==
    Call("C") /\ Derive("mk1", master, path, path, argument)
getChildMk1(master, path, argument) ==
    Call("JNI") /\ Derive("mk1", master, path, path, argument)
get_child_mk2(master, path, argument) ==
    Call("C") /\ Derive("mk2", master, path, path, argument)
getChildMk2(master, path, argument) ==
    Call("JNI") /\ Derive("mk2", master, path, path, argument)

Both(a, b, field) == IF a[field] = b[field] THEN a[field] ELSE None

\* The app takes the secrets out of the texts of any two halves, of whichever
\* party; from_hex panics for what is not a hex number, as JSON is not.
Multiply(one, two, argument) ==
    /\ {one.kind, two.kind} \subseteq {"mk1", "mk2"}
    /\ \/ /\ argument # "fine" \/ IsError(one) \/ IsError(two)
          /\ Abort
       \/ /\ argument = "fine" /\ ~IsError(one) /\ ~IsError(two)
          /\ Return(Text("key", Both(one, two, "wallet"), Both(one, two, "path"),
                         Factors(one.key) \cup Factors(two.key)))
    /\ UNCHANGED <<calls, served>>

construct_single_private_key(one, two, argument) == Call("C") /\ Multiply(one, two, argument)
constructSinglePrivateKey(one, two, argument) == Call("JNI") /\ Multiply(one, two, argument)

-----------------------------------------------------------------------------
(* The app: any thread, any function, any of its texts. *)

ClientCalls ==
    \E t \in Threads, argument \in Arguments :
        \/ get_client_master_key(t, argument) \/ getClientMasterKey(t, argument)
        \/ \E share \in texts, path \in Paths :
              sign_message(t, share, path, argument) \/ signMessage(t, share, path, argument)

RecoveryCalls ==
    \E argument \in Arguments, text \in texts :
        \/ \E package \in Wallets, y \in Ys :
              \/ decrypt_party_one_master_key(text, package, y, argument)
              \/ decryptPartyOneMasterKey(text, package, y, argument)
        \/ \E path \in Paths :
              \/ get_child_mk1(text, path, argument) \/ getChildMk1(text, path, argument)
              \/ get_child_mk2(text, path, argument) \/ getChildMk2(text, path, argument)
        \/ \E two \in texts :
              \/ construct_single_private_key(text, two, argument)
              \/ constructSinglePrivateKey(text, two, argument)

KeygenEnds(t) == KeygenReturns(t) \/ KeygenFails(t)
SignEnds(t) == SignReturns(t) \/ SignFails(t)

Next ==
    \/ ClientCalls
    \/ RecoveryCalls
    \/ \E t \in Threads : ServerKeygen(t) \/ KeygenEnds(t) \/ SignEnds(t)

Spec == Init /\ [][Next]_bindingsVars

-----------------------------------------------------------------------------
(* Properties. *)

Halves == [secret : {"x1", "x2"}, wallet : Wallets, public : Wallets, path : Paths \cup {Root}]

BindingsTypeOK ==
    /\ flavour \in {"C", "JNI"} /\ alive \in BOOLEAN
    /\ Saved \subseteq served /\ served \subseteq Wallets
    /\ \A text \in texts :
          /\ text.kind \in {"mk1", "mk2", "signature", "key"}
          /\ text.wallet \in Wallets \cup {None} /\ text.path \in Paths \cup {Root}
          /\ text.kind \in {"mk1", "mk2"} => text.key \in Halves \cup {None}
    /\ \A t \in Threads : calls[t] = None \/ calls[t].wallet \in Wallets

\* Recovery gives the key the parties signed with: whatever calls it took, if an
\* app built a private key for a wallet and a path and both secrets of that wallet
\* are in it (it had the right package, and multiplied the two halves and not one
\* with itself), it is the key of every signature it ever got for them.
RecoveredSignsAlike ==
    \A key, signature \in texts :
        /\ key.kind = "key" /\ signature.kind = "signature" /\ ~IsError(signature)
        /\ key.wallet = signature.wallet /\ key.path = signature.path
        /\ {<<"x1", key.wallet>>, <<"x2", key.wallet>>} \subseteq key.key
        => key.key = signature.key

\* While the app runs, each key the server made has its other half at the app, or
\* in a call that is still under way: a key generation that loses it is no call
\* that returns.
NoSilentOrphan ==
    alive => \A w \in served :
        \/ Share(w) \in texts
        \/ \E t \in Threads : calls[t] # None /\ calls[t].name = "keygen" /\ calls[t].wallet = w
=============================================================================
