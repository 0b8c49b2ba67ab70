---------------------------- MODULE BitcoinProofs ----------------------------
(* What holds of BitcoinWallet for every finite set of runs, every number of *)
(* shares and coins, all uses and all faults.                                *)
EXTENDS BitcoinWallet, FiniteSetTheorems, TLAPS

(***************************************************************************)
(* The inductive invariant.                                                *)
(***************************************************************************)

\* The map of a wallet holds the positions from 1 to the last.
Mapped(w) == w.derivations = 1..w.last_derived_pos

MapsAgree ==
    /\ file \in Wallets => Mapped(file)
    /\ \A p \in Procs : wallet[p] \in Wallets => Mapped(wallet[p])

\* What a run at work has in memory, and what is known of shares.
AtWork ==
    /\ file \in Wallets => file.share \in used
    /\ \A p \in Procs :
          /\ stage[p] \in Working => wallet[p] \in Wallets /\ wallet[p].share \in used
          /\ stage[p] \in {"sign", "broadcast"} => wallet[p].last_derived_pos >= 1

\* An address is given away at a position from 1 on, by a run that then saves its
\* wallet; coins come to such addresses only.
Handers ==
    \A h \in handed :
        /\ h.pos >= 1 /\ h.share \in used
        /\ stage[h.by] \in {"save", "write", "done", "cut off"}
        /\ wallet[h.by] \in Wallets
        /\ wallet[h.by].share = h.share /\ wallet[h.by].last_derived_pos = h.pos
CoinsAreHanded == \A c \in coins : \E h \in handed : h.share = c.share /\ h.pos = c.pos

\* One run at a time: what is in memory, compared with the file.
OneAtWork == OneByOne => \A p, q \in Procs : stage[p] \in Working /\ stage[q] \in Working => p = q

Ahead(p) == /\ file \in Wallets /\ wallet[p].share = file.share
            /\ wallet[p].last_derived_pos = file.last_derived_pos + 1
Fresh(p) == /\ wallet[p].last_derived_pos = 0
            /\ \A h \in handed : h.share # wallet[p].share
InStep ==
    OneByOne => \A p \in Procs :
        /\ stage[p] \in Commands => wallet[p] = file
        /\ stage[p] \in {"sign", "broadcast"} => Ahead(p)
        /\ stage[p] = "save" => Ahead(p) \/ Fresh(p)
        /\ stage[p] = "write" =>
              /\ file = Torn
              /\ \A h \in handed : h.share = wallet[p].share => h.pos <= wallet[p].last_derived_pos

\* ... and what was given away, compared with the file.
Reach ==
    OneByOne /\ file \in Wallets => \A h \in handed : h.share = file.share =>
        /\ h.pos <= file.last_derived_pos + 1
        /\ stage[h.by] = "done" => h.pos <= file.last_derived_pos

Rest == /\ MapsAgree /\ AtWork /\ Handers /\ CoinsAreHanded /\ InputsAreKnown
        /\ OneAtWork /\ InStep /\ Reach /\ OrderlyHandsOutOnce

WInv == WalletTypeOK /\ Rest

(***************************************************************************)
(* Data.                                                                   *)
(***************************************************************************)

LEMMA Successor ==
    ASSUME NEW n \in Nat, NEW m, m = n + 1
    PROVE  m >= 1 /\ m <= n + 1 /\ \A k \in Nat : k <= n => k # m
  OBVIOUS

LEMMA UpToLast ==
    ASSUME NEW n \in Nat, NEW m \in Nat, m <= n
    PROVE  m \in 0..n
  OBVIOUS

LEMMA WalletFields ==
    ASSUME NEW w \in Wallets
    PROVE  w.share \in Shares /\ w.last_derived_pos \in Nat
  BY DEF Wallets

LEMMA NextAddress ==
    ASSUME NEW w \in Wallets
    PROVE  /\ get_new_bitcoin_address(w) \in Wallets
           /\ get_new_bitcoin_address(w).share = w.share
           /\ get_new_bitcoin_address(w).last_derived_pos = w.last_derived_pos + 1
           /\ Mapped(w) => Mapped(get_new_bitcoin_address(w))
<1> DEFINE n == get_new_bitcoin_address(w)
<1>1. /\ n = [w EXCEPT !.last_derived_pos = w.last_derived_pos + 1,
                       !.derivations = w.derivations \cup {w.last_derived_pos + 1}]
  BY DEF get_new_bitcoin_address, derive_new_key
<1>2. w.last_derived_pos \in Nat /\ w.derivations \in SUBSET Nat
  BY DEF Wallets
<1>3. n \in Wallets
  <2>1. w.last_derived_pos + 1 \in Nat /\ w.derivations \cup {w.last_derived_pos + 1} \in SUBSET Nat
    BY <1>2
  <2> HIDE DEF n
  <2> QED
    BY <1>1, <2>1 DEF Wallets
<1>4. /\ n.share = w.share /\ n.last_derived_pos = w.last_derived_pos + 1
      /\ n.derivations = w.derivations \cup {w.last_derived_pos + 1}
  BY <1>1 DEF Wallets
<1>5. 1..(w.last_derived_pos + 1) = 1..w.last_derived_pos \cup {w.last_derived_pos + 1}
  BY <1>2
<1> QED
  BY <1>3, <1>4, <1>5 DEF Mapped

LEMMA RebuildOfMapped ==
    ASSUME NEW w \in Wallets, Mapped(w)
    PROVE  derived([w EXCEPT !.derivations = {}]) = w
<1>1. w.last_derived_pos \in Nat
  BY DEF Wallets
<1>2. {i + 1 : i \in 0..(w.last_derived_pos - 1)} = 1..w.last_derived_pos
  <2>1. ASSUME NEW j \in 1..w.last_derived_pos
        PROVE  \E i \in 0..(w.last_derived_pos - 1) : j = i + 1
    <3>1. j - 1 \in 0..(w.last_derived_pos - 1) /\ j = (j - 1) + 1
      BY <1>1
    <3> QED
      BY <3>1
  <2>2. \A i \in 0..(w.last_derived_pos - 1) : i + 1 \in 1..w.last_derived_pos
    BY <1>1
  <2> QED
    BY <2>1, <2>2
<1>3. derived([w EXCEPT !.derivations = {}]) = [w EXCEPT !.derivations = 1..w.last_derived_pos]
  BY <1>2 DEF derived, derive_new_key, Wallets
<1> QED
  BY <1>3 DEF Mapped, Wallets

\* Nobody is at work when a run may start and there is one run at a time.
LEMMA StartsAlone ==
    ASSUME NEW p \in Procs, OneByOne, MayStart(p)
    PROVE  \A q \in Procs : stage[q] \notin Working
<1> DEFINE W == {q \in Procs : stage[q] \in Working}
<1>1. IsFiniteSet(W)
  BY WalletConstants, FS_Subset
<1>2. Cardinality(W) < 1
  BY DEF MayStart, OneByOne
<1>3. Cardinality(W) \in Nat
  BY <1>1, FS_CardinalityType
<1> HIDE DEF W
<1>4. W = {}
  BY <1>1, <1>2, <1>3, FS_EmptySet
<1> QED
  BY <1>4 DEF W

LEMMA InitWInv == Init => WInv
<1> SUFFICES ASSUME Init PROVE WInv
  OBVIOUS
<1>1. WalletTypeOK
  BY WalletConstants DEF Init, WalletTypeOK, NoWallet
<1>2. MapsAgree /\ AtWork
  BY Markers DEF Init, MapsAgree, AtWork, NoWallet, Working, Commands
<1>3. Handers /\ CoinsAreHanded /\ InputsAreKnown /\ OneAtWork
  BY DEF Init, Handers, CoinsAreHanded, InputsAreKnown, OneAtWork, Working, Commands
<1>4. InStep /\ Reach /\ OrderlyHandsOutOnce
  BY Markers DEF Init, InStep, Reach, OrderlyHandsOutOnce, HandedOutOnce, Commands
<1> QED
  BY <1>1, <1>2, <1>3, <1>4 DEF WInv, Rest

(***************************************************************************)
(* Types.                                                                  *)
(***************************************************************************)

\* The actions that change a stage and nothing the invariant speaks of but that.
QuietStep(p) ==
    \/ SignInputs(p) \/ BroadcastRejected(p) \/ Kill(p) \/ NewEscrow(p)
    \/ EscrowFails(p) \/ BackUp(p) \/ Verify(p)

LEMMA TypeStep == WInv /\ [Next]_walletVars => WalletTypeOK'
<1> SUFFICES ASSUME WInv, [Next]_walletVars PROVE WalletTypeOK'
  OBVIOUS
<1>0. WalletTypeOK /\ AtWork
  BY DEF WInv, Rest
<1>a. made \in 0..MaxCoins /\ MaxCoins \in Nat
  BY <1>0, WalletConstants DEF WalletTypeOK
<1>b. ASSUME made < MaxCoins PROVE made + 1 \in 1..MaxCoins /\ made + 1 \in 0..MaxCoins
  BY <1>a, <1>b
<1>c. ASSUME NEW p \in Procs, NEW w \in Wallets, HandOut(p, w)
      PROVE  handed' \subseteq [by : Procs, share : Shares, pos : Nat]
  BY <1>0, <1>c, WalletFields DEF HandOut, WalletTypeOK
<1> USE DEF WalletTypeOK, GoTo, Working, Commands, Over, backupVars
<1>1. ASSUME NEW p \in Procs, CreateWallet(p) PROVE WalletTypeOK'
  <2>1. PICK s \in Shares \ used :
          /\ used' = used \cup {s}
          /\ wallet' = [wallet EXCEPT ![p] =
                [share |-> s, last_derived_pos |-> 0, derivations |-> {}]]
    BY <1>1 DEF CreateWallet
  <2>2. [share |-> s, last_derived_pos |-> 0, derivations |-> {}] \in Wallets
    BY DEF Wallets
  <2> QED
    BY <1>0, <1>1, <2>1, <2>2 DEF CreateWallet
<1>2. ASSUME NEW p \in Procs, Load(p) PROVE WalletTypeOK'
  BY <1>0, <1>2 DEF Load
<1>3. ASSUME NEW p \in Procs, NewAddress(p) PROVE WalletTypeOK'
  <2>1. wallet[p] \in Wallets
    BY <1>0, <1>3 DEF NewAddress, AtWork
  <2>2. wallet' = [wallet EXCEPT ![p] = get_new_bitcoin_address(wallet[p])]
    BY <1>3 DEF NewAddress
  <2>3. wallet'[p] \in Wallets
    BY <1>0, <2>1, <2>2, NextAddress
  <2>4. handed' \subseteq [by : Procs, share : Shares, pos : Nat]
    BY <1>3, <1>c, <2>3 DEF NewAddress
  <2> QED
    BY <1>0, <1>3, <2>2, <2>3, <2>4 DEF NewAddress
<1>4. ASSUME NEW p \in Procs, Show(p) PROVE WalletTypeOK'
  BY <1>0, <1>4 DEF Show, list_unspent
<1>5. ASSUME NEW p \in Procs, SelectCoins(p) PROVE WalletTypeOK'
  <2>1. wallet[p] \in Wallets
    BY <1>0, <1>5 DEF SelectCoins, AtWork
  <2>2. get_new_bitcoin_address(wallet[p]) \in Wallets
    BY <2>1, NextAddress
  <2>3. list_unspent(wallet[p]) \subseteq Coins
    BY <1>0 DEF list_unspent
  <2> QED
    BY <1>0, <1>5, <2>2, <2>3 DEF SelectCoins
<1>6. ASSUME NEW p \in Procs, Broadcast(p) PROVE WalletTypeOK'
  <2>1. wallet[p] \in Wallets
    BY <1>0, <1>6 DEF Broadcast, AtWork
  <2>2. made' = made + 1 /\ made' \in 1..MaxCoins
    BY <1>6, <1>b DEF Broadcast
  <2>3. [id |-> made', share |-> wallet[p].share, pos |-> wallet[p].last_derived_pos] \in Coins
    BY <2>1, <2>2, WalletFields DEF Coins
  <2>4. handed' \subseteq [by : Procs, share : Shares, pos : Nat]
    BY <1>6, <1>c, <2>1 DEF Broadcast
  <2>5. coins' \subseteq Coins
    BY <1>0, <1>6, <2>3 DEF Broadcast
  <2>6. made' \in 0..MaxCoins
    BY <1>6, <1>b DEF Broadcast
  <2>7. stage' \in [Procs -> {"idle"} \cup Working \cup Over]
    BY <1>0, <1>6 DEF Broadcast
  <2> QED
    BY <1>0, <1>6, <2>4, <2>5, <2>6, <2>7 DEF Broadcast
<1>7. ASSUME NEW p \in Procs, QuietStep(p) PROVE WalletTypeOK'
  <2>1. CASE BackUp(p)
    <3>1. wallet[p].share \in Shares
      BY <1>0, <2>1, WalletFields DEF BackUp, AtWork
    <3>2. backup' \in Backups \cup {Missing, Torn}
      <4>1. escrow \in Shares /\ backup' \in {[share |-> wallet[p].share, escrow |-> escrow], Torn}
        BY <2>1 DEF BackUp
      <4>2. [share |-> wallet[p].share, escrow |-> escrow] \in Backups
        BY <3>1, <4>1 DEF Backups
      <4> QED
        BY <4>1, <4>2
    <3> QED
      BY <1>0, <2>1, <3>2 DEF BackUp
  <2>2. CASE NewEscrow(p)
    BY <1>0, <2>2, WalletFields DEF NewEscrow, AtWork
  <2>3. CASE SignInputs(p) \/ BroadcastRejected(p) \/ Kill(p) \/ EscrowFails(p) \/ Verify(p)
    BY <1>0, <2>3 DEF SignInputs, BroadcastRejected, Kill, EscrowFails, Verify
  <2> QED
    BY <1>7, <2>1, <2>2, <2>3 DEF QuietStep
<1>8. ASSUME NEW p \in Procs, Truncate(p) \/ Write(p) PROVE WalletTypeOK'
  BY <1>0, <1>8 DEF Truncate, Write, AtWork
<1>9. ASSUME Pay PROVE WalletTypeOK'
  <2>1. PICK h \in handed :
          coins' = coins \cup {[id |-> made', share |-> h.share, pos |-> h.pos]}
    BY <1>9 DEF Pay
  <2>2. made' \in 1..MaxCoins
    BY <1>9, <1>b DEF Pay
  <2>3. [id |-> made', share |-> h.share, pos |-> h.pos] \in Coins
    BY <1>0, <2>2 DEF Coins
  <2>4. coins' \subseteq Coins
    BY <1>0, <2>1, <2>3
  <2>5. made' \in 0..MaxCoins
    BY <1>9, <1>b DEF Pay
  <2> QED
    BY <1>0, <1>9, <2>4, <2>5 DEF Pay
<1>10. ASSUME UNCHANGED walletVars PROVE WalletTypeOK'
  BY <1>0, <1>10 DEF walletVars
<1> QED
  BY <1>1, <1>2, <1>3, <1>4, <1>5, <1>6, <1>7, <1>8, <1>9, <1>10 DEF Next, QuietStep

(***************************************************************************)
(* The rest of the invariant, action by action.                            *)
(***************************************************************************)

\* A step of p to stage s that changes nothing else the invariant speaks of.
Quietly(p, s) ==
    /\ stage[p] \in Working /\ stage' = [stage EXCEPT ![p] = s]
    /\ s \in Over \cup {"broadcast"}
    /\ s = "broadcast" => stage[p] = "sign"
    /\ stage[p] \in {"save", "write"} => s = "cut off"
    /\ UNCHANGED <<use, file, wallet, coins, made, handed, used>>
    /\ \A q \in Procs : q # p => selected'[q] = selected[q]

LEMMA QuietIs ==
    ASSUME WInv, NEW p \in Procs, QuietStep(p) \/ Show(p)
    PROVE  \E s : Quietly(p, s)
<1> USE DEF GoTo, Quietly, Working, Commands, Over
<1>1. CASE SignInputs(p)
  BY <1>1 DEF SignInputs
<1>2. CASE BroadcastRejected(p) \/ Kill(p)
  BY <1>2 DEF BroadcastRejected, Kill
<1>3. CASE EscrowFails(p) \/ BackUp(p) \/ Verify(p)
  BY <1>3 DEF EscrowFails, BackUp, Verify
<1>4. CASE NewEscrow(p)
  BY <1>4 DEF NewEscrow
<1>5. CASE Show(p)
  BY <1>5 DEF Show, WInv, WalletTypeOK
<1> QED
  BY <1>1, <1>2, <1>3, <1>4, <1>5 DEF QuietStep

LEMMA QuietRest ==
    ASSUME WInv, NEW p \in Procs, NEW s, Quietly(p, s)
    PROVE  Rest'
<1> USE DEF WInv, WalletTypeOK, Rest, Quietly, Working, Commands, Over
<1>1. MapsAgree'
  BY DEF MapsAgree, Mapped
<1>2. AtWork'
  BY DEF AtWork
<1>3. Handers' /\ CoinsAreHanded'
  BY DEF Handers, CoinsAreHanded
<1>4. InputsAreKnown'
  BY DEF InputsAreKnown
<1>5. OneAtWork'
  BY DEF OneAtWork, OneByOne
<1>6. InStep'
  BY DEF InStep, OneByOne, Ahead, Fresh
<1>7. Reach'
  BY DEF Reach, OneByOne, Handers
<1>8. OrderlyHandsOutOnce'
  BY DEF OrderlyHandsOutOnce, Orderly, OneByOne, HandedOutOnce
<1> QED
  BY <1>1, <1>2, <1>3, <1>4, <1>5, <1>6, <1>7, <1>8

LEMMA CreateRest == ASSUME WInv, NEW p \in Procs, CreateWallet(p) PROVE Rest'
<1> USE DEF WInv, WalletTypeOK, Rest, GoTo, Working, Commands
<1>0. PICK s \in Shares \ used :
        /\ used' = used \cup {s}
        /\ wallet' = [wallet EXCEPT ![p] =
              [share |-> s, last_derived_pos |-> 0, derivations |-> {}]]
  BY DEF CreateWallet
<1>1. /\ MayStart(p) /\ stage[p] = "idle" /\ stage' = [stage EXCEPT ![p] = "save"]
      /\ UNCHANGED <<use, file, selected, coins, handed>>
  BY DEF CreateWallet, MayStart
<1>2. /\ wallet'[p] \in Wallets /\ wallet'[p].share = s /\ wallet'[p].last_derived_pos = 0
      /\ wallet'[p].derivations = {}
  BY <1>0 DEF Wallets
<1>3. \A q \in Procs : q # p => wallet'[q] = wallet[q] /\ stage'[q] = stage[q]
  BY <1>0, <1>1
<1>4. MapsAgree'
  <2>1. Mapped(wallet'[p])
    BY <1>2 DEF Mapped
  <2> QED
    BY <1>1, <1>3, <2>1 DEF MapsAgree, Mapped
<1>5. AtWork'
  BY <1>0, <1>1, <1>2, <1>3 DEF AtWork
<1>6. Handers' /\ CoinsAreHanded'
  BY <1>0, <1>1, <1>3 DEF Handers, CoinsAreHanded
<1>7. InputsAreKnown'
  BY <1>1, <1>3 DEF InputsAreKnown
<1>8. ASSUME OneByOne PROVE \A q \in Procs : stage[q] \notin Working
  BY <1>1, <1>8, StartsAlone
<1>9. OneAtWork'
  BY <1>1, <1>3, <1>8 DEF OneAtWork, OneByOne
<1>10. InStep'
  <2>1. \A h \in handed : h.share # s
    BY <1>0 DEF Handers
  <2> QED
    BY <1>1, <1>2, <1>3, <1>8, <2>1 DEF InStep, OneByOne, Fresh
<1>11. Reach'
  BY <1>1 DEF Reach, OneByOne, Handers
<1>12. OrderlyHandsOutOnce'
  BY <1>1 DEF OrderlyHandsOutOnce, Orderly, OneByOne, HandedOutOnce
<1> QED
  BY <1>4, <1>5, <1>6, <1>7, <1>9, <1>10, <1>11, <1>12

LEMMA LoadRest == ASSUME WInv, NEW p \in Procs, Load(p) PROVE Rest'
<1> USE DEF WInv, WalletTypeOK, Rest, GoTo, Working, Commands
<1>1. PICK next \in Commands \cup {"failed"} :
        /\ stage' = [stage EXCEPT ![p] = next]
        /\ \/ next = "failed" /\ UNCHANGED wallet
           \/ /\ next \in Commands /\ file \in Wallets
              /\ wallet' = [wallet EXCEPT ![p] = file]
  BY DEF Load
<1>2. /\ MayStart(p) /\ stage[p] = "idle"
      /\ UNCHANGED <<use, file, selected, coins, handed, used>>
  BY DEF Load, MayStart
<1>3. \A q \in Procs : q # p => wallet'[q] = wallet[q] /\ stage'[q] = stage[q]
  BY <1>1
<1>4. MapsAgree'
  BY <1>1, <1>2 DEF MapsAgree, Mapped
<1>5. AtWork'
  BY <1>1, <1>2 DEF AtWork
<1>a. \A h \in handed : h.by \in Procs /\ h.by # p
  BY <1>2 DEF Handers
<1>6. Handers' /\ CoinsAreHanded'
  <2>1. ASSUME NEW h \in handed PROVE wallet'[h.by] = wallet[h.by] /\ stage'[h.by] = stage[h.by]
    BY <1>3, <1>a
  <2>2. Handers'
    BY <1>2, <2>1 DEF Handers
  <2> QED
    BY <1>2, <2>2 DEF CoinsAreHanded
<1>7. InputsAreKnown'
  BY <1>1, <1>2, <1>3 DEF InputsAreKnown
<1>8. ASSUME OneByOne PROVE \A q \in Procs : stage[q] \notin Working
  BY <1>2, <1>8, StartsAlone
<1>9. OneAtWork'
  BY <1>2, <1>3, <1>8 DEF OneAtWork, OneByOne
<1>10. InStep'
  BY <1>1, <1>2, <1>3, <1>8 DEF InStep, OneByOne
<1>11. Reach'
  BY <1>2, <1>3 DEF Reach, OneByOne, Handers
<1>12. OrderlyHandsOutOnce'
  BY <1>1, <1>2 DEF OrderlyHandsOutOnce, Orderly, OneByOne, HandedOutOnce
<1> QED
  BY <1>4, <1>5, <1>6, <1>7, <1>9, <1>10, <1>11, <1>12

\* Before an orderly run gives an address away, all that were given are known to
\* the file.
LEMMA AllAreSaved ==
    ASSUME WInv, Orderly, NEW p \in Procs, stage[p] \in {"derive", "broadcast"}
    PROVE  /\ file \in Wallets /\ wallet[p].share = file.share
           /\ \A h \in handed : h.share = file.share => h.pos <= file.last_derived_pos
<1> USE DEF WInv, Rest, Working, Commands
<1>1. file \in Wallets /\ wallet[p].share = file.share
  BY DEF Orderly, InStep, Ahead, AtWork
<1>2. ASSUME NEW h \in handed PROVE stage[h.by] = "done"
  <2>1. h.by \in Procs /\ stage[h.by] \in {"save", "write", "done", "cut off"}
    BY DEF Handers, WalletTypeOK
  <2> QED
    BY <2>1 DEF Orderly, OneAtWork
<1> QED
  BY <1>1, <1>2 DEF Orderly, Reach

LEMMA NewAddressRest == ASSUME WInv, NEW p \in Procs, NewAddress(p) PROVE Rest'
<1> USE DEF WInv, WalletTypeOK, Rest, GoTo, Working, Commands
<1> DEFINE w == get_new_bitcoin_address(wallet[p])
           new == [by |-> p, share |-> w.share, pos |-> w.last_derived_pos]
<1>0. wallet[p] \in Wallets /\ wallet[p].share \in used
  BY DEF NewAddress, AtWork
<1>1. /\ w \in Wallets /\ w.share = wallet[p].share
      /\ w.last_derived_pos = wallet[p].last_derived_pos + 1 /\ Mapped(w)
  BY <1>0, NextAddress DEF MapsAgree
<1>2. /\ stage[p] = "derive" /\ stage' = [stage EXCEPT ![p] = "save"]
      /\ wallet' = [wallet EXCEPT ![p] = w] /\ handed' = handed \cup {new}
      /\ UNCHANGED <<use, file, selected, coins, used>>
  BY DEF NewAddress, HandOut
<1> HIDE DEF w
<1>3. wallet[p].last_derived_pos \in Nat
  BY <1>0, WalletFields
<1>4. MapsAgree'
  BY <1>1, <1>2 DEF MapsAgree, Mapped
<1>5. AtWork'
  BY <1>0, <1>1, <1>2 DEF AtWork
<1>a. \A h \in handed : h.by \in Procs /\ h.by # p
  BY <1>2 DEF Handers
<1>b. /\ new.by = p /\ new.share = wallet[p].share /\ new.pos = wallet[p].last_derived_pos + 1
      /\ wallet'[p] = w /\ stage'[p] = "save"
  BY <1>1, <1>2
<1>c. \A q \in Procs : q # p => wallet'[q] = wallet[q] /\ stage'[q] = stage[q]
  BY <1>2
<1> HIDE DEF new
<1>6. Handers'
  <2>1. \A h \in handed : h.pos >= 1 /\ h.share \in used
    BY DEF Handers
  <2> QED
    <3> SUFFICES ASSUME NEW h \in handed'
                 PROVE  /\ h.pos >= 1 /\ h.share \in used
                        /\ stage'[h.by] \in {"save", "write", "done", "cut off"}
                        /\ wallet'[h.by] \in Wallets /\ wallet'[h.by].share = h.share
                        /\ wallet'[h.by].last_derived_pos = h.pos
      BY <1>2 DEF Handers
    <3>1. CASE h = new
      <4>1. new.pos >= 1
        BY ONLY <1>3, <1>b, Successor
      <4>2. wallet'[p].share = new.share /\ wallet'[p].last_derived_pos = new.pos
        BY <1>1, <1>b
      <4> QED
        BY <1>0, <1>1, <1>b, <3>1, <4>1, <4>2
    <3>2. CASE h \in handed
      BY <1>a, <1>c, <2>1, <3>2 DEF Handers
    <3> QED
      BY <1>2, <3>1, <3>2
<1>7. CoinsAreHanded'
  BY <1>2 DEF CoinsAreHanded
<1>8. InputsAreKnown'
  BY <1>2 DEF InputsAreKnown
<1>9. OneAtWork'
  BY <1>2 DEF OneAtWork, OneByOne
<1>10. ASSUME OneByOne PROVE wallet[p] = file /\ \A q \in Procs : q # p => stage[q] \notin Working
  BY <1>2, <1>10 DEF InStep, OneAtWork
<1>11. InStep'
  BY <1>0, <1>1, <1>2, <1>10 DEF InStep, OneByOne, Ahead
<1>12. Reach'
  <2> SUFFICES ASSUME OneByOne, file \in Wallets, NEW h \in handed', h.share = file.share
               PROVE  /\ h.pos <= file.last_derived_pos + 1
                      /\ stage'[h.by] = "done" => h.pos <= file.last_derived_pos
    BY <1>2 DEF Reach, OneByOne
  <2>1. CASE h = new
    BY <1>3, <1>10, <1>b, <2>1
  <2>2. CASE h \in handed
    BY <1>a, <1>c, <2>2 DEF Reach
  <2> QED
    BY <1>2, <2>1, <2>2
<1>13. OrderlyHandsOutOnce'
  <2> SUFFICES ASSUME Orderly' PROVE HandedOutOnce'
    BY DEF OrderlyHandsOutOnce
  <2>1. Orderly
    BY <1>2 DEF Orderly, OneByOne
  <2>2. \A h \in handed : h.share = wallet[p].share => h.pos <= wallet[p].last_derived_pos
    BY <1>2, <1>10, <2>1, AllAreSaved DEF Orderly
  <2>3. \A h \in handed : h.pos \in Nat
    OBVIOUS
  <2>4. \A h \in handed : ~(h.share = new.share /\ h.pos = new.pos)
    BY <1>3, <1>b, <2>2, <2>3
  <2> QED
    BY <1>2, <2>1, <2>4 DEF OrderlyHandsOutOnce, HandedOutOnce
<1> QED
  BY <1>4, <1>5, <1>6, <1>7, <1>8, <1>9, <1>11, <1>12, <1>13

LEMMA SelectRest == ASSUME WInv, NEW p \in Procs, SelectCoins(p) PROVE Rest'
<1> USE DEF WInv, WalletTypeOK, Rest, GoTo, Working, Commands
<1>0. PICK chosen \in SUBSET list_unspent(wallet[p]) :
        IF chosen = {}
        THEN GoTo(p, "failed") /\ UNCHANGED <<wallet, selected>>
        ELSE /\ selected' = [selected EXCEPT ![p] = chosen]
             /\ wallet' = [wallet EXCEPT ![p] = get_new_bitcoin_address(wallet[p])]
             /\ GoTo(p, "sign")
  BY DEF SelectCoins
<1>a. stage[p] = "select" /\ UNCHANGED <<use, file, coins, made, handed, used>>
  BY DEF SelectCoins
<1>b. CASE stage' = [stage EXCEPT ![p] = "failed"] /\ UNCHANGED <<wallet, selected>>
  <2>1. Quietly(p, "failed")
    BY <1>a, <1>b DEF Quietly, Over
  <2> QED
    BY <2>1, QuietRest
<1>c. CASE /\ selected' = [selected EXCEPT ![p] = chosen]
           /\ wallet' = [wallet EXCEPT ![p] = get_new_bitcoin_address(wallet[p])]
           /\ stage' = [stage EXCEPT ![p] = "sign"]
  <2> DEFINE w == get_new_bitcoin_address(wallet[p])
  <2>0. wallet[p] \in Wallets /\ wallet[p].share \in used
    BY <1>a DEF AtWork
  <2>1. /\ w \in Wallets /\ w.share = wallet[p].share
        /\ w.last_derived_pos = wallet[p].last_derived_pos + 1 /\ Mapped(w)
    BY <2>0, NextAddress DEF MapsAgree
  <2>2. wallet' = [wallet EXCEPT ![p] = w]
    BY <1>c
  <2> HIDE DEF w
  <2>3. wallet[p].last_derived_pos \in Nat
    BY <2>0, WalletFields
  <2>4. MapsAgree'
    BY <1>a, <2>1, <2>2 DEF MapsAgree, Mapped
  <2>5. AtWork'
    BY <1>a, <1>c, <2>0, <2>1, <2>2, <2>3 DEF AtWork
  <2>6. Handers' /\ CoinsAreHanded'
    BY <1>a, <1>c, <2>2 DEF Handers, CoinsAreHanded
  <2>7. ASSUME NEW c \in chosen PROVE c.pos \in w.derivations
    <3>1. c \in coins /\ c.pos \in 0..wallet[p].last_derived_pos
      BY DEF list_unspent, get_all_addresses
    <3>2. c.pos >= 1
      BY <3>1 DEF CoinsAreHanded, Handers
    <3> QED
      BY <2>1, <2>3, <3>1, <3>2 DEF Mapped
  <2>8. InputsAreKnown'
    BY <1>c, <2>2, <2>7 DEF InputsAreKnown
  <2>9. OneAtWork'
    BY <1>a, <1>c DEF OneAtWork, OneByOne
  <2>10. ASSUME OneByOne PROVE wallet[p] = file /\ \A q \in Procs : q # p => stage[q] \notin Working
    BY <1>a, <2>10 DEF InStep, OneAtWork
  <2>11. InStep'
    BY <1>a, <1>c, <2>0, <2>1, <2>2, <2>10 DEF InStep, OneByOne, Ahead
  <2>12. Reach'
    BY <1>a, <1>c DEF Reach, OneByOne, Handers
  <2>13. OrderlyHandsOutOnce'
    BY <1>a, <1>c DEF OrderlyHandsOutOnce, Orderly, OneByOne, HandedOutOnce
  <2> QED
    BY <2>4, <2>5, <2>6, <2>8, <2>9, <2>11, <2>12, <2>13
<1> QED
  BY <1>0, <1>b, <1>c

LEMMA BroadcastRest == ASSUME WInv, NEW p \in Procs, Broadcast(p) PROVE Rest'
<1> USE DEF WInv, WalletTypeOK, Rest, GoTo, Working, Commands
<1> DEFINE new == [by |-> p, share |-> wallet[p].share, pos |-> wallet[p].last_derived_pos]
           change == [id |-> made', share |-> wallet[p].share, pos |-> wallet[p].last_derived_pos]
<1>0. /\ wallet[p] \in Wallets /\ wallet[p].share \in used
      /\ wallet[p].last_derived_pos \in Nat /\ wallet[p].last_derived_pos >= 1
  BY WalletFields DEF Broadcast, AtWork
<1>1. PICK next \in {"save", "cut off"} : stage' = [stage EXCEPT ![p] = next]
  BY DEF Broadcast
<1>2. /\ stage[p] = "broadcast" /\ handed' = handed \cup {new}
      /\ coins' = (coins \ selected[p]) \cup {change}
      /\ UNCHANGED <<use, file, wallet, selected, used>>
  BY DEF Broadcast, HandOut
<1>3. /\ new.by = p /\ new.share = wallet[p].share /\ new.pos = wallet[p].last_derived_pos
      /\ change.share = new.share /\ change.pos = new.pos
  OBVIOUS
<1> HIDE DEF new, change
<1>4. \A q \in Procs : q # p => stage'[q] = stage[q]
  BY <1>1
<1>5. \A h \in handed : h.by \in Procs /\ h.by # p /\ h.pos \in Nat
  BY <1>2 DEF Handers
<1>6. MapsAgree'
  BY <1>2 DEF MapsAgree, Mapped
<1>7. AtWork'
  BY <1>1, <1>2 DEF AtWork
<1>8. Handers'
  BY <1>0, <1>1, <1>2, <1>3, <1>4, <1>5 DEF Handers
<1>9. CoinsAreHanded'
  BY <1>2, <1>3 DEF CoinsAreHanded
<1>10. InputsAreKnown'
  BY <1>1, <1>2 DEF InputsAreKnown
<1>11. OneAtWork'
  BY <1>1, <1>2 DEF OneAtWork, OneByOne
<1>12. ASSUME OneByOne PROVE Ahead(p) /\ \A q \in Procs : q # p => stage[q] \notin Working
  BY <1>2, <1>12 DEF InStep, OneAtWork
<1>13. InStep'
  BY <1>1, <1>2, <1>12 DEF InStep, OneByOne, Ahead
<1>14. Reach'
  <2> SUFFICES ASSUME OneByOne, file \in Wallets, NEW h \in handed', h.share = file.share
               PROVE  /\ h.pos <= file.last_derived_pos + 1
                      /\ stage'[h.by] = "done" => h.pos <= file.last_derived_pos
    BY <1>2 DEF Reach, OneByOne
  <2>1. CASE h = new
    <3>1. h.pos = file.last_derived_pos + 1 /\ file.last_derived_pos \in Nat
      BY <1>3, <1>12, <2>1, WalletFields DEF Ahead
    <3>2. stage'[h.by] # "done"
      BY <1>1, <1>3, <2>1
    <3>3. h.pos <= file.last_derived_pos + 1
      BY ONLY <3>1, Successor
    <3> QED
      BY <3>2, <3>3
  <2>2. CASE h \in handed
    BY <1>4, <1>5, <2>2 DEF Reach
  <2> QED
    BY <1>2, <2>1, <2>2
<1>15. OrderlyHandsOutOnce'
  <2> SUFFICES ASSUME Orderly' PROVE HandedOutOnce'
    BY DEF OrderlyHandsOutOnce
  <2>1. Orderly
    BY <1>1, <1>2 DEF Orderly, OneByOne
  <2>2. /\ file.last_derived_pos \in Nat /\ new.pos = file.last_derived_pos + 1
        /\ new.share = file.share
    BY <1>3, <1>12, <2>1, WalletFields DEF Orderly, Ahead
  <2>3. \A h \in handed : h.share = file.share => h.pos <= file.last_derived_pos
    BY <1>2, <2>1, AllAreSaved
  <2>4. ASSUME NEW h \in handed, h.share = new.share PROVE h.pos # new.pos
    <3>1. h.pos \in Nat /\ h.pos <= file.last_derived_pos
      BY <1>5, <2>2, <2>3, <2>4
    <3> QED
      BY ONLY <2>2, <3>1, Successor
  <2> QED
    BY <1>2, <2>1, <2>4 DEF OrderlyHandsOutOnce, HandedOutOnce
<1> QED
  BY <1>6, <1>7, <1>8, <1>9, <1>10, <1>11, <1>13, <1>14, <1>15

LEMMA TruncateRest == ASSUME WInv, NEW p \in Procs, Truncate(p) PROVE Rest'
<1> USE DEF WInv, WalletTypeOK, Rest, GoTo, Working, Commands
<1>1. /\ stage[p] = "save" /\ stage' = [stage EXCEPT ![p] = "write"] /\ file' = Torn
      /\ UNCHANGED <<use, wallet, selected, coins, made, handed, used>>
  BY DEF Truncate
<1>2. wallet[p] \in Wallets /\ wallet[p].last_derived_pos \in Nat
  BY <1>1, WalletFields DEF AtWork
<1>3. MapsAgree' /\ Reach'
  BY <1>1, Markers DEF MapsAgree, Mapped, Reach
<1>4. AtWork'
  BY <1>1, Markers DEF AtWork
<1>5. Handers' /\ CoinsAreHanded'
  BY <1>1 DEF Handers, CoinsAreHanded
<1>6. InputsAreKnown' /\ OneAtWork'
  BY <1>1 DEF InputsAreKnown, OneAtWork, OneByOne
<1>7. InStep'
  <2> SUFFICES ASSUME OneByOne
               PROVE  /\ \A q \in Procs : q # p => stage'[q] \notin Working
                      /\ \A h \in handed : h.share = wallet[p].share =>
                            h.pos <= wallet[p].last_derived_pos
    BY <1>1 DEF InStep, OneByOne
  <2>1. \A q \in Procs : q # p => stage'[q] \notin Working
    BY <1>1 DEF OneAtWork
  <2>2. CASE Ahead(p)
    BY <2>1, <2>2 DEF Ahead, Reach
  <2>3. CASE Fresh(p)
    BY <2>1, <2>3 DEF Fresh
  <2> QED
    BY <1>1, <2>2, <2>3 DEF InStep
<1>8. OrderlyHandsOutOnce'
  BY <1>1 DEF OrderlyHandsOutOnce, Orderly, OneByOne, HandedOutOnce
<1> QED
  BY <1>3, <1>4, <1>5, <1>6, <1>7, <1>8

LEMMA WriteRest == ASSUME WInv, NEW p \in Procs, Write(p) PROVE Rest'
<1> USE DEF WInv, WalletTypeOK, Rest, GoTo, Working, Commands
<1>1. /\ stage[p] = "write" /\ file' = wallet[p]
      /\ stage' = [stage EXCEPT ![p] = IF wallet[p].last_derived_pos = 0 THEN "escrow" ELSE "done"]
      /\ UNCHANGED <<use, wallet, selected, coins, made, handed, used>>
  BY DEF Write
<1>2. wallet[p] \in Wallets /\ wallet[p].share \in used /\ wallet[p].last_derived_pos \in Nat
  BY <1>1, WalletFields DEF AtWork
<1>3. MapsAgree'
  BY <1>1 DEF MapsAgree, Mapped
<1>4. AtWork'
  BY <1>1, <1>2 DEF AtWork
<1>5. Handers' /\ CoinsAreHanded'
  <2>1. \A h \in handed : h.by = p => wallet[p].last_derived_pos >= 1
    BY DEF Handers
  <2>2. ASSUME NEW h \in handed
        PROVE  stage'[h.by] \in {"save", "write", "done", "cut off"}
    <3>1. CASE h.by = p
      <4>1. wallet[p].last_derived_pos # 0
        BY <2>1, <3>1
      <4> QED
        BY <1>1, <3>1, <4>1
    <3>2. CASE h.by # p
      BY <1>1, <3>2 DEF Handers
    <3> QED
      BY <3>1, <3>2
  <2> QED
    BY <1>1, <2>2 DEF Handers, CoinsAreHanded
<1>6. InputsAreKnown' /\ OneAtWork'
  BY <1>1 DEF InputsAreKnown, OneAtWork, OneByOne
<1>7. ASSUME OneByOne
      PROVE  /\ \A q \in Procs : q # p => stage'[q] \notin Working
             /\ \A h \in handed : h.share = wallet[p].share => h.pos <= wallet[p].last_derived_pos
  BY <1>1, <1>7 DEF OneAtWork, InStep
<1>8. InStep'
  BY <1>1, <1>7 DEF InStep, OneByOne
<1>9. Reach'
  BY <1>1, <1>2, <1>7 DEF Reach, OneByOne
<1>10. OrderlyHandsOutOnce'
  BY <1>1 DEF OrderlyHandsOutOnce, Orderly, OneByOne, HandedOutOnce
<1> QED
  BY <1>3, <1>4, <1>5, <1>6, <1>8, <1>9, <1>10

LEMMA PayRest == ASSUME WInv, Pay PROVE Rest'
<1> USE DEF WInv, WalletTypeOK, Rest
<1>1. PICK h \in handed :
        coins' = coins \cup {[id |-> made', share |-> h.share, pos |-> h.pos]}
  BY DEF Pay
<1>2. UNCHANGED <<use, file, stage, wallet, selected, handed, used>>
  BY DEF Pay
<1>3. CoinsAreHanded'
  BY <1>1, <1>2 DEF CoinsAreHanded
<1>4. MapsAgree' /\ AtWork' /\ Handers' /\ InputsAreKnown' /\ OneAtWork'
  BY <1>2 DEF MapsAgree, Mapped, AtWork, Handers, InputsAreKnown, OneAtWork, OneByOne
<1>5. InStep' /\ Reach' /\ OrderlyHandsOutOnce'
  BY <1>2 DEF InStep, Ahead, Fresh, Reach, OrderlyHandsOutOnce, Orderly, OneByOne, HandedOutOnce
<1> QED
  BY <1>3, <1>4, <1>5

LEMMA StutterRest == ASSUME WInv, UNCHANGED walletVars PROVE Rest'
<1>1. UNCHANGED <<use, file, stage, wallet, selected, coins, handed, used>>
  BY DEF walletVars
<1> QED
  BY <1>1 DEF WInv, Rest, MapsAgree, Mapped, AtWork, Handers, CoinsAreHanded, InputsAreKnown,
     OneAtWork, OneByOne, InStep, Ahead, Fresh, Reach, OrderlyHandsOutOnce, Orderly, HandedOutOnce

LEMMA Invariance == Spec => []WInv
<1>1. ASSUME WInv, [Next]_walletVars PROVE WInv'
  <2>1. WalletTypeOK'
    BY <1>1, TypeStep
  <2>2. ASSUME NEW p \in Procs, QuietStep(p) \/ Show(p) PROVE Rest'
    BY <1>1, <2>2, QuietIs, QuietRest
  <2>3. Rest'
    BY <1>1, <2>2, CreateRest, LoadRest, NewAddressRest, SelectRest, BroadcastRest,
       TruncateRest, WriteRest, PayRest, StutterRest DEF Next, QuietStep
  <2> QED
    BY <2>1, <2>3 DEF WInv
<1> QED
  BY InitWInv, <1>1, PTL DEF Spec

\* An orderly query ends with all the wallet has.
LEMMA ShowStep ==
    ASSUME WInv, [Next]_walletVars, NEW p \in Procs, Orderly,
           stage[p] = "query", stage'[p] = "done"
    PROVE  selected'[p] = {c \in coins : c.share = wallet[p].share}
<1>1. Show(p)
  <2>1. ASSUME NEW q \in Procs,
               \/ CreateWallet(q) \/ Load(q) \/ NewAddress(q) \/ SelectCoins(q) \/ Broadcast(q)
               \/ Truncate(q) \/ Write(q) \/ QuietStep(q)
        PROVE  q # p => stage'[p] = stage[p]
    BY <2>1 DEF WInv, WalletTypeOK, GoTo, CreateWallet, Load, NewAddress, SelectCoins, Broadcast,
       Truncate, Write, QuietStep, SignInputs, BroadcastRejected, Kill, NewEscrow, EscrowFails,
       BackUp, Verify
  <2>2. \A q \in Procs : Show(q) /\ q # p => stage'[p] = stage[p]
    BY DEF WInv, WalletTypeOK, GoTo, Show
  <2>3. Next
    BY DEF walletVars
  <2>4. PICK q \in Procs :
          \/ CreateWallet(q) \/ Load(q) \/ NewAddress(q) \/ SelectCoins(q) \/ Broadcast(q)
          \/ Truncate(q) \/ Write(q) \/ QuietStep(q) \/ Show(q)
    BY <2>3 DEF Next, QuietStep, Pay
  <2>5. q = p
    BY <2>1, <2>2, <2>4
  <2>6. ~(CreateWallet(p) \/ Load(p) \/ NewAddress(p) \/ SelectCoins(p) \/ Broadcast(p))
    BY DEF CreateWallet, Load, NewAddress, SelectCoins, Broadcast, MayStart
  <2>7. ~(Truncate(p) \/ Write(p) \/ SignInputs(p) \/ BroadcastRejected(p) \/ NewEscrow(p)
          \/ EscrowFails(p) \/ BackUp(p) \/ Verify(p))
    BY DEF Truncate, Write, SignInputs, BroadcastRejected, NewEscrow, EscrowFails, BackUp, Verify
  <2>8. ~Kill(p)
    BY DEF Kill, GoTo, WInv, WalletTypeOK
  <2> QED
    BY <2>4, <2>5, <2>6, <2>7, <2>8 DEF QuietStep
<1>2. wallet[p] = file /\ file \in Wallets /\ OneByOne
  BY DEF WInv, Rest, AtWork, InStep, Orderly, Working, Commands
<1>3. ASSUME NEW c \in coins, c.share = file.share PROVE c.pos \in 0..file.last_derived_pos
  <2>1. PICK h \in handed : h.share = file.share /\ h.pos = c.pos
    BY <1>3 DEF WInv, Rest, CoinsAreHanded
  <2>2. h.by \in Procs /\ stage[h.by] \in {"save", "write", "done", "cut off"} /\ h.pos \in Nat
    BY DEF WInv, Rest, WalletTypeOK, Handers
  <2>3. stage[h.by] = "done"
    BY <2>2 DEF WInv, Rest, OneAtWork, Orderly, Working, Commands
  <2>4. h.pos <= file.last_derived_pos
    BY <1>2, <2>1, <2>3 DEF WInv, Rest, Reach
  <2>5. file.last_derived_pos \in Nat
    BY <1>2, WalletFields
  <2>6. h.pos \in 0..file.last_derived_pos
    BY ONLY <2>2, <2>4, <2>5, UpToLast
  <2> QED
    BY <2>1, <2>6
<1>4. selected'[p] = list_unspent(wallet[p])
  BY <1>1 DEF Show, WInv, WalletTypeOK
<1> QED
  BY <1>2, <1>3, <1>4 DEF list_unspent, get_all_addresses

(***************************************************************************)
(* The escrow and the backup, as long as runs are orderly.                 *)
(***************************************************************************)

Own ==
    Orderly =>
        /\ backup \in Backups => backup.share = backup.escrow
        /\ file \in Wallets /\ (\A p \in Procs : stage[p] # "escrow") => escrow = file.share
        /\ \A p \in Procs :
              /\ stage[p] = "write" /\ wallet[p].last_derived_pos # 0 => escrow = wallet[p].share
              /\ stage[p] = "escrow" => file = wallet[p]

LEMMA InitOwn == Init => Own
  BY Markers DEF Init, Own

LEMMA OwnStep == WInv /\ Own /\ [Next]_walletVars => Own'
<1> SUFFICES ASSUME WInv, Own, [Next]_walletVars, Orderly' PROVE Own'
  BY DEF Own
<1>0. UNCHANGED use
  BY DEF Next, CreateWallet, Load, NewAddress, Show, SelectCoins, SignInputs, Broadcast,
     BroadcastRejected, Truncate, Write, Kill, NewEscrow, EscrowFails, BackUp, Verify, Pay, walletVars
<1>1. OneByOne
  BY <1>0 DEF Orderly, OneByOne
<1> USE DEF Own, WInv, WalletTypeOK, Rest, GoTo, Working, Commands, Over, backupVars
\* A step of p that leaves escrow and backup alone, with p outside of saving.
<1>2. ASSUME NEW p \in Procs, NEW next, next \notin {"write", "escrow", "cut off"},
             stage[p] \notin {"write", "escrow", "cut off"}, stage' = [stage EXCEPT ![p] = next],
             \A q \in Procs : q # p => wallet'[q] = wallet[q],
             UNCHANGED <<file, escrow, backup>>
      PROVE  Own'
  <2>1. Orderly
    BY <1>0, <1>2 DEF Orderly, OneByOne
  <2> QED
    BY <1>2, <2>1
<1>3. ASSUME NEW p \in Procs, CreateWallet(p) PROVE Own'
  <2>1. /\ stage[p] = "idle" /\ stage' = [stage EXCEPT ![p] = "save"]
        /\ UNCHANGED <<file, escrow, backup>>
        /\ \A q \in Procs : q # p => wallet'[q] = wallet[q]
    BY <1>3 DEF CreateWallet, MayStart
  <2> QED
    BY <1>2, <2>1
<1>4. ASSUME NEW p \in Procs, Load(p) PROVE Own'
  <2>1. PICK next \in Commands \cup {"failed"} : stage' = [stage EXCEPT ![p] = next]
    BY <1>4 DEF Load
  <2>2. /\ stage[p] = "idle" /\ UNCHANGED <<file, escrow, backup>>
        /\ \A q \in Procs : q # p => wallet'[q] = wallet[q]
    BY <1>4 DEF Load, MayStart
  <2> QED
    BY <1>2, <2>1, <2>2
<1>5. ASSUME NEW p \in Procs, NewAddress(p) PROVE Own'
  <2>1. /\ stage[p] = "derive" /\ stage' = [stage EXCEPT ![p] = "save"]
        /\ UNCHANGED <<file, escrow, backup>>
        /\ \A q \in Procs : q # p => wallet'[q] = wallet[q]
    BY <1>5 DEF NewAddress
  <2> QED
    BY <1>2, <2>1
<1>6. ASSUME NEW p \in Procs, SelectCoins(p) PROVE Own'
  <2>1. PICK next \in {"failed", "sign"} : stage' = [stage EXCEPT ![p] = next]
    BY <1>6 DEF SelectCoins
  <2>2. /\ stage[p] = "select" /\ UNCHANGED <<file, escrow, backup>>
        /\ \A q \in Procs : q # p => wallet'[q] = wallet[q]
    BY <1>6 DEF SelectCoins
  <2> QED
    BY <1>2, <2>1, <2>2
<1>7. ASSUME NEW p \in Procs, Broadcast(p) PROVE Own'
  <2>1. PICK next \in {"save", "cut off"} : stage' = [stage EXCEPT ![p] = next]
    BY <1>7 DEF Broadcast
  <2>2. next # "cut off"
    BY <2>1 DEF Orderly
  <2>3. stage[p] = "broadcast" /\ UNCHANGED <<file, escrow, backup, wallet>>
    BY <1>7 DEF Broadcast
  <2> QED
    BY <1>2, <2>1, <2>2, <2>3
<1>8. ASSUME NEW p \in Procs, Show(p) \/ SignInputs(p) \/ BroadcastRejected(p)
                               \/ EscrowFails(p) \/ Verify(p)
      PROVE  Own'
  <2>1. PICK next \in {"broadcast", "failed", "done", "verified"} :
          stage' = [stage EXCEPT ![p] = next]
    BY <1>8 DEF Show, SignInputs, BroadcastRejected, EscrowFails, Verify
  <2>2. /\ stage[p] \in {"query", "sign", "broadcast", "backup", "verify"}
        /\ UNCHANGED <<file, escrow, backup, wallet>>
    BY <1>8 DEF Show, SignInputs, BroadcastRejected, EscrowFails, Verify
  <2> QED
    BY <1>2, <2>1, <2>2
<1>9. ASSUME NEW p \in Procs, Kill(p) PROVE Own'
  BY <1>9 DEF Kill, Orderly
\* The steps of saving: p is the only run at work.
<1>10. ASSUME NEW p \in Procs, stage[p] \in Working
       PROVE  \A q \in Procs : q # p => stage[q] \notin Working
  BY <1>1, <1>10 DEF OneAtWork
<1>11. ASSUME NEW p \in Procs, Truncate(p) PROVE Own'
  <2>1. /\ stage[p] = "save" /\ stage' = [stage EXCEPT ![p] = "write"] /\ file' = Torn
        /\ UNCHANGED <<escrow, backup, wallet>>
    BY <1>11 DEF Truncate
  <2>2. Orderly
    BY <1>0, <2>1 DEF Orderly, OneByOne
  <2>3. \A q \in Procs : q # p => stage[q] \notin Working
    BY <1>10, <2>1
  <2>4. wallet[p].last_derived_pos # 0 => escrow = wallet[p].share
    BY <1>1, <2>1, <2>2, <2>3 DEF InStep, Ahead, Fresh
  <2> QED
    BY <2>1, <2>2, <2>3, <2>4, Markers
<1>12. ASSUME NEW p \in Procs, Write(p) PROVE Own'
  <2>1. /\ stage[p] = "write" /\ file' = wallet[p]
        /\ stage' = [stage EXCEPT ![p] = IF wallet[p].last_derived_pos = 0 THEN "escrow" ELSE "done"]
        /\ UNCHANGED <<escrow, backup, wallet>>
    BY <1>12 DEF Write
  <2>2. Orderly
    BY <1>0, <2>1 DEF Orderly, OneByOne
  <2>3. \A q \in Procs : q # p => stage[q] \notin Working
    BY <1>10, <2>1
  <2> QED
    BY <2>1, <2>2, <2>3
<1>13. ASSUME NEW p \in Procs, NewEscrow(p) PROVE Own'
  <2>1. /\ stage[p] = "escrow" /\ escrow' = wallet[p].share
        /\ stage' = [stage EXCEPT ![p] = "done"]
        /\ UNCHANGED <<file, backup, wallet>>
    BY <1>13 DEF NewEscrow, Orderly
  <2>2. Orderly
    BY <1>0, <2>1 DEF Orderly, OneByOne
  <2>3. \A q \in Procs : q # p => stage[q] \notin Working
    BY <1>10, <2>1
  <2> QED
    BY <2>1, <2>2, <2>3
<1>14. ASSUME NEW p \in Procs, BackUp(p) PROVE Own'
  <2>1. /\ stage[p] = "backup"
        /\ backup' = [share |-> wallet[p].share, escrow |-> escrow]
        /\ stage' = [stage EXCEPT ![p] = "done"]
        /\ UNCHANGED <<file, escrow, wallet>>
    BY <1>14 DEF BackUp, Orderly
  <2>2. Orderly
    BY <1>0, <2>1 DEF Orderly, OneByOne
  <2>3. \A q \in Procs : q # p => stage[q] \notin Working
    BY <1>10, <2>1
  <2>4. escrow = wallet[p].share
    BY <1>1, <2>1, <2>2, <2>3 DEF InStep, AtWork
  <2>5. backup'.share = backup'.escrow
    BY <2>1, <2>4
  <2> QED
    BY <2>1, <2>2, <2>3, <2>5
<1>15. CASE Pay \/ UNCHANGED walletVars
  <2>1. UNCHANGED <<file, escrow, backup, stage, wallet>>
    BY <1>15 DEF Pay, walletVars
  <2> QED
    BY <1>0, <2>1 DEF Orderly, OneByOne
<1> QED
  BY <1>3, <1>4, <1>5, <1>6, <1>7, <1>8, <1>9, <1>11, <1>12, <1>13, <1>14, <1>15 DEF Next

LEMMA VerifyStep ==
    ASSUME WInv, Own, [Next]_walletVars, NEW p \in Procs, Orderly,
           stage[p] # "verified", stage'[p] = "verified"
    PROVE  backup.share = wallet[p].share
<1>1. Verify(p)
  <2>1. stage' # stage
    OBVIOUS
  <2>2. ASSUME NEW q \in Procs,
               \/ CreateWallet(q) \/ Load(q) \/ NewAddress(q) \/ SelectCoins(q) \/ Broadcast(q)
               \/ Truncate(q) \/ Write(q) \/ Show(q) \/ SignInputs(q) \/ BroadcastRejected(q)
               \/ Kill(q) \/ NewEscrow(q) \/ EscrowFails(q) \/ BackUp(q)
        PROVE  stage'[p] # "verified"
    BY <2>2 DEF WInv, WalletTypeOK, GoTo, CreateWallet, Load, NewAddress, SelectCoins, Broadcast,
       Truncate, Write, Show, SignInputs, BroadcastRejected, Kill, NewEscrow, EscrowFails, BackUp,
       Commands
  <2>3. PICK q \in Procs : Verify(q)
    BY <2>1, <2>2 DEF Next, Pay, walletVars
  <2> QED
    BY <2>3 DEF Verify, GoTo, WInv, WalletTypeOK
<1>2. stage[p] = "verify" /\ backup \in Backups /\ stage'[p] = IF backup.escrow = escrow THEN "verified" ELSE "done"
  BY <1>1 DEF Verify, GoTo, WInv, WalletTypeOK
<1>3. wallet[p] = file /\ file \in Wallets
  BY <1>2 DEF WInv, Rest, InStep, AtWork, Orderly, Working, Commands
<1>4. \A q \in Procs : stage[q] # "escrow"
  BY <1>2 DEF WInv, Rest, OneAtWork, Orderly, Working, Commands
<1> QED
  BY <1>2, <1>3, <1>4 DEF Own

(***************************************************************************)
(* The theorems.                                                           *)
(***************************************************************************)

\* Positions are natural numbers that only grow, in memory and in the file.
THEOREM WalletTypeCorrect == Spec => []WalletTypeOK
<1>1. WInv => WalletTypeOK
  BY DEF WInv
<1> QED
  BY Invariance, <1>1, PTL

\* The map `load_from` rebuilds is the one the derivations made.
THEOREM RebuildIsExact == Spec => []RebuildGivesTheMap
<1>1. WInv => RebuildGivesTheMap
  BY RebuildOfMapped DEF WInv, Rest, WalletTypeOK, MapsAgree, RebuildGivesTheMap, NoWallet
<1> QED
  BY Invariance, <1>1, PTL

\* The key of every selected coin is in the map, however runs overlap.
THEOREM InputsHaveKeys == Spec => []InputsAreKnown
<1>1. WInv => InputsAreKnown
  BY DEF WInv, Rest
<1> QED
  BY Invariance, <1>1, PTL

\* No coin of the saved wallet gets out of reach.
THEOREM CoinsStayInReach == Spec => []CoinsWithinReach
<1>1. WInv => CoinsWithinReach
  <2> SUFFICES ASSUME WInv, OneByOne, Readable, NEW c \in coins, c.share = file.share
               PROVE  c.pos <= file.last_derived_pos + 1
    BY DEF CoinsWithinReach
  <2>1. file \in Wallets
    BY DEF WInv, WalletTypeOK, Readable
  <2> QED
    BY <2>1 DEF WInv, Rest, CoinsAreHanded, Reach
<1> QED
  BY Invariance, <1>1, PTL

\* What a command printed or used before it ended well is known to the file.
THEOREM CompletedCommandsAreSaved == Spec => []CompletedIsSaved
<1>1. WInv => CompletedIsSaved
  BY DEF WInv, Rest, WalletTypeOK, Readable, Reach, CompletedIsSaved
<1> QED
  BY Invariance, <1>1, PTL

\* Orderly runs do not give an address away twice.
THEOREM AddressesAreNew == Spec => []OrderlyHandsOutOnce
<1>1. WInv => OrderlyHandsOutOnce
  BY DEF WInv, Rest
<1> QED
  BY Invariance, <1>1, PTL

\* Orderly runs show every coin the network has for the wallet.
THEOREM NoCoinIsOverlooked == Spec => ShowsEveryCoin
<1>1. WInv /\ [Next]_walletVars =>
        [\A p \in Procs : Orderly /\ stage[p] = "query" /\ stage'[p] = "done" =>
            selected'[p] = {c \in coins : c.share = wallet[p].share}]_walletVars
  BY ShowStep
<1> QED
  BY Invariance, <1>1, PTL DEF Spec, ShowsEveryCoin

\* A backup an orderly run verifies is one of the wallet it loaded, though the
\* wallet plays no part in the check.
THEOREM VerifiedBackupsAreOwn == Spec => OrderlyIsOwn
<1>1. WInv /\ Own /\ [Next]_walletVars =>
        [\A p \in Procs : Orderly /\ stage[p] # "verified" /\ stage'[p] = "verified" =>
            backup.share = wallet[p].share]_walletVars
  BY VerifyStep
<1>2. Spec => []Own
  BY InitOwn, OwnStep, Invariance, PTL DEF Spec
<1> QED
  BY Invariance, <1>1, <1>2, PTL DEF Spec, OrderlyIsOwn
=============================================================================
