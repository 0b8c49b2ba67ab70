---------------------------- MODULE EthereumProofs ----------------------------
(* What holds of EthereumWallet for every set of runs, shares, paths, chains *)
(* and faults, and for u64 of any size.                                      *)
EXTENDS EthereumWallet, FiniteSetTheorems, TLAPS

(***************************************************************************)
(* The inductive invariant.                                                *)
(***************************************************************************)

\* Every wallet shows the address its share and path give.
AddressIsChild(w) == w.address = Child(w.share, w.hd_path) /\ Len(w.hd_path) >= 2
OwnAddress ==
    /\ file \in Wallets => AddressIsChild(file)
    /\ \A p \in Procs : wallet[p] \in Wallets => AddressIsChild(wallet[p])

\* What a run has in its memory at each stage.
Memory ==
    \A p \in Procs :
        /\ stage[p] \in Working => wallet[p] \in Wallets
        /\ stage[p] \in {"idle", "save", "write", "fill"} => tx[p] = Nobody
        /\ stage[p] \in {"first", "second"} => tx[p] \in Unsigned
        /\ stage[p] \in {"broadcast", "await"} => tx[p] \in Signed

\* A transaction is made for the wallet of its run, on that wallet's chain.
OwnTransaction ==
    \A p \in Procs : tx[p] # Nobody =>
        /\ wallet[p] \in Wallets /\ tx[p].by = p
        /\ tx[p].chain \in {wallet[p].chain_id, Nobody}
        /\ tx[p] \in Signed => /\ tx[p].chain = wallet[p].chain_id
                               /\ tx[p].signer = wallet[p].address

\* What a network has is what its run made, and names that network.
PlacedIsOwn ==
    \A m \in pool \cup mined :
        /\ stage[m.tx.by] \in {"await", "done", "failed"}
        /\ tx[m.tx.by] = m.tx
        /\ m.tx.chain = m.net

\* A chain counts the transactions of an address from 0 on, without repeating a
\* nonce.
Counted ==
    /\ IsFiniteSet(mined)
    /\ \A m \in mined : m.tx.nonce < Count(m.net, m.tx.signer)
    /\ \A m, n \in mined :
          m.net = n.net /\ m.tx.signer = n.tx.signer /\ m.tx.nonce = n.tx.nonce => m = n

\* A run that reported a transaction has seen it on the chain.
ReportedIsMined ==
    \A p \in Procs : stage[p] = "done" /\ tx[p] # Nobody => OnChain(p)

EInv == /\ EthTypeOK /\ OwnAddress /\ Memory /\ OwnTransaction /\ PlacedIsOwn
        /\ Counted /\ ReportedIsMined

(***************************************************************************)
(* Data.                                                                   *)
(***************************************************************************)

LEMMA UnsignedIsNotSigned == \A t \in Unsigned : t \notin Signed
  BY DEF Unsigned, Signed

LEMMA SignedFields ==
    ASSUME NEW t \in Signed
    PROVE  /\ t.by \in Procs /\ t.net \in Chains /\ t.nonce \in Nat /\ t.chain \in Chains
           /\ t.v \in 0..(Word - 1) /\ t.signer \in Shares \X Nat \X Nat
  BY DEF Signed

LEMMA CountType ==
    ASSUME IsFiniteSet(mined), NEW net, NEW address
    PROVE  Count(net, address) \in Nat
<1> DEFINE S == {m \in mined : m.net = net /\ m.tx.signer = address}
<1>1. IsFiniteSet(S)
  BY FS_Subset
<1> QED
  BY <1>1, FS_CardinalityType DEF Count

LEMMA ChildType ==
    ASSUME NEW s \in Shares, NEW path \in Paths, Len(path) >= 2
    PROVE  Child(s, path) \in Addresses /\ Child(s, path) \in Shares \X Nat \X Nat
<1>1. path \in Seq(Nat) /\ path[1] \in Nat /\ path[2] \in Nat
  BY EthereumConstants
<1>2. Child(s, path) \in Addresses
  BY DEF Addresses
<1> QED
  BY <1>1, <1>2 DEF Child

LEMMA WalletFields ==
    ASSUME NEW w \in Wallets
    PROVE  /\ w.share \in Shares /\ w.hd_path \in Paths /\ w.chain_id \in Chains
           /\ w.address \in Addresses
  BY DEF Wallets

LEMMA VType ==
    ASSUME NEW chain \in Chains, NEW recid \in {0, 1}
    PROVE  (chain * 2 + 35 + recid) % Word \in 0..(Word - 1)
<1>1. chain \in Nat /\ Word \in Nat \ {0}
  BY EthereumConstants
<1> DEFINE x == chain * 2 + 35 + recid
<1>2. x \in Nat
  BY <1>1
<1> HIDE DEF x
<1>3. x % Word \in 0..(Word - 1)
  BY <1>1, <1>2
<1> QED
  BY <1>3 DEF x

LEMMA InitEInv == Init => EInv
<1> SUFFICES ASSUME Init PROVE EInv
  OBVIOUS
<1>1. EthTypeOK
  BY DEF Init, EthTypeOK
<1>2. OwnAddress
  BY Markers DEF Init, OwnAddress, AddressIsChild
<1>3. Memory /\ OwnTransaction /\ PlacedIsOwn /\ ReportedIsMined
  BY DEF Init, Memory, OwnTransaction, PlacedIsOwn, ReportedIsMined, Working
<1>4. Counted
  BY FS_EmptySet DEF Init, Counted
<1> QED
  BY <1>1, <1>2, <1>3, <1>4 DEF EInv

(***************************************************************************)
(* The steps that touch only a stage, and those of each part of the state. *)
(***************************************************************************)

FileStep(p) == Create(p) \/ Write(p)
StageStep(p) == SignFirst(p) \/ SignFails(p) \/ RpcFails(p) \/ Confirmed(p) \/ Dropped(p) \/ Kill(p)

\* What Fill makes.
LEMMA FillMakes ==
    ASSUME EInv, NEW p \in Procs, Fill(p)
    PROVE  \E t \in Unsigned : /\ tx' = [tx EXCEPT ![p] = t]
                              /\ t.by = p
                              /\ t.chain \in {wallet[p].chain_id, Nobody}
<1>0. PICK net \in Chains, chain \in {wallet[p].chain_id, Nobody} :
        \E nonce \in CustomNonces \cup {Count(net, wallet[p].address)} :
           tx' = [tx EXCEPT ![p] = [by |-> p, net |-> net, nonce |-> nonce, chain |-> chain]]
  BY DEF Fill
<1>1. PICK nonce \in CustomNonces \cup {Count(net, wallet[p].address)} :
        tx' = [tx EXCEPT ![p] = [by |-> p, net |-> net, nonce |-> nonce, chain |-> chain]]
  BY <1>0
<1>2. nonce \in Nat
  BY EthereumConstants, CountType DEF EInv, Counted
<1>3. chain \in Chains \cup {Nobody}
  BY WalletFields DEF Fill, EInv, Memory, Working
<1> DEFINE t == [by |-> p, net |-> net, nonce |-> nonce, chain |-> chain]
<1>4. t \in Unsigned
  BY <1>2, <1>3 DEF Unsigned
<1>5. t.by = p /\ t.chain \in {wallet[p].chain_id, Nobody}
  OBVIOUS
<1> HIDE DEF t
<1> QED
  BY <1>1, <1>4, <1>5 DEF t

\* What SignSecond makes of it.
LEMMA SignMakes ==
    ASSUME EInv, NEW p \in Procs, SignSecond(p)
    PROVE  \E t \in Signed : /\ tx' = [tx EXCEPT ![p] = t]
                            /\ t.by = p
                            /\ t.chain = wallet[p].chain_id
                            /\ t.signer = wallet[p].address
<1>1. PICK recid \in {0, 1} :
        tx' = [tx EXCEPT ![p] = [by |-> p, net |-> tx[p].net, nonce |-> tx[p].nonce,
                 chain |-> sign_transaction(tx[p], wallet[p], recid).chain,
                 v |-> sign_transaction(tx[p], wallet[p], recid).v,
                 signer |-> Child(wallet[p].share, SignPath(wallet[p]))]]
  BY DEF SignSecond, EInv, EthTypeOK
<1>2. wallet[p] \in Wallets /\ tx[p] \in Unsigned
  BY DEF SignSecond, EInv, Memory, Working
<1>3. /\ tx[p].net \in Chains /\ tx[p].nonce \in Nat /\ tx[p].chain \in Chains \cup {Nobody}
      /\ tx[p] # Nobody
  BY <1>2, Markers DEF Unsigned
<1> DEFINE chain == sign_transaction(tx[p], wallet[p], recid).chain
           v == sign_transaction(tx[p], wallet[p], recid).v
           signer == Child(wallet[p].share, SignPath(wallet[p]))
           t == [by |-> p, net |-> tx[p].net, nonce |-> tx[p].nonce, chain |-> chain,
                 v |-> v, signer |-> signer]
<1>4. chain = wallet[p].chain_id
  BY <1>3 DEF sign_transaction, EInv, OwnTransaction
<1>5. chain \in Chains /\ v \in 0..(Word - 1)
  BY <1>2, <1>3, WalletFields, VType DEF sign_transaction
<1>6. signer = wallet[p].address
  BY <1>2 DEF Child, SignPath, EInv, OwnAddress, AddressIsChild
<1>7. wallet[p].address \in Shares \X Nat \X Nat
  BY <1>2, WalletFields, ChildType DEF EInv, OwnAddress, AddressIsChild
<1> HIDE DEF chain, v, signer
<1>8. t \in Signed
  BY <1>3, <1>5, <1>6, <1>7 DEF Signed
<1>9. t.by = p /\ t.chain = wallet[p].chain_id /\ t.signer = wallet[p].address
  BY <1>4, <1>6
<1>10. tx' = [tx EXCEPT ![p] = t]
  BY <1>1 DEF chain, v, signer
<1> HIDE DEF t
<1> QED
  BY <1>8, <1>9, <1>10

LEMMA TypeStep == EInv /\ [Next]_ethVars => EthTypeOK'
<1> SUFFICES ASSUME EInv, [Next]_ethVars PROVE EthTypeOK'
  OBVIOUS
<1> USE DEF EInv, EthTypeOK, GoTo, Working
<1>1. ASSUME NEW p \in Procs, New(p) PROVE EthTypeOK'
  <2>1. PICK s \in Shares \ used, path \in Paths, chain \in Chains :
          /\ used' = used \cup {s}
          /\ IF Len(path) < 2
             THEN GoTo(p, "failed") /\ UNCHANGED wallet
             ELSE /\ wallet' = [wallet EXCEPT ![p] =
                        [share |-> s, hd_path |-> path, chain_id |-> chain,
                         address |-> Child(s, path)]]
                  /\ GoTo(p, "save")
    BY <1>1 DEF New
  <2>2. Len(path) \in Nat
    BY EthereumConstants
  <2>3. ~(Len(path) < 2) => [share |-> s, hd_path |-> path, chain_id |-> chain,
                             address |-> Child(s, path)] \in Wallets
    BY <2>2, ChildType DEF Wallets
  <2> QED
    BY <1>1, <2>1, <2>3 DEF New
<1>2. ASSUME NEW p \in Procs, FileStep(p) PROVE EthTypeOK'
  BY <1>2 DEF FileStep, Create, Write, Memory
<1>3. ASSUME NEW p \in Procs, Load(p) PROVE EthTypeOK'
  BY <1>3 DEF Load
<1>4. ASSUME NEW p \in Procs, StageStep(p) PROVE EthTypeOK'
  <2>1. CASE SignFirst(p)
    BY <2>1, WalletFields DEF SignFirst, Memory
  <2>2. CASE ~SignFirst(p)
    BY <1>4, <2>2 DEF StageStep, SignFails, RpcFails, Confirmed, Dropped, Kill
  <2> QED
    BY <2>1, <2>2
<1>5. ASSUME NEW p \in Procs, Fill(p) PROVE EthTypeOK'
  <2>1. PICK t \in Unsigned : tx' = [tx EXCEPT ![p] = t]
    BY <1>5, FillMakes
  <2> QED
    BY <1>5, <2>1 DEF Fill
<1>6. ASSUME NEW p \in Procs, SignSecond(p) PROVE EthTypeOK'
  <2>1. PICK t \in Signed : tx' = [tx EXCEPT ![p] = t]
    BY <1>6, SignMakes
  <2> QED
    BY <1>6, <2>1 DEF SignSecond
<1>7. ASSUME NEW p \in Procs, Broadcast(p) PROVE EthTypeOK'
  <2>1. tx[p] \in Signed
    BY <1>7 DEF Broadcast, Memory
  <2>2. [net |-> tx[p].net, tx |-> tx[p]] \in Placed
    BY <2>1, SignedFields DEF Placed
  <2> QED
    BY <1>7, <2>2 DEF Broadcast, Enters
<1>8. ASSUME Replay PROVE EthTypeOK'
  BY <1>8 DEF Replay, Enters, Placed
<1>9. ASSUME Mine PROVE EthTypeOK'
  BY <1>9 DEF Mine
<1>10. ASSUME UNCHANGED ethVars PROVE EthTypeOK'
  BY <1>10 DEF ethVars
<1> QED
  BY <1>1, <1>2, <1>3, <1>4, <1>5, <1>6, <1>7, <1>8, <1>9, <1>10
  DEF Next, FileStep, StageStep

\* What New and Load put into a run's memory.
LEMMA NewWallet ==
    ASSUME EInv, NEW p \in Procs, New(p)
    PROVE  \/ GoTo(p, "failed") /\ UNCHANGED wallet
           \/ \E w \in Wallets : /\ GoTo(p, "save") /\ wallet' = [wallet EXCEPT ![p] = w]
                                 /\ AddressIsChild(w)
<1>1. PICK s \in Shares \ used, path \in Paths, chain \in Chains :
        IF Len(path) < 2
        THEN GoTo(p, "failed") /\ UNCHANGED wallet
        ELSE /\ wallet' = [wallet EXCEPT ![p] =
                      [share |-> s, hd_path |-> path, chain_id |-> chain,
                       address |-> Child(s, path)]]
             /\ GoTo(p, "save")
  BY DEF New
<1>2. Len(path) \in Nat
  BY EthereumConstants
<1> DEFINE w == [share |-> s, hd_path |-> path, chain_id |-> chain, address |-> Child(s, path)]
<1>3. ~(Len(path) < 2) => w \in Wallets /\ AddressIsChild(w)
  BY <1>2, ChildType DEF Wallets, AddressIsChild
<1> QED
  BY <1>1, <1>3

LEMMA OwnAddressStep == EInv /\ [Next]_ethVars => OwnAddress'
<1> SUFFICES ASSUME EInv, [Next]_ethVars PROVE OwnAddress'
  OBVIOUS
<1> USE DEF EInv, EthTypeOK, OwnAddress
<1>1. ASSUME NEW p \in Procs, New(p) PROVE OwnAddress'
  <2>1. UNCHANGED file
    BY <1>1 DEF New
  <2>2. \A q \in Procs : wallet'[q] \in Wallets => AddressIsChild(wallet'[q])
    BY <1>1, NewWallet
  <2> QED
    BY <2>1, <2>2 DEF AddressIsChild
<1>2. ASSUME NEW p \in Procs, Create(p) PROVE OwnAddress'
  BY <1>2, Markers DEF Create, AddressIsChild
<1>3. ASSUME NEW p \in Procs, Write(p) PROVE OwnAddress'
  <2>1. file' = wallet[p] /\ UNCHANGED wallet
    BY <1>3 DEF Write
  <2> QED
    BY <2>1 DEF AddressIsChild
<1>4. ASSUME NEW p \in Procs, Load(p) PROVE OwnAddress'
  BY <1>4 DEF Load, AddressIsChild
<1>5. CASE UNCHANGED <<file, wallet>>
  BY <1>5 DEF AddressIsChild
<1> QED
  BY <1>1, <1>2, <1>3, <1>4, <1>5 DEF Next, Fill, SignFirst, SignSecond, SignFails, Broadcast,
     RpcFails, Confirmed, Dropped, Kill, Replay, Mine, ethVars

LEMMA MemoryStep == EInv /\ [Next]_ethVars => Memory'
<1> SUFFICES ASSUME EInv, [Next]_ethVars PROVE Memory'
  OBVIOUS
<1> USE DEF EInv, EthTypeOK, Memory, GoTo, Working
<1>1. ASSUME NEW p \in Procs, New(p) PROVE Memory'
  BY <1>1, NewWallet DEF New
<1>2. ASSUME NEW p \in Procs, FileStep(p) \/ Load(p) PROVE Memory'
  BY <1>2 DEF FileStep, Create, Write, Load
<1>3. ASSUME NEW p \in Procs, StageStep(p) PROVE Memory'
  <2>1. CASE SignFirst(p)
    BY <2>1 DEF SignFirst
  <2>2. CASE ~SignFirst(p)
    BY <1>3, <2>2 DEF StageStep, SignFails, RpcFails, Confirmed, Dropped, Kill
  <2> QED
    BY <2>1, <2>2
<1>4. ASSUME NEW p \in Procs, Fill(p) PROVE Memory'
  <2>1. PICK t \in Unsigned : tx' = [tx EXCEPT ![p] = t]
    BY <1>4, FillMakes
  <2> QED
    BY <1>4, <2>1 DEF Fill
<1>5. ASSUME NEW p \in Procs, SignSecond(p) PROVE Memory'
  <2>1. PICK t \in Signed : tx' = [tx EXCEPT ![p] = t]
    BY <1>5, SignMakes
  <2> QED
    BY <1>5, <2>1 DEF SignSecond
<1>6. ASSUME NEW p \in Procs, Broadcast(p) PROVE Memory'
  BY <1>6 DEF Broadcast
<1>7. CASE Replay \/ Mine \/ UNCHANGED ethVars
  BY <1>7 DEF Replay, Mine, ethVars
<1> QED
  BY <1>1, <1>2, <1>3, <1>4, <1>5, <1>6, <1>7 DEF Next, FileStep, StageStep

LEMMA OwnTransactionStep == EInv /\ [Next]_ethVars => OwnTransaction'
<1> SUFFICES ASSUME EInv, [Next]_ethVars PROVE OwnTransaction'
  OBVIOUS
<1> USE DEF EInv, EthTypeOK, OwnTransaction
<1>1. ASSUME NEW p \in Procs, New(p) \/ Load(p) PROVE OwnTransaction'
  <2>1. tx[p] = Nobody /\ UNCHANGED tx
    BY <1>1 DEF New, Load, Memory
  <2>2. \A q \in Procs : q # p => wallet'[q] = wallet[q]
    BY <1>1, NewWallet DEF New, Load
  <2> QED
    BY <2>1, <2>2
<1>2. ASSUME NEW p \in Procs, Fill(p) PROVE OwnTransaction'
  <2>1. PICK t \in Unsigned : /\ tx' = [tx EXCEPT ![p] = t] /\ t.by = p
                              /\ t.chain \in {wallet[p].chain_id, Nobody}
    BY <1>2, FillMakes
  <2>2. UNCHANGED wallet /\ wallet[p] \in Wallets /\ t \notin Signed
    BY <1>2, UnsignedIsNotSigned DEF Fill, Memory, Working
  <2> QED
    BY <2>1, <2>2
<1>3. ASSUME NEW p \in Procs, SignSecond(p) PROVE OwnTransaction'
  <2>1. PICK t \in Signed : /\ tx' = [tx EXCEPT ![p] = t] /\ t.by = p
                            /\ t.chain = wallet[p].chain_id
                            /\ t.signer = wallet[p].address
    BY <1>3, SignMakes
  <2>2. UNCHANGED wallet /\ wallet[p] \in Wallets
    BY <1>3 DEF SignSecond, Memory, Working
  <2> QED
    BY <2>1, <2>2
<1>4. CASE UNCHANGED <<wallet, tx>>
  BY <1>4
<1> QED
  BY <1>1, <1>2, <1>3, <1>4 DEF Next, Create, Write, SignFirst, SignFails, Broadcast, RpcFails,
     Confirmed, Dropped, Kill, Replay, Mine, ethVars

\* A network of another chain does not take a signed transaction.
LEMMA ValidNamesNetwork ==
    ASSUME NEW t \in Signed, NEW net \in Chains, Valid(t, net)
    PROVE  t.chain = net
  BY SignedFields, EthereumConstants DEF Valid

LEMMA PlacedIsOwnStep == EInv /\ [Next]_ethVars => PlacedIsOwn'
<1> SUFFICES ASSUME EInv, [Next]_ethVars PROVE PlacedIsOwn'
  OBVIOUS
<1> USE DEF EInv, EthTypeOK, PlacedIsOwn, GoTo, Working
<1>0. \A m \in pool \cup mined : m.tx.by \in Procs
  BY SignedFields DEF Placed
<1>1. ASSUME NEW p \in Procs, New(p) PROVE PlacedIsOwn'
  BY <1>0, <1>1, NewWallet DEF New
<1>2. ASSUME NEW p \in Procs, FileStep(p) \/ Load(p) PROVE PlacedIsOwn'
  BY <1>0, <1>2 DEF FileStep, Create, Write, Load
<1>3. ASSUME NEW p \in Procs, StageStep(p) PROVE PlacedIsOwn'
  <2>1. CASE SignFirst(p)
    BY <1>0, <2>1 DEF SignFirst
  <2>2. CASE ~SignFirst(p)
    BY <1>0, <1>3, <2>2 DEF StageStep, SignFails, RpcFails, Confirmed, Dropped, Kill
  <2> QED
    BY <2>1, <2>2
<1>4. ASSUME NEW p \in Procs, Fill(p) PROVE PlacedIsOwn'
  BY <1>0, <1>4, FillMakes DEF Fill
<1>5. ASSUME NEW p \in Procs, SignSecond(p) PROVE PlacedIsOwn'
  BY <1>0, <1>5, SignMakes DEF SignSecond
<1>6. ASSUME NEW p \in Procs, Broadcast(p) PROVE PlacedIsOwn'
  <2>1. tx[p] \in Signed /\ tx[p].by = p
    BY <1>6, Markers DEF Broadcast, Memory, OwnTransaction
  <2>2. tx[p].chain = tx[p].net
    BY <1>6, <2>1, SignedFields, ValidNamesNetwork DEF Broadcast, Enters
  <2>3. \A m \in (pool \cup mined)' : m \in pool \cup mined \/ m = [net |-> tx[p].net, tx |-> tx[p]]
    BY <1>6 DEF Broadcast, Enters
  <2>4. UNCHANGED tx /\ stage' = [stage EXCEPT ![p] = "await"]
    BY <1>6 DEF Broadcast
  <2> QED
    BY <1>0, <2>1, <2>2, <2>3, <2>4
<1>7. ASSUME Replay PROVE PlacedIsOwn'
  <2>1. PICK p \in Procs, net \in Chains :
          /\ stage[p] \in {"await", "done", "failed"} /\ tx[p] \in Signed
          /\ Enters(tx[p], net)
    BY <1>7 DEF Replay
  <2>2. tx[p].by = p /\ tx[p].chain = net
    BY <2>1, Markers, ValidNamesNetwork DEF Enters, OwnTransaction
  <2>3. \A m \in (pool \cup mined)' : m \in pool \cup mined \/ m = [net |-> net, tx |-> tx[p]]
    BY <1>7, <2>1 DEF Replay, Enters
  <2>4. UNCHANGED <<tx, stage>>
    BY <1>7 DEF Replay
  <2> QED
    BY <2>1, <2>2, <2>3, <2>4
<1>8. CASE Mine \/ UNCHANGED ethVars
  BY <1>8 DEF Mine, ethVars
<1> QED
  BY <1>1, <1>2, <1>3, <1>4, <1>5, <1>6, <1>7, <1>8 DEF Next, FileStep, StageStep

LEMMA CountedStep == EInv /\ [Next]_ethVars => Counted'
<1> SUFFICES ASSUME EInv, [Next]_ethVars PROVE Counted'
  OBVIOUS
<1> USE DEF EInv, Counted
<1>1. ASSUME Mine PROVE Counted'
  <2>1. PICK w \in pool : w.tx.nonce = Count(w.net, w.tx.signer) /\ mined' = mined \cup {w}
    BY <1>1 DEF Mine
  <2> DEFINE On(net, a) == {m \in mined : m.net = net /\ m.tx.signer = a}
             OnAfter(net, a) == {m \in mined' : m.net = net /\ m.tx.signer = a}
  <2>2. Count(w.net, w.tx.signer) \in Nat
    BY CountType
  <2>3. w \notin mined
    BY <2>1, <2>2, SignedFields DEF EthTypeOK, Placed
  <2>4. IsFiniteSet(mined')
    BY <2>1, FS_AddElement
  <2>5. \A net, a : IsFiniteSet(On(net, a)) /\ Cardinality(On(net, a)) = Count(net, a)
    BY FS_Subset DEF Count
  <2>6. \A net, a : Cardinality(OnAfter(net, a)) = Count(net, a)'
    BY DEF Count
  <2>7. Count(w.net, w.tx.signer)' = Count(w.net, w.tx.signer) + 1
    <3>1. OnAfter(w.net, w.tx.signer) = On(w.net, w.tx.signer) \cup {w}
      BY <2>1
    <3>2. w \notin On(w.net, w.tx.signer)
      BY <2>3
    <3> HIDE DEF On, OnAfter
    <3> QED
      BY <2>5, <2>6, <3>1, <3>2, FS_AddElement
  <2>8. ASSUME NEW net, NEW a, ~(net = w.net /\ a = w.tx.signer)
        PROVE  Count(net, a)' = Count(net, a)
    <3>1. OnAfter(net, a) = On(net, a)
      BY <2>1, <2>8
    <3> HIDE DEF On, OnAfter
    <3> QED
      BY <2>5, <2>6, <3>1
  <2>9. \A m \in mined' : m \in Placed
    BY <2>1 DEF EthTypeOK
  <2>10. \A m \in mined' : m.tx.nonce \in Nat /\ Count(m.net, m.tx.signer) \in Nat
    BY <2>9, SignedFields, CountType DEF Placed
  <2> HIDE DEF On, OnAfter
  <2>11. ASSUME NEW m \in mined' PROVE m.tx.nonce < Count(m.net, m.tx.signer)'
    <3>1. CASE m.net = w.net /\ m.tx.signer = w.tx.signer
      BY <2>1, <2>7, <2>10, <3>1
    <3>2. CASE ~(m.net = w.net /\ m.tx.signer = w.tx.signer)
      BY <2>1, <2>8, <2>10, <3>2
    <3> QED
      BY <3>1, <3>2
  <2>12. ASSUME NEW m \in mined', NEW n \in mined', m.net = n.net,
                m.tx.signer = n.tx.signer, m.tx.nonce = n.tx.nonce
         PROVE  m = n
    <3>1. \A x \in mined : ~(x.net = w.net /\ x.tx.signer = w.tx.signer /\ x.tx.nonce = w.tx.nonce)
      BY <2>1, <2>2
    <3> QED
      BY <2>1, <2>12, <3>1
  <2> QED
    BY <2>4, <2>11, <2>12
<1>2. CASE UNCHANGED mined
  <2>1. \A net, a : Count(net, a)' = Count(net, a)
    BY <1>2 DEF Count
  <2> QED
    BY <1>2, <2>1
<1> QED
  BY <1>1, <1>2 DEF Next, New, Create, Write, Load, Fill, SignFirst, SignSecond, SignFails,
     Broadcast, RpcFails, Confirmed, Dropped, Kill, Replay, ethVars

LEMMA ReportedIsMinedStep == EInv /\ [Next]_ethVars => ReportedIsMined'
<1> SUFFICES ASSUME EInv, [Next]_ethVars PROVE ReportedIsMined'
  OBVIOUS
<1> USE DEF EInv, EthTypeOK, ReportedIsMined, GoTo, OnChain
<1>1. ASSUME NEW p \in Procs, New(p) PROVE ReportedIsMined'
  BY <1>1, NewWallet DEF New
<1>2. ASSUME NEW p \in Procs, FileStep(p) \/ Load(p) PROVE ReportedIsMined'
  BY <1>2 DEF FileStep, Create, Write, Load, Memory
<1>3. ASSUME NEW p \in Procs, StageStep(p) PROVE ReportedIsMined'
  <2>1. CASE SignFirst(p)
    BY <2>1 DEF SignFirst
  <2>2. CASE ~SignFirst(p)
    BY <1>3, <2>2 DEF StageStep, SignFails, RpcFails, Confirmed, Dropped, Kill
  <2> QED
    BY <2>1, <2>2
<1>4. ASSUME NEW p \in Procs, Fill(p) PROVE ReportedIsMined'
  <2>1. PICK t \in Unsigned : tx' = [tx EXCEPT ![p] = t]
    BY <1>4, FillMakes
  <2> QED
    BY <1>4, <2>1 DEF Fill
<1>5. ASSUME NEW p \in Procs, SignSecond(p) PROVE ReportedIsMined'
  <2>1. PICK t \in Signed : tx' = [tx EXCEPT ![p] = t]
    BY <1>5, SignMakes
  <2> QED
    BY <1>5, <2>1 DEF SignSecond
<1>6. ASSUME NEW p \in Procs, Broadcast(p) PROVE ReportedIsMined'
  BY <1>6 DEF Broadcast
<1>7. CASE Replay \/ Mine \/ UNCHANGED ethVars
  BY <1>7 DEF Replay, Mine, ethVars
<1> QED
  BY <1>1, <1>2, <1>3, <1>4, <1>5, <1>6, <1>7 DEF Next, FileStep, StageStep

(***************************************************************************)
(* The theorems.                                                           *)
(***************************************************************************)

LEMMA Invariance == Spec => []EInv
<1>1. EInv /\ [Next]_ethVars => EInv'
  BY TypeStep, OwnAddressStep, MemoryStep, OwnTransactionStep, PlacedIsOwnStep, CountedStep,
     ReportedIsMinedStep DEF EInv
<1> QED
  BY InitEInv, <1>1, PTL DEF Spec

\* The wallet file, the runs, the slots and the networks keep their types, with
\* v a u64 whatever the chain id.
THEOREM EthereumTypeCorrect == Spec => []EthTypeOK
<1>1. EInv => EthTypeOK
  BY DEF EInv
<1> QED
  BY Invariance, <1>1, PTL

\* What sign_transaction puts into the hash and into v keeps a transaction to
\* the chain of the wallet that signed it, whoever submits it where.
THEOREM ReplaysDoNotCount == Spec => []CountsOnOwnChain
<1>1. EInv => CountsOnOwnChain
  <2> SUFFICES ASSUME EInv, NEW m \in mined PROVE m.net = wallet[m.tx.by].chain_id
    BY DEF CountsOnOwnChain
  <2>1. m.tx \in Signed /\ m.tx.by \in Procs
    BY SignedFields DEF EInv, EthTypeOK, Placed
  <2>2. tx[m.tx.by] = m.tx /\ m.tx.chain = m.net
    BY DEF EInv, PlacedIsOwn
  <2> QED
    BY <2>1, <2>2, Markers DEF EInv, OwnTransaction
<1> QED
  BY Invariance, <1>1, PTL

\* What sign_hash signs with is the key of the address `new` showed: the path of
\* the file gives the same child at both times.
THEOREM SignerIsAddress == Spec => []SignedByAddress
<1>1. EInv => SignedByAddress
  <2> SUFFICES ASSUME EInv, NEW w \in pool \cup mined
               PROVE  w.tx.signer = wallet[w.tx.by].address
    BY DEF SignedByAddress
  <2>1. w.tx \in Signed /\ w.tx.by \in Procs
    BY SignedFields DEF EInv, EthTypeOK, Placed
  <2>2. tx[w.tx.by] = w.tx
    BY DEF EInv, PlacedIsOwn
  <2> QED
    BY <2>1, <2>2, Markers DEF EInv, OwnTransaction
<1> QED
  BY Invariance, <1>1, PTL

\* Two runs of send that printed a transaction hash for the same account made
\* two payments, as a receipt is only there for what the chain counted.
THEOREM ReportsAreDistinct == Spec => []EachReportCounts
<1>1. EInv => EachReportCounts
  <2> SUFFICES ASSUME EInv, NEW p \in Procs, NEW q \in Procs, p # q,
                      stage[p] = "done", stage[q] = "done", tx[p] # Nobody, tx[q] # Nobody,
                      wallet[p].address = wallet[q].address,
                      wallet[p].chain_id = wallet[q].chain_id,
                      tx[p].nonce = tx[q].nonce
               PROVE  FALSE
    BY DEF EachReportCounts
  <2> DEFINE M(r) == [net |-> tx[r].net, tx |-> tx[r]]
  <2>1. M(p) \in mined /\ M(q) \in mined
    BY DEF EInv, ReportedIsMined, OnChain
  <2>2. tx[p] \in Signed /\ tx[q] \in Signed
    BY <2>1 DEF EInv, EthTypeOK, Placed
  <2>3. /\ tx[p].by = p /\ tx[p].chain = wallet[p].chain_id /\ tx[p].signer = wallet[p].address
        /\ tx[q].by = q /\ tx[q].chain = wallet[q].chain_id /\ tx[q].signer = wallet[q].address
    BY <2>2 DEF EInv, OwnTransaction
  <2>4. tx[p].chain = tx[p].net /\ tx[q].chain = tx[q].net
    BY <2>1 DEF EInv, PlacedIsOwn
  <2>5. M(p) = M(q)
    BY <2>1, <2>3, <2>4 DEF EInv, Counted
  <2> QED
    BY <2>3, <2>5
<1> QED
  BY Invariance, <1>1, PTL
=============================================================================
