---------------------------- MODULE EthereumWallet ----------------------------
(***************************************************************************)
(* The Ethereum wallet of demo-wallet/src/ethereum: the wallet file, the   *)
(* commands of the program and the transactions they make.  A process is   *)
(* one run with one command.  Signing is two requests to the server, whose *)
(* effect on each other is taken over from Signing: a later first request  *)
(* for the same share displaces the earlier one.                           *)
(*                                                                         *)
(* A network is known by its chain id.  The rpc_url of the settings may be *)
(* that of any network, and whoever sees a signed transaction can submit   *)
(* it to another.  Amounts, gas and fees are left out, as is --no-mpc,     *)
(* which signs with a local key.                                           *)
(***************************************************************************)
EXTENDS Integers, Sequences, FiniteSets

CONSTANTS
    Procs,          \* the runs of the program
    Shares,         \* what key generations yield
    Paths,          \* what --hd-path may be
    Chains,         \* chain ids, of networks and of --chain-id
    CustomNonces,   \* what --nonce may be
    Word,           \* u64 arithmetic is modulo this
    Missing,        \* no such file
    Torn,           \* a file that was created and not written
    Nobody,         \* no run, no chain
    Faults          \* kill: a run ends at any point

ASSUME EthereumConstants ==
    /\ Paths \subseteq Seq(Nat)
    /\ CustomNonces \subseteq Nat
    /\ Chains \subseteq Nat
    /\ Word \in Nat \ {0}
    /\ Nobody \notin Chains \cup Procs
    /\ Faults \subseteq {"kill"}

VARIABLES
    file,       \* the content of wallet.json
    stage,      \* where each run is
    wallet,     \* the wallet in its memory
    tx,         \* the transaction it makes
    slot,       \* share -> the run that may sign with it
    pool,       \* transactions waiting at a network
    mined,      \* transactions on the chain of a network
    used        \* the shares that were generated

ethVars == <<file, stage, wallet, tx, slot, pool, mined, used>>

Child(share, path) == <<share, path[1], path[2]>>

Addresses == {Child(s, path) : s \in Shares, path \in {q \in Paths : Len(q) >= 2}}

Wallets == [share : Shares, hd_path : Paths, chain_id : Chains, address : Addresses]

Working == {"save", "write", "fill", "first", "second", "broadcast", "await"}

Unsigned == [by : Procs, net : Chains, nonce : Nat, chain : Chains \cup {Nobody}]
Signed == [by : Procs, net : Chains, nonce : Nat, chain : Chains, v : 0..(Word - 1),
           signer : Shares \X Nat \X Nat]
Placed == [net : Chains, tx : Signed]

ASSUME Markers == /\ Missing \notin Wallets /\ Torn \notin Wallets
                  /\ Nobody \notin Unsigned \cup Signed

EthTypeOK ==
    /\ file \in Wallets \cup {Missing, Torn}
    /\ stage \in [Procs -> {"idle", "done", "failed"} \cup Working]
    /\ wallet \in [Procs -> Wallets \cup {Missing}]
    /\ tx \in [Procs -> Unsigned \cup Signed \cup {Nobody}]
    /\ slot \in [Shares -> Procs \cup {Nobody}]
    /\ pool \subseteq Placed
    /\ mined \subseteq Placed
    /\ used \subseteq Shares

Init ==
    /\ file = Missing
    /\ stage = [p \in Procs |-> "idle"]
    /\ wallet = [p \in Procs |-> Missing]
    /\ tx = [p \in Procs |-> Nobody]
    /\ slot = [s \in Shares |-> Nobody]
    /\ pool = {} /\ mined = {} /\ used = {}

GoTo(p, next) == stage' = [stage EXCEPT ![p] = next]

-----------------------------------------------------------------------------
(* The wallet file. *)

\* new: a key generation; a path of less than two positions panics after it.
New(p) ==
    /\ stage[p] = "idle"
    /\ \E s \in Shares \ used, path \in Paths, chain \in Chains :
          /\ used' = used \cup {s}
          /\ IF Len(path) < 2
             THEN GoTo(p, "failed") /\ UNCHANGED wallet
             ELSE /\ wallet' = [wallet EXCEPT ![p] =
                        [share |-> s, hd_path |-> path, chain_id |-> chain,
                         address |-> Child(s, path)]]
                  /\ GoTo(p, "save")
    /\ UNCHANGED <<file, tx, slot, pool, mined>>

\* File::create empties the file ...
Create(p) ==
    /\ stage[p] = "save"
    /\ file' = Torn
    /\ GoTo(p, "write")
    /\ UNCHANGED <<wallet, tx, slot, pool, mined, used>>

\* ... and to_writer_pretty fills it.
Write(p) ==
    /\ stage[p] = "write"
    /\ file' = wallet[p]
    /\ GoTo(p, "done")
    /\ UNCHANGED <<wallet, tx, slot, pool, mined, used>>

\* The other commands load the wallet; balance asks for its address and ends.
Load(p) ==
    /\ stage[p] = "idle"
    /\ IF file \in {Missing, Torn}
       THEN GoTo(p, "failed") /\ UNCHANGED wallet
       ELSE /\ wallet' = [wallet EXCEPT ![p] = file]
            /\ GoTo(p, "fill") \/ GoTo(p, "done")
    /\ UNCHANGED <<file, tx, slot, pool, mined, used>>

-----------------------------------------------------------------------------
(* send and transfer. *)

\* How many transactions of the address are on the chain.
Count(net, address) == Cardinality({m \in mined : m.net = net /\ m.tx.signer = address})

\* The run talks to the node of rpc_url, whichever network that is on (`net` is
\* where the run sends its transaction).  send names the wallet's chain, transfer
\* leaves it to the signer.  The nonce is the user's, or the number the node knows.
Fill(p) ==
    /\ stage[p] = "fill"
    /\ \E net \in Chains, chain \in {wallet[p].chain_id, Nobody} :
       \E nonce \in CustomNonces \cup {Count(net, wallet[p].address)} :
          tx' = [tx EXCEPT ![p] = [by |-> p, net |-> net, nonce |-> nonce, chain |-> chain]]
    /\ GoTo(p, "first")
    /\ UNCHANGED <<file, wallet, slot, pool, mined, used>>

\* The first request of `sign` takes the slot of the share.
SignFirst(p) ==
    /\ stage[p] = "first"
    /\ slot' = [slot EXCEPT ![wallet[p].share] = p]
    /\ GoTo(p, "second")
    /\ UNCHANGED <<file, wallet, tx, pool, mined, used>>

\* Mutant: the positions are swapped.
SwappedPath(w) == <<w.hd_path[2], w.hd_path[1]>>

\* sign_hash signs with the child at the first two positions of the path, and
\* names the same two to the server.
SignPath(w) == <<w.hd_path[1], w.hd_path[2]>>

\* Mutant: a signature from before EIP-155, good on every chain.
Unprotected(t, w, recid) == [chain |-> Nobody, v |-> 27 + recid]

\* sign_transaction hashes a chain id, the wallet's if the transaction has none,
\* and puts the same into v, as a u64: a chain id in the upper half wraps there (a
\* build with overflow checks panics, see SignFails).
sign_transaction(t, w, recid) ==
    LET chain == IF t.chain = Nobody THEN w.chain_id ELSE t.chain
    IN  [chain |-> chain, v |-> (chain * 2 + 35 + recid) % Word]

\* The second request fails if another run's first request for the share came
\* after the run's own.
SignSecond(p) ==
    /\ stage[p] = "second"
    /\ slot[wallet[p].share] = p
    /\ \E recid \in {0, 1} :
          LET signature == sign_transaction(tx[p], wallet[p], recid)
          IN  tx' = [tx EXCEPT ![p] = [by |-> p, net |-> @.net, nonce |-> @.nonce,
                        chain |-> signature.chain, v |-> signature.v,
                        signer |-> Child(wallet[p].share, SignPath(wallet[p]))]]
    /\ GoTo(p, "broadcast")
    /\ UNCHANGED <<file, wallet, slot, pool, mined, used>>

\* `unwrap` of what sign returns: the slot was taken, or a request failed.
SignFails(p) ==
    /\ stage[p] \in {"first", "second"}
    /\ GoTo(p, "failed")
    /\ UNCHANGED <<file, wallet, tx, slot, pool, mined, used>>

-----------------------------------------------------------------------------
(* The networks. *)

\* The chain a network reads from v; signatures before EIP-155 name none.
DecodedChain(v) == IF v >= 35 THEN (v - 35) \div 2 ELSE Nobody

\* A network takes a transaction for its own chain or for none.  The signer is
\* recovered from the hash with the chain that v names: were another one hashed,
\* it would be an address without funds.
Valid(t, net) ==
    /\ DecodedChain(t.v) \in {net, Nobody}
    /\ DecodedChain(t.v) = t.chain
    /\ t.nonce >= Count(net, t.signer)

\* A transaction of the same signer and nonce makes room or is in the way.
Enters(t, net) ==
    /\ Valid(t, net)
    /\ LET rivals == {w \in pool : w.net = net /\ w.tx.signer = t.signer /\ w.tx.nonce = t.nonce}
       IN  pool' = (pool \ rivals) \cup {[net |-> net, tx |-> t]}

\* Mutant: the hash is printed without a receipt.
PrintHash(p) ==
    /\ stage[p] = "broadcast"
    /\ Enters(tx[p], tx[p].net)
    /\ GoTo(p, "done")
    /\ UNCHANGED <<file, wallet, tx, slot, mined, used>>

Broadcast(p) ==
    /\ stage[p] = "broadcast"
    /\ Enters(tx[p], tx[p].net)
    /\ GoTo(p, "await")
    /\ UNCHANGED <<file, wallet, tx, slot, mined, used>>

\* Every `?` on the node's answers: it cannot be reached, or it refuses the
\* transaction, being of another network or having a rival of it in its pool.
RpcFails(p) ==
    /\ stage[p] \in {"fill", "broadcast", "await"}
    /\ GoTo(p, "failed")
    /\ UNCHANGED <<file, wallet, tx, slot, pool, mined, used>>

\* A transaction that was sent to a node is public, even when the node refused
\* it: somebody submits it to another network, or again to the same.
Replay ==
    /\ \E p \in Procs, net \in Chains :
          /\ stage[p] \in {"await", "done", "failed"} /\ tx[p] \in Signed
          /\ [net |-> net, tx |-> tx[p]] \notin pool \cup mined
          /\ Enters(tx[p], net)
    /\ UNCHANGED <<file, stage, wallet, tx, slot, mined, used>>

Mine ==
    /\ \E w \in pool :
          /\ w.tx.nonce = Count(w.net, w.tx.signer)
          /\ mined' = mined \cup {w}
          /\ pool' = pool \ {w}
    /\ UNCHANGED <<file, stage, wallet, tx, slot, used>>

OnChain(p) == [net |-> tx[p].net, tx |-> tx[p]] \in mined

\* The receipt is there, and the hash is printed.
Confirmed(p) ==
    /\ stage[p] = "await" /\ OnChain(p)
    /\ GoTo(p, "done")
    /\ UNCHANGED <<file, wallet, tx, slot, pool, mined, used>>

\* No receipt will come, as another transaction took the place: `unwrap` of None.
Dropped(p) ==
    /\ stage[p] = "await" /\ ~OnChain(p)
    /\ [net |-> tx[p].net, tx |-> tx[p]] \notin pool
    /\ GoTo(p, "failed")
    /\ UNCHANGED <<file, wallet, tx, slot, pool, mined, used>>

Kill(p) ==
    /\ "kill" \in Faults /\ stage[p] \in Working
    /\ GoTo(p, "failed")
    /\ UNCHANGED <<file, wallet, tx, slot, pool, mined, used>>

Next ==
    \/ \E p \in Procs :
          \/ New(p) \/ Create(p) \/ Write(p) \/ Load(p)
          \/ Fill(p) \/ SignFirst(p) \/ SignSecond(p) \/ SignFails(p)
          \/ Broadcast(p) \/ RpcFails(p) \/ Confirmed(p) \/ Dropped(p) \/ Kill(p)
    \/ Replay \/ Mine

Spec == Init /\ [][Next]_ethVars

-----------------------------------------------------------------------------
(* Properties. *)

\* Whoever submits a transaction where: it only counts on the chain its wallet
\* was made for.
CountsOnOwnChain ==
    \A m \in mined : m.net = wallet[m.tx.by].chain_id

\* The signature of a transaction recovers to the address the wallet shows and
\* receives on.
SignedByAddress ==
    \A w \in pool \cup mined : w.tx.signer = wallet[w.tx.by].address

\* Two runs that ended with a transaction hash made two payments, though both
\* may have asked for the nonce before either was mined.
EachReportCounts ==
    \A p, q \in Procs :
        (/\ p # q /\ stage[p] = "done" /\ stage[q] = "done"
         /\ tx[p] # Nobody /\ tx[q] # Nobody
         /\ wallet[p].address = wallet[q].address /\ wallet[p].chain_id = wallet[q].chain_id)
        => tx[p].nonce # tx[q].nonce
=============================================================================
