---------------------------- MODULE BitcoinWallet ----------------------------
(***************************************************************************)
(* The Bitcoin wallet of demo-wallet/src/bitcoin: the wallet file and the  *)
(* commands that load it, derive addresses, send and save.  A process is   *)
(* one run of the program with one command.  Nothing locks the file, and   *)
(* saving truncates it before it writes.  Beside it lie the escrow's key   *)
(* (escrow.rs), made with the wallet, and the backup of the share.  All    *)
(* runs use the default paths.                                             *)
(*                                                                         *)
(* An address is the position it is derived at; values and which outputs   *)
(* cover an amount are SendAmounts's matter, the two signing requests per  *)
(* input Signing's.                                                        *)
(***************************************************************************)
EXTENDS Integers, FiniteSets

CONSTANTS
    Procs,      \* the runs of the program
    Shares,     \* what key generations yield (PrivateShare)
    MaxCoins,   \* bound on the coins the network ever makes for the wallet
    Missing,    \* no such file
    Torn,       \* a file that was truncated and not written
    Uses,       \* how the program may be used: how many runs there are, a bound, and
                \* how many of them may be at work at the same time
    Faults      \* kill: a run ends at any point (a signal, a failing write);
                \* unanswered: a broadcast is accepted, its answer lost

ASSUME WalletConstants ==
    /\ MaxCoins \in Nat
    /\ Uses \subseteq [runs : Nat, together : Nat \ {0}]
    /\ Faults \subseteq {"kill", "unanswered"}
    /\ IsFiniteSet(Procs)

VARIABLES
    use,        \* how it is used this time
    file,       \* the content of wallet.json
    escrow,     \* the content of escrow-bitcoin.json: a key, named like the share
                \* of the wallet it was made with
    backup,     \* the content of backup-bitcoin.json
    stage,      \* where each run is
    wallet,     \* the wallet in its memory
    selected,   \* the coins it uses or shows
    coins,      \* the unspent coins of the network
    made,       \* how many coins there ever were
    handed,     \* addresses given to somebody: who gave which
    used        \* the shares that were generated

backupVars == <<escrow, backup>>
walletVars == <<use, file, escrow, backup, stage, wallet, selected, coins, made, handed, used>>

Wallets == [share : Shares, last_derived_pos : Nat, derivations : SUBSET Nat]
Coins == [id : 1..MaxCoins, share : Shares, pos : Nat]
NoWallet == Missing

\* A share encrypted to an escrow key, with a proof for the share's public key.
Backups == [share : Shares, escrow : Shares]

ASSUME Markers == /\ Missing \notin Wallets /\ Torn \notin Wallets
                  /\ Missing \notin Backups

Commands == {"derive", "query", "select", "backup", "verify"}
Working == Commands \cup {"sign", "broadcast", "save", "write", "escrow"}
Over == {"done", "failed", "cut off", "verified"}

WalletTypeOK ==
    /\ use \in Uses
    /\ file \in Wallets \cup {Missing, Torn}
    /\ escrow \in Shares \cup {Missing, Torn}
    /\ backup \in Backups \cup {Missing, Torn}
    /\ stage \in [Procs -> {"idle"} \cup Working \cup Over]
    /\ wallet \in [Procs -> Wallets \cup {NoWallet}]
    /\ selected \in [Procs -> SUBSET Coins]
    /\ coins \subseteq Coins
    /\ made \in 0..MaxCoins
    /\ handed \subseteq [by : Procs, share : Shares, pos : Nat]
    /\ used \subseteq Shares

Init ==
    /\ use \in Uses
    /\ file = Missing /\ escrow = Missing /\ backup = Missing
    /\ stage = [p \in Procs |-> "idle"]
    /\ wallet = [p \in Procs |-> NoWallet]
    /\ selected = [p \in Procs |-> {}]
    /\ coins = {} /\ made = 0 /\ handed = {} /\ used = {}

-----------------------------------------------------------------------------
(* Operations of BitcoinWallet. *)

\* Mutants: the position is advanced twice; it is moved back.
SkipOne(pos) == pos + 2
StepBack(pos) == pos - 1

derive_new_key(pos) == pos + 1

\* Mutant: the map is not updated.
AddressNotMapped(w) == [w EXCEPT !.last_derived_pos = derive_new_key(@)]

get_new_bitcoin_address(w) ==
    LET pos == derive_new_key(w.last_derived_pos)
    IN  [w EXCEPT !.last_derived_pos = pos, !.derivations = @ \cup {pos}]

\* Mutant: the rebuilt map begins at position 0.
DerivedFromZero(w) == [w EXCEPT !.derivations = @ \cup 0..(w.last_derived_pos - 1)]

derived(w) ==
    [w EXCEPT !.derivations = @ \cup {derive_new_key(i) : i \in 0..(w.last_derived_pos - 1)}]

\* Mutant: the range is exclusive.
AllButTheLast(w) == 0..(w.last_derived_pos - 1)

get_all_addresses(w) == 0..w.last_derived_pos

\* What Electrum lists for the addresses of the wallet.
list_unspent(w) ==
    {c \in coins : c.share = w.share /\ c.pos \in get_all_addresses(w)}

HandOut(p, w) ==
    handed' = handed \cup {[by |-> p, share |-> w.share, pos |-> w.last_derived_pos]}

-----------------------------------------------------------------------------
(* Commands. *)

MayStart(p) ==
    /\ stage[p] = "idle"
    /\ Cardinality({q \in Procs : stage[q] # "idle"}) < use.runs
    /\ Cardinality({q \in Procs : stage[q] \in Working}) < use.together

GoTo(p, next) == stage' = [stage EXCEPT ![p] = next]

\* create-wallet: a key generation, then the file is written, whatever it held.
CreateWallet(p) ==
    /\ MayStart(p)
    /\ \E s \in Shares \ used :
          /\ used' = used \cup {s}
          /\ wallet' = [wallet EXCEPT ![p] =
                [share |-> s, last_derived_pos |-> 0, derivations |-> {}]]
    /\ GoTo(p, "save")
    /\ UNCHANGED <<use, file, backupVars, selected, coins, made, handed>>

\* Every other command begins with load_from, which panics without a wallet.
Load(p) ==
    /\ MayStart(p)
    /\ IF file \in {Missing, Torn}
       THEN GoTo(p, "failed") /\ UNCHANGED wallet
       ELSE /\ wallet' = [wallet EXCEPT ![p] = file]
            /\ \E command \in Commands : GoTo(p, command)
    /\ UNCHANGED <<use, file, backupVars, selected, coins, made, handed, used>>

\* Mutant: new-address does not save.
PrintOnly(p) ==
    /\ stage[p] = "derive"
    /\ wallet' = [wallet EXCEPT ![p] = get_new_bitcoin_address(@)]
    /\ HandOut(p, wallet'[p])
    /\ GoTo(p, "done")
    /\ UNCHANGED <<use, file, backupVars, selected, coins, made, used>>

\* new-address derives, prints the address, and only then saves.
NewAddress(p) ==
    /\ stage[p] = "derive"
    /\ wallet' = [wallet EXCEPT ![p] = get_new_bitcoin_address(@)]
    /\ HandOut(p, wallet'[p])
    /\ GoTo(p, "save")
    /\ UNCHANGED <<use, file, backupVars, selected, coins, made, used>>

\* get-balance and list-unspent show what the addresses of the wallet hold.
Show(p) ==
    /\ stage[p] = "query"
    /\ selected' = [selected EXCEPT ![p] = list_unspent(wallet[p])]
    /\ GoTo(p, "done")
    /\ UNCHANGED <<use, file, backupVars, wallet, coins, made, handed, used>>

\* send selects coins on addresses with a confirmed balance; with none it exits,
\* as it panics on a recipient that does not parse or an amount the coins do not
\* cover.  Then a change address is derived.
SelectCoins(p) ==
    /\ stage[p] = "select"
    /\ \E chosen \in SUBSET list_unspent(wallet[p]) :
          IF chosen = {}
          THEN GoTo(p, "failed") /\ UNCHANGED <<wallet, selected>>
          ELSE /\ selected' = [selected EXCEPT ![p] = chosen]
               /\ wallet' = [wallet EXCEPT ![p] = get_new_bitcoin_address(@)]
               /\ GoTo(p, "sign")
    /\ UNCHANGED <<use, file, backupVars, coins, made, handed, used>>

\* Each input is signed with the key its address maps to; the `unwrap` of a
\* missing address, as of a failed signing, ends the run.
SignInputs(p) ==
    /\ stage[p] = "sign"
    /\ IF \A c \in selected[p] : c.pos \in wallet[p].derivations
       THEN GoTo(p, "broadcast") \/ GoTo(p, "failed")
       ELSE GoTo(p, "failed")
    /\ UNCHANGED <<use, file, backupVars, wallet, selected, coins, made, handed, used>>

\* Mutant: send does not save.
BroadcastOnly(p) ==
    /\ stage[p] = "broadcast"
    /\ selected[p] \subseteq coins /\ made < MaxCoins
    /\ made' = made + 1
    /\ coins' = (coins \ selected[p]) \cup
          {[id |-> made', share |-> wallet[p].share, pos |-> wallet[p].last_derived_pos]}
    /\ HandOut(p, wallet[p])
    /\ GoTo(p, "done")
    /\ UNCHANGED <<use, file, backupVars, wallet, selected, used>>

\* The network takes a transaction whose inputs are unspent, and the change is
\* a coin of the wallet.  An error answer is unwrapped: the run ends unsaved.
Broadcast(p) ==
    /\ stage[p] = "broadcast"
    /\ selected[p] \subseteq coins /\ made < MaxCoins
    /\ made' = made + 1
    /\ coins' = (coins \ selected[p]) \cup
          {[id |-> made', share |-> wallet[p].share, pos |-> wallet[p].last_derived_pos]}
    /\ HandOut(p, wallet[p])
    /\ GoTo(p, "save") \/ ("unanswered" \in Faults /\ GoTo(p, "cut off"))
    /\ UNCHANGED <<use, file, backupVars, wallet, selected, used>>

BroadcastRejected(p) ==
    /\ stage[p] = "broadcast"
    /\ GoTo(p, "failed")
    /\ UNCHANGED <<use, file, backupVars, wallet, selected, coins, made, handed, used>>

\* save_to: fs::write truncates the file ...
Truncate(p) ==
    /\ stage[p] = "save"
    /\ file' = Torn
    /\ GoTo(p, "write")
    /\ UNCHANGED <<use, backupVars, wallet, selected, coins, made, handed, used>>

\* ... and writes the wallet.  create-wallet, the only command that saves a wallet
\* without a derived address, goes on with the escrow.
Write(p) ==
    /\ stage[p] = "write"
    /\ file' = wallet[p]
    /\ GoTo(p, IF wallet[p].last_derived_pos = 0 THEN "escrow" ELSE "done")
    /\ UNCHANGED <<use, backupVars, wallet, selected, coins, made, handed, used>>

\* Mutant: an escrow key that is there is kept.
KeepEscrow(p) ==
    /\ stage[p] = "escrow"
    /\ escrow' = IF escrow \in Shares THEN escrow ELSE wallet[p].share
    /\ GoTo(p, "done")
    /\ UNCHANGED <<use, file, backup, wallet, selected, coins, made, handed, used>>

\* Escrow::new makes a key and overwrites the escrow file.
NewEscrow(p) ==
    /\ stage[p] = "escrow"
    /\ \/ escrow' = wallet[p].share /\ GoTo(p, "done")
       \/ "kill" \in Faults /\ escrow' = Torn /\ GoTo(p, "cut off")
    /\ UNCHANGED <<use, file, backup, wallet, selected, coins, made, handed, used>>

\* backup and verify panic without a readable escrow file, verify also without a
\* readable backup.  (Torn escrows and backups are seen only when a run ended in
\* the write: a reader in the middle of it would fail here, and change nothing.)
EscrowFails(p) ==
    /\ \/ stage[p] \in {"backup", "verify"} /\ escrow \in {Missing, Torn}
       \/ stage[p] = "verify" /\ backup \in {Missing, Torn}
    /\ GoTo(p, "failed")
    /\ UNCHANGED <<use, file, backupVars, wallet, selected, coins, made, handed, used>>

\* The share of the wallet is encrypted to the escrow's key.
BackUp(p) ==
    /\ stage[p] = "backup" /\ escrow \in Shares
    /\ \/ backup' = [share |-> wallet[p].share, escrow |-> escrow] /\ GoTo(p, "done")
       \/ "kill" \in Faults /\ backup' = Torn /\ GoTo(p, "cut off")
    /\ UNCHANGED <<use, file, escrow, wallet, selected, coins, made, handed, used>>

\* The proof is checked against the escrow's key and the public key the backup
\* names; the wallet that was loaded plays no part.
Verify(p) ==
    /\ stage[p] = "verify" /\ escrow \in Shares /\ backup \in Backups
    /\ GoTo(p, IF backup.escrow = escrow THEN "verified" ELSE "done")
    /\ UNCHANGED <<use, file, backupVars, wallet, selected, coins, made, handed, used>>

Kill(p) ==
    /\ "kill" \in Faults /\ stage[p] \in Working
    /\ GoTo(p, "cut off")
    /\ UNCHANGED <<use, file, backupVars, wallet, selected, coins, made, handed, used>>

\* Somebody pays to an address they were given.
Pay ==
    /\ made < MaxCoins
    /\ made' = made + 1
    /\ \E h \in handed :
          coins' = coins \cup {[id |-> made', share |-> h.share, pos |-> h.pos]}
    /\ UNCHANGED <<use, file, backupVars, stage, wallet, selected, handed, used>>

Next ==
    \/ \E p \in Procs :
          \/ CreateWallet(p) \/ Load(p) \/ NewAddress(p) \/ Show(p) \/ SelectCoins(p)
          \/ SignInputs(p) \/ Broadcast(p) \/ BroadcastRejected(p)
          \/ Truncate(p) \/ Write(p) \/ Kill(p)
          \/ NewEscrow(p) \/ EscrowFails(p) \/ BackUp(p) \/ Verify(p)
    \/ Pay

Spec == Init /\ [][Next]_walletVars

-----------------------------------------------------------------------------
(* Properties. *)

\* A selected coin's address is in the derivation map, so the `unwrap` in send
\* cannot fail: the coins of all positions 0..last are looked at, the map starts
\* at 1, and nobody is ever given the address of position 0.
InputsAreKnown ==
    \A p \in Procs : stage[p] = "sign" =>
        \A c \in selected[p] : c.pos \in wallet[p].derivations

\* Rebuilding the map from the last position (`derived`) gives back the map the
\* derivations made, for every wallet in memory or on disk.
RebuildGivesTheMap ==
    \A w \in ({wallet[p] : p \in Procs} \cup {file}) \ {Missing, Torn} :
        derived([w EXCEPT !.derivations = {}]) = w

\* Commands are given one after the other.
OneByOne == use.together = 1

Readable == file \notin {Missing, Torn}

\* One run at a time: a coin of the saved wallet is at most one position beyond
\* what the file knows, wherever runs were cut off: one more new-address brings
\* it into view, and no coin is out of reach.
CoinsWithinReach ==
    OneByOne /\ Readable =>
        \A c \in coins : c.share = file.share => c.pos <= file.last_derived_pos + 1

\* One run at a time: an address a command gave away and ended well with is one
\* the file knows, so later commands see what is paid to it.
CompletedIsSaved ==
    OneByOne /\ Readable =>
        \A h \in handed : stage[h.by] = "done" /\ h.share = file.share =>
            h.pos <= file.last_derived_pos

\* ... and each runs to its own end.
Orderly == OneByOne /\ \A p \in Procs : stage[p] # "cut off"

\* Total balance and list of unspent transactions: as long as runs are orderly,
\* what is shown is all the wallet has.
ShowsEveryCoin ==
    [][\A p \in Procs : Orderly /\ stage[p] = "query" /\ stage'[p] = "done" =>
          selected'[p] = {c \in coins : c.share = wallet[p].share}]_walletVars

\* "Backup verification": a backup that verifies is one of the wallet it is
\* verified for.
VerifiedIsOwn ==
    [][\A p \in Procs : stage[p] # "verified" /\ stage'[p] = "verified" =>
          backup.share = wallet[p].share]_walletVars

\* "Generate a new address": no address is given away twice.
HandedOutOnce ==
    \A g, h \in handed : g.share = h.share /\ g.pos = h.pos => g.by = h.by

\* Both hold as long as runs are orderly; the runs of the program that break
\* them were cut off or overlapped.
OrderlyIsOwn ==
    [][\A p \in Procs : Orderly /\ stage[p] # "verified" /\ stage'[p] = "verified" =>
          backup.share = wallet[p].share]_walletVars

OrderlyHandsOutOnce == Orderly => HandedOutOnce
=============================================================================
