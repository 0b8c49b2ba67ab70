# Gotham City in TLA+

Gotham City is a two-party ECDSA wallet: a server (`gotham-server`) and a client
(`gotham-client`, used by `demo-wallet`) each hold a share of a key, generate it
together and sign together. Neither can sign alone. This directory holds TLA+
models of the protocol steps, of the server's store and lock, of the wallet
programs around them and of the library mobile apps call, the TLC configurations
that check them, and TLAPS proofs of every safety property the runs check, for any
number of sessions, keys, runs, calls and outputs, and for floats of any precision.

`PROJECT.json` maps each definition to the source lines it stands for and lists
runs, mutants, findings, hazards and theorems.

## The system

| Part | Source | State it keeps | Operations | Talks to |
|---|---|---|---|---|
| Server store and lock | `gotham-server/src/public_gotham.rs`, `server.rs` | RocksDB: `{user}_{id}_{table}` to a JSON record; one `tokio::Mutex` around it | `insert`, `get`, `granted`, open | called by every route |
| Sign routes | mounted in `server.rs`; bodies in `gotham_engine` (not in the repository) | `EphKeyGenFirstMsg`, `EphEcKeyPair` per master key | `sign/{id}/first`, `sign/{id}/second` | store; client over HTTP |
| Key generation routes | as above | one record per round and, at the end, `Party1MasterKey` | six `keygen` routes | store; client over HTTP |
| `sign` | `gotham-client/src/ecdsa/sign.rs` | locals of a call: nonce, partial signature | two posts | sign routes; called by wallets and bindings |
| `get_master_key` | `gotham-client/src/ecdsa/keygen.rs` | locals of a call; returns a `PrivateShare` | six posts | key generation routes; called by wallets |
| HTTP shim | `gotham-client/src/lib.rs` | none | `post`, `postb`: one attempt, any error is `None` | server |
| Bitcoin wallet | `demo-wallet/src/bitcoin/*` | `wallet.json` (share, last position, map of addresses), `escrow-bitcoin.json`, `backup-bitcoin.json` | `create-wallet`, `new-address`, `get-balance`, `list-unspent`, `send`, `backup`, `verify` | keygen, sign, Electrum |
| Ethereum wallet | `demo-wallet/src/ethereum/*` | `wallet.json` | `new`, `send`, `transfer`, `balance` | keygen, sign, JSON-RPC |
| C and JNI bindings | `gotham-client/src/ecdsa/{sign,keygen,recover}.rs` | none | decode strings and call the above; recovery of shares | mobile apps |

What is hard in it:

* **Concurrency at the server.** Requests of different sessions interleave. Each
  route holds the lock for its whole body, but a signing session consists of two
  requests, and its records are filed under the *key*, not the session: another
  session may run between the two. Two fields of one session are two separate
  puts. Nothing is ever deleted.
* **Failure.** `put` errors are discarded, `get` errors panic with the lock
  held, the server may die anywhere and reopen the database while clients that
  have their answer go on, and a client that gives up leaves its handler running.
* **Order of effects in the wallet program.** Addresses are printed and
  transactions broadcast before the wallet is saved; saving truncates first;
  nothing locks the file; `create-wallet` writes two files one after the other.
* **Numbers.** Amounts are `f32`, `i64` and `u64` at different places of one
  call, a chain id is doubled in a `u64`, and scalars lose their leading zeros.
* **Errors as values.** The C and JNI functions return the text of an error where
  they return keys, and a panic in one ends the whole app.

What makes the parts correct: a displaced signing session fails and at least one
of several contenders succeeds; every call returns; a key is made at most once and
no restart forgets or replaces it; a key generation that ended well left a usable
key; no coin
of the wallet goes out of reach of its file and every input can be signed;
addresses are new; a verified backup is one of the wallet; a send pays what was
asked or says it cannot; a transaction counts on its own chain only; the key that
recovery builds of a wallet's two secrets is the one that signs.

## The modules

| Module | Models | Uses |
|---|---|---|
| `PublicGotham` | store, lock, their failures; operators, no behaviour of its own | |
| `Signing` | `sign` against the two sign routes | extends `PublicGotham`, instantiates `SigningSlot` |
| `SigningSlot` | abstract: one signing slot per key | |
| `Keygen` | `get_master_key` against the six routes | extends `PublicGotham` |
| `Gotham` | one server with key generations and signings | extends `Keygen`, instantiates `Signing` and `KeyLife` |
| `KeyLife` | abstract: what server and clients promise about keys | |
| `BitcoinWallet` | the bitcoin subcommands over their files and the network | |
| `Floats` | rounding of `f32`; operators, no behaviour of its own | |
| `SendAmounts` | the arithmetic and the signature encoding inside `send` | extends `Floats` |
| `EthereumWallet` | the evm subcommands over their file, the two requests of `sign` and the networks | |
| `Bindings` | the C and JNI functions, recovery among them, under an app | |
| `SigningProofs`, `GothamProofs`, `BitcoinProofs`, `EthereumProofs`, `BindingsProofs`, `FloatsProofs` | proofs | extend their module and `TLAPS` |
| `GothamSlotProofs` | proofs: what holds of `Signing` holds of `Gotham` | extends `GothamProofs`, instantiates `SigningProofs` |
| `SendAmountsProofs` | proofs | extends `SendAmounts` and `FloatsProofs` |
| `MC...` | instances for TLC | the module of the same name |

### PublicGotham

`db` is a function from (id, table) to a record or `None`; `idify` is a pair
because the formatted string is injective for the ids (uuids) and table names in
use. `Insert` writes, or, with the fault `"put"`, does nothing, and answers Ok
either way (line 66). `Get` gives the record or `None`; with the fault `"get"`
it may panic (line 77). `Lock` is `state.lock().await`; `Unlock` the end of the
guard's scope, which a panic reaches too, as tokio's mutex is not poisoned.
`Reopen` is a new process: the database stays, the mutex is new. `granted` is
the constant of the code.

### Signing

A session is one call of `sign`. `client[s]` says which answer it waits for,
`handler[s]` where the server is in that request, `reply[s]` what is under way.
Both parties' nonces of session `s` are called `s`; that no two sessions draw one
nonce is the assumption of the cryptography. `Strays` are sessions with a share
that is not of the key they sign under: the routes take a request under any id,
whether or not a key was generated there, and nothing in the store tells whose
it is. The
bodies of the routes are in `gotham_engine`, which the repository only imports:
their steps (lock; put the client's commitment, put the ephemeral pair; or read
the master key and both records, check, sign) are taken from the routes mounted
in `server.rs`, the `Db` trait `PublicGotham` implements, the tests and the
client's side. They are marked external in the map. Each store access is an
action, so that a crash or an interleaving (if the lock did not prevent it) can
fall between any two.

`CommitmentOpens` and `PartialFits` are the two checks of the cryptography: the
opening sent with the second request must fit the stored commitment, and a
partial signature made for another server nonce, or with a share of another key,
does not yield a signature that verifies. Messages are not in the model: nothing
at the server binds a stored nonce to one. That a nonce signs only one message
rests on clients that never repeat a second request, which those of the repository
do not (`sign.rs:41-84`), and is no property of this code.

A crash ends every handler and opens the store again; the records stay. What is
in flight to a client may be lost or not, and a client that has its answer, or is
still to read it, posts the next request to the new server. So a session may have
its first request before a restart and its second after it.

`SigningSlot` is the promise without requests and records: each key has one
slot; a session takes it at most once, displacing whoever had it; only the
session in the slot can sign; failures can empty a slot but never fill it. The
mapping: a key's slot is held by the session both its records come from, and is
empty while they differ or are missing.

### Keygen

A session posts six requests in turn. `Stored` says which record each leaves,
`Needed` which earlier ones each reads. Every failure on the client's side is a
panic (`unwrap`, `expect`, `assert!`). The id is fresh (a uuid), so sessions
share only the lock. A crash is as in `Signing`: a key generation goes on over a
restart if the answer to its last request got through.

### Gotham and KeyLife

`server.rs` mounts all eight routes on one `PublicGotham`. `Gotham` extends
`Keygen` by the variables of `Signing`, instantiated over the same `db` and
`mutex`: a step is one of a key generation, one of a signing, or a crash, which
both feel. `SignWithShare` is the first request of `sign`. Every caller in the
repository has a `PrivateShare` that `get_master_key` returned
(`ethereum/mod.rs:109`, `bitcoin/mod.rs:344`, and the flow of the server's test) and
so waits for the key; a stray has the share of something else and does not wait:
it signs under the id before, while or after the key is generated.
A request is of one of the protocols, so the names of the two kinds of session
are disjoint (`GothamConstants`). `GothamKeepsSlots` is the refinement of
`SigningSlot` again, stated of the composition, as are `EphPairWhole` and
`SomeoneSigns`.

`KeyLife` is the promise without requests, locks or records. `half` says of each
key which key generation the server's half is from: it is made once, from nothing,
for its own key, and no action changes or removes it. `told` are the keys whose
client was told so and `held` those whose client has its half, which needs the
first; `Untell` loses what was said but not what is held. Who signs does so with
both halves. `Lossy` allows that the server said so and its half was lost: it is
true where lost writes are among the faults. The mapping takes the contents of the
records named `Party1MasterKey`, the answers to the last request, the clients that
are done and the signatures released.

### BitcoinWallet

A process is one run of the program with one command. `file`, `escrow` and
`backup` are what the three files hold, `Missing` or `Torn` (truncated and not
written). An address is the position it is derived at: 0 is the master key's
own child 0, which `get_all_addresses` asks about and `get_new_bitcoin_address`
never returns. `coins` are the network's unspent outputs that belong to a
wallet; a coin appears when somebody pays to an address that was handed out, or
as the change of a send, and disappears when it is spent. `Broadcast` can be
accepted without the answer arriving (`"unanswered"`). `Kill` stands for a
signal and for every panic, including a failing write.

`Truncate` and `Write` are the two halves of `fs::write` on the wallet, as other
runs can read it in between. Which outputs cover an amount is left to
`SendAmounts`: `SelectCoins` takes any non-empty set of the outputs found. The
rest of `send` after the selection is `SignInputs` and `Broadcast`; signing may
fail, as `Signing` says it may.

`use`, chosen at the start, says how the program is used: how many runs there
are and how many of them may be at work at once. A run that was killed, or whose
broadcast was not answered, is `"cut off"`. `Orderly` are the behaviours so far
in which runs came one after the other and none was cut off: some properties
hold of these, and the runs that expect a violation show why not of others.

`derived`, which rebuilds the map from the last position, is an operator here and is
called by no command of the program: `RebuildGivesTheMap` says that it would give
the map a wallet has.

### SendAmounts

One behaviour is one call: the loop of `select_tx_in` over the outputs,
smallest first, the two outputs of the transaction, and the encoding of each
input's signature. `Btc` is the number of units in a bitcoin, `Word` is 2^64,
`Precision` the 24 significant bits of an `f32`; they are constants, and an
instance has small ones. `asked` is the amount as it was typed, `amount_btc` the
nearest `f32` of it, `amount_satoshi` the product of floats truncated to `u64`,
and `WholeBitcoins` the cast that binds before the multiplication. `WrappingSub`
is the subtraction of a release build, with the panic of a checked build as an
alternative. `SignInput` lets `r` and `s` have any number of bytes in `Widths`.

`Funds` are the sums of the beginnings of a list, which `total_selected` folds.

`Floats` rounds a positive fraction to the nearest number of `Precision` bits,
ties to even, as IEEE 754 has it; the wallet's amounts are neither negative nor
near the ends of the exponent's range. `AmountConstants` says so (`InRange`: some
exponent fits), and that all the outputs of a wallet are less than 2^64 units
together: there are 2.1 * 10^15 satoshi. It also says that a bitcoin is a float,
as 100_000_000 is an `f32`. Powers of two are a recursive function, `Pow2`, which
the provers can reason about, and not the operator `^`, which they know
nothing of.

### EthereumWallet

Again a process is one run with one command, here `new`, `send`, `transfer` or
`balance`. `wallet.json` is created empty and then written. A transaction goes
through `Fill` (chain id from the wallet for `send`, none for `transfer`; nonce
from `--nonce` or the node), the two requests of `sign`, and `Broadcast`, and the
run waits for a receipt. The server is one place per share: a later first request
displaces the earlier, whose `unwrap` then panics, as `Signing` has it.

`SignSecond` is `sign_hash` and `sign_transaction`: the key is the child at the
first two positions of `hd_path` (one `SignPath`, as `sign_hash` derives with, and
names to the server, the same two variables), the chain id that is hashed is the
transaction's or the wallet's, and `v` carries it, modulo `Word`, which is 2^64:
a chain id in the upper half of `u64` wraps around to another chain's `v`. The networks
are external: each takes a transaction whose `v` names its chain or none, and
whose hash was made with that chain, counts one transaction per address and
nonce, replaces waiting ones, and is offered every transaction that was ever
sent to a node, also one that refused it (`Replay`). The settings' `rpc_url`
may be the wrong network.

### Bindings

An app is linked with the C or with the JNI functions (`flavour`). Everything
goes in and out as text; `texts` are those it has, each with what the app takes
it for (the kind of result it asked for, the wallet and path it asked about) and
the key that is in it, or `None` for the text of an error, which also the empty
text stands for. A function is passed any text of the kind it parses, of whichever
wallet, or the text of an error in its place; text that does not parse, the JSON of
another kind among it, is an argument that is malformed, and one that is not
UTF-8 is unreadable. Which of these return an error
text and which panic differs by function and flavour, and is what each operator
says; a panic cannot unwind out of an `extern "C"` function, so `Abort` ends the
app. Calls to the server last: `calls` holds one per thread, and others go on
meanwhile.

Secrets are symbols. A half of a key is a secret with the public key and the path
it was derived for; a private key is the set of its factors, so that
multiplication is union. `get_child` multiplies a secret by a factor that depends
on the public key and the path (`Factors`). `Recover` decrypts the server's
secret of `package` and puts it together with the share's public key; nothing in
the code compares the two, nothing in the model does, and the app takes the result
for the share's wallet's. `Multiply` takes the secrets of any two halves, of both
parties or of one. The app decrypts with, and derives children of, master keys
only. `sign` returns a signature only
if it verifies (`SignReturns`); the details are in `Signing`.

## The runs

All properties are stated in the module they are about, with a comment each.

| Run | Instance | Checks |
|---|---|---|
| `SigningFaults` | 3 sessions, one key, all four faults, fair | `TypeOK`, `SigningRefinesSlots`, `EveryCallReturns` |
| `GothamContention` | 2 key generations, 2 signings with the first key, a stray under the other id, no faults | `SomeoneSigns`, `EphPairWhole`, `GothamImplementsKeyLife` (not lossy) |
| `GothamFaults` | 1 key generation, 2 signings with its key and a stray under its id, all four faults, fair | `KeygenTypeOK`, `LossIsNoticed`, `MasterKeyIsEarned`, `TablesApart`, `EveryKeygenEnds`, `GothamImplementsKeyLife`, `GothamKeepsSlots`, `EverySigningReturns` |
| `KeygenLostWrite` | 2 sessions, lost writes | `FinishedKeyIsStored` is **violated** |
| `WalletRuns` | 5 runs one at a time or 4 overlapping, 2 shares, 3 coins, kills and lost answers | `WalletTypeOK`, `CoinsWithinReach`, `CompletedIsSaved`, `RebuildGivesTheMap`, `InputsAreKnown`, `OrderlyHandsOutOnce`, `ShowsEveryCoin`, `OrderlyIsOwn` |
| `WalletReissue` | 3 runs, kills | `HandedOutOnce` is **violated** |
| `WalletStaleBackup` | 4 runs, 2 shares, kills | `VerifiedIsOwn` is **violated** |
| `EthereumSends` | 4 overlapping runs, 2 shares, 2 networks, 3 paths, kills, a `u64` of 6 bits | `EthTypeOK`, `CountsOnOwnChain`, `SignedByAddress`, `EachReportCounts` |
| `SendAmountsWhole` | up to 3 outputs, amounts 0..45 and some up to 360, 10 units to the bitcoin, floats of 4 bits, a `u64` of 10 bits | `AmountsTypeOK`, `WholeAmountsArePaid`, `NoNeedlessInput`, `RoundingIsSmall` |
| `SendAmountsUnderflow` | the same | `NeverUnderflows` is **violated** |
| `SendShortSignature` | the same | `EverySignatureParses` is **violated** |
| `Bindings` | 2 threads, 2 wallets, 2 paths, 6 texts, both flavours | `BindingsTypeOK`, `RecoveredSignsAlike`, `NoSilentOrphan` |

What they show:

* Whatever is lost, late, torn or restarted, only the session whose two records
  are stored gets a signature (`SigningRefinesSlots`), also one that had its first
  answer before the server was started again. The lock is needed for two of the
  properties (`SomeoneSigns`, `EphPairWhole`): with it dropped, two contenders
  can leave a pair of records of which one half is each's, and both fail.
* A lost write in the middle of a key generation stops it; one of the *last*
  record does not (`KeygenLostWrite`).
* Key generation and signing do not disturb each other on one server: neither
  writes the other's records, a key is made at most once and no restart forgets or
  replaces it, and who signs has both halves, though a stray may have left its
  records under the id before the key was there (`GothamImplementsKeyLife`).
  Without lost writes, nobody has a half without the server's. Every call of either
  returns, though they compete for the lock and may be abandoned in any order.
* Runs of the wallet that are cut off lose at most the newest position: one more
  `new-address` brings every coin into view. That position may be handed out
  twice (`WalletReissue`), and a backup of an overwritten wallet may verify
  (`WalletStaleBackup`); runs that are orderly do neither.
* `send` never misses the key of an input, even when overlapping runs overwrite
  each other's file, since the coins are looked for where the map has entries
  and at position 0, which nobody is given.
* A transaction of the Ethereum wallet counts only on the chain the wallet was
  made for, wherever it is submitted and though `v` may wrap around, recovers to the
  address in the file, and two runs that report a transaction made two payments,
  though they may have overlapped and asked for the same nonce.
* A whole number of bitcoins that the wallet covers is paid, as long as the
  floats hold it exactly: 43 bitcoins are no `f32` number of satoshi, and the
  recipient gets what the nearest one is. What the way through
  `f32` can cost is bounded by its two roundings (`RoundingIsSmall`). With a
  fraction, or a shortfall, the change underflows (`SendAmountsUnderflow`).
* The selection takes no needless input while the amount fits the significand
  (about 0.17 bitcoins), and above it only for what one rounding adds
  (`NoNeedlessInput`): 64.99999744 bitcoins are 65.0 as an `f32`, the amount paid
  is the product of that, and the selection goes on until it has more than 65. An earlier form of this property
  allowed nothing for the rounding of an amount that comes back exact; its proof
  did not go through, and an instance with amounts of two and more powers of two
  beyond the precision showed why. The amounts above 45 in the instance are
  there for that.
* A signature whose `r` or `s` has a leading zero byte ends `send` in a panic
  (`SendShortSignature`).
* Whatever calls it took, and though an app may mix up the texts of different
  wallets and decrypt another wallet's package, a private key it builds for a wallet
  and a path, with both secrets of that wallet in it, is the key of every signature
  it got for them. Nothing stops an app from building other keys. A key generation
  that fails half way is loud: it takes the app with it.

**Bounds.** Sessions interact through one key's two records: two sessions show
displacement, a third shows that a displaced session cannot be revived by
another one. Key generations share only the lock. Two of them, with a contended key
and a stray under the other id, are in `GothamContention`; under every fault two
of them and two signings are more than three times the states of one and three,
too many for the liveness properties, so `GothamFaults` has one key generation,
which is enough as other handlers compete with it for the lock, and contenders and
a stray under its id. In the wallet, five runs are enough for create, derive, a run cut
off, a send and a query after it, or for create, backup, create, verify with a
run to spare; two shares show a wallet overwritten. Four that overlap show a
file overwritten by a run that loaded it before another derived. Coins bound `Pay` and
`Broadcast`: with three there is a coin to spend, its change and another.
Of the four Ethereum runs one makes the wallet and
two overlap in sending, with one to spare to overwrite the file; two networks
are a right one and a wrong one, and their ids, 1 and 33, have the same `v` in a
word of 64, as ids that differ by 2^63 do in `u64`; the paths are one too short, one just long
enough, and one that is longer than what is used; the last two are each other's
reverse in what is used. Amounts reach past four
bitcoins, so that floats of four bits round some of the whole ones (exact up to 16
units), the larger ones being those where the quotient rounds to a whole number
of bitcoins it was not, and outputs from a tenth of a bitcoin to eighteen. Two bindings paths differ
only in the order of their positions; six texts are the share, the
recovered half, a child of each, the private key and a signature. `TextLimit` counts
calls under way, so that their results have room. `Faults` names the failures
of a run, so that a property which one of them breaks is still checked with the
others. `CHECK_DEADLOCK FALSE` is set everywhere as sessions, runs and calls are
finite in number and the system stops when they are over.

**Symmetry** is used for the runs of the wallets, which are interchangeable and
checked for safety only.

**Fairness** (`FairSpec` of `Signing` and `Keygen`, `FairGothamSpec`): weak fairness of each
client's reading of an answer that is there, and of each handler's next step.
The first is `send().text()` returning; the second is the runtime polling a
task that can go on. It includes taking the lock when it is free: a session
makes finitely many requests, so no handler is passed over for ever even where
the lock is not queued (tokio's is, first come first served). Starting a
session and every failure are without fairness. A client whose handler is gone
gets an error, which is the closed connection.

## The proofs

Eight modules: one for each component with a behaviour of its own, one for the
floats and one for the composition of signing with key generation. All theorems hold for every value of the constants under the named
assumptions of the modules, which TLC evaluates in the runs. Each has the same
shape: an inductive invariant, a lemma that it holds initially, lemmas that every
action keeps each of its parts, and the properties as consequences.

### Signing

`SigningProofs` proves, for every set of sessions and keys, every assignment of
keys to sessions and every set of faults:

* `TypeCorrect`: `TypeOK` is an invariant;
* `PairSafety`: `EphPairWhole`;
* `ContentionSafety`: `SomeoneSigns`, of sessions that are no strays;
* `SlotRefinement`: `Spec` implies `SigningRefinesSlots`, the abstract slot.

The assumptions are those of the modules: `None` and `MasterKey` are not
sessions, the tables and values are those of signing, `KeyOf` gives each session
a key, and the faults are among the four named.

None of these is inductive: the slot's owner, say, depends on what a handler has
read and on what the store holds. `IInv` adds, in this order:

* `EphRecordsTyped`: ephemeral records hold nonces (so that a read is one);
* `Exclusion`: a handler in its body holds the lock, and only it does;
* `OneRequest`: a session that was not started has no request, and an answer
  is there only when its handler has ended;
* `NoPairYet`: a session whose first handler has not ended has not stored its
  pair (so that taking a slot happens once);
* `ReadsCurrent`: what the second handler read is still what is stored, which
  needs `Exclusion`;
* `PairInWork`: without torn writes, records differ only while the handler that
  replaces them is between its puts.

Each part has a lemma that every step keeps it, one case per action. `EphPairWhole`
follows from `PairInWork` and `Exclusion`.
For the refinement, `InitRefines` and `StepRefines` map the initial states and
each action: `PutKey` of a session takes or misses its slot, `PutMsg` clears or
leaves it, `Sign` signs in it (`ReadsCurrent` gives that its session still has
it), a crash in a session's first request abandons it, and the
rest stutter; an answer that survives a crash changes nothing, as the slot is in
the records.

`SomeoneSigns` has contention to follow through both requests of every contender
at once. The invariant that does it is existential: while nothing fails, each key
with a session under way has one that can no longer lose by itself
(`SomeoneWins`): its first handler is replacing the pair, or the pair is its own
and its second request is to come or in work, or its signature is made. A
session stops being that only by another one's put, and that one is then
(`FirstPutWins`); every other step leaves it what it is or brings it on
(`WinnerStays`), for which `RequestsFit` says that a request in work has a
client waiting for it. When all are over, the winner can only have signed.

### Gotham

`GothamProofs` proves, for any key generations and signings on one server and
any faults:

* `KeygenTypeCorrect`, `LossNoticed`, `KeysAreEarned`, `ProtocolsApart`: the
  invariants of `GothamFaults`;
* `LifeOfKeys`: `GothamSpec` implies `GothamImplementsKeyLife`.

`GInv` adds to them `OneRequest` (what is under way for each key generation),
`Passed` (a request that was answered well, or is about to be, found all it needs
in the store: this needs that records are only ever added, `RecordsGrow`),
`LastIsKept` (without lost writes, the master key is there with the last answer),
`DoneIsLast`, `MadeAtLast` (a master key is made by the last request there is for
it, so no later one replaces it), and `SignerHasShare` (who signs has a share or
is a stray, and a handler past its first read found the master key). Steps of one protocol keep the invariant of the
other since they write other tables: `SigningKeepsKeygen` and `KeygenKeepsSigners`.
For the refinement, the last `PutAndAnswer` makes a key or loses it (`PutIsLife`),
`Finish` takes a share, `Sign` signs with both halves (`NoStray`: no stray's partial
signature fits), answers to the last request that a client gives up on or a crash loses
are an `Untell` (`CrashIsLife`), and all else stutters. `KeptKeyIsStored` is the
other side of `KeygenLostWrite`: under the assumption that no write is lost, and
whatever else fails, `FinishedKeyIsStored` holds.

`GothamSlotProofs` carries what `SigningProofs` has over to the composition, by
instantiating that module as `Gotham` instantiates `Signing`. Its lemmas about
steps then speak of the signing steps of Gotham (`SigningStepIsNext`), once the
assumptions on its constants are shown to hold (`SigningFits`). What is left is
that the steps of a key generation keep its invariants: they write other tables
(`KeygenLeavesPairs`), and they have the lock when they release it
(`KeygenExclusion`, the same for both kinds of handler). For contention, a key
generation that ends makes no key that has signers already, as those have a
share, strays apart. From this follow `PairSafetyOfGotham`,
`ContentionSafetyOfGotham` and `SlotRefinementOfGotham`: the results of
`SigningProofs`, of a server whose keys are generated on it.

### Bitcoin wallet

`BitcoinProofs` proves, for every finite set of runs, any shares, coins, uses and
faults, all eight properties of `WalletRuns`: `WalletTypeCorrect`,
`RebuildIsExact`, `InputsHaveKeys`, `CoinsStayInReach`, `CompletedCommandsAreSaved`,
`AddressesAreNew`, `NoCoinIsOverlooked`, `VerifiedBackupsAreOwn`.

That each map is exactly the positions `1..last_derived_pos` (`MapsAgree`) gives
`RebuildGivesTheMap`; with it, and with every coin at an address that was handed
out (`CoinsAreHanded`, `Handers`: from position 1 on), follows `InputsAreKnown`
for any overlap. For runs one at a time, `InStep` compares what the one run at
work (`OneAtWork`) has in memory with the file, stage by stage: the same, one
position ahead, or a fresh wallet; and `Reach` compares the file with the
addresses handed out. `Own` adds, while runs are orderly, that the escrow's key
is that of the saved wallet, or its run is about to write it, and that a backup
for that key is one of that wallet's share.

### Ethereum wallet

`EthereumProofs` proves the invariants of `EthereumSends` for all runs,
shares, paths, chains and words: `EthereumTypeCorrect`, `ReplaysDoNotCount`,
`SignerIsAddress`, `ReportsAreDistinct`. `EInv`: a wallet's address is the child
its path gives (`OwnAddress`), a run's transaction is for its wallet's chain and
signer (`OwnTransaction`), what networks have was made by a run that has it
still, and names the network's chain (`PlacedIsOwn`), a chain counts the
transactions of an address without gaps or repetition (`Counted`, with the
cardinality theorems), and what was reported is mined. Two reports of one address
on one chain then have different nonces.

### Bindings

`BindingsProofs` proves `BindingsTypeCorrect`, `RecoveryIsTheSigningKey` and
`OrphansAreLoud` for any wallets, paths, threads and number of texts. The invariant
says of each kind what every text of it is: a recovered half has the public key and
path of the wallet it is named for, and the secret of some package (`GoodOne`), a
share is its wallet's (`GoodTwo`), a signature is by the whole key
(`GoodSignature`), and a private key with both secrets of its wallet is that key
(`GoodKey`). The last is `ProductIsWhole`: of two halves named for one wallet and
path, with both of its secrets among their factors, one is the server's from the
right package and the other the client's.

### Amounts of a send

`FloatsProofs` has the arithmetic, for every precision, unit and range of
exponents: `RoundError` (rounding is off by at most one part in 2^Precision + 1),
`RoundTrip` (an amount through a division, two roundings, a product and a
truncation), `WholeReturns` (a whole number of bitcoins that comes back as it
was is not rounded down on the way). For the first two, each rounding is an
integer inequality between numerators and denominators, and `TwoErrors` adds the
two. `WholeReturns` is about divisibility: a product that comes back as it was is
a multiple of the unit in the last place of its float; that of the quotient,
times the power of two in `Btc`, divides it; so the quotient is a multiple of its
own unit (`OddPart`, `OddDivides`) and was never rounded.

Powers of two need induction, and the library's theorem for it takes an operator.
`SetInduction` is the form the provers can use: a *set* with zero and all
successors has every natural number, proved from the pigeonhole principle for
finite sets. `Recursion` proves with it that a value and a step define a
function on the naturals, and `Pow2Facts` and `FundsFacts` that `Pow2` and
`Funds` are what their equations say, `FundsGrow` and `Pow2Order` that they grow.

`SendAmountsProofs` proves the four properties of `SendAmountsWhole`:
`AmountsTypeCorrect`, `RoundingBound`, `NoneNeedless`, `WholeAmountsPaid`. `AInv`
adds to the types what the loop keeps: `Counted` (the total is the sum of what was
taken, what remains the difference), `Stops` (it goes on only while that is not
enough, and stops only when it is or at the end), and `Change` (how the steps
after it follow from it).

### Only model-checked

Liveness (`EveryCallReturns`, `EveryKeygenEnds`, `EverySigningReturns`), which is out of the prover's reach. That the refinements
also preserve fairness is not claimed: the abstract specifications are safety
ones. And the violations, of which TLC's traces are the proof; for four of the
five a theorem says when the property does hold: `KeptKeyIsStored`,
`AddressesAreNew` and `VerifiedBackupsAreOwn` (orderly runs), `WholeAmountsPaid`.

## Findings

Five statements of the repository that the code does not keep; `PROJECT.json`
quotes them.

1. `public_gotham.rs:66` drops the error of `put`: a key generation can end well
   with no master key at the server (`KeygenLostWrite`).
2. `bitcoin/commands.rs:133` prints a new address before saving it: "Generate a
   new address" can give one twice (`WalletReissue`).
3. `bitcoin/mod.rs:185` verifies a backup against the public key in the backup,
   not the wallet's: "backup verified" can be about another wallet
   (`WalletStaleBackup`).
4. `bitcoin/mod.rs:310` underflows where "Insufficient funds" should have been
   said, and for amounts with a fraction that line 434 drops
   (`SendAmountsUnderflow`).
5. `bitcoin/mod.rs:354` concatenates `r` and `s` without their leading zeros and
   unwraps the parse of 64 bytes; the integration test pads both to 32
   (`SendShortSignature`).

## Not modelled

* The cryptography: `two_party_ecdsa` and `gotham_engine` are libraries.
  Commitments, proofs and encryptions are what they are for.
  The algebra of child keys is theirs too: `Bindings` has it as symbols.
* Of the Ethereum wallet: amounts and gas, `--no-mpc`, and `sign_message` and
  `sign_typed_data`, which nothing calls. That a token amount is an `f64`
  product is listed as a hazard.
* The pointers of the C functions and the JVM's references: they are assumed valid,
  as the `# Safety` comments ask. Positions above 2^31, which the functions take as
  negative numbers.
* `rotate.rs`: commented out and not compiled.
* Argument parsing, settings, logging; the tests and benches.
* Transaction fees and confirmations: `send` has no fees, and every coin of the
  model is confirmed (a send looks at addresses with a confirmed balance and
  then at all their outputs). A reorganisation that makes a coin disappear is
  left out.
* Different paths for the files: all runs use the defaults.
* A client that repeats its second request for another message: `sign` makes one.
* Apps that take children of children, or decrypt with a child.

* The two wallets over one `wallet.json`, their common default: each module has
  its file.

## What was planned and what remains

The modules were written in the order in which the behaviour matters: the store
and signing (slots), key generation, the wallet program, amounts, the Ethereum
wallet, then the two protocols on one server, floats and signatures, and the
bindings with recovery. Of the plan remain:

1. Both wallets over one file.
2. A composition of `Gotham` with a wallet: what a saved wallet can still sign
   after a crash of either side. The pieces are `GothamImplementsKeyLife` (a key
   somebody holds a share of stays) and `CompletedIsSaved`; `KeygenLostWrite` is
   why it would need the assumption that no write is lost.
3. The values of Ethereum transactions.
