# libwallet in TLA+

libwallet is a multi-chain wallet library: a Rust core (`src/rust`, about 34 000
lines) behind a small C interface, with a Dart client, a wasm build and a web
page. A host calls it with JSON requests; every request runs on a worker thread
of its own; state is in an SQLite file, in the session's `Env`, in process-wide
statics, on a server that keeps one key share, and in the platform's key store.

What makes it hard is that **nothing groups statements**. The database actor
(`db.rs`) runs one SQL statement at a time, and a worker's operation is several of
them, with network calls and user prompts in between, while other workers do the
same. The models here are all at that grain: one step is one SQL statement, one
access of a shared map or lock, one attempt of a network call.

| module | what it is |
| --- | --- |
| `ApprovalQueue`, `ApprovalPromise` | user approvals of dApp requests, and what they promise |
| `WalletCommittee` | the key shares of a wallet and the operations that rewrite them |
| `FfiHandle` | one session handle of the C interface and its shutdown |
| `Vault` | vault entries, their platform keys, and the cache of unsealed secrets |
| `DappAccess` | accounts, connections and what a dApp is shown of them |
| `Web3Signing` | what a dApp asks to be signed, and what approving it signs |
| `NetworkRegistry` | networks: seeding, saving, deletion, selection |
| `TokenBook` | registered tokens, the list of assets, payments in a token |
| `TransactionSend` | nonces, rows and the history of an Ethereum account |
| `CoinWallet` | coin selection and change of a Bitcoin account |
| `SwapExecution` | swap quotes and their execution |
| `TransferPlan` | maximum, validation and preview of a transfer, and the transfer |
| `KeyUse` | which key signs for which account |
| `CeremonyHub` | the message router of a reshare with a remote party |
| `DeviceTransfer` | moving a wallet to a new device |
| `WalletConnectSessions` | pairings and sessions against a relay and restarts |
| `AirgapSigning` | signing with an air-gapped device over QR codes |
| `MCApprovalQueue`, `MCWalletCommittee`, `MCFfiHandle`, `MCVault` | one component each, for TLC |
| `MCDapp`, `MCSend`, `MCPeers`, `MCKeys` | several components each, for TLC: one of them moves in a behaviour |
| `ApprovalQueueProofs`, `WalletCommitteeProofs`, `FfiHandleProofs`, `VaultProofs` | theorems about one component each, checked by TLAPS |
| `DappProofs`, `SendProofs`, `PeersProofs`, `KeysProofs` | theorems about the components of `MCDapp`, `MCSend`, `MCPeers` and `MCKeys` |

Each `.cfg` is one run; `PROJECT.json` lists runs, mutants, hazards, theorems and,
for every definition, the source lines it models.

## Inventory

### User approval queue (modelled)
*State*: table `Request`, the map of waiters in the `Env`, one channel per waiter.
*Operations*: `run` (a dApp call raises a request and blocks for up to 120 s),
`Request:approve`, `Request:reject` with `claim`, `respond`, `release`.
*Interactions*: raised by the Web3 methods (`handlers/web3.rs`), announced to the
host by an event, answered by other workers; an approval's side effect writes
accounts, networks, connected sites or broadcasts a transaction.
*Hard*: two approvals at once; time-out against a late answer; a failing side
effect; a restart that leaves rows without waiters; `save` is DELETE + INSERT.
*Correct when*: one decision per prompt, "accepted" only after the side effect, a
prompt stays answerable after a failed side effect, every waiting dApp call ends.

### Wallet and its key shares (modelled in part)
*State*: tables `Wallet` and `WalletKey`, the server's copy of the RemoteKey share,
backup files. *Operations*: create, importMnemonic, reshare, promote, recrypt,
repairRemoteKey, delete, backup, restore. *Interactions*: Spot and REST servers;
the reshare ceremony (`reshare.rs`). *Hard*: `replace_wallet_keys` is a DELETE, N
INSERTs and an UPDATE; uploads are retried for 300 s and can land unseen; rounds
end after 120 s; crashes anywhere. *Correct when*: a whole committee remains,
shares of two are not mixed, no share outlives its wallet, the server's share
matches the rows.

### C interface and session handle (modelled)
*State*: handle registry, shutdown flag, counter of requests in flight, event sink,
WalletConnect runtime, Spot client. *Operations*: `LibwalletRequest`,
`LibwalletSetEventCallback`, `LibwalletDestroy`, the background reader and transfer
handlers. *Hard*: callbacks into a host that is going away; a join under a lock;
weak references revived by a request in flight. *Correct when*: nothing calls back
after Destroy returns, Destroy returns, the background ends.

### Vault (modelled in part)
*State*: table `Vault`, the platform's keys, the process-wide cache of unsealed
secrets, request tokens. *Operations*: create, import, load, changePassword,
delete, unlock, lock, export, every use of a secret, `Lifecycle:update`. *Hard*:
a secret is unsealed outside the cache's mutex, behind a prompt; the platform can
fail half-way; DELETE + INSERT again. *Correct when*: a listed entry opens, a
deleted one leaves nothing, a lock wipes and stays wiped.

### Accounts, connections and what dApps ask (modelled in part)
*State*: tables `Account`, `ConnectedSite`; the current account and network.
*Operations*: create, create by index, restore, delete, select; connect, disconnect,
revoke; the Web3 methods that list accounts, ask for a signature or a payment.
*Hard*: the next index is read in one statement and used in another; `connect` looks
before it inserts; a prompt stays open while the user switches, disconnects, deletes.
*Correct when*: a dApp is shown what was approved for it; no index is given out twice;
what is signed is for the right account and chain.

### Networks and tokens (modelled in part)
*State*: tables `Network`, `Token`; a network is known by its row's id or by its chain.
*Operations*: seeding at start, create, update, delete, select, add and switch for a
dApp; register, change, delete a token; list assets; pay in a token. *Hard*: saves of
two statements; two ids for one chain; a network selected by its key has an empty id.
*Correct when*: a registered chain keeps a row; a registered token is listed and paid
with on its own network.

### Transactions, coins and swaps (modelled in part)
*State*: table `Transaction`; the node's pool and chain, the provider's index, cached
quotes. *Operations*: signAndSend, the sweep of the history, coin selection, maximum,
validate, simulate, quote, execute. *Hard*: everything that is read from a node is old
when used; replies are lost; retries; the sweep stops at what it knows. *Correct when*:
a payment does not take an earlier one's place, a hole in the history has a cause, a
quote is swapped once by its account, what was told can be sent.

### Keys (modelled in part)
*State*: wallet, keys and accounts as `KeyUse` sees them. *Operations*: create, import,
derive, restore, sign (EVM, Bitcoin, Solana), export, promote. *Hard*: promote exchanges
the key while accounts exist and calls run; signing fetches the wallet twice. *Correct
when*: a signature is the account's own and an account made can sign.

### Reshare ceremony hub (modelled in part)
*State*: brokers with handlers and buffers, the remote's reports, the collector.
*Operations*: connect, send, receive, report, collect, deadline. *Hard*: a message falls
between a failed lookup and the buffer; a report comes before its handler. *Correct
when*: a message waits only for a party that is not there yet; a report is told.

### Device transfer (modelled)
*State*: the session table, a claim flag and a channel per session, the new device.
*Operations*: export, query, confirm, cancel, answer, restore. *Hard*: queries race each
other, the host's answer races the 90 s wait. *Correct when*: the wallet leaves once,
after the host's first answer was a confirm, to a device that knew the token and was
announced under whatever name it gave.

### WalletConnect sessions (modelled)
*State*: table of sessions, subscriptions and proposals of the connection. *Operations*:
start, stop, pair, approve, reject, disconnect, the reader's frames. *Hard*: an approval
is four steps that may fail or be cut; a new connection subscribes to nothing. *Correct
when*: what the dApp holds settled has a row, what is listed as active is heard.

### Air-gapped signing (modelled in part)
*State*: imported accounts, pending requests and a decoder in the cache. *Operations*:
import, request, feed a frame, accept, broadcast. *Hard*: answers carry no id or another
one, frames of two codes mix, overlapping feeds. *Correct when*: an accepted transaction
is one the account asked for, and a signature is by its key.

## Modules and code

### ApprovalQueue (`handlers/request.rs`, `models/request.rs`, `env.rs` 177–201)
`runpc[r]` is where the thread inside `run` is: save (`Persist`), `request_register`
(`Register`), event (`Broadcast`), `recv_timeout` (`Receive`, `Timeout`), reload,
`request_take`, and the row it writes when timed out (`RunFetch`, `RunDelete`,
`RunInsert`). `call[c]` is a host call: `Check` (claim's look at the waiters), then
fetch/delete/insert for each of claim, result, release and respond (`phase`),
`SideEffect`, `Resolve`. Every read and every INSERT can fail: an INSERT that fails after
its DELETE, or a release whose read or save fails (both ignored), leaves the row gone or
claimed while the waiter waits on, and its request is `stranded`; a read that failed is
taken for a missing row (`unread`). A side effect succeeds, fails, or fails after it happened
(`EffectUnsure`: the node took a transaction and the reply was lost). `Crash`
clears what lives in memory and keeps the table.

`ApprovalPromise` is the abstract specification: a prompt is opened, its effect
performed, it is decided once, and answered with the decision or a time-out.
`KeepsPromise` says the queue implements it under the mapping written there.

### WalletCommittee (`models/wallet.rs`, `reshare.rs`, `handlers/wallet.rs`, `handlers/spot.rs`)
A share is `<<committee, index>>`; committee 0 is the imported mnemonic. `op[t]` is
a worker with the rows it read (`seen`), the committee it made, and the shares it
has still to insert (`todo`). `FetchWallet`/`FetchKeys`/`FetchKey` read; `Ceremony`
and `CeremonyFails` are the rounds; `UploadLands`, `UploadDone`, `UploadFails` one
attempt of the RemoteKey upload, whose reply can be lost; `DeleteKeys`, `DeleteKey`,
`InsertKey`, `InsertWallet`, `StampGen`, `SetProtocol`, `DeleteWallet` one statement
each. `StatementFails` and `Crash` can come at any point when `Faulty`. `Offered`
says which operations the host calls in a run. Wallet names, raw-key imports
(which use `persist` under a fresh id as create does) and generation numbers are
left out: no property tells them apart.

### FfiHandle (`lib.rs`, `handle.rs`, `env.rs`, `dispatch.rs`)
`req[r]`, `query[q]`, `setter[s]`, `reader` and `destroy` say where each thread is;
the other variables are the handle's flags, its counter and who holds the two
mutexes that are held across a callback (`event_sink`) or a join (`wc`). `EnvAlive`
computes what `Weak::upgrade` would find from who holds an `Arc`. `Overlap` says
whether the host may call LibwalletSetEventCallback during LibwalletDestroy; FALSE
is what the Dart client does (both come from one isolate). Answers given on the
caller's own thread ("invalid handle", "shutting down") are not callbacks in the
sense of the properties. Closing Spot does not wait for its handlers. A request may be
in a key generation with other parties ("keygen"), which waits for them without a
deadline (`initiate_keygen`): only `PartiesAnswer` ends it.

### Vault (`vault/mod.rs`, `vault/session.rs`, `handlers/vault.rs`, `handlers/lifecycle.rs`)
`rows`, `platform` and `cache` are the table, the platform's keys and the cache;
`secure` and `policy` are what an entry was created with. `op[t]` names the step a
worker is at: `SealKey`, `DeleteKey`, `Open`, `Prompt`, `CancelPrompts` are the
platform's part; `DeleteRow`, `InsertRow` the two statements of `store`; `Lookup`,
`Keep`, `Forget` the accesses of the cache. An operation works on its copy of the
row after `Fetch`, as the code does; a delete whose provider no backend here matches
skips the platform and deletes the row all the same. "use" stands for every request that takes the
secret; "lockAll" for `Vault:lock` without an id and for an app going to the
background (one session, so `lock_scope` and `lock_all` wipe the same).

### DappAccess (`models/account.rs`, `models/connected_site.rs`, `handlers/account.rs`, `handlers/web3.rs`)
`work[t]` is the call of a worker with what it read so far; a step is one statement.
`granted` and `kept` are histories of the user's approvals, `leaked` of what a dApp was
shown without one, `raced` of chains on which two calls that take an index overlapped,
`left` of the links that stayed because the cleanup after a deleted account failed
(`account.rs:691` ignores that). A failed cleanup revokes the approvals all the same; what
is shown later through such a link is the one exception, named, of `ShownByConsent`.

### Web3Signing (`handlers/web3.rs`, the arms of `handlers/request.rs`)
`prompt[p]` is what was asked and how far its approval is. A question settles the
account; an approval takes the network then current, or the node and network the host
names in the call (`rpc`): the transaction then goes to that node, whatever its chain. An
Ethereum payment signed for the current network reads it again when it is sent. The statements inside a question
are `DappAccess`'s, the claim around an approval `ApprovalQueue`'s.

### NetworkRegistry (`models/network.rs`, `handlers/network.rs`)
An id is a form and a chain: the derived id or the dotted one of the Web3 methods.
`toSeed` is what the start still has to look at; `task[t]` a call between statements.

### TokenBook (`models/token.rs`, `models/asset.rs`, `handlers/token.rs`, `handlers/solana_build.rs`)
A row keeps the network the host meant (`meant`), whatever was stored for it. A list
under way reads network, account, rows and balances in turn; `owed` is what it must show.

### TransactionSend (`handlers/transaction.rs`, `handlers/account.rs`, `txhistory.rs`, `models/transaction.rs`)
`chain`, `pool` and `mined` are the node, external; `rows[h][n]` the table. A send asks
for a nonce, signs, broadcasts and stores its row; a sweep reads pages, newest first.
`Account:signAndSendTransaction` keeps a caller's nonce, 0 included, and takes an answer
it cannot read for 0; the other send ignores a caller's 0 and fails on such an answer.

### CoinWallet (`bitcoin.rs`)
Coins and the provider's lagging view of them (`listed`, `marked`); a send lists,
selects by size, computes fee and change, takes the next change index and broadcasts.
Listing and broadcasting are separate steps, with other sends, blocks and updates of the
index between. `indexed` are the payments the index had caught up with; a send remembers
which those were when it listed. The node replaces a payment, and all that spends its
change, by a later one that takes a coin of it.

### SwapExecution (`swap.rs`, `handlers/swap.rs`)
`exec[c]` is an execution between its requests to aggregator and node; `orders` what was
handed over, each with the transaction as it was fetched at that attempt. `Check` is the
guard as it is: a minimum that is blank or no number passes, one at the floor (the
quote's minimum less one slippage) passes, the router is compared only when its look-up
answered at the quote, and nothing of a Solana body is. A quote may be of no account.

### TransferPlan (`handlers/account.rs`, `handlers/simulate.rs`, `solana.rs`, `tron.rs`, `handlers/transaction.rs`)
`ask` is a call that asks the node one thing after another, `told` the last answer,
`sent` the last broadcast. Amounts are in units of the smallest fee. Of an EVM node the
model keeps gas price, base fee and suggested tip, and whether it answers for the tip, for
the recipient's code and for a gas estimate; each caller's fallback is its own (the
maximum's tip, the send's). A request names its format (legacy or EIP-1559), calldata, or
bytes built by the caller (`as`), and the fees it pins (`pins`). A preview is by trace, by
call, or none; any failure of the node is an answer "will revert".

### KeyUse (`models/wallet.rs`, `tss.rs`, `evm.rs`, `models/account.rs`)
A public key is the path that leads to it. `job[j]` has the wallet a signer fetched,
and the one it fetches again for a committee's signature. Bitcoin, and Tron for a
transaction, compare the signer with the account; Ethereum does not.

### CeremonyHub (`reshare.rs`)
One variable per map or channel of the hub; `hand[t]` is a message between the lookup
that found no handler and the push. The parties are the library's: external.

### DeviceTransfer (`env.rs`, `handlers/spot.rs`, `models/wallet.rs`)
`session[s]` has the claim flag, the channel's end and the answers in it; `query[d]` the
handler's place. The 90 s are a step that may come whenever the channel is empty. A query
carries a token and a name; the host is shown the name, which is the query's own claim
(`newSpotID`, `env.rs:283`), while the payload goes to the device that asked. Nothing in
the code relates the two, so no property does.

### WalletConnectSessions (`wcmanager.rs`, `walletconnect.rs`, `models/wc_session.rs`)
`table` outlives the process; `managers[n]` is what a connection subscribed to and the
proposals it holds; a call keeps the manager it found.

### AirgapSigning (`airgap/*.rs`, `handlers/airgap.rs`)
`displays` are answers signers made, whole or as frames; `context` the one decoder in
the cache, read and written by separate steps; `accepted` what accept returned. BBQr
parts of two files of one length, type and encoding join: the payload begins with the
first part's transaction or is no transaction, and is signed by nobody. accept compares a
PSBT's unsigned transaction with the pending request's and verifies no signature, so such
a payload may be accepted or refused. Of the other kinds an answer's parts are whole.

## Runs

| run | setting | states | shows |
| --- | --- | --- | --- |
| `approval` | 1 request, 2 calls | 1 450 000 | the queue's invariants, its implementation of `ApprovalPromise`, that every prompt ends |
| `approval_claim` | same | violation | two approvals at once both perform the side effect |
| `committee` | 1 worker, every operation, crashes | 99 000 | a whole wallet, nothing mixed or orphaned, server in step, upload first, operations end |
| `committee_overlap` | 2 workers, no crash | 895 000 | the secret survives overlapping rewrites |
| `ffi` | 2 requests, 1 query, 1 setter | 93 000 | nothing runs or calls back after Destroy, which returns unless a key generation waits for ever; the background ends |
| `vault` | 1 entry, 2 operations | 59 000 | entries, platform keys and the cache in step |
| `dapp` | 2 workers; accounts, networks or prompts | 2 440 000 | dApps see what was approved, indices and chains stay, signatures are for their chain |
| `send` | 2 threads; payments, coins, swaps or tokens | 1 270 000 | payments stand, holes have a cause, swaps once and as quoted, tokens are listed |
| `peers` | 2 threads; signer, ceremony, transfer or WalletConnect | 3 680 000 | answers of other devices are the ones asked for, and arrive |
| `keys` | 2 workers on one wallet, or one transfer | 7 970 000 | the signing key is the account's; what was told can be sent and is what is sent |
| `keys_promoted` | same | violation | an account of a promoted phrase is signed for with another key |
| `plan_max` | same | violation | an EVM transfer of MAX moves nothing |

**Bounds and why they are enough.** Requests of the queue share nothing but the
table, keyed by id, so one request with two concurrent calls (any number in
sequence, since a call slot is reused) has every interaction; the theorems cover
any number. Committees: N = 3 with 2 to sign is the smallest with a subset that
signs and one that does not; `MaxComm` = 3 lets a wallet be created and replaced
twice, which is what mixing, staleness and restoring an old backup need. The
handle needs two requests for one to hold the sink while the other stops
WalletConnect. Vault entries share only the prompts a lock dismisses, so one entry
of either backend and each cache policy, reused through create, delete and load, is
enough. The invariants proved in `Vault` were also run with three workers.

Two threads are enough wherever a property is violated by one read that another call
makes stale. Two accounts and two indices let an index come back after a deletion; two
chains, one of them built in, let ids collide; three transactions and pages of two make
a sweep of more than one page with a gap inside; four coins let change be spent again;
two orders per quote are one more than is allowed; a balance of 7 units holds fee, rent
and an amount above or below the rent. Two rounds let a message arrive for a round whose
handler is not connected; two devices race for a session; two connections make a
restart.

The four composed modules hold components that share no variable: a behaviour chooses
one and the others keep their initial state, so that one run has the sum of the state
spaces and not their product. Each names, next to the choice, what it leaves out of a
setting: `MCDapp` runs `DappAccess` in three settings, each with the calls that can
disturb each other there; `MCSend` runs a book of payments with sends only, with sends
and sweeps, or with racing sweeps on one network; `MCPeers` displays one answer, or two
that are scanned by two threads, and sends one frame after the proposals; `MCKeys`
overlaps calls on one wallet only (never two creations or two exports) and drifts the
node before the transfer is sent. These are limits of the runs: every safety property of
them is also a theorem, for the component alone and without any of them.

**Type invariants.** Each module has one. Those of the queue, the committee, the handle,
the vault, `DappAccess`, `TransactionSend`, `SwapExecution`, `DeviceTransfer`,
`WalletConnectSessions` and `AirgapSigning` are theorems; those of `NetworkRegistry`
and `TokenBook`, and that of the prompts of `Web3Signing`, are conjuncts of a proved
invariant. `CoinTypeOK`,
`PlanTypeOK`, `HubTypeOK` and `KeyTypeOK` hold over the same settings and can be added to
the `.cfg` of their run; the runs of the composed modules leave type invariants out for
the sake of the time they take.

**Symmetry** is over threads and interchangeable values, in `committee_overlap`,
`dapp`, `send`, `peers` and `keys` (with `keys_promoted`): their invariants and the one
action property of `peers` name none of them. No liveness run uses it. In `peers` the
instances take their values from two sets, permuted together.

**Deadlock.** Checked in all runs but `ffi` and `peers`: a new operation or a restart
is always possible. Once Destroy has returned and every thread has ended, the handle
has stopped; so have a ceremony that came to its outcome, and a transfer whose devices
all have their answer.

**Fairness.**
* Queue: a worker that can take its next step does; the time-out fires
  (`recv_timeout`). Nothing forces the host to call.
* Committee: a worker goes on, its ceremony fails at the latest after 120 s
  (`RoundsGuard`), an upload is given up after 300 s. Nothing forces a new operation.
* Handle: strong fairness for workers, setters and Destroy where they wait for a
  mutex others keep taking (the reader sleeps 50 ms between its turns); the host's
  callbacks return, and so do handlers whose waits carry time-outs. A key generation with
  other parties waits without a deadline and has no fairness: `DestroyReturns` says that
  Destroy returns if no request stays in one for ever, and the code gives no more.
* The other modules state safety only and no fairness: what they wait for, a node, a
  relay, a user or another device, may never come.

## Where the code and its documentation disagree

Three runs end in a counterexample, each against a sentence of the repository that
`PROJECT.json` quotes: `claim` is not atomic (`approval_claim`); an account of a phrase
that was promoted in place is signed for with the master key (`keys_promoted`); a MAX
amount on an EVM chain is sent as zero (`plan_max`). The passing properties are stated
around them: `EffectOnceIfSerial` and `OneWholeCommittee` assume operations on one object
do not overlap, `SignerIsAccountUnlessPromoted` names its exception, and the others say
what holds even then.

These were met while modelling, and have no run of their own. The first four are within the
models, which behave so, and the properties about them say what holds all the same:

*A context of two payloads.* `airgap/decoder.rs:10` says a frame from a different payload is
rejected; a BBQr part is compared by the number of parts, the type and the encoding (`:201`).
*A maximum that is refused.* `dart/lib/src/models/max_sendable_result.dart:5` says the largest
amount that can be sent; `maxSendable` assumes a tip of 1 gwei where the node suggests none
(`handlers/account.rs:835`), an EIP-1559 send 1.5 gwei under a cap of its own
(`handlers/transaction.rs:294`).
*A preview without its amount.* `dart/lib/src/models/transaction_simulation.dart:39` says every
transfer the simulated transaction will cause; `simulate_evm` traces `tx.value` only, never
`tx.amount` (`handlers/simulate.rs:300`).
*Coins taken twice.* `dart/CHANGELOG.md:1746` tells of a tracker of spent coins that lets a user
send several times in a row; `bitcoin.rs:316` has none yet, and a second send takes the coins
of the first while the index lags.

*Approvals.* `run` answers a rejected request with Ok, and `wallet_addEthereumChain` and
`wallet_switchEthereumChain` discard it and answer null, which is success
(`handlers/request.rs:19`, `:42`). `Request:list` shows the 50 oldest rows of any
status, and nothing deletes any (`models/request.rs:51`).

*Committee.* `replace_wallet_keys` says the single-threaded actor makes its sequence
safe (`models/wallet.rs:1528`); the actor serialises statements, and two reshares leave
rows of two committees. `delete` removes the keys first "so no orphan shares survive"
(`:1218`); an insert still in flight survives it.

*Handle.* `LibwalletSetEventCallback` looks at the shutdown flag before it installs the
sink: during Destroy it installs a callback that fires afterwards (`lib.rs:314`, `:328`;
not with the Dart client). A host that calls Destroy inside its event callback waits for
itself (`env.rs:411`).

*Vault.* A secret unsealed while the vault is locked is cached again
(`vault/session.rs:15`, `:163`), also when the lock raced a prompt
(`handlers/vault.rs:66`). A crash between `store`'s DELETE and INSERT loses an entry
(`vault/mod.rs:199`); a changePassword that read its row before a delete stores it
again (`:386`).

*Networks and tokens.* A built-in network deleted and added again by a dApp under its
dotted id makes the seeding fail, and with it every later start, though the comment
promises a skip (`models/network.rs:471`, `:493`). A network selected by key has an
empty id: `Asset:list` shows none of its registered tokens, though one should show "0"
rather than vanish (`models/asset.rs:133`); a history row is stored twice, under either
id (`txhistory.rs:437`). A token named by id is paid on whatever network is current. An
update that overlaps a delete of a token brings it back. `Account:setCurrent` and
`Network:setCurrent` with "@" recurse for ever (`models/account.rs:70`). Deleting a
wallet leaves its accounts; two overlapping creations pick one index.

*Signing for dApps.* `eth_sendTransaction` uses the network current at the approval, not
at the question; a disconnection does not close an open prompt; methods without an
address take the first connection of any chain; `mpurse_sendAsset` raises a prompt that
no approval can answer.

*Payments.* The change index counts only unspent outputs, so an address is used again
(`bitcoin.rs:411`); the Bitcoin maximum counts one output, the selection two. Overlapping sweeps
leave holes that no later sweep fills. `Transaction:signAndSend` ignores a pinned nonce of
0; `Account:signAndSendTransaction` takes an answer it cannot read for 0 and may replace a
payment. `simulate_evm` counts the effects of inner frames that reverted, and says "will
revert" when the node did not answer. The maximum assumes 21 000 gas for
a contract without named calldata; an EVM swap's and a new Solana account's rent are under-reserved.

*Swaps.* A retry after a lost reply, or two executions at once, swap twice; the expiry
is checked only when the quote is loaded; a failed lookup of the spender, or a blank
minimum, skips its check.

*Keys.* In a wallet promoted from a phrase a Bitcoin account refuses to sign and its
backup does not restore; an export in the middle of a promotion gives a share as the
key; a crash between the key swap and the UPDATE leaves a wallet that cannot sign.

*Ceremony.* `LocalBroker::receive` can queue a message nobody drains (`reshare.rs:191`);
`initiate_keygen` never installs the error handler that `:70` says is always there, and
has no deadline; two ceremonies on one RemoteKey take each other's handler.

*Transfer.* A token that does not decode leaves the session claimed and useless while a
confirm answers true; a confirm before the query releases without the peer being shown
first; an unanswered session is never removed; a vault failure after the restore leaves
the new device without shares.

*WalletConnect.* A start subscribes to no stored session; a pairing whose subscription
failed keeps its row, whose unique topic makes every later attempt fail; an approval cut
after the row cannot be repeated; an inbound session delete never marks its row; a
rejection forgets the proposal even when it could not be published.

*Air gap.* The request is used up before the broadcast, so a failed broadcast loses the
signed transaction (`airgap/sign.rs:701`); a raw signed transaction is compared with
nothing; a PSBT already final is not finalized again, and none is verified; two overlapping
feeds lose a frame (`handlers/airgap.rs:46`).

*Amounts.* `parse_bigint_base10` says it rejects "_", which num-bigint accepts; ".-5" is
read as -0.05.

## Proofs

Every safety property and the one action property the passing runs check are theorems,
for any values of the constants. Each rests on an inductive invariant that TLC checked
first, over the same settings; a proof has one lemma per action, or per kind of step
where several do the same to what the invariant says.

*Assumptions*, named in the modules and evaluated by every run: a value that stands for
"none" is not a row, a call or a job (`NullAssumption`, `NoNetAssumption`,
`NoneAssumption`, `NoCallAssumption`, `NoTxAssumption`, and `TransferAssumption` of an
absent answer); bounds, sizes and amounts are natural numbers (`SizeAssumption`,
`AccessAssumption`, `PageAssumption`, `CoinAssumption`, `SwapAssumption`,
`BalanceAssumption`, `PinsAssumption`, `SessionsAssumption`, `AirgapAssumption`, `HubAssumption`); an
account is of one chain (`SigningAssumption`); `Offered` names operations. Where a choice
by the first condition that holds was a CASE, the models use IF chains: the provers know
nothing of a CASE whose conditions overlap.

**ApprovalQueueProofs**: `TypeCorrect`; `SingleDecision`, `AcceptedMeansDone`,
`LateCallsDoNothing`; `Refinement` (the queue implements `ApprovalPromise`).
`SingleWinner` is not inductive: the strengthening `IInv` ties the waiter, the
channel and the count of winners together (a waiter in the map means nobody won
yet and the channel is empty: `DecisionInv`), says that a call about to respond
"accepted" has performed its effect (`EffectInv`), and that a late call has no
waiter to find (`LateInv`). The refinement maps each action to a step of the
promise or a stutter, under `IInv`. `EffectOnce` (`EffectOnceIfSerial`) and
`ResultArrives` (`ResultReachesDapp`) are about one call at a time: `SerialInv` says
where that call is when the row is missing or claimed, that the row holds the Result when
"accepted" is told, and that once the effect happened nobody is asked any more.
`PromptsAnswerable` (`PromptIsAnswerable`) is about any number of calls: whatever
collides, a missing row is about to be inserted again, and a claimed one has a call that
will release it or answer (`PromptInv`), but for the requests a failed statement stranded:
those are the INSERT that failed after its DELETE and the release that failed, and the
code leaves them so. In `SerialInv` the Result is held but for a row that could not be
read or was lost (`ResultHeld`).

**WalletCommitteeProofs**: `TypeCorrect`; `UploadedFirst` (`RowsWereUploaded`, through
every crash, lost reply and restored backup, with any number of workers);
`SecretKept` (`SecretSurvives`). The argument of the last, `CoreInv`: while nothing
failed and nothing was deleted, every generated share not yet inserted is owned by
exactly one worker; a worker that deletes rows holds a whole committee in its
hands; so there is always a worker with a whole committee to insert, or a whole one in the
rows, or one split between the rows and a worker. Committee numbers grow, so a
later generation is never mistaken for an earlier one. `WholeAtRest`
(`OneWholeCommittee`), `NeverMixed` (`NeverMixedNorOrphaned`) and `ServerInStep`
(`RemoteInStep`) are about operations that do not overlap: `AloneInv` says, statement by
statement of the one operation, which rows are left and what it holds (`Form`), that rows
and what is still to insert fit until something fails (`Whole`), and that the server has
the share of the rows, or of what is about to replace them (`Pushed`).

**FfiHandleProofs**: `TypeCorrect` (the counter equals the number of guards, so it
never goes below zero); `WorkersGone` (`BarrierInv`: after the flag is set nobody
begins); `Silence`, for hosts that do not change the callback during Destroy (the
sink is cleared under the mutex that every broadcast holds while it calls).

**VaultProofs**: `TypeCorrect`; `EntriesSurvive`, `RowsHaveKeys`, `LockedStays`. The
invariant says where each kind of operation can be and what it has established
(`Phase`), that an entry being created has no other operation (`AloneInv`), and one
conjunct per property: an entry without a row has a worker about to store it; a
secure row without a key has a delete past the key; a wiped entry has nobody left
who began to use it before the wipe.

**DappProofs**
* `Web3Signing`: `SignedAsAsked` (`SignedForItsChain`). A prompt keeps the account it was
  asked for (`AskedInv`); what is signed and not sent yet was signed by a key of the
  method's chain (`SignedInv`). Where the host names a node nothing is said of where the
  transaction goes.
* `NetworkRegistry`: `RegisteredIsKept` (`RegisteredStays`). `NetInv`: a registered chain
  has a row, or a worker between the two statements that write it (`Backed`; a chain whose
  save dies there is registered no more); nobody deletes one, and no call runs before the
  session is up (`TasksInv`).
* `DappAccess`: `AccessTyped`; `Consented` (`ShownByConsent`) and `ApprovalKept`
  (`ApprovalHolds`) from `ConsentInv`: what each call has read (`ReaderOK`), linked and
  still has to link (`ConnectOK`), or will take back (`DeleteOK`, `UnlinkOK`), and that an
  approval and a revocation under way are about different pairs (`Apart`); a deletion
  takes its pairs back whether its cleanup fails or not. `OneIndexed`
  (`OneAccountPerIndex`) from `IndexInv`: nobody has the index that a call is about to
  insert, unless its chain is among those two calls overlapped on.

**SendProofs**
* `SwapExecution`: `SwapTypes`; `OrdersAsQuoted` (`SwapsAsQuoted`): what an execution
  holds passed the guard of its quote at this attempt, a retry fetches and checks again, and
  the quote it was let in by stays (`ExecInv`, `BookInv`); an order inherits both
  (`OrderInv`). What the guard lets pass is not claimed. `SwappedOnce` (`SwapsOnce`): of a quote that is
  in no doubt one call runs, and the only order that may stand is the one it awaits
  (`OnceInv`). Orders are finitely many because they are numbered up to `MaxOrder`.
* `TokenBook`: `ListedAsRegistered` (`RegisteredIsListed`). A stored row has the id of the
  network that was meant (`StoredAsMeant`); a list that read the rows holds an item for
  each token it still owes (`CallOK`), and every write takes its token off what the lists
  under way owe.
* `CoinWallet`: `PaymentsStand` (`ShownPaymentStands`). With a payment the index knows all
  that spends its change (`Closed`); what a call selected is apart from the coins of the
  payments the index had caught up with when it listed (`Apart`), however many payments and
  blocks come before it broadcasts; and all that falls with a replaced payment is within a
  closed part of them (`CoinInv`, `FallsWithin`).
* `TransactionSend`: `BookTyped`; `SentStand` (`SendStands`): what a send saw pending stays
  known to the node and is not in the place of the nonce it took, unless the nonce was the
  caller's or an unreadable answer; two sends hold two transactions (`StandInv`). `HolesExplained` (`HolesHaveCause`): with one sweep at work on
  a network, a hole that no send explains lies between what the sweep has looked at and
  the newer rows it stored (`HoleInv`), and it goes on until it met a known transaction.

**PeersProofs**
* `DeviceTransfer`: `TransferTypes`; `ReleasedOnce` (`ReleasedAsConfirmed`). At most one
  query of a session is past the claim, and none once the wallet was released
  (`OneClaimant`); a query that heard a confirm heard the first answer in its channel, and
  it was announced before (`QueryInv`).
* `WalletConnectSessions`: `SessionsTyped`; `SettledKept` (`SettledIsKept`) and
  `ActiveHeard` (`ActiveIsHeard`) from `SessionsInv`: what each of the four steps of an
  approval has established (`StageInv`), and that a session is known without being cut
  only to the connection it was approved over.
* `CeremonyHub`: `HandlerAwaited` (`WaitsForHandler`) from `BrokersInv`: a message in
  hand whose handler came meanwhile is the one overtaken (`HandInv`). `ReportTold`
  (`NoReportMissed`), the action property, from `HookInv`: the hook is installed before
  the remote party is told anything.
* `AirgapSigning`: `AirgapTyped`; `AcceptedOnRequest` (`AcceptedAsAsked`) from `AirgapInv`:
  requests, displays, the decoder's context and the jobs under way hold only what accounts
  asked for and signers made, parts of two of them joined included.

**KeysProofs**
* `KeyUse`: `SignerIsAccount` (`SignerIsAccountUnlessPromoted`) from `KeyInv`: a wallet
  keeps its key and curve, once it is no phrase it never is one again (`Raw`), a phrase for
  Solana is not promoted, so what a signer read in two fetches still says enough.
  `AccountsKeepSigning` (`AccountsCanSign`) adds `WholeInv`: a wallet that nothing replaces
  has keys that belong to its row (`Settled`), one that a promotion replaces has part of the
  new shares, all of them before its row is written (`Replaced`), and there is one
  promotion of a wallet at a time.
* `TransferPlan`: `MaxAccepted` (`MaxIsAccepted`), `PreviewSent` (`PreviewIsTheSend`) from
  `PlanInv`: what a call holds, the host was told and was sent is true of the node as it
  is now, as long as it is fresh. The exceptions are operators with names: `Covered` says
  of which transfers the maximum holds back the cost, `Shows` what a preview can see.

**Only model-checked**: the liveness properties `EveryPromptEnds`, `OperationsEnd`,
`DestroyReturns` and `BackgroundEnds` (fairness and ENABLED are out of the prover's
reach); the type invariants `CoinTypeOK` (what a payment is worth is a fold over its
coins, and the provers have no induction over it), `PlanTypeOK`, `HubTypeOK` and
`KeyTypeOK` (the theorems need less). No module declares a RECURSIVE operator.
`ApprovalQueueProofs` also proves `SingleWinner` and `AcceptedWasDone`, which no run
lists since the theorems cover them.

## Not modelled

* **Database actor, request routing**: one job at a time, and a match on a path.
* **RPC, REST and Spot clients**: their calls are steps that succeed, fail or lose their
  reply.
* **Cryptography and encodings** (curves, TSS, BIP-39, CBOR, UR, RLP, PSBT, EIP-712):
  data that no property here looks into; a key is the path to it, a payload a value.
* **Amounts and time ids**: pure arithmetic on big integers without interaction.
* **Contacts, NFTs, crash reports, labels**: rows written by one statement, on which
  nothing else depends.
* **Bitfi, the wasm build and the web page, the Dart client**: other front ends; the
  wasm build has no threads, so its interleavings are a subset.
* **A dropped upload that lands later**: an upload given up after 300 s is one that landed
  or did not; one that lands after the operation returned is not modelled.
* **Key generation with other parties** (`initiate_keygen`): only its wait without a
  deadline, in `FfiHandle`; the ceremony modelled in `CeremonyHub` is the reshare.
* **The interplay of components through a shared table** beyond what a module includes:
  an approved signature while the wallet's keys are rewritten is `KeyUse`'s, but not
  inside `ApprovalQueue`.

## Plan

1. The type invariants not proved yet, and that each module's own invariant is enough for
   those of the modules that use it.
2. More of `Refinement`: abstract specifications of the vault (an entry is there or not,
   locked or not) and of the committee (one secret, rewritten at once), with the detailed
   modules shown to implement them while operations do not overlap.
3. Liveness of the ceremony (a party heard by all ends) under the fairness of its
   threads and the deadline of `RoundsGuard`.
4. Composition of `ApprovalQueue` with `KeyUse`: an approval whose wallet is promoted
   between the question and the signature.
