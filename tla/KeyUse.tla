------------------------------- MODULE KeyUse -------------------------------
(***************************************************************************)
(* Which key signs for an account (models/wallet.rs, models/account.rs,    *)
(* tss.rs, evm.rs): a wallet holds a seed phrase, one imported scalar or a *)
(* committee of shares; its accounts are derived from the seed at hardened *)
(* paths, or from the group key by an additive tweak (the account's IL);   *)
(* Wallet:promote exchanges the imported key for a committee under the     *)
(* same wallet id while accounts exist and calls run.                      *)
(*                                                                         *)
(* A public key is the path that leads to it: the wallet's seed, then the  *)
(* derivation steps. A committee of t + 1 shares signs for the key they    *)
(* share. A step is one statement of the database.                         *)
(***************************************************************************)
EXTENDS Naturals, Sequences, FiniteSets

CONSTANTS Wallets,  \* wallet ids
          Accounts, \* account ids
          Jobs,     \* worker threads
          None      \* no row, no call

Curves == {"secp256k1", "ed25519"}
Chains == {"ethereum", "bitcoin", "tron", "solana"}
CurveOf(chain) == IF chain = "solana" THEN "ed25519" ELSE "secp256k1"

VARIABLES
    wallet,  \* wallet[w]: its "Wallet" row
    keys,    \* keys[w]: its "WalletKey" rows
    account, \* account[a]: its "Account" row, or the backup of it when it is not live
    job,     \* job[j]: the call a worker serves
    torn     \* wallets whose promotion a crash cut short (history)

keyVars == <<wallet, keys, account, job, torn>>

\* A public key or a path to one; the rows of the "Wallet" and "Account" tables,
\* which None is not.
PubKeys == Seq(Wallets \cup ({"hardened", "child"} \X {0, 1}))
AccountRows == [wallet : Wallets, chain : Chains, index : {0, 1}, path : PubKeys, il : PubKeys, pub : PubKeys,
                live : BOOLEAN]
Protocols == {"eddsa", "frost", "gg18", "dkls23", "mnemonic"}
WalletRows == [curve : Curves, protocol : Protocols, threshold : {0, 1}, pub : PubKeys]
ASSUME NoneAssumption == None \notin WalletRows \cup AccountRows

-----------------------------------------------------------------------------
(* Keys and shares. *)

Root(w) == <<w>>
Step(kind, i) == <<<<kind, i>>>>
\* What one share of a committee is worth when it is taken for the whole secret.
ShareAlone == <<"share">>

\* A 1-of-1 share holds the secret itself; a dealt one is a point of degree t.
Share(i, schema, root, t, whole, local) ==
    [idx |-> i, schema |-> schema, root |-> root, t |-> t, whole |-> whole, local |-> local]
Whole(schema, root) == {Share(0, schema, root, 0, TRUE, TRUE)}
\* keygen, dkls_reshare, frost_split_key: three shares, two of which sign.
Dealt(schema, root) == {Share(i, schema, root, 1, FALSE, TRUE) : i \in 0..2}

Row(curve, protocol, t, pub) == [curve |-> curve, protocol |-> protocol, threshold |-> t, pub |-> pub]
Modern(curve) == IF curve = "ed25519" THEN "frost" ELSE "dkls23"
\* is_mnemonic
Mnemonic(ks) == \E k \in ks : k.schema = "mnemonic"

\* mnemonic_account_path / default_path
HardenedPath(i) == Step("hardened", i)
DefaultPath(i) == IF i = 0 THEN <<>> ELSE Step("child", i)

Account(w, chain, i, path, il, pub) ==
    [wallet |-> w, chain |-> chain, index |-> i, path |-> path, il |-> il, pub |-> pub, live |-> TRUE]
\* create_from_seed: at the hardened path, no IL.
SeedAccount(w, chain, i, root) == Account(w, chain, i, HardenedPath(i), <<>>, root \o HardenedPath(i))
\* derive: the group key, or its non-hardened child; the IL is the tweak between them.
DeriveAccount(w, chain, i, row) ==
    Account(w, chain, i, DefaultPath(i), DefaultPath(i), row.pub \o DefaultPath(i))

-----------------------------------------------------------------------------
(* What a signer answers: the set of keys it may sign under with the shares *)
(* U unlocked; none when it refuses.                                        *)

\* resolve_unlock_key: a RemoteKey share does not open here.
Opens(U) == U # {} /\ \A k \in U : k.local
Lowest(U) == CHOOSE k \in U : \A l \in U : k.idx <= l.idx

\* mnemonic_key_at, and the wallet's key under a tweak.
SeedKey(k, acct) == k.root \o acct.path
Tweaked(k, acct) == k.root \o acct.il

\* frost_sign_local: t + 1 shares sign for the key they share.
Quorum(row, U) == {k.root : k \in {k \in U : Cardinality(U) >= row.threshold + 1}}
\* frost_sign_any: at threshold 0 the one share is taken for the whole secret.
FrostSign(row, U, il) ==
    LET alone == {IF k.whole THEN k.root ELSE ShareAlone : k \in {k \in U : Cardinality(U) = 1}}
    IN  {root \o il : root \in IF row.threshold = 0 THEN alone ELSE Quorum(row, U)}
\* eddsa_sign_local, ecdsa_sign_local_tweaked
EddsaSign(row, U) == Quorum(row, U)
EcdsaSign(row, U, il) == {root \o il : root \in Quorum(row, U)}

Verified_Skips(sigs, pub) == sigs
\* ed25519_verify, the last thing every ed25519 signer does.
Verified(sigs, pub) == {key \in sigs : key = pub}

\* sign_frost_local: the group key, whatever the account.
SignGroup(row, ks, U) ==
    Verified(IF Mnemonic(ks) THEN {k.root : k \in U}
             ELSE CASE row.protocol = "eddsa" -> EddsaSign(row, U)
                    [] row.protocol = "frost" -> FrostSign(row, U, <<>>)
                    [] OTHER                  -> {}, row.pub)
\* sign_ed25519_for_account
SignsAsMnemonic(row, ks) == row.curve = "ed25519" /\ Mnemonic(ks)
SignSeed(U, acct) == Verified({SeedKey(k, acct) : k \in U}, acct.pub)
SignTweaked(row, U, acct) ==
    IF row.protocol = "frost" THEN Verified(FrostSign(row, U, acct.il), acct.pub) ELSE {}

\* dkls_sign_digest_at: t of the share, not of the wallet row, counts the signers.
DklsKey(k, acct) == IF k.schema = "mnemonic" THEN SeedKey(k, acct) \o acct.il ELSE Tweaked(k, acct)
SignDigest(row, ks, U, acct) ==
    IF row.protocol = "gg18" THEN EcdsaSign(row, U, acct.il)
    ELSE IF row.protocol = "dkls23" \/ (Mnemonic(ks) /\ row.curve = "secp256k1")
    THEN {DklsKey(k, acct) : k \in {k \in U : Cardinality(U) >= Lowest(U).t + 1}}
    ELSE {}
\* TssSigner, bitcoin::sign_message and tron::sign_tx compare the signer with the
\* account; evm.rs does not, and neither does a Tron message.
Compared(chain, spend) == chain = "bitcoin" \/ (chain = "tron" /\ spend)
SignSecp(row, ks, U, acct, spend) ==
    IF Compared(acct.chain, spend) THEN Verified(SignDigest(row, ks, U, acct), acct.pub)
                                   ELSE SignDigest(row, ks, U, acct)

\* Of a transaction (spend) or of a message.
Signatures(row, ks, U, acct, mnemonic, spend) ==
    IF ~Opens(U) THEN {}
    ELSE IF acct.chain # "solana" THEN SignSecp(row, ks, U, acct, spend)
    ELSE IF mnemonic THEN SignSeed(U, acct)
    ELSE IF acct.il = <<>> THEN SignGroup(row, ks, U)
    ELSE SignTweaked(row, U, acct)

-----------------------------------------------------------------------------
(* Calls. *)

Keyless(op, w) == [op |-> op, w |-> w, pc |-> "row", fetch |-> 1, acct |-> None, id |-> None,
                   row |-> None, ks |-> {}, mnemonic |-> FALSE, out |-> None]
\* The calls of Wallet:promote, which None is not.
Shares == [idx : 0..2, schema : Protocols \cup {""}, root : PubKeys, t : {0, 1}, whole : BOOLEAN, local : BOOLEAN]
Promotions == [op : {"promote"}, w : Wallets, pc : {"row", "keys", "act", "insert", "protocol"}, fetch : {1, 2},
               acct : {None}, id : {None}, row : WalletRows \cup {None}, ks : SUBSET Shares, mnemonic : BOOLEAN,
               out : {None}]
ASSUME NoCallAssumption == None \notin Promotions

At(j, op, pc) == job[j] # None /\ job[j].op = op /\ job[j].pc = pc
Call(j, call) == job[j] = None /\ job' = [job EXCEPT ![j] = call]
Ends(j) == job' = [job EXCEPT ![j] = None]

\* One promotion at a time: two of them are WalletCommittee's subject.
Promoting(w) == \E j \in Jobs : job[j] # None /\ job[j].op = "promote" /\ job[j].w = w

KeyTypeOK ==
    /\ \A w \in Wallets : IF wallet[w] = None THEN keys[w] = {} ELSE wallet[w] \in WalletRows
    /\ \A a \in Accounts : account[a] # None => account[a] \in AccountRows
    /\ \A j \in Jobs : job[j] # None =>
          job[j].op \in {"sign", "create", "restore", "promote", "export"}
    /\ torn \subseteq Wallets

KeyInit ==
    /\ wallet = [w \in Wallets |-> None] /\ keys = [w \in Wallets |-> {}]
    /\ account = [a \in Accounts |-> None]
    /\ job = [j \in Jobs |-> None] /\ torn = {}

-----------------------------------------------------------------------------
(* Wallets. *)

NewWallet(w, row, ks) ==
    /\ wallet[w] = None
    /\ wallet' = [wallet EXCEPT ![w] = row] /\ keys' = [keys EXCEPT ![w] = ks]
    /\ UNCHANGED <<account, job, torn>>

\* create_at, create_at_async
CreateWallet(w, curve) ==
    NewWallet(w, Row(curve, Modern(curve), 1, Root(w)), Dealt(Modern(curve), Root(w)))
\* Wallets of the schemes before FROST and DKLs23: their shares name no schema.
CreateEddsaLegacy(w) == NewWallet(w, Row("ed25519", "eddsa", 1, Root(w)), Dealt("", Root(w)))
CreateEcdsaLegacy(w) == NewWallet(w, Row("secp256k1", "gg18", 1, Root(w)), Dealt("", Root(w)))
\* import_scalar_inner
ImportScalar(w, curve) ==
    NewWallet(w, Row(curve, Modern(curve), 0, Root(w)), Whole(Modern(curve), Root(w)))
ImportMnemonic(w, curve) ==
    NewWallet(w, Row(curve, "mnemonic", 0, Root(w)), Whole("mnemonic", Root(w)))
\* persist_agent_keygen: this device keeps one share, sealed to the remote party.
PersistAgentKeygen(w) ==
    NewWallet(w, Row("ed25519", "frost", 1, Root(w)), {Share(0, "frost", Root(w), 1, FALSE, FALSE)})

\* promote_mnemonic: the key at a chain's path becomes a wallet of its own.
PromoteMnemonic(w, new, i) ==
    /\ wallet[w] # None /\ wallet[w].curve = "secp256k1"
    /\ Cardinality(keys[w]) = 1 /\ Mnemonic(keys[w])
    /\ LET root == Root(w) \o HardenedPath(i)
       IN  NewWallet(new, Row("secp256k1", "dkls23", 1, root), Dealt("dkls23", root))

-----------------------------------------------------------------------------
(* fetch: the row, then the keys of a wallet. *)

FetchRow(j) ==
    /\ job[j] # None /\ job[j].pc = "row"
    /\ job' = [job EXCEPT ![j].row = wallet[job[j].w], ![j].pc = "keys"]
    /\ UNCHANGED <<wallet, keys, account, torn>>

\* Signing for a group key and creating an account fetch the wallet twice.
FetchesAgain(c, mn) ==
    c.fetch = 1 /\ \/ c.op = "create"
                   \/ c.op = "sign" /\ c.acct.chain = "solana" /\ c.acct.il = <<>> /\ ~mn
FetchKeys(j) ==
    LET c  == job[j]
        ks == keys[c.w]
        mn == IF c.fetch = 1 THEN Mnemonic(ks) ELSE c.mnemonic
    IN  /\ c # None /\ c.pc = "keys"
        /\ job' = [job EXCEPT ![j].ks = ks, ![j].mnemonic = mn, ![j].fetch = 2,
                              ![j].pc = IF FetchesAgain(c, mn) THEN "row" ELSE "act"]
        /\ UNCHANGED <<wallet, keys, account, torn>>

-----------------------------------------------------------------------------
(* Accounts. *)

\* Account POST, create_with_unlock: an index in use answers with that account.
BeginCreate(j, w, chain, i) ==
    /\ wallet[w] # None
    /\ ~\E a \in Accounts : account[a] # None /\ account[a].live /\ account[a].wallet = w
                            /\ account[a].chain = chain /\ account[a].index = i
    /\ Call(j, [Keyless("create", w) EXCEPT !.acct = [chain |-> chain, index |-> i]])
    /\ UNCHANGED <<wallet, keys, account, torn>>

\* create_from_seed, derive: a seed account needs the phrase to be there still.
Derived(c) ==
    IF c.row.curve # CurveOf(c.acct.chain) THEN {}
    ELSE IF c.mnemonic THEN {SeedAccount(c.w, c.acct.chain, c.acct.index, k.root) :
                                 k \in {k \in c.ks : k.schema = "mnemonic"}}
    ELSE {DeriveAccount(c.w, c.acct.chain, c.acct.index, c.row)}
Derive(j) ==
    /\ At(j, "create", "act")
    /\ \/ \E d \in Derived(job[j]) : job' = [job EXCEPT ![j].acct = d, ![j].pc = "persist"]
       \/ Derived(job[j]) = {} /\ Ends(j)
    /\ UNCHANGED <<wallet, keys, account, torn>>

DeleteAccount(a) ==
    /\ account[a] # None /\ account[a].live
    /\ account' = [account EXCEPT ![a].live = FALSE]
    /\ UNCHANGED <<wallet, keys, job, torn>>

\* restore, from a backup the host kept.
BeginRestore(j, a) ==
    /\ account[a] # None /\ ~account[a].live
    /\ Call(j, [Keyless("restore", account[a].wallet) EXCEPT !.id = a])
    /\ UNCHANGED <<wallet, keys, account, torn>>

\* A group-key wallet derives the account again and compares: a path with
\* hardened steps does not derive.
Restored(c, backed) ==
    IF c.mnemonic THEN {backed}
    ELSE {d \in {DeriveAccount(c.w, backed.chain, backed.index, c.row)} :
             d.path = backed.path /\ d.pub = backed.pub}
Restore(j) ==
    LET backed == account[job[j].id] IN
    /\ At(j, "restore", "act")
    /\ IF backed.live \/ \E a \in Accounts : /\ account[a] # None /\ account[a].live
                                             /\ account[a].wallet = backed.wallet
                                             /\ account[a].chain = backed.chain
                                             /\ account[a].index = backed.index
       THEN Ends(j)
       ELSE \/ \E d \in Restored(job[j], backed) : job' = [job EXCEPT ![j].acct = d, ![j].pc = "persist"]
            \/ Restored(job[j], backed) = {} /\ Ends(j)
    /\ UNCHANGED <<wallet, keys, account, torn>>

\* insert: a new id, or the backup's own.
InsertAccount(j, a) ==
    /\ job[j] # None /\ job[j].pc = "persist"
    /\ IF job[j].op = "restore" THEN a = job[j].id ELSE account[a] = None
    /\ account' = [account EXCEPT ![a] = [job[j].acct EXCEPT !.live = TRUE]]
    /\ Ends(j) /\ UNCHANGED <<wallet, keys, torn>>

-----------------------------------------------------------------------------
(* Signing and export. *)

\* signMessage, signTransaction, signAndSend: the account is fetched first.
BeginSign(j, a) ==
    /\ account[a] # None /\ account[a].live
    /\ Call(j, [Keyless("sign", account[a].wallet) EXCEPT !.acct = account[a]])
    /\ UNCHANGED <<wallet, keys, account, torn>>

Answers(j, out) == job' = [job EXCEPT ![j].out = out, ![j].pc = "answered"]

Sign(j, U, spend) ==
    /\ At(j, "sign", "act") /\ U \subseteq job[j].ks
    /\ LET c    == job[j]
           sigs == Signatures(c.row, c.ks, U, c.acct, c.mnemonic, spend)
       IN  IF sigs = {} THEN Ends(j) ELSE \E key \in sigs : Answers(j, key)
    /\ UNCHANGED <<wallet, keys, account, torn>>

BeginExport(j, w) ==
    /\ wallet[w] # None /\ Call(j, Keyless("export", w))
    /\ UNCHANGED <<wallet, keys, account, torn>>

\* export_secret
Exported(c) ==
    IF Cardinality(c.ks) # 1 \/ c.row.threshold # 0 THEN {}
    ELSE {IF k.whole THEN k.root ELSE ShareAlone : k \in {k \in c.ks : k.local}}
Export(j) ==
    /\ At(j, "export", "act")
    /\ \/ \E key \in Exported(job[j]) : Answers(j, key)
       \/ Exported(job[j]) = {} /\ Ends(j)
    /\ UNCHANGED <<wallet, keys, account, torn>>

Return(j) == job[j] # None /\ job[j].pc = "answered" /\ Ends(j) /\ UNCHANGED <<wallet, keys, account, torn>>

-----------------------------------------------------------------------------
(* Wallet:promote *)

BeginPromote(j, w) ==
    /\ wallet[w] # None /\ ~Promoting(w) /\ Call(j, Keyless("promote", w))
    /\ UNCHANGED <<wallet, keys, account, torn>>

\* A 1-of-1 wallet; promote_frost wants a raw import, promote takes a phrase too. A
\* dealt share that was left alone does not yield the group key (frost_split_key,
\* promote).
Promotable(row, k) ==
    IF row.curve = "ed25519" THEN k.schema = "frost" ELSE k.schema \in {"mnemonic", "dkls23"}
CanPromote(c) == Cardinality(c.ks) = 1 /\ \A k \in c.ks : k.local /\ k.whole /\ Promotable(c.row, k)

\* The shares are dealt and sealed; replace_wallet_keys begins with the DELETE.
DeleteKeys(j) ==
    LET c == job[j] IN
    /\ At(j, "promote", "act")
    /\ IF CanPromote(c)
       THEN /\ keys' = [keys EXCEPT ![c.w] = {}]
            /\ job' = [job EXCEPT ![j].ks = Dealt(Modern(c.row.curve), Lowest(c.ks).root), ![j].pc = "insert"]
       ELSE Ends(j) /\ UNCHANGED keys
    /\ UNCHANGED <<wallet, account, torn>>

InsertKey(j) ==
    LET c    == job[j]
        left == c.ks \ keys[c.w]
    IN  /\ At(j, "promote", "insert") /\ left # {}
        /\ keys' = [keys EXCEPT ![c.w] = @ \cup {Lowest(left)}]
        /\ job' = [job EXCEPT ![j].pc = IF Cardinality(left) = 1 THEN "protocol" ELSE "insert"]
        /\ UNCHANGED <<wallet, account, torn>>

SetProtocol_OnlyThreshold(j) ==
    /\ At(j, "promote", "protocol")
    /\ wallet' = [wallet EXCEPT ![job[j].w].threshold = 1]
    /\ Ends(j) /\ UNCHANGED <<keys, account, torn>>
\* UPDATE "Wallet" SET "Protocol", "Threshold"
SetProtocol(j) ==
    LET w == job[j].w IN
    /\ At(j, "promote", "protocol")
    /\ wallet' = [wallet EXCEPT ![w].protocol = Modern(wallet[w].curve), ![w].threshold = 1]
    /\ Ends(j) /\ UNCHANGED <<keys, account, torn>>

\* The process ends; what was written stays.
Crash ==
    /\ \E j \in Jobs : job[j] # None
    /\ torn' = torn \cup {job[j].w : j \in {j \in Jobs : job[j] # None /\ job[j].op = "promote"
                                                         /\ job[j].pc \in {"insert", "protocol"}}}
    /\ job' = [j \in Jobs |-> None]
    /\ UNCHANGED <<wallet, keys, account>>

-----------------------------------------------------------------------------
KeyNext ==
    \/ \E w \in Wallets, c \in Curves : CreateWallet(w, c) \/ ImportScalar(w, c) \/ ImportMnemonic(w, c)
    \/ \E w \in Wallets : CreateEddsaLegacy(w) \/ CreateEcdsaLegacy(w) \/ PersistAgentKeygen(w)
    \/ \E w, new \in Wallets, i \in {0, 1} : PromoteMnemonic(w, new, i)
    \/ \E j \in Jobs : \/ FetchRow(j) \/ FetchKeys(j) \/ Derive(j) \/ Restore(j) \/ Export(j) \/ Return(j)
                       \/ DeleteKeys(j) \/ InsertKey(j) \/ SetProtocol(j)
                       \/ \E w \in Wallets : BeginExport(j, w) \/ BeginPromote(j, w)
                       \/ \E w \in Wallets, c \in Chains, i \in {0, 1} : BeginCreate(j, w, c, i)
                       \/ \E a \in Accounts : BeginSign(j, a) \/ BeginRestore(j, a) \/ InsertAccount(j, a)
                       \/ job[j] # None /\ \E U \in SUBSET job[j].ks, spend \in BOOLEAN : Sign(j, U, spend)
    \/ \E a \in Accounts : DeleteAccount(a)
    \/ Crash

KeySpec == KeyInit /\ [][KeyNext]_keyVars

-----------------------------------------------------------------------------
Signed(j) == At(j, "sign", "answered")
FromSeed(acct) == acct.path # <<>> /\ acct.il = <<>>

\* A signature that is answered is the account's own, whatever is promoted, re-keyed
\* or cut short while the signer reads the wallet twice. Solana signatures are
\* verified first (sign_ed25519_for_account, frost_sign_any, promote_frost), and so are
\* Bitcoin ones and Tron transactions. EVM signatures and Tron messages are not: the
\* exception is an account from a phrase that was promoted since (dkls_sign_digest_at
\* reads the path only from a phrase).
SignerIsAccountUnlessPromoted ==
    \A j \in Jobs : Signed(j) =>
        \/ job[j].out = job[j].acct.pub
        \/ job[j].acct.chain \in {"ethereum", "tron"} /\ FromSeed(job[j].acct) /\ ~Mnemonic(job[j].ks)

\* Every account of a wallet whose promotions were finished can sign when all
\* its shares are unlocked, but for two kinds nothing can sign for any more: one
\* of a promoted phrase, and a further one of a legacy ed25519 wallet.
Stranded(acct) ==
    \/ FromSeed(acct) /\ ~Mnemonic(keys[acct.wallet])
    \/ acct.il # <<>> /\ wallet[acct.wallet].protocol = "eddsa"
SignsAgain(acct) ==
    LET ks == keys[acct.wallet]
        row == wallet[acct.wallet]
        all == IF row.protocol = "frost" /\ row.threshold = 0 THEN {Lowest(ks)} ELSE ks
    IN  \A spend \in BOOLEAN : Signatures(row, ks, all, acct, SignsAsMnemonic(row, ks), spend) = {acct.pub}
AccountsCanSign ==
    \A a \in Accounts : LET acct == account[a] IN
        /\ acct # None /\ acct.live
        /\ ~Promoting(acct.wallet) /\ acct.wallet \notin torn
        /\ \A k \in keys[acct.wallet] : k.local
        => Stranded(acct) \/ SignsAgain(acct)

\* What evm.rs says of every EVM signature: it recovers to the account's address.
EvmSignerIsAccount ==
    \A j \in Jobs : Signed(j) /\ job[j].acct.chain = "ethereum" => job[j].out = job[j].acct.pub

=============================================================================
