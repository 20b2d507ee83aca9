----------------------------- MODULE KeysProofs -----------------------------
(***************************************************************************)
(* Theorems about the keys of accounts and the maximum an account can      *)
(* send: KeyUse and TransferPlan, for any number of wallets, accounts and  *)
(* workers, and any balance. The components share no state; each part has  *)
(* its own inductive invariant and is the theorems of one of them.         *)
(***************************************************************************)
EXTENDS KeyUse, TransferPlan, SequenceTheorems, FiniteSetTheorems, TLAPS

-----------------------------------------------------------------------------
(* KeyUse. A signer reads the account, the wallet's row and its keys one    *)
(* after another while a promotion may replace them. KeyInv says what of    *)
(* that stays true: a wallet keeps its key and curve, once it is no phrase  *)
(* it never is one again (Raw), a phrase for Solana is not promoted, and an *)
(* account is either of the phrase or of the group key (SeedOK, DerivedOK). *)

Shape(c) == [op : {c.op}, w : Wallets, pc : {c.pc}, fetch : {1, 2}, acct : {c.acct}, id : {c.id}, row : {c.row},
             ks : {c.ks}, mnemonic : BOOLEAN, out : {c.out}]

\* The wallet is not a phrase, and never will be one.
Raw(w) == ~Mnemonic(keys[w])

WalletOK(w) ==
    wallet[w] # None =>
         /\ wallet[w] \in WalletRows
         /\ \A k \in keys[w] : k.root = wallet[w].pub /\ k.idx \in 0..2
         /\ ~Raw(w) => wallet[w].protocol # "gg18" /\ \A k \in keys[w] : k.schema = "mnemonic"

\* An account of a phrase, and one of the group key. A phrase for Solana is not promoted.
SeedOK(x) == x.path = HardenedPath(x.index) /\ x.il = <<>> /\ (x.chain = "solana" => ~Raw(x.wallet))
DerivedOK(x) == x.path = DefaultPath(x.index) /\ x.il = x.path /\ Raw(x.wallet)
AccountOK(x) ==
    /\ x \in AccountRows
    /\ wallet[x.wallet] # None
    /\ wallet[x.wallet].curve = CurveOf(x.chain)
    /\ x.pub = wallet[x.wallet].pub \o x.path
    /\ SeedOK(x) \/ DerivedOK(x)

\* The row and the keys a call read may be old: what they still say of the wallet.
RowOK(c) ==
    /\ c.row.pub = wallet[c.w].pub /\ c.row.curve = wallet[c.w].curve
    /\ c.row.protocol = "gg18" => Raw(c.w)
ReadOK(c) ==
    /\ \A k \in c.ks : k.root = wallet[c.w].pub /\ k.idx \in 0..2
    /\ Mnemonic(c.ks) => c.row.protocol # "gg18" /\ \A k \in c.ks : k.schema = "mnemonic"
    /\ c.ks # {} /\ ~Mnemonic(c.ks) => Raw(c.w)
    /\ Mnemonic(c.ks) /\ wallet[c.w].curve = "ed25519" => ~Raw(c.w)
    /\ c.op = "sign" /\ c.acct.il # <<>> => ~Mnemonic(c.ks)
OwnSignature(c) ==
    \/ c.out = c.acct.pub
    \/ c.acct.chain \in {"ethereum", "tron"} /\ FromSeed(c.acct) /\ ~Mnemonic(c.ks)
JobOK(c) == c # None =>
    /\ c \in Shape(c) /\ wallet[c.w] # None
    /\ c.pc # "row" => RowOK(c)
    /\ c.pc \notin {"row", "keys"} => ReadOK(c) /\ c.fetch = 2
    /\ c.fetch = 2 /\ ~c.mnemonic => Raw(c.w)
    /\ c.op = "sign" => AccountOK(c.acct) /\ c.acct.wallet = c.w
    /\ c.op = "sign" /\ c.fetch = 2 /\ c.acct.chain = "solana" /\ FromSeed(c.acct) => c.mnemonic
    /\ c.op = "create" /\ c.pc # "persist" => c.acct \in [chain : Chains, index : {0, 1}]
    /\ c.pc = "persist" => AccountOK(c.acct) /\ c.acct.wallet = c.w
    /\ c.op = "restore" => c.id \in Accounts /\ account[c.id] # None /\ account[c.id].wallet = c.w
    /\ c.op = "promote" /\ c.pc = "insert" => Raw(c.w) /\ ~Mnemonic(c.ks)
    /\ c.op = "sign" /\ c.pc = "answered" => OwnSignature(c)

KeyInv ==
    /\ wallet \in [Wallets -> {wallet[w] : w \in Wallets}] /\ keys \in [Wallets -> {keys[w] : w \in Wallets}]
    /\ account \in [Accounts -> {account[a] : a \in Accounts}] /\ job \in [Jobs -> {job[j] : j \in Jobs}]
    /\ \A w \in Wallets : WalletOK(w)
    /\ \A a \in Accounts : account[a] # None => AccountOK(account[a])
    /\ \A j \in Jobs : JobOK(job[j])

-----------------------------------------------------------------------------
\* What no step undoes: a wallet stays, with its key; a raw one stays raw, a phrase
\* for Solana a phrase; an account row stays its wallet's.
WalletsKeep ==
    \A w \in Wallets : wallet[w] # None =>
        /\ wallet'[w] # None /\ wallet'[w].pub = wallet[w].pub /\ wallet'[w].curve = wallet[w].curve
        /\ Raw(w) => Raw(w)'
        /\ wallet[w].curve = "ed25519" /\ ~Raw(w) => ~Raw(w)'
AccountRowsKeep ==
    \A a \in Accounts : account[a] # None => account'[a] # None /\ account'[a].wallet = account[a].wallet

\* Accounts are as good as they were while their rows stay.
LEMMA AccountsStay ==
    ASSUME WalletsKeep
    PROVE  \A x : AccountOK(x) => AccountOK(x)'
<1> SUFFICES ASSUME NEW x, AccountOK(x) PROVE AccountOK(x)'
  OBVIOUS
<1>1. x \in AccountRows /\ x.wallet \in Wallets /\ wallet[x.wallet] # None
  BY DEF AccountOK, AccountRows
<1>2. /\ wallet'[x.wallet] # None /\ wallet'[x.wallet].pub = wallet[x.wallet].pub
      /\ wallet'[x.wallet].curve = wallet[x.wallet].curve
  BY <1>1 DEF WalletsKeep
<1>3. x.chain = "solana" => wallet[x.wallet].curve = "ed25519"
  BY DEF AccountOK, CurveOf
<1>4. SeedOK(x) \/ DerivedOK(x) => SeedOK(x)' \/ DerivedOK(x)'
  BY <1>1, <1>3 DEF WalletsKeep, SeedOK, DerivedOK
<1> QED
  BY <1>1, <1>2, <1>4 DEF AccountOK

LEMMA RowsStay == account' = account => AccountRowsKeep
BY DEF AccountRowsKeep

LEMMA KnownKeeps ==
    ASSUME WalletsKeep, AccountRowsKeep
    PROVE  /\ \A x : AccountOK(x) => AccountOK(x)'
           /\ \A c : JobOK(c) => JobOK(c)'
<1>1. ASSUME NEW x, AccountOK(x) PROVE AccountOK(x)'
  BY <1>1, AccountsStay
<1>2. ASSUME NEW c, c # None, JobOK(c) PROVE JobOK(c)'
  <2>1. /\ c.w \in Wallets /\ c \in Shape(c) /\ wallet[c.w] # None /\ wallet'[c.w] # None
        /\ wallet'[c.w].pub = wallet[c.w].pub /\ wallet'[c.w].curve = wallet[c.w].curve
        /\ Raw(c.w) => Raw(c.w)'
        /\ wallet[c.w].curve = "ed25519" /\ ~Raw(c.w) => ~Raw(c.w)'
    BY <1>2 DEF WalletsKeep, JobOK, Shape
  <2>2. RowOK(c) => RowOK(c)'
    BY <2>1 DEF RowOK
  <2>3. ReadOK(c) => ReadOK(c)'
    BY <2>1 DEF ReadOK
  <2>4. c.op = "restore" /\ c.id \in Accounts /\ account[c.id] # None /\ account[c.id].wallet = c.w =>
          account'[c.id] # None /\ account'[c.id].wallet = c.w
    BY DEF AccountRowsKeep
  <2>5. AccountOK(c.acct) => AccountOK(c.acct)'
    BY <1>1
  <2> QED
    BY <1>2, <2>1, <2>2, <2>3, <2>4, <2>5 DEF JobOK
<1>3. \A c : JobOK(c) => JobOK(c)'
  BY <1>2 DEF JobOK
<1> QED
  BY <1>1, <1>3

\* A step of one call that writes nothing.
LEMMA CallSteps ==
    ASSUME KeyInv, UNCHANGED <<wallet, keys, account>>, NEW j \in Jobs, NEW c, JobOK(c),
           job' = [job EXCEPT ![j] = c]
    PROVE  KeyInv'
<1>1. WalletsKeep /\ AccountRowsKeep
  BY RowsStay DEF WalletsKeep, Raw
<1>2. \A k \in Jobs : job'[k] = IF k = j THEN c ELSE job[k]
  BY DEF KeyInv
<1>3. \A k \in Jobs : JobOK(job'[k])
  BY <1>2 DEF KeyInv
<1>4. PICK new : new = job'
  OBVIOUS
<1>5. \A k \in Jobs : JobOK(new[k])'
  BY <1>1, <1>3, <1>4, KnownKeeps
<1>6. \A w \in Wallets : WalletOK(w)'
  BY DEF KeyInv, WalletOK, Raw
<1>7. \A a \in Accounts : account[a] # None => AccountOK(account[a])
  BY DEF KeyInv
<1>8. PICK rows : rows = account
  OBVIOUS
<1>9. \A a \in Accounts : rows[a] # None => AccountOK(rows[a])'
  BY <1>1, <1>7, <1>8, KnownKeeps
<1>10. job' \in [Jobs -> {job'[k] : k \in Jobs}]
  BY DEF KeyInv
<1> QED
  BY <1>4, <1>5, <1>6, <1>8, <1>9, <1>10 DEF KeyInv

LEMMA EndsWell == ASSUME KeyInv, NEW j \in Jobs, Ends(j), UNCHANGED <<wallet, keys, account>> PROVE KeyInv'
BY CallSteps DEF Ends, JobOK

LEMMA LowestIn ==
    ASSUME NEW S, S # {}, \A k \in S : k.idx \in 0..2
    PROVE  Lowest(S) \in S
<1>1. \E k \in S : \A l \in S : k.idx <= l.idx
  <2>1. CASE \E k \in S : k.idx = 0
    BY <2>1
  <2>2. CASE ~(\E k \in S : k.idx = 0) /\ \E k \in S : k.idx = 1
    BY <2>2
  <2>3. CASE ~(\E k \in S : k.idx = 0) /\ ~(\E k \in S : k.idx = 1)
    BY <2>3
  <2> QED
    BY <2>1, <2>2, <2>3
<1> QED
  BY <1>1 DEF Lowest

LEMMA PathsTyped ==
    /\ <<>> \in PubKeys
    /\ \A w \in Wallets : Root(w) \in PubKeys
    /\ \A i \in {0, 1} : HardenedPath(i) \in PubKeys /\ DefaultPath(i) \in PubKeys /\ HardenedPath(i) # <<>>
    /\ \A p \in PubKeys : p \o <<>> = p
    /\ \A p, q \in PubKeys : p \o q \in PubKeys
BY DEF PubKeys, Root, HardenedPath, DefaultPath, Step

-----------------------------------------------------------------------------
\* A wallet is made.
LEMMA NewWalletKeeps ==
    ASSUME KeyInv, NEW w \in Wallets, NEW row, NEW ks, NewWallet(w, row, ks),
           row \in WalletRows,
           \A k \in ks : k.root = row.pub /\ k.idx \in 0..2,
           Mnemonic(ks) => row.protocol # "gg18" /\ \A k \in ks : k.schema = "mnemonic"
    PROVE  KeyInv'
<1>1. wallet[w] = None /\ wallet' = [wallet EXCEPT ![w] = row] /\ keys' = [keys EXCEPT ![w] = ks]
      /\ account' = account /\ job' = job
  BY DEF NewWallet
<1>2. \A v \in Wallets : wallet'[v] = (IF v = w THEN row ELSE wallet[v]) /\ keys'[v] = (IF v = w THEN ks ELSE keys[v])
  BY <1>1 DEF KeyInv
<1>3. WalletsKeep /\ AccountRowsKeep
  BY <1>1, <1>2, RowsStay DEF WalletsKeep, Raw
<1>4. \A v \in Wallets : WalletOK(v)'
  BY <1>2 DEF KeyInv, WalletOK, Raw
<1>5. PICK rows, jobs : rows = account /\ jobs = job
  OBVIOUS
<1>6. /\ \A a \in Accounts : rows[a] # None => AccountOK(rows[a])'
      /\ \A j \in Jobs : JobOK(jobs[j])'
  BY <1>3, <1>5, KnownKeeps DEF KeyInv
<1>7. /\ wallet' \in [Wallets -> {wallet'[v] : v \in Wallets}] /\ keys' \in [Wallets -> {keys'[v] : v \in Wallets}]
  BY <1>1 DEF KeyInv
<1> QED
  BY <1>1, <1>4, <1>5, <1>6, <1>7 DEF KeyInv

LEMMA SharesShaped ==
    ASSUME NEW schema, NEW root, NEW ks,
           ks = Dealt(schema, root) \/ ks = Whole(schema, root) \/ ks = {Share(0, schema, root, 1, FALSE, FALSE)}
    PROVE  /\ \A k \in ks : k.root = root /\ k.idx \in 0..2 /\ k.schema = schema
           /\ Mnemonic(ks) => schema = "mnemonic"
BY DEF Dealt, Whole, Share, Mnemonic

\* A wallet whose shares are dealt of its key, no phrase among them.
LEMMA DealtKeeps ==
    ASSUME KeyInv, NEW w \in Wallets, NEW curve \in Curves, NEW protocol \in Protocols, NEW schema, schema # "mnemonic",
           NewWallet(w, Row(curve, protocol, 1, Root(w)), Dealt(schema, Root(w)))
    PROVE  KeyInv'
<1> DEFINE row == Row(curve, protocol, 1, Root(w))
           ks == Dealt(schema, Root(w))
<1>1. row \in WalletRows
      /\ row.pub = Root(w)
  BY PathsTyped DEF Row, WalletRows
<1>2. NewWallet(w, row, ks)
  OBVIOUS
<1>3. (\A k \in ks : k.root = Root(w) /\ k.idx \in 0..2) /\ ~Mnemonic(ks)
  <2>1. ks = Dealt(schema, Root(w))
    OBVIOUS
  <2> HIDE DEF ks
  <2> QED
    BY <2>1 DEF Dealt, Share, Mnemonic
<1> HIDE DEF row, ks
<1>4. \A k \in ks : k.root = row.pub /\ k.idx \in 0..2
  BY <1>1, <1>3
<1> QED
  BY <1>1, <1>2, <1>3, <1>4, NewWalletKeeps

\* A wallet of one key.
LEMMA OneKeyKeeps ==
    ASSUME KeyInv, NEW w \in Wallets, NEW curve \in Curves, NEW protocol \in Protocols \ {"gg18"}, NEW t \in {0, 1},
           NEW schema, NEW ks,
           ks = Whole(schema, Root(w)) \/ ks = {Share(0, schema, Root(w), 1, FALSE, FALSE)},
           NewWallet(w, Row(curve, protocol, t, Root(w)), ks)
    PROVE  KeyInv'
<1> DEFINE row == Row(curve, protocol, t, Root(w))
<1>1. row \in WalletRows
      /\ row.pub = Root(w) /\ row.protocol = protocol
  BY PathsTyped DEF Row, WalletRows
<1>2. NewWallet(w, row, ks)
  OBVIOUS
<1>3. /\ \A k \in ks : k.root = Root(w) /\ k.idx \in 0..2 /\ k.schema = schema
      /\ Mnemonic(ks) => schema = "mnemonic"
  BY SharesShaped
<1> HIDE DEF row
<1>4. \A k \in ks : k.root = row.pub /\ k.idx \in 0..2
  BY <1>1, <1>3
<1>5. Mnemonic(ks) => row.protocol # "gg18" /\ \A k \in ks : k.schema = "mnemonic"
  BY <1>1, <1>3
<1> QED
  BY <1>1, <1>2, <1>4, <1>5, NewWalletKeeps

LEMMA MadeKeeps ==
    ASSUME KeyInv, NEW w \in Wallets,
           \/ \E c \in Curves : CreateWallet(w, c) \/ ImportScalar(w, c) \/ ImportMnemonic(w, c)
           \/ CreateEddsaLegacy(w) \/ CreateEcdsaLegacy(w) \/ PersistAgentKeygen(w)
    PROVE  KeyInv'
<1>1. /\ \A curve \in Curves : Modern(curve) # "mnemonic" /\ Modern(curve) \in Protocols \ {"gg18"}
      /\ {"eddsa", "gg18", "frost", "mnemonic"} \subseteq Protocols
  BY DEF Modern, Protocols
<1>2. "ed25519" \in Curves /\ "secp256k1" \in Curves
  BY DEF Curves
<1>9. "" # "mnemonic"
  OBVIOUS
<1>3. ASSUME NEW c \in Curves, CreateWallet(w, c) PROVE KeyInv'
  <2>1. NewWallet(w, Row(c, Modern(c), 1, Root(w)), Dealt(Modern(c), Root(w)))
    BY <1>3 DEF CreateWallet
  <2> QED
    BY <1>1, <2>1, DealtKeeps
<1>4. ASSUME NEW c \in Curves, ImportScalar(w, c) PROVE KeyInv'
  <2>1. NewWallet(w, Row(c, Modern(c), 0, Root(w)), Whole(Modern(c), Root(w)))
    BY <1>4 DEF ImportScalar
  <2> QED
    BY <1>1, <2>1, OneKeyKeeps
<1>5. ASSUME NEW c \in Curves, ImportMnemonic(w, c) PROVE KeyInv'
  <2>1. NewWallet(w, Row(c, "mnemonic", 0, Root(w)), Whole("mnemonic", Root(w)))
    BY <1>5 DEF ImportMnemonic
  <2> QED
    BY <1>1, <2>1, OneKeyKeeps
<1>6. CASE CreateEddsaLegacy(w)
  <2>1. NewWallet(w, Row("ed25519", "eddsa", 1, Root(w)), Dealt("", Root(w)))
    BY <1>6 DEF CreateEddsaLegacy
  <2> QED
    BY <1>1, <1>2, <1>9, <2>1, DealtKeeps
<1>7. CASE CreateEcdsaLegacy(w)
  <2>1. NewWallet(w, Row("secp256k1", "gg18", 1, Root(w)), Dealt("", Root(w)))
    BY <1>7 DEF CreateEcdsaLegacy
  <2> QED
    BY <1>1, <1>2, <1>9, <2>1, DealtKeeps
<1>8. CASE PersistAgentKeygen(w)
  <2>1. NewWallet(w, Row("ed25519", "frost", 1, Root(w)), {Share(0, "frost", Root(w), 1, FALSE, FALSE)})
    BY <1>8 DEF PersistAgentKeygen
  <2> QED
    BY <1>1, <1>2, <2>1, OneKeyKeeps
<1> QED
  BY <1>3, <1>4, <1>5, <1>6, <1>7, <1>8

LEMMA PromoteMnemonicKeeps ==
    ASSUME KeyInv, NEW w \in Wallets, NEW new \in Wallets, NEW i \in {0, 1}, PromoteMnemonic(w, new, i)
    PROVE  KeyInv'
<1> DEFINE root == Root(w) \o HardenedPath(i)
           row == Row("secp256k1", "dkls23", 1, root)
           ks == Dealt("dkls23", root)
<1>1. root \in PubKeys
  BY PathsTyped
<1> HIDE DEF root
<1>2. row \in WalletRows /\ row.pub = root
  BY <1>1 DEF Row, Curves, WalletRows, Protocols
<1>3. \A k \in ks : k.root = root /\ k.idx \in 0..2 /\ k.schema = "dkls23"
  BY DEF Dealt, Share
<1>4. ~Mnemonic(ks)
  BY <1>3 DEF Mnemonic
<1>5. NewWallet(new, row, ks)
  BY DEF PromoteMnemonic, root
<1> HIDE DEF row, ks
<1> QED
  BY <1>2, <1>3, <1>4, <1>5, NewWalletKeeps

-----------------------------------------------------------------------------
\* The calls, step by step.
LEMMA ShapeOfCall ==
    ASSUME KeyInv, NEW j \in Jobs, job[j] # None
    PROVE  JobOK(job[j]) /\ job[j] \in Shape(job[j]) /\ job[j].w \in Wallets /\ wallet[job[j].w] # None
           /\ WalletOK(job[j].w)
BY DEF KeyInv, JobOK, Shape

LEMMA BeginsWell ==
    ASSUME KeyInv, NEW j \in Jobs, NEW c, UNCHANGED <<wallet, keys, account>>, Call(j, c),
           c \in Shape(c), wallet[c.w] # None, c.pc = "row", c.fetch = 1,
           c.op = "sign" => AccountOK(c.acct) /\ c.acct.wallet = c.w,
           c.op = "create" => c.acct \in [chain : Chains, index : {0, 1}],
           c.op = "restore" => c.id \in Accounts /\ account[c.id] # None /\ account[c.id].wallet = c.w
    PROVE  KeyInv'
<1>1. job' = [job EXCEPT ![j] = c]
  BY DEF Call
<1>2. JobOK(c)
  BY DEF JobOK
<1> QED
  BY <1>1, <1>2, CallSteps

LEMMA BeginKeeps ==
    ASSUME KeyInv, NEW j \in Jobs,
           \/ \E w \in Wallets : BeginExport(j, w) \/ BeginPromote(j, w)
           \/ \E w \in Wallets, c \in Chains, i \in {0, 1} : BeginCreate(j, w, c, i)
           \/ \E a \in Accounts : BeginSign(j, a) \/ BeginRestore(j, a)
    PROVE  KeyInv'
<1>1. UNCHANGED <<wallet, keys, account>>
  BY DEF BeginExport, BeginPromote, BeginCreate, BeginSign, BeginRestore
<1>2. ASSUME NEW w \in Wallets, BeginExport(j, w) \/ BeginPromote(j, w) PROVE KeyInv'
  <2>1. PICK op \in {"export", "promote"} : wallet[w] # None /\ Call(j, Keyless(op, w))
    BY <1>2 DEF BeginExport, BeginPromote
  <2> DEFINE c == Keyless(op, w)
  <2>2. c.op = op /\ c.w = w /\ c.pc = "row" /\ c.fetch = 1 /\ c \in Shape(c)
    BY DEF Keyless, Shape
  <2>3. Call(j, c)
    BY <2>1
  <2> HIDE DEF c
  <2> QED
    BY <1>1, <2>1, <2>2, <2>3, BeginsWell
<1>3. ASSUME NEW w \in Wallets, NEW chain \in Chains, NEW i \in {0, 1}, BeginCreate(j, w, chain, i) PROVE KeyInv'
  <2> DEFINE c == [Keyless("create", w) EXCEPT !.acct = [chain |-> chain, index |-> i]]
  <2>1. wallet[w] # None /\ Call(j, c)
    BY <1>3 DEF BeginCreate
  <2>2. /\ c.op = "create" /\ c.w = w /\ c.pc = "row" /\ c.fetch = 1 /\ c \in Shape(c)
        /\ c.acct \in [chain : Chains, index : {0, 1}]
    BY DEF Keyless, Shape
  <2> HIDE DEF c
  <2> QED
    BY <1>1, <2>1, <2>2, BeginsWell
<1>4. ASSUME NEW a \in Accounts, BeginSign(j, a) \/ BeginRestore(j, a) PROVE KeyInv'
  <2>1. PICK w : w = account[a].wallet
    OBVIOUS
  <2>2. account[a] # None /\ AccountOK(account[a])
    BY <1>4 DEF BeginSign, BeginRestore, KeyInv
  <2>3. w \in Wallets /\ wallet[w] # None
    BY <2>1, <2>2 DEF AccountOK, AccountRows
  <2>4. CASE BeginSign(j, a)
    <3> DEFINE c == [Keyless("sign", w) EXCEPT !.acct = account[a]]
    <3>1. Call(j, c)
      BY <2>1, <2>4 DEF BeginSign
    <3>2. c.op = "sign" /\ c.w = w /\ c.pc = "row" /\ c.fetch = 1 /\ c \in Shape(c) /\ c.acct = account[a]
      BY <2>3 DEF Keyless, Shape
    <3> HIDE DEF c
    <3> QED
      BY <1>1, <2>1, <2>2, <2>3, <3>1, <3>2, BeginsWell
  <2>5. CASE BeginRestore(j, a)
    <3> DEFINE c == [Keyless("restore", w) EXCEPT !.id = a]
    <3>1. Call(j, c)
      BY <2>1, <2>5 DEF BeginRestore
    <3>2. c.op = "restore" /\ c.w = w /\ c.pc = "row" /\ c.fetch = 1 /\ c \in Shape(c) /\ c.id = a
      BY <2>3 DEF Keyless, Shape
    <3> HIDE DEF c
    <3> QED
      BY <1>1, <2>1, <2>2, <2>3, <3>1, <3>2, BeginsWell
  <2> QED
    BY <1>4, <2>4, <2>5
<1> QED
  BY <1>2, <1>3, <1>4

LEMMA FetchRowKeeps == ASSUME KeyInv, NEW j \in Jobs, FetchRow(j) PROVE KeyInv'
<1>1. PICK c : c = job[j]
  OBVIOUS
<1>2. /\ c # None /\ c.pc = "row" /\ UNCHANGED <<wallet, keys, account>>
      /\ JobOK(c) /\ c \in Shape(c) /\ c.w \in Wallets /\ wallet[c.w] # None /\ WalletOK(c.w)
  BY <1>1, ShapeOfCall DEF FetchRow
<1> DEFINE d == [c EXCEPT !.row = wallet[c.w], !.pc = "keys"]
<1>3. job' = [job EXCEPT ![j] = d]
  BY <1>1 DEF FetchRow, KeyInv
<1>4. /\ d \in Shape(d) /\ d.row = wallet[c.w] /\ d.pc = "keys" /\ d.op = c.op /\ d.w = c.w /\ d.fetch = c.fetch
      /\ d.acct = c.acct /\ d.id = c.id /\ d.mnemonic = c.mnemonic
  BY <1>2 DEF Shape
<1> HIDE DEF d
<1>5. RowOK(d)
  BY <1>2, <1>4 DEF RowOK, WalletOK
<1>6. JobOK(d)
  BY <1>2, <1>4, <1>5 DEF JobOK
<1> QED
  BY <1>2, <1>3, <1>6, CallSteps

LEMMA FetchKeysKeeps == ASSUME KeyInv, NEW j \in Jobs, FetchKeys(j) PROVE KeyInv'
<1>1. PICK c : c = job[j]
  OBVIOUS
<1>2. /\ c # None /\ c.pc = "keys" /\ UNCHANGED <<wallet, keys, account>>
      /\ JobOK(c) /\ c \in Shape(c) /\ c.w \in Wallets /\ wallet[c.w] # None /\ WalletOK(c.w)
  BY <1>1, ShapeOfCall DEF FetchKeys
<1> DEFINE ks == keys[c.w]
           mn == IF c.fetch = 1 THEN Mnemonic(ks) ELSE c.mnemonic
           pc == IF FetchesAgain(c, mn) THEN "row" ELSE "act"
           d == [c EXCEPT !.ks = ks, !.mnemonic = mn, !.fetch = 2, !.pc = pc]
<1>3. job' = [job EXCEPT ![j] = d]
  BY <1>1 DEF FetchKeys, KeyInv
<1>4. mn \in BOOLEAN
  BY <1>2 DEF Shape, Mnemonic
<1>5. pc \in {"row", "act"}
  OBVIOUS
<1>6. ~mn => Raw(c.w)
  BY <1>2 DEF JobOK, Raw, Shape
<1>7. c.op = "sign" /\ c.acct.chain = "solana" /\ FromSeed(c.acct) => mn
  <2>1. SUFFICES ASSUME c.op = "sign", c.acct.chain = "solana", FromSeed(c.acct), c.fetch = 1 PROVE Mnemonic(ks)
    BY <1>2 DEF JobOK, Shape
  <2>2. AccountOK(c.acct) /\ c.acct.wallet = c.w
    BY <1>2, <2>1 DEF JobOK
  <2> QED
    BY <2>1, <2>2 DEF AccountOK, SeedOK, DerivedOK, FromSeed, Raw
<1> HIDE DEF mn, pc
<1>8. /\ d \in Shape(d) /\ d.row = c.row /\ d.pc = pc /\ d.op = c.op /\ d.w = c.w /\ d.fetch = 2
      /\ d.acct = c.acct /\ d.id = c.id /\ d.mnemonic = mn /\ d.ks = ks
  BY <1>2, <1>4 DEF Shape
<1> HIDE DEF d
<1>9. RowOK(d)
  BY <1>2, <1>8 DEF RowOK, JobOK
<1>10. ReadOK(d)
  <2>1. c.op = "sign" /\ c.acct.il # <<>> => Raw(c.w)
    BY <1>2 DEF JobOK, AccountOK, SeedOK, DerivedOK
  <2> QED
    BY <1>2, <1>8, <1>9, <2>1 DEF ReadOK, RowOK, WalletOK, Raw
<1>11. JobOK(d)
  BY <1>2, <1>5, <1>6, <1>7, <1>8, <1>9, <1>10 DEF JobOK
<1> QED
  BY <1>2, <1>3, <1>11, CallSteps

-----------------------------------------------------------------------------
LEMMA DeriveKeeps == ASSUME KeyInv, NEW j \in Jobs, Derive(j) PROVE KeyInv'
<1>1. PICK c : c = job[j]
  OBVIOUS
<1>2. /\ c # None /\ c.pc = "act" /\ c.op = "create" /\ UNCHANGED <<wallet, keys, account>>
      /\ JobOK(c) /\ c \in Shape(c) /\ c.w \in Wallets /\ wallet[c.w] # None /\ WalletOK(c.w)
  BY <1>1, ShapeOfCall DEF Derive, At
<1>3. ASSUME NEW x \in Derived(c), job' = [job EXCEPT ![j].acct = x, ![j].pc = "persist"] PROVE KeyInv'
  <2> DEFINE d == [c EXCEPT !.acct = x, !.pc = "persist"]
  <2>1. job' = [job EXCEPT ![j] = d]
    BY <1>1, <1>3 DEF KeyInv
  <2>2. /\ d \in Shape(d) /\ d.row = c.row /\ d.pc = "persist" /\ d.op = "create" /\ d.w = c.w /\ d.fetch = c.fetch
        /\ d.acct = x /\ d.id = c.id /\ d.mnemonic = c.mnemonic /\ d.ks = c.ks
    BY <1>2 DEF Shape
  <2> HIDE DEF d
  <2>3. RowOK(c) /\ ReadOK(c) /\ c.fetch = 2 /\ (~c.mnemonic => Raw(c.w))
    BY <1>2 DEF JobOK
  <2>4. PICK chain \in Chains, i \in {0, 1} : c.acct = [chain |-> chain, index |-> i]
    BY <1>2 DEF JobOK
  <2>5. wallet[c.w].curve = CurveOf(chain) /\ (chain = "solana" => wallet[c.w].curve = "ed25519")
    BY <1>3, <2>3, <2>4 DEF Derived, RowOK, CurveOf
  <2>6. wallet[c.w].pub \in PubKeys
    BY <1>2 DEF WalletOK, WalletRows
  <2>7. AccountOK(x) /\ x.wallet = c.w
    <3>1. CASE c.mnemonic
      <4>1. PICK k \in c.ks : k.schema = "mnemonic" /\ x = SeedAccount(c.w, chain, i, k.root)
        BY <1>3, <2>4, <2>5, <3>1 DEF Derived
      <4>2. k.root = wallet[c.w].pub /\ (wallet[c.w].curve = "ed25519" => ~Raw(c.w))
        BY <2>3, <4>1 DEF ReadOK, Mnemonic
      <4>3. x = [wallet |-> c.w, chain |-> chain, index |-> i, path |-> HardenedPath(i), il |-> <<>>,
                 pub |-> wallet[c.w].pub \o HardenedPath(i), live |-> TRUE]
        BY <4>1, <4>2 DEF SeedAccount, Account
      <4> QED
        BY <1>2, <2>5, <2>6, <4>2, <4>3, PathsTyped DEF AccountOK, SeedOK, AccountRows
    <3>2. CASE ~c.mnemonic
      <4>1. x = DeriveAccount(c.w, chain, i, c.row)
        BY <1>3, <2>4, <2>5, <3>2 DEF Derived
      <4>2. x = [wallet |-> c.w, chain |-> chain, index |-> i, path |-> DefaultPath(i), il |-> DefaultPath(i),
                 pub |-> wallet[c.w].pub \o DefaultPath(i), live |-> TRUE]
        BY <2>3, <4>1 DEF DeriveAccount, Account, RowOK
      <4> QED
        BY <1>2, <2>3, <2>5, <2>6, <3>2, <4>2, PathsTyped DEF AccountOK, DerivedOK, AccountRows
    <3> QED
      BY <3>1, <3>2
  <2>8. JobOK(d)
    BY <1>2, <2>2, <2>3, <2>7 DEF JobOK, RowOK, ReadOK
  <2> QED
    BY <1>2, <2>1, <2>8, CallSteps
<1> QED
  BY <1>1, <1>2, <1>3, EndsWell DEF Derive

LEMMA RestoreKeeps == ASSUME KeyInv, NEW j \in Jobs, Restore(j) PROVE KeyInv'
<1>1. PICK c, b : c = job[j] /\ b = account[c.id]
  OBVIOUS
<1>2. /\ c # None /\ c.pc = "act" /\ c.op = "restore" /\ UNCHANGED <<wallet, keys, account>>
      /\ JobOK(c) /\ c \in Shape(c) /\ c.w \in Wallets /\ wallet[c.w] # None /\ WalletOK(c.w)
  BY <1>1, ShapeOfCall DEF Restore, At
<1>3. AccountOK(b) /\ b.wallet = c.w
  BY <1>1, <1>2 DEF JobOK, KeyInv
<1>4. ASSUME NEW x \in Restored(c, b), job' = [job EXCEPT ![j].acct = x, ![j].pc = "persist"] PROVE KeyInv'
  <2> DEFINE d == [c EXCEPT !.acct = x, !.pc = "persist"]
  <2>1. job' = [job EXCEPT ![j] = d]
    BY <1>1, <1>4 DEF KeyInv
  <2>2. /\ d \in Shape(d) /\ d.row = c.row /\ d.pc = "persist" /\ d.op = "restore" /\ d.w = c.w /\ d.fetch = c.fetch
        /\ d.acct = x /\ d.id = c.id /\ d.mnemonic = c.mnemonic /\ d.ks = c.ks
    BY <1>2 DEF Shape
  <2> HIDE DEF d
  <2>3. RowOK(c) /\ ReadOK(c) /\ c.fetch = 2 /\ (~c.mnemonic => Raw(c.w))
    BY <1>2 DEF JobOK
  <2>4. wallet[c.w].pub \in PubKeys
    BY <1>2 DEF WalletOK, WalletRows
  <2>5. AccountOK(x) /\ x.wallet = c.w
    <3>1. CASE c.mnemonic
      BY <1>3, <1>4, <3>1 DEF Restored
    <3>2. CASE ~c.mnemonic
      <4>1. x = DeriveAccount(c.w, b.chain, b.index, c.row)
        BY <1>4, <3>2 DEF Restored
      <4>2. x = [wallet |-> c.w, chain |-> b.chain, index |-> b.index, path |-> DefaultPath(b.index),
                 il |-> DefaultPath(b.index), pub |-> wallet[c.w].pub \o DefaultPath(b.index), live |-> TRUE]
        BY <2>3, <4>1 DEF DeriveAccount, Account, RowOK
      <4>3. b.chain \in Chains /\ b.index \in {0, 1} /\ wallet[c.w].curve = CurveOf(b.chain)
        BY <1>3 DEF AccountOK, AccountRows
      <4> QED
        BY <1>2, <2>3, <2>4, <3>2, <4>2, <4>3, PathsTyped DEF AccountOK, DerivedOK, AccountRows
    <3> QED
      BY <3>1, <3>2
  <2>6. JobOK(d)
    BY <1>2, <2>2, <2>3, <2>5 DEF JobOK, RowOK, ReadOK
  <2> QED
    BY <1>2, <2>1, <2>6, CallSteps
<1> QED
  BY <1>1, <1>2, <1>4, EndsWell DEF Restore

\* A row of the accounts is written, and the call that did it may end.
LEMMA AccountWritten ==
    ASSUME KeyInv, UNCHANGED <<wallet, keys>>, NEW a \in Accounts, NEW x, account' = [account EXCEPT ![a] = x],
           AccountOK(x), account[a] # None => x.wallet = account[a].wallet,
           job' = job \/ \E j \in Jobs : Ends(j)
    PROVE  KeyInv'
<1>1. \A b \in Accounts : account'[b] = IF b = a THEN x ELSE account[b]
  BY DEF KeyInv
<1>2. x # None
  BY NoneAssumption DEF AccountOK
<1>3. WalletsKeep /\ AccountRowsKeep
  BY <1>1, <1>2 DEF WalletsKeep, AccountRowsKeep, Raw
<1>4. \A b \in Accounts : account'[b] # None => AccountOK(account'[b])
  BY <1>1 DEF KeyInv
<1>5. \A k \in Jobs : JobOK(job'[k])
  BY DEF KeyInv, Ends, JobOK
<1>6. PICK rows, jobs : rows = account' /\ jobs = job'
  OBVIOUS
<1>7. (\A b \in Accounts : rows[b] # None => AccountOK(rows[b])') /\ \A k \in Jobs : JobOK(jobs[k])'
  BY <1>3, <1>4, <1>5, <1>6, KnownKeeps
<1>8. \A w \in Wallets : WalletOK(w)'
  BY DEF KeyInv, WalletOK, Raw
<1>9. account' \in [Accounts -> {account'[b] : b \in Accounts}] /\ job' \in [Jobs -> {job'[k] : k \in Jobs}]
  BY DEF KeyInv, Ends
<1> QED
  BY <1>6, <1>7, <1>8, <1>9 DEF KeyInv

\* Whether an account is live is nothing to what it signs with.
LEMMA LiveOrNot ==
    ASSUME NEW x, AccountOK(x), NEW live \in BOOLEAN
    PROVE  AccountOK([x EXCEPT !.live = live]) /\ [x EXCEPT !.live = live].wallet = x.wallet
<1> DEFINE y == [x EXCEPT !.live = live]
<1>1. /\ y \in AccountRows /\ y.wallet = x.wallet /\ y.chain = x.chain /\ y.index = x.index /\ y.path = x.path
      /\ y.il = x.il /\ y.pub = x.pub
  BY DEF AccountOK, AccountRows
<1> HIDE DEF y
<1>2. AccountOK(y)
  BY <1>1 DEF AccountOK, SeedOK, DerivedOK
<1> QED
  BY <1>1, <1>2 DEF y

LEMMA DeleteAccountKeeps == ASSUME KeyInv, NEW a \in Accounts, DeleteAccount(a) PROVE KeyInv'
<1>1. account[a] # None /\ UNCHANGED <<wallet, keys, job>> /\ AccountOK(account[a])
  BY DEF DeleteAccount, KeyInv
<1> DEFINE x == [account[a] EXCEPT !.live = FALSE]
<1>2. AccountOK(x) /\ x.wallet = account[a].wallet
  BY <1>1, LiveOrNot
<1>3. account' = [account EXCEPT ![a] = x]
  BY DEF DeleteAccount, KeyInv
<1> HIDE DEF x
<1> QED
  BY <1>1, <1>2, <1>3, AccountWritten

LEMMA InsertAccountKeeps == ASSUME KeyInv, NEW j \in Jobs, NEW a \in Accounts, InsertAccount(j, a) PROVE KeyInv'
<1>1. PICK c : c = job[j]
  OBVIOUS
<1>2. /\ c # None /\ c.pc = "persist" /\ UNCHANGED <<wallet, keys>> /\ Ends(j) /\ JobOK(c)
      /\ IF c.op = "restore" THEN a = c.id ELSE account[a] = None
  BY <1>1, ShapeOfCall DEF InsertAccount
<1>3. /\ AccountOK(c.acct) /\ c.acct.wallet = c.w
      /\ account[a] # None => account[a].wallet = c.w
  BY <1>2 DEF JobOK
<1> DEFINE x == [c.acct EXCEPT !.live = TRUE]
<1>4. AccountOK(x) /\ x.wallet = c.w
  BY <1>3, LiveOrNot
<1>5. account' = [account EXCEPT ![a] = x]
  BY <1>1 DEF InsertAccount
<1> HIDE DEF x
<1> QED
  BY <1>2, <1>3, <1>4, <1>5, AccountWritten

-----------------------------------------------------------------------------
\* Signing and export.

\* What a signer of unpromoted keys answers is the key of the account.
LEMMA SignsAsAccount ==
    ASSUME NEW c, c # None, JobOK(c), c.op = "sign", c.pc = "act", WalletOK(c.w), NEW U, U \subseteq c.ks,
           NEW spend \in BOOLEAN, NEW key \in Signatures(c.row, c.ks, U, c.acct, c.mnemonic, spend)
    PROVE  \/ key = c.acct.pub
           \/ c.acct.chain \in {"ethereum", "tron"} /\ FromSeed(c.acct) /\ ~Mnemonic(c.ks)
<1> DEFINE x == c.acct
           p == wallet[c.w].pub
<1>1. /\ RowOK(c) /\ ReadOK(c) /\ c.fetch = 2 /\ AccountOK(x) /\ x.wallet = c.w /\ p \in PubKeys
      /\ x.chain = "solana" /\ FromSeed(x) => c.mnemonic
  BY DEF JobOK, WalletOK, AccountOK, WalletRows
<1>2. x.pub = p \o x.path /\ x.chain \in Chains /\ x.path \in PubKeys /\ x.il \in PubKeys
  BY <1>1 DEF AccountOK, AccountRows
<1>3. FromSeed(x) \/ x.path = x.il
  BY <1>1, PathsTyped DEF AccountOK, SeedOK, DerivedOK, FromSeed, AccountRows
<1>4. \A sigs, pub : \A k \in Verified(sigs, pub) : k = pub
  BY DEF Verified
<1>5. CASE x.chain = "solana"
  <2>1. CASE c.mnemonic
    BY <1>4, <1>5, <2>1 DEF Signatures, SignSeed
  <2>2. CASE ~c.mnemonic /\ x.il = <<>>
    <3>1. key = c.row.pub
      BY <1>4, <1>5, <2>2 DEF Signatures, SignGroup
    <3>2. x.path = <<>>
      BY <1>1, <1>3, <1>5, <2>2
    <3> QED
      BY <1>1, <1>2, <3>1, <3>2, PathsTyped DEF RowOK
  <2>3. CASE ~c.mnemonic /\ x.il # <<>>
    BY <1>4, <1>5, <2>3 DEF Signatures, SignTweaked
  <2> QED
    BY <2>1, <2>2, <2>3
<1>6. CASE x.chain # "solana" /\ Compared(x.chain, spend)
  BY <1>4, <1>6 DEF Signatures, SignSecp
<1>7. CASE x.chain # "solana" /\ ~Compared(x.chain, spend)
  <2>0. x.chain \in {"ethereum", "tron"}
    BY <1>2, <1>7 DEF Chains, Compared
  <2>1. key \in SignDigest(c.row, c.ks, U, x)
    BY <1>7 DEF Signatures, SignSecp
  <2>2. CASE c.row.protocol = "gg18"
    <3>1. PICK k \in U : key = k.root \o x.il
      BY <2>1, <2>2 DEF SignDigest, EcdsaSign, Quorum
    <3>2. key = p \o x.il /\ ~Mnemonic(c.ks)
      BY <1>1, <2>2, <3>1 DEF ReadOK
    <3> QED
      BY <1>2, <1>3, <2>0, <3>2
  <2>3. CASE c.row.protocol # "gg18"
    <3>1. PICK k \in U : key = DklsKey(k, x)
      BY <2>1, <2>3 DEF SignDigest
    <3>2. k.root = p /\ k \in c.ks
      BY <1>1, <3>1 DEF ReadOK
    <3>3. CASE k.schema = "mnemonic"
      <4>1. x.il = <<>>
        BY <1>1, <3>2, <3>3 DEF ReadOK, Mnemonic
      <4>2. key = (p \o x.path) \o <<>>
        BY <3>1, <3>2, <3>3, <4>1 DEF DklsKey, SeedKey
      <4> QED
        BY <1>1, <1>2, <4>2, PathsTyped
    <3>4. CASE k.schema # "mnemonic"
      <4>1. key = p \o x.il
        BY <3>1, <3>2, <3>4 DEF DklsKey, Tweaked
      <4>2. ~Mnemonic(c.ks)
        BY <1>1, <3>2, <3>4 DEF ReadOK
      <4> QED
        BY <1>2, <1>3, <2>0, <4>1, <4>2
    <3> QED
      BY <3>3, <3>4
  <2> QED
    BY <2>2, <2>3
<1> QED
  BY <1>5, <1>6, <1>7

\* An answer of a call that read the wallet.
LEMMA AnswersWell ==
    ASSUME KeyInv, NEW j \in Jobs, job[j] # None, job[j].pc = "act", UNCHANGED <<wallet, keys, account>>,
           NEW out, Answers(j, out),
           job[j].op = "sign" => \/ out = job[j].acct.pub
                                 \/ job[j].acct.chain \in {"ethereum", "tron"} /\ FromSeed(job[j].acct) /\ ~Mnemonic(job[j].ks)
    PROVE  KeyInv'
<1>1. PICK c : c = job[j]
  OBVIOUS
<1>2. c # None /\ c.pc = "act" /\ JobOK(c) /\ c \in Shape(c)
  BY <1>1, ShapeOfCall
<1> DEFINE d == [c EXCEPT !.out = out, !.pc = "answered"]
<1>3. job' = [job EXCEPT ![j] = d]
  BY <1>1 DEF Answers, KeyInv
<1>4. /\ d \in Shape(d) /\ d.row = c.row /\ d.pc = "answered" /\ d.op = c.op /\ d.w = c.w /\ d.fetch = c.fetch
      /\ d.acct = c.acct /\ d.id = c.id /\ d.mnemonic = c.mnemonic /\ d.ks = c.ks /\ d.out = out
  BY <1>2 DEF Shape
<1> HIDE DEF d
<1>5. RowOK(d) /\ ReadOK(d) /\ d.fetch = 2
  BY <1>2, <1>4 DEF JobOK, RowOK, ReadOK
<1>6. d.op = "sign" => OwnSignature(d)
  BY <1>1, <1>4 DEF OwnSignature
<1>7. JobOK(d)
  BY <1>2, <1>4, <1>5, <1>6 DEF JobOK
<1> QED
  BY <1>3, <1>7, CallSteps

LEMMA SignKeeps == ASSUME KeyInv, NEW j \in Jobs, NEW U, NEW spend \in BOOLEAN, Sign(j, U, spend) PROVE KeyInv'
<1>1. PICK c : c = job[j]
  OBVIOUS
<1>2. /\ c # None /\ c.pc = "act" /\ c.op = "sign" /\ U \subseteq c.ks /\ UNCHANGED <<wallet, keys, account>>
      /\ JobOK(c) /\ WalletOK(c.w)
  BY <1>1, ShapeOfCall DEF Sign, At
<1>3. ASSUME NEW key \in Signatures(c.row, c.ks, U, c.acct, c.mnemonic, spend), Answers(j, key) PROVE KeyInv'
  BY <1>1, <1>2, <1>3, SignsAsAccount, AnswersWell
<1> QED
  BY <1>1, <1>2, <1>3, EndsWell DEF Sign

LEMMA ExportKeeps == ASSUME KeyInv, NEW j \in Jobs, Export(j) \/ Return(j) PROVE KeyInv'
<1>1. UNCHANGED <<wallet, keys, account>>
  BY DEF Export, Return
<1>2. CASE Export(j)
  BY <1>1, <1>2, EndsWell, AnswersWell DEF Export, At
<1>3. CASE Return(j)
  BY <1>1, <1>3, EndsWell DEF Return
<1> QED
  BY <1>2, <1>3

-----------------------------------------------------------------------------
\* Wallet:promote.

\* A step of one call that writes its wallet.
LEMMA WalletWritten ==
    ASSUME KeyInv, account' = account, WalletsKeep, \A w \in Wallets : WalletOK(w)',
           wallet' \in [Wallets -> {wallet'[w] : w \in Wallets}], keys' \in [Wallets -> {keys'[w] : w \in Wallets}],
           NEW j \in Jobs, NEW d, d = None \/ JobOK(d)', job' = [job EXCEPT ![j] = d]
    PROVE  KeyInv'
<1>1. AccountRowsKeep
  BY RowsStay
<1>2. \A k \in Jobs : job'[k] = IF k = j THEN d ELSE job[k]
  BY DEF KeyInv
<1>3. PICK rows, olds, jobs : rows = account /\ olds = job /\ jobs = job'
  OBVIOUS
<1>4. (\A a \in Accounts : rows[a] # None => AccountOK(rows[a])') /\ \A k \in Jobs : JobOK(olds[k])'
  BY <1>1, <1>3, KnownKeeps DEF KeyInv
<1>5. JobOK(d)'
  BY DEF JobOK
<1>6. \A k \in Jobs : JobOK(jobs[k])'
  BY <1>2, <1>3, <1>4, <1>5
<1>7. job' \in [Jobs -> {job'[k] : k \in Jobs}]
  BY DEF KeyInv
<1> QED
  BY <1>3, <1>4, <1>6, <1>7 DEF KeyInv

LEMMA DeleteKeysKeeps == ASSUME KeyInv, NEW j \in Jobs, DeleteKeys(j) PROVE KeyInv'
<1>1. PICK c : c = job[j]
  OBVIOUS
<1>2. /\ c # None /\ c.pc = "act" /\ c.op = "promote" /\ UNCHANGED <<wallet, account>>
      /\ JobOK(c) /\ c \in Shape(c) /\ c.w \in Wallets /\ wallet[c.w] # None /\ WalletOK(c.w)
  BY <1>1, ShapeOfCall DEF DeleteKeys, At
<1>3. CASE ~CanPromote(c)
  BY <1>1, <1>2, <1>3, EndsWell DEF DeleteKeys
<1>4. CASE CanPromote(c)
  <2> DEFINE schema == Modern(c.row.curve)
             root == Lowest(c.ks).root
             d == [c EXCEPT !.ks = Dealt(schema, root), !.pc = "insert"]
  <2>1. /\ keys' = [keys EXCEPT ![c.w] = {}] /\ job' = [job EXCEPT ![j] = d]
    BY <1>1, <1>4 DEF DeleteKeys, KeyInv
  <2>2. RowOK(c) /\ ReadOK(c) /\ c.fetch = 2 /\ (~c.mnemonic => Raw(c.w))
    BY <1>2 DEF JobOK
  <2>3. c.ks # {}
    BY <1>4, FS_EmptySet DEF CanPromote
  <2>4. root = wallet[c.w].pub
    BY <2>2, <2>3, LowestIn DEF ReadOK
  <2>5. schema # "mnemonic"
    BY DEF Modern
  <2> HIDE DEF schema, root
  <2>6. /\ d \in Shape(d) /\ d.row = c.row /\ d.pc = "insert" /\ d.op = "promote" /\ d.w = c.w /\ d.fetch = 2
        /\ d.acct = c.acct /\ d.id = c.id /\ d.mnemonic = c.mnemonic /\ d.ks = Dealt(schema, root)
    BY <1>2, <2>2 DEF Shape
  <2> HIDE DEF d
  <2>7. (\A k \in d.ks : k.root = wallet[c.w].pub /\ k.idx \in 0..2) /\ ~Mnemonic(d.ks)
    BY <2>4, <2>5, <2>6 DEF Dealt, Share, Mnemonic
  <2>8. \A w \in Wallets : keys'[w] = IF w = c.w THEN {} ELSE keys[w]
    BY <1>2, <2>1 DEF KeyInv
  <2>9. wallet[c.w].curve = "ed25519" => Raw(c.w)
    BY <1>2, <1>4, <2>2, <2>3 DEF CanPromote, Promotable, RowOK, ReadOK, Mnemonic
  <2>10. WalletsKeep
    BY <1>2, <2>8, <2>9 DEF WalletsKeep, Raw, Mnemonic
  <2>11. \A w \in Wallets : WalletOK(w)'
    BY <1>2, <2>8 DEF KeyInv, WalletOK, Raw, Mnemonic
  <2>12. wallet'[c.w] = wallet[c.w] /\ Raw(c.w)'
    BY <1>2, <2>8 DEF Raw, Mnemonic
  <2>13. RowOK(d)' /\ ReadOK(d)'
    BY <2>2, <2>6, <2>7, <2>12 DEF RowOK, ReadOK
  <2>14. JobOK(d)'
    BY <1>2, <2>6, <2>7, <2>12, <2>13 DEF JobOK
  <2>15. /\ wallet' \in [Wallets -> {wallet'[w] : w \in Wallets}] /\ keys' \in [Wallets -> {keys'[w] : w \in Wallets}]
    BY <1>2, <2>1 DEF KeyInv
  <2> QED
    BY <1>2, <2>1, <2>10, <2>11, <2>14, <2>15, WalletWritten
<1> QED
  BY <1>3, <1>4

LEMMA InsertKeyKeeps == ASSUME KeyInv, NEW j \in Jobs, InsertKey(j) PROVE KeyInv'
<1>1. PICK c : c = job[j]
  OBVIOUS
<1>2. /\ c # None /\ c.pc = "insert" /\ c.op = "promote" /\ UNCHANGED <<wallet, account>>
      /\ JobOK(c) /\ c \in Shape(c) /\ c.w \in Wallets /\ wallet[c.w] # None /\ WalletOK(c.w)
  BY <1>1, ShapeOfCall DEF InsertKey, At
<1>3. RowOK(c) /\ ReadOK(c) /\ c.fetch = 2 /\ (~c.mnemonic => Raw(c.w)) /\ Raw(c.w) /\ ~Mnemonic(c.ks)
  BY <1>2 DEF JobOK
<1>a. PICK left : left = c.ks \ keys[c.w]
  OBVIOUS
<1>b. PICK key, pc : key = Lowest(left) /\ pc = IF Cardinality(left) = 1 THEN "protocol" ELSE "insert"
  OBVIOUS
<1> DEFINE d == [c EXCEPT !.pc = pc]
<1>4. left # {} /\ keys' = [keys EXCEPT ![c.w] = @ \cup {key}] /\ job' = [job EXCEPT ![j] = d]
  BY <1>1, <1>a, <1>b DEF InsertKey, KeyInv
<1>5. key \in c.ks
  BY <1>3, <1>4, <1>a, <1>b, LowestIn DEF ReadOK
<1>6. pc \in {"protocol", "insert"}
  BY <1>b
<1>7. /\ d \in Shape(d) /\ d.row = c.row /\ d.pc = pc /\ d.op = "promote" /\ d.w = c.w /\ d.fetch = 2
      /\ d.acct = c.acct /\ d.id = c.id /\ d.mnemonic = c.mnemonic /\ d.ks = c.ks
  BY <1>2, <1>3 DEF Shape
<1> HIDE DEF d
<1>8. \A w \in Wallets : keys'[w] = IF w = c.w THEN keys[w] \cup {key} ELSE keys[w]
  BY <1>2, <1>4 DEF KeyInv
<1>9. key.schema # "mnemonic" /\ key.root = wallet[c.w].pub /\ key.idx \in 0..2
  BY <1>3, <1>5 DEF ReadOK, Mnemonic
<1>10. Raw(c.w)' /\ \A w \in Wallets : Raw(w)' <=> Raw(w)
  <2>1. keys'[c.w] = keys[c.w] \cup {key} /\ Raw(c.w)
    BY <1>2, <1>3, <1>8
  <2>2. \A k \in keys'[c.w] : k.schema # "mnemonic"
    BY <1>9, <2>1 DEF Raw, Mnemonic
  <2>3. Raw(c.w)'
    BY <2>2 DEF Raw, Mnemonic
  <2>4. ASSUME NEW w \in Wallets, w # c.w PROVE Raw(w)' <=> Raw(w)
    BY <1>8, <2>4 DEF Raw
  <2> QED
    BY <2>1, <2>3, <2>4
<1>11. WalletsKeep
  BY <1>2, <1>10 DEF WalletsKeep
<1>12. \A w \in Wallets : WalletOK(w)'
  <2>1. ASSUME NEW w \in Wallets, w # c.w PROVE WalletOK(w)'
    <3>1. keys'[w] = keys[w] /\ wallet' = wallet /\ WalletOK(w)
      BY <1>2, <1>8, <2>1 DEF KeyInv
    <3> QED
      BY <1>10, <3>1 DEF WalletOK
  <2>2. WalletOK(c.w)'
    <3>1. keys'[c.w] = keys[c.w] \cup {key} /\ wallet' = wallet
      BY <1>2, <1>8
    <3> QED
      BY <1>2, <1>9, <1>10, <3>1 DEF WalletOK
  <2> QED
    BY <2>1, <2>2
<1>13. wallet'[c.w] = wallet[c.w]
  BY <1>2
<1>14. RowOK(d)' /\ ReadOK(d)'
  BY <1>3, <1>7, <1>10, <1>13 DEF RowOK, ReadOK
<1>15. JobOK(d)'
  BY <1>2, <1>3, <1>6, <1>7, <1>10, <1>13, <1>14 DEF JobOK
<1>16. wallet' \in [Wallets -> {wallet'[w] : w \in Wallets}] /\ keys' \in [Wallets -> {keys'[w] : w \in Wallets}]
  BY <1>2, <1>4 DEF KeyInv
<1> QED
  BY <1>2, <1>4, <1>11, <1>12, <1>15, <1>16, WalletWritten

LEMMA SetProtocolKeeps == ASSUME KeyInv, NEW j \in Jobs, SetProtocol(j) PROVE KeyInv'
<1>1. PICK w : w = job[j].w
  OBVIOUS
<1>2. /\ w \in Wallets /\ wallet[w] # None /\ WalletOK(w) /\ UNCHANGED <<keys, account>> /\ Ends(j)
      /\ wallet' = [wallet EXCEPT ![w].protocol = Modern(wallet[w].curve), ![w].threshold = 1]
  BY <1>1, ShapeOfCall DEF SetProtocol, At
<1> DEFINE row == [wallet[w] EXCEPT !.protocol = Modern(wallet[w].curve), !.threshold = 1]
<1>3. /\ row.pub = wallet[w].pub /\ row.curve = wallet[w].curve /\ row.protocol # "gg18"
      /\ row \in WalletRows
  BY <1>2 DEF WalletOK, Modern, WalletRows, Protocols
<1>4. \A v \in Wallets : wallet'[v] = IF v = w THEN row ELSE wallet[v]
  BY <1>2 DEF KeyInv
<1> HIDE DEF row
<1>5. row # None
  BY <1>3, NoneAssumption
<1>6. WalletsKeep
  BY <1>2, <1>3, <1>4, <1>5 DEF WalletsKeep, Raw
<1>7. \A v \in Wallets : WalletOK(v)'
  BY <1>2, <1>3, <1>4 DEF KeyInv, WalletOK, Raw
<1>8. wallet' \in [Wallets -> {wallet'[v] : v \in Wallets}] /\ keys' \in [Wallets -> {keys'[v] : v \in Wallets}]
  BY <1>2 DEF KeyInv
<1> QED
  BY <1>2, <1>6, <1>7, <1>8, WalletWritten DEF Ends

LEMMA CrashKeeps == ASSUME KeyInv, Crash PROVE KeyInv'
<1>1. UNCHANGED <<wallet, keys, account>> /\ job' = [j \in Jobs |-> None]
  BY DEF Crash
<1>2. WalletsKeep
  BY <1>1 DEF WalletsKeep, Raw
<1>3. PICK rows, jobs : rows = account /\ jobs = job'
  OBVIOUS
<1>4. (\A a \in Accounts : rows[a] # None => AccountOK(rows[a])') /\ \A k \in Jobs : JobOK(jobs[k])'
  BY <1>1, <1>2, <1>3, AccountsStay DEF KeyInv, JobOK
<1>5. \A w \in Wallets : WalletOK(w)'
  BY <1>1 DEF KeyInv, WalletOK, Raw
<1> QED
  BY <1>1, <1>3, <1>4, <1>5 DEF KeyInv

-----------------------------------------------------------------------------
LEMMA KeyPreserved == KeyInv /\ [KeyNext]_keyVars => KeyInv'
<1> SUFFICES ASSUME KeyInv, [KeyNext]_keyVars PROVE KeyInv'
  OBVIOUS
<1>1. CASE UNCHANGED keyVars
  <2>1. PICK rows, jobs : rows = account /\ jobs = job
    OBVIOUS
  <2>2. WalletsKeep /\ AccountRowsKeep
    BY <1>1 DEF keyVars, WalletsKeep, AccountRowsKeep, Raw
  <2>3. (\A a \in Accounts : rows[a] # None => AccountOK(rows[a])') /\ \A k \in Jobs : JobOK(jobs[k])'
    BY <2>1, <2>2, KnownKeeps DEF KeyInv
  <2>4. \A w \in Wallets : WalletOK(w)'
    BY <1>1 DEF keyVars, KeyInv, WalletOK, Raw
  <2> QED
    BY <1>1, <2>1, <2>3, <2>4 DEF keyVars, KeyInv
<1>2. CASE \E w \in Wallets, c \in Curves : CreateWallet(w, c) \/ ImportScalar(w, c) \/ ImportMnemonic(w, c)
  BY <1>2, MadeKeeps
<1>3. CASE \E w \in Wallets : CreateEddsaLegacy(w) \/ CreateEcdsaLegacy(w) \/ PersistAgentKeygen(w)
  BY <1>3, MadeKeeps
<1>4. CASE \E w, new \in Wallets, i \in {0, 1} : PromoteMnemonic(w, new, i)
  BY <1>4, PromoteMnemonicKeeps
<1>5. ASSUME NEW j \in Jobs,
             \/ FetchRow(j) \/ FetchKeys(j) \/ Derive(j) \/ Restore(j) \/ Export(j) \/ Return(j)
             \/ DeleteKeys(j) \/ InsertKey(j) \/ SetProtocol(j)
      PROVE  KeyInv'
  BY <1>5, FetchRowKeeps, FetchKeysKeeps, DeriveKeeps, RestoreKeeps, ExportKeeps, DeleteKeysKeeps, InsertKeyKeeps,
     SetProtocolKeeps
<1>6. ASSUME NEW j \in Jobs,
             \/ \E w \in Wallets : BeginExport(j, w) \/ BeginPromote(j, w)
             \/ \E w \in Wallets, c \in Chains, i \in {0, 1} : BeginCreate(j, w, c, i)
             \/ \E a \in Accounts : BeginSign(j, a) \/ BeginRestore(j, a) \/ InsertAccount(j, a)
             \/ job[j] # None /\ \E U \in SUBSET job[j].ks, spend \in BOOLEAN : Sign(j, U, spend)
      PROVE  KeyInv'
  BY <1>6, BeginKeeps, InsertAccountKeeps, SignKeeps
<1>7. CASE \E a \in Accounts : DeleteAccount(a)
  BY <1>7, DeleteAccountKeeps
<1> QED
  BY <1>1, <1>2, <1>3, <1>4, <1>5, <1>6, <1>7, CrashKeeps DEF KeyNext

LEMMA KeyStart == KeyInit => KeyInv
BY DEF KeyInit, KeyInv, WalletOK, JobOK, Raw, Mnemonic

LEMMA KeyAlways == KeySpec => []KeyInv
BY KeyStart, KeyPreserved, PTL DEF KeySpec

LEMMA InvSigns == KeyInv => SignerIsAccountUnlessPromoted
BY DEF KeyInv, SignerIsAccountUnlessPromoted, Signed, At, JobOK, OwnSignature

\* A signature that is answered is the account's own, whatever is promoted, re-keyed
\* or cut short while the signer reads the wallet twice; but for an account from a
\* phrase that was promoted since, on a chain whose signatures are not verified
\* (sign_ed25519_for_account, frost_sign_any, dkls_sign_digest_at).
THEOREM SignerIsAccount == KeySpec => []SignerIsAccountUnlessPromoted
BY KeyAlways, InvSigns, PTL

-----------------------------------------------------------------------------
(* AccountsCanSign. A wallet that nothing replaces is whole: its row and    *)
(* its keys belong together (Settled); one that a promotion replaces has a  *)
(* part of the new shares, all of them before its row is written            *)
(* (Replaced); there is one promotion of a wallet at a time.                *)

\* A promotion, and one that is replacing the keys.
Promotes(c) == c # None /\ c.op = "promote"
Replaces(c) == Promotes(c) /\ c.pc \in {"insert", "protocol"}
NewKeys(w) == Dealt(Modern(wallet[w].curve), wallet[w].pub)

\* The row and the keys of a wallet that nothing replaces belong together: one key
\* alone, a committee of either generation, or the one share of a remote committee.
OneKey(row, ks) ==
    row.threshold = 0 /\ row.protocol \in {"mnemonic", Modern(row.curve)} /\ ks = Whole(row.protocol, row.pub)
Committee(row, ks) ==
    /\ row.threshold = 1
    /\ \/ row.protocol = Modern(row.curve) /\ ks = Dealt(row.protocol, row.pub)
       \/ row.protocol = (IF row.curve = "ed25519" THEN "eddsa" ELSE "gg18") /\ ks = Dealt("", row.pub)
Settled(row, ks) == OneKey(row, ks) \/ Committee(row, ks) \/ \E k \in ks : ~k.local

\* What a promotion does not use, and what it wrote and has still to write.
Blank(c) == c.acct = None /\ c.id = None /\ c.out = None /\ c.row \in WalletRows \cup {None}
Replaced(c) ==
    /\ c.pc = "insert" => c.ks = NewKeys(c.w) /\ keys[c.w] \subseteq c.ks
    /\ c.pc = "protocol" => keys[c.w] = NewKeys(c.w)

WholeInv ==
    /\ \A w \in Wallets : wallet[w] # None =>
           \/ w \in torn \/ Settled(wallet[w], keys[w])
           \/ \E j \in Jobs : Replaces(job[j]) /\ job[j].w = w
    /\ \A j \in Jobs : Promotes(job[j]) => Replaced(job[j]) /\ Blank(job[j])
    /\ \A j, k \in Jobs : Promotes(job[j]) /\ Promotes(job[k]) /\ job[j].w = job[k].w => j = k

-----------------------------------------------------------------------------
\* A call goes on, begins or ends while no promotion is replacing keys in it.
LEMMA OtherTurns ==
    ASSUME KeyInv, WholeInv, UNCHANGED <<wallet, keys, torn>>, NEW j \in Jobs, NEW d,
           job' = [job EXCEPT ![j] = d], ~Replaces(job[j]), ~Replaces(d),
           Promotes(d) => Blank(d) /\ ((Promotes(job[j]) /\ d.w = job[j].w) \/ ~Promoting(d.w))
    PROVE  WholeInv'
<1>0. PICK jobs : jobs = job'
  OBVIOUS
<1>1. \A k \in Jobs : jobs[k] = IF k = j THEN d ELSE job[k]
  BY <1>0 DEF KeyInv
<1>2. \A w \in Wallets : wallet'[w] # None =>
          \/ w \in torn' \/ Settled(wallet'[w], keys'[w])
          \/ \E k \in Jobs : Replaces(jobs[k]) /\ jobs[k].w = w
  <2>1. SUFFICES ASSUME NEW w \in Wallets, NEW k \in Jobs, Replaces(job[k]), job[k].w = w
                 PROVE  Replaces(jobs[k]) /\ jobs[k].w = w
    BY DEF WholeInv
  <2> QED
    BY <1>1, <2>1
<1>3. ASSUME NEW k \in Jobs, Promotes(jobs[k]) PROVE Replaced(jobs[k])' /\ Blank(jobs[k])
  <2>1. CASE k = j
    BY <1>1, <1>3, <2>1 DEF Replaced, Replaces
  <2>2. CASE k # j
    <3>1. PICK c : c = job[k]
      OBVIOUS
    <3>2. Replaced(c) /\ Blank(c) /\ jobs[k] = c
      BY <1>1, <1>3, <2>2, <3>1 DEF WholeInv
    <3>3. Replaced(c)'
      BY <3>2 DEF Replaced, NewKeys
    <3> QED
      BY <3>2, <3>3
  <2> QED
    BY <2>1, <2>2
<1>4. \A k, l \in Jobs : Promotes(jobs[k]) /\ Promotes(jobs[l]) /\ jobs[k].w = jobs[l].w => k = l
  <2>1. \A k \in Jobs : k # j /\ Promotes(d) => ~(Promotes(job[k]) /\ job[k].w = d.w)
    BY DEF WholeInv, Promoting, Promotes
  <2> QED
    BY <1>1, <2>1 DEF WholeInv
<1> QED
  BY <1>0, <1>2, <1>3, <1>4 DEF WholeInv

\* A step that makes no wallet and is no promotion's.
LEMMA OthersWhole ==
    ASSUME KeyInv, WholeInv, NEW j \in Jobs,
           \/ FetchRow(j) \/ FetchKeys(j) \/ Derive(j) \/ Restore(j) \/ Export(j) \/ Return(j)
           \/ \E w \in Wallets : BeginExport(j, w) \/ BeginPromote(j, w)
           \/ \E w \in Wallets, c \in Chains, i \in {0, 1} : BeginCreate(j, w, c, i)
           \/ \E a \in Accounts : BeginSign(j, a) \/ BeginRestore(j, a) \/ InsertAccount(j, a)
           \/ job[j] # None /\ \E U \in SUBSET job[j].ks, spend \in BOOLEAN : Sign(j, U, spend)
    PROVE  WholeInv'
<1>1. UNCHANGED <<wallet, keys, torn>>
  BY DEF FetchRow, FetchKeys, Derive, Restore, Export, Return, BeginExport, BeginPromote, BeginCreate, BeginSign,
         BeginRestore, InsertAccount, Sign
<1>2. PICK c : c = job[j]
  OBVIOUS
<1>3. c # None => c \in Shape(c)
  BY <1>2 DEF KeyInv, JobOK
<1>4. ASSUME NEW d, job' = [job EXCEPT ![j] = d], ~Replaces(c), ~Replaces(d),
             Promotes(d) => Blank(d) /\ ((Promotes(c) /\ d.w = c.w) \/ ~Promoting(d.w))
      PROVE  WholeInv'
  BY <1>1, <1>2, <1>4, OtherTurns
<1>5. CASE Ends(j) /\ ~Replaces(c)
  BY <1>4, <1>5 DEF Ends, Promotes, Replaces
<1>6. CASE FetchRow(j)
  <2> DEFINE d == [c EXCEPT !.row = wallet[c.w], !.pc = "keys"]
  <2>1. c # None /\ c.pc = "row" /\ job' = [job EXCEPT ![j] = d]
    BY <1>2, <1>6 DEF FetchRow, KeyInv
  <2>2. /\ d.op = c.op /\ d.pc = "keys" /\ d.w = c.w /\ d.acct = c.acct /\ d.id = c.id /\ d.out = c.out
        /\ d.row = wallet[c.w]
    BY <1>3, <2>1 DEF Shape
  <2>3. d.row \in WalletRows
    BY <1>2, <2>1, <2>2, ShapeOfCall DEF WalletOK
  <2> HIDE DEF d
  <2>4. Promotes(c) => Blank(d)
    BY <1>2, <2>2, <2>3 DEF WholeInv, Blank
  <2> QED
    BY <1>4, <2>1, <2>2, <2>4 DEF Replaces, Promotes
<1>7. CASE FetchKeys(j)
  <2>1. PICK mn, pc : /\ pc = (IF FetchesAgain(c, mn) THEN "row" ELSE "act")
                      /\ job' = [job EXCEPT ![j] = [c EXCEPT !.ks = keys[c.w], !.mnemonic = mn, !.fetch = 2, !.pc = pc]]
    BY <1>2, <1>7 DEF FetchKeys, KeyInv
  <2> DEFINE d == [c EXCEPT !.ks = keys[c.w], !.mnemonic = mn, !.fetch = 2, !.pc = pc]
  <2>2. c # None /\ c.pc = "keys" /\ pc \in {"row", "act"}
    BY <1>2, <1>7, <2>1 DEF FetchKeys
  <2>3. /\ d.op = c.op /\ d.pc = pc /\ d.w = c.w /\ d.acct = c.acct /\ d.id = c.id /\ d.out = c.out
        /\ d.row = c.row
    BY <1>3, <2>2 DEF Shape
  <2>4. job' = [job EXCEPT ![j] = d]
    BY <2>1
  <2> HIDE DEF d
  <2>5. Promotes(c) => Blank(d)
    BY <1>2, <2>3 DEF WholeInv, Blank
  <2> QED
    BY <1>4, <2>2, <2>3, <2>4, <2>5 DEF Replaces, Promotes
<1>8. ASSUME NEW op \in {"create", "restore"}, At(j, op, "act"), NEW x,
             job' = [job EXCEPT ![j].acct = x, ![j].pc = "persist"]
      PROVE  WholeInv'
  <2> DEFINE d == [c EXCEPT !.acct = x, !.pc = "persist"]
  <2>1. c # None /\ c.op = op /\ c.pc = "act" /\ job' = [job EXCEPT ![j] = d]
    BY <1>2, <1>8 DEF At, KeyInv
  <2>2. d.op = op /\ d.pc = "persist" /\ d.w = c.w
    BY <1>3, <2>1 DEF Shape
  <2> HIDE DEF d
  <2> QED
    BY <1>4, <2>1, <2>2 DEF Replaces, Promotes
<1>9. CASE Derive(j) \/ Restore(j)
  <2>1. PICK op \in {"create", "restore"} : At(j, op, "act")
    BY <1>9 DEF Derive, Restore
  <2>2. ~Replaces(c)
    BY <1>2, <2>1 DEF At, Replaces
  <2>3. Ends(j) \/ \E x : job' = [job EXCEPT ![j].acct = x, ![j].pc = "persist"]
    BY <1>9 DEF Derive, Restore
  <2> QED
    BY <1>5, <1>8, <2>1, <2>2, <2>3
<1>10. ASSUME NEW op \in {"sign", "export"}, At(j, op, "act"), NEW out, Answers(j, out)
       PROVE  WholeInv'
  <2> DEFINE d == [c EXCEPT !.out = out, !.pc = "answered"]
  <2>1. c # None /\ c.op = op /\ c.pc = "act" /\ job' = [job EXCEPT ![j] = d]
    BY <1>2, <1>10 DEF At, Answers, KeyInv
  <2>2. d.op = op /\ d.pc = "answered" /\ d.w = c.w
    BY <1>3, <2>1 DEF Shape
  <2> HIDE DEF d
  <2> QED
    BY <1>4, <2>1, <2>2 DEF Replaces, Promotes
<1>11. CASE Export(j)
  BY <1>2, <1>5, <1>10, <1>11 DEF Export, At, Replaces
<1>12. CASE Return(j)
  BY <1>2, <1>5, <1>12 DEF Return, Replaces
<1>13. CASE job[j] # None /\ \E U \in SUBSET job[j].ks, spend \in BOOLEAN : Sign(j, U, spend)
  BY <1>2, <1>5, <1>10, <1>13 DEF Sign, At, Replaces
<1>14. ASSUME NEW a \in Accounts, InsertAccount(j, a) PROVE WholeInv'
  BY <1>2, <1>5, <1>14 DEF InsertAccount, Replaces
<1>15. ASSUME NEW d, Call(j, d), d.pc = "row", d.op = "promote" => Blank(d) /\ ~Promoting(d.w) PROVE WholeInv'
  BY <1>2, <1>4, <1>15 DEF Call, Replaces, Promotes
<1>16. ASSUME NEW w, NEW op, Call(j, Keyless(op, w)), op = "promote" => ~Promoting(w) PROVE WholeInv'
  <2>1. Keyless(op, w).pc = "row" /\ Keyless(op, w).op = op /\ Keyless(op, w).w = w /\ Blank(Keyless(op, w))
    BY DEF Keyless, Blank
  <2> QED
    BY <1>15, <1>16, <2>1
<1>17. CASE \E w \in Wallets : BeginExport(j, w) \/ BeginPromote(j, w)
  BY <1>16, <1>17 DEF BeginExport, BeginPromote
<1>18. ASSUME NEW w, NEW x, Call(j, [Keyless("create", w) EXCEPT !.acct = x]) PROVE WholeInv'
  <2> DEFINE d == [Keyless("create", w) EXCEPT !.acct = x]
  <2>1. d.pc = "row" /\ d.op = "create"
    BY DEF Keyless
  <2>2. Call(j, d)
    BY <1>18
  <2> HIDE DEF d
  <2> QED
    BY <1>15, <2>1, <2>2
<1>19. ASSUME NEW w, NEW x, Call(j, [Keyless("sign", w) EXCEPT !.acct = x]) PROVE WholeInv'
  <2> DEFINE d == [Keyless("sign", w) EXCEPT !.acct = x]
  <2>1. d.pc = "row" /\ d.op = "sign"
    BY DEF Keyless
  <2>2. Call(j, d)
    BY <1>19
  <2> HIDE DEF d
  <2> QED
    BY <1>15, <2>1, <2>2
<1>20. ASSUME NEW w, NEW x, Call(j, [Keyless("restore", w) EXCEPT !.id = x]) PROVE WholeInv'
  <2> DEFINE d == [Keyless("restore", w) EXCEPT !.id = x]
  <2>1. d.pc = "row" /\ d.op = "restore"
    BY DEF Keyless
  <2>2. Call(j, d)
    BY <1>20
  <2> HIDE DEF d
  <2> QED
    BY <1>15, <2>1, <2>2
<1>21. ASSUME NEW w \in Wallets, NEW c2 \in Chains, NEW i \in {0, 1}, BeginCreate(j, w, c2, i) PROVE WholeInv'
  BY <1>18, <1>21 DEF BeginCreate
<1>22. ASSUME NEW a \in Accounts, BeginSign(j, a) \/ BeginRestore(j, a) PROVE WholeInv'
  BY <1>19, <1>20, <1>22 DEF BeginSign, BeginRestore
<1> QED
  BY <1>6, <1>7, <1>9, <1>11, <1>12, <1>13, <1>14, <1>17, <1>21, <1>22

-----------------------------------------------------------------------------
\* A wallet is made.
LEMMA NewWhole ==
    ASSUME KeyInv, WholeInv, NEW w \in Wallets, NEW row, NEW ks, NewWallet(w, row, ks), Settled(row, ks)
    PROVE  WholeInv'
<1>0. PICK jobs : jobs = job
  OBVIOUS
<1>1. wallet[w] = None /\ UNCHANGED <<job, torn>>
  BY DEF NewWallet
<1>2. \A v \in Wallets : wallet'[v] = (IF v = w THEN row ELSE wallet[v]) /\ keys'[v] = (IF v = w THEN ks ELSE keys[v])
  BY DEF NewWallet, KeyInv
<1>3. \A v \in Wallets : wallet'[v] # None =>
          \/ v \in torn' \/ Settled(wallet'[v], keys'[v])
          \/ \E j \in Jobs : Replaces(jobs[j]) /\ jobs[j].w = v
  BY <1>0, <1>1, <1>2 DEF WholeInv
<1>4. ASSUME NEW j \in Jobs, Promotes(jobs[j]) PROVE Replaced(jobs[j])' /\ Blank(jobs[j])
  <2>1. PICK c : c = jobs[j]
    OBVIOUS
  <2>2. c # None /\ JobOK(c) /\ Replaced(c) /\ Blank(c)
    BY <1>0, <1>1, <1>4, <2>1 DEF KeyInv, WholeInv, Promotes
  <2>3. c.w \in Wallets /\ c.w # w
    BY <1>1, <2>2 DEF JobOK, Shape
  <2>4. Replaced(c)'
    BY <1>2, <2>2, <2>3 DEF Replaced, NewKeys
  <2> QED
    BY <2>1, <2>2, <2>4
<1> QED
  BY <1>0, <1>1, <1>3, <1>4 DEF WholeInv

LEMMA MadeWhole ==
    ASSUME KeyInv, WholeInv, NEW w \in Wallets,
           \/ \E c \in Curves : CreateWallet(w, c) \/ ImportScalar(w, c) \/ ImportMnemonic(w, c)
           \/ CreateEddsaLegacy(w) \/ CreateEcdsaLegacy(w) \/ PersistAgentKeygen(w)
           \/ \E v \in Wallets, i \in {0, 1} : PromoteMnemonic(v, w, i)
    PROVE  WholeInv'
<1>1. ASSUME NEW curve, NEW pub PROVE Settled(Row(curve, Modern(curve), 1, pub), Dealt(Modern(curve), pub))
  <2>1. PICK row : row = Row(curve, Modern(curve), 1, pub)
    OBVIOUS
  <2>2. row.threshold = 1 /\ row.curve = curve /\ row.protocol = Modern(curve) /\ row.pub = pub
    BY <2>1 DEF Row
  <2> QED
    BY <2>1, <2>2 DEF Settled, Committee
<1>3. ASSUME NEW curve, NEW pub, NEW protocol \in {"mnemonic", Modern(curve)}
      PROVE  Settled(Row(curve, protocol, 0, pub), Whole(protocol, pub))
  <2>1. PICK row : row = Row(curve, protocol, 0, pub)
    OBVIOUS
  <2>2. row.threshold = 0 /\ row.curve = curve /\ row.protocol = protocol /\ row.pub = pub
    BY <2>1 DEF Row
  <2> QED
    BY <2>1, <2>2 DEF Settled, OneKey
<1>4. ASSUME NEW curve, NEW pub, NEW protocol, protocol = (IF curve = "ed25519" THEN "eddsa" ELSE "gg18")
      PROVE  Settled(Row(curve, protocol, 1, pub), Dealt("", pub))
  <2>1. PICK row : row = Row(curve, protocol, 1, pub)
    OBVIOUS
  <2>2. row.threshold = 1 /\ row.curve = curve /\ row.protocol = protocol /\ row.pub = pub
    BY <2>1 DEF Row
  <2> QED
    BY <1>4, <2>1, <2>2 DEF Settled, Committee
<1>6. \A row, pub : Settled(row, {Share(0, "frost", pub, 1, FALSE, FALSE)})
  BY DEF Settled, Share
<1>7. Modern("secp256k1") = "dkls23"
  BY DEF Modern
<1>8. ASSUME NEW c \in Curves, CreateWallet(w, c) \/ ImportScalar(w, c) \/ ImportMnemonic(w, c) PROVE WholeInv'
  <2>1. "mnemonic" \in {"mnemonic", Modern(c)} /\ Modern(c) \in {"mnemonic", Modern(c)}
    OBVIOUS
  <2>2. CASE CreateWallet(w, c)
    BY <1>1, <2>2, NewWhole DEF CreateWallet
  <2>3. CASE ImportScalar(w, c)
    BY <1>3, <2>1, <2>3, NewWhole DEF ImportScalar
  <2>4. CASE ImportMnemonic(w, c)
    BY <1>3, <2>1, <2>4, NewWhole DEF ImportMnemonic
  <2> QED
    BY <1>8, <2>2, <2>3, <2>4
<1>9. CASE CreateEddsaLegacy(w) \/ CreateEcdsaLegacy(w) \/ PersistAgentKeygen(w)
  BY <1>4, <1>6, <1>9, NewWhole DEF CreateEddsaLegacy, CreateEcdsaLegacy, PersistAgentKeygen
<1>10. ASSUME NEW v \in Wallets, NEW i \in {0, 1}, PromoteMnemonic(v, w, i) PROVE WholeInv'
  <2>1. PICK root : NewWallet(w, Row("secp256k1", "dkls23", 1, root), Dealt("dkls23", root))
    BY <1>10 DEF PromoteMnemonic
  <2> QED
    BY <1>1, <1>7, <2>1, NewWhole
<1> QED
  BY <1>8, <1>9, <1>10

-----------------------------------------------------------------------------
\* A promotion's statement about its wallet, w: of the others nothing changes.
LEMMA PromotionTurns ==
    ASSUME KeyInv, WholeInv, torn' = torn, NEW j \in Jobs, Promotes(job[j]), NEW d,
           job' = [job EXCEPT ![j] = d], d = None \/ (Replaces(d) /\ d.w = job[j].w /\ Replaced(d)' /\ Blank(d)),
           \A v \in Wallets : v # job[j].w => wallet'[v] = wallet[v] /\ keys'[v] = keys[v],
           d = None => Settled(wallet'[job[j].w], keys'[job[j].w]),
           \A v \in Wallets : wallet'[v] # None => wallet[v] # None
    PROVE  WholeInv'
<1>0. PICK jobs : jobs = job'
  OBVIOUS
<1>1. \A k \in Jobs : jobs[k] = IF k = j THEN d ELSE job[k]
  BY <1>0 DEF KeyInv
<1>2. ASSUME NEW v \in Wallets, wallet'[v] # None
      PROVE  \/ v \in torn' \/ Settled(wallet'[v], keys'[v])
             \/ \E k \in Jobs : Replaces(jobs[k]) /\ jobs[k].w = v
  <2>1. CASE v = job[j].w
    BY <1>1, <2>1
  <2>2. CASE v # job[j].w
    BY <1>1, <1>2, <2>2 DEF WholeInv
  <2> QED
    BY <2>1, <2>2
<1>3. ASSUME NEW k \in Jobs, Promotes(jobs[k]) PROVE Replaced(jobs[k])' /\ Blank(jobs[k])
  <2>1. CASE k = j
    BY <1>1, <1>3, <2>1 DEF Promotes
  <2>2. CASE k # j
    <3>1. PICK c : c = job[k]
      OBVIOUS
    <3>2. jobs[k] = c /\ c # None /\ Replaced(c) /\ Blank(c) /\ JobOK(c) /\ c.w # job[j].w
      BY <1>1, <1>3, <2>2, <3>1 DEF WholeInv, KeyInv, Promotes
    <3>3. c.w \in Wallets
      BY <3>2 DEF JobOK, Shape
    <3>4. Replaced(c)'
      BY <3>2, <3>3 DEF Replaced, NewKeys
    <3> QED
      BY <3>2, <3>4
  <2> QED
    BY <2>1, <2>2
<1>4. \A k, l \in Jobs : Promotes(jobs[k]) /\ Promotes(jobs[l]) /\ jobs[k].w = jobs[l].w => k = l
  BY <1>1 DEF WholeInv, Promotes, Replaces
<1> QED
  BY <1>0, <1>2, <1>3, <1>4 DEF WholeInv

LEMMA NewKeysTyped ==
    ASSUME KeyInv, NEW w \in Wallets, wallet[w] # None
    PROVE  /\ NewKeys(w) \subseteq Shares
           /\ \A k \in NewKeys(w) : k.idx \in 0..2
<1>1. wallet[w].pub \in PubKeys /\ Modern(wallet[w].curve) \in Protocols
  BY DEF KeyInv, WalletOK, WalletRows, Modern, Protocols
<1>2. ASSUME NEW k \in NewKeys(w) PROVE k \in Shares /\ k.idx \in 0..2
  <2>1. PICK i \in 0..2 : k = [idx |-> i, schema |-> Modern(wallet[w].curve), root |-> wallet[w].pub, t |-> 1,
                               whole |-> FALSE, local |-> TRUE]
    BY <1>2 DEF NewKeys, Dealt, Share
  <2> QED
    BY <1>1, <2>1 DEF Shares
<1> QED
  BY <1>2

\* A promotion under way is one, and not None.
LEMMA CallOfPromotion ==
    ASSUME KeyInv, NEW d, d.w \in Wallets, wallet[d.w] # None, d \in Shape(d), d.op = "promote",
           d.pc \in {"insert", "protocol"}, d.ks \subseteq NewKeys(d.w), Blank(d)
    PROVE  d # None
<1>1. d.ks \subseteq Shares
  BY NewKeysTyped
<1>2. d \in Promotions
  BY <1>1 DEF Shape, Promotions, Blank
<1> QED
  BY <1>2, NoCallAssumption

LEMMA DeleteKeysWhole == ASSUME KeyInv, WholeInv, NEW j \in Jobs, DeleteKeys(j) PROVE WholeInv'
<1>1. PICK c : c = job[j]
  OBVIOUS
<1>2. /\ c # None /\ c.pc = "act" /\ c.op = "promote" /\ UNCHANGED <<wallet, torn>>
      /\ JobOK(c) /\ c \in Shape(c) /\ c.w \in Wallets /\ wallet[c.w] # None
  BY <1>1, ShapeOfCall DEF DeleteKeys, At
<1>3. CASE ~CanPromote(c)
  BY <1>1, <1>2, <1>3, OtherTurns DEF DeleteKeys, Ends, Replaces, Promotes
<1>4. CASE CanPromote(c)
  <2> DEFINE new == Dealt(Modern(c.row.curve), Lowest(c.ks).root)
             d == [c EXCEPT !.ks = new, !.pc = "insert"]
  <2>1. keys' = [keys EXCEPT ![c.w] = {}] /\ job' = [job EXCEPT ![j] = d]
    BY <1>1, <1>4 DEF DeleteKeys, KeyInv
  <2>2. RowOK(c) /\ ReadOK(c)
    BY <1>2 DEF JobOK
  <2>3. c.ks # {}
    BY <1>4, FS_EmptySet DEF CanPromote
  <2>4. new = NewKeys(c.w)
    <3>1. Lowest(c.ks).root = wallet[c.w].pub
      BY <2>2, <2>3, LowestIn DEF ReadOK
    <3> QED
      BY <2>2, <3>1 DEF NewKeys, RowOK
  <2> HIDE DEF new
  <2>5. /\ d.ks = new /\ d.pc = "insert" /\ d.op = "promote" /\ d.w = c.w /\ d.acct = c.acct /\ d.id = c.id
        /\ d.out = c.out /\ d.row = c.row /\ d \in Shape(d)
    BY <1>2, <2>2 DEF Shape
  <2> HIDE DEF d
  <2>a. Blank(d)
    BY <1>1, <1>2, <2>5 DEF WholeInv, Promotes, Blank
  <2>6. Replaces(d)
    BY <1>2, <2>4, <2>5, <2>a, CallOfPromotion DEF Replaces, Promotes
  <2>7. \A w \in Wallets : keys'[w] = IF w = c.w THEN {} ELSE keys[w]
    BY <1>2, <2>1 DEF KeyInv
  <2>8. Replaced(d)'
    <3>1. /\ NewKeys(c.w)' = NewKeys(c.w)
          /\ NewKeys(d.w)' = NewKeys(d.w)
      BY <1>2 DEF NewKeys
    <3>2. keys'[d.w] = {} /\ d.ks = NewKeys(d.w)
      BY <1>2, <2>4, <2>5, <2>7
    <3> QED
      BY <2>5, <3>1, <3>2 DEF Replaced
  <2>9. Promotes(c) /\ d # None
    BY <1>2, <2>6 DEF Promotes, Replaces
  <2>10. \A v \in Wallets : /\ v # c.w => wallet'[v] = wallet[v] /\ keys'[v] = keys[v]
                            /\ wallet'[v] # None => wallet[v] # None
    BY <1>2, <2>7
  <2> QED
    BY <1>1, <1>2, <2>1, <2>5, <2>6, <2>8, <2>9, <2>10, <2>a, PromotionTurns
<1> QED
  BY <1>3, <1>4

\* keygen deals three shares.
LEMMA DealtOfThree ==
    ASSUME NEW schema, NEW root, NEW ks, ks = Dealt(schema, root)
    PROVE  /\ ks # {} /\ IsFiniteSet(ks) /\ Cardinality(ks) = 3
           /\ \A k \in ks : k.root = root /\ k.schema = schema /\ k.t = 1 /\ k.local /\ k.idx \in 0..2
<1>1. PICK a, b, c : /\ a = Share(0, schema, root, 1, FALSE, TRUE) /\ b = Share(1, schema, root, 1, FALSE, TRUE)
                     /\ c = Share(2, schema, root, 1, FALSE, TRUE)
  OBVIOUS
<1>2. /\ a.idx = 0 /\ b.idx = 1 /\ c.idx = 2
      /\ \A k \in {a, b, c} : k.root = root /\ k.schema = schema /\ k.t = 1 /\ k.local /\ k.idx \in 0..2
  BY <1>1 DEF Share
<1>3. ks = {a, b, c}
  BY <1>1 DEF Dealt
<1>4. IsFiniteSet(ks) /\ Cardinality(ks) = 3
  <2>1. IsFiniteSet({}) /\ Cardinality({}) = 0
    BY FS_EmptySet
  <2>2. IsFiniteSet({a}) /\ Cardinality({a}) = 1
    BY FS_Singleton
  <2>3. IsFiniteSet({a, b}) /\ Cardinality({a, b}) = 2
    <3>1. {a, b} = {a} \cup {b} /\ b \notin {a}
      BY <1>2
    <3> QED
      BY <2>2, <3>1, FS_AddElement
  <2>4. {a, b, c} = {a, b} \cup {c} /\ c \notin {a, b}
    BY <1>2
  <2> QED
    BY <1>3, <2>3, <2>4, FS_AddElement
<1> QED
  BY <1>2, <1>3, <1>4

LEMMA InsertKeyWhole == ASSUME KeyInv, WholeInv, NEW j \in Jobs, InsertKey(j) PROVE WholeInv'
<1>1. PICK c : c = job[j]
  OBVIOUS
<1>2. /\ c # None /\ c.pc = "insert" /\ c.op = "promote" /\ UNCHANGED <<wallet, torn>>
      /\ JobOK(c) /\ c \in Shape(c) /\ c.w \in Wallets /\ wallet[c.w] # None
  BY <1>1, ShapeOfCall DEF InsertKey, At
<1>3. Replaced(c) /\ Blank(c) /\ c.fetch = 2
  BY <1>1, <1>2 DEF WholeInv, Promotes, JobOK
<1>4. PICK left : left = c.ks \ keys[c.w]
  OBVIOUS
<1>5. PICK key, pc : key = Lowest(left) /\ pc = IF Cardinality(left) = 1 THEN "protocol" ELSE "insert"
  OBVIOUS
<1> DEFINE d == [c EXCEPT !.pc = pc]
<1>6. left # {} /\ keys' = [keys EXCEPT ![c.w] = @ \cup {key}] /\ job' = [job EXCEPT ![j] = d]
  BY <1>1, <1>4, <1>5 DEF InsertKey, KeyInv
<1>7. c.ks = NewKeys(c.w) /\ keys[c.w] \subseteq c.ks
  BY <1>2, <1>3 DEF Replaced
<1>8. key \in left
  <2>1. \A k \in left : k.idx \in 0..2
    BY <1>2, <1>4, <1>7, NewKeysTyped
  <2> QED
    BY <1>5, <1>6, <2>1, LowestIn
<1>9. \A w \in Wallets : keys'[w] = IF w = c.w THEN keys[w] \cup {key} ELSE keys[w]
  BY <1>2, <1>6 DEF KeyInv
<1>10. keys'[c.w] \subseteq c.ks /\ (pc = "protocol" => keys'[c.w] = c.ks)
  <2>1. keys'[c.w] = keys[c.w] \cup {key}
    BY <1>2, <1>9
  <2>2. ASSUME pc = "protocol" PROVE left = {key}
    <3>1. Cardinality(left) = 1
      BY <1>5, <2>2
    <3>2. IsFiniteSet(left)
      <4>1. IsFiniteSet(NewKeys(c.w))
        BY DealtOfThree DEF NewKeys
      <4> QED
        BY <1>4, <1>7, <4>1, FS_Subset
    <3> QED
      BY <1>8, <3>1, <3>2, FS_Singleton
  <2> QED
    BY <1>4, <1>7, <1>8, <2>1, <2>2
<1>11. pc \in {"protocol", "insert"}
  BY <1>5
<1>12. /\ d.ks = c.ks /\ d.pc = pc /\ d.op = "promote" /\ d.w = c.w /\ d.acct = c.acct /\ d.id = c.id
       /\ d.out = c.out /\ d.row = c.row /\ d \in Shape(d)
  BY <1>2, <1>3 DEF Shape
<1> HIDE DEF d
<1>13. Blank(d)
  BY <1>3, <1>12 DEF Blank
<1>14. Replaces(d)
  BY <1>2, <1>7, <1>11, <1>12, <1>13, CallOfPromotion DEF Replaces, Promotes
<1>15. Replaced(d)'
  <2>1. NewKeys(d.w)' = NewKeys(d.w) /\ d.ks = NewKeys(d.w) /\ d.w = c.w
    BY <1>2, <1>7, <1>12 DEF NewKeys
  <2> QED
    BY <1>7, <1>10, <1>12, <2>1 DEF Replaced
<1>16. Promotes(c) /\ d # None
  BY <1>2, <1>14 DEF Promotes, Replaces
<1>17. \A v \in Wallets : /\ v # c.w => wallet'[v] = wallet[v] /\ keys'[v] = keys[v]
                          /\ wallet'[v] # None => wallet[v] # None
  BY <1>2, <1>9
<1> QED
  BY <1>1, <1>2, <1>6, <1>12, <1>13, <1>14, <1>15, <1>16, <1>17, PromotionTurns

LEMMA SetProtocolWhole == ASSUME KeyInv, WholeInv, NEW j \in Jobs, SetProtocol(j) PROVE WholeInv'
<1>1. PICK w : w = job[j].w
  OBVIOUS
<1>2. /\ w \in Wallets /\ wallet[w] # None /\ WalletOK(w) /\ UNCHANGED <<keys, torn>>
      /\ job' = [job EXCEPT ![j] = None] /\ job[j] # None /\ job[j].op = "promote" /\ job[j].pc = "protocol"
      /\ wallet' = [wallet EXCEPT ![w].protocol = Modern(wallet[w].curve), ![w].threshold = 1]
  BY <1>1, ShapeOfCall DEF SetProtocol, At, Ends
<1>3. keys[w] = Dealt(Modern(wallet[w].curve), wallet[w].pub)
  BY <1>1, <1>2 DEF WholeInv, Promotes, Replaced, NewKeys
<1> DEFINE row == [wallet[w] EXCEPT !.protocol = Modern(wallet[w].curve), !.threshold = 1]
<1>4. /\ row.pub = wallet[w].pub /\ row.curve = wallet[w].curve /\ row.protocol = Modern(row.curve)
      /\ row.threshold = 1
  BY <1>2 DEF WalletOK, WalletRows
<1>5. \A v \in Wallets : wallet'[v] = IF v = w THEN row ELSE wallet[v]
  BY <1>2 DEF KeyInv
<1> HIDE DEF row
<1>6. Settled(wallet'[w], keys'[w])
  BY <1>2, <1>3, <1>4, <1>5 DEF Settled, Committee
<1> QED
  BY <1>1, <1>2, <1>5, <1>6, PromotionTurns DEF Promotes

LEMMA CrashWhole == ASSUME KeyInv, WholeInv, Crash PROVE WholeInv'
<1>1. /\ UNCHANGED <<wallet, keys>> /\ \A j \in Jobs : job'[j] = None
      /\ \A j \in Jobs : Replaces(job[j]) => job[j].w \in torn'
      /\ torn \subseteq torn'
  BY DEF Crash, Replaces, Promotes
<1> QED
  BY <1>1 DEF WholeInv, Promotes

-----------------------------------------------------------------------------
LEMMA WholePreserved == KeyInv /\ WholeInv /\ [KeyNext]_keyVars => WholeInv'
<1> SUFFICES ASSUME KeyInv, WholeInv, [KeyNext]_keyVars PROVE WholeInv'
  OBVIOUS
<1>1. ASSUME UNCHANGED <<wallet, keys, job, torn>> PROVE WholeInv'
  <2>1. PICK jobs : jobs = job
    OBVIOUS
  <2>2. \A j \in Jobs : Promotes(jobs[j]) => Replaced(jobs[j])' /\ Blank(jobs[j])
    <3>1. ASSUME NEW c, Replaced(c) PROVE Replaced(c)'
      BY <1>1, <3>1 DEF Replaced, NewKeys
    <3> QED
      BY <2>1, <3>1 DEF WholeInv
  <2> QED
    BY <1>1, <2>1, <2>2 DEF WholeInv
<1>2. CASE UNCHANGED keyVars
  BY <1>1, <1>2 DEF keyVars
<1>3. CASE \E a \in Accounts : DeleteAccount(a)
  BY <1>1, <1>3 DEF DeleteAccount
<1>4. CASE \E w \in Wallets, c \in Curves : CreateWallet(w, c) \/ ImportScalar(w, c) \/ ImportMnemonic(w, c)
  BY <1>4, MadeWhole
<1>5. CASE \E w \in Wallets : CreateEddsaLegacy(w) \/ CreateEcdsaLegacy(w) \/ PersistAgentKeygen(w)
  BY <1>5, MadeWhole
<1>6. CASE \E w, new \in Wallets, i \in {0, 1} : PromoteMnemonic(w, new, i)
  BY <1>6, MadeWhole
<1>7. ASSUME NEW j \in Jobs,
             \/ FetchRow(j) \/ FetchKeys(j) \/ Derive(j) \/ Restore(j) \/ Export(j) \/ Return(j)
             \/ DeleteKeys(j) \/ InsertKey(j) \/ SetProtocol(j)
      PROVE  WholeInv'
  BY <1>7, OthersWhole, DeleteKeysWhole, InsertKeyWhole, SetProtocolWhole
<1>8. ASSUME NEW j \in Jobs,
             \/ \E w \in Wallets : BeginExport(j, w) \/ BeginPromote(j, w)
             \/ \E w \in Wallets, c \in Chains, i \in {0, 1} : BeginCreate(j, w, c, i)
             \/ \E a \in Accounts : BeginSign(j, a) \/ BeginRestore(j, a) \/ InsertAccount(j, a)
             \/ job[j] # None /\ \E U \in SUBSET job[j].ks, spend \in BOOLEAN : Sign(j, U, spend)
      PROVE  WholeInv'
  BY <1>8, OthersWhole
<1> QED
  BY <1>2, <1>3, <1>4, <1>5, <1>6, <1>7, <1>8, CrashWhole DEF KeyNext

LEMMA WholeStart == KeyInit => WholeInv
BY DEF KeyInit, WholeInv, Promotes

LEMMA WholeAlways == KeySpec => []WholeInv
BY KeyAlways, WholeStart, WholePreserved, PTL DEF KeySpec

-----------------------------------------------------------------------------
\* What the shares of a whole wallet sign with.
LEMMA DealtSigns ==
    ASSUME NEW schema, NEW root, NEW ks, ks = Dealt(schema, root)
    PROVE  /\ Opens(ks) /\ Lowest(ks).t = 1
           /\ \A row : row.threshold = 1 => Quorum(row, ks) = {root}
<1>1. /\ ks # {} /\ \A k \in ks : k.root = root /\ k.t = 1 /\ k.local /\ k.idx \in 0..2
      /\ Cardinality(ks) = 3
  BY DealtOfThree
<1>2. Lowest(ks) \in ks
  BY <1>1, LowestIn
<1>3. ASSUME NEW row, row.threshold = 1 PROVE Quorum(row, ks) = {root}
  BY <1>1, <1>3 DEF Quorum
<1> QED
  BY <1>1, <1>2, <1>3 DEF Opens

LEMMA WholeSigns ==
    ASSUME NEW schema, NEW root, NEW ks, ks = Whole(schema, root)
    PROVE  \E k : /\ ks = {k} /\ k.root = root /\ k.schema = schema /\ k.whole /\ k.t = 0
                  /\ Opens(ks) /\ Lowest(ks) = k /\ Cardinality(ks) = 1
<1>1. PICK k : k = Share(0, schema, root, 0, TRUE, TRUE)
  OBVIOUS
<1>2. k.root = root /\ k.schema = schema /\ k.whole /\ k.t = 0 /\ k.local /\ k.idx = 0
  BY <1>1 DEF Share
<1>3. ks = {k}
  BY <1>1 DEF Whole
<1>4. Lowest(ks) \in ks
  BY <1>2, <1>3, LowestIn
<1> QED
  BY <1>2, <1>3, <1>4, FS_Singleton DEF Opens

\* An account of a phrase that is there signs, and so does one of the group key.
LEMMA SeedSigns ==
    ASSUME KeyInv, NEW x, AccountOK(x), SeedOK(x), ~Raw(x.wallet), OneKey(wallet[x.wallet], keys[x.wallet])
    PROVE  SignsAgain(x)
<1>1. PICK w, ks, row, p : w = x.wallet /\ ks = keys[w] /\ row = wallet[w] /\ p = row.pub
  OBVIOUS
<1>2. /\ w \in Wallets /\ p \in PubKeys /\ x.path \in PubKeys /\ x.il = <<>> /\ x.pub = p \o x.path
      /\ row.curve = CurveOf(x.chain) /\ x.chain \in Chains /\ Mnemonic(ks)
  BY <1>1 DEF AccountOK, AccountRows, SeedOK, Raw, KeyInv, WalletOK, WalletRows
<1>3. row.protocol = "mnemonic" /\ row.threshold = 0 /\ ks = Whole("mnemonic", p)
  <2>1. row.threshold = 0 /\ ks = Whole(row.protocol, p)
    BY <1>1 DEF OneKey
  <2> QED
    BY <1>2, <2>1, SharesShaped
<1>4. PICK k : /\ ks = {k} /\ k.root = p /\ k.schema = "mnemonic" /\ k.t = 0
               /\ Opens(ks) /\ Lowest(ks) = k /\ Cardinality(ks) = 1
  BY <1>3, WholeSigns
<1>5. SeedKey(k, x) = x.pub /\ DklsKey(k, x) = x.pub
  BY <1>2, <1>4, PathsTyped DEF SeedKey, DklsKey
<1>6. Verified({x.pub}, x.pub) = {x.pub}
  BY DEF Verified
<1>7. \A spend \in BOOLEAN : Signatures(row, ks, ks, x, SignsAsMnemonic(row, ks), spend) = {x.pub}
  <2>1. CASE x.chain = "solana"
    <3>1. SignsAsMnemonic(row, ks)
      BY <1>2, <2>1 DEF SignsAsMnemonic, CurveOf
    <3>2. SignSeed(ks, x) = {x.pub}
      BY <1>4, <1>5, <1>6 DEF SignSeed
    <3> QED
      BY <1>4, <2>1, <3>1, <3>2 DEF Signatures
  <2>2. CASE x.chain # "solana"
    <3>1. SignDigest(row, ks, ks, x) = {x.pub}
      <4>1. row.curve = "secp256k1"
        BY <1>2, <2>2 DEF CurveOf
      <4>2. {l \in ks : Cardinality(ks) >= Lowest(ks).t + 1} = {k}
        BY <1>4
      <4>3. SignDigest(row, ks, ks, x) = {DklsKey(l, x) : l \in {k}}
        BY <1>2, <1>3, <4>1, <4>2 DEF SignDigest
      <4> QED
        BY <1>5, <4>3
    <3> QED
      BY <1>4, <1>6, <2>2, <3>1 DEF Signatures, SignSecp
  <2> QED
    BY <2>1, <2>2
<1> QED
  BY <1>1, <1>3, <1>7 DEF SignsAgain

LEMMA DerivedSigns ==
    ASSUME KeyInv, NEW x, AccountOK(x), DerivedOK(x),
           OneKey(wallet[x.wallet], keys[x.wallet]) \/ Committee(wallet[x.wallet], keys[x.wallet])
    PROVE  SignsAgain(x) \/ Stranded(x)
<1>1. PICK w, ks, row, p : w = x.wallet /\ ks = keys[w] /\ row = wallet[w] /\ p = row.pub
  OBVIOUS
<1>2. /\ w \in Wallets /\ p \in PubKeys /\ x.path \in PubKeys /\ x.il = x.path /\ x.pub = p \o x.il
      /\ row.curve = CurveOf(x.chain) /\ x.chain \in Chains /\ ~Mnemonic(ks)
  BY <1>1 DEF AccountOK, AccountRows, DerivedOK, Raw, KeyInv, WalletOK, WalletRows
<1>3. Verified({x.pub}, x.pub) = {x.pub} /\ Verified({p}, p) = {p} /\ p \o <<>> = p
  BY <1>2, PathsTyped DEF Verified
<1>4. SignsAsMnemonic(row, ks) = FALSE
  BY <1>2 DEF SignsAsMnemonic
\* On Solana, with the shares all that sign: FROST or, for the group key alone, EdDSA.
<1>5. ASSUME x.chain = "solana", NEW all, Opens(all),
             \/ row.protocol = "frost" /\ \A il : FrostSign(row, all, il) = {p \o il}
             \/ row.protocol = "eddsa" /\ x.il = <<>> /\ EddsaSign(row, all) = {p}
      PROVE  \A spend \in BOOLEAN : Signatures(row, ks, all, x, SignsAsMnemonic(row, ks), spend) = {x.pub}
  <2>1. CASE x.il = <<>>
    <3>1. SignGroup(row, ks, all) = {p}
      BY <1>1, <1>2, <1>3, <1>5 DEF SignGroup
    <3> QED
      BY <1>2, <1>3, <1>4, <1>5, <2>1, <3>1 DEF Signatures
  <2>2. CASE x.il # <<>>
    <3>1. SignTweaked(row, all, x) = {x.pub}
      BY <1>2, <1>3, <1>5, <2>2 DEF SignTweaked
    <3> QED
      BY <1>4, <1>5, <2>2, <3>1 DEF Signatures
  <2> QED
    BY <2>1, <2>2
<1>6. ASSUME x.chain # "solana", Opens(ks), SignDigest(row, ks, ks, x) = {x.pub}
      PROVE  \A spend \in BOOLEAN : Signatures(row, ks, ks, x, SignsAsMnemonic(row, ks), spend) = {x.pub}
  BY <1>3, <1>6 DEF Signatures, SignSecp
<1>7. CASE OneKey(row, ks)
  <2>1. row.protocol = Modern(row.curve) /\ row.threshold = 0 /\ ks = Whole(row.protocol, p)
    <3>1. row.protocol # "mnemonic"
      <4>1. SUFFICES ASSUME row.protocol = "mnemonic" PROVE Mnemonic(ks)
        BY <1>2
      <4>2. \E k \in ks : k.schema = "mnemonic"
        BY <1>1, <1>7, <4>1, WholeSigns DEF OneKey
      <4> QED
        BY <4>2 DEF Mnemonic
    <3> QED
      BY <1>1, <1>7, <3>1 DEF OneKey
  <2>2. PICK k : /\ ks = {k} /\ k.root = p /\ k.schema = row.protocol /\ k.whole /\ k.t = 0
                 /\ Opens(ks) /\ Lowest(ks) = k /\ Cardinality(ks) = 1
    BY <2>1, WholeSigns
  <2>3. CASE x.chain = "solana"
    <3>1. row.protocol = "frost"
      BY <1>2, <2>1, <2>3 DEF CurveOf, Modern
    <3>2. \A il : FrostSign(row, ks, il) = {p \o il}
      BY <2>1, <2>2 DEF FrostSign
    <3>3. \A spend \in BOOLEAN : Signatures(row, ks, ks, x, SignsAsMnemonic(row, ks), spend) = {x.pub}
      BY <1>5, <2>2, <2>3, <3>1, <3>2
    <3>4. {Lowest(ks)} = ks
      BY <2>2
    <3> QED
      BY <1>1, <3>3, <3>4 DEF SignsAgain
  <2>4. CASE x.chain # "solana"
    <3>1. row.protocol = "dkls23"
      BY <1>2, <2>1, <2>4 DEF CurveOf, Modern
    <3>2. DklsKey(k, x) = x.pub
      BY <1>2, <2>2, <3>1 DEF DklsKey, Tweaked
    <3>3. {l \in ks : Cardinality(ks) >= Lowest(ks).t + 1} = {k}
      BY <2>2
    <3>4. SignDigest(row, ks, ks, x) = {DklsKey(l, x) : l \in {k}}
      BY <3>1, <3>3 DEF SignDigest
    <3>5. SignDigest(row, ks, ks, x) = {x.pub}
      BY <3>2, <3>4
    <3> QED
      BY <1>1, <1>6, <2>2, <2>4, <3>1, <3>5 DEF SignsAgain
  <2> QED
    BY <2>3, <2>4
<1>8. ASSUME NEW schema, row.threshold = 1, ks = Dealt(schema, p), schema # "mnemonic",
             \/ row.protocol = Modern(row.curve)
             \/ row.protocol = (IF row.curve = "ed25519" THEN "eddsa" ELSE "gg18")
      PROVE  SignsAgain(x) \/ Stranded(x)
  <2>1. /\ ks # {} /\ Opens(ks) /\ Cardinality(ks) = 3 /\ Quorum(row, ks) = {p} /\ Lowest(ks).t = 1
        /\ \A k \in ks : k.root = p /\ k.schema = schema
    <3>1. ks = Dealt(schema, p)
      BY <1>8
    <3>2. ks # {} /\ Cardinality(ks) = 3 /\ \A k \in ks : k.root = p /\ k.schema = schema
      BY <3>1, DealtOfThree
    <3>3. Opens(ks) /\ Lowest(ks).t = 1 /\ Quorum(row, ks) = {p}
      BY <1>8, <3>1, DealtSigns
    <3> QED
      BY <3>2, <3>3
  <2>2. SUFFICES ASSUME ~Stranded(x) PROVE \A spend \in BOOLEAN : Signatures(row, ks, ks, x, SignsAsMnemonic(row, ks), spend) = {x.pub}
    BY <1>1, <1>8 DEF SignsAgain
  <2>3. CASE x.chain = "solana"
    <3>1. row.protocol \in {"frost", "eddsa"}
      BY <1>2, <1>8, <2>3 DEF CurveOf, Modern
    <3>2. CASE row.protocol = "frost"
      <4>1. \A il : FrostSign(row, ks, il) = {p \o il}
        BY <1>8, <2>1 DEF FrostSign
      <4> QED
        BY <1>5, <2>1, <2>3, <3>2, <4>1
    <3>3. CASE row.protocol = "eddsa"
      <4>1. x.il = <<>> /\ EddsaSign(row, ks) = {p}
        BY <1>1, <2>1, <2>2, <3>3 DEF Stranded, EddsaSign
      <4> QED
        BY <1>5, <2>1, <2>3, <3>3, <4>1
    <3> QED
      BY <3>1, <3>2, <3>3
  <2>4. CASE x.chain # "solana"
    <3>1. row.protocol \in {"dkls23", "gg18"}
      BY <1>2, <1>8, <2>4 DEF CurveOf, Modern
    <3>2. SignDigest(row, ks, ks, x) = {x.pub}
      <4>1. CASE row.protocol = "gg18"
        BY <1>2, <2>1, <4>1 DEF SignDigest, EcdsaSign
      <4>2. CASE row.protocol = "dkls23"
        <5>1. \A k \in ks : DklsKey(k, x) = x.pub
          BY <1>2, <1>8, <2>1 DEF DklsKey, Tweaked
        <5>2. {k \in ks : Cardinality(ks) >= Lowest(ks).t + 1} = ks
          BY <2>1
        <5>3. SignDigest(row, ks, ks, x) = {DklsKey(k, x) : k \in ks}
          BY <4>2, <5>2 DEF SignDigest
        <5> QED
          BY <2>1, <5>1, <5>3
      <4> QED
        BY <3>1, <4>1, <4>2
    <3> QED
      BY <1>6, <2>1, <2>4, <3>2
  <2> QED
    BY <2>3, <2>4
<1>9. CASE Committee(row, ks)
  <2>1. row.threshold = 1 /\ Modern(row.curve) # "mnemonic" /\ "" # "mnemonic"
    BY <1>9 DEF Committee, Modern
  <2>2. CASE row.protocol = Modern(row.curve) /\ ks = Dealt(row.protocol, p)
    BY <1>8, <2>1, <2>2
  <2>3. CASE row.protocol = (IF row.curve = "ed25519" THEN "eddsa" ELSE "gg18") /\ ks = Dealt("", p)
    BY <1>8, <2>1, <2>3
  <2> QED
    BY <1>1, <1>9, <2>2, <2>3 DEF Committee
<1> QED
  BY <1>1, <1>7, <1>9

LEMMA InvCanSign == KeyInv /\ WholeInv => AccountsCanSign
<1> SUFFICES ASSUME KeyInv, WholeInv, NEW a \in Accounts, account[a] # None,
                    ~Promoting(account[a].wallet), account[a].wallet \notin torn,
                    \A k \in keys[account[a].wallet] : k.local
             PROVE  Stranded(account[a]) \/ SignsAgain(account[a])
  BY DEF AccountsCanSign
<1>1. PICK x, w : x = account[a] /\ w = x.wallet
  OBVIOUS
<1>2. AccountOK(x) /\ w \in Wallets /\ wallet[w] # None
  BY <1>1 DEF KeyInv, AccountOK, AccountRows
<1>3. Settled(wallet[w], keys[w])
  BY <1>1, <1>2 DEF WholeInv, Promoting, Replaces, Promotes
<1>4. OneKey(wallet[w], keys[w]) \/ Committee(wallet[w], keys[w])
  BY <1>1, <1>3 DEF Settled
<1>5. CASE DerivedOK(x)
  BY <1>1, <1>2, <1>4, <1>5, DerivedSigns
<1>6. CASE SeedOK(x) /\ Raw(w)
  <2>1. x.path # <<>>
    BY <1>2, <1>6, PathsTyped DEF AccountOK, AccountRows, SeedOK
  <2> QED
    BY <1>1, <1>6, <2>1 DEF Stranded, FromSeed, SeedOK, Raw
<1>7. CASE SeedOK(x) /\ ~Raw(w)
  <2>1. ~Committee(wallet[w], keys[w])
    <3>1. SUFFICES ASSUME Committee(wallet[w], keys[w]) PROVE Raw(w)
      BY <1>7
    <3>2. PICK row, ks, root : row = wallet[w] /\ ks = keys[w] /\ root = row.pub
      OBVIOUS
    <3>3. \E schema : schema # "mnemonic" /\ ks = Dealt(schema, root)
      BY <3>1, <3>2 DEF Committee, Modern
    <3>4. PICK schema : schema # "mnemonic" /\ ks = Dealt(schema, root)
      BY <3>3
    <3>5. ~Mnemonic(ks)
      <4>1. ks = Dealt(schema, root)
        BY <3>4
      <4>2. \A k \in ks : k.schema = schema
        BY <4>1, DealtOfThree
      <4> QED
        BY <3>4, <4>2 DEF Mnemonic
    <3> QED
      BY <3>2, <3>5 DEF Raw
  <2> QED
    BY <1>1, <1>2, <1>4, <1>7, <2>1, SeedSigns
<1> QED
  BY <1>2, <1>5, <1>6, <1>7 DEF AccountOK

\* Every account of a wallet whose promotions were finished can sign when all its
\* shares are unlocked, but for those of a phrase that was promoted and the further
\* ones of a legacy ed25519 wallet: whatever is promoted, in whatever order the host
\* makes, deletes and restores accounts while a promotion runs (Wallet:promote).
THEOREM AccountsKeepSigning == KeySpec => []AccountsCanSign
BY KeyAlways, WholeAlways, InvCanSign, PTL

-----------------------------------------------------------------------------
(* TransferPlan. The node moves between what a call reads. PlanInv says     *)
(* that what a call holds, what the host was told and what was sent is true *)
(* of the node as it is now, as long as it is fresh; the two properties     *)
(* then follow from the arithmetic of one state of the node.                *)

Ops == {"max", "validate", "simulate", "send", "broadcast"}

\* What a call holds: what it read is true as long as the node has not moved.
AskGood(x) == x # Nothing =>
    /\ x \in [op : Ops, req : Requests, coins : 0..MaxBalance, fresh : BOOLEAN, plan : {x.plan}]
    /\ x.op \in {"max", "validate", "simulate"} => x.req.api = "transaction"
    /\ x.op \in {"validate", "simulate"} => x.req.asset # "swap"
    /\ x.fresh => x.coins = node.coins
    /\ x.fresh /\ x.op = "broadcast" => x.plan \in Plans(x.req, node.coins, node)

\* The maximum of a request, and what previews of it say.
MaxNow(r) == IF r.asset = "swap" THEN MaxSpendable(node.coins, node)
             ELSE AccountMax(node.coins, node, r.asset, r.as)
MovesNow(by, r) ==
    IF by = "trace" THEN Traced(r, node) ELSE IF Reverts(r, node) THEN 0 ELSE Decoded(r)
SolanaToldNow(r, plan, by, reverts) ==
    /\ "raw" \notin r.as => plan \in PlanSolana(r, node.coins, node)
    /\ by # "none" => (reverts <=> ~Takes(node, plan))
EvmToldNow(r, by, reverts, moves) ==
    by # "none" => (reverts <=> Reverts(r, node)) /\ moves = MovesNow(by, r)

ToldGood(x) == x # Nothing =>
    /\ x \in [op : Ops, req : Requests, max : {x.max}, plan : {x.plan}, by : {x.by}, reverts : {x.reverts},
              moves : {x.moves}, fresh : BOOLEAN]
    /\ x.op = "simulate" => x.req.api = "transaction" /\ x.req.asset # "swap"
    /\ x.fresh /\ x.op = "max" => x.max = MaxNow(x.req)
    /\ x.fresh /\ x.op = "simulate" /\ family = "solana" => SolanaToldNow(x.req, x.plan, x.by, x.reverts)
    /\ x.fresh /\ x.op = "simulate" /\ family = "evm" => EvmToldNow(x.req, x.by, x.reverts, x.moves)

SentGood(x) == x # Nothing =>
    /\ x \in [req : Requests, plan : {x.plan}, coins : {x.coins}, taken : {x.taken}, fresh : BOOLEAN]
    /\ x.fresh => x.plan \in Plans(x.req, node.coins, node) /\ (x.taken <=> Takes(node, x.plan))

PlanInv ==
    /\ family \in Families /\ node \in Nodes(family)
    /\ AskGood(ask) /\ ToldGood(told) /\ SentGood(sent)

-----------------------------------------------------------------------------

LEMMA SameNode ==
    ASSUME UNCHANGED <<family, node>>
    PROVE  /\ \A x : AskGood(x)' <=> AskGood(x)
           /\ \A x : ToldGood(x)' <=> ToldGood(x)
           /\ \A x : SentGood(x)' <=> SentGood(x)
<1>1. Requests' = Requests
  BY DEF Requests, EvmRequests, SolanaRequests, TronRequests
<1>2. \A r, c, n : Plans(r, c, n)' = Plans(r, c, n)
  BY DEF Plans, PlanSwap, PlanEvm, PlanSolana, PlanTron, Resolved, MaxSpendable, AccountMax
<1>3. \A n, p : Takes(n, p)' <=> Takes(n, p)
  BY DEF Takes
<1>4. /\ \A r : MaxNow(r)' = MaxNow(r)
      /\ \A r, plan, by, reverts : SolanaToldNow(r, plan, by, reverts)' <=> SolanaToldNow(r, plan, by, reverts)
      /\ \A r, by, reverts, moves : EvmToldNow(r, by, reverts, moves)' <=> EvmToldNow(r, by, reverts, moves)
  BY <1>3 DEF MaxNow, SolanaToldNow, EvmToldNow, MovesNow, MaxSpendable, AccountMax
<1>5. \A x : AskGood(x)' <=> AskGood(x)
  BY <1>1, <1>2 DEF AskGood
<1>6. \A x : ToldGood(x)' <=> ToldGood(x)
  BY <1>1, <1>4 DEF ToldGood
<1>7. \A x : SentGood(x)' <=> SentGood(x)
  BY <1>1, <1>2, <1>3 DEF SentGood
<1> QED
  BY <1>5, <1>6, <1>7

\* The node moves: nothing that is known is fresh.
LEMMA StaleIsGood ==
    ASSUME family' = family
    PROVE  /\ \A x : AskGood(x) => AskGood(Stale(x))'
           /\ \A x : ToldGood(x) => ToldGood(Stale(x))'
           /\ \A x : SentGood(x) => SentGood(Stale(x))'
<1>1. Requests' = Requests
  BY DEF Requests, EvmRequests, SolanaRequests, TronRequests
<1>2. \A x : AskGood(x) => AskGood(Stale(x))'
  BY <1>1 DEF AskGood, Stale
<1>3. \A x : ToldGood(x) => ToldGood(Stale(x))'
  BY <1>1 DEF ToldGood, Stale
<1>4. \A x : SentGood(x) => SentGood(Stale(x))'
  BY <1>1 DEF SentGood, Stale
<1> QED
  BY <1>2, <1>3, <1>4

LEMMA DriftKeeps == ASSUME PlanInv, Drift PROVE PlanInv'
<1>1. family' = family /\ family \in Families /\ node \in Nodes(family)
  BY DEF Drift, PlanInv
<1>2. node' \in Nodes(family)
  <2> DEFINE NodeRecords == [coins : 0..MaxBalance, tokens : 0..1, to : {"absent", "plain", "contract"}, ata : BOOLEAN,
                         free : BOOLEAN, base : 0..1, tip : Tips, london : BOOLEAN, traces : BOOLEAN, says : BOOLEAN]
             Fits(n) == /\ family = "evm" => ~n.free /\ ~n.ata /\ n.to # "absent" /\ (n.base > 0 => n.london)
                        /\ family # "evm" => n.to # "contract" /\ n.base = 0 /\ ~n.london /\ ~n.traces
                        /\ family = "solana" => ~n.free
                        /\ family = "tron" => ~n.ata
  <2>1. Nodes(family) = {n \in NodeRecords : Fits(n)}
    BY DEF Nodes
  <2>2. node \in NodeRecords /\ Fits(node)
    BY <1>1, <2>1
  <2>3. CASE \E c \in 0..MaxBalance \ {node.coins} : node' = [node EXCEPT !.coins = c]
    BY <2>1, <2>2, <2>3
  <2>4. CASE node' = [node EXCEPT !.tokens = 1 - @]
    <3>1. 1 - node.tokens \in 0..1
      BY <2>2
    <3> QED
      BY <2>1, <2>2, <2>4, <3>1
  <2>5. CASE node.to = "absent" /\ node' = [node EXCEPT !.to = "plain"]
    BY <2>1, <2>2, <2>5
  <2>6. CASE ~node.ata /\ family = "solana" /\ node' = [node EXCEPT !.ata = TRUE]
    BY <2>1, <2>2, <2>6
  <2>7. CASE node.london /\ node' = [node EXCEPT !.base = 1 - @]
    <3>1. 1 - node.base \in 0..1 /\ family = "evm"
      BY <1>1, <2>2, <2>7 DEF Families
    <3> QED
      BY <2>1, <2>2, <2>7, <3>1
  <2>8. CASE family = "tron" /\ node' = [node EXCEPT !.free = ~@]
    BY <2>1, <2>2, <2>8
  <2>9. CASE node' = [node EXCEPT !.says = ~@]
    BY <2>1, <2>2, <2>9
  <2>10. CASE \E t \in Tips \ {node.tip} : family = "evm" /\ node' = [node EXCEPT !.tip = t]
    BY <2>1, <2>2, <2>10
  <2> QED
    BY <2>3, <2>4, <2>5, <2>6, <2>7, <2>8, <2>9, <2>10 DEF Drift
<1>3. PICK a, t, s : a = ask /\ t = told /\ s = sent
  OBVIOUS
<1>4. ask' = Stale(a) /\ told' = Stale(t) /\ sent' = Stale(s)
  BY <1>3 DEF Drift
<1>5. AskGood(Stale(a))' /\ ToldGood(Stale(t))' /\ SentGood(Stale(s))'
  BY <1>1, <1>3, StaleIsGood DEF PlanInv
<1>6. PICK b, u, v : b = Stale(a) /\ u = Stale(t) /\ v = Stale(s)
  OBVIOUS
<1>7. AskGood(b)' /\ ToldGood(u)' /\ SentGood(v)'
  BY <1>5, <1>6
<1> QED
  BY <1>1, <1>2, <1>4, <1>6, <1>7 DEF PlanInv

\* A step of a call: the node stays.
LEMMA CallKeeps ==
    ASSUME PlanInv, UNCHANGED <<family, node>>, AskGood(ask'), ToldGood(told'), SentGood(sent')
    PROVE  PlanInv'
<1>1. PICK a, t, s : a = ask' /\ t = told' /\ s = sent'
  OBVIOUS
<1>2. AskGood(a)' /\ ToldGood(t)' /\ SentGood(s)'
  BY <1>1, SameNode
<1> QED
  BY <1>1, <1>2 DEF PlanInv

LEMMA NothingIsGood == AskGood(Nothing) /\ ToldGood(Nothing) /\ SentGood(Nothing)
BY DEF AskGood, ToldGood, SentGood

LEMMA BeginPlanKeeps ==
    ASSUME PlanInv, NEW op \in {"max", "validate", "simulate", "send"}, NEW r \in Requests, Begin(op, r)
    PROVE  PlanInv'
<1>1. /\ op # "send" => r.api = "transaction"
      /\ op \in {"validate", "simulate"} => r.asset # "swap"
      /\ ask' = [op |-> op, req |-> r, coins |-> node.coins, fresh |-> TRUE, plan |-> Nothing]
      /\ UNCHANGED <<family, node, told, sent>>
  BY DEF Begin, Asked
<1>2. node.coins \in 0..MaxBalance
  BY DEF PlanInv, Nodes
<1>3. AskGood(ask')
  BY <1>1, <1>2 DEF AskGood, Ops
<1> QED
  BY <1>1, <1>3, CallKeeps DEF PlanInv

\* What is told of a call is as fresh as what the call read.
LEMMA AnswerKeeps ==
    ASSUME PlanInv, ask # Nothing, NEW max, NEW plan, NEW by, NEW reverts, NEW moves,
           Tell(max, plan, by, reverts, moves), ask' = Nothing, UNCHANGED <<family, node, sent>>,
           ask.fresh /\ ask.op = "max" => max = MaxNow(ask.req),
           ask.fresh /\ ask.op = "simulate" /\ family = "solana" => SolanaToldNow(ask.req, plan, by, reverts),
           ask.fresh /\ ask.op = "simulate" /\ family = "evm" => EvmToldNow(ask.req, by, reverts, moves)
    PROVE  PlanInv'
<1>1. AskGood(ask)
  BY DEF PlanInv
<1>2. told' = [op |-> ask.op, req |-> ask.req, max |-> max, plan |-> plan, by |-> by, reverts |-> reverts,
               moves |-> moves, fresh |-> ask.fresh]
  BY DEF Tell
<1>3. /\ ask.op \in Ops /\ ask.req \in Requests /\ ask.fresh \in BOOLEAN
      /\ ask.op = "simulate" => ask.req.api = "transaction" /\ ask.req.asset # "swap"
  BY <1>1 DEF AskGood
<1>4. ToldGood(told')
  BY <1>2, <1>3 DEF ToldGood
<1> QED
  BY <1>4, NothingIsGood, CallKeeps DEF PlanInv

LEMMA MaxKeeps == ASSUME PlanInv, AnswerMax \/ AnswerSwap PROVE PlanInv'
<1>1. ask # Nothing /\ ask.op = "max" /\ ask' = Nothing /\ UNCHANGED <<family, node, sent>>
  BY DEF AnswerMax, AnswerSwap
<1>2. ask.fresh => ask.coins = node.coins
  BY <1>1 DEF PlanInv, AskGood
<1>3. CASE AnswerMax
  <2> DEFINE max == AccountMax(ask.coins, node, ask.req.asset, ask.req.as)
  <2>1. Tell(max, Nothing, "none", FALSE, 0) /\ (ask.fresh => max = MaxNow(ask.req))
    BY <1>2, <1>3 DEF AnswerMax, MaxNow
  <2> QED
    BY <1>1, <2>1, AnswerKeeps
<1>4. CASE AnswerSwap
  <2> DEFINE max == MaxSpendable(ask.coins, node)
  <2>1. Tell(max, Nothing, "none", FALSE, 0) /\ (ask.fresh => max = MaxNow(ask.req))
    BY <1>2, <1>4 DEF AnswerSwap, MaxNow
  <2> QED
    BY <1>1, <2>1, AnswerKeeps
<1> QED
  BY <1>3, <1>4

LEMMA EndKeeps ==
    ASSUME PlanInv, ask' = Nothing, UNCHANGED <<family, node, sent, told>>
    PROVE  PlanInv'
BY NothingIsGood, CallKeeps DEF PlanInv

LEMMA ValidateKeeps == ASSUME PlanInv, Validate PROVE PlanInv'
<1>1. ask # Nothing /\ ask.op = "validate" /\ ask' = Nothing /\ UNCHANGED <<family, node, sent>>
  BY DEF Validate
<1>2. told' = told \/ \E max, plan, moves : Tell(max, plan, "none", FALSE, moves)
  BY DEF Validate
<1> QED
  BY <1>1, <1>2, AnswerKeeps, EndKeeps

LEMMA SimulateKeeps == ASSUME PlanInv, SimulateEvm \/ SimulateSolana \/ SimulateTron PROVE PlanInv'
<1>1. ask # Nothing /\ ask.op = "simulate" /\ ask' = Nothing /\ UNCHANGED <<family, node, sent>>
  BY DEF SimulateEvm, SimulateSolana, SimulateTron
<1>2. ask.fresh => ask.coins = node.coins
  BY <1>1 DEF PlanInv, AskGood
<1>3. CASE SimulateEvm
  <2>1. family = "evm" /\ "evm" # "solana"
    BY <1>3 DEF SimulateEvm
  <2>2. ASSUME NEW by, NEW reverts, NEW moves, Tell(0, Nothing, by, reverts, moves),
               EvmToldNow(ask.req, by, reverts, moves)
        PROVE  PlanInv'
    BY <1>1, <2>1, <2>2, AnswerKeeps
  <2> DEFINE rev == Reverts(ask.req, node)
  <2>3. /\ EvmToldNow(ask.req, "trace", rev, Traced(ask.req, node))
        /\ EvmToldNow(ask.req, "none", FALSE, 0) /\ EvmToldNow(ask.req, "none", TRUE, 0)
        /\ EvmToldNow(ask.req, "call", rev, IF rev THEN 0 ELSE Decoded(ask.req))
    BY DEF EvmToldNow, MovesNow
  <2>4. \/ Tell(0, Nothing, "trace", rev, Traced(ask.req, node))
        \/ Tell(0, Nothing, "none", FALSE, 0)
        \/ Tell(0, Nothing, "call", rev, IF rev THEN 0 ELSE Decoded(ask.req))
        \/ Tell(0, Nothing, "none", TRUE, 0)
    BY <1>3 DEF SimulateEvm
  <2> HIDE DEF rev
  <2> QED
    BY <2>2, <2>3, <2>4
<1>4. CASE SimulateSolana
  <2>1. family = "solana" /\ "solana" # "evm"
    BY <1>4 DEF SimulateSolana
  <2>2. ASSUME NEW p \in Simulated(ask.req, ask.coins, node), NEW by, NEW reverts, Tell(0, p, by, reverts, p.amount),
               by # "none" => (reverts <=> ~Takes(node, p))
        PROVE  PlanInv'
    <3>1. ask.fresh => SolanaToldNow(ask.req, p, by, reverts)
      BY <1>2, <2>2 DEF Simulated, Previewed, SolanaToldNow
    <3> QED
      BY <1>1, <2>1, <2>2, <3>1, AnswerKeeps
  <2>3. ASSUME NEW p \in Simulated(ask.req, ask.coins, node),
               \/ Tell(0, p, "call", ~Takes(node, p), p.amount)
               \/ Tell(0, p, "none", TRUE, p.amount)
        PROVE  PlanInv'
    <3> DEFINE rev == ~Takes(node, p)
    <3>1. (rev <=> ~Takes(node, p)) /\ (Tell(0, p, "call", rev, p.amount) \/ Tell(0, p, "none", TRUE, p.amount))
      BY <2>3
    <3> HIDE DEF rev
    <3> QED
      BY <2>2, <3>1
  <2>4. CASE told' = told
    BY <1>1, <2>4, EndKeeps
  <2> QED
    BY <1>4, <2>3, <2>4 DEF SimulateSolana
<1>5. CASE SimulateTron
  BY <1>1, <1>5, EndKeeps DEF SimulateTron
<1> QED
  BY <1>3, <1>4, <1>5

LEMMA BuildPlanKeeps == ASSUME PlanInv, BuildPlan PROVE PlanInv'
<1>1. ask # Nothing /\ ask.op = "send" /\ UNCHANGED <<family, node, told, sent>> /\ AskGood(ask)
  BY DEF BuildPlan, PlanInv
<1>2. ASSUME NEW p \in Plans(ask.req, ask.coins, node), ask' = [ask EXCEPT !.op = "broadcast", !.plan = p]
      PROVE  PlanInv'
  <2>1. ask.fresh => p \in Plans(ask.req, node.coins, node)
    BY <1>1, <1>2 DEF AskGood
  <2>2. /\ ask'.op = "broadcast" /\ ask'.req = ask.req /\ ask'.coins = ask.coins /\ ask'.fresh = ask.fresh
        /\ ask'.plan = p
        /\ ask' \in [op : Ops, req : Requests, coins : 0..MaxBalance, fresh : BOOLEAN, plan : {p}]
    BY <1>1, <1>2 DEF AskGood, Ops
  <2>3. AskGood(ask')
    BY <1>1, <2>1, <2>2 DEF AskGood
  <2> QED
    BY <1>1, <2>3, CallKeeps DEF PlanInv
<1>3. CASE ask' = Nothing
  BY <1>1, <1>3, EndKeeps
<1> QED
  BY <1>2, <1>3 DEF BuildPlan

LEMMA BroadcastPlanKeeps == ASSUME PlanInv, BroadcastPlan PROVE PlanInv'
<1>1. ask # Nothing /\ ask.op = "broadcast" /\ UNCHANGED <<family, node, told>> /\ AskGood(ask) /\ ask' = Nothing
  BY DEF BroadcastPlan, PlanInv
<1> DEFINE taken == Takes(node, ask.plan)
<1>2. sent' = [req |-> ask.req, plan |-> ask.plan, coins |-> ask.coins, taken |-> taken, fresh |-> ask.fresh]
  BY DEF BroadcastPlan
<1>3. taken <=> Takes(node, ask.plan)
  OBVIOUS
<1> HIDE DEF taken
<1>4. ask.req \in Requests /\ ask.fresh \in BOOLEAN /\ (ask.fresh => ask.plan \in Plans(ask.req, node.coins, node))
  BY <1>1 DEF AskGood
<1>5. SentGood(sent')
  BY <1>2, <1>3, <1>4 DEF SentGood
<1> QED
  BY <1>1, <1>5, NothingIsGood, CallKeeps DEF PlanInv

LEMMA PlanPreserved == PlanInv /\ [PlanNext]_planVars => PlanInv'
<1> SUFFICES ASSUME PlanInv, [PlanNext]_planVars PROVE PlanInv'
  OBVIOUS
<1>1. CASE UNCHANGED planVars
  BY <1>1, CallKeeps DEF planVars, PlanInv
<1>2. CASE Forget
  BY <1>2, NothingIsGood, CallKeeps DEF Forget, PlanInv
<1>3. CASE CallFails
  BY <1>3, EndKeeps DEF CallFails
<1> QED
  BY <1>1, <1>2, <1>3, DriftKeeps, BeginPlanKeeps, MaxKeeps, ValidateKeeps, SimulateKeeps, BuildPlanKeeps,
     BroadcastPlanKeeps DEF PlanNext, PlanStep

LEMMA PlanStart == PlanInit => PlanInv
BY NothingIsGood DEF PlanInit, PlanInv

LEMMA PlanAlways == PlanSpec => []PlanInv
BY PlanStart, PlanPreserved, PTL DEF PlanSpec

-----------------------------------------------------------------------------
\* The transfer a fresh broadcast made is one the builder makes now.
LEMMA SentNow ==
    ASSUME PlanInv, sent # Nothing, sent.fresh
    PROVE  /\ sent.req \in Requests /\ sent.plan \in Plans(sent.req, node.coins, node)
           /\ sent.taken <=> Takes(node, sent.plan)
           /\ family \in Families /\ node \in Nodes(family)
BY DEF PlanInv, SentGood

\* A request's parts.
LEMMA RequestParts ==
    ASSUME family \in Families, NEW r \in Requests
    PROVE  /\ r.asset \in {"native", "token", "swap"} /\ r.field \in {"amount", "value"}
           /\ r.amount \in Amounts \cup {1, MAX}
           /\ DOMAIN r = {"api", "asset", "amount", "field", "as", "pins"}
           /\ r.asset = "swap" => family # "tron" /\ r.as = {}
           /\ r.pins \in SUBSET {"gas", "fee", "tip"}
BY DEF Requests, EvmRequests, SolanaRequests, TronRequests, Asks, Families

\* What a host that follows the maximum asks for.
LEMMA MaxNowOfFollowed ==
    ASSUME PlanInv, Follows("max"), sent.req = [told.req EXCEPT !.amount = told.max], sent.req.asset # "token"
    PROVE  /\ sent.req.asset = "swap" => sent.req.amount = MaxSpendable(node.coins, node)
           /\ sent.req.asset = "native" =>
                sent.req.amount = AccountMax(node.coins, node, "native", sent.req.as)
<1>1. told.req \in Requests /\ told.max = MaxNow(told.req) /\ family \in Families
  BY DEF PlanInv, ToldGood, Follows
<1>2. /\ sent.req.asset = told.req.asset /\ sent.req.as = told.req.as
      /\ sent.req.amount = told.max /\ told.req.asset \in {"native", "token", "swap"}
  BY <1>1, RequestParts
<1> QED
  BY <1>1, <1>2 DEF MaxNow

LEMMA NodeTyped ==
    ASSUME family \in Families, node \in Nodes(family)
    PROVE  /\ node.coins \in Nat /\ node.tokens \in Nat /\ node.base \in Nat /\ node.tip \in Nat
           /\ node.ata \in BOOLEAN /\ node.free \in BOOLEAN /\ node.says \in BOOLEAN /\ node.traces \in BOOLEAN
           /\ node.to \in {"absent", "plain", "contract"}
           /\ family # "evm" => node.to # "contract"
           /\ family = "evm" => node.to # "absent"
           /\ [node EXCEPT !.to = "plain"].to = "plain" /\ [node EXCEPT !.to = "plain"].says = node.says
BY BalanceAssumption DEF Nodes

\* Each chain takes the most that its account may send.
LEMMA EvmTakesMax ==
    ASSUME PlanInv, sent # Nothing, sent.fresh, family = "evm", sent.req.asset = "native",
           sent.req.api = "transaction", Covered(sent.req), sent.plan.amount > 0,
           sent.req.amount = MAX \/ sent.req.amount = MaxEvm(node.coins, node, sent.req.as)
    PROVE  sent.taken
<1> DEFINE r == sent.req
           a == Significand(r.amount)
           data == "data" \in r.as
           tip == TipOf(r, node)
           price == GasPrice(node)
<1>1. /\ r.pins = {} /\ (node.to # "contract" \/ data) /\ (node.says \/ "eip1559" \notin r.as)
  BY DEF Covered
<1>2. PICK g \in Estimated(node, "native", a, data) : sent.plan = Plan("native", a, a, data, g, price, tip)
  BY <1>1, SentNow DEF Plans, PlanEvm, SentGas, SentPrice
<1>3. /\ sent.plan.asset = "native" /\ sent.plan.value = a /\ sent.plan.gas = g /\ sent.plan.amount = a
      /\ sent.plan.price = price /\ sent.plan.tip = tip /\ sent.plan.data = data
  BY <1>2 DEF Plan
<1>4. g = GasNeeded(node, "native", data) /\ g = IF data THEN 2 ELSE 1
  BY <1>1, <1>2 DEF Estimated, GasNeeded
<1>5. a > 0 /\ a = MaxEvm(node.coins, node, r.as)
  BY <1>3 DEF Significand
<1>6. node.coins \in Nat /\ node.base \in Nat /\ node.tip \in Nat
  BY NodeTyped, SentNow
<1>7. tip \in Nat /\ tip <= price /\ price \in Nat /\ price >= node.base
  BY <1>1, <1>6 DEF TipOf, TipOr, GasPrice
<1> DEFINE reserved == IF TipOr(node, 0) > 0 THEN node.tip ELSE ReservedTip
           held == IF "eip1559" \in r.as THEN 2 * node.base + reserved ELSE price
<1>8. held \in Nat /\ held >= price
  BY <1>1, <1>6 DEF TipOr, ReservedTip, GasPrice
<1>9. a = Less(node.coins, g * held)
  BY <1>4, <1>5 DEF MaxEvm, GasNeeded
<1> HIDE DEF a, tip, price, held, data
<1>10. node.coins >= a + g * price
  <2>1. CASE g = 1
    BY <1>5, <1>6, <1>7, <1>8, <1>9, <2>1 DEF Less
  <2>2. CASE g = 2
    BY <1>5, <1>6, <1>7, <1>8, <1>9, <2>2 DEF Less
  <2> QED
    BY <1>4, <2>1, <2>2
<1>11. g \in Nat
  BY <1>4
<1>12. TakesEvm(node, sent.plan)
  BY <1>3, <1>4, <1>7, <1>10, <1>11 DEF TakesEvm
<1> QED
  BY <1>12, SentNow DEF Takes

LEMMA SolanaTakesMax ==
    ASSUME PlanInv, sent # Nothing, sent.fresh, family = "solana", sent.req.asset = "native", Covered(sent.req),
           ~(node.to = "absent" /\ sent.plan.amount < Rent), sent.plan.amount > 0,
           sent.req.amount = MAX \/ sent.req.amount = MaxSolana(node.coins, node, SolanaFee)
    PROVE  sent.taken
<1>1. PICK fee \in Nat : fee >= SolanaFee /\ Resolved(sent.req, node.coins, node) = MaxSolana(node.coins, node, fee)
  <2>1. SolanaFee \in Nat /\ PinnedFee \in Nat
    BY PinsAssumption DEF SolanaFee
  <2>2. CASE sent.req.amount = MAX /\ "fee" \in sent.req.pins
    BY <2>1, <2>2 DEF Covered, Resolved
  <2>3. CASE ~(sent.req.amount = MAX /\ "fee" \in sent.req.pins)
    BY <2>1, <2>3 DEF Resolved
  <2> QED
    BY <2>2, <2>3
<1> DEFINE a == MaxSolana(node.coins, node, fee)
<1>2. sent.plan = Transfer("native", a)
  BY <1>1, SentNow DEF Plans, PlanSolana
<1>3. /\ sent.plan.asset = "native" /\ sent.plan.value = a /\ sent.plan.amount = a
  BY <1>2 DEF Transfer, Plan
<1>4. node.coins \in Nat /\ node.says \in BOOLEAN
  BY NodeTyped, SentNow
<1>5. /\ a > 0 /\ a \in Nat
      /\ node.coins >= a + SolanaFee + Rent
      /\ node.to = "absent" => a >= Rent
  BY <1>1, <1>3, <1>4 DEF MaxSolana, Less, SolanaFee, Rent
<1>6. node.coins >= a + SolanaFee + 0 /\ node.coins - (a + SolanaFee + 0) >= Rent
  BY <1>4, <1>5 DEF SolanaFee, Rent
<1>7. TakesSolana(node, sent.plan)
  BY <1>3, <1>5, <1>6 DEF TakesSolana, Rentable
<1> QED
  BY <1>7, SentNow DEF Takes

LEMMA SolanaTakesMaxSwap ==
    ASSUME PlanInv, sent # Nothing, sent.fresh, family = "solana", sent.req.asset = "swap", sent.plan.amount > 0,
           sent.req.amount = MAX \/ sent.req.amount = MaxSpendable(node.coins, node)
    PROVE  sent.taken
<1> DEFINE a == MaxSpendable(node.coins, node)
           missing == IF node.ata THEN 0 ELSE TokenRent
<1>1. sent.plan = Plan("swap", a, a, TRUE, 2, GasPrice(node), 0)
  <2>1. sent.plan \in PlanSwap(sent.req, node.coins, node)
    BY SentNow DEF Plans
  <2>2. (IF sent.req.amount = MAX THEN MaxSpendable(node.coins, node) ELSE sent.req.amount) = a
    OBVIOUS
  <2>3. PICK b \in {IF sent.req.amount = MAX THEN MaxSpendable(node.coins, node) ELSE sent.req.amount} \ {0} :
          sent.plan = Plan("swap", b, b, TRUE, 2, GasPrice(node), 0)
    BY <2>1 DEF PlanSwap
  <2> HIDE DEF a
  <2>4. b = a
    BY <2>2, <2>3
  <2> QED
    BY <2>3, <2>4
<1>2. /\ sent.plan.asset = "swap" /\ sent.plan.value = a /\ sent.plan.amount = a
  BY <1>1 DEF Plan
<1>3. node.coins \in Nat
  BY NodeTyped, SentNow
<1>4. a = Less(Less(node.coins, SolanaFee + Rent), SwapReservation(node))
  BY <1>3, NodeTyped, SentNow DEF MaxSpendable, AccountMax, MaxSolana, Absent, SolanaFee, Rent
<1>5. /\ a \in Nat /\ missing \in Nat
      /\ node.coins >= a + SolanaFee + (TokenRent + missing)
      /\ node.coins - (a + SolanaFee + (TokenRent + missing)) >= Rent
  BY <1>2, <1>3, <1>4 DEF Less, SwapReservation, TokenRent, SolanaFee, Rent
<1>6. TakesSolana(node, sent.plan)
  BY <1>2, <1>5 DEF TakesSolana, Rentable
<1> QED
  BY <1>6, SentNow DEF Takes

LEMMA TronTakesMax ==
    ASSUME PlanInv, sent # Nothing, sent.fresh, family = "tron", sent.req.asset = "native", sent.plan.amount > 0,
           Covered(sent.req), sent.req.amount = MAX \/ sent.req.amount = MaxTron(node.coins, node)
    PROVE  sent.taken
<1> DEFINE a == MaxTron(node.coins, node)
<1>1. sent.plan = Transfer("native", a)
  BY SentNow DEF Plans, PlanTron
<1>2. /\ sent.plan.asset = "native" /\ sent.plan.value = a /\ sent.plan.amount = a
  BY <1>1 DEF Transfer, Plan
<1>3. node.coins \in Nat /\ node.says \in BOOLEAN /\ node.free \in BOOLEAN
  BY NodeTyped, SentNow
<1>4. node.to = "absent" => node.says
  BY DEF Covered
<1>5. node.coins >= a + TronFee(node)
  BY <1>2, <1>3, <1>4 DEF MaxTron, Less, Absent, TronFee, BandwidthFee, NewAccountFee
<1>6. TakesTron(node, sent.plan)
  BY <1>2, <1>5 DEF TakesTron
<1> QED
  BY <1>6, SentNow DEF Takes

LEMMA InvAccepts == PlanInv => MaxIsAccepted
<1> SUFFICES ASSUME PlanInv, sent # Nothing, sent.fresh,
                    \/ sent.req.amount = MAX
                    \/ Follows("max") /\ sent.req = [told.req EXCEPT !.amount = told.max],
                    sent.req.asset # "token", sent.req.api = "transaction", sent.plan.amount > 0,
                    Covered(sent.req),
                    ~(family = "solana" /\ sent.req.asset = "native" /\ node.to = "absent" /\ sent.plan.amount < Rent)
             PROVE  sent.taken
  BY DEF MaxIsAccepted
<1>1. /\ sent.req.asset \in {"native", "swap"} /\ family \in Families
      /\ sent.req.asset = "swap" => family # "tron"
  BY SentNow, RequestParts
<1>2. CASE family = "evm"
  <2>1. sent.req.asset = "native"
    BY <1>2 DEF Covered
  <2> QED
    BY <1>2, <2>1, EvmTakesMax, MaxNowOfFollowed DEF AccountMax
<1>3. CASE family = "solana" /\ sent.req.asset = "native"
  BY <1>1, <1>3, SolanaTakesMax, MaxNowOfFollowed DEF AccountMax
<1>4. CASE family = "solana" /\ sent.req.asset = "swap"
  BY <1>1, <1>4, SolanaTakesMaxSwap, MaxNowOfFollowed
<1>5. CASE family = "tron"
  BY <1>1, <1>5, TronTakesMax, MaxNowOfFollowed DEF AccountMax
<1> QED
  BY <1>1, <1>2, <1>3, <1>4, <1>5 DEF Families

\* Sending exactly the maximum the account was just said to have, or MAX itself, is
\* accepted by its chain, for every balance within the bound, every tip and whatever
\* callers pin: fees, tips, calldata, rents, a new recipient and bandwidth are all held
\* back where Covered says so (max_sendable, compute_solana_max_sendable,
\* tron::max_sendable, resolve_max_amount_in, sign_and_send).
THEOREM MaxAccepted == PlanSpec => []MaxIsAccepted
BY PlanAlways, InvAccepts, PTL

\* A send the node would not run is one the chain does not take.
LEMMA RevertsRefused ==
    ASSUME PlanInv, sent # Nothing, sent.fresh, family = "evm", sent.req.api = "transaction",
           sent.req.asset \in {"native", "token"}, Reverts(sent.req, node)
    PROVE  ~sent.taken
<1> DEFINE r == sent.req
           a == Significand(r.amount)
           data == "data" \in r.as
<1>1. PICK g \in SentGas(r, node) :
        sent.plan = Plan(r.asset, a, IF r.asset = "token" THEN 0 ELSE a, data, g, SentPrice(r, node), TipOf(r, node))
  BY SentNow DEF Plans, PlanEvm
<1>2. /\ sent.plan.asset = r.asset /\ sent.plan.value = (IF r.asset = "token" THEN 0 ELSE a) /\ sent.plan.amount = a
      /\ sent.plan.gas = g /\ sent.plan.price = SentPrice(r, node) /\ sent.plan.data = data
  BY <1>1 DEF Plan
<1>3. /\ node.coins \in Nat /\ node.tokens \in Nat /\ node.base \in Nat /\ node.tip \in Nat
      /\ a \in Nat /\ SentPrice(r, node) \in Nat
  BY SentNow, NodeTyped, RequestParts, BalanceAssumption, PinsAssumption
     DEF Significand, Amounts, SentPrice, GasPrice
<1>4. g \in Nat /\ g * SentPrice(r, node) \in Nat
  <2>1. g \in Nat
    BY <1>1, PinsAssumption DEF SentGas, Estimated, GasNeeded
  <2> QED
    BY <1>3, <2>1
<1>5. CASE "gas" \notin r.pins
  <2>1. (IF r.asset = "token" THEN node.tokens ELSE node.coins) >= a
    BY <1>1, <1>5 DEF SentGas, Estimated
  <2> QED
    BY <1>3, <1>5, <2>1 DEF Reverts, Called
<1>6. CASE "gas" \in r.pins
  <2>1. g = PinnedGas
    BY <1>1, <1>6 DEF SentGas
  <2> HIDE DEF a, data
  <2>2. SUFFICES ASSUME TakesEvm(node, sent.plan) PROVE FALSE
    BY SentNow DEF Takes
  <2>3. /\ PinnedGas >= GasNeeded(node, r.asset, data)
        /\ node.coins >= sent.plan.value + g * SentPrice(r, node)
        /\ r.asset = "token" => node.tokens >= a
    BY <1>2, <2>1, <2>2 DEF TakesEvm
  <2>4. node.coins < Called(r)
    <3>1. ~(PinnedGas < GasNeeded(node, r.asset, data))
      BY <2>3, PinsAssumption DEF GasNeeded
    <3> QED
      BY <1>3, <2>3, <3>1 DEF Reverts, a, data
  <2>5. r.asset = "native" /\ Called(r) = a
    BY <1>3, <2>4 DEF Called, a
  <2> QED
    BY <1>2, <1>3, <1>4, <2>3, <2>4, <2>5
<1> QED
  BY <1>5, <1>6

LEMMA InvPreviews == PlanInv => PreviewIsTheSend
<1> SUFFICES ASSUME PlanInv, Follows("simulate"), sent.req = told.req
             PROVE  /\ family = "solana" /\ "raw" \notin told.req.as =>
                          told.plan = sent.plan /\ (told.by # "none" => (told.reverts <=> ~sent.taken))
                    /\ family = "evm" /\ told.by # "none" =>
                          /\ told.reverts => ~sent.taken
                          /\ ~told.reverts /\ Shows(told.by, told.req) => told.moves = sent.plan.amount
  BY DEF PreviewIsTheSend
<1> DEFINE r == sent.req
<1>1. /\ sent # Nothing /\ sent.fresh /\ told # Nothing /\ told.fresh /\ told.op = "simulate"
  BY DEF Follows
<1>2. /\ r.api = "transaction" /\ r.asset # "swap"
      /\ family = "solana" => SolanaToldNow(r, told.plan, told.by, told.reverts)
      /\ family = "evm" => EvmToldNow(r, told.by, told.reverts, told.moves)
  BY <1>1 DEF PlanInv, ToldGood
<1>3. /\ sent.plan \in Plans(r, node.coins, node) /\ (sent.taken <=> Takes(node, sent.plan))
      /\ r.asset \in {"native", "token"} /\ r.field \in {"amount", "value"}
  BY <1>1, <1>2, SentNow, RequestParts
<1>4. CASE family = "solana" /\ "raw" \notin told.req.as
  <2>1. sent.plan \in PlanSolana(r, node.coins, node)
    BY <1>2, <1>3, <1>4 DEF Plans
  <2>2. told.plan \in PlanSolana(r, node.coins, node) /\ (told.by # "none" => (told.reverts <=> ~Takes(node, told.plan)))
    BY <1>2, <1>4 DEF SolanaToldNow
  <2>3. told.plan = sent.plan
    BY <2>1, <2>2 DEF PlanSolana, PlanSpl
  <2> QED
    BY <1>3, <1>4, <2>2, <2>3
<1>5. CASE family = "evm" /\ told.by # "none"
  <2>1. (told.reverts <=> Reverts(r, node)) /\ told.moves = MovesNow(told.by, r)
    BY <1>2, <1>5 DEF EvmToldNow
  <2>2. told.reverts => ~sent.taken
    BY <1>1, <1>2, <1>3, <1>5, <2>1, RevertsRefused
  <2>3. sent.plan.amount = Significand(r.amount)
    BY <1>2, <1>3, <1>5 DEF Plans, PlanEvm, Plan
  <2>4. ASSUME ~told.reverts, Shows(told.by, r) PROVE told.moves = Significand(r.amount)
    BY <1>3, <2>1, <2>4 DEF MovesNow, Traced, Decoded, Called, Shows
  <2> QED
    BY <1>5, <2>2, <2>3, <2>4
<1> QED
  BY <1>4, <1>5

\* A transfer previewed and then sent unchanged is the transfer that was shown, with
\* the outcome that was shown when the node answered, for every balance within the
\* bound and however the node moves in between (solana_build.rs, simulate_evm).
THEOREM PreviewSent == PlanSpec => []PreviewIsTheSend
BY PlanAlways, InvPreviews, PTL
=============================================================================
