------------------------- MODULE WalletCommittee -------------------------
(***************************************************************************)
(* The key shares of one wallet: models/wallet.rs and the operations of    *)
(* handlers/wallet.rs, handlers/spot.rs and reshare.rs that rewrite them.  *)
(*                                                                         *)
(* A wallet is a row of table Wallet and one row of table WalletKey per    *)
(* share. The shares that were generated together are a committee; only    *)
(* shares of one committee can sign together. One share of a committee is  *)
(* the RemoteKey: its copy in the WalletKey row is sealed for the server,  *)
(* which holds the last such share uploaded to it.                         *)
(*                                                                         *)
(* Every operation runs on a worker thread of its own, and nothing holds a *)
(* lock or a transaction across its statements. A step is one SQL          *)
(* statement, one attempt of an upload, or a whole ceremony (which touches *)
(* neither table).                                                         *)
(***************************************************************************)
EXTENDS Naturals, FiniteSets

CONSTANTS Ops,      \* worker threads
          N,        \* shares of a committee
          Need,     \* shares of one committee that sign or reshare (T + 1)
          MaxComm,  \* bound: committees ever generated for the wallet
          Offered,  \* the operations the host calls
          Faulty,   \* may statements fail and the process die?
          Idle,     \* the worker runs no operation on this wallet
          NoFile    \* no backup was taken

ASSUME SizeAssumption == N \in Nat /\ Need \in 2..N /\ MaxComm \in Nat /\ Faulty \in BOOLEAN

\* Committee 0 is the imported mnemonic, the only share of its wallet.
Committees   == 0..MaxComm
Committee(k) == IF k = 0 THEN {<<0, 1>>} ELSE {k} \X (1..N)
Shares       == UNION {Committee(k) : k \in Committees}
IsRemote(s)  == s[1] # 0 /\ s[2] = N

\* What the Wallet row says of itself: Protocol and Threshold of a
\* mnemonic-keep wallet, or of an N-of-T committee.
Mode == {"none", "mnemonic", "mpc"}

Kinds == {"create", "import", "reshare", "promote", "recrypt", "repair",
          "delete", "backup", "restore"}

ASSUME OfferedAssumption == Offered \subseteq Kinds \ {"create", "import"}

VARIABLES
    wallet,     \* the Wallet row ("none": there is none)
    keys,       \* the shares that have a WalletKey row
    remote,     \* the committee whose share the server holds (0: none)
    file,       \* the last Wallet:backup entry, or NoFile
    next,       \* the next committee to be generated (0: the id is unused)
    op,         \* op[t]: the operation's locals (see Op), or Idle
    \* History, read by no action:
    uploaded,   \* committees whose share ever reached the server
    overlapped, \* were two operations ever in flight at the same time?
    broken,     \* did the process ever die, or a statement fail, half-way?
    deleted,    \* did a Wallet:delete ever remove the keys?
    drift       \* did something happen that may leave the server's share behind
                \* or ahead of the wallet's, and no repair since?

history == <<uploaded, overlapped, broken, deleted, drift>>
vars    == <<wallet, keys, remote, file, next, op, history>>

Pc == {"wallet", "keys", "pick", "ceremony", "upload", "header", "clear",
       "clearOne", "insert", "stamp", "protocol", "drop", "write"}

\* A running operation: the Wallet row and the shares it read, the committee it
\* made or pushes, the shares it has yet to insert, and whether its upload has
\* reached the server.
Op == [kind : Kinds, pc : Pc, row : Mode, seen : SUBSET Shares,
       new : Committees, todo : SUBSET Shares, landed : BOOLEAN]

File == [mode : Mode, shares : SUBSET Shares]

ASSUME NullAssumption == Idle \notin Op /\ NoFile \notin File

TypeOK ==
    /\ wallet \in Mode
    /\ keys \subseteq Shares
    /\ remote \in Committees
    /\ file \in File \cup {NoFile}
    /\ next \in 0..(MaxComm + 1)
    /\ op \in [Ops -> Op \cup {Idle}]
    /\ uploaded \subseteq Committees
    /\ overlapped \in BOOLEAN
    /\ broken \in BOOLEAN
    /\ deleted \in BOOLEAN
    /\ drift \in BOOLEAN

Init ==
    /\ wallet = "none"
    /\ keys = {}
    /\ remote = 0
    /\ file = NoFile
    /\ next = 0
    /\ op = [t \in Ops |-> Idle]
    /\ uploaded = {}
    /\ overlapped = FALSE
    /\ broken = FALSE
    /\ deleted = FALSE
    /\ drift = FALSE

At(t, pc)   == op[t] # Idle /\ op[t].pc = pc
Is(t, ks)   == op[t].kind \in ks
Goto(t, pc) == op' = [op EXCEPT ![t].pc = pc]
Return(t)   == op' = [op EXCEPT ![t] = Idle]

\* The wallet's row has been written: before that no host knows its id.
Known == next > 0 /\ \A u \in Ops : op[u] # Idle =>
                         ~(op[u].kind \in {"create", "import"} /\ op[u].pc \in {"upload", "header"})

\* Operations on an existing wallet begin by reading it; recrypt reads one key;
\* restore has to be given a file.
FirstStep(kind) == IF kind = "recrypt" THEN "pick" ELSE "wallet"

Start(t, kind) ==
    /\ op[t] = Idle
    /\ Known
    /\ kind = "restore" => file # NoFile
    /\ op' = [op EXCEPT ![t] = [kind |-> kind, pc |-> FirstStep(kind), row |-> "none",
                               seen |-> {}, new |-> 0, todo |-> {}, landed |-> FALSE]]
    /\ overlapped' = (overlapped \/ \E u \in Ops : op[u] # Idle)
    /\ UNCHANGED <<wallet, keys, remote, file, next, uploaded, broken, deleted, drift>>

\* Wallet:create generates committee 1 and Wallet:importMnemonic committee 0
\* under a fresh wallet id, so each wallet sees one of them, once.
Born(t, kind, k) ==
    /\ op[t] = Idle
    /\ next = 0
    /\ next' = k + 1
    /\ op' = [op EXCEPT ![t] =
               [kind |-> kind, pc |-> IF k = 0 THEN "header" ELSE "upload",
                row |-> IF k = 0 THEN "mnemonic" ELSE "mpc", seen |-> {},
                new |-> k, todo |-> Committee(k), landed |-> FALSE]]
    /\ UNCHANGED <<wallet, keys, remote, file, history>>

Create(t) == MaxComm > 0 /\ Born(t, "create", 1)
Import(t) == Born(t, "import", 0)

-----------------------------------------------------------------------------
(* Reading: wallet::fetch is two SELECTs. *)

\* No row: restore goes on to persist the file, every other operation ends
\* ("wallet not found").
FetchWallet(t) ==
    /\ At(t, "wallet")
    /\ IF wallet = "none"
       THEN IF Is(t, {"restore"})
            THEN op' = [op EXCEPT ![t].pc = "header", ![t].row = file.mode,
                                  ![t].todo = file.shares]
            ELSE Return(t)
       ELSE op' = [op EXCEPT ![t].pc = "keys", ![t].row = wallet]
    /\ UNCHANGED <<wallet, keys, remote, file, next, history>>

\* Mutant: restore writes the file's shares into the wallet it found.
AfterKeys_RestoresInto(t) ==
    \/ Is(t, {"reshare", "promote"}) /\ op' = [op EXCEPT ![t].pc = "ceremony", ![t].seen = keys]
    \/ Is(t, {"delete"}) /\ Goto(t, "clear")
    \/ Is(t, {"restore"}) /\ op' = [op EXCEPT ![t].pc = "insert", ![t].todo = file.shares]
    \/ Is(t, {"backup"}) /\ op' = [op EXCEPT ![t].pc = "write", ![t].seen = keys]
    \/ Is(t, {"repair"}) /\ Return(t)

\* Where an operation goes with the shares it read. Restore finds the wallet
\* "already present" and reports success whatever its keys are. Repair takes
\* the RemoteKey's row. Backup refuses a wallet without keys.
AfterKeys(t) ==
    \/ Is(t, {"reshare", "promote"}) /\ op' = [op EXCEPT ![t].pc = "ceremony", ![t].seen = keys]
    \/ Is(t, {"delete"}) /\ op' = [op EXCEPT ![t].pc = "clear", ![t].row = "none"]
    \/ Is(t, {"restore"}) /\ Return(t)
    \/ Is(t, {"backup"}) /\ keys # {} /\ op' = [op EXCEPT ![t].pc = "write", ![t].seen = keys]
    \/ Is(t, {"backup"}) /\ keys = {} /\ Return(t)
    \/ /\ Is(t, {"repair"})
       /\ \E s \in keys :
            /\ IsRemote(s)
            /\ op' = [op EXCEPT ![t].pc = "upload", ![t].row = "none", ![t].new = s[1]]
    \/ Is(t, {"repair"}) /\ (\A s \in keys : ~IsRemote(s)) /\ Return(t)

FetchKeys(t) ==
    /\ At(t, "keys")
    /\ AfterKeys(t)
    /\ UNCHANGED <<wallet, keys, remote, file, next, history>>

\* recrypt_key reads one row and opens it with the old descriptor: a local
\* share, or an error (no such key, wrong descriptor, RemoteKey).
FetchKey(t) ==
    /\ At(t, "pick")
    /\ \/ Return(t)
       \/ \E s \in keys : /\ ~IsRemote(s)
                          /\ op' = [op EXCEPT ![t].pc = "clearOne", ![t].todo = {s}]
    /\ UNCHANGED <<wallet, keys, remote, file, next, history>>

\* Wallet:backup hands the entry to the host, which keeps the last one.
WriteFile(t) ==
    /\ At(t, "write")
    /\ file' = [mode |-> op[t].row, shares |-> op[t].seen]
    /\ Return(t)
    /\ UNCHANGED <<wallet, keys, remote, next, history>>

-----------------------------------------------------------------------------
(* Generating a committee and pushing the RemoteKey's share to the server. *)

\* The shares of committee k that can take part: a local one if the operation
\* read it, the RemoteKey's if the server still holds the one of that committee.
Usable(t, k) == {s \in op[t].seen \cap Committee(k) : IsRemote(s) => remote = k}

\* Reshare is for committees, promote for the one share of an import (any other
\* single share is not the wallet's key: the group key would change).
CanGenerate(t) ==
    \/ /\ Is(t, {"reshare"}) /\ op[t].row = "mpc"
       /\ \E k \in Committees : Cardinality(Usable(t, k)) >= Need
    \/ Is(t, {"promote"}) /\ op[t].seen = Committee(0)

Generate(t, pc) ==
    /\ At(t, "ceremony")
    /\ CanGenerate(t)
    /\ next <= MaxComm
    /\ op' = [op EXCEPT ![t].pc = pc, ![t].row = "none", ![t].seen = {},
                        ![t].new = next, ![t].todo = Committee(next)]
    /\ next' = next + 1
    /\ UNCHANGED <<wallet, keys, remote, file, history>>

\* A ceremony that went through: fresh key ids, the same group key.
Ceremony(t) == Generate(t, "upload")

\* The rounds failed, timed out, or the arguments did not fit the wallet.
CeremonyFails(t) ==
    /\ At(t, "ceremony")
    /\ Return(t)
    /\ UNCHANGED <<wallet, keys, remote, file, next, history>>

\* An attempt of Crypto/WalletSign:setGeneratedKey reaches the server. The reply
\* may be lost and the attempt repeated, each of them storing the share anew.
UploadLands(t) ==
    /\ At(t, "upload")
    /\ remote' = op[t].new
    /\ uploaded' = uploaded \cup {op[t].new}
    /\ op' = [op EXCEPT ![t].landed = TRUE]
    /\ UNCHANGED <<wallet, keys, file, next, overlapped, broken, deleted, drift>>

\* Where the persistence begins: the Wallet row of a new wallet, the DELETE of
\* the old committee's rows otherwise. Repair only stamps the session key, a
\* column no one here reads.
AfterUpload(t) ==
    IF Is(t, {"repair"}) THEN Return(t)
    ELSE Goto(t, IF Is(t, {"create"}) THEN "header" ELSE "clear")

\* Mutant: a lost reply counts as a success, even of a request that was lost.
UploadDone_AnyReply(t) ==
    /\ At(t, "upload")
    /\ AfterUpload(t)
    /\ UNCHANGED <<wallet, keys, remote, file, next, history>>

\* The reply of an attempt that landed came back, and the shares after the
\* RemoteKey's could be sealed.
UploadDone(t) ==
    /\ At(t, "upload")
    /\ op[t].landed
    /\ AfterUpload(t)
    /\ drift' = (drift /\ ~Is(t, {"repair"}))
    /\ UNCHANGED <<wallet, keys, remote, file, next, uploaded, overlapped, broken, deleted>>

\* Mutant: the upload is repeated for ever.
UploadFails_Never(t) == FALSE

\* A 4xx, the end of the 300-second budget, or a share after the RemoteKey's that
\* cannot be sealed: the local committee is left as it was.
UploadFails(t) ==
    /\ At(t, "upload")
    /\ Return(t)
    /\ drift' = (drift \/ op[t].landed)
    /\ UNCHANGED <<wallet, keys, remote, file, next, uploaded, overlapped, broken, deleted>>

-----------------------------------------------------------------------------
(* Writing: persist, replace_wallet_keys, recrypt_key and delete. *)

\* persist, first statement: the Wallet row; it fails on the primary key when a
\* concurrent restore of the same file was faster.
InsertWallet(t) ==
    /\ At(t, "header")
    /\ \/ wallet = "none" /\ wallet' = op[t].row
          /\ op' = [op EXCEPT ![t].pc = "insert", ![t].row = "none"]
       \/ wallet # "none" /\ Return(t) /\ UNCHANGED wallet
    /\ UNCHANGED <<keys, remote, file, next, history>>

\* Mutant: the old committee's rows stay beside the new ones.
DeleteKeys_KeepsOld(t) ==
    /\ At(t, "clear")
    /\ keys' = IF Is(t, {"delete"}) THEN {} ELSE keys
    /\ Goto(t, IF Is(t, {"delete"}) THEN "drop" ELSE "insert")
    /\ deleted' = (deleted \/ Is(t, {"delete"}))
    /\ UNCHANGED <<wallet, remote, file, next, uploaded, overlapped, broken, drift>>

\* replace_wallet_keys and delete: DELETE FROM WalletKey WHERE Wallet = id.
DeleteKeys(t) ==
    /\ At(t, "clear")
    /\ keys' = {}
    /\ Goto(t, IF Is(t, {"delete"}) THEN "drop" ELSE "insert")
    /\ deleted' = (deleted \/ Is(t, {"delete"}))
    /\ UNCHANGED <<wallet, remote, file, next, uploaded, overlapped, broken, drift>>

\* Mutant: the share is deleted before it is known that it can be sealed again.
DeleteKey_MayFail(t) ==
    /\ At(t, "clearOne")
    /\ keys' = keys \ op[t].todo
    /\ Goto(t, "insert") \/ Return(t)
    /\ UNCHANGED <<wallet, remote, file, next, history>>

\* recrypt_key: DELETE FROM WalletKey WHERE Id = the key's.
DeleteKey(t) ==
    /\ At(t, "clearOne")
    /\ keys' = keys \ op[t].todo
    /\ Goto(t, "insert")
    /\ UNCHANGED <<wallet, remote, file, next, history>>

\* What follows the last INSERT of a WalletKey row.
AfterInserts(t) ==
    IF Is(t, {"reshare", "promote"}) THEN Goto(t, "stamp") ELSE Return(t)

\* INSERT INTO WalletKey, the shares in the order the caller listed them. One
\* that is there already is a primary key error, which ends the operation.
InsertKey(t) ==
    /\ At(t, "insert")
    /\ \E s \in op[t].todo :
         \/ /\ s \in keys
            /\ Return(t)
            /\ UNCHANGED <<keys, drift>>
         \/ /\ s \notin keys
            /\ keys' = keys \cup {s}
            /\ op' = [op EXCEPT ![t].todo = @ \ {s}]
            /\ drift' = (drift \/ (Is(t, {"restore"}) /\ IsRemote(s) /\ remote # s[1]))
    /\ UNCHANGED <<wallet, remote, file, next, uploaded, overlapped, broken, deleted>>

InsertsDone(t) ==
    /\ At(t, "insert")
    /\ op[t].todo = {}
    /\ AfterInserts(t)
    /\ UNCHANGED <<wallet, keys, remote, file, next, history>>

\* replace_wallet_keys, last statement: UPDATE Wallet SET Gen. The generation is
\* only displayed; the statement is a place to fail or die at.
StampGen(t) ==
    /\ At(t, "stamp")
    /\ IF Is(t, {"promote"}) THEN Goto(t, "protocol") ELSE Return(t)
    /\ UNCHANGED <<wallet, keys, remote, file, next, history>>

\* promote: UPDATE Wallet SET Protocol, Threshold, of a row that may be gone.
SetProtocol(t) ==
    /\ At(t, "protocol")
    /\ wallet' = IF wallet = "none" THEN "none" ELSE "mpc"
    /\ Return(t)
    /\ UNCHANGED <<keys, remote, file, next, history>>

\* delete, second statement.
DeleteWallet(t) ==
    /\ At(t, "drop")
    /\ wallet' = "none"
    /\ Return(t)
    /\ UNCHANGED <<keys, remote, file, next, history>>

-----------------------------------------------------------------------------
\* Everything an operation does of itself, its upload attempts aside.
Advance(t) ==
    \/ FetchWallet(t) \/ FetchKeys(t) \/ FetchKey(t) \/ WriteFile(t)
    \/ Ceremony(t) \/ CeremonyFails(t) \/ UploadDone(t) \/ UploadFails(t)
    \/ InsertWallet(t) \/ DeleteKeys(t) \/ DeleteKey(t) \/ InsertKey(t)
    \/ InsertsDone(t) \/ StampGen(t) \/ SetProtocol(t) \/ DeleteWallet(t)

\* Would an operation that stops here leave the server with a share that the
\* wallet's rows do not have yet?
Ahead(t) == op[t] # Idle /\ op[t].landed

\* A statement fails (a full disk, an I/O error): the error is returned from
\* where it struck, and what was done stays done.
StatementFails(t) ==
    /\ Faulty
    /\ op[t] # Idle /\ op[t].pc \notin {"ceremony", "upload"}
    /\ Return(t)
    /\ broken' = TRUE
    /\ drift' = (drift \/ Ahead(t))
    /\ UNCHANGED <<wallet, keys, remote, file, next, uploaded, overlapped, deleted>>

\* The process dies: the tables, the server and the host's file persist.
Crash ==
    /\ Faulty
    /\ \E t \in Ops : op[t] # Idle
    /\ op' = [t \in Ops |-> Idle]
    /\ broken' = TRUE
    /\ drift' = (drift \/ \E t \in Ops : Ahead(t))
    /\ UNCHANGED <<wallet, keys, remote, file, next, uploaded, overlapped, deleted>>

Next ==
    \/ \E t \in Ops, kind \in Offered : Start(t, kind)
    \/ \E t \in Ops : Create(t) \/ Import(t) \/ UploadLands(t) \/ Advance(t) \/ StatementFails(t)
    \/ Crash

Spec == Init /\ [][Next]_vars

\* A worker that has begun goes on; an upload is given up when its budget ends.
FairSpec == Spec /\ \A t \in Ops : WF_vars(Advance(t))

-----------------------------------------------------------------------------
(* Properties. *)

AtRest == \A t \in Ops : op[t] = Idle

\* The wallet and its rows fit: nothing at all, the imported share under its
\* import row, or one whole committee under a committee's row.
Fits(mode, shares) ==
    \/ mode = "none" /\ shares = {}
    \/ mode = "mnemonic" /\ shares = Committee(0)
    \/ mode = "mpc" /\ \E k \in Committees \ {0} : shares = Committee(k)

\* Operations run one at a time, none of them interrupted, leave a whole wallet
\* and whole backups, through any number of reshares, failed ceremonies, failed
\* uploads, deletes and restores (replace_wallet_keys, persist, delete).
OneWholeCommittee ==
    ~overlapped /\ ~broken =>
        /\ AtRest => Fits(wallet, keys)
        /\ file # NoFile => Fits(file.mode, file.shares)

\* One at a time, but with crashes and failed statements anywhere: shares of two
\* committees are never mixed, and no share is left without its wallet (delete
\* removes the keys first, persist inserts them last).
NeverMixedNorOrphaned ==
    ~overlapped =>
        /\ \E k \in Committees : keys \subseteq Committee(k)
        /\ keys # {} => wallet # "none"

\* The shares an operation has deleted or generated and is about to write.
Pending(t) == IF op[t] # Idle /\ op[t].pc = "insert" THEN op[t].todo ELSE {}

\* However operations overlap, until a crash, a failed statement or a delete, a
\* wallet that was written once has a whole committee in its rows or in the
\* hands of the workers rewriting them: the last DELETE is followed by its own
\* INSERTs (replace_wallet_keys, recrypt_key).
SecretSurvives ==
    wallet # "none" /\ ~broken /\ ~deleted =>
        \E k \in Committees : Committee(k) \subseteq keys \cup UNION {Pending(t) : t \in Ops}

\* The rows never hold a committee the server was not given its share of,
\* whatever overlaps, fails or dies (the upload comes before any DELETE).
RowsWereUploaded ==
    \A s \in keys : s[1] # 0 => s[1] \in uploaded

\* One at a time, the server's share is that of the wallet's own committee,
\* unless an upload was given up after it landed, an operation died between the
\* upload and the rows, or an old backup was restored; and a repair that
\* succeeds puts an end to each of these (repair_remote_key).
RemoteInStep ==
    ~overlapped /\ ~drift /\ AtRest =>
        \A s \in keys : IsRemote(s) => remote = s[1]

\* Every operation ends: ceremonies and uploads are bounded.
OperationsEnd == \A t \in Ops : op[t] # Idle ~> op[t] = Idle

=============================================================================
