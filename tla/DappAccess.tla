---------------------------- MODULE DappAccess ----------------------------
(***************************************************************************)
(* Which accounts a dApp sees: tables Account, ConnectedSite and the       *)
(* current item "account" (models/account.rs, models/connected_site.rs),   *)
(* the host's calls on them (handlers/account.rs, Web3/Connection), and    *)
(* the Web3 methods that read, sign for, or revoke connected accounts      *)
(* (handlers/web3.rs).                                                     *)
(*                                                                         *)
(* An account is derived from a wallet: its id, its chain and its index    *)
(* never change, only its row comes and goes. A link is a row (host,       *)
(* account) with an id of its own. Every call runs on a worker; a step is  *)
(* one SQL statement.                                                      *)
(***************************************************************************)
EXTENDS Naturals, FiniteSets

CONSTANTS Workers,  \* worker threads
          Hosts,    \* dApp origins
          Accounts, \* account ids: a creation takes a fresh one
          MaxLink,  \* BOUND: link ids, in order of creation
          MaxIndex, \* BOUND: derivation indices
          Nothing   \* no operation, no account

ASSUME AccessAssumption == MaxLink \in Nat /\ MaxIndex \in Nat

\* Chains an account can be of, and what an EVM method shows of them.
Chains == {"ethereum", "solana"}

\* The calls: of the host, and of a dApp through Web3:request.
HostCalls == {"create", "createAt", "view", "restore", "delete", "select", "connect", "unlink"}
DappCalls == {"accounts", "solana", "sign", "revoke"}

VARIABLES
    rows,     \* account ids with a row
    chain,    \* chain[a], index[a], watch: what the account was created with;
    index,    \*   watch accounts have no wallet and no index of their own
    watch,
    made,     \* ids handed out
    links,    \* rows of ConnectedSite
    linkId,   \* link ids handed out
    current,  \* the current account's id, or Nothing
    work,     \* work[t]: the worker's call and its locals, or Nothing
    \* History:
    granted,  \* <<host, account>> the user approved and nobody revoked since
    kept,     \* the same once the approval has returned, until a revocation begins
    left,     \* links a failed cleanup of their account's deletion left behind
    leaked,   \* pairs shown to a dApp without being granted during the call
    raced     \* chains on which two index-taking calls overlapped

book    == <<rows, chain, index, watch, made, current>>
sites   == <<links, linkId>>
history == <<granted, kept, left, leaked, raced>>
accessVars == <<book, sites, work, history>>

Pairs == Hosts \X Accounts
Pair(l) == <<l.host, l.account>>

\* todo: the accounts the call is about, or still to connect; list: the links it
\* read and has still to look at; got: the accounts found (one, when connecting).
\* pairs is history: what a dApp's call may show, what a revocation takes back,
\* what an approval adds and no revocation took back since it began.
Work == [call : HostCalls \cup DappCalls, pc : {"find", "find2", "read", "choose", "insert",
                                                "setCurrent", "deleteLinks", "deleteRow", "unlink"},
         host : Hosts \cup {Nothing}, todo : SUBSET Accounts, chain : Chains, index : 0 .. MaxIndex,
         list : SUBSET [id : 1 .. MaxLink, host : Hosts, account : Accounts],
         got : SUBSET Accounts, pairs : SUBSET Pairs]

AccessTypeOK ==
    /\ rows \subseteq made /\ made \subseteq Accounts
    /\ chain \in [Accounts -> Chains] /\ index \in [Accounts -> 0 .. MaxIndex]
    /\ watch \subseteq Accounts
    /\ links \subseteq [id : 1 .. MaxLink, host : Hosts, account : Accounts]
    /\ linkId \in 0 .. MaxLink
    /\ current \in Accounts \cup {Nothing}
    /\ \A t \in Workers : work[t] \in Work \cup {Nothing}
    /\ granted \subseteq Pairs /\ kept \subseteq Pairs /\ left \subseteq links
    /\ leaked \subseteq Pairs
    /\ raced \subseteq Chains

AccessInit ==
    /\ rows = {} /\ made = {} /\ watch = {}
    /\ chain = [a \in Accounts |-> "ethereum"] /\ index = [a \in Accounts |-> 0]
    /\ links = {} /\ linkId = 0 /\ current = Nothing
    /\ work = [t \in Workers |-> Nothing]
    /\ granted = {} /\ kept = {} /\ left = {} /\ leaked = {} /\ raced = {}

Busy(t)     == work[t] # Nothing
At(t, pc)   == Busy(t) /\ work[t].pc = pc
Is(t, cs)   == Busy(t) /\ work[t].call \in cs
Goto(t, pc) == work' = [work EXCEPT ![t].pc = pc]
Return(t)   == work' = [work EXCEPT ![t] = Nothing]

Revoking == {"revoke", "unlink", "delete"}

\* Pairs some worker is just connecting.
Connecting == {p \in Pairs : \E t \in Workers : Is(t, {"connect"}) /\ p[1] = work[t].host /\ p[2] \in work[t].todo}

\* Pairs a revocation in flight is about.
About(u) == IF Is(u, {"delete"}) THEN Hosts \X work[u].todo
            ELSE IF Is(u, {"revoke"}) THEN {work[u].host} \X Accounts
            ELSE IF Is(u, {"unlink"}) THEN {Pair(l) : l \in work[u].list} ELSE {}
Withdrawing == UNION {About(u) : u \in Workers}

-----------------------------------------------------------------------------
(* Beginning a call. *)

Call(c, pc, h, as, k, i, ps) ==
    [call |-> c, pc |-> pc, host |-> h, todo |-> as, chain |-> k, index |-> i,
     list |-> {}, got |-> {}, pairs |-> ps]

\* POST Account and Account:createView: with an index, without one (the next
\* free one is taken), or a watch account of a bare address or xpub.
BeginCreate(t, c, k, i) ==
    /\ ~Busy(t)
    /\ c \in {"create", "createAt", "view"}
    /\ work' = [work EXCEPT ![t] = Call(c, IF c = "view" THEN "insert" ELSE "read", Nothing, {}, k, i, {})]
    /\ raced' = IF c # "view" /\ \E u \in Workers : Is(u, {"create", "createAt", "restore"}) /\ work[u].chain = k
                THEN raced \cup {k} ELSE raced
    /\ UNCHANGED <<book, sites, granted, kept, left, leaked>>

\* Wallet:restore brings an account back under the id it was backed up with.
BeginRestore(t, a) ==
    /\ ~Busy(t)
    /\ a \in made \ watch
    /\ work' = [work EXCEPT ![t] = Call("restore", "find", Nothing, {a}, chain[a], index[a], {})]
    /\ raced' = IF \E u \in Workers : Is(u, {"create", "createAt", "restore"}) /\ work[u].chain = chain[a]
                THEN raced \cup {chain[a]} ELSE raced
    /\ UNCHANGED <<book, sites, granted, kept, left, leaked>>

\* Account:setCurrent.
BeginSelect(t, a) ==
    /\ ~Busy(t)
    /\ a \in made
    /\ work' = [work EXCEPT ![t] = Call("select", "find", Nothing, {a}, chain[a], 0, {})]
    /\ UNCHANGED <<book, sites, history>>

\* Request:approve of a connect request with the accounts the user picked, or
\* POST Web3/Connection with one. The approval counts from here.
BeginConnect(t, h, as) ==
    /\ ~Busy(t)
    /\ as \subseteq made /\ as # {}
    /\ LET new == {h} \X as IN
       /\ granted' = granted \cup new
       /\ work' = [u \in Workers |->
            IF u = t THEN Call("connect", "find", h, as, "ethereum", 0, new \ Withdrawing)
            ELSE IF Is(u, DappCalls \ {"revoke"}) THEN [work[u] EXCEPT !.pairs = @ \cup new]
            ELSE IF Is(u, Revoking) THEN [work[u] EXCEPT !.pairs = @ \ new]
            ELSE work[u]]
    /\ UNCHANGED <<book, sites, kept, left, leaked, raced>>

\* A revocation of ps begins: it takes back what is not being connected just now.
BeginWithdrawal(t, c, pc, h, as, ls, ps) ==
    /\ ~Busy(t)
    /\ work' = [u \in Workers |->
          IF u = t THEN [Call(c, pc, h, as, "ethereum", 0, ps \ Connecting) EXCEPT !.list = ls]
          ELSE IF Is(u, {"connect"}) THEN [work[u] EXCEPT !.pairs = @ \ ps] ELSE work[u]]
    /\ kept' = kept \ ps
    /\ UNCHANGED <<book, sites, granted, left, leaked, raced>>

\* wallet_revokePermissions and solana_disconnect: every link of the origin.
BeginRevoke(t, h) ==
    /\ BeginWithdrawal(t, "revoke", "read", h, {}, {}, {h} \X Accounts)

\* DELETE Web3/Connection/<id>: the host has the id from a listing.
BeginUnlink(t, l) ==
    /\ l \in links
    /\ BeginWithdrawal(t, "unlink", "unlink", l.host, {}, {l}, {Pair(l)})

\* DELETE Account/<id>.
BeginDelete(t, a) ==
    /\ a \in made
    /\ BeginWithdrawal(t, "delete", "find", Nothing, {a}, {}, Hosts \X {a})

\* eth_accounts, wallet_getPermissions, solana_accounts, the tail of the connect
\* methods, and the methods that sign for a connected account.
BeginDapp(t, c, h) ==
    /\ ~Busy(t)
    /\ c \in {"accounts", "solana", "sign"}
    /\ LET may == granted \cup {Pair(l) : l \in left} IN
       work' = [work EXCEPT ![t] = Call(c, "read", h, {}, "ethereum", 0, may \cap ({h} \X Accounts))]
    /\ UNCHANGED <<book, sites, history>>

-----------------------------------------------------------------------------
(* Accounts: create, createView, restore, setCurrent and delete. *)

\* The accounts of the wallet on the call's chain, watch accounts are of no wallet.
Siblings(t) == {a \in rows \ watch : chain[a] = work[t].chain}

\* next_index: one past the highest index in use.
NextIndex(t) == IF Siblings(t) = {} THEN 0
                ELSE 1 + CHOOSE i \in {index[a] : a \in Siblings(t)} : \A a \in Siblings(t) : index[a] <= i

\* at_index
AtIndex(t) == {a \in Siblings(t) : index[a] = work[t].index}

\* Mutant: the number of accounts is taken for the next free index.
PickIndex_Count(t) ==
    /\ At(t, "read") /\ Is(t, {"create", "createAt"})
    /\ IF Is(t, {"create"})
       THEN /\ Cardinality(Siblings(t)) <= MaxIndex
            /\ work' = [work EXCEPT ![t].index = Cardinality(Siblings(t)), ![t].pc = "insert"]
       ELSE IF AtIndex(t) # {} THEN Return(t) ELSE Goto(t, "insert")
    /\ UNCHANGED <<book, sites, history>>

\* POST Account: an explicit index that is in use is answered with its account.
PickIndex(t) ==
    /\ At(t, "read") /\ Is(t, {"create", "createAt"})
    /\ IF Is(t, {"create"})
       THEN /\ NextIndex(t) <= MaxIndex \* BOUND
            /\ work' = [work EXCEPT ![t].index = NextIndex(t), ![t].pc = "insert"]
       ELSE IF AtIndex(t) # {} THEN Return(t) ELSE Goto(t, "insert")
    /\ UNCHANGED <<book, sites, history>>

\* What is derived for a new account: key, path and address are functions of the
\* wallet, the chain and the index, which the account keeps for good.
NewAccount(t, a) ==
    /\ a \notin made /\ made' = made \cup {a}
    /\ chain' = [chain EXCEPT ![a] = work[t].chain]
    /\ index' = [index EXCEPT ![a] = work[t].index]
    /\ watch' = IF Is(t, {"view"}) THEN watch \cup {a} ELSE watch

\* persist's INSERT, under a fresh id; restore inserts the id it was given (a
\* primary key error if somebody did so meanwhile) and selects nothing.
InsertAccount(t, a) ==
    /\ At(t, "insert") /\ Is(t, {"create", "createAt", "view", "restore"})
    /\ rows' = rows \cup {a}
    /\ IF Is(t, {"restore"})
       THEN a \in work[t].todo /\ Return(t) /\ UNCHANGED <<made, chain, index, watch>>
       ELSE NewAccount(t, a) /\ work' = [work EXCEPT ![t].pc = "setCurrent", ![t].todo = {a}]
    /\ UNCHANGED <<current, sites, history>>

\* restore: an account that is present, by id or by index, is left alone.
RestoreLooks(t) ==
    /\ Is(t, {"restore"})
    /\ \/ At(t, "find") /\ IF work[t].todo \subseteq rows THEN Return(t) ELSE Goto(t, "find2")
       \/ At(t, "find2") /\ IF AtIndex(t) # {} THEN Return(t) ELSE Goto(t, "insert")
    /\ UNCHANGED <<book, sites, history>>

\* The look of setCurrent and of delete at the account they are about.
FindAccount(t) ==
    /\ At(t, "find") /\ Is(t, {"select", "delete"})
    /\ IF ~(work[t].todo \subseteq rows) THEN Return(t)
       ELSE Goto(t, IF Is(t, {"select"}) THEN "setCurrent" ELSE "deleteLinks")
    /\ UNCHANGED <<book, sites, history>>

\* A creation selects what it created, whatever happened to it meanwhile.
SetCurrent(t) ==
    /\ At(t, "setCurrent")
    /\ \E a \in work[t].todo : current' = a
    /\ Return(t)
    /\ UNCHANGED <<rows, chain, index, watch, made, sites, history>>

\* delete: the links first, whose failure is ignored, then the row.
DeleteLinks(t) ==
    /\ At(t, "deleteLinks")
    /\ LET ls == {l \in links : l.account \in work[t].todo} IN
       \/ links' = links \ ls /\ left' = left \ ls
       \/ UNCHANGED links /\ left' = left \cup ls
    /\ Goto(t, "deleteRow")
    /\ UNCHANGED <<book, linkId, granted, kept, leaked, raced>>

DeleteRow(t) ==
    /\ At(t, "deleteRow")
    /\ rows' = rows \ work[t].todo
    /\ granted' = granted \ work[t].pairs
    /\ Return(t)
    /\ UNCHANGED <<chain, index, watch, made, current, sites, kept, left, leaked, raced>>

-----------------------------------------------------------------------------
(* Links: connect, disconnect, and what the dApp's methods read. *)

OfHost(h) == {l \in links : l.host = h}

\* approve_connect, one account after the other: it must exist when it is looked at.
ConnectFind(t) ==
    /\ At(t, "find") /\ Is(t, {"connect"})
    /\ \E a \in work[t].todo :
         IF a \in rows THEN work' = [work EXCEPT ![t].got = {a}, ![t].pc = "read"] ELSE Return(t)
    /\ UNCHANGED <<book, sites, history>>

\* The account at hand is linked: on to the next, or the approval is done.
NextAccount(t) ==
    LET rest == work[t].todo \ work[t].got IN
    IF rest = {} THEN Return(t) /\ kept' = kept \cup work[t].pairs
    ELSE work' = [work EXCEPT ![t].todo = rest, ![t].pc = "find"] /\ UNCHANGED kept

\* Mutant: an origin that has a link is taken for connected.
ConnectRead_Any(t) ==
    /\ At(t, "read") /\ Is(t, {"connect"})
    /\ IF OfHost(work[t].host) # {} THEN NextAccount(t) ELSE Goto(t, "insert") /\ UNCHANGED kept
    /\ UNCHANGED <<book, sites, granted, left, leaked, raced>>

\* connect does nothing for an account it finds linked.
ConnectRead(t) ==
    /\ At(t, "read") /\ Is(t, {"connect"})
    /\ IF \E l \in OfHost(work[t].host) : l.account \in work[t].got
       THEN NextAccount(t) ELSE Goto(t, "insert") /\ UNCHANGED kept
    /\ UNCHANGED <<book, sites, granted, left, leaked, raced>>

\* The unique index refuses a second link of a pair, which fails the approval.
ConnectInsert(t) ==
    /\ At(t, "insert") /\ Is(t, {"connect"})
    /\ linkId < MaxLink \* BOUND
    /\ IF \E l \in OfHost(work[t].host) : l.account \in work[t].got
       THEN Return(t) /\ UNCHANGED <<sites, kept>>
       ELSE /\ linkId' = linkId + 1
            /\ links' = links \cup {[id |-> linkId', host |-> work[t].host, account |-> a] : a \in work[t].got}
            /\ NextAccount(t)
    /\ UNCHANGED <<book, granted, left, leaked, raced>>

\* for_host: the links of the calling frame's origin.
ReadLinks(t) ==
    /\ At(t, "read") /\ Is(t, DappCalls)
    /\ work' = [work EXCEPT ![t].list = OfHost(work[t].host), ![t].pc =
                  IF Is(t, {"revoke"}) THEN "unlink" ELSE IF Is(t, {"sign"}) THEN "choose" ELSE "find"]
    /\ UNCHANGED <<book, sites, history>>

\* The first of an origin's links: the current account's, else the earliest.
First(ls) ==
    LET cur == {l \in ls : l.account = current} IN
    IF cur # {} THEN cur ELSE {l \in ls : \A m \in ls : l.id <= m.id}

\* The links a dApp can name by the address of their account.
Named(ls) == {l \in ls : l.account \in rows}

\* personal_sign and the others that sign take the account the dApp named among
\* the connected ones, or the first of them.
ChooseSigner(t) ==
    /\ At(t, "choose")
    /\ IF work[t].list = {} THEN Return(t)
       ELSE \E l \in First(work[t].list) \cup Named(work[t].list) :
              work' = [work EXCEPT ![t].list = {l}, ![t].pc = "find"]
    /\ UNCHANGED <<book, sites, history>>

\* Nobody shows an account that is gone; an EVM method only those of its chain.
Visible(t, a) == a \in rows /\ (Is(t, {"accounts"}) => chain[a] = "ethereum")

\* find, for each link read; then the answer, or the signing prompt.
ShowAccount(t) ==
    /\ At(t, "find") /\ Is(t, DappCalls)
    /\ IF work[t].list = {}
       THEN /\ leaked' = leaked \cup (({work[t].host} \X work[t].got) \ work[t].pairs)
            /\ Return(t)
       ELSE /\ \E l \in work[t].list :
                 work' = [work EXCEPT ![t].list = @ \ {l}, ![t].got = @ \cup {a \in {l.account} : Visible(t, a)}]
            /\ UNCHANGED leaked
    /\ UNCHANGED <<book, sites, granted, kept, left, raced>>

\* Mutant: a disconnection removes the first link only.
RemoveLink_First(t) ==
    /\ At(t, "unlink")
    /\ links' = links \ {l \in work[t].list : \A m \in work[t].list : l.id <= m.id}
    /\ granted' = granted \ work[t].pairs
    /\ Return(t)
    /\ UNCHANGED <<book, linkId, kept, left, leaked, raced>>

\* Links are deleted by id, one statement each.
RemoveLink(t) ==
    /\ At(t, "unlink")
    /\ IF work[t].list = {}
       THEN Return(t) /\ granted' = granted \ work[t].pairs /\ UNCHANGED <<links, left>>
       ELSE /\ \E l \in work[t].list :
                 /\ links' = links \ {l} /\ left' = left \ {l}
                 /\ work' = [work EXCEPT ![t].list = @ \ {l}]
            /\ UNCHANGED granted
    /\ UNCHANGED <<book, linkId, kept, leaked, raced>>

\* A statement other than the one whose failure delete ignores ends its call.
AccessFails(t) ==
    /\ Busy(t) /\ ~At(t, "deleteLinks")
    /\ Return(t)
    /\ UNCHANGED <<book, sites, history>>

-----------------------------------------------------------------------------
AccessBegin(t) ==
    \/ \E c \in {"create", "createAt", "view"}, k \in Chains, i \in 0 .. MaxIndex :
         BeginCreate(t, c, k, IF c = "createAt" THEN i ELSE 0)
    \/ \E a \in Accounts : BeginRestore(t, a) \/ BeginSelect(t, a) \/ BeginDelete(t, a)
    \/ \E h \in Hosts : BeginRevoke(t, h)
    \/ \E h \in Hosts, as \in SUBSET Accounts : BeginConnect(t, h, as)
    \/ \E h \in Hosts, c \in DappCalls : BeginDapp(t, c, h)
    \/ \E l \in links : BeginUnlink(t, l)

AccessStep(t) ==
    \/ PickIndex(t) \/ RestoreLooks(t) \/ FindAccount(t) \/ SetCurrent(t)
    \/ \E a \in Accounts : InsertAccount(t, a)
    \/ DeleteLinks(t) \/ DeleteRow(t)
    \/ ConnectFind(t) \/ ConnectRead(t) \/ ConnectInsert(t)
    \/ ReadLinks(t) \/ ChooseSigner(t) \/ ShowAccount(t) \/ RemoveLink(t)

AccessNext == \E t \in Workers : AccessBegin(t) \/ AccessStep(t) \/ AccessFails(t)

AccessSpec == AccessInit /\ [][AccessNext]_accessVars

-----------------------------------------------------------------------------
(* Properties *)

\* A dApp is shown, or asks a signature of, accounts the user approved for its own
\* origin and nobody revoked: not those of another origin, nor any that was
\* disconnected or deleted before the call began, also once the account is
\* restored under its old id. Approvals, revocations and deletions overlap. The
\* code makes one exception: a link that account::delete failed to clean up
\* (`left`) shows its account again when that is restored, until it is removed.
ShownByConsent == leaked = {}

\* An approval that returned success holds until somebody begins to revoke it.
ApprovalHolds == \A p \in kept : \E l \in links : Pair(l) = p

\* Two accounts of a wallet share an index only if two creations or restorations
\* of that chain overlapped: a deletion in between re-issues no index in use.
OneAccountPerIndex ==
    \A a, b \in rows \ watch :
        a # b /\ chain[a] = chain[b] /\ index[a] = index[b] => chain[a] \in raced

=============================================================================
