----------------------------- MODULE TokenBook -----------------------------
(***************************************************************************)
(* The tokens a host registers (models/token.rs, handlers/token.rs), the   *)
(* list of assets made from them (models/asset.rs) and how a payment finds *)
(* its token (handlers/transaction.rs, handlers/solana_build.rs).          *)
(*                                                                         *)
(* A network has an id of its own, under which it is stored, and a name by *)
(* its chain, by which it can be selected without being stored: what fetch *)
(* answers then has no id. Every step is one statement or one call to the  *)
(* node; calls overlap, and the host selects meanwhile.                    *)
(***************************************************************************)
EXTENDS FiniteSets

CONSTANTS Clerks,    \* threads that serve calls
          Tokens,    \* ids a new token may get
          Contracts,
          Blank      \* no row, no call, no id

VARIABLES
    tokens,   \* the Token table
    selected, \* the current network: which, and by its id or by its key
    holder,   \* the chain of the current account
    call      \* call[c]: the call a thread serves

tokenVars == <<tokens, selected, holder, call>>

Chains == {"evm.1", "evm.137", "tron.mainnet"}
Family(n) == IF n = "tron.mainnet" THEN "tron" ELSE "evm"
\* Account.kind of the chain's accounts, and the type its tokens have by default.
HolderOf(n) == IF Family(n) = "evm" THEN "ethereum" ELSE "tron"
TokenKind(n) == IF Family(n) = "evm" THEN "erc20" ELSE "trc20"
Kinds == {"erc20", "trc20", "nft"}
Refs == [chain : Chains, form : {"id", "key"}]
\* network_id_for: the id is derived from the chain.
Id(n) == <<"net", n>>
ASSUME TokenAssumption == \A n \in Chains : Id(n) # Blank

\* Mutant: the reference is stored as it was given.
ResolveNetworkRef_Verbatim(r) == IF r.form = "id" THEN Id(r.chain) ELSE <<"key", r.chain>>
\* resolve_network_ref
ResolveNetworkRef(r) == Id(r.chain)
\* network::fetch: the stored row, or a network made up from the key.
FetchedId(r) == IF r.form = "id" THEN Id(r.chain) ELSE Blank

\* meant is the network the host named, whatever was made of it.
Row == [network : {Id(n) : n \in Chains}, address : Contracts, kind : Kinds, meant : Chains]
TokenTypeOK ==
    /\ tokens \in [Tokens -> Row \cup {Blank}]
    /\ selected \in Refs /\ holder \in {"ethereum", "tron"}
    /\ call \in [Clerks ->
          {Blank} \cup [op : {"write"}, step : {"delete", "insert"}, token : Tokens, row : Row]
                  \cup [op : {"list"}, step : {"account", "rows", "balances", "shown"}, of : Refs,
                        items : SUBSET [token : Tokens, row : Row], owed : SUBSET Tokens]
                  \cup [op : {"pay"}, step : {"paid"}, on : Chains, row : Row, byId : BOOLEAN]]

Idle == {c \in Clerks : call[c] = Blank}
Takes(c, j) == call' = [call EXCEPT ![c] = j]

TokenInit ==
    /\ tokens = [t \in Tokens |-> Blank]
    /\ selected \in Refs /\ holder \in {"ethereum", "tron"}
    /\ call = [c \in Clerks |-> Blank]

-----------------------------------------------------------------------------
(* Token: POST, PATCH, DELETE. *)

Busy == {call[c].token : c \in {d \in Clerks : call[d] # Blank /\ call[d].op = "write"}}
\* Lists under way no longer owe the token to their caller.
Disturb(t) == [c \in Clerks |-> IF call[c] # Blank /\ call[c].op = "list"
                                THEN [call[c] EXCEPT !.owed = @ \ {t}] ELSE call[c]]
Write(c, t, row, step) ==
    call' = [Disturb(t) EXCEPT ![c] = [op |-> "write", step |-> step, token |-> t, row |-> row]]

\* create: an empty type becomes the chain's own, any other is taken.
Create(c, t, r, a, k) ==
    /\ c \in Idle /\ tokens[t] = Blank /\ t \notin Busy
    /\ k \in {TokenKind(r.chain), "nft"}
    /\ Write(c, t, [network |-> ResolveNetworkRef(r), address |-> a, kind |-> k, meant |-> r.chain], "delete")
    /\ UNCHANGED <<tokens, selected, holder>>

\* update: of what the model keeps, the type can change, to anything.
Update(c, t, k) ==
    /\ c \in Idle /\ tokens[t] # Blank /\ tokens[t].kind # k
    /\ Write(c, t, [tokens[t] EXCEPT !.kind = k], "delete")
    /\ UNCHANGED <<tokens, selected, holder>>

\* save is a DELETE and an INSERT.
SaveDelete(c) ==
    /\ call[c] # Blank /\ call[c].op = "write" /\ call[c].step = "delete"
    /\ tokens' = [tokens EXCEPT ![call[c].token] = Blank]
    /\ Write(c, call[c].token, call[c].row, "insert")
    /\ UNCHANGED <<selected, holder>>
SaveInsert(c) ==
    /\ call[c] # Blank /\ call[c].op = "write" /\ call[c].step = "insert"
    /\ tokens' = [tokens EXCEPT ![call[c].token] = IF @ = Blank THEN call[c].row ELSE @]
    /\ call' = [Disturb(call[c].token) EXCEPT ![c] = Blank]
    /\ UNCHANGED <<selected, holder>>

Delete(c, t) ==
    /\ c \in Idle /\ tokens[t] # Blank
    /\ tokens' = [tokens EXCEPT ![t] = Blank] /\ call' = Disturb(t)
    /\ UNCHANGED <<selected, holder>>

\* A statement fails, or the process dies and every call with it.
GiveUp(c) == call[c] # Blank /\ Takes(c, Blank) /\ UNCHANGED <<tokens, selected, holder>>

-----------------------------------------------------------------------------
(* Asset: list. The item of the chain's own coin, made from a network and an account
   read before, is left out. *)

InList(c, step) == call[c] # Blank /\ call[c].op = "list" /\ call[c].step = step

Reads(c, step, next) == InList(c, step) /\ Takes(c, next) /\ UNCHANGED <<tokens, selected, holder>>
Shown(c) == [call[c] EXCEPT !.step = "shown"]

\* registered_erc20_assets reads the network, the account, the rows and the balances
\* in turn. What the caller is owed: what is registered now, if nobody is at it.
BeginList(c) ==
    /\ c \in Idle
    /\ Takes(c, [op |-> "list", step |-> "account", of |-> selected, items |-> {},
                 owed |-> {t \in Tokens \ Busy : tokens[t] # Blank}])
    /\ UNCHANGED <<tokens, selected, holder>>
ListAccount(c) ==
    Reads(c, "account",
          IF holder = HolderOf(call[c].of.chain) THEN [call[c] EXCEPT !.step = "rows"] ELSE [Shown(c) EXCEPT !.owed = {}])

\* tokens_by_network answers no row for an empty id; the list takes one type.
TokensByNetwork(id) == {t \in Tokens : id # Blank /\ tokens[t] # Blank /\ tokens[t].network = id}
Rows(c) ==
    Reads(c, "rows",
          [call[c] EXCEPT !.step = "balances",
              !.items = {[token |-> t, row |-> tokens[t]] : t \in {u \in TokensByNetwork(FetchedId(call[c].of)) :
                                                                      tokens[u].kind = TokenKind(call[c].of.chain)}}])
\* A token whose balance cannot be read is skipped.
Balances(c) ==
    /\ InList(c, "balances")
    /\ \E heard \in SUBSET call[c].items :
          Reads(c, "balances", [Shown(c) EXCEPT !.items = heard,
                                                !.owed = @ \ {i.token : i \in call[c].items \ heard}])

-----------------------------------------------------------------------------
(* A payment in a token. *)

\* resolve_token_asset, resolve_spl_asset: by its id, or by network and contract.
\* With "key", Solana's also looks under the id derived from the key.
LookupByMint(ids, a) == {t \in UNION {TokensByNetwork(i) : i \in ids} : tokens[t].address = a}
PayByKey(c, a, derived) ==
    /\ c \in Idle
    /\ LET ids == {FetchedId(selected)} \cup (IF derived THEN {Id(selected.chain)} ELSE {})
       IN \E t \in LookupByMint(ids, a) :
              Takes(c, [op |-> "pay", step |-> "paid", on |-> selected.chain, row |-> tokens[t], byId |-> FALSE])
    /\ UNCHANGED <<tokens, selected, holder>>
PayById(c, t) ==
    /\ c \in Idle /\ tokens[t] # Blank
    /\ Takes(c, [op |-> "pay", step |-> "paid", on |-> selected.chain, row |-> tokens[t], byId |-> TRUE])
    /\ UNCHANGED <<tokens, selected, holder>>

\* The host has the answer.
Answered(c) ==
    /\ call[c] # Blank /\ call[c].step \in {"shown", "paid"}
    /\ Takes(c, Blank) /\ UNCHANGED <<tokens, selected, holder>>

SelectNetwork(r) == r # selected /\ selected' = r /\ UNCHANGED <<tokens, holder, call>>
SelectAccount(h) == h # holder /\ holder' = h /\ UNCHANGED <<tokens, selected, call>>

TokenNext ==
    \/ \E c \in Clerks :
          \/ \E t \in Tokens, r \in Refs, a \in Contracts, k \in Kinds : Create(c, t, r, a, k)
          \/ \E t \in Tokens, k \in Kinds : Update(c, t, k)
          \/ SaveDelete(c) \/ SaveInsert(c) \/ GiveUp(c)
          \/ \E t \in Tokens : Delete(c, t) \/ PayById(c, t)
          \/ BeginList(c) \/ ListAccount(c) \/ Rows(c) \/ Balances(c) \/ Answered(c)
          \/ \E a \in Contracts, derived \in BOOLEAN : PayByKey(c, a, derived)
    \/ \E r \in Refs : SelectNetwork(r)
    \/ \E h \in {"ethereum", "tron"} : SelectAccount(h)

TokenSpec == TokenInit /\ [][TokenNext]_tokenVars

-----------------------------------------------------------------------------
\* A token the host registered for a network, whichever way it named the network,
\* is in every list of assets made while that network is selected by its id, the
\* account is of its chain, its balance can be read and nobody writes it; what is
\* listed, or paid with by its network and contract, was registered for the network
\* it is listed or paid on (create, registered_erc20_assets, resolve_token_asset).
RegisteredIsListed ==
    \A c \in Clerks : call[c] # Blank =>
        /\ call[c].step = "shown" /\ call[c].of.form = "id" =>
              \A t \in call[c].owed :
                  tokens[t].meant = call[c].of.chain /\ tokens[t].kind = TokenKind(call[c].of.chain)
                  => \E i \in call[c].items : i.token = t
        /\ call[c].step = "shown" => \A i \in call[c].items : i.row.meant = call[c].of.chain
        /\ call[c].step = "paid" => call[c].row.meant = call[c].on \/ call[c].byId
=============================================================================
