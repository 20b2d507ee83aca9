-------------------------- MODULE TransactionSend --------------------------
(***************************************************************************)
(* One Ethereum account: Transaction:signAndSend and                       *)
(* Account:signAndSendTransaction (handlers/transaction.rs,                *)
(* handlers/account.rs), the sweep of its history                          *)
(* (Transaction:backfill, txhistory.rs) and table Transaction.             *)
(*                                                                         *)
(* The node holds one pending transaction per nonce; the provider lists    *)
(* the mined ones in pages, newest first. A row is of a hash and of a      *)
(* network id: the network's own id, or the empty one a network has when   *)
(* it is named by "type.chainId" (network.rs). A step is one call of the   *)
(* node or of the provider, or one SQL statement that matters.             *)
(***************************************************************************)
EXTENDS Naturals, Sequences

CONSTANTS Threads,  \* worker threads
          Hashes,   \* transactions
          MaxNonce, \* nonces are 0 .. MaxNonce
          PageSize, \* results of a page of history
          MaxPages, \* pages of one sweep
          NoTx      \* no transaction, no job

ASSUME PageAssumption == PageSize \in Nat \ {0} /\ MaxPages \in Nat \ {0} /\ MaxNonce \in Nat

\* Network ids: the stored one, and the empty one of a network named by its chain.
NetIds == {"net", ""}
Nonces == 0..MaxNonce

VARIABLES
    chain,   \* mined transactions, oldest first: the account's own and incoming ones
    pool,    \* pool[n]: the pending transaction of nonce n, or NoTx
    mined,   \* the account's mined transactions: its next nonce
    current, \* the id by which the current network is fetched
    rows,    \* rows[h][n]: rows of h under network n, by who stored them
    job,     \* job[t]: the thread's call, or NoTx
    \* History:
    replaced,  \* pending transactions that another one took the place of
    displaced, \* those of them the node had shown to the send that did
    torn       \* networks where a sweep was cut short or met another, or a row was deleted or
               \* skipped

bookVars == <<chain, pool, mined, current, rows, job, replaced, displaced, torn>>

SendJob  == [call : {"send", "rawSend"}, pc : {"nonce", "broadcast", "record"},
             net : NetIds, tx : Hashes, nonce : Nonces, counted : BOOLEAN, seen : SUBSET Hashes]
SweepJob == [call : {"sweep"}, pc : {"page", "look", "store"}, net : NetIds,
             at : Nat, page : Seq(Hashes), known : BOOLEAN, pages : 0..MaxPages]

ASSUME NoTxAssumption == NoTx \notin SendJob /\ NoTx \notin SweepJob

BookTypeOK ==
    /\ chain \in Seq(Hashes) /\ mined \in 0..(MaxNonce + 1)
    /\ pool \in [Nonces -> Hashes \cup {NoTx}]
    /\ current \in NetIds
    /\ rows \in [Hashes -> [NetIds -> [send : 0..2, sweep : 0..2]]]
    /\ \A t \in Threads : job[t] \in SendJob \cup SweepJob \cup {NoTx}
    /\ replaced \subseteq Hashes /\ displaced \subseteq replaced /\ torn \subseteq NetIds

BookInit ==
    /\ chain = <<>> /\ pool = [n \in Nonces |-> NoTx] /\ mined = 0
    /\ current = ""
    /\ rows = [h \in Hashes |-> [n \in NetIds |-> [send |-> 0, sweep |-> 0]]]
    /\ job = [t \in Threads |-> NoTx]
    /\ replaced = {} /\ displaced = {} /\ torn = {}

At(t, pc)    == job[t] # NoTx /\ job[t].pc = pc
Sends(t)     == job[t] # NoTx /\ job[t].call # "sweep"
Sweeps(t)    == job[t] # NoTx /\ job[t].call = "sweep"
Finish(t)    == job' = [job EXCEPT ![t] = NoTx]
IsMined(h)   == \E i \in DOMAIN chain : chain[i] = h
Pending      == {pool[n] : n \in Nonces} \ {NoTx}
Unused(h)    == ~IsMined(h) /\ h \notin Pending \cup replaced
                /\ \A t \in Threads : Sends(t) => job[t].tx # h
Count(h, n)  == rows[h][n].send + rows[h][n].sweep
Stored(h, n) == Count(h, n) > 0
Twice(k)     == IF k < 2 THEN k + 1 ELSE k  \* rows are counted up to two

-----------------------------------------------------------------------------
(* The node and the rest of the world. *)

\* eth_getTransactionCount of the "pending" state: the first nonce that is free.
PendingCount == IF \A n \in Nonces : n < mined \/ pool[n] # NoTx THEN MaxNonce + 1
                ELSE CHOOSE n \in Nonces : /\ n >= mined /\ pool[n] = NoTx
                                           /\ \A k \in mined..(n - 1) : pool[k] # NoTx

Mine ==
    /\ mined \in Nonces /\ pool[mined] # NoTx
    /\ chain' = Append(chain, pool[mined])
    /\ pool' = [pool EXCEPT ![mined] = NoTx]
    /\ mined' = mined + 1
    /\ UNCHANGED <<current, rows, job, replaced, displaced, torn>>

Incoming(h) ==
    /\ Unused(h) /\ \A n \in NetIds : ~Stored(h, n)
    /\ chain' = Append(chain, h)
    /\ UNCHANGED <<pool, mined, current, rows, job, replaced, displaced, torn>>

\* Nothing is selected at first, and that is Ethereum by its chain, too. setCurrent
\* selects the stored id, an approved wallet_switchEthereumChain
\* the chain's (NetworkRegistry): fetch then answers a network whose id is empty.
Switch ==
    /\ current' \in NetIds \ {current}
    /\ UNCHANGED <<chain, pool, mined, rows, job, replaced, displaced, torn>>

-----------------------------------------------------------------------------
(* Sending. *)

\* The network: the one named (network_ref finds its stored id), or the current one.
\* The caller may pin a nonce. Zero counts as none for Transaction:signAndSend, and is
\* kept by Account:signAndSendTransaction.
BeginSend(t, c, h, named, given, n) ==
    LET pinned == given /\ (n > 0 \/ c = "rawSend") IN
    /\ job[t] = NoTx /\ Unused(h) /\ \A i \in NetIds : ~Stored(h, i)
    /\ job' = [job EXCEPT ![t] =
         [call |-> c, pc |-> IF pinned THEN "broadcast" ELSE "nonce",
          net |-> IF named THEN "net" ELSE current,
          tx |-> h, nonce |-> IF pinned THEN n ELSE 0, counted |-> ~pinned, seen |-> {}]]
    /\ UNCHANGED <<chain, pool, mined, current, rows, replaced, displaced, torn>>

\* Mutant: the count of the mined transactions.
ReadNonce_Latest(t) ==
    /\ At(t, "nonce") /\ mined <= MaxNonce
    /\ job' = [job EXCEPT ![t].nonce = mined, ![t].seen = Pending, ![t].pc = "broadcast"]
    /\ UNCHANGED <<chain, pool, mined, current, rows, replaced, displaced, torn>>

\* An answer that is no number is an error for Transaction:signAndSend (JobFails), and
\* zero for Account:signAndSendTransaction.
ReadNonce(t) ==
    /\ At(t, "nonce")
    /\ \/ /\ PendingCount <= MaxNonce
          /\ job' = [job EXCEPT ![t].nonce = PendingCount, ![t].seen = Pending, ![t].pc = "broadcast"]
       \/ /\ job[t].call = "rawSend"
          /\ job' = [job EXCEPT ![t].nonce = 0, ![t].counted = FALSE, ![t].pc = "broadcast"]
    /\ UNCHANGED <<chain, pool, mined, current, rows, replaced, displaced, torn>>

\* The transaction is signed with the nonce and broadcast. The node refuses a nonce
\* that is mined, and refuses one that is pending or replaces what it held, by the fee.
\* The reply may be lost; only Transaction:signAndSend goes on to store a row.
Broadcast(t) ==
    /\ At(t, "broadcast")
    /\ LET j == job[t]
           held == pool[j.nonce] IN
       \/ /\ j.nonce < mined \/ held # NoTx
          /\ Finish(t)
          /\ UNCHANGED <<pool, replaced, displaced>>
       \/ /\ j.nonce >= mined
          /\ pool' = [pool EXCEPT ![j.nonce] = j.tx]
          /\ replaced' = replaced \cup ({held} \ {NoTx})
          /\ displaced' = IF held \in j.seen /\ j.counted THEN displaced \cup {held} ELSE displaced
          /\ \/ j.call = "send" /\ job' = [job EXCEPT ![t].pc = "record"]
             \/ Finish(t)
    /\ UNCHANGED <<chain, mined, current, rows, torn>>

\* persist, under a new row id.
Record(t) ==
    /\ At(t, "record")
    /\ LET j == job[t] IN rows' = [rows EXCEPT ![j.tx][j.net].send = Twice(@)]
    /\ Finish(t)
    /\ UNCHANGED <<chain, pool, mined, current, replaced, displaced, torn>>

-----------------------------------------------------------------------------
(* The sweep, from the newest transaction back. *)

BeginSweep(t) ==
    /\ job[t] = NoTx
    /\ job' = [job EXCEPT ![t] = [call |-> "sweep", pc |-> "page", net |-> current,
                                  at |-> Len(chain), page |-> <<>>, known |-> FALSE, pages |-> 0]]
    /\ torn' = IF \E u \in Threads : Sweeps(u) /\ job[u].net = current THEN torn \cup {current} ELSE torn
    /\ UNCHANGED <<chain, pool, mined, current, rows, replaced, displaced>>

\* modchain_historyByAddress: the results up to position at, newest first, and a
\* key to continue with when older ones are left.
PageFrom(p) == LET n == IF p < PageSize THEN p ELSE PageSize
               IN  [i \in 1..n |-> chain[p + 1 - i]]

FetchPage(t) ==
    /\ At(t, "page")
    /\ LET j == job[t]
           p == IF j.pages = 0 THEN Len(chain) ELSE j.at IN
       IF p = 0 THEN Finish(t)
       ELSE job' = [job EXCEPT ![t].page = PageFrom(p), ![t].at = p - Len(PageFrom(p)),
                               ![t].pages = @ + 1, ![t].known = FALSE, ![t].pc = "look"]
    /\ UNCHANGED <<chain, pool, mined, current, rows, replaced, displaced, torn>>

\* existing_tx_by_hash, of the hash and the network id: a known result is passed over
\* and makes this page the last.
LookUp(t) ==
    /\ At(t, "look") /\ job[t].page # <<>>
    /\ LET j == job[t]
           h == Head(j.page) IN
       job' = IF Stored(h, j.net) THEN [job EXCEPT ![t].known = TRUE, ![t].page = Tail(@)]
              ELSE [job EXCEPT ![t].pc = "store"]
    /\ UNCHANGED <<chain, pool, mined, current, rows, replaced, displaced, torn>>

\* The result becomes a row; or it carries no data, or could not be fetched, and is
\* passed over.
Store(t) ==
    /\ At(t, "store")
    /\ LET j == job[t] IN
       \/ /\ rows' = [rows EXCEPT ![Head(j.page)][j.net].sweep = Twice(@)]
          /\ UNCHANGED torn
       \/ torn' = torn \cup {j.net} /\ UNCHANGED rows
    /\ job' = [job EXCEPT ![t].pc = "look", ![t].page = Tail(@)]
    /\ UNCHANGED <<chain, pool, mined, current, replaced, displaced>>

\* Mutant: the key to continue with passes over a result.
NextPage_Skips(t) ==
    /\ At(t, "look") /\ job[t].page = <<>>
    /\ LET j == job[t] IN
       IF j.known \/ j.at = 0 \/ j.pages = MaxPages
       THEN Finish(t) /\ torn' = IF ~j.known /\ j.at > 0 THEN torn \cup {j.net} ELSE torn
       ELSE job' = [job EXCEPT ![t].pc = "page", ![t].at = @ - 1] /\ UNCHANGED torn
    /\ UNCHANGED <<chain, pool, mined, current, rows, replaced, displaced>>

\* The page is done: the next one, unless it had a known result, or it was the
\* oldest, or the last allowed.
NextPage(t) ==
    /\ At(t, "look") /\ job[t].page = <<>>
    /\ LET j == job[t] IN
       IF j.known \/ j.at = 0 \/ j.pages = MaxPages
       THEN Finish(t) /\ torn' = IF ~j.known /\ j.at > 0 THEN torn \cup {j.net} ELSE torn
       ELSE job' = [job EXCEPT ![t].pc = "page"] /\ UNCHANGED torn
    /\ UNCHANGED <<chain, pool, mined, current, rows, replaced, displaced>>

-----------------------------------------------------------------------------

\* Transaction DELETE: one row, or clear. Rows go.
DeleteRow(h, n) ==
    /\ Stored(h, n)
    /\ rows' = [rows EXCEPT ![h][n] = [send |-> 0, sweep |-> 0]]
    /\ torn' = torn \cup {n}
    /\ UNCHANGED <<chain, pool, mined, current, job, replaced, displaced>>

\* A call's next request or statement fails, or the process ends.
JobFails(t) ==
    /\ job[t] # NoTx
    /\ torn' = IF Sweeps(t) THEN torn \cup {job[t].net} ELSE torn
    /\ Finish(t)
    /\ UNCHANGED <<chain, pool, mined, current, rows, replaced, displaced>>

ThreadStep(t) ==
    \/ \E c \in {"send", "rawSend"}, h \in Hashes, named, given \in BOOLEAN, n \in Nonces : BeginSend(t, c, h, named, given, n)
    \/ ReadNonce(t) \/ Broadcast(t) \/ Record(t)
    \/ BeginSweep(t) \/ FetchPage(t) \/ LookUp(t) \/ Store(t) \/ NextPage(t)
    \/ JobFails(t)

BookNext ==
    \/ Mine \/ Switch
    \/ \E h \in Hashes : Incoming(h) \/ \E n \in NetIds : DeleteRow(h, n)
    \/ \E t \in Threads : ThreadStep(t)

BookSpec == BookInit /\ [][BookNext]_bookVars

-----------------------------------------------------------------------------
(* Properties *)

\* A payment the node already held when another send asked it for a nonce is not
\* replaced by that send: payments made one after the other all stand, however long
\* they stay pending. Only a pinned nonce, an answer that Account:signAndSendTransaction
\* could not read and counts as zero, or two sends that asked before either broadcast,
\* can take a payment's place.
SendStands == displaced = {}

\* The sweep stops at the first page with a known transaction, so a row promises that
\* everything older is there. A transaction below a row and without one of its own
\* is the work of a send, whose row was stored ahead of its elders, of a sweep cut
\* short or still running, of two sweeps that took each other's rows for older
\* ones, of a transaction that could not be read, or of a deletion.
HolesHaveCause ==
    \A n \in NetIds \ torn : (\A t \in Threads : ~(Sweeps(t) /\ job[t].net = n)) =>
        \A i, j \in DOMAIN chain : i < j /\ Stored(chain[j], n) /\ ~Stored(chain[i], n) =>
            \E s \in (i + 1)..Len(chain) : rows[chain[s]][n].send > 0

=============================================================================
