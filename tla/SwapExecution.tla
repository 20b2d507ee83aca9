--------------------------- MODULE SwapExecution ---------------------------
(***************************************************************************)
(* Swap:quote and Swap:execute (handlers/swap.rs, swap.rs): a quote is     *)
(* cached for the account it was made for; executing it fetches the swap   *)
(* transaction from the aggregator, checks it against the quote, signs it  *)
(* and hands it to the aggregator, which accepts it as an order and        *)
(* settles it later. On Solana a failure that a fresh blockhash may cure   *)
(* starts over, up to three times. The host executes a quote again when a  *)
(* call answered with an error.                                            *)
(*                                                                         *)
(* A step is one request to the aggregator or the node, or one read of the *)
(* database. Of a swap transaction the model keeps what the guard of the   *)
(* quote looks at; the body of a Solana transaction is opaque to it.       *)
(***************************************************************************)
EXTENDS Naturals, FiniteSets

CONSTANTS Callers,  \* worker threads
          Quotes,   \* quotes
          Solana,   \* those of them on Solana; the others are on an EVM chain
          Payers,   \* accounts of the quotes' chains
          MaxOrder, \* bound: transactions handed over
          Unset     \* no call, no quote

ASSUME SwapAssumption == Solana \subseteq Quotes /\ MaxOrder \in Nat /\ Unset \notin Payers

\* OKX_SOLANA_BROADCAST_ATTEMPTS
Attempts == 3

VARIABLES
    quote,    \* quote[q]: the cached quote, or Unset
    expired,  \* quotes past their expiry (or evicted)
    removed,  \* accounts deleted
    payer,    \* the account a call finds that names none, or Unset when there is none
    exec,     \* exec[c]: the execution under way, or Unset
    orders,   \* orders[n]: transactions handed to the aggregator
    \* History:
    lost,     \* accounts deleted at some time
    doubtful  \* quotes with two executions at once, or an order whose answer was lost

swapVars == <<quote, expired, removed, payer, exec, orders, lost, doubtful>>

\* CachedQuote: its account, if there was one, and whether its router is known.
CachedQuote == [for : Payers \cup {Unset}, router : BOOLEAN]

\* The aggregator's transaction: the least it says it will pay out (nothing that is a
\* number, at least the floor, which is the quote's minimum less one slippage, or
\* below it), where it goes and the value it moves.
Tx == [min : {"blank", "floor", "below"}, to : {"router", "other"}, value : {"quoted", "other"}]

Exec  == [quote : Quotes, pc : {"fetch", "nonce", "handOver", "await"}, by : Payers, named : BOOLEAN,
          attempt : 1..Attempts, tx : Tx \cup {Unset}, nonce : Nat, order : 0..MaxOrder]
Order == [quote : Quotes, by : Payers, named : BOOLEAN, tx : Tx, nonce : Nat,
          state : {"flying", "landed", "failed"}]

SwapTypeOK ==
    /\ quote \in [Quotes -> CachedQuote \cup {Unset}]
    /\ expired \subseteq Quotes /\ doubtful \subseteq Quotes
    /\ removed \subseteq Payers /\ lost \subseteq Payers /\ payer \in Payers \cup {Unset}
    /\ exec \in [Callers -> Exec \cup {Unset}]
    /\ DOMAIN orders \subseteq 1..MaxOrder /\ \A n \in DOMAIN orders : orders[n] \in Order

\* Who is found among the accounts that are left.
Found(gone) == IF Payers \subseteq gone THEN {Unset} ELSE Payers \ gone

SwapInit ==
    /\ quote = [q \in Quotes |-> Unset] /\ expired = {} /\ lost = {}
    /\ removed \in SUBSET Payers /\ payer \in Found(removed)
    /\ exec = [c \in Callers |-> Unset]
    /\ orders = [n \in {} |-> Unset] /\ doubtful = {}

Executing(c, pc) == exec[c] # Unset /\ exec[c].pc = pc
Answer(c)   == exec' = [exec EXCEPT ![c] = Unset]
Landed(q)   == {n \in DOMAIN orders : orders[n].quote = q /\ orders[n].state = "landed"}
Of(a)       == {n \in DOMAIN orders : orders[n].by = a /\ orders[n].quote \notin Solana}
NextNonce(a) == Cardinality({n \in Of(a) : orders[n].state = "landed"})

-----------------------------------------------------------------------------
(* Quotes, accounts. *)

\* quote, finalize_quote: resolve_account takes the account named, or finds one; with
\* none of the chain the quote is of no account. The router is looked up for a token
\* of an account, and stays unknown when that fails.
Quote(q, a, router) ==
    /\ quote[q] = Unset /\ a \in Found(removed)
    /\ router => q \notin Solana /\ a # Unset
    /\ quote' = [quote EXCEPT ![q] = [for |-> a, router |-> router]]
    /\ UNCHANGED <<expired, removed, payer, exec, orders, lost, doubtful>>

\* QUOTE_TTL goes by, and then QUOTE_CACHE_TTL.
ExpireQuote(q) ==
    /\ quote[q] # Unset /\ q \notin expired
    /\ expired' = expired \cup {q}
    /\ UNCHANGED <<quote, removed, payer, exec, orders, lost, doubtful>>

SetPayer(a) ==
    /\ payer' = a /\ a # payer /\ a \notin removed
    /\ UNCHANGED <<quote, expired, removed, exec, orders, lost, doubtful>>

RemovePayer(a) ==
    /\ a \notin removed
    /\ removed' = removed \cup {a} /\ lost' = lost \cup {a}
    /\ payer' \in IF a = payer THEN Found(removed') ELSE {payer}
    /\ UNCHANGED <<quote, expired, exec, orders, doubtful>>

\* An account restored under its id is the current one again if it was.
RestorePayer(a) ==
    /\ a \in removed
    /\ removed' = removed \ {a}
    /\ payer' \in IF payer = Unset THEN {a} ELSE {payer, a}
    /\ UNCHANGED <<quote, expired, exec, orders, lost, doubtful>>

-----------------------------------------------------------------------------
(* Executing. *)

\* Mutant: the account current now.
PayingAccount_Current(q, named) == IF named # Unset THEN named ELSE payer

\* execute_account: the one named, else the quote's, else (the quote has none, or it
\* was deleted) the one that is found.
PayingAccount(q, named) ==
    CASE named # Unset                                                   -> named
      [] named = Unset /\ quote[q].for \notin removed \cup {Unset}       -> quote[q].for
      [] OTHER                                                           -> payer

\* load_quote and the account. A host that got an answer without an error does not
\* ask again.
Execute(c, q, named) ==
    /\ exec[c] = Unset /\ quote[q] # Unset /\ q \notin expired
    /\ \A n \in DOMAIN orders : orders[n].quote = q => orders[n].state = "failed" \/ q \in doubtful
    /\ LET a == PayingAccount(q, named) IN
       /\ a \notin removed \cup {Unset}
       /\ exec' = [exec EXCEPT ![c] = [quote |-> q, pc |-> "fetch", by |-> a, named |-> named # Unset, attempt |-> 1,
                                       tx |-> Unset, nonce |-> 0, order |-> 0]]
    /\ doubtful' = IF \E d \in Callers \ {c} : exec[d] # Unset /\ exec[d].quote = q
                   THEN doubtful \cup {q} ELSE doubtful
    /\ UNCHANGED <<quote, expired, removed, payer, orders, lost>>

\* ExecuteGuard.check: a minimum that is stated is not below the floor; a router that is
\* known is where it goes; on an EVM chain the value is the quote's.
Check(q, tx) ==
    /\ tx.min # "below"
    /\ quote[q].router => tx.to = "router"
    /\ q \notin Solana => tx.value = "quoted"

\* The aggregator's transaction, fetched and checked at every attempt. One that does not
\* pass ends the call.
Fetch(c) ==
    /\ Executing(c, "fetch")
    /\ \E tx \in Tx :
         IF Check(exec[c].quote, tx) /\ exec[c].by \notin removed
         THEN exec' = [exec EXCEPT ![c].tx = tx,
                                   ![c].pc = IF exec[c].quote \in Solana THEN "handOver" ELSE "nonce"]
         ELSE Answer(c)
    /\ UNCHANGED <<quote, expired, removed, payer, orders, lost, doubtful>>

\* eth_getTransactionCount: the node does not see orders the aggregator keeps private.
\* An answer that is no number counts as zero.
FetchNonce(c) ==
    /\ Executing(c, "nonce")
    /\ \E n \in (NextNonce(exec[c].by)..Cardinality(Of(exec[c].by))) \cup {0} :
         exec' = [exec EXCEPT ![c].nonce = n, ![c].pc = "handOver"]
    /\ UNCHANGED <<quote, expired, removed, payer, orders, lost, doubtful>>

Again(c) == exec[c].quote \in Solana /\ exec[c].attempt < Attempts
Retry(c) == exec' = [exec EXCEPT ![c].attempt = @ + 1, ![c].pc = "fetch"]

\* Signed and handed over (okx_broadcast_swap_tx). It is accepted, with an order to
\* await or without one, or not; or accepted and the answer lost, which Solana may take
\* for a reason to start over, and so for two orders in flight.
HandOver(c) ==
    /\ Executing(c, "handOver")
    /\ LET e == exec[c]
           n == Cardinality(DOMAIN orders) + 1
           accepted == orders' = [i \in DOMAIN orders \cup {n} |->
                         IF i # n THEN orders[i]
                         ELSE [quote |-> e.quote, by |-> e.by, named |-> e.named, tx |-> e.tx, nonce |-> e.nonce,
                               state |-> "flying"]] IN
       \/ /\ n <= MaxOrder /\ accepted
          /\ exec' = [exec EXCEPT ![c].pc = "await", ![c].order = n] \/ Answer(c)
          /\ UNCHANGED doubtful
       \/ /\ n <= MaxOrder /\ accepted
          /\ doubtful' = doubtful \cup {e.quote}
          /\ Answer(c) \/ (Again(c) /\ Retry(c))
       \/ /\ UNCHANGED <<orders, doubtful>>
          /\ Answer(c) \/ (Again(c) /\ Retry(c))
    /\ UNCHANGED <<quote, expired, removed, payer, lost>>

\* Mutant: an order still pending at the end of the wait counts as timed out.
Await_Impatient(c) ==
    /\ Executing(c, "await")
    /\ IF orders[exec[c].order].state = "landed" THEN Answer(c)
       ELSE Answer(c) \/ (Again(c) /\ Retry(c))
    /\ UNCHANGED <<quote, expired, removed, payer, orders, lost, doubtful>>

\* okx_await_order: landed or still pending after the wait, the call answers with
\* success; failed, with an error or, on Solana, for some reasons, it starts over.
Await(c) ==
    /\ Executing(c, "await")
    /\ IF orders[exec[c].order].state = "failed"
       THEN Answer(c) \/ (Again(c) /\ Retry(c))
       ELSE Answer(c)
    /\ UNCHANGED <<quote, expired, removed, payer, orders, lost, doubtful>>

\* A request or the signature fails before anything is handed over, or the process
\* ends in the middle of a hand-over's wait: the host never got an answer.
ExecFails(c) ==
    /\ exec[c] # Unset
    /\ doubtful' = IF exec[c].pc = "await" THEN doubtful \cup {exec[c].quote} ELSE doubtful
    /\ Answer(c)
    /\ UNCHANGED <<quote, expired, removed, payer, orders, lost>>

-----------------------------------------------------------------------------
(* The aggregator and the chain. *)

\* On an EVM chain the order with the account's next nonce lands, and those with the
\* same nonce fail.
Settle(n) ==
    /\ orders[n].state = "flying"
    /\ LET o == orders[n]
           rivals == IF o.quote \in Solana THEN {} ELSE {k \in Of(o.by) \ {n} : orders[k].nonce = o.nonce} IN
       \/ /\ o.quote \notin Solana => o.nonce = NextNonce(o.by)
          /\ orders' = [k \in DOMAIN orders |->
               CASE k = n -> [o EXCEPT !.state = "landed"]
                 [] k \in rivals -> [orders[k] EXCEPT !.state = "failed"]
                 [] OTHER -> orders[k]]
       \/ orders' = [orders EXCEPT ![n].state = "failed"]
    /\ UNCHANGED <<quote, expired, removed, payer, exec, lost, doubtful>>

CallerStep(c) ==
    \/ \E q \in Quotes, a \in Payers \cup {Unset} : Execute(c, q, a)
    \/ Fetch(c) \/ FetchNonce(c) \/ HandOver(c) \/ Await(c) \/ ExecFails(c)

SwapNext ==
    \/ \E q \in Quotes : ExpireQuote(q) \/ \E a \in Payers \cup {Unset}, router \in BOOLEAN : Quote(q, a, router)
    \/ \E a \in Payers : SetPayer(a) \/ RemovePayer(a) \/ RestorePayer(a)
    \/ \E c \in Callers : CallerStep(c)
    \/ \E n \in DOMAIN orders : Settle(n)

SwapSpec == SwapInit /\ [][SwapNext]_swapVars

-----------------------------------------------------------------------------
(* Properties *)

\* A quote is swapped once, though a call hands over up to three transactions and the
\* host calls again after an error; unless two calls executed it at once, or the
\* answer to a hand-over was lost.
SwapsOnce == \A q \in Quotes \ doubtful : Cardinality(Landed(q)) <= 1

\* What is handed over passed the guard of its quote, at every attempt: what it states
\* to pay out at least is not below the floor, it goes to the router the quote knows
\* and on an EVM chain moves the quote's value. A minimum left blank, a router whose
\* look-up failed and the body of a Solana transaction are taken as they come. It is
\* paid by the account the quote was made for, whatever account is current by then,
\* unless the host named another, the quote was of none, or its account was deleted.
SwapsAsQuoted ==
    \A n \in DOMAIN orders :
        LET o == orders[n]
            q == quote[o.quote] IN
        /\ o.tx.min # "below"
        /\ o.quote \notin Solana => o.tx.value = "quoted" /\ (q.router => o.tx.to = "router")
        /\ o.by = q.for \/ o.named \/ q.for \in lost \cup {Unset}
=============================================================================
