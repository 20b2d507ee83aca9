---------------------------- MODULE CoinWallet ----------------------------
(***************************************************************************)
(* A Bitcoin account that sends with automatic inputs (bitcoin.rs: list,   *)
(* select, fee and change, change index; handlers/account.rs               *)
(* bitcoin_send_async, handlers/transaction.rs sign_and_send_bitcoin).     *)
(*                                                                         *)
(* Coins are numbered in the order the provider lists them. The provider's *)
(* index follows the node with a delay; the node replaces a pending        *)
(* transaction by one that spends a coin of it and pays more (every input  *)
(* opts in).                                                               *)
(***************************************************************************)
EXTENDS Naturals, Sequences, FiniteSetsExt

CONSTANTS Senders,  \* worker threads
          Deposits, \* amounts of incoming coins, in satoshi
          Scripts,  \* script kinds of incoming coins
          Wants,    \* amounts sent
          FeeRate,  \* satoshi per virtual byte
          MaxCoins, MaxSends, \* bounds
          NoJob     \* the sender has no call

ASSUME CoinAssumption == Wants \subseteq Nat \ {0} /\ Deposits \subseteq Nat /\ FeeRate \in Nat

VARIABLES
    coins,  \* coins[i]: amount, script, chain (0 receive, 1 change), index, transaction that made it
    sends,  \* sends[k]: an accepted transaction
    listed, \* coins the provider lists
    marked, \* coins it marks as spent
    asked,  \* asked[s]: a call between its listing and its broadcast, or NoJob
    \* History:
    indexed \* payments the index has caught up with

coinVars == <<coins, sends, listed, marked, asked, indexed>>

Coin == [amt : Nat, script : {"p2wpkh", "p2sh-p2wpkh", "p2pkh"}, chain : {0, 1}, index : Nat, from : Nat]
Ids  == DOMAIN coins

CoinTypeOK ==
    /\ coins \in Seq(Coin) /\ Len(coins) <= MaxCoins
    /\ \A k \in DOMAIN sends : /\ sends[k].ins \subseteq Ids
                               /\ sends[k].state \in {"pooled", "mined", "replaced"}
    /\ listed \subseteq Ids /\ marked \subseteq listed /\ indexed \subseteq DOMAIN sends

CoinInit ==
    /\ coins = <<>> /\ sends = <<>> /\ listed = {} /\ marked = {} /\ indexed = {}
    /\ asked = [s \in Senders |-> NoJob]

Total(S) == MapThenSumSet(LAMBDA i : coins[i].amt, S)

-----------------------------------------------------------------------------
(* Selection, fee and change. *)

Vsize(script) == CASE script = "p2wpkh" -> 68 [] script = "p2sh-p2wpkh" -> 91 [] OTHER -> 148
EstimateVsize(ins, outs) == 11 + outs * 31 + MapThenSumSet(LAMBDA i : Vsize(coins[i].script), ins)
Fee(ins, outs) == EstimateVsize(ins, outs) * FeeRate

Covers(ins, want) == Total(ins) >= want + Fee(ins, 2)

\* Largest first; a stable sort keeps the provider's order among equals.
Before(i, j) == coins[i].amt > coins[j].amt \/ (coins[i].amt = coins[j].amt /\ i < j)
Largest(all, i) == {j \in all : j = i \/ Before(j, i)}

\* select_utxos: one coin after the other, until what is there covers the amount and
\* the fee with two outputs. No coins: insufficient funds.
SelectUtxos(all, want) ==
    LET enough == {i \in all : Covers(Largest(all, i), want)}
    IN  IF enough = {} THEN {} ELSE Largest(all, CHOOSE i \in enough : \A j \in enough : i = j \/ Before(i, j))

\* Change up to 546 satoshi goes to the fee.
Change(ins, want) == LET c == Total(ins) - want - Fee(ins, 2) IN IF c > 546 THEN c ELSE 0

\* next_change_index: after the highest index among the coins listed as unspent.
NextChangeIndex(all) ==
    LET used == {coins[i].index : i \in {j \in all : coins[j].chain = 1}}
    IN  IF used = {} THEN 0 ELSE Max(used) + 1

\* Mutant: entries marked as spent are taken, too.
Listing_All == listed

\* parse_native_utxos.
Listing == listed \ marked

-----------------------------------------------------------------------------
(* The node and its index. *)

Alive(i) == coins[i].from = 0 \/ sends[coins[i].from].state # "replaced"
Spenders(S) == {k \in DOMAIN sends : sends[k].state # "replaced" /\ sends[k].ins \cap S # {}}
Spent(i) == Spenders({i}) # {}

\* What goes when the transactions of D are replaced: their descendants, too.
Falls(D) ==
    LET closed == {X \in SUBSET DOMAIN sends :
                     /\ D \subseteq X
                     /\ \A k \in DOMAIN sends : (\E i \in sends[k].ins : coins[i].from \in X) => k \in X}
    IN  CHOOSE X \in closed : \A Y \in closed : X \subseteq Y

Deposit(a, s) ==
    /\ Len(coins) < MaxCoins
    /\ coins' = Append(coins, [amt |-> a, script |-> s, chain |-> 0, index |-> 0, from |-> 0])
    /\ UNCHANGED <<sends, listed, marked, asked, indexed>>

Confirm(k) ==
    /\ sends[k].state = "pooled"
    /\ \A i \in sends[k].ins : coins[i].from # 0 => sends[coins[i].from].state = "mined"
    /\ sends' = [sends EXCEPT ![k].state = "mined"]
    /\ UNCHANGED <<coins, listed, marked, asked, indexed>>

\* The provider's index catches up.
Index ==
    /\ listed' = {i \in Ids : Alive(i)}
    /\ marked' = {i \in Ids : Alive(i) /\ Spent(i)}
    /\ indexed' = DOMAIN sends
    /\ <<listed', marked', indexed'>> # <<listed, marked, indexed>>
    /\ UNCHANGED <<coins, sends, asked>>

-----------------------------------------------------------------------------
(* A send: list, build and sign, broadcast. *)

\* Insufficient funds are answered, and nothing changes.
Build(s, want) ==
    /\ asked[s] = NoJob
    /\ LET ins == SelectUtxos(Listing, want) IN
       asked' = IF ins = {} THEN asked
                ELSE [asked EXCEPT ![s] = [ins |-> ins, want |-> want, change |-> Change(ins, want),
                                           index |-> NextChangeIndex(Listing),
                                           shown |-> indexed, after |-> Len(sends)]]
    /\ UNCHANGED <<coins, sends, listed, marked, indexed>>

\* The node refuses inputs that do not exist or are spent by a mined transaction. It
\* replaces pending ones that pay less.
BroadcastSpend(s) ==
    /\ asked[s] # NoJob
    /\ asked' = [asked EXCEPT ![s] = NoJob]
    /\ LET j    == asked[s]
           fee  == Total(j.ins) - j.want - j.change
           hit  == {k \in Falls(Spenders(j.ins)) : sends[k].state # "replaced"}
           new  == Len(sends) + 1
           paid == MapThenSumSet(LAMBDA k : sends[k].fee, hit)
           ok   == /\ \A i \in j.ins : Alive(i) /\ coins[i].from \notin hit
                   /\ \A k \in hit : sends[k].state = "pooled"
                   /\ fee > paid \/ hit = {}
       IN  IF ok /\ new <= MaxSends /\ Len(coins) < MaxCoins
           THEN /\ sends' = Append([k \in DOMAIN sends |-> IF k \in hit THEN [sends[k] EXCEPT !.state = "replaced"] ELSE sends[k]],
                                   [ins |-> j.ins, want |-> j.want, change |-> j.change, fee |-> fee,
                                    index |-> j.index, state |-> "pooled", taken |-> hit \cap j.shown])
                /\ coins' = IF j.change = 0 THEN coins
                            ELSE Append(coins, [amt |-> j.change, script |-> "p2wpkh", chain |-> 1,
                                                index |-> j.index, from |-> new])
           ELSE UNCHANGED <<coins, sends>>
    /\ UNCHANGED <<listed, marked, indexed>>

CoinNext ==
    \/ \E a \in Deposits, s \in Scripts : Deposit(a, s)
    \/ \E k \in DOMAIN sends : Confirm(k)
    \/ Index
    \/ \E s \in Senders : BroadcastSpend(s) \/ \E w \in Wants : Build(s, w)

CoinSpec == CoinInit /\ [][CoinNext]_coinVars

-----------------------------------------------------------------------------
(* Properties *)

\* A payment the index had caught up with when a later call listed its coins stands:
\* neither it nor anything that spends its change is replaced by that call, however
\* many payments and blocks come between the listing and the broadcast. What the
\* index had not caught up with may go: the code remembers no spent coin.
ShownPaymentStands == \A k \in DOMAIN sends : sends[k].taken = {}

=============================================================================
