------------------------------ MODULE MCSend ------------------------------
(* Four components that share no state: one of them moves, chosen with     *)
(* what is asked of it. They run on the same threads.                      *)
EXTENDS TransactionSend, CoinWallet, SwapExecution, TokenBook, TLC

VARIABLE part

Book == {"pay", "history", "races"}
Menu == Book \cup {"coins", "tokens"} \cup Quotes

MCInit == /\ part \in Menu /\ BookInit /\ CoinInit /\ SwapInit /\ TokenInit
          /\ removed \in {{}, Payers} /\ (part \notin Quotes => removed = {})
          /\ part # "tokens" => selected = [chain |-> "evm.1", form |-> "id"] /\ holder = "ethereum"

\* "pay": no sweep. "history": one send at a time and sweeps, nothing skipped or
\* interrupted. "races": sweeps race, too, but the current network stays.
PlainSends ==
    /\ \A t \in Threads : Sends(t)' => job'[t].call = "send" /\ job'[t].counted
    /\ \E t \in Threads : \A u \in Threads \ {t} : ~Sends(u)'
BookMenu ==
    CASE part = "pay"     -> \A t \in Threads : ~Sweeps(t)'
      [] part = "history" -> torn' = torn /\ PlainSends
      [] part = "races"   -> current' = current /\ PlainSends

\* Small coins are not worth their input.
CoinMenu == \A i \in DOMAIN coins' : coins'[i].amt < 546 => coins'[i].script = "p2pkh"

\* One quote; no new execution once an answer was lost or two overlapped. A
\* transaction that passes takes every liberty the guard leaves.
\* Accounts are deleted before the first order, restored and selected at any time.
Liberal(q) == [min |-> "blank", to |-> IF quote[q].router THEN "router" ELSE "other",
               value |-> IF q \in Solana THEN "other" ELSE "quoted"]
SwapMenu ==
    /\ \A c \in Callers : exec'[c] # Unset => exec'[c].tx \in {Unset, Liberal(exec'[c].quote)}
    /\ \A q \in Quotes \ {part} : quote'[q] = Unset
    /\ DOMAIN orders # {} => removed' \subseteq removed
    /\ expired # expired' => \A c \in Callers : exec[c] = Unset
    /\ doubtful # {} => \A c \in Callers : exec[c] = Unset => exec'[c] = Unset

\* Lists and payments change nothing for one another: one at a time.
TokenMenu == Cardinality({c \in Clerks : call'[c] # Blank /\ call'[c].op # "write"}) <= 1

MCNext ==
    /\ UNCHANGED part
    /\ \/ part \in Book /\ BookNext /\ BookMenu /\ UNCHANGED <<coinVars, swapVars, tokenVars>>
       \/ part = "coins" /\ CoinNext /\ CoinMenu /\ UNCHANGED <<bookVars, swapVars, tokenVars>>
       \/ part \in Quotes /\ SwapNext /\ SwapMenu /\ UNCHANGED <<bookVars, coinVars, tokenVars>>
       \/ part = "tokens" /\ TokenNext /\ TokenMenu /\ UNCHANGED <<bookVars, coinVars, swapVars>>

MCSpec == MCInit /\ [][MCNext]_<<bookVars, coinVars, swapVars, tokenVars, part>>

Interchangeable == Permutations(Threads) \cup Permutations(Hashes) \cup Permutations(Payers)
=============================================================================
