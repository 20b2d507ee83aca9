------------------------------ MODULE MCDapp ------------------------------
(* What dApps may see, where they are and what is signed for them:          *)
(* DappAccess, NetworkRegistry and Web3Signing. They share no state, so a   *)
(* behaviour moves one of them; DappAccess moves                            *)
(* in three settings, each with the calls that can disturb one another      *)
(* there: the account book of one chain, one account and two origins, one   *)
(* origin and two accounts.                                                 *)
EXTENDS DappAccess, NetworkRegistry, Web3Signing, TLC

VARIABLE part \* the setting of this behaviour: never changes

Menu == [book     |-> {"create", "createAt", "view", "restore", "delete", "select"},
         origins  |-> {"create", "restore", "delete", "connect", "unlink", "revoke", "accounts", "solana"},
         accounts |-> {"create", "connect", "revoke", "accounts", "sign"}]

MCInit == /\ AccessInit /\ NetworkInit /\ SigningInit
          /\ part \in DOMAIN Menu \cup {"networks", "signing"}
          /\ part # "signing" => at = "evm.1" /\ chosen \in EvmAccounts

InMenu ==
    /\ \A t \in Workers : work'[t] # Nothing =>
        /\ work'[t].call \in Menu[part]
        /\ part # "accounts" => work'[t].chain = "ethereum"
        /\ part = "accounts" => work'[t].host \in {Nothing, CHOOSE h \in Hosts : TRUE}
    /\ part = "origins" => Cardinality(made') <= 1

MCNext ==
    /\ UNCHANGED part
    /\ \/ part = "networks" /\ NetworkNext /\ UNCHANGED <<accessVars, signVars>>
       \/ part = "signing" /\ SigningNext /\ UNCHANGED <<accessVars, netVars>>
       \/ part \in DOMAIN Menu /\ AccessNext /\ InMenu /\ UNCHANGED <<netVars, signVars>>

MCSpec == MCInit /\ [][MCNext]_<<accessVars, netVars, signVars, part>>

\* No invariant names a worker, an agent or an account.
Interchangeable == Permutations(Workers) \cup Permutations(Agents) \cup Permutations(Accounts)
=============================================================================
