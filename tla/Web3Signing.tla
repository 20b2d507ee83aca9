---------------------------- MODULE Web3Signing ----------------------------
(***************************************************************************)
(* What a connected dApp asks to be signed or sent (handlers/web3.rs), and *)
(* what approving it does (the arms of handlers/request.rs): the account is *)
(* settled when the dApp asks, the network when the user approves, and the *)
(* user disconnects, deletes, selects and switches between the two.        *)
(*                                                                         *)
(* One origin. DappAccess has the statements behind a lookup of the        *)
(* connections, ApprovalQueue the claim around an approval.                *)
(***************************************************************************)
EXTENDS Sequences, SequencesExt

CONSTANTS Prompts,     \* requests of the dApp
          EvmAccounts, SolanaAccounts, BitcoinAccounts,
          NoPrompt     \* not asked; no network

ASSUME SigningAssumption ==
    EvmAccounts \cap SolanaAccounts = {} /\ (EvmAccounts \cup SolanaAccounts) \cap BitcoinAccounts = {}

Kept == EvmAccounts \cup SolanaAccounts \cup BitcoinAccounts
Nets == {"evm.1", "evm.2", "solana", "bitcoin"}

VARIABLES
    linked,  \* the origin's connections, oldest first
    present, \* accounts with a row
    chosen,  \* the current account
    at,      \* the current network
    prompt   \* prompt[p]: what was asked, how far its approval went, the network
             \* signed for, whose node the host named, and whose node took it

signVars == <<linked, present, chosen, at, prompt>>

FamilyOf(a) == IF a \in EvmAccounts THEN "evm" ELSE IF a \in SolanaAccounts THEN "solana" ELSE "bitcoin"
NetFamily(n) == IF n \in {"evm.1", "evm.2"} THEN "evm" ELSE n

EvmMessages == {"personal_sign", "eth_signTypedData_v4"}
Messages == EvmMessages \cup {"solana_signMessage", "mpurse_signMessage"}
Sends == {"eth_sendTransaction", "solana_signAndSendTransaction"}
Methods == Messages \cup Sends \cup {"solana_signTransaction", "mpurse_signRawTransaction", "mpurse_sendAsset"}
MethodFamily(m) ==
    CASE m \in EvmMessages \cup {"eth_sendTransaction"} -> "evm"
      [] m \in {"solana_signMessage", "solana_signTransaction", "solana_signAndSendTransaction"} -> "solana"
      [] OTHER -> "bitcoin"

SigningTypeOK ==
    /\ linked \in Seq(Kept) /\ IsInjective(linked) /\ present \subseteq Kept
    /\ chosen \in Kept /\ at \in Nets
    /\ prompt \in [Prompts -> {NoPrompt} \cup
          [method : Methods, account : Kept, step : {"shown", "signed", "done"},
           net : Nets \cup {NoPrompt}, rpc : Nets \cup {NoPrompt}, sent : Nets \cup {NoPrompt}]]

SigningInit ==
    /\ linked = <<>> /\ present = Kept /\ chosen \in Kept /\ at \in Nets
    /\ prompt = [p \in Prompts |-> NoPrompt]

-----------------------------------------------------------------------------
(* The dApp asks. *)

\* for_host: the current account comes first when it is connected.
ForHost == IF chosen \in Range(linked) THEN <<chosen>> \o Remove(linked, chosen) ELSE linked
FirstLinked == IF linked = <<>> THEN {} ELSE {ForHost[1]}
\* An account the dApp can name: connected, and still there.
Permitted == Range(linked) \cap present
\* collect_evm_addresses
EvmSenders == Permitted \cap EvmAccounts

Show(p, m, a) ==
    /\ prompt[p] = NoPrompt
    /\ prompt' = [prompt EXCEPT ![p] = [method |-> m, account |-> a, step |-> "shown", net |-> NoPrompt,
                                        rpc |-> NoPrompt, sent |-> NoPrompt]]
    /\ UNCHANGED <<linked, present, chosen, at>>

\* With an address, that account; without, the first.
PersonalSign(p)      == \E a \in Permitted \cup (FirstLinked \cap present) : Show(p, "personal_sign", a)
SignTypedData(p)     == \E a \in Permitted \cup (FirstLinked \cap present) : Show(p, "eth_signTypedData_v4", a)
SolanaSignMessage(p) == \E a \in Permitted \cup (FirstLinked \cap present) : Show(p, "solana_signMessage", a)
SendTransaction(p)   == \E a \in EvmSenders : Show(p, "eth_sendTransaction", a)
\* The others take the first, of whatever chain it is.
SolanaSignTx(p) ==
    \E a \in FirstLinked \cap present, m \in {"solana_signTransaction", "solana_signAndSendTransaction"} : Show(p, m, a)
MpurseSignMessage(p) == \E a \in FirstLinked \cap present : Show(p, "mpurse_signMessage", a)
MpurseSignRawTx(p)   == \E a \in FirstLinked \cap present : Show(p, "mpurse_signRawTransaction", a)
MpurseSendAsset(p)   == \E a \in FirstLinked \cap present : Show(p, "mpurse_sendAsset", a)

-----------------------------------------------------------------------------
(* The user approves. A refusal releases the prompt, which stays as it was. *)

\* approve_message_sign: sign_eth_digest wants an Ethereum account; the Bitcoin
\* form any secp256k1 key.
SignsMessage(m, a) ==
    CASE m \in EvmMessages          -> FamilyOf(a) = "evm"
      [] m = "solana_signMessage"   -> FamilyOf(a) = "solana"
      [] m = "mpurse_signMessage"   -> FamilyOf(a) # "solana"

Approving(p, step) == prompt[p] # NoPrompt /\ prompt[p].step = step /\ prompt[p].account \in present
Advance(p, step, net, rpc, sent) ==
    /\ prompt' = [prompt EXCEPT ![p].step = step, ![p].net = net, ![p].rpc = rpc, ![p].sent = sent]
    /\ UNCHANGED <<linked, present, chosen, at>>

ApproveMessage(p) ==
    /\ Approving(p, "shown") /\ prompt[p].method \in Messages
    /\ SignsMessage(prompt[p].method, prompt[p].account)
    /\ Advance(p, "done", NoPrompt, NoPrompt, NoPrompt)

\* Mutant: the current network, whatever it is.
EvmNet_Current == at
\* network_for_kind: the current network if it is of the chain, else its default.
EvmNet == IF NetFamily(at) = "evm" THEN at ELSE "evm.1"
\* sign_and_send: signed for the network's chain, to be sent to its RPC, or to the
\* one the host gave with its approval, of whatever network that is.
ApproveSend(p) ==
    /\ Approving(p, "shown") /\ prompt[p].method = "eth_sendTransaction"
    /\ \E rpc \in Nets \cup {NoPrompt} : Advance(p, "signed", EvmNet, rpc, NoPrompt)

\* approve_solana_sign_tx: the signature is verified under the account's key.
ApproveSolanaTx(p) ==
    /\ Approving(p, "shown") /\ MethodFamily(prompt[p].method) = "solana" /\ prompt[p].method \notin Messages
    /\ FamilyOf(prompt[p].account) = "solana"
    /\ \E rpc \in Nets \cup {NoPrompt} :
          Advance(p, IF prompt[p].method = "solana_signTransaction" THEN "done" ELSE "signed", NoPrompt, rpc, NoPrompt)

\* approve_mpurse_sign_raw_tx. No arm approves mpurse_sendAsset.
ApproveMpurseRawTx(p) ==
    /\ Approving(p, "shown") /\ prompt[p].method = "mpurse_signRawTransaction"
    /\ NetFamily(at) = "bitcoin" /\ FamilyOf(prompt[p].account) = "bitcoin"
    /\ Advance(p, "done", at, NoPrompt, NoPrompt)

\* What was signed goes to the node the host named; without one, Ethereum's to the
\* network it was signed for and Solana's to the current one, of whatever chain.
\* The node takes it or not; a refusal releases the prompt.
SendSigned(p) ==
    /\ prompt[p] # NoPrompt /\ prompt[p].step = "signed"
    /\ LET own == IF prompt[p].method = "eth_sendTransaction" THEN prompt[p].net ELSE at
           to  == IF prompt[p].rpc # NoPrompt THEN prompt[p].rpc ELSE own
       IN  \/ Advance(p, "done", prompt[p].net, prompt[p].rpc, to)
           \/ Advance(p, "shown", NoPrompt, NoPrompt, NoPrompt)

\* Answered, rejected or timed out.
Dismiss(p) ==
    /\ prompt[p] # NoPrompt /\ prompt[p].step # "signed"
    /\ prompt' = [prompt EXCEPT ![p] = NoPrompt]
    /\ UNCHANGED <<linked, present, chosen, at>>

-----------------------------------------------------------------------------
(* Meanwhile, in the wallet. *)

Link(a) == /\ a \in present \ Range(linked) /\ linked' = Append(linked, a)
           /\ UNCHANGED <<present, chosen, at, prompt>>
Unlink(a) == /\ a \in Range(linked) /\ linked' = Remove(linked, a)
             /\ UNCHANGED <<present, chosen, at, prompt>>
Drop(a) == /\ a \in present /\ present' = present \ {a} /\ linked' = SelectSeq(linked, LAMBDA b : b # a)
           /\ UNCHANGED <<chosen, at, prompt>>
Choose(a) == a \in present /\ chosen' = a /\ UNCHANGED <<linked, present, at, prompt>>
Switch(n) == n # at /\ at' = n /\ UNCHANGED <<linked, present, chosen, prompt>>

SigningNext ==
    \/ \E p \in Prompts :
          \/ PersonalSign(p) \/ SignTypedData(p) \/ SolanaSignMessage(p) \/ SendTransaction(p) \/ SolanaSignTx(p)
          \/ MpurseSignMessage(p) \/ MpurseSignRawTx(p) \/ MpurseSendAsset(p)
          \/ ApproveMessage(p) \/ ApproveSend(p) \/ ApproveSolanaTx(p) \/ ApproveMpurseRawTx(p)
          \/ SendSigned(p) \/ Dismiss(p)
    \/ \E a \in Kept : Link(a) \/ Unlink(a) \/ Drop(a) \/ Choose(a)
    \/ \E n \in Nets : Switch(n)

SigningSpec == SigningInit /\ [][SigningNext]_signVars

-----------------------------------------------------------------------------
\* An approved request was signed with a key of the chain its method is of, though
\* a method that names no account takes the first connected one of any chain; a
\* transaction was signed for a network of that chain, though the host may be at
\* any other when the user approves; and where the host names no node, Ethereum's
\* reached the network it was signed for, though the user switches networks while
\* it is on its way (approve_message_sign, approve_transaction_sign). The code
\* does not look whose node the host names, nor at the network a Solana transaction
\* is sent to; a Mpurse message is signed with any secp256k1 key.
SignedForItsChain ==
    \A p \in Prompts : prompt[p] # NoPrompt /\ prompt[p].step = "done" =>
        /\ \/ FamilyOf(prompt[p].account) = MethodFamily(prompt[p].method)
           \/ prompt[p].method = "mpurse_signMessage" /\ prompt[p].account \notin SolanaAccounts
        /\ prompt[p].method \in {"eth_sendTransaction", "mpurse_signRawTransaction"} =>
              NetFamily(prompt[p].net) = MethodFamily(prompt[p].method)
        /\ prompt[p].method = "eth_sendTransaction" /\ prompt[p].rpc = NoPrompt =>
              prompt[p].sent = prompt[p].net
=============================================================================
