----------------------------- MODULE DappProofs -----------------------------
(***************************************************************************)
(* Theorems about what dApps may see, where they are and what is signed    *)
(* for them: DappAccess, NetworkRegistry and Web3Signing, for any number   *)
(* of workers, accounts, hosts, chains and prompts. The components share   *)
(* no state; each part has its own inductive invariant and is the theorems *)
(* of one of them.                                                         *)
(***************************************************************************)
EXTENDS DappAccess, NetworkRegistry, Web3Signing, FiniteSetTheorems, TLAPS

-----------------------------------------------------------------------------
\* A finite set of numbers has a largest one.
LEMMA LargestExists ==
    ASSUME NEW S \in SUBSET Nat, IsFiniteSet(S), S # {}
    PROVE  \E x \in S : \A y \in S : y <= x
<1> DEFINE Above(x) == {y \in S : y > x}
           All == {Above(x) : x \in S}
<1>1. IsWellFoundedOn(StrictSubsetOrdering(S), SUBSET S)
  BY FS_StrictSubsetOrderingWellFounded, FS_FiniteSubsetsOfFinite
<1>2. All \subseteq SUBSET S /\ All # {}
  OBVIOUS
<1> HIDE DEF All
<1>3. PICK U \in All : \A V \in All : ~(<<V, U>> \in StrictSubsetOrdering(S))
  BY <1>1, <1>2, WFMin
<1> USE DEF All
<1>4. PICK x \in S : U = Above(x)
  OBVIOUS
<1> SUFFICES ASSUME NEW y \in S, ~(y <= x) PROVE FALSE
  OBVIOUS
<1>5. x \in Nat /\ y \in Nat /\ y > x
  OBVIOUS
<1>6. Above(y) \subseteq Above(x) /\ y \in Above(x) /\ y \notin Above(y)
  <2>1. \A z \in S : z > y => z > x
    BY <1>5
  <2>2. ~(y > y)
    BY <1>5
  <2> QED
    BY <1>5, <2>1, <2>2, Zenon
<1>7. Above(y) \in All /\ Above(y) \in SUBSET S /\ Above(x) \in SUBSET S
  OBVIOUS
<1>8. <<Above(y), Above(x)>> \in StrictSubsetOrdering(S)
  BY <1>6, <1>7 DEF StrictSubsetOrdering
<1> QED
  BY <1>3, <1>4, <1>7, <1>8

-----------------------------------------------------------------------------
(* Web3Signing. SignedForItsChain speaks of requests that are done. What a  *)
(* step before it must have established (AskedInv, SignedInv): a prompt to  *)
(* send names an Ethereum account from the start; what is signed and not    *)
(* sent yet is signed by a key of the method's chain, Ethereum's for an     *)
(* Ethereum network.                                                        *)

Prompted == {p \in Prompts : prompt[p] # NoPrompt}

\* A transaction to sign for Ethereum is asked of an Ethereum account only.
AskedInv == \A p \in Prompted : prompt[p].method = "eth_sendTransaction" => prompt[p].account \in EvmAccounts

\* A signed transaction waits for its broadcast.
SignedInv ==
    \A p \in Prompted : prompt[p].step = "signed" =>
        \/ prompt[p].method = "eth_sendTransaction" /\ NetFamily(prompt[p].net) = "evm"
        \/ /\ prompt[p].method = "solana_signAndSendTransaction"
           /\ FamilyOf(prompt[p].account) = "solana"

Asked == [method : Methods, account : Kept, step : {"shown", "signed", "done"},
          net : Nets \cup {NoPrompt}, rpc : Nets \cup {NoPrompt}, sent : Nets \cup {NoPrompt}]
PromptTypeOK ==
    /\ present \subseteq Kept /\ at \in Nets
    /\ prompt \in [Prompts -> {NoPrompt} \cup Asked]

IInv == PromptTypeOK /\ AskedInv /\ SignedInv /\ SignedForItsChain

\* The invariant holds before the dApp asked for anything (SigningInit).
THEOREM SigningStarts == SigningInit => IInv
BY DEF SigningInit, IInv, PromptTypeOK, AskedInv, SignedInv, SignedForItsChain, Prompted

LEMMA FamilyOfEvm == ASSUME NEW a \in Kept PROVE (a \in EvmAccounts) <=> (FamilyOf(a) = "evm")
BY SigningAssumption DEF FamilyOf, Kept

LEMMA FamilyOfSolana == ASSUME NEW a \in Kept PROVE (a \in SolanaAccounts) <=> (FamilyOf(a) = "solana")
BY SigningAssumption DEF FamilyOf, Kept

\* A new prompt that satisfies AskedInv keeps the invariant.
LEMMA ShowKeeps ==
    ASSUME IInv, NEW p \in Prompts, NEW m \in Methods, NEW a \in present, Show(p, m, a),
           m = "eth_sendTransaction" => a \in EvmAccounts
    PROVE  IInv'
<1> DEFINE new == [method |-> m, account |-> a, step |-> "shown", net |-> NoPrompt, rpc |-> NoPrompt, sent |-> NoPrompt]
<1>1. new \in Asked
  BY DEF IInv, PromptTypeOK, Asked
<1>2. prompt' = [prompt EXCEPT ![p] = new] /\ UNCHANGED <<present, at>>
  BY DEF Show
<1>3. prompt'[p] = new /\ \A q \in Prompts \ {p} : prompt'[q] = prompt[q]
  BY <1>2 DEF IInv, PromptTypeOK
<1>4. PromptTypeOK'
  BY <1>1, <1>2 DEF IInv, PromptTypeOK
<1>5. AskedInv' /\ SignedInv' /\ SignedForItsChain'
  BY <1>3 DEF IInv, AskedInv, SignedInv, SignedForItsChain, Prompted
<1> QED
  BY <1>4, <1>5 DEF IInv

\* What remains to be shown of a step of one prompt's approval.
LEMMA AdvanceKeeps ==
    ASSUME IInv, NEW p \in Prompts, prompt[p] # NoPrompt,
           NEW step \in {"shown", "signed", "done"}, NEW net \in Nets \cup {NoPrompt}, NEW rpc \in Nets \cup {NoPrompt},
           NEW sent \in Nets \cup {NoPrompt}, Advance(p, step, net, rpc, sent),
           step = "signed" =>
              \/ prompt[p].method = "eth_sendTransaction" /\ NetFamily(net) = "evm"
              \/ /\ prompt[p].method = "solana_signAndSendTransaction"
                 /\ FamilyOf(prompt[p].account) = "solana",
           step = "done" =>
              /\ \/ FamilyOf(prompt[p].account) = MethodFamily(prompt[p].method)
                 \/ prompt[p].method = "mpurse_signMessage" /\ prompt[p].account \notin SolanaAccounts
              /\ prompt[p].method \in {"eth_sendTransaction", "mpurse_signRawTransaction"} =>
                    NetFamily(net) = MethodFamily(prompt[p].method)
              /\ prompt[p].method = "eth_sendTransaction" /\ rpc = NoPrompt => sent = net
    PROVE  IInv'
<1>1. prompt' = [prompt EXCEPT ![p].step = step, ![p].net = net, ![p].rpc = rpc, ![p].sent = sent] /\ UNCHANGED <<present, at>>
  BY DEF Advance
<1>2. /\ prompt'[p] = [prompt[p] EXCEPT !.step = step, !.net = net, !.rpc = rpc, !.sent = sent]
      /\ \A q \in Prompts \ {p} : prompt'[q] = prompt[q]
  BY <1>1 DEF IInv, PromptTypeOK
<1>a. prompt[p] \in Asked
  BY DEF IInv, PromptTypeOK
<1>b. [prompt[p] EXCEPT !.step = step, !.net = net, !.rpc = rpc, !.sent = sent] \in Asked
  BY <1>a DEF Asked
<1>3. PromptTypeOK'
  BY <1>1, <1>b DEF IInv, PromptTypeOK
<1>4. /\ prompt'[p].step = step /\ prompt'[p].net = net /\ prompt'[p].rpc = rpc /\ prompt'[p].sent = sent
      /\ prompt'[p].method = prompt[p].method /\ prompt'[p].account = prompt[p].account
  BY <1>2, <1>a DEF Asked
<1>5. AskedInv'
  BY <1>2, <1>4 DEF IInv, AskedInv, Prompted
<1>6. SignedInv'
  <2> SUFFICES ASSUME NEW q \in Prompts, prompt'[q] # NoPrompt, prompt'[q].step = "signed"
               PROVE  \/ prompt'[q].method = "eth_sendTransaction" /\ NetFamily(prompt'[q].net) = "evm"
                      \/ /\ prompt'[q].method = "solana_signAndSendTransaction"
                         /\ FamilyOf(prompt'[q].account) = "solana"
    BY DEF SignedInv, Prompted
  <2>1. CASE q = p
    BY <1>4, <2>1
  <2>2. CASE q # p
    BY <1>2, <2>2 DEF IInv, SignedInv, Prompted
  <2> QED
    BY <2>1, <2>2
<1>7. SignedForItsChain'
  <2> SUFFICES ASSUME NEW q \in Prompts, prompt'[q] # NoPrompt, prompt'[q].step = "done"
               PROVE  /\ \/ FamilyOf(prompt'[q].account) = MethodFamily(prompt'[q].method)
                         \/ prompt'[q].method = "mpurse_signMessage" /\ prompt'[q].account \notin SolanaAccounts
                      /\ prompt'[q].method \in {"eth_sendTransaction", "mpurse_signRawTransaction"} =>
                            NetFamily(prompt'[q].net) = MethodFamily(prompt'[q].method)
                      /\ prompt'[q].method = "eth_sendTransaction" /\ prompt'[q].rpc = NoPrompt =>
                            prompt'[q].sent = prompt'[q].net
    BY DEF SignedForItsChain
  <2>1. CASE q = p
    BY <1>4, <2>1
  <2>2. CASE q # p
    BY <1>2, <2>2 DEF IInv, SignedForItsChain
  <2> QED
    BY <2>1, <2>2
<1> QED
  BY <1>3, <1>5, <1>6, <1>7 DEF IInv

LEMMA AskKeeps ==
    ASSUME IInv, NEW p \in Prompts,
           \/ PersonalSign(p) \/ SignTypedData(p) \/ SolanaSignMessage(p) \/ SendTransaction(p) \/ SolanaSignTx(p)
           \/ MpurseSignMessage(p) \/ MpurseSignRawTx(p) \/ MpurseSendAsset(p)
    PROVE  IInv'
<1>1. PICK m \in Methods, a \in present : Show(p, m, a) /\ (m = "eth_sendTransaction" => a \in EvmAccounts)
  BY DEF PersonalSign, SignTypedData, SolanaSignMessage, SendTransaction, SolanaSignTx, MpurseSignMessage,
         MpurseSignRawTx, MpurseSendAsset, Permitted, EvmSenders, Methods, Messages, EvmMessages, Sends
<1> QED
  BY <1>1, ShowKeeps

LEMMA ApproveMessageKeeps == ASSUME IInv, NEW p \in Prompts, ApproveMessage(p) PROVE IInv'
<1> DEFINE m == prompt[p].method
           a == prompt[p].account
<1>1. prompt[p] # NoPrompt /\ m \in Messages /\ SignsMessage(m, a) /\ Advance(p, "done", NoPrompt, NoPrompt, NoPrompt)
  BY DEF ApproveMessage, Approving
<1>2. a \in Kept
  BY <1>1 DEF IInv, PromptTypeOK, Asked
<1>3. FamilyOf(a) = MethodFamily(m) \/ (m = "mpurse_signMessage" /\ a \notin SolanaAccounts)
  BY <1>1, <1>2, FamilyOfSolana DEF SignsMessage, MethodFamily, Messages, EvmMessages
<1>4. m # "eth_sendTransaction" /\ m # "mpurse_signRawTransaction"
  BY <1>1 DEF Messages, EvmMessages
<1> QED
  BY <1>1, <1>3, <1>4, AdvanceKeeps

LEMMA ApproveSendKeeps == ASSUME IInv, NEW p \in Prompts, ApproveSend(p) PROVE IInv'
<1>1. PICK rpc \in Nets \cup {NoPrompt} :
        /\ prompt[p] # NoPrompt /\ prompt[p].method = "eth_sendTransaction"
        /\ Advance(p, "signed", EvmNet, rpc, NoPrompt)
  BY DEF ApproveSend, Approving
<1>2. EvmNet \in Nets /\ NetFamily(EvmNet) = "evm"
  BY DEF EvmNet, NetFamily, Nets, IInv, PromptTypeOK
<1> QED
  BY <1>1, <1>2, AdvanceKeeps

LEMMA ApproveSolanaTxKeeps == ASSUME IInv, NEW p \in Prompts, ApproveSolanaTx(p) PROVE IInv'
<1> DEFINE m == prompt[p].method
           next == IF m = "solana_signTransaction" THEN "done" ELSE "signed"
<1>1. PICK rpc \in Nets \cup {NoPrompt} :
        /\ prompt[p] # NoPrompt /\ MethodFamily(m) = "solana" /\ m \notin Messages
        /\ FamilyOf(prompt[p].account) = "solana" /\ Advance(p, next, NoPrompt, rpc, NoPrompt)
  BY DEF ApproveSolanaTx, Approving
<1>2. m \in {"solana_signTransaction", "solana_signAndSendTransaction"}
  BY <1>1 DEF MethodFamily, Messages, EvmMessages
<1>3. next \in {"shown", "signed", "done"} /\ (next = "signed" => m = "solana_signAndSendTransaction")
  BY <1>2
<1> QED
  BY <1>1, <1>2, <1>3, AdvanceKeeps

LEMMA ApproveMpurseRawTxKeeps == ASSUME IInv, NEW p \in Prompts, ApproveMpurseRawTx(p) PROVE IInv'
<1>1. /\ prompt[p] # NoPrompt /\ prompt[p].method = "mpurse_signRawTransaction" /\ NetFamily(at) = "bitcoin"
      /\ FamilyOf(prompt[p].account) = "bitcoin" /\ Advance(p, "done", at, NoPrompt, NoPrompt)
  BY DEF ApproveMpurseRawTx, Approving
<1>2. at \in Nets /\ MethodFamily("mpurse_signRawTransaction") = "bitcoin"
  BY DEF IInv, PromptTypeOK, MethodFamily, EvmMessages
<1> QED
  BY <1>1, <1>2, AdvanceKeeps

LEMMA SendSignedKeeps == ASSUME IInv, NEW p \in Prompts, SendSigned(p) PROVE IInv'
<1> DEFINE m == prompt[p].method
           own == IF m = "eth_sendTransaction" THEN prompt[p].net ELSE at
           to == IF prompt[p].rpc # NoPrompt THEN prompt[p].rpc ELSE own
<1>1. prompt[p] # NoPrompt /\ prompt[p].step = "signed"
  BY DEF SendSigned
<1>2. /\ prompt[p].net \in Nets \cup {NoPrompt} /\ prompt[p].rpc \in Nets \cup {NoPrompt}
      /\ to \in Nets \cup {NoPrompt} /\ prompt[p].account \in Kept
  BY <1>1 DEF IInv, PromptTypeOK, Asked
<1>3. CASE Advance(p, "done", prompt[p].net, prompt[p].rpc, to)
  <2>1. CASE m = "eth_sendTransaction"
    <3>1. NetFamily(prompt[p].net) = "evm" /\ MethodFamily(m) = "evm"
      BY <1>1, <2>1 DEF IInv, SignedInv, Prompted, MethodFamily
    <3>2. FamilyOf(prompt[p].account) = "evm"
      BY <1>1, <1>2, <2>1, FamilyOfEvm DEF IInv, AskedInv, Prompted
    <3>3. prompt[p].rpc = NoPrompt => to = prompt[p].net
      BY <2>1
    <3> QED
      BY <1>1, <1>2, <1>3, <2>1, <3>1, <3>2, <3>3, AdvanceKeeps
  <2>2. CASE m # "eth_sendTransaction"
    <3>1. m = "solana_signAndSendTransaction" /\ FamilyOf(prompt[p].account) = "solana"
      BY <1>1, <2>2 DEF IInv, SignedInv, Prompted
    <3>2. MethodFamily(m) = "solana"
      BY <3>1 DEF MethodFamily, EvmMessages
    <3> QED
      BY <1>1, <1>2, <1>3, <3>1, <3>2, AdvanceKeeps
  <2> QED
    BY <2>1, <2>2
<1>4. CASE Advance(p, "shown", NoPrompt, NoPrompt, NoPrompt)
  BY <1>1, <1>4, AdvanceKeeps
<1> QED
  BY <1>3, <1>4 DEF SendSigned

LEMMA DismissKeeps == ASSUME IInv, NEW p \in Prompts, Dismiss(p) PROVE IInv'
<1>1. prompt' = [prompt EXCEPT ![p] = NoPrompt] /\ UNCHANGED <<present, at>>
  BY DEF Dismiss
<1>2. prompt'[p] = NoPrompt /\ \A q \in Prompts \ {p} : prompt'[q] = prompt[q]
  BY <1>1 DEF IInv, PromptTypeOK
<1> QED
  BY <1>1, <1>2 DEF IInv, PromptTypeOK, AskedInv, SignedInv, SignedForItsChain, Prompted

\* The user's doings leave the prompts alone.
LEMMA UserKeeps ==
    ASSUME IInv, prompt' = prompt, present' \subseteq present, at' \in Nets
    PROVE  IInv'
BY DEF IInv, PromptTypeOK, AskedInv, SignedInv, SignedForItsChain, Prompted

\* Every question, approval, answer of a node and act of the user keeps the invariant.
THEOREM SigningPreserves == ASSUME IInv, [SigningNext]_signVars PROVE IInv'
<1>0. at \in Nets
  BY DEF IInv, PromptTypeOK
<1>1. ASSUME NEW p \in Prompts,
             \/ PersonalSign(p) \/ SignTypedData(p) \/ SolanaSignMessage(p) \/ SendTransaction(p) \/ SolanaSignTx(p)
             \/ MpurseSignMessage(p) \/ MpurseSignRawTx(p) \/ MpurseSendAsset(p)
             \/ ApproveMessage(p) \/ ApproveSend(p) \/ ApproveSolanaTx(p) \/ ApproveMpurseRawTx(p)
             \/ SendSigned(p) \/ Dismiss(p)
      PROVE  IInv'
  BY <1>1, AskKeeps, ApproveMessageKeeps, ApproveSendKeeps, ApproveSolanaTxKeeps, ApproveMpurseRawTxKeeps,
     SendSignedKeeps, DismissKeeps
<1>2. ASSUME NEW a \in Kept, Link(a) \/ Unlink(a) \/ Drop(a) \/ Choose(a) PROVE IInv'
  BY <1>0, <1>2, UserKeeps DEF Link, Unlink, Drop, Choose
<1>3. ASSUME NEW n \in Nets, Switch(n) PROVE IInv'
  BY <1>3, UserKeeps DEF Switch
<1>4. CASE UNCHANGED signVars
  BY <1>0, <1>4, UserKeeps DEF signVars
<1> QED
  BY <1>1, <1>2, <1>3, <1>4 DEF SigningNext

\* Whatever the user and the dApp do meanwhile, with any number of prompts open: what
\* an approval signed is signed by a key of the chain the dApp asked about, a
\* transaction for a network of that chain; an Ethereum one goes to no other network
\* than it was signed for unless the host names the node.
THEOREM SignedAsAsked == SigningSpec => []SignedForItsChain
<1>1. IInv => SignedForItsChain
  BY DEF IInv
<1> QED
  BY SigningStarts, SigningPreserves, <1>1, PTL DEF SigningSpec

-----------------------------------------------------------------------------
(* NetworkRegistry. RegisteredStays speaks of the rows. A worker between    *)
(* the two statements of an update has deleted one and not yet inserted it, *)
(* and a worker in the middle of a deletion would end it: TasksInv says     *)
(* that nobody deletes a registered chain and that no call runs before the  *)
(* session is up.                                                           *)

Target(i) == task[i].id[2]
\* The chain has a row, or a worker is between the two statements that write it.
Backed(c) == Rows(c) # {} \/ \E t \in Agents : Doing(t, "put") /\ task[t].id[2] = c

\* Calls run while the session is up; nobody deletes a registered chain.
TasksInv ==
    /\ phase # "up" => \A t \in Agents : task[t] = NoNet
    /\ \A c \in registered : ~Deleting(c)

NetInv == NetworkTypeOK /\ TasksInv /\ RegisteredStays

LEMMA TaskIs == ASSUME NetInv, NEW t \in Agents, task[t] # NoNet PROVE task[t] \in Task /\ task[t].id \in Ids /\ task[t].id[2] \in ChainIds
BY DEF NetInv, NetworkTypeOK, Task, Ids

LEMMA NetStarts == NetworkInit => NetInv
BY DEF NetworkInit, NetInv, NetworkTypeOK, TasksInv, RegisteredStays

LEMMA StartKeeps == ASSUME NetInv, Start PROVE NetInv'
BY DEF NetInv, Start, NetworkTypeOK, TasksInv, RegisteredStays, Rows, Doing, Deleting, Calls

LEMMA ServeKeeps == ASSUME NetInv, Serve PROVE NetInv'
BY DEF NetInv, Serve, NetworkTypeOK, TasksInv, RegisteredStays, Rows, Doing, Deleting, Calls

LEMMA SeedKeeps == ASSUME NetInv, NEW c \in Builtin, Seed(c) PROVE NetInv'
<1>1. c \in ChainIds /\ NetworkIdFor(c) \in Ids /\ NetworkIdFor(c)[2] = c
  BY ChainAssumption DEF NetworkIdFor, Ids
<1>2. NetworkTypeOK'
  BY <1>1 DEF Seed, NetInv, NetworkTypeOK
<1>3. \A t \in Agents : task[t] = NoNet /\ task'[t] = NoNet
  BY DEF Seed, NetInv, TasksInv
<1>4. TasksInv'
  BY <1>3 DEF Seed, TasksInv, Deleting, Calls
<1>5. RegisteredStays'
  BY <1>1, <1>3 DEF Seed, NetInv, RegisteredStays, Rows, Doing, CanInsert
<1> QED
  BY <1>2, <1>4, <1>5 DEF NetInv

LEMMA ExitKeeps == ASSUME NetInv, Exit PROVE NetInv'
<1>1. NetworkTypeOK'
  BY DEF Exit, NetInv, NetworkTypeOK
<1>2. \A t \in Agents : task'[t] = NoNet
  BY DEF Exit
<1>3. TasksInv'
  BY <1>2 DEF Exit, TasksInv, Deleting, Calls
<1>4. ASSUME NEW c \in registered' PROVE Rows(c)' # {}
  <2>1. c \in registered /\ ~\E t \in Agents : Doing(t, "put") /\ task[t].id[2] = c
    BY <1>4 DEF Exit, Half
  <2> QED
    BY <2>1 DEF Exit, NetInv, RegisteredStays, Rows
<1> QED
  BY <1>1, <1>3, <1>4 DEF NetInv, RegisteredStays

\* What is left of a step of one worker's call that changes no row and registers nothing.
LEMMA TaskKeeps ==
    ASSUME NetInv, NEW t \in Agents, NEW new \in Task \cup {NoNet},
           phase = "up", UNCHANGED <<stored, selected, phase, toSeed>>,
           task' = [task EXCEPT ![t] = new],
           registered' \in SUBSET registered,
           new # NoNet /\ new.call = "delete" => new.id[2] \notin registered',
           Doing(t, "put") => task[t].id[2] \notin registered'
    PROVE  NetInv'
<1>0. /\ task'[t] = new
      /\ \A u \in Agents \ {t} : task'[u] = task[u]
  BY DEF NetInv, NetworkTypeOK
<1>1. NetworkTypeOK'
  BY DEF NetInv, NetworkTypeOK
<1>2. TasksInv'
  BY <1>0 DEF NetInv, TasksInv, Deleting, Calls
<1>3. RegisteredStays'
  BY <1>0 DEF NetInv, RegisteredStays, Rows, Doing
<1> QED
  BY <1>1, <1>2, <1>3 DEF NetInv

LEMMA EnterKeeps ==
    ASSUME NetInv, NEW t \in Agents, NEW c \in {"create", "update", "delete", "select", "add", "switch"},
           NEW i \in Ids, Enter(t, c, i)
    PROVE  NetInv'
<1> DEFINE new == [call |-> c, id |-> i, pc |->
                 CASE c \in {"update", "add", "switch"} -> "look"
                   [] c = "create" -> "clear" [] OTHER -> "apply"]
<1>1. new \in Task
  BY DEF Task
<1>2. task' = [task EXCEPT ![t] = new] /\ UNCHANGED <<stored, selected, phase, toSeed>>
  BY DEF Enter
<1>3. phase = "up" /\ ~Doing(t, "put")
  BY DEF Enter, Doing
<1>4. registered' \in SUBSET registered /\ (new.call = "delete" => new.id[2] \notin registered')
  BY DEF Enter
<1> QED
  BY <1>1, <1>2, <1>3, <1>4, TaskKeeps

LEMMA ProceedKeeps ==
    ASSUME NetInv, NEW t \in Agents, task[t] # NoNet, ~Doing(t, "put"),
           NEW pc \in {"look", "prompt", "clear", "put", "apply"},
           Proceed(t, pc) \/ Leave(t),
           UNCHANGED <<stored, selected, phase, toSeed, registered>>
    PROVE  NetInv'
<1>0. phase = "up" /\ task[t] \in Task
  BY TaskIs DEF NetInv, TasksInv
<1>1. CASE Leave(t)
  BY <1>0, <1>1, TaskKeeps DEF Leave
<1>2. CASE Proceed(t, pc)
  <2> DEFINE new == [task[t] EXCEPT !.pc = pc]
  <2>1. new \in Task /\ new.call = task[t].call /\ new.id = task[t].id
    BY <1>0 DEF Task
  <2>2. task' = [task EXCEPT ![t] = new]
    BY <1>2 DEF Proceed
  <2>3. new.call = "delete" => new.id[2] \notin registered
    BY <2>1, TaskIs DEF NetInv, TasksInv, Deleting, Calls
  <2> QED
    BY <1>0, <2>1, <2>2, <2>3, TaskKeeps
<1> QED
  BY <1>1, <1>2

LEMMA ClearKeeps == ASSUME NetInv, NEW t \in Agents, Clear(t) PROVE NetInv'
<1>0. phase = "up" /\ task[t] # NoNet /\ task[t] \in Task /\ task[t].id[2] \in ChainIds
  BY TaskIs DEF NetInv, TasksInv, Clear, Doing
<1> DEFINE new == [task[t] EXCEPT !.pc = "put"]
<1>1. new \in Task /\ new.call = task[t].call /\ new.id = task[t].id /\ new.pc = "put"
  BY <1>0 DEF Task
<1>2. /\ task' = [task EXCEPT ![t] = new] /\ stored' = stored \ {task[t].id}
      /\ UNCHANGED <<selected, phase, toSeed, registered>>
  BY DEF Clear, Proceed
<1>3. task'[t] = new /\ \A u \in Agents \ {t} : task'[u] = task[u]
  BY <1>2 DEF NetInv, NetworkTypeOK
<1>4. NetworkTypeOK'
  BY <1>1, <1>2 DEF NetInv, NetworkTypeOK
<1>5. TasksInv'
  BY <1>0, <1>1, <1>2, <1>3 DEF NetInv, TasksInv, Deleting, Calls
<1>6. ASSUME NEW c \in registered PROVE Backed(c)'
  <2>1. CASE c = task[t].id[2]
    <3>1. Doing(t, "put")' /\ task'[t].id[2] = c
      BY <1>1, <1>3, <1>0, <2>1, NoNetAssumption DEF Doing
    <3> QED
      BY <3>1 DEF Backed
  <2>2. CASE c # task[t].id[2]
    BY <2>2, <1>2, <1>3, <1>1, <1>0 DEF NetInv, RegisteredStays, Backed, Rows, Doing, Clear
  <2> QED
    BY <2>1, <2>2
<1> QED
  BY <1>2, <1>4, <1>5, <1>6 DEF NetInv, RegisteredStays, Backed

LEMMA PutKeeps == ASSUME NetInv, NEW t \in Agents, Put(t) PROVE NetInv'
<1> DEFINE i == task[t].id
<1>0. phase = "up" /\ task[t] # NoNet /\ task[t] \in Task /\ i \in Ids /\ i[2] \in ChainIds
  BY TaskIs DEF NetInv, TasksInv, Put, Doing
<1>1. /\ task' = [task EXCEPT ![t] = NoNet]
      /\ stored' = IF CanInsert(i) THEN stored \cup {i} ELSE stored
      /\ registered' = IF CanInsert(i) /\ ~Deleting(i[2]) THEN registered \cup {i[2]} ELSE registered
      /\ UNCHANGED <<selected, phase, toSeed>>
  BY DEF Put, Leave
<1>2. task'[t] = NoNet /\ \A u \in Agents \ {t} : task'[u] = task[u]
  BY <1>1 DEF NetInv, NetworkTypeOK
<1>3. NetworkTypeOK'
  BY <1>0, <1>1 DEF NetInv, NetworkTypeOK
<1>4. TasksInv'
  BY <1>0, <1>1, <1>2 DEF NetInv, TasksInv, Deleting, Calls
<1>5. ASSUME NEW c \in registered' PROVE Backed(c)'
  <2>1. CASE c = i[2]
    BY <1>0, <1>1, <2>1 DEF Backed, Rows, CanInsert
  <2>2. CASE c # i[2]
    BY <1>0, <1>1, <1>2, <1>5, <2>2 DEF NetInv, RegisteredStays, Backed, Rows, Doing
  <2> QED
    BY <2>1, <2>2
<1> QED
  BY <1>3, <1>4, <1>5 DEF NetInv, RegisteredStays, Backed

LEMMA ApplyKeeps == ASSUME NetInv, NEW t \in Agents, Apply(t) PROVE NetInv'
<1> DEFINE i == task[t].id
<1>0. phase = "up" /\ task[t] # NoNet /\ task[t] \in Task /\ i \in Ids /\ i[2] \in ChainIds
  BY TaskIs DEF NetInv, TasksInv, Apply, Doing
<1>1. /\ task' = [task EXCEPT ![t] = NoNet] /\ stored' \in SUBSET stored
      /\ stored' = stored \/ (stored' = stored \ {i} /\ i[2] \notin registered)
      /\ selected' \in Ids \cup {NoNet}
      /\ UNCHANGED <<phase, toSeed, registered>>
  BY <1>0 DEF Apply, Leave, NetInv, NetworkTypeOK, TasksInv, Deleting, Calls
<1>2. task'[t] = NoNet /\ \A u \in Agents \ {t} : task'[u] = task[u]
  BY <1>1 DEF NetInv, NetworkTypeOK
<1>3. NetworkTypeOK'
  BY <1>0, <1>1 DEF NetInv, NetworkTypeOK
<1>4. TasksInv'
  BY <1>0, <1>1, <1>2 DEF NetInv, TasksInv, Deleting, Calls
<1>5. RegisteredStays'
  BY <1>0, <1>1, <1>2 DEF NetInv, RegisteredStays, Rows, Doing, Apply
<1> QED
  BY <1>3, <1>4, <1>5 DEF NetInv

LEMMA CallFailsKeeps == ASSUME NetInv, NEW t \in Agents, CallFails(t) PROVE NetInv'
<1>1. phase = "up" /\ task' = [task EXCEPT ![t] = NoNet] /\ UNCHANGED <<stored, selected, phase, toSeed>>
  BY DEF CallFails, Leave, NetInv, TasksInv
<1>2. registered' \in SUBSET registered /\ (Doing(t, "put") => task[t].id[2] \notin registered')
  BY DEF CallFails, Half
<1> QED
  BY <1>1, <1>2, TaskKeeps

LEMMA NetPreserves == ASSUME NetInv, [NetworkNext]_netVars PROVE NetInv'
<1>1. ASSUME NEW t \in Agents, Look(t) PROVE NetInv'
  BY <1>1, ProceedKeeps DEF Look, Doing
<1>2. ASSUME NEW t \in Agents, Decide(t) PROVE NetInv'
  BY <1>2, ProceedKeeps DEF Decide, Doing
<1>3. ASSUME NEW t \in Agents, AgentStep(t) PROVE NetInv'
  BY <1>1, <1>2, <1>3, EnterKeeps, ClearKeeps, PutKeeps, ApplyKeeps, CallFailsKeeps DEF AgentStep
<1>4. CASE UNCHANGED netVars
  BY <1>4 DEF netVars, NetInv, NetworkTypeOK, TasksInv, RegisteredStays, Rows, Doing, Deleting, Calls
<1> QED
  BY <1>3, <1>4, StartKeeps, ServeKeeps, ExitKeeps, SeedKeeps DEF NetworkNext

\* A chain that was seeded or saved keeps a row, under one id or the other, until
\* somebody deletes it, and every built-in chain of a session that is up does, too,
\* however updates, creations and approved additions of one chain overlap; but in the
\* middle of a save, whose first statement deletes the row, and when a save dies
\* there.
THEOREM RegisteredIsKept == NetworkSpec => []RegisteredStays
<1>1. NetInv /\ [NetworkNext]_netVars => NetInv'
  BY NetPreserves
<1>2. NetInv => RegisteredStays
  BY DEF NetInv
<1> QED
  BY <1>1, <1>2, NetStarts, PTL DEF NetworkSpec

-----------------------------------------------------------------------------
(* DappAccess. ShownByConsent and ApprovalHolds speak of what was shown and *)
(* of the links; ConsentInv adds what every call under way has read         *)
(* (ReaderOK), has linked and has still to link (ConnectOK), and will take  *)
(* back (DeleteOK, UnlinkOK), and that an approval and a revocation that    *)
(* run together are about different pairs (Apart).                          *)

Readers == DappCalls \ {"revoke"}
LinkRow    == [id : 1 .. MaxLink, host : Hosts, account : Accounts]

\* What a call that shows accounts has read is what it may show.
ReaderOK(w) == w.call \in Readers =>
    /\ w.host \in Hosts
    /\ \A a \in Accounts : <<w.host, a>> \in granted => <<w.host, a>> \in w.pairs
    /\ \A l \in left : l.host = w.host => Pair(l) \in w.pairs
    /\ \A l \in w.list : l.host = w.host /\ Pair(l) \in w.pairs
    /\ \A a \in w.got : <<w.host, a>> \in w.pairs

\* What an approval has linked, and has still to link.
ConnectOK(w) == w.call = "connect" =>
    /\ w.host \in Hosts /\ w.pc \in {"find", "read", "insert"}
    /\ \A a \in w.todo : <<w.host, a>> \in granted
    /\ w.pc # "find" => \E a \in w.todo : w.got = {a}
    /\ \A p \in w.pairs : p[1] = w.host /\ (p[2] \in w.todo \/ \E l \in links : Pair(l) = p)

\* A revocation has taken, or will take, every link of the pairs it takes back.
DeleteOK(w) == w.call = "delete" =>
    /\ w.pc \in {"find", "deleteLinks", "deleteRow"}
    /\ \E a \in Accounts : w.todo = {a}
    /\ \A p \in w.pairs : p[2] \in w.todo
    /\ w.pc = "deleteRow" => \A l \in links : Pair(l) \in w.pairs => l \in left

UnlinkOK(w) == w.call \in {"revoke", "unlink"} =>
    /\ w.pc \in {"read", "unlink"} /\ (w.call = "unlink" => w.pc = "unlink")
    /\ w.call = "revoke" => /\ w.host \in Hosts
                            /\ \A p \in w.pairs : p[1] = w.host
                            /\ \A l \in w.list : l.host = w.host
    /\ w.pc = "unlink" => \A l \in links : Pair(l) \in w.pairs => l \in w.list

\* Which call a statement is of.
CallOK(w) ==
    /\ w.pc = "choose" => w.call = "sign"
    /\ w.pc = "unlink" => w.call \in {"revoke", "unlink"}
    /\ w.pc \in {"deleteLinks", "deleteRow"} => w.call = "delete"
    /\ w.pc = "setCurrent" => w.call \in {"create", "createAt", "view", "select"}

CallHolds(w) == ReaderOK(w) /\ ConnectOK(w) /\ DeleteOK(w) /\ UnlinkOK(w) /\ CallOK(w)

\* The pairs a call takes back, of the call rather than its worker.
Takes(w) == IF w.call = "delete" THEN Hosts \X w.todo
            ELSE IF w.call = "revoke" THEN {w.host} \X Accounts
            ELSE IF w.call = "unlink" THEN {Pair(l) : l \in w.list} ELSE {}

\* An approval and a revocation in flight together are about different pairs.
Apart(w, v) == w.call = "connect" /\ v.call \in Revoking =>
    /\ \A a \in w.todo : <<w.host, a>> \notin v.pairs
    /\ \A p \in w.pairs : p \notin Takes(v)

LinksOK ==
    /\ \A l \in links : Pair(l) \in granted \/ l \in left
    /\ \A l, m \in links : Pair(l) = Pair(m) => l = m

BookOK ==
    /\ rows \subseteq Accounts /\ made \subseteq Accounts /\ watch \subseteq Accounts
    /\ chain \in [Accounts -> Chains] /\ index \in [Accounts -> 0 .. MaxIndex]
    /\ current \in Accounts \cup {Nothing}

ConsentTypes ==
    /\ work \in [Workers -> Work \cup {Nothing}]
    /\ links \subseteq LinkRow /\ linkId \in 0 .. MaxLink
    /\ granted \subseteq Pairs /\ kept \subseteq Pairs /\ left \subseteq links

WorkersOK ==
    /\ \A t \in Workers : work[t] # Nothing => CallHolds(work[t])
    /\ \A t, u \in Workers : work[t] # Nothing /\ work[u] # Nothing => Apart(work[t], work[u])
    /\ \A u \in Workers : work[u] # Nothing => kept \cap Takes(work[u]) = {}

ConsentInv == BookOK /\ ConsentTypes /\ LinksOK /\ WorkersOK /\ ShownByConsent /\ ApprovalHolds

LEMMA AboutIs == ASSUME NEW t \in Workers, work[t] # Nothing PROVE About(t) = Takes(work[t])
BY DEF About, Takes, Is, Busy

LEMMA ConsentStart == AccessInit => ConsentInv
BY AccessAssumption DEF AccessInit, ConsentInv, BookOK, ConsentTypes, Chains, LinksOK, WorkersOK, ShownByConsent, ApprovalHolds

LEMMA WorkIs == ASSUME ConsentInv, NEW t \in Workers, work[t] # Nothing
                PROVE  work[t] \in Work /\ CallHolds(work[t])
BY DEF ConsentInv, ConsentTypes, WorkersOK

\* A step of one call that leaves the links and the approvals alone.
LEMMA QuietKeeps ==
    ASSUME ConsentInv, NEW t \in Workers, NEW new \in Work \cup {Nothing},
           work' = [work EXCEPT ![t] = new],
           UNCHANGED <<links, linkId, granted, kept, left, leaked>>, BookOK',
           new # Nothing => CallHolds(new),
           new # Nothing /\ new.call \in Revoking \cup {"connect"} =>
               /\ work[t] # Nothing /\ new.call = work[t].call /\ new.host = work[t].host
               /\ new.todo \subseteq work[t].todo /\ new.pairs \subseteq work[t].pairs
               /\ Takes(new) \subseteq Takes(work[t])
    PROVE  ConsentInv'
<1>1. work'[t] = new /\ \A u \in Workers \ {t} : work'[u] = work[u]
  BY DEF ConsentInv, ConsentTypes
<1>2. ConsentTypes'
  BY DEF ConsentInv, ConsentTypes
<1>3. LinksOK' /\ ShownByConsent' /\ ApprovalHolds'
  BY DEF ConsentInv, LinksOK, ShownByConsent, ApprovalHolds
<1>4. \A w : CallHolds(w)' <=> CallHolds(w)
  BY DEF CallHolds, ReaderOK, ConnectOK, DeleteOK, UnlinkOK, CallOK
<1>5. ASSUME NEW u \in Workers, work'[u] # Nothing PROVE CallHolds(work'[u])
  BY <1>1, <1>5 DEF ConsentInv, WorkersOK
<1>6. ASSUME NEW u \in Workers, NEW v \in Workers, work'[u] # Nothing, work'[v] # Nothing
      PROVE  Apart(work'[u], work'[v])
  <2> DEFINE w == work'[u]  x == work'[v]
  <2> SUFFICES ASSUME w.call = "connect", x.call \in Revoking
               PROVE  /\ \A a \in w.todo : <<w.host, a>> \notin x.pairs
                      /\ \A p \in w.pairs : p \notin Takes(x)
    BY DEF Apart
  <2>1. /\ work[u] # Nothing /\ work[u].call = "connect" /\ w.host = work[u].host
        /\ w.todo \subseteq work[u].todo /\ w.pairs \subseteq work[u].pairs
    BY <1>1, <1>6
  <2>2. /\ work[v] # Nothing /\ work[v].call \in Revoking /\ x.pairs \subseteq work[v].pairs
        /\ Takes(x) \subseteq Takes(work[v])
    BY <1>1, <1>6
  <2>3. Apart(work[u], work[v])
    BY <2>1, <2>2 DEF ConsentInv, WorkersOK
  <2> QED
    BY <2>1, <2>2, <2>3 DEF Apart
<1>7. ASSUME NEW u \in Workers, work'[u] # Nothing PROVE kept \cap Takes(work'[u]) = {}
  <2>1. CASE work'[u] = work[u]
    BY <1>7, <2>1 DEF ConsentInv, WorkersOK
  <2>2. CASE u = t /\ new.call \in Revoking
    BY <1>1, <1>7, <2>2 DEF ConsentInv, WorkersOK
  <2>3. CASE u = t /\ new.call \notin Revoking
    BY <1>1, <2>3 DEF Takes, Revoking
  <2> QED
    BY <1>1, <2>1, <2>2, <2>3
<1>8. WorkersOK'
  <2>1. \A w : Takes(w)' = Takes(w)
    BY DEF Takes, Pair
  <2>2. \A w, v : Apart(w, v)' <=> Apart(w, v)
    BY <2>1 DEF Apart
  <2> QED
    BY <1>4, <1>5, <1>6, <1>7 DEF WorkersOK
<1> QED
  BY <1>2, <1>3, <1>8 DEF ConsentInv

LEMMA ReturnKeeps ==
    ASSUME ConsentInv, NEW t \in Workers, Return(t),
           UNCHANGED <<links, linkId, granted, kept, left, leaked>>, BookOK'
    PROVE  ConsentInv'
BY QuietKeeps DEF Return

-----------------------------------------------------------------------------
(* The statements of calls that neither connect nor revoke. *)

\* A call that is neither, nor shows accounts, has nothing to establish.
LEMMA OtherCall ==
    ASSUME NEW w, w.call \in {"create", "createAt", "view", "restore", "select"},
           w.pc \notin {"choose", "unlink", "deleteLinks", "deleteRow"},
           w.pc = "setCurrent" => w.call # "restore"
    PROVE  CallHolds(w)
BY DEF CallHolds, ReaderOK, ConnectOK, DeleteOK, UnlinkOK, CallOK, Readers, DappCalls

LEMMA OtherKeeps ==
    ASSUME ConsentInv, NEW t \in Workers, NEW new \in Work,
           work' = [work EXCEPT ![t] = new],
           UNCHANGED <<links, linkId, granted, kept, left, leaked>>, BookOK',
           new.call \in {"create", "createAt", "view", "restore", "select"},
           new.pc \notin {"choose", "unlink", "deleteLinks", "deleteRow"},
           new.pc = "setCurrent" => new.call # "restore"
    PROVE  ConsentInv'
<1>1. CallHolds(new)
  BY OtherCall
<1> QED
  BY <1>1, QuietKeeps DEF Revoking

LEMMA OtherBegins ==
    ASSUME ConsentInv, NEW t \in Workers,
           NEW c \in {"create", "createAt", "view", "restore", "select"}, NEW pc \in {"find", "read", "insert"},
           NEW as \in SUBSET Accounts, NEW k \in Chains, NEW i \in 0 .. MaxIndex,
           work' = [work EXCEPT ![t] = Call(c, pc, Nothing, as, k, i, {})],
           UNCHANGED <<book, links, linkId, granted, kept, left, leaked>>
    PROVE  ConsentInv'
<1> DEFINE new == Call(c, pc, Nothing, as, k, i, {})
<1>1. new \in Work /\ new.call = c /\ new.pc = pc
  BY DEF Call, Work, HostCalls
<1>2. BookOK'
  BY DEF ConsentInv, BookOK, book
<1> HIDE DEF new
<1> QED
  BY <1>1, <1>2, OtherKeeps DEF new

LEMMA BeginCreateKeeps ==
    ASSUME ConsentInv, NEW t \in Workers, NEW c \in {"create", "createAt", "view"}, NEW k \in Chains,
           NEW i \in 0 .. MaxIndex, BeginCreate(t, c, k, i)
    PROVE  ConsentInv'
<1>1. UNCHANGED <<book, links, linkId, granted, kept, left, leaked>>
  BY DEF BeginCreate, sites
<1>2. work' = [work EXCEPT ![t] = Call(c, "insert", Nothing, {}, k, i, {})]
      \/ work' = [work EXCEPT ![t] = Call(c, "read", Nothing, {}, k, i, {})]
  BY DEF BeginCreate
<1>3. {} \in SUBSET Accounts
  OBVIOUS
<1> QED
  BY <1>1, <1>2, <1>3, OtherBegins

LEMMA BeginRestoreKeeps == ASSUME ConsentInv, NEW t \in Workers, NEW a \in Accounts, BeginRestore(t, a) PROVE ConsentInv'
<1>1. /\ UNCHANGED <<book, links, linkId, granted, kept, left, leaked>>
      /\ work' = [work EXCEPT ![t] = Call("restore", "find", Nothing, {a}, chain[a], index[a], {})]
      /\ {a} \in SUBSET Accounts /\ chain[a] \in Chains /\ index[a] \in 0 .. MaxIndex
  BY DEF BeginRestore, sites, ConsentInv, BookOK
<1> QED
  BY <1>1, OtherBegins

LEMMA BeginSelectKeeps == ASSUME ConsentInv, NEW t \in Workers, NEW a \in Accounts, BeginSelect(t, a) PROVE ConsentInv'
<1>1. /\ UNCHANGED <<book, links, linkId, granted, kept, left, leaked>>
      /\ work' = [work EXCEPT ![t] = Call("select", "find", Nothing, {a}, chain[a], 0, {})]
      /\ {a} \in SUBSET Accounts /\ chain[a] \in Chains /\ 0 \in 0 .. MaxIndex
  BY AccessAssumption DEF BeginSelect, sites, history, ConsentInv, BookOK
<1> QED
  BY <1>1, OtherBegins

LEMMA BeginDappKeeps ==
    ASSUME ConsentInv, NEW t \in Workers, NEW h \in Hosts, NEW c \in DappCalls, BeginDapp(t, c, h)
    PROVE  ConsentInv'
<1> DEFINE ps == (granted \cup {Pair(l) : l \in left}) \cap ({h} \X Accounts)
           new == Call(c, "read", h, {}, "ethereum", 0, ps)
<1>0. c \in {"accounts", "solana", "sign"} /\ 0 \in 0 .. MaxIndex /\ ps \in SUBSET Pairs /\ "ethereum" \in Chains
  BY AccessAssumption DEF BeginDapp, Pairs, Chains
<1>1. /\ work' = [work EXCEPT ![t] = new]
      /\ UNCHANGED <<links, linkId, granted, kept, left, leaked>> /\ BookOK'
  BY DEF BeginDapp, book, sites, history, ConsentInv, BookOK
<1>2. /\ new \in Work /\ new.call = c /\ new.pc = "read" /\ new.host = h /\ new.list = {} /\ new.got = {}
      /\ new.pairs = ps
  BY <1>0 DEF Call, Work
<1> HIDE DEF new
<1>a. \A l \in left : l.host = h => Pair(l) \in ps
  BY DEF ConsentInv, ConsentTypes, LinkRow, Pair
<1>3. CallHolds(new)
  BY <1>0, <1>2, <1>a DEF CallHolds, ReaderOK, ConnectOK, DeleteOK, UnlinkOK, CallOK, Readers, DappCalls
<1> QED
  BY <1>0, <1>1, <1>2, <1>3, QuietKeeps DEF Revoking

\* The statements on accounts: the next one, or the end of the call.
LEMMA PcIs ==
    ASSUME NEW w \in Work, NEW pc \in {"find", "find2", "read", "choose", "insert", "setCurrent", "deleteLinks",
                                       "deleteRow", "unlink"}
    PROVE  /\ [w EXCEPT !.pc = pc] \in Work /\ [w EXCEPT !.pc = pc].pc = pc
           /\ [w EXCEPT !.pc = pc].call = w.call /\ [w EXCEPT !.pc = pc].host = w.host
           /\ [w EXCEPT !.pc = pc].todo = w.todo /\ [w EXCEPT !.pc = pc].list = w.list
           /\ [w EXCEPT !.pc = pc].got = w.got /\ [w EXCEPT !.pc = pc].pairs = w.pairs
           /\ [w EXCEPT !.pc = pc].chain = w.chain /\ [w EXCEPT !.pc = pc].index = w.index
BY DEF Work

\* next_index is past every index in use.
LEMMA IndexFree ==
    ASSUME BookOK, NEW t \in Workers
    PROVE  NextIndex(t) \in Nat /\ \A a \in Siblings(t) : index[a] < NextIndex(t)
<1> DEFINE is == {index[a] : a \in Siblings(t)}
<1>1. Siblings(t) \subseteq Accounts
  BY DEF Siblings, BookOK
<1>2. is \subseteq 0 .. MaxIndex /\ is \subseteq Nat
  BY <1>1 DEF BookOK
<1>3. IsFiniteSet(is)
  <2>1. IsFiniteSet(0 .. MaxIndex)
    BY AccessAssumption, FS_Interval
  <2> QED
    BY <1>2, <2>1, FS_Subset
<1>4. CASE Siblings(t) = {}
  BY <1>4 DEF NextIndex
<1>5. CASE Siblings(t) # {}
  <2>1. is # {}
    BY <1>5
  <2>2. \E i \in is : \A j \in is : j <= i
    BY <1>2, <1>3, <2>1, LargestExists
  <2>3. \E i \in is : \A a \in Siblings(t) : index[a] <= i
    BY <2>2
  <2> DEFINE top == CHOOSE i \in is : \A a \in Siblings(t) : index[a] <= i
  <2>4. top \in is /\ \A a \in Siblings(t) : index[a] <= top
    BY <2>3
  <2>5. NextIndex(t) = 1 + top
    BY <1>5 DEF NextIndex
  <2>6. top \in Nat /\ \A a \in Siblings(t) : index[a] \in Nat
    BY <1>2, <2>4
  <2> HIDE DEF top
  <2> QED
    BY <2>4, <2>5, <2>6
<1> QED
  BY <1>4, <1>5

LEMMA GotoKeeps ==
    ASSUME ConsentInv, NEW t \in Workers, work[t] # Nothing,
           work[t].call \in {"create", "createAt", "view", "restore", "select"},
           NEW pc \in {"find", "find2", "read", "insert", "setCurrent"}, Goto(t, pc),
           pc = "setCurrent" => work[t].call # "restore",
           UNCHANGED <<links, linkId, granted, kept, left, leaked>>, BookOK'
    PROVE  ConsentInv'
<1> DEFINE new == [work[t] EXCEPT !.pc = pc]
<1>1. work' = [work EXCEPT ![t] = new]
  BY DEF Goto
<1>2. new \in Work /\ new.call = work[t].call /\ new.pc = pc
  <2>1. work[t] \in Work
    BY WorkIs
  <2> QED
    BY <2>1 DEF Work
<1> HIDE DEF new
<1> QED
  BY <1>1, <1>2, OtherKeeps

LEMMA PickIndexKeeps == ASSUME ConsentInv, NEW t \in Workers, PickIndex(t) PROVE ConsentInv'
<1>1. /\ work[t] # Nothing /\ work[t].call \in {"create", "createAt"} /\ work[t] \in Work
      /\ UNCHANGED <<links, linkId, granted, kept, left, leaked>> /\ BookOK'
  BY WorkIs DEF PickIndex, Is, Busy, book, sites, history, ConsentInv, BookOK
<1>2. CASE work[t].call = "create"
  <2> DEFINE new == [work[t] EXCEPT !.index = NextIndex(t), !.pc = "insert"]
  <2>1. work' = [work EXCEPT ![t] = new]
    BY <1>1, <1>2 DEF PickIndex, Is, Busy
  <2>2. NextIndex(t) \in 0 .. MaxIndex
    <3>1. NextIndex(t) <= MaxIndex
      BY <1>1, <1>2 DEF PickIndex, Is, Busy
    <3> QED
      BY <3>1, IndexFree, AccessAssumption DEF ConsentInv
  <2>3. new \in Work /\ new.call = work[t].call /\ new.pc = "insert"
    BY <1>1, <2>2 DEF Work
  <2> HIDE DEF new
  <2> QED
    BY <1>1, <2>1, <2>3, OtherKeeps
<1>3. CASE work[t].call # "create"
  BY <1>1, <1>3, ReturnKeeps, GotoKeeps DEF PickIndex, Is, Busy
<1> QED
  BY <1>2, <1>3

LEMMA RestoreLooksKeeps == ASSUME ConsentInv, NEW t \in Workers, RestoreLooks(t) PROVE ConsentInv'
<1>1. /\ work[t] # Nothing /\ work[t].call = "restore"
      /\ UNCHANGED <<links, linkId, granted, kept, left, leaked>> /\ BookOK'
  BY DEF RestoreLooks, Is, Busy, book, sites, history, ConsentInv, BookOK
<1>2. Return(t) \/ Goto(t, "find2") \/ Goto(t, "insert")
  BY DEF RestoreLooks
<1> QED
  BY <1>1, <1>2, ReturnKeeps, GotoKeeps

LEMMA SetCurrentKeeps == ASSUME ConsentInv, NEW t \in Workers, SetCurrent(t) PROVE ConsentInv'
<1>1. work[t] # Nothing => work[t].todo \subseteq Accounts
  BY WorkIs DEF Work
<1>2. BookOK' /\ Return(t) /\ UNCHANGED <<links, linkId, granted, kept, left, leaked>>
  BY <1>1 DEF SetCurrent, At, Busy, sites, history, ConsentInv, BookOK
<1> QED
  BY <1>2, ReturnKeeps

LEMMA InsertAccountKeeps == ASSUME ConsentInv, NEW t \in Workers, NEW a \in Accounts, InsertAccount(t, a) PROVE ConsentInv'
<1>1. /\ work[t] # Nothing /\ work[t].call \in {"create", "createAt", "view", "restore"} /\ work[t] \in Work
      /\ UNCHANGED <<links, linkId, granted, kept, left, leaked>>
  BY WorkIs DEF InsertAccount, Is, Busy, sites, history
<1>a. BookOK'
  <2>1. BookOK /\ work[t].chain \in Chains /\ work[t].index \in 0 .. MaxIndex
    BY <1>1 DEF ConsentInv, Work
  <2> QED
    BY <2>1 DEF InsertAccount, NewAccount, BookOK
<1>2. CASE work[t].call = "restore"
  BY <1>1, <1>a, <1>2, ReturnKeeps DEF InsertAccount, Is, Busy
<1>3. CASE work[t].call # "restore"
  <2> DEFINE new == [work[t] EXCEPT !.pc = "setCurrent", !.todo = {a}]
  <2>1. work' = [work EXCEPT ![t] = new]
    BY <1>1, <1>3 DEF InsertAccount, Is, Busy
  <2>2. new \in Work /\ new.call = work[t].call /\ new.pc = "setCurrent"
    BY <1>1 DEF Work
  <2> HIDE DEF new
  <2> QED
    BY <1>1, <1>a, <1>3, <2>1, <2>2, OtherKeeps
<1> QED
  BY <1>2, <1>3

LEMMA FindAccountKeeps == ASSUME ConsentInv, NEW t \in Workers, FindAccount(t) PROVE ConsentInv'
<1>1. /\ work[t] # Nothing /\ work[t].call \in {"select", "delete"} /\ work[t] \in Work
      /\ CallHolds(work[t]) /\ work[t].pc = "find"
      /\ UNCHANGED <<links, linkId, granted, kept, left, leaked>> /\ BookOK'
  BY WorkIs DEF FindAccount, Is, At, Busy, book, sites, history, ConsentInv, BookOK
<1>2. CASE work[t].call = "select"
  BY <1>1, <1>2, ReturnKeeps, GotoKeeps DEF FindAccount, Is, Busy
<1>3. CASE work[t].call = "delete"
  <2> DEFINE new == [work[t] EXCEPT !.pc = "deleteLinks"]
  <2>1. Return(t) \/ work' = [work EXCEPT ![t] = new]
    BY <1>1, <1>3 DEF FindAccount, Is, Busy, Goto
  <2>2. /\ new \in Work /\ new.call = "delete" /\ new.pc = "deleteLinks" /\ new.host = work[t].host
        /\ new.todo = work[t].todo /\ new.pairs = work[t].pairs
    BY <1>1, <1>3, PcIs
  <2> HIDE DEF new
  <2>3. CallHolds(new) /\ Takes(new) \subseteq Takes(work[t])
    BY <1>1, <1>3, <2>2 DEF CallHolds, ReaderOK, ConnectOK, DeleteOK, UnlinkOK, CallOK, Readers, DappCalls, Takes
  <2> QED
    BY <1>1, <1>3, <2>1, <2>2, <2>3, ReturnKeeps, QuietKeeps
<1> QED
  BY <1>1, <1>2, <1>3

-----------------------------------------------------------------------------
(* The methods that show accounts, and what revoking and connecting read. *)

LEMMA ReadLinksKeeps == ASSUME ConsentInv, NEW t \in Workers, ReadLinks(t) PROVE ConsentInv'
<1> DEFINE pc == IF Is(t, {"revoke"}) THEN "unlink" ELSE IF Is(t, {"sign"}) THEN "choose" ELSE "find"
           ls == OfHost(work[t].host)
           new == [work[t] EXCEPT !.list = ls, !.pc = pc]
<1>1. /\ work[t] # Nothing /\ work[t].call \in DappCalls /\ work[t].pc = "read" /\ work[t] \in Work /\ CallHolds(work[t])
      /\ work' = [work EXCEPT ![t] = new]
      /\ UNCHANGED <<links, linkId, granted, kept, left, leaked>> /\ BookOK'
  BY WorkIs DEF ReadLinks, Is, At, Busy, book, sites, history, ConsentInv, BookOK
<1>2. ls \subseteq links /\ ls \subseteq LinkRow /\ \A l \in links : l \in ls <=> l.host = work[t].host
  BY DEF OfHost, ConsentInv, ConsentTypes
<1>3. /\ new \in Work /\ new.call = work[t].call /\ new.pc = pc /\ new.host = work[t].host /\ new.list = ls
      /\ new.todo = work[t].todo /\ new.pairs = work[t].pairs /\ new.got = work[t].got
  BY <1>1, <1>2 DEF Work, LinkRow
<1>4. pc \in {"unlink", "choose", "find"} /\ (pc = "unlink" <=> work[t].call = "revoke") /\ (pc = "choose" <=> work[t].call = "sign")
  BY <1>1 DEF Is, Busy
<1>5. \A l \in links : l.host \in Hosts /\ l.account \in Accounts /\ Pair(l) = <<l.host, l.account>> /\ (Pair(l) \in granted \/ l \in left)
  BY DEF ConsentInv, ConsentTypes, LinksOK, LinkRow, Pair
<1> HIDE DEF new, pc, ls
<1>6. ReaderOK(new)
  BY <1>1, <1>2, <1>3, <1>5 DEF CallHolds, ReaderOK
<1>7. ConnectOK(new) /\ DeleteOK(new) /\ CallOK(new)
  BY <1>1, <1>3, <1>4 DEF ConnectOK, DeleteOK, CallOK, DappCalls
<1>8. UnlinkOK(new)
  <2> SUFFICES ASSUME new.call = "revoke" PROVE UnlinkOK(new)
    BY <1>1, <1>3 DEF UnlinkOK, DappCalls
  <2>1. work[t].host \in Hosts /\ \A p \in work[t].pairs : p[1] = work[t].host
    BY <1>1, <1>3 DEF CallHolds, UnlinkOK
  <2>2. \A l \in links : Pair(l) \in work[t].pairs => l \in ls
    BY <1>2, <1>5, <2>1
  <2> QED
    BY <1>2, <1>3, <1>4, <2>1, <2>2 DEF UnlinkOK
<1>9. new.call \in Revoking => Takes(new) \subseteq Takes(work[t])
  BY <1>1, <1>3 DEF Takes, DappCalls, Revoking
<1> QED
  BY <1>1, <1>3, <1>6, <1>7, <1>8, <1>9, QuietKeeps DEF CallHolds, DappCalls

LEMMA ReaderKeeps ==
    ASSUME ConsentInv, NEW t \in Workers, work[t] # Nothing, work[t].call \in Readers, NEW new \in Work,
           work' = [work EXCEPT ![t] = new],
           new.call = work[t].call, new.host = work[t].host, new.pairs = work[t].pairs, new.pc \in {"find", "choose"},
           new.pc = "choose" => new.call = "sign",
           new.list \subseteq work[t].list,
           \A a \in new.got : a \in work[t].got \/ \E l \in work[t].list : a = l.account,
           UNCHANGED <<links, linkId, granted, kept, left, leaked>>, BookOK'
    PROVE  ConsentInv'
<1>1. ReaderOK(work[t])
  BY WorkIs DEF CallHolds
<1>2. ReaderOK(new)
  BY <1>1 DEF ReaderOK, Pair
<1>3. CallHolds(new) /\ new.call \notin Revoking \cup {"connect"}
  BY <1>2 DEF CallHolds, ConnectOK, DeleteOK, UnlinkOK, CallOK, Readers, DappCalls, Revoking
<1> QED
  BY <1>3, QuietKeeps

LEMMA ChooseSignerKeeps == ASSUME ConsentInv, NEW t \in Workers, ChooseSigner(t) PROVE ConsentInv'
<1>1. /\ work[t] # Nothing /\ work[t].pc = "choose" /\ work[t] \in Work /\ work[t].call = "sign"
      /\ UNCHANGED <<links, linkId, granted, kept, left, leaked>> /\ BookOK'
  BY WorkIs DEF ChooseSigner, At, Busy, book, sites, history, ConsentInv, BookOK, CallHolds, CallOK
<1>2. CASE Return(t)
  BY <1>1, <1>2, ReturnKeeps
<1>3. ASSUME NEW l \in First(work[t].list) \cup Named(work[t].list), work' = [work EXCEPT ![t].list = {l}, ![t].pc = "find"]
      PROVE  ConsentInv'
  <2>1. l \in work[t].list
    BY DEF First, Named
  <2> DEFINE new == [work[t] EXCEPT !.list = {l}, !.pc = "find"]
  <2>2. work' = [work EXCEPT ![t] = new]
    BY <1>3
  <2>3. /\ new \in Work /\ new.call = work[t].call /\ new.host = work[t].host /\ new.pairs = work[t].pairs
        /\ new.pc = "find" /\ new.list = {l} /\ new.got = work[t].got
    BY <1>1, <2>1 DEF Work
  <2> HIDE DEF new
  <2> QED
    BY <1>1, <2>1, <2>2, <2>3, ReaderKeeps DEF Readers, DappCalls
<1> QED
  BY <1>2, <1>3 DEF ChooseSigner

LEMMA ShowAccountKeeps == ASSUME ConsentInv, NEW t \in Workers, ShowAccount(t) PROVE ConsentInv'
<1>1. /\ work[t] # Nothing /\ work[t].pc = "find" /\ work[t] \in Work /\ CallHolds(work[t]) /\ work[t].call \in DappCalls
      /\ UNCHANGED <<links, linkId, granted, kept, left>> /\ BookOK'
  BY WorkIs DEF ShowAccount, Is, At, Busy, book, sites, ConsentInv, BookOK
<1>2. work[t].call \in Readers
  BY <1>1 DEF Readers, CallHolds, UnlinkOK
<1>3. CASE work[t].list = {}
  <2>1. Return(t) /\ leaked' = leaked \cup (({work[t].host} \X work[t].got) \ work[t].pairs)
    BY <1>3 DEF ShowAccount
  <2>2. leaked' = leaked
    BY <1>1, <1>2, <2>1 DEF CallHolds, ReaderOK
  <2> QED
    BY <1>1, <2>1, <2>2, ReturnKeeps
<1>4. CASE work[t].list # {}
  <2>1. PICK l \in work[t].list :
          work' = [work EXCEPT ![t].list = @ \ {l}, ![t].got = @ \cup {a \in {l.account} : Visible(t, a)}]
    BY <1>4 DEF ShowAccount
  <2>2. leaked' = leaked
    BY <1>4 DEF ShowAccount
  <2> DEFINE more == {a \in {l.account} : Visible(t, a)}
             new == [work[t] EXCEPT !.list = @ \ {l}, !.got = @ \cup more]
  <2>3. work' = [work EXCEPT ![t] = new]
    BY <2>1
  <2>4. more \subseteq {l.account} /\ l.account \in Accounts
    BY <1>1 DEF Work
  <2> HIDE DEF more
  <2>5. /\ new \in Work /\ new.call = work[t].call /\ new.host = work[t].host /\ new.pairs = work[t].pairs
        /\ new.pc = "find" /\ new.list = work[t].list \ {l} /\ new.got = work[t].got \cup more
    BY <1>1, <2>4 DEF Work
  <2> HIDE DEF new
  <2> QED
    BY <1>1, <1>2, <2>2, <2>3, <2>4, <2>5, ReaderKeeps
<1> QED
  BY <1>3, <1>4

-----------------------------------------------------------------------------
(* Links are made. *)

LEMMA ConnectFindKeeps == ASSUME ConsentInv, NEW t \in Workers, ConnectFind(t) PROVE ConsentInv'
<1>1. /\ work[t] # Nothing /\ work[t].pc = "find" /\ work[t] \in Work /\ CallHolds(work[t]) /\ work[t].call = "connect"
      /\ UNCHANGED <<links, linkId, granted, kept, left, leaked>> /\ BookOK'
  BY WorkIs DEF ConnectFind, Is, At, Busy, book, sites, history, ConsentInv, BookOK
<1>2. PICK a \in work[t].todo : Return(t) \/ work' = [work EXCEPT ![t].got = {a}, ![t].pc = "read"]
  BY DEF ConnectFind
<1> DEFINE new == [work[t] EXCEPT !.got = {a}, !.pc = "read"]
<1>3. Return(t) \/ work' = [work EXCEPT ![t] = new]
  BY <1>2
<1>4. /\ new \in Work /\ new.call = "connect" /\ new.pc = "read" /\ new.host = work[t].host
      /\ new.todo = work[t].todo /\ new.pairs = work[t].pairs /\ new.got = {a}
  BY <1>1 DEF Work
<1> HIDE DEF new
<1>5. ConnectOK(new)
  BY <1>1, <1>4 DEF CallHolds, ConnectOK
<1>6. CallHolds(new) /\ Takes(new) = {}
  BY <1>4, <1>5 DEF CallHolds, ReaderOK, DeleteOK, UnlinkOK, CallOK, Readers, DappCalls, Takes
<1> QED
  BY <1>1, <1>3, <1>4, <1>6, ReturnKeeps, QuietKeeps

\* The account at hand is linked, by this call or before it.
LEMMA LinkKeeps ==
    ASSUME ConsentInv, NEW t \in Workers, work[t] # Nothing, work[t].call = "connect", work[t].pc # "find",
           NEW more \in SUBSET LinkRow, links' = links \cup more, linkId' \in 0 .. MaxLink,
           \A l \in more : l.host = work[t].host /\ l.account \in work[t].got,
           \A l \in more : \A m \in links' : Pair(l) = Pair(m) => l = m,
           \E l \in links' : l.host = work[t].host /\ l.account \in work[t].got,
           NextAccount(t), UNCHANGED <<book, granted, left, leaked>>
    PROVE  ConsentInv'
<1> DEFINE w == work[t]  rest == w.todo \ w.got
<1>1. w \in Work /\ CallHolds(w) /\ ConnectOK(w)
  BY WorkIs DEF CallHolds
<1>2. PICK a \in w.todo : w.got = {a}
  BY <1>1 DEF ConnectOK
<1>3. PICK new \in Work \cup {Nothing} :
        /\ work' = [work EXCEPT ![t] = new]
        /\ \/ rest = {} /\ new = Nothing /\ kept' = kept \cup w.pairs
           \/ /\ kept' = kept /\ new.call = "connect" /\ new.pc = "find" /\ new.host = w.host /\ new.todo = rest
              /\ new.pairs = w.pairs /\ new \in Work
  <2>1. CASE rest = {}
    BY <2>1 DEF NextAccount, Return
  <2>2. CASE rest # {}
    <3> DEFINE n == [w EXCEPT !.todo = rest, !.pc = "find"]
    <3>1. work' = [work EXCEPT ![t] = n] /\ kept' = kept
      BY <2>2 DEF NextAccount
    <3>2. n \in Work /\ n.call = "connect" /\ n.pc = "find" /\ n.host = w.host /\ n.todo = rest /\ n.pairs = w.pairs
      BY <1>1 DEF Work
    <3> HIDE DEF n
    <3> QED
      BY <3>1, <3>2
  <2> QED
    BY <2>1, <2>2
<1>4. work'[t] = new /\ \A u \in Workers \ {t} : work'[u] = work[u]
  BY <1>3 DEF ConsentInv, ConsentTypes
<1>5. \A l \in links : l.host \in Hosts /\ l.account \in Accounts
  BY DEF ConsentInv, ConsentTypes, LinkRow
<1>6. \A l \in links' : Pair(l) = <<l.host, l.account>>
  BY DEF Pair
<1>7. \E l \in links' : Pair(l) = <<w.host, a>>
  BY <1>2, <1>6
<1>8. \A l \in more : Pair(l) = <<w.host, a>>
  BY <1>2, <1>6
<1>9. ConsentTypes' /\ BookOK' /\ ShownByConsent'
  BY <1>1, <1>3, <1>4 DEF ConsentInv, ConsentTypes, BookOK, book, ShownByConsent, Work
<1>10. LinksOK'
  <2>1. <<w.host, a>> \in granted
    BY <1>1 DEF ConnectOK
  <2>2. \A l \in links' : Pair(l)' = Pair(l)
    BY DEF Pair
  <2> QED
    BY <1>8, <2>1, <2>2 DEF ConsentInv, LinksOK
<1>11. \A p \in w.pairs : p = <<p[1], p[2]>> /\ p[1] = w.host /\ (p[2] \in w.todo \/ \E l \in links : Pair(l) = p)
  BY <1>1 DEF ConnectOK, Work, Pairs
<1>12. \A p \in w.pairs : p[2] \in rest \/ \E l \in links' : Pair(l) = p
  BY <1>2, <1>7, <1>11
<1>13. ASSUME NEW u \in Workers, NEW v, v = work'[u], v # Nothing PROVE CallHolds(v)'
  <2>1. CASE u = t
    <3>0. /\ new # Nothing /\ kept' = kept /\ new.call = "connect" /\ new.pc = "find" /\ new.host = w.host /\ new.todo = rest
          /\ new.pairs = w.pairs /\ new \in Work /\ v = new
      BY <1>3, <1>4, <1>13, <2>1
    <3>a. \A l \in links' : Pair(l)' = Pair(l)
      BY DEF Pair
    <3>1. ConnectOK(new)'
      BY <1>1, <1>11, <1>12, <3>0, <3>a DEF ConnectOK
    <3>2. CallHolds(new)'
      BY <3>0, <3>1 DEF CallHolds, ReaderOK, DeleteOK, UnlinkOK, CallOK, Readers, DappCalls
    <3> QED
      BY <3>0, <3>2
  <2>2. CASE u # t
    <3>1. v # Nothing /\ v = work[u] /\ CallHolds(v) /\ Apart(w, v)
      BY <1>4, <1>13, <2>2 DEF ConsentInv, WorkersOK
    <3>a. \A l \in links' : Pair(l)' = Pair(l)
      BY DEF Pair
    <3>2. v.call \in Revoking => \A l \in more : Pair(l) \notin v.pairs
      BY <1>2, <1>8, <3>1 DEF Apart
    <3>3. ReaderOK(v)' /\ CallOK(v)'
      BY <3>1 DEF CallHolds, ReaderOK, CallOK, Pair
    <3>4. ConnectOK(v)'
      BY <3>1, <3>a DEF CallHolds, ConnectOK
    <3>5. DeleteOK(v)'
      BY <3>1, <3>2, <3>a DEF CallHolds, DeleteOK, Revoking
    <3>6. UnlinkOK(v)'
      BY <3>1, <3>2, <3>a DEF CallHolds, UnlinkOK, Revoking
    <3> QED
      BY <3>3, <3>4, <3>5, <3>6 DEF CallHolds
  <2> QED
    BY <2>1, <2>2
<1>14. \A x, y : Apart(x, y)' <=> Apart(x, y)
  BY DEF Apart, Takes, Pair
<1>15. ASSUME NEW u \in Workers, NEW v \in Workers, work'[u] # Nothing, work'[v] # Nothing
       PROVE  Apart(work'[u], work'[v])
  <2>1. CASE v = t
    BY <1>3, <1>4, <1>15, <2>1 DEF Apart, Revoking
  <2>2. CASE v # t /\ u # t
    BY <1>4, <1>15, <2>2 DEF ConsentInv, WorkersOK
  <2>3. CASE v # t /\ u = t
    <3>1. Apart(w, work[v]) /\ work'[v] = work[v]
      BY <1>4, <1>15, <2>3 DEF ConsentInv, WorkersOK
    <3>2. work'[u] = new /\ new.todo \subseteq w.todo /\ new.host = w.host /\ new.pairs = w.pairs
      BY <1>3, <1>4, <1>15, <2>3
    <3> QED
      BY <3>1, <3>2 DEF Apart
  <2> QED
    BY <2>1, <2>2, <2>3
<1>16. ASSUME NEW u \in Workers, work'[u] # Nothing PROVE kept' \cap Takes(work'[u]) = {}
  <2>1. CASE u = t
    BY <1>3, <1>4, <1>16, <2>1 DEF Takes
  <2>2. CASE u # t
    <3>1. work'[u] = work[u] /\ Apart(w, work[u]) /\ kept \cap Takes(work[u]) = {}
      BY <1>4, <1>16, <2>2 DEF ConsentInv, WorkersOK
    <3>2. \A p \in w.pairs : p \notin Takes(work[u])
      BY <3>1 DEF Apart, Takes, Revoking
    <3> QED
      BY <1>3, <3>1, <3>2
  <2> QED
    BY <2>1, <2>2
<1>17. WorkersOK'
  <2>1. \A x : Takes(x)' = Takes(x)
    BY DEF Takes, Pair
  <2> QED
    BY <1>13, <1>14, <1>15, <1>16, <2>1 DEF WorkersOK
<1>18. ApprovalHolds'
  <2> SUFFICES ASSUME NEW p \in kept' PROVE \E l \in links' : Pair(l) = p
    BY DEF ApprovalHolds, Pair
  <2>1. CASE p \in kept
    BY <2>1 DEF ConsentInv, ApprovalHolds
  <2>2. CASE p \notin kept
    BY <1>3, <1>12, <2>2
  <2> QED
    BY <2>1, <2>2
<1> QED
  BY <1>9, <1>10, <1>17, <1>18 DEF ConsentInv

LEMMA ConnectReadKeeps == ASSUME ConsentInv, NEW t \in Workers, ConnectRead(t) PROVE ConsentInv'
<1>1. /\ work[t] # Nothing /\ work[t].pc = "read" /\ work[t] \in Work /\ CallHolds(work[t]) /\ work[t].call = "connect"
      /\ UNCHANGED <<book, links, linkId, granted, left, leaked>> /\ BookOK'
  BY WorkIs DEF ConnectRead, Is, At, Busy, book, sites, ConsentInv, BookOK
<1>2. CASE \E l \in OfHost(work[t].host) : l.account \in work[t].got
  <2>1. NextAccount(t)
    BY <1>2 DEF ConnectRead
  <2>2. \E l \in links' : l.host = work[t].host /\ l.account \in work[t].got
    BY <1>1, <1>2 DEF OfHost
  <2>3. links' = links \cup {} /\ linkId' \in 0 .. MaxLink /\ {} \in SUBSET LinkRow
    BY <1>1 DEF ConsentInv, ConsentTypes
  <2> QED
    BY <1>1, <2>1, <2>2, <2>3, LinkKeeps
<1>3. CASE ~ \E l \in OfHost(work[t].host) : l.account \in work[t].got
  <2> DEFINE new == [work[t] EXCEPT !.pc = "insert"]
  <2>1. work' = [work EXCEPT ![t] = new] /\ kept' = kept
    BY <1>3 DEF ConnectRead, Goto
  <2>2. /\ new \in Work /\ new.call = "connect" /\ new.pc = "insert" /\ new.host = work[t].host
        /\ new.todo = work[t].todo /\ new.pairs = work[t].pairs /\ new.got = work[t].got
    BY <1>1 DEF Work
  <2> HIDE DEF new
  <2>3. ConnectOK(new)
    BY <1>1, <2>2 DEF CallHolds, ConnectOK
  <2>4. CallHolds(new) /\ Takes(new) = {}
    BY <2>2, <2>3 DEF CallHolds, ReaderOK, DeleteOK, UnlinkOK, CallOK, Readers, DappCalls, Takes
  <2> QED
    BY <1>1, <2>1, <2>2, <2>4, QuietKeeps
<1> QED
  BY <1>2, <1>3

LEMMA ConnectInsertKeeps == ASSUME ConsentInv, NEW t \in Workers, ConnectInsert(t) PROVE ConsentInv'
<1>1. /\ work[t] # Nothing /\ work[t].pc = "insert" /\ work[t] \in Work /\ CallHolds(work[t]) /\ work[t].call = "connect"
      /\ UNCHANGED <<book, granted, left, leaked>> /\ BookOK' /\ linkId < MaxLink
  BY WorkIs DEF ConnectInsert, Is, At, Busy, book, sites, ConsentInv, BookOK
<1>2. CASE \E l \in OfHost(work[t].host) : l.account \in work[t].got
  BY <1>1, <1>2, ReturnKeeps DEF ConnectInsert, sites
<1>3. CASE ~ \E l \in OfHost(work[t].host) : l.account \in work[t].got
  <2> DEFINE more == {[id |-> linkId', host |-> work[t].host, account |-> a] : a \in work[t].got}
  <2>1. links' = links \cup more /\ linkId' = linkId + 1 /\ NextAccount(t)
    BY <1>3 DEF ConnectInsert
  <2>2. linkId' \in 1 .. MaxLink
    BY <1>1, <2>1, AccessAssumption DEF ConsentInv, ConsentTypes
  <2>3. work[t].host \in Hosts /\ work[t].got \subseteq Accounts /\ work[t].got # {}
    BY <1>1 DEF CallHolds, ConnectOK, Work
  <2>4. \A l \in more : l \in LinkRow /\ l.host = work[t].host /\ l.account \in work[t].got
    BY <2>2, <2>3 DEF LinkRow
  <2>5. more \in SUBSET LinkRow /\ \E l \in links' : l.host = work[t].host /\ l.account \in work[t].got
    BY <2>1, <2>3, <2>4
  <2>6. \A l \in more : \A m \in links' : Pair(l) = Pair(m) => l = m
    <3> SUFFICES ASSUME NEW l \in more, NEW m \in links', Pair(l) = Pair(m) PROVE l = m
      OBVIOUS
    <3>1. l.host = m.host /\ l.account = m.account
      BY DEF Pair
    <3>2. m \in more
      BY <1>3, <2>1, <2>4, <3>1 DEF OfHost
    <3> QED
      BY <3>1, <3>2
  <2> HIDE DEF more
  <2>7. linkId' \in 0 .. MaxLink
    BY <2>2
  <2> QED
    BY <1>1, <2>1, <2>4, <2>5, <2>6, <2>7, LinkKeeps
<1> QED
  BY <1>2, <1>3

-----------------------------------------------------------------------------
(* Links go, and with the last one what was granted. *)

LEMMA GrantsKeep ==
    ASSUME ConsentInv, NEW t \in Workers, work[t] # Nothing, work[t].call \in Revoking, Return(t),
           \A l \in links : Pair(l) \in work[t].pairs => l \in left,
           granted' = granted \ work[t].pairs, UNCHANGED <<links, linkId, kept, left, leaked>>, BookOK'
    PROVE  ConsentInv'
<1>1. work' = [work EXCEPT ![t] = Nothing]
  BY DEF Return
<1>2. work'[t] = Nothing /\ \A u \in Workers \ {t} : work'[u] = work[u]
  BY <1>1 DEF ConsentInv, ConsentTypes
<1>3. ConsentTypes' /\ ShownByConsent' /\ ApprovalHolds'
  BY <1>1 DEF ConsentInv, ConsentTypes, ShownByConsent, ApprovalHolds, Pair
<1>4. LinksOK'
  BY DEF ConsentInv, LinksOK, Pair
<1>5. ASSUME NEW u \in Workers, NEW v, v = work'[u], v # Nothing PROVE CallHolds(v)'
  <2>1. v = work[u] /\ CallHolds(v) /\ Apart(v, work[t])
    BY <1>2, <1>5 DEF ConsentInv, WorkersOK
  <2>2. ReaderOK(v)'
    BY <2>1 DEF CallHolds, ReaderOK, Pair
  <2>3. ConnectOK(v)'
    BY <2>1 DEF CallHolds, ConnectOK, Apart, Pair
  <2> QED
    BY <2>1, <2>2, <2>3 DEF CallHolds, DeleteOK, UnlinkOK, CallOK
<1>6. WorkersOK'
  <2>1. \A x : Takes(x)' = Takes(x)
    BY DEF Takes, Pair
  <2>2. \A x, y : Apart(x, y)' <=> Apart(x, y)
    BY <2>1 DEF Apart
  <2>3. \A u, v \in Workers : work'[u] # Nothing /\ work'[v] # Nothing => Apart(work'[u], work'[v])
    BY <1>2 DEF ConsentInv, WorkersOK
  <2>4. \A u \in Workers : work'[u] # Nothing => kept \cap Takes(work'[u]) = {}
    BY <1>2 DEF ConsentInv, WorkersOK
  <2> QED
    BY <1>5, <2>1, <2>2, <2>3, <2>4 DEF WorkersOK
<1> QED
  BY <1>3, <1>4, <1>6 DEF ConsentInv

LEMMA UnlinkKeeps ==
    ASSUME ConsentInv, NEW t \in Workers, work[t] # Nothing, work[t].call \in Revoking, NEW new \in Work,
           work' = [work EXCEPT ![t] = new], NEW gone, links' = links \ gone,
           \A l \in gone \cap links : Pair(l) \in Takes(work[t]),
           new.call = work[t].call, new.pairs \subseteq work[t].pairs, Takes(new) \subseteq Takes(work[t]),
           DeleteOK(new)', UnlinkOK(new)', CallOK(new),
           left' \subseteq links', \A l \in left \cap links' : l \in left',
           UNCHANGED <<linkId, granted, kept, leaked>>, BookOK'
    PROVE  ConsentInv'
<1>2. work'[t] = new /\ \A u \in Workers \ {t} : work'[u] = work[u]
  BY DEF ConsentInv, ConsentTypes
<1>3. ConsentTypes' /\ ShownByConsent' /\ LinksOK'
  BY DEF ConsentInv, ConsentTypes, ShownByConsent, LinksOK, Pair
<1>a. \A l : Pair(l)' = Pair(l)
  BY DEF Pair
<1>4. ApprovalHolds'
  <2>1. kept \cap Takes(work[t]) = {}
    BY DEF ConsentInv, WorkersOK
  <2> QED
    BY <1>a, <2>1 DEF ConsentInv, ApprovalHolds
<1>5. ASSUME NEW u \in Workers, NEW v, v = work'[u], v # Nothing PROVE CallHolds(v)'
  <2>1. CASE u = t
    <3>1. v = new
      BY <1>2, <1>5, <2>1
    <3>2. ReaderOK(new)' /\ ConnectOK(new)' /\ CallOK(new)'
      BY DEF ReaderOK, ConnectOK, CallOK, Readers, DappCalls, Revoking
    <3> QED
      BY <3>1, <3>2 DEF CallHolds
  <2>2. CASE u # t
    <3>1. v = work[u] /\ CallHolds(v) /\ Apart(v, work[t])
      BY <1>2, <1>5, <2>2 DEF ConsentInv, WorkersOK
    <3>a. ReaderOK(v)'
      <4>1. v.call \in Readers => \A l \in links : l.host = v.host => Pair(l) \in v.pairs
        BY <3>1 DEF CallHolds, ReaderOK, ConsentInv, ConsentTypes, LinksOK, LinkRow, Pair
      <4> QED
        BY <1>a, <3>1, <4>1 DEF CallHolds, ReaderOK
    <3>2. ReaderOK(v)' /\ CallOK(v)'
      BY <3>1, <3>a DEF CallHolds, CallOK
    <3>3. ConnectOK(v)'
      BY <1>a, <3>1 DEF CallHolds, ConnectOK, Apart
    <3>4. DeleteOK(v)' /\ UnlinkOK(v)'
      BY <1>a, <3>1 DEF CallHolds, DeleteOK, UnlinkOK
    <3> QED
      BY <3>2, <3>3, <3>4 DEF CallHolds
  <2> QED
    BY <2>1, <2>2
<1>6. ASSUME NEW u \in Workers, NEW v \in Workers, work'[u] # Nothing, work'[v] # Nothing
      PROVE  Apart(work'[u], work'[v])
  <2>1. CASE u = t
    BY <1>2, <2>1 DEF Apart, Revoking
  <2>2. CASE u # t /\ v = t
    <3>1. Apart(work[u], work[t]) /\ work'[u] = work[u] /\ work'[v] = new
      BY <1>2, <1>6, <2>2 DEF ConsentInv, WorkersOK
    <3> QED
      BY <3>1 DEF Apart
  <2>3. CASE u # t /\ v # t
    BY <1>2, <1>6, <2>3 DEF ConsentInv, WorkersOK
  <2> QED
    BY <2>1, <2>2, <2>3
<1>7. WorkersOK'
  <2>1. \A x : Takes(x)' = Takes(x)
    BY DEF Takes, Pair
  <2>2. \A x, y : Apart(x, y)' <=> Apart(x, y)
    BY <2>1 DEF Apart
  <2>3. \A u, v \in Workers : work'[u] # Nothing /\ work'[v] # Nothing => Apart(work'[u], work'[v])
    BY <1>6
  <2>4. \A u \in Workers : work'[u] # Nothing => kept \cap Takes(work'[u]) = {}
    BY <1>2 DEF ConsentInv, WorkersOK
  <2> QED
    BY <1>5, <2>1, <2>2, <2>3, <2>4 DEF WorkersOK
<1> QED
  BY <1>3, <1>4, <1>7 DEF ConsentInv

LEMMA RemoveLinkKeeps == ASSUME ConsentInv, NEW t \in Workers, RemoveLink(t) PROVE ConsentInv'
<1>1. /\ work[t] # Nothing /\ work[t].pc = "unlink" /\ work[t] \in Work /\ CallHolds(work[t])
      /\ UNCHANGED <<linkId, kept, leaked>> /\ BookOK'
  BY WorkIs DEF RemoveLink, At, Busy, book, ConsentInv, BookOK
<1>2. work[t].call \in {"revoke", "unlink"} /\ UnlinkOK(work[t])
  BY <1>1 DEF CallHolds, CallOK
<1>3. CASE work[t].list = {}
  <2>1. \A l \in links : Pair(l) \notin work[t].pairs
    BY <1>1, <1>2, <1>3 DEF UnlinkOK
  <2> QED
    BY <1>1, <1>2, <1>3, <2>1, GrantsKeep DEF RemoveLink, Revoking
<1>4. CASE work[t].list # {}
  <2>1. PICK l \in work[t].list : links' = links \ {l} /\ left' = left \ {l} /\ work' = [work EXCEPT ![t].list = @ \ {l}]
    BY <1>4 DEF RemoveLink
  <2>2. granted' = granted
    BY <1>4 DEF RemoveLink
  <2> DEFINE n == [work[t] EXCEPT !.list = @ \ {l}]
  <2>3. /\ n \in Work /\ n.call = work[t].call /\ n.pc = "unlink" /\ n.host = work[t].host /\ n.todo = work[t].todo
        /\ n.pairs = work[t].pairs /\ n.list = work[t].list \ {l}
    BY <1>1 DEF Work
  <2>4. work' = [work EXCEPT ![t] = n]
    BY <2>1
  <2> HIDE DEF n
  <2> PICK new \in Work : new = n
    BY <2>3
  <2>5. DeleteOK(new)' /\ CallOK(new)
    BY <1>2, <2>3 DEF DeleteOK, CallOK
  <2>a. \A m : Pair(m)' = Pair(m)
    BY DEF Pair
  <2>6. UnlinkOK(new)'
    BY <1>1, <1>2, <2>1, <2>3, <2>a DEF UnlinkOK
  <2>7. Takes(new) \subseteq Takes(work[t])
    BY <1>2, <2>3 DEF Takes
  <2>8. Pair(l) \in Takes(work[t])
    BY <1>1, <1>2 DEF Takes, UnlinkOK, Pair, Work
  <2>9. left' \subseteq links' /\ \A m \in left \cap links' : m \in left'
    BY <2>1 DEF ConsentInv, ConsentTypes
  <2> QED
    BY <2>9, <1>1, <1>2, <2>1, <2>2, <2>3, <2>4, <2>5, <2>6, <2>7, <2>8, UnlinkKeeps DEF Revoking
<1> QED
  BY <1>3, <1>4

LEMMA DeleteLinksKeeps == ASSUME ConsentInv, NEW t \in Workers, DeleteLinks(t) PROVE ConsentInv'
<1>1. /\ work[t] # Nothing /\ work[t].pc = "deleteLinks" /\ work[t] \in Work /\ CallHolds(work[t])
      /\ UNCHANGED <<linkId, granted, kept, leaked>> /\ BookOK'
  BY WorkIs DEF DeleteLinks, At, Busy, book, ConsentInv, BookOK
<1>2. work[t].call = "delete" /\ DeleteOK(work[t])
  BY <1>1 DEF CallHolds, CallOK
<1>3. PICK a \in Accounts : work[t].todo = {a}
  BY <1>2 DEF DeleteOK
<1> DEFINE n == [work[t] EXCEPT !.pc = "deleteRow"]
           mine == {l \in links : l.account = a}
<1>4. /\ work' = [work EXCEPT ![t] = n]
      /\ \/ links' = links \ mine /\ left' = left \ mine
         \/ UNCHANGED links /\ left' = left \cup mine
  BY <1>3 DEF DeleteLinks, Goto
<1>5. n \in Work /\ n.call = "delete" /\ n.pc = "deleteRow" /\ n.todo = work[t].todo /\ n.pairs = work[t].pairs
  BY <1>1, <1>2 DEF Work
<1> HIDE DEF n
<1> PICK new \in Work : new = n
  BY <1>5
<1>a. \A m : Pair(m)' = Pair(m)
  BY DEF Pair
<1>6. \A l \in mine : Pair(l) \in Takes(work[t])
  <2>1. Takes(work[t]) = Hosts \X {a}
    BY <1>2, <1>3 DEF Takes
  <2>2. \A l \in mine : l.host \in Hosts /\ l.account = a
    BY DEF ConsentInv, ConsentTypes, LinkRow
  <2> QED
    BY <2>1, <2>2 DEF Pair
<1>7. \A l \in links : Pair(l) \in work[t].pairs => l \in mine
  <2> SUFFICES ASSUME NEW l \in links, Pair(l) \in work[t].pairs PROVE l \in mine
    OBVIOUS
  <2>1. Pair(l)[2] = l.account
    BY DEF Pair
  <2>2. Pair(l)[2] = a
    BY <1>2, <1>3 DEF DeleteOK
  <2> QED
    BY <2>1, <2>2
<1>8. UnlinkOK(new)' /\ CallOK(new) /\ Takes(new) = Takes(work[t])
  BY <1>2, <1>5 DEF UnlinkOK, CallOK, Takes
<1>9. left \subseteq links /\ mine \subseteq links
  BY DEF ConsentInv, ConsentTypes
<1>10. PICK gone \in {mine, {}} :
         /\ links' = links \ gone
         /\ left' \subseteq links' /\ \A l \in left \cap links' : l \in left'
         /\ \A l \in mine \cap links' : l \in left'
  <2>1. CASE links' = links \ mine /\ left' = left \ mine
    <3>1. \A l \in mine \cap links' : l \in left'
      BY <2>1
    <3> QED
      BY <1>9, <2>1, <3>1
  <2>2. CASE UNCHANGED links /\ left' = left \cup mine
    <3>1. links' = links \ {}
      BY <2>2
    <3> QED
      BY <1>9, <2>2, <3>1
  <2> HIDE DEF mine
  <2> QED
    BY <1>4, <2>1, <2>2
<1>11. links' \subseteq links
  BY <1>10
<1>12. DeleteOK(new)'
  BY <1>2, <1>3, <1>5, <1>7, <1>10, <1>11, <1>a DEF DeleteOK
<1>13. \A l \in gone \cap links : Pair(l) \in Takes(work[t])
  BY <1>6, <1>10
<1> HIDE DEF mine
<1> QED
  BY <1>1, <1>2, <1>4, <1>5, <1>8, <1>10, <1>12, <1>13, UnlinkKeeps DEF Revoking

LEMMA DeleteRowKeeps == ASSUME ConsentInv, NEW t \in Workers, DeleteRow(t) PROVE ConsentInv'
<1>1. /\ work[t] # Nothing /\ work[t].pc = "deleteRow" /\ CallHolds(work[t])
      /\ UNCHANGED <<links, linkId, kept, left, leaked>> /\ BookOK' /\ Return(t) /\ granted' = granted \ work[t].pairs
  BY WorkIs DEF DeleteRow, At, Busy, sites, ConsentInv, BookOK
<1>2. work[t].call = "delete" /\ \A l \in links : Pair(l) \in work[t].pairs => l \in left
  BY <1>1 DEF CallHolds, CallOK, DeleteOK
<1> QED
  BY <1>1, <1>2, GrantsKeep DEF Revoking

-----------------------------------------------------------------------------
(* Approvals and revocations begin. *)

LEMMA BeginConnectKeeps ==
    ASSUME ConsentInv, NEW t \in Workers, NEW h \in Hosts, NEW as \in SUBSET Accounts, BeginConnect(t, h, as)
    PROVE  ConsentInv'
<1> DEFINE new == {h} \X as
           begun == Call("connect", "find", h, as, "ethereum", 0, new \ Withdrawing)
<1>1. /\ work[t] = Nothing /\ granted' = granted \cup new
      /\ work' = [u \in Workers |->
            IF u = t THEN begun
            ELSE IF Is(u, DappCalls \ {"revoke"}) THEN [work[u] EXCEPT !.pairs = @ \cup new]
            ELSE IF Is(u, Revoking) THEN [work[u] EXCEPT !.pairs = @ \ new]
            ELSE work[u]]
      /\ UNCHANGED <<links, linkId, kept, left, leaked>> /\ BookOK'
  BY DEF BeginConnect, Busy, book, sites, ConsentInv, BookOK
<1>2. /\ new \in SUBSET Pairs /\ 0 \in 0 .. MaxIndex
      /\ \A p \in new : p[1] = h /\ p[2] \in as /\ p = <<p[1], p[2]>>
      /\ \A x, y : <<x, y>> \in new <=> x = h /\ y \in as
  <2>1. new \in SUBSET Pairs
    BY DEF Pairs
  <2>2. 0 \in 0 .. MaxIndex
    BY AccessAssumption
  <2>3. ASSUME NEW p \in new PROVE p[1] = h /\ p[2] \in as /\ p = <<p[1], p[2]>>
    <3>1. p \in {h} \X as
      OBVIOUS
    <3>2. p[1] = h
      BY <3>1
    <3>3. p[2] \in as
      BY <3>1
    <3>4. p = <<p[1], p[2]>>
      BY <3>1
    <3> QED
      BY <3>2, <3>3, <3>4
  <2>4. \A x, y : <<x, y>> \in new <=> x = h /\ y \in as
    OBVIOUS
  <2> QED
    BY <2>1, <2>2, <2>3, <2>4
<1> HIDE DEF new
<1>3. /\ begun \in Work /\ begun.call = "connect" /\ begun.pc = "find" /\ begun.host = h /\ begun.todo = as
      /\ begun.pairs = new \ Withdrawing
  BY <1>2 DEF Call, Work, HostCalls, Chains
<1> PICK b \in Work : b = begun
  BY <1>3
<1> HIDE DEF begun
\* What becomes of another call.
<1>4. ASSUME NEW u \in Workers, u # t, NEW v, v = work'[u], v # Nothing
      PROVE  /\ work[u] # Nothing /\ v \in Work /\ v.call = work[u].call /\ v.pc = work[u].pc
             /\ v.host = work[u].host /\ v.todo = work[u].todo /\ v.list = work[u].list /\ v.got = work[u].got
             /\ v.call \in Readers => v.pairs = work[u].pairs \cup new
             /\ v.call \in Revoking => v.pairs = work[u].pairs \ new
             /\ v.call \notin Readers \cup Revoking => v.pairs = work[u].pairs
  <2>0. work[u] # Nothing => work[u] \in Work
    BY WorkIs
  <2>1. CASE Is(u, DappCalls \ {"revoke"})
    <3>1. v = [work[u] EXCEPT !.pairs = @ \cup new] /\ work[u] # Nothing /\ work[u].call \in Readers
      BY <1>1, <1>4, <2>1 DEF Is, Busy, Readers
    <3> QED
      BY <1>2, <2>0, <3>1 DEF Work, Readers, DappCalls, Revoking
  <2>2. CASE ~Is(u, DappCalls \ {"revoke"}) /\ Is(u, Revoking)
    <3>1. v = [work[u] EXCEPT !.pairs = @ \ new] /\ work[u] # Nothing /\ work[u].call \in Revoking
      BY <1>1, <1>4, <2>2 DEF Is, Busy
    <3> QED
      BY <1>2, <2>0, <3>1 DEF Work, Readers, DappCalls, Revoking
  <2>3. CASE ~Is(u, DappCalls \ {"revoke"}) /\ ~Is(u, Revoking)
    <3>1. v = work[u] /\ work[u] # Nothing /\ work[u].call \notin Readers \cup Revoking
      BY <1>1, <1>4, <2>3 DEF Is, Busy, Readers
    <3> QED
      BY <2>0, <3>1
  <2> QED
    BY <2>1, <2>2, <2>3
<1>5. work'[t] = b
  BY <1>1
<1>6. ConsentTypes'
  <2>1. \A u \in Workers : work'[u] \in Work \cup {Nothing}
    BY <1>3, <1>4, <1>5
  <2>2. work' \in [Workers -> Work \cup {Nothing}]
    BY <1>1, <2>1
  <2> QED
    BY <1>1, <1>2, <2>2 DEF ConsentInv, ConsentTypes
<1>7. LinksOK' /\ ShownByConsent' /\ ApprovalHolds'
  BY <1>1 DEF ConsentInv, LinksOK, ShownByConsent, ApprovalHolds, Pair
<1>8. ASSUME NEW u \in Workers, NEW v, v = work'[u], v # Nothing PROVE CallHolds(v)'
  <2>a. \A l : Pair(l)' = Pair(l)
    BY DEF Pair
  <2>1. CASE u = t
    <3>1. v = b
      BY <1>5, <1>8, <2>1
    <3>2. ConnectOK(b)'
      BY <1>1, <1>2, <1>3 DEF ConnectOK
    <3> QED
      BY <1>3, <3>1, <3>2 DEF CallHolds, ReaderOK, DeleteOK, UnlinkOK, CallOK, Readers, DappCalls
  <2>2. CASE u # t
    <3> PICK w : w = work[u]
      OBVIOUS
    <3>1. /\ w # Nothing /\ CallHolds(w) /\ v.call = w.call /\ v.pc = w.pc
          /\ v.host = w.host /\ v.todo = w.todo /\ v.list = w.list /\ v.got = w.got
          /\ v.call \in Readers => v.pairs = w.pairs \cup new
          /\ v.call \in Revoking => v.pairs = w.pairs \ new
          /\ v.call \notin Readers \cup Revoking => v.pairs = w.pairs
      BY <1>4, <1>8, <2>2 DEF ConsentInv, WorkersOK
    <3>2. ReaderOK(v)'
      <4> SUFFICES ASSUME v.call \in Readers PROVE ReaderOK(v)'
        BY DEF ReaderOK
      <4>1. v.pairs = w.pairs \cup new /\ ReaderOK(w) /\ w.call \in Readers
        BY <3>1 DEF CallHolds
      <4> QED
        BY <1>1, <2>a, <3>1, <4>1 DEF ReaderOK
    <3>3. ConnectOK(v)'
      <4> SUFFICES ASSUME v.call = "connect" PROVE ConnectOK(v)'
        BY DEF ConnectOK
      <4>1. v.pairs = w.pairs /\ ConnectOK(w) /\ w.call = "connect"
        BY <3>1 DEF CallHolds, Readers, DappCalls, Revoking
      <4> QED
        BY <1>1, <2>a, <3>1, <4>1 DEF ConnectOK
    <3>4. DeleteOK(v)' /\ UnlinkOK(v)'
      <4>1. v.call \in {"delete", "revoke", "unlink"} => v.pairs \subseteq w.pairs
        BY <3>1 DEF Revoking
      <4>2. DeleteOK(w) /\ UnlinkOK(w)
        BY <3>1 DEF CallHolds
      <4>3. DeleteOK(v)'
        BY <1>1, <2>a, <3>1, <4>1, <4>2 DEF DeleteOK
      <4>4. UnlinkOK(v)'
        BY <1>1, <2>a, <3>1, <4>1, <4>2 DEF UnlinkOK
      <4> QED
        BY <4>3, <4>4
    <3>5. CallOK(v)'
      BY <3>1 DEF CallHolds, CallOK
    <3> QED
      BY <3>2, <3>3, <3>4, <3>5 DEF CallHolds
  <2> QED
    BY <2>1, <2>2
<1>9. ASSUME NEW u \in Workers, u # t, work'[u] # Nothing PROVE Takes(work'[u]) = Takes(work[u])
  BY <1>4, <1>9 DEF Takes
<1>10. ASSUME NEW u \in Workers, NEW v \in Workers, work'[u] # Nothing, work'[v] # Nothing
       PROVE  Apart(work'[u], work'[v])
  <2> SUFFICES ASSUME work'[u].call = "connect", work'[v].call \in Revoking PROVE Apart(work'[u], work'[v])
    BY DEF Apart
  <2>1. v # t
    BY <1>3, <1>5 DEF Revoking
  <2> PICK x : x = work'[v]
    OBVIOUS
  <2>2. /\ work[v] # Nothing /\ work[v].call \in Revoking /\ x.pairs = work[v].pairs \ new
        /\ Takes(x) = Takes(work[v])
    BY <1>4, <1>9, <1>10, <2>1
  <2>3. CASE u = t
    <3>1. Takes(work[v]) \subseteq Withdrawing
      BY <2>2, AboutIs DEF Withdrawing
    <3> QED
      BY <1>2, <1>3, <1>5, <2>2, <2>3, <3>1 DEF Apart
  <2>4. CASE u # t
    <3> PICK w : w = work'[u]
      OBVIOUS
    <3>1. /\ work[u] # Nothing /\ work[u].call = "connect" /\ w.host = work[u].host /\ w.todo = work[u].todo
          /\ w.pairs = work[u].pairs
      BY <1>4, <1>10, <2>4 DEF Readers, DappCalls, Revoking
    <3>2. Apart(work[u], work[v])
      BY <2>2, <3>1 DEF ConsentInv, WorkersOK
    <3> QED
      BY <2>2, <3>1, <3>2 DEF Apart
  <2> QED
    BY <2>3, <2>4
<1>11. ASSUME NEW u \in Workers, work'[u] # Nothing PROVE kept \cap Takes(work'[u]) = {}
  <2>1. CASE u = t
    BY <1>3, <1>5, <2>1 DEF Takes
  <2>2. CASE u # t
    BY <1>4, <1>9, <1>11, <2>2 DEF ConsentInv, WorkersOK
  <2> QED
    BY <2>1, <2>2
<1>12. WorkersOK'
  <2>1. \A x : Takes(x)' = Takes(x)
    BY DEF Takes, Pair
  <2>2. \A x, y : Apart(x, y)' <=> Apart(x, y)
    BY <2>1 DEF Apart
  <2> QED
    BY <1>1, <1>8, <1>10, <1>11, <2>1, <2>2 DEF WorkersOK
<1> QED
  BY <1>1, <1>6, <1>7, <1>12 DEF ConsentInv

\* A revocation of ps begins, with what is to be true of it.
LEMMA WithdrawalKeeps ==
    ASSUME ConsentInv, NEW t \in Workers, NEW b \in Work, NEW ps \in SUBSET Pairs,
           b.call \in Revoking, b.pairs = ps \ Connecting, Takes(b) = ps, CallHolds(b),
           work[t] = Nothing, kept' = kept \ ps,
           work' = [u \in Workers |->
               IF u = t THEN b ELSE IF Is(u, {"connect"}) THEN [work[u] EXCEPT !.pairs = @ \ ps] ELSE work[u]],
           UNCHANGED <<book, links, linkId, granted, left, leaked>>
    PROVE  ConsentInv'
<1>1. BookOK' /\ UNCHANGED <<links, linkId, granted, left, leaked>>
  BY DEF ConsentInv, BookOK, book
<1>4. ASSUME NEW u \in Workers, u # t, NEW v, v = work'[u], v # Nothing
      PROVE  /\ work[u] # Nothing /\ v \in Work /\ v.call = work[u].call /\ v.pc = work[u].pc
             /\ v.host = work[u].host /\ v.todo = work[u].todo /\ v.list = work[u].list /\ v.got = work[u].got
             /\ v.call = "connect" => v.pairs = work[u].pairs \ ps
             /\ v.call # "connect" => v.pairs = work[u].pairs
  <2>0. work[u] # Nothing => work[u] \in Work
    BY WorkIs
  <2>1. CASE Is(u, {"connect"})
    <3>1. v = [work[u] EXCEPT !.pairs = @ \ ps] /\ work[u] # Nothing /\ work[u].call = "connect"
      BY <1>1, <1>4, <2>1 DEF Is, Busy
    <3> QED
      BY <2>0, <3>1 DEF Work
  <2>2. CASE ~Is(u, {"connect"})
    <3>1. v = work[u] /\ work[u] # Nothing /\ work[u].call # "connect"
      BY <1>1, <1>4, <2>2 DEF Is, Busy
    <3> QED
      BY <2>0, <3>1
  <2> QED
    BY <2>1, <2>2
<1>5. work'[t] = b
  BY <1>1
<1>6. ConsentTypes'
  <2>1. \A u \in Workers : work'[u] \in Work \cup {Nothing}
    BY <1>4, <1>5
  <2>2. work' \in [Workers -> Work \cup {Nothing}]
    BY <1>1, <2>1
  <2> QED
    BY <1>1, <2>2 DEF ConsentInv, ConsentTypes
<1>7. LinksOK' /\ ShownByConsent' /\ ApprovalHolds'
  BY <1>1 DEF ConsentInv, LinksOK, ShownByConsent, ApprovalHolds, Pair
<1>a. \A l : Pair(l)' = Pair(l)
  BY DEF Pair
<1>8. ASSUME NEW u \in Workers, NEW v, v = work'[u], v # Nothing PROVE CallHolds(v)'
  <2>1. CASE u = t
    <3>1. v = b
      BY <1>5, <1>8, <2>1
    <3> QED
      BY <1>1, <1>a, <3>1 DEF CallHolds, ReaderOK, ConnectOK, DeleteOK, UnlinkOK, CallOK
  <2>2. CASE u # t
    <3>1. /\ work[u] # Nothing /\ CallHolds(work[u]) /\ v.call = work[u].call /\ v.pc = work[u].pc
          /\ v.host = work[u].host /\ v.todo = work[u].todo /\ v.list = work[u].list /\ v.got = work[u].got
          /\ v.call = "connect" => v.pairs = work[u].pairs \ ps
          /\ v.call # "connect" => v.pairs = work[u].pairs
      <4>1. v = work'[u] /\ v # Nothing /\ u # t
        BY <1>8, <2>2
      <4>2. /\ work[u] # Nothing /\ v.call = work[u].call /\ v.pc = work[u].pc
            /\ v.host = work[u].host /\ v.todo = work[u].todo /\ v.list = work[u].list /\ v.got = work[u].got
        BY <1>4, <4>1
      <4>3. v.call = "connect" => v.pairs = work[u].pairs \ ps
        BY <1>4, <4>1
      <4>4. v.call # "connect" => v.pairs = work[u].pairs
        BY <1>4, <4>1
      <4> QED
        BY <4>2, <4>3, <4>4 DEF ConsentInv, WorkersOK
    <3>2. ReaderOK(v)'
      <4> SUFFICES ASSUME v.call \in Readers PROVE ReaderOK(v)'
        BY DEF ReaderOK
      <4>1. v.pairs = work[u].pairs /\ ReaderOK(work[u]) /\ work[u].call \in Readers
        BY <3>1 DEF CallHolds, Readers, DappCalls
      <4> QED
        BY <1>1, <1>a, <3>1, <4>1 DEF ReaderOK
    <3>3. ConnectOK(v)'
      BY <1>1, <1>a, <3>1 DEF CallHolds, ConnectOK
    <3>4. DeleteOK(v)'
      BY <1>1, <1>a, <3>1 DEF CallHolds, DeleteOK
    <3>5. UnlinkOK(v)'
      BY <1>1, <1>a, <3>1 DEF CallHolds, UnlinkOK
    <3>6. CallOK(v)'
      BY <3>1 DEF CallHolds, CallOK
    <3> QED
      BY <3>2, <3>3, <3>4, <3>5, <3>6 DEF CallHolds
  <2> QED
    BY <2>1, <2>2
<1>9. ASSUME NEW u \in Workers, u # t, work'[u] # Nothing PROVE Takes(work'[u]) = Takes(work[u])
  BY <1>4, <1>9 DEF Takes
<1>10. ASSUME NEW u \in Workers, NEW v \in Workers, work'[u] # Nothing, work'[v] # Nothing
       PROVE  Apart(work'[u], work'[v])
  <2> SUFFICES ASSUME work'[u].call = "connect", work'[v].call \in Revoking PROVE Apart(work'[u], work'[v])
    BY DEF Apart
  <2>1. u # t
    BY <1>5 DEF Revoking
  <2> PICK w : w = work'[u]
    OBVIOUS
  <2>2. /\ work[u] # Nothing /\ work[u].call = "connect" /\ w.host = work[u].host /\ w.todo = work[u].todo
        /\ w.pairs = work[u].pairs \ ps /\ w \in Work
    BY <1>4, <1>10, <2>1
  <2>3. CASE v = t
    <3>1. w.host \in Hosts /\ \A a \in w.todo : a \in Accounts
      BY <2>2, WorkIs DEF CallHolds, ConnectOK, Work
    <3>2. \A a \in w.todo : <<w.host, a>> \in Connecting
      BY <2>2, <3>1 DEF Connecting, Is, Busy, Pairs
    <3> QED
      BY <1>5, <2>2, <2>3, <3>2 DEF Apart
  <2>4. CASE v # t
    <3> PICK x : x = work'[v]
      OBVIOUS
    <3>1. /\ work[v] # Nothing /\ work[v].call = x.call /\ x.pairs = work[v].pairs /\ Takes(x) = Takes(work[v])
      BY <1>4, <1>9, <1>10, <2>4 DEF Revoking
    <3>2. Apart(work[u], work[v])
      BY <2>2, <3>1 DEF ConsentInv, WorkersOK
    <3> QED
      BY <2>2, <3>1, <3>2 DEF Apart
  <2> QED
    BY <2>3, <2>4
<1>11. ASSUME NEW u \in Workers, work'[u] # Nothing PROVE kept' \cap Takes(work'[u]) = {}
  <2>1. CASE u = t
    BY <1>1, <1>5, <2>1
  <2>2. CASE u # t
    BY <1>1, <1>4, <1>9, <1>11, <2>2 DEF ConsentInv, WorkersOK
  <2> QED
    BY <2>1, <2>2
<1>12. WorkersOK'
  <2>1. \A x : Takes(x)' = Takes(x)
    BY DEF Takes, Pair
  <2>2. \A x, y : Apart(x, y)' <=> Apart(x, y)
    BY <2>1 DEF Apart
  <2> QED
    BY <1>8, <1>10, <1>11, <2>1, <2>2 DEF WorkersOK
<1> QED
  BY <1>1, <1>6, <1>7, <1>12 DEF ConsentInv

LEMMA BeginRevokeKeeps == ASSUME ConsentInv, NEW t \in Workers, NEW h \in Hosts, BeginRevoke(t, h) PROVE ConsentInv'
<1> DEFINE ps == {h} \X Accounts
           n == [Call("revoke", "read", h, {}, "ethereum", 0, ps \ Connecting) EXCEPT !.list = {}]
<1>1. ps \in SUBSET Pairs /\ 0 \in 0 .. MaxIndex /\ \A p \in ps : p[1] = h
  BY AccessAssumption DEF Pairs
<1>2. /\ n \in Work /\ n.call = "revoke" /\ n.pc = "read" /\ n.host = h /\ n.pairs = ps \ Connecting /\ n.list = {}
  BY <1>1 DEF Call, Work, DappCalls, Chains
<1>3. /\ work[t] = Nothing /\ kept' = kept \ ps
      /\ work' = [u \in Workers |->
            IF u = t THEN n ELSE IF Is(u, {"connect"}) THEN [work[u] EXCEPT !.pairs = @ \ ps] ELSE work[u]]
      /\ UNCHANGED <<book, links, linkId, granted, left, leaked>>
  BY DEF BeginRevoke, BeginWithdrawal, Busy, sites
<1>4. Takes(n) = ps
  BY <1>2 DEF Takes
<1> HIDE DEF ps
<1>5. CallHolds(n)
  BY <1>1, <1>2 DEF CallHolds, ReaderOK, ConnectOK, DeleteOK, UnlinkOK, CallOK, Readers
<1> PICK b \in Work : b = n
  BY <1>2
<1> HIDE DEF n
<1>8. b.call \in Revoking /\ b.pairs = ps \ Connecting /\ Takes(b) = ps /\ CallHolds(b)
  BY <1>2, <1>4, <1>5 DEF Revoking
<1> QED
  BY <1>1, <1>3, <1>8, WithdrawalKeeps

LEMMA BeginUnlinkKeeps == ASSUME ConsentInv, NEW t \in Workers, NEW l \in links, BeginUnlink(t, l) PROVE ConsentInv'
<1> DEFINE ps == {Pair(l)}
           n == [Call("unlink", "unlink", l.host, {}, "ethereum", 0, ps \ Connecting) EXCEPT !.list = {l}]
<1>0. l \in LinkRow /\ l.host \in Hosts /\ l.account \in Accounts
  BY DEF ConsentInv, ConsentTypes, LinkRow
<1>1. ps \in SUBSET Pairs /\ 0 \in 0 .. MaxIndex
  BY <1>0, AccessAssumption DEF Pairs, Pair
<1>2. /\ n \in Work /\ n.call = "unlink" /\ n.pc = "unlink" /\ n.host = l.host /\ n.pairs = ps \ Connecting /\ n.list = {l}
  BY <1>0, <1>1 DEF Call, Work, HostCalls, Chains, LinkRow
<1>3. /\ work[t] = Nothing /\ kept' = kept \ ps
      /\ work' = [u \in Workers |->
            IF u = t THEN n ELSE IF Is(u, {"connect"}) THEN [work[u] EXCEPT !.pairs = @ \ ps] ELSE work[u]]
      /\ UNCHANGED <<book, links, linkId, granted, left, leaked>>
  BY DEF BeginUnlink, BeginWithdrawal, Busy, sites
<1>4. Takes(n) = ps
  BY <1>2 DEF Takes
<1>5. CallHolds(n)
  <2>1. \A m \in links : Pair(m) \in ps => m = l
    BY DEF ConsentInv, LinksOK
  <2> QED
    BY <1>2, <2>1 DEF CallHolds, ReaderOK, ConnectOK, DeleteOK, UnlinkOK, CallOK, Readers, DappCalls
<1> HIDE DEF ps
<1> PICK b \in Work : b = n
  BY <1>2
<1> HIDE DEF n
<1>8. b.call \in Revoking /\ b.pairs = ps \ Connecting /\ Takes(b) = ps /\ CallHolds(b)
  BY <1>2, <1>4, <1>5 DEF Revoking
<1> QED
  BY <1>1, <1>3, <1>8, WithdrawalKeeps

LEMMA BeginDeleteKeeps == ASSUME ConsentInv, NEW t \in Workers, NEW a \in Accounts, BeginDelete(t, a) PROVE ConsentInv'
<1> DEFINE ps == Hosts \X {a}
           n == [Call("delete", "find", Nothing, {a}, "ethereum", 0, ps \ Connecting) EXCEPT !.list = {}]
<1>1. ps \in SUBSET Pairs /\ 0 \in 0 .. MaxIndex /\ \A p \in ps : p[2] = a
  BY AccessAssumption DEF Pairs
<1>2. /\ n \in Work /\ n.call = "delete" /\ n.pc = "find" /\ n.todo = {a} /\ n.pairs = ps \ Connecting /\ n.list = {}
  BY <1>1 DEF Call, Work, HostCalls, Chains
<1>3. /\ work[t] = Nothing /\ kept' = kept \ ps
      /\ work' = [u \in Workers |->
            IF u = t THEN n ELSE IF Is(u, {"connect"}) THEN [work[u] EXCEPT !.pairs = @ \ ps] ELSE work[u]]
      /\ UNCHANGED <<book, links, linkId, granted, left, leaked>>
  BY DEF BeginDelete, BeginWithdrawal, Busy, sites
<1>4. Takes(n) = ps
  BY <1>2 DEF Takes
<1> HIDE DEF ps
<1>5. CallHolds(n)
  BY <1>1, <1>2 DEF CallHolds, ReaderOK, ConnectOK, DeleteOK, UnlinkOK, CallOK, Readers, DappCalls
<1> PICK b \in Work : b = n
  BY <1>2
<1> HIDE DEF n
<1>8. b.call \in Revoking /\ b.pairs = ps \ Connecting /\ Takes(b) = ps /\ CallHolds(b)
  BY <1>2, <1>4, <1>5 DEF Revoking
<1> QED
  BY <1>1, <1>3, <1>8, WithdrawalKeeps

LEMMA ConsentPreserved == ConsentInv /\ [AccessNext]_accessVars => ConsentInv'
<1> SUFFICES ASSUME ConsentInv, [AccessNext]_accessVars PROVE ConsentInv'
  OBVIOUS
<1>1. CASE UNCHANGED accessVars
  <2>1. UNCHANGED <<book, links, linkId, work, granted, kept, left, leaked>>
    BY <1>1 DEF accessVars, sites, history
  <2>2. BookOK' /\ ConsentTypes' /\ LinksOK' /\ ShownByConsent' /\ ApprovalHolds'
    BY <2>1 DEF book, ConsentInv, BookOK, ConsentTypes, LinksOK, Pair, ShownByConsent, ApprovalHolds
  <2>3. \A x : Takes(x)' = Takes(x) /\ (CallHolds(x)' <=> CallHolds(x))
    BY <2>1 DEF Takes, Pair, CallHolds, ReaderOK, ConnectOK, DeleteOK, UnlinkOK, CallOK
  <2>4. \A x, y : Apart(x, y)' <=> Apart(x, y)
    BY <2>3 DEF Apart
  <2>5. WorkersOK'
    BY <2>1, <2>3, <2>4 DEF ConsentInv, WorkersOK
  <2> QED
    BY <2>2, <2>5 DEF ConsentInv
<1>2. ASSUME NEW t \in Workers, AccessBegin(t) PROVE ConsentInv'
  <2>1. ASSUME NEW c \in {"create", "createAt", "view"}, NEW k \in Chains, NEW i \in 0 .. MaxIndex,
               BeginCreate(t, c, k, IF c = "createAt" THEN i ELSE 0)
        PROVE  ConsentInv'
    <3>1. (IF c = "createAt" THEN i ELSE 0) \in 0 .. MaxIndex
      BY AccessAssumption
    <3> QED
      BY <2>1, <3>1, BeginCreateKeeps
  <2>2. ASSUME NEW a \in Accounts, BeginRestore(t, a) \/ BeginSelect(t, a) \/ BeginDelete(t, a) PROVE ConsentInv'
    BY <2>2, BeginRestoreKeeps, BeginSelectKeeps, BeginDeleteKeeps
  <2>3. ASSUME NEW h \in Hosts, BeginRevoke(t, h) PROVE ConsentInv'
    BY <2>3, BeginRevokeKeeps
  <2>4. ASSUME NEW h \in Hosts, NEW as \in SUBSET Accounts, BeginConnect(t, h, as) PROVE ConsentInv'
    BY <2>4, BeginConnectKeeps
  <2>5. ASSUME NEW h \in Hosts, NEW c \in DappCalls, BeginDapp(t, c, h) PROVE ConsentInv'
    BY <2>5, BeginDappKeeps
  <2>6. ASSUME NEW l \in links, BeginUnlink(t, l) PROVE ConsentInv'
    BY <2>6, BeginUnlinkKeeps
  <2> QED
    BY <1>2, <2>1, <2>2, <2>3, <2>4, <2>5, <2>6 DEF AccessBegin
<1>3. ASSUME NEW t \in Workers, AccessStep(t) PROVE ConsentInv'
  BY <1>3, PickIndexKeeps, RestoreLooksKeeps, FindAccountKeeps, SetCurrentKeeps, InsertAccountKeeps, DeleteLinksKeeps,
     DeleteRowKeeps, ConnectFindKeeps, ConnectReadKeeps, ConnectInsertKeeps, ReadLinksKeeps, ChooseSignerKeeps,
     ShowAccountKeeps, RemoveLinkKeeps DEF AccessStep
<1>4. ASSUME NEW t \in Workers, AccessFails(t) PROVE ConsentInv'
  <2>1. BookOK' /\ Return(t) /\ UNCHANGED <<links, linkId, granted, kept, left, leaked>>
    BY <1>4 DEF AccessFails, book, sites, history, ConsentInv, BookOK
  <2> QED
    BY <2>1, ReturnKeeps
<1> QED
  BY <1>1, <1>2, <1>3, <1>4 DEF AccessNext

\* A dApp is shown, or asks a signature of, accounts the user approved for its own
\* origin, none that was disconnected or deleted before the call began, however
\* approvals, revocations, deletions and the dApp's calls overlap, except through a
\* link that a deletion failed to clean up and that still stands (account::delete).
THEOREM Consented == AccessSpec => []ShownByConsent
<1>1. ConsentInv => ShownByConsent
  BY DEF ConsentInv
<1> QED
  BY <1>1, ConsentStart, ConsentPreserved, PTL DEF AccessSpec

\* An approval that returned success holds until somebody begins to revoke it: no
\* deletion, revocation or other approval that overlaps it takes its link.
THEOREM ApprovalKept == AccessSpec => []ApprovalHolds
<1>1. ConsentInv => ApprovalHolds
  BY DEF ConsentInv
<1> QED
  BY <1>1, ConsentStart, ConsentPreserved, PTL DEF AccessSpec

-----------------------------------------------------------------------------
(* DappAccess, the index of an account. Between the query for the next      *)
(* index and the insertion another call may take the index; IndexInv says   *)
(* that then the chain is among those two calls overlapped on (raced), and  *)
(* that otherwise nobody has the index a call holds.                        *)

Indexing == {"create", "createAt", "restore"}

\* A call about to insert has an index nobody of its chain has, unless it was overlapped.
Fresh(w) == w.call \in Indexing /\ w.pc = "insert" /\ w.chain \notin raced =>
    \A a \in rows \ watch : chain[a] = w.chain => index[a] # w.index

\* A restoration inserts what the account was made with.
Restores(w) == w.call = "restore" =>
    \E a \in made \ watch : w.todo = {a} /\ w.chain = chain[a] /\ w.index = index[a]

Overlaps(w, v) == w.call \in Indexing /\ v.call \in Indexing /\ w.chain = v.chain => w.chain \in raced

IndexInv ==
    /\ rows \subseteq made /\ watch \subseteq made /\ raced \subseteq Chains
    /\ \A t \in Workers : work[t] # Nothing => Fresh(work[t]) /\ Restores(work[t])
    /\ \A t, u \in Workers : t # u /\ work[t] # Nothing /\ work[u] # Nothing => Overlaps(work[t], work[u])
    /\ OneAccountPerIndex

\* Steps that neither insert an account nor take an index.
LEMMA SteadyKeeps ==
    ASSUME IndexInv, rows' \subseteq rows, UNCHANGED <<made, chain, index, watch, raced>>,
           \A u \in Workers : work'[u] # Nothing /\ work'[u].call \in Indexing =>
               /\ work[u] # Nothing /\ work'[u].call = work[u].call /\ work'[u].chain = work[u].chain
               /\ work'[u].index = work[u].index /\ work'[u].todo = work[u].todo
               /\ work'[u].pc = "insert" => work[u].pc = "insert"
    PROVE  IndexInv'
<1>1. ASSUME NEW u \in Workers, NEW v, v = work'[u], v # Nothing PROVE Fresh(v)' /\ Restores(v)'
  <2>1. CASE v.call \in Indexing
    <3>1. /\ work[u] # Nothing /\ v.call = work[u].call /\ v.chain = work[u].chain
          /\ v.index = work[u].index /\ v.todo = work[u].todo
          /\ v.pc = "insert" => work[u].pc = "insert"
      BY <1>1, <2>1
    <3>2. Fresh(work[u]) /\ Restores(work[u])
      BY <3>1 DEF IndexInv
    <3> QED
      BY <3>1, <3>2 DEF Fresh, Restores
  <2>2. CASE v.call \notin Indexing
    BY <2>2 DEF Fresh, Restores, Indexing
  <2> QED
    BY <2>1, <2>2
<1>2. ASSUME NEW t \in Workers, NEW u \in Workers, t # u, work'[t] # Nothing, work'[u] # Nothing
      PROVE  Overlaps(work'[t], work'[u])
  BY <1>2 DEF IndexInv, Overlaps
<1>3. \A x, y : Overlaps(x, y)' <=> Overlaps(x, y)
  BY DEF Overlaps
<1>4. OneAccountPerIndex'
  BY DEF IndexInv, OneAccountPerIndex
<1> QED
  BY <1>1, <1>2, <1>3, <1>4 DEF IndexInv

LEMMA OthersStepKeeps ==
    ASSUME ConsentInv, IndexInv, NEW t \in Workers, rows' \subseteq rows, UNCHANGED <<made, chain, index, watch, raced>>,
           \A u \in Workers \ {t} : work'[u] = work[u],
           work'[t] = Nothing \/ work'[t].call \notin Indexing
    PROVE  IndexInv'
BY SteadyKeeps

LEMMA ReturnSteady ==
    ASSUME ConsentInv, IndexInv, NEW t \in Workers, rows' \subseteq rows, UNCHANGED <<made, chain, index, watch, raced>>,
           Return(t)
    PROVE  IndexInv'
<1>1. work'[t] = Nothing /\ \A u \in Workers \ {t} : work'[u] = work[u]
  BY DEF Return, ConsentInv, ConsentTypes
<1> QED
  BY <1>1, OthersStepKeeps

LEMMA OthersEditKeeps ==
    ASSUME ConsentInv, IndexInv, NEW t \in Workers, work[t] # Nothing, work[t].call \notin Indexing,
           rows' \subseteq rows, UNCHANGED <<made, chain, index, watch, raced>>,
           NEW new, work' = [work EXCEPT ![t] = new], new = Nothing \/ new.call = work[t].call
    PROVE  IndexInv'
<1>1. work'[t] = new /\ \A u \in Workers \ {t} : work'[u] = work[u]
  BY DEF ConsentInv, ConsentTypes
<1> QED
  BY <1>1, OthersStepKeeps

LEMMA AccessStepsSteady ==
    ASSUME ConsentInv, IndexInv, NEW t \in Workers,
           \/ FindAccount(t) \/ SetCurrent(t) \/ DeleteLinks(t) \/ DeleteRow(t)
           \/ ConnectFind(t) \/ ConnectRead(t) \/ ConnectInsert(t)
           \/ ReadLinks(t) \/ ChooseSigner(t) \/ ShowAccount(t) \/ RemoveLink(t) \/ AccessFails(t)
    PROVE  IndexInv'
<1>0. rows' \subseteq rows /\ UNCHANGED <<made, chain, index, watch, raced>> /\ work[t] # Nothing
  BY DEF FindAccount, SetCurrent, DeleteLinks, DeleteRow, ConnectFind, ConnectRead, ConnectInsert, ReadLinks,
         ChooseSigner, ShowAccount, RemoveLink, AccessFails, book, sites, history, At, Busy
<1>1. work[t] \in Work /\ CallHolds(work[t])
  BY <1>0, WorkIs
<1>2. CASE SetCurrent(t) \/ AccessFails(t) \/ DeleteRow(t)
  BY <1>0, <1>2, ReturnSteady DEF SetCurrent, AccessFails, DeleteRow
<1>a. \A pc : [work[t] EXCEPT !.pc = pc].call = work[t].call
  BY <1>1 DEF Work
<1>3. CASE FindAccount(t)
  <2>1. work[t].call \notin Indexing
    BY <1>3 DEF FindAccount, Is, Indexing
  <2>2. Return(t) \/ \E pc : work' = [work EXCEPT ![t] = [work[t] EXCEPT !.pc = pc]]
    BY <1>3 DEF FindAccount, Goto
  <2> QED
    BY <1>0, <1>a, <2>1, <2>2, ReturnSteady, OthersEditKeeps
<1>4. CASE DeleteLinks(t)
  <2>1. work[t].call \notin Indexing
    BY <1>1, <1>4 DEF DeleteLinks, At, CallHolds, CallOK, Indexing
  <2>2. \/ work' = [work EXCEPT ![t] = [work[t] EXCEPT !.pc = "deleteRow"]]
        \/ work' = [work EXCEPT ![t] = [work[t] EXCEPT !.pc = "deleteRow", !.pairs = {}]]
    BY <1>4 DEF DeleteLinks, Goto
  <2>3. [work[t] EXCEPT !.pc = "deleteRow", !.pairs = {}].call = work[t].call
    BY <1>1 DEF Work
  <2> QED
    BY <1>0, <1>a, <2>1, <2>2, <2>3, OthersEditKeeps
<1>5. CASE ConnectFind(t) \/ ConnectRead(t) \/ ConnectInsert(t)
  <2>1. work[t].call \notin Indexing
    BY <1>5 DEF ConnectFind, ConnectRead, ConnectInsert, Is, Indexing
  <2>2. \/ Return(t)
        \/ \E a : work' = [work EXCEPT ![t] = [work[t] EXCEPT !.got = {a}, !.pc = "read"]]
        \/ work' = [work EXCEPT ![t] = [work[t] EXCEPT !.pc = "insert"]]
        \/ \E rest : work' = [work EXCEPT ![t] = [work[t] EXCEPT !.todo = rest, !.pc = "find"]]
    BY <1>5 DEF ConnectFind, ConnectRead, ConnectInsert, NextAccount, Goto
  <2>3. /\ \A a : [work[t] EXCEPT !.got = {a}, !.pc = "read"].call = work[t].call
        /\ \A rest : [work[t] EXCEPT !.todo = rest, !.pc = "find"].call = work[t].call
    BY <1>1 DEF Work
  <2> QED
    BY <1>0, <1>a, <2>1, <2>2, <2>3, ReturnSteady, OthersEditKeeps
<1>6. CASE ReadLinks(t)
  <2>1. work[t].call \notin Indexing
    BY <1>6 DEF ReadLinks, Is, DappCalls, Indexing
  <2>2. PICK ls, pc : work' = [work EXCEPT ![t] = [work[t] EXCEPT !.list = ls, !.pc = pc]]
    BY <1>6 DEF ReadLinks
  <2>3. [work[t] EXCEPT !.list = ls, !.pc = pc].call = work[t].call
    BY <1>1 DEF Work
  <2> QED
    BY <1>0, <2>1, <2>2, <2>3, OthersEditKeeps
<1>7. CASE ChooseSigner(t)
  <2>1. work[t].call \notin Indexing
    BY <1>1, <1>7 DEF ChooseSigner, At, CallHolds, CallOK, Indexing
  <2>2. Return(t) \/ \E l : work' = [work EXCEPT ![t] = [work[t] EXCEPT !.list = {l}, !.pc = "find"]]
    BY <1>7 DEF ChooseSigner
  <2>3. \A l : [work[t] EXCEPT !.list = {l}, !.pc = "find"].call = work[t].call
    BY <1>1 DEF Work
  <2> QED
    BY <1>0, <2>1, <2>2, <2>3, ReturnSteady, OthersEditKeeps
<1>8. CASE ShowAccount(t)
  <2>1. work[t].call \notin Indexing
    BY <1>8 DEF ShowAccount, Is, DappCalls, Indexing
  <2>2. CASE Return(t)
    BY <1>0, <2>2, ReturnSteady
  <2>3. CASE ~Return(t)
    <3>1. PICK l : work' = [work EXCEPT ![t].list = @ \ {l}, ![t].got = @ \cup {a \in {l.account} : Visible(t, a)}]
      BY <1>8, <2>3 DEF ShowAccount
    <3> DEFINE more == {a \in {l.account} : Visible(t, a)}
    <3> HIDE DEF more
    <3>2. work' = [work EXCEPT ![t] = [work[t] EXCEPT !.list = @ \ {l}, !.got = @ \cup more]]
      BY <3>1 DEF more
    <3>3. [work[t] EXCEPT !.list = @ \ {l}, !.got = @ \cup more].call = work[t].call
      BY <1>1 DEF Work
    <3> QED
      BY <1>0, <2>1, <3>2, <3>3, OthersEditKeeps
  <2> QED
    BY <2>2, <2>3
<1>9. CASE RemoveLink(t)
  <2>1. work[t].call \notin Indexing
    BY <1>1, <1>9 DEF RemoveLink, At, CallHolds, CallOK, Indexing
  <2>2. Return(t) \/ \E l : work' = [work EXCEPT ![t] = [work[t] EXCEPT !.list = @ \ {l}]]
    BY <1>9 DEF RemoveLink
  <2>3. \A l : [work[t] EXCEPT !.list = @ \ {l}].call = work[t].call
    BY <1>1 DEF Work
  <2> QED
    BY <1>0, <2>1, <2>2, <2>3, ReturnSteady, OthersEditKeeps
<1> QED
  BY <1>2, <1>3, <1>4, <1>5, <1>6, <1>7, <1>8, <1>9

\* What other calls do not change of a call.
LEMMA BeginsSteady ==
    ASSUME ConsentInv, IndexInv, NEW t \in Workers,
           \/ \E a \in Accounts : BeginSelect(t, a) \/ BeginDelete(t, a)
           \/ \E h \in Hosts : BeginRevoke(t, h)
           \/ \E h \in Hosts, as \in SUBSET Accounts : BeginConnect(t, h, as)
           \/ \E h \in Hosts, c \in DappCalls : BeginDapp(t, c, h)
           \/ \E l \in links : BeginUnlink(t, l)
           \/ \E k \in Chains, i \in 0 .. MaxIndex : BeginCreate(t, "view", k, i)
    PROVE  IndexInv'
<1>0. UNCHANGED <<rows, made, chain, index, watch, raced>>
  BY DEF BeginSelect, BeginDelete, BeginRevoke, BeginConnect, BeginDapp, BeginUnlink, BeginWithdrawal, BeginCreate,
         book, history
<1>1. \A c, pc, h, as, k, i, ps : Call(c, pc, h, as, k, i, ps).call = c
  BY DEF Call
<1>2. CASE \/ \E a \in Accounts : BeginSelect(t, a)
           \/ \E h \in Hosts, c \in DappCalls : BeginDapp(t, c, h)
           \/ \E k \in Chains, i \in 0 .. MaxIndex : BeginCreate(t, "view", k, i)
  <2>1. PICK new : work' = [work EXCEPT ![t] = new] /\ new.call \notin Indexing
    <3>1. ASSUME NEW a \in Accounts, BeginSelect(t, a)
          PROVE  \E new : work' = [work EXCEPT ![t] = new] /\ new.call \notin Indexing
      <4>1. work' = [work EXCEPT ![t] = Call("select", "find", Nothing, {a}, chain[a], 0, {})]
        BY <3>1 DEF BeginSelect
      <4>2. Call("select", "find", Nothing, {a}, chain[a], 0, {}).call \notin Indexing
        BY DEF Call, Indexing
      <4> QED
        BY <4>1, <4>2
    <3>2. ASSUME NEW h \in Hosts, NEW c \in DappCalls, BeginDapp(t, c, h)
          PROVE  \E new : work' = [work EXCEPT ![t] = new] /\ new.call \notin Indexing
      <4>1. PICK ps : work' = [work EXCEPT ![t] = Call(c, "read", h, {}, "ethereum", 0, ps)]
        BY <3>2 DEF BeginDapp
      <4>2. Call(c, "read", h, {}, "ethereum", 0, ps).call \notin Indexing
        BY DEF Call, Indexing, DappCalls
      <4> QED
        BY <4>1, <4>2
    <3>3. ASSUME NEW k \in Chains, NEW i \in 0 .. MaxIndex, BeginCreate(t, "view", k, i)
          PROVE  \E new : work' = [work EXCEPT ![t] = new] /\ new.call \notin Indexing
      <4>1. work' = [work EXCEPT ![t] = Call("view", "insert", Nothing, {}, k, i, {})]
        BY <3>3 DEF BeginCreate
      <4>2. Call("view", "insert", Nothing, {}, k, i, {}).call \notin Indexing
        BY DEF Call, Indexing
      <4> QED
        BY <4>1, <4>2
    <3> QED
      BY <1>2, <3>1, <3>2, <3>3
  <2>2. work'[t] = new /\ \A u \in Workers \ {t} : work'[u] = work[u]
    BY <2>1 DEF ConsentInv, ConsentTypes
  <2> QED
    BY <1>0, <2>1, <2>2, OthersStepKeeps
<1>3. CASE \/ \E a \in Accounts : BeginDelete(t, a)
           \/ \E h \in Hosts : BeginRevoke(t, h)
           \/ \E l \in links : BeginUnlink(t, l)
           \/ \E h \in Hosts, as \in SUBSET Accounts : BeginConnect(t, h, as)
  <2>1. work'[t].call \notin Indexing /\ \A u \in Workers \ {t} :
            work'[u] = work[u] \/ (work[u] # Nothing /\ \E ps : work'[u] = [work[u] EXCEPT !.pairs = ps])
    <3>1. ASSUME NEW c \in {"delete", "revoke", "unlink"}, NEW pc, NEW h, NEW as, NEW ls, NEW ps,
                 BeginWithdrawal(t, c, pc, h, as, ls, ps)
          PROVE  work'[t].call \notin Indexing /\ \A u \in Workers \ {t} :
            work'[u] = work[u] \/ (work[u] # Nothing /\ \E qs : work'[u] = [work[u] EXCEPT !.pairs = qs])
      <4>1. work'[t] = [Call(c, pc, h, as, "ethereum", 0, ps \ Connecting) EXCEPT !.list = ls]
        BY <3>1 DEF BeginWithdrawal
      <4>2. work'[t].call = c
        BY <4>1 DEF Call
      <4>3. ASSUME NEW u \in Workers \ {t}
            PROVE  work'[u] = work[u] \/ (work[u] # Nothing /\ work'[u] = [work[u] EXCEPT !.pairs = @ \ ps])
        BY <3>1 DEF BeginWithdrawal, Is, Busy
      <4>4. ASSUME NEW u \in Workers \ {t}
            PROVE  work'[u] = work[u] \/ (work[u] # Nothing /\ \E qs : work'[u] = [work[u] EXCEPT !.pairs = qs])
        <5>1. [work[u] EXCEPT !.pairs = @ \ ps] = [work[u] EXCEPT !.pairs = work[u].pairs \ ps]
          OBVIOUS
        <5> QED
          BY <4>3, <5>1
      <4> QED
        BY <4>2, <4>4 DEF Indexing
    <3>2. ASSUME NEW h \in Hosts, NEW as \in SUBSET Accounts, BeginConnect(t, h, as)
          PROVE  work'[t].call \notin Indexing /\ \A u \in Workers \ {t} :
            work'[u] = work[u] \/ (work[u] # Nothing /\ \E qs : work'[u] = [work[u] EXCEPT !.pairs = qs])
      <4> DEFINE new == {h} \X as
      <4> HIDE DEF new
      <4>1. work'[t] = Call("connect", "find", h, as, "ethereum", 0, new \ Withdrawing)
        BY <3>2 DEF BeginConnect, new
      <4>2. work'[t].call = "connect"
        BY <4>1 DEF Call
      <4>3. ASSUME NEW u \in Workers \ {t}
            PROVE  \/ work'[u] = work[u]
                   \/ work[u] # Nothing /\ work'[u] = [work[u] EXCEPT !.pairs = @ \cup new]
                   \/ work[u] # Nothing /\ work'[u] = [work[u] EXCEPT !.pairs = @ \ new]
        BY <3>2 DEF BeginConnect, Is, Busy, new
      <4>4. ASSUME NEW u \in Workers \ {t}
            PROVE  work'[u] = work[u] \/ (work[u] # Nothing /\ \E qs : work'[u] = [work[u] EXCEPT !.pairs = qs])
        <5>1. /\ [work[u] EXCEPT !.pairs = @ \ new] = [work[u] EXCEPT !.pairs = work[u].pairs \ new]
              /\ [work[u] EXCEPT !.pairs = @ \cup new] = [work[u] EXCEPT !.pairs = work[u].pairs \cup new]
          OBVIOUS
        <5> QED
          BY <4>3, <5>1
      <4> QED
        BY <4>2, <4>4 DEF Indexing
    <3>3. CASE \/ \E a \in Accounts : BeginDelete(t, a)
               \/ \E h \in Hosts : BeginRevoke(t, h)
               \/ \E l \in links : BeginUnlink(t, l)
      <4>1. \E c \in {"delete", "revoke", "unlink"} : \E pc, h, as, ls, ps : BeginWithdrawal(t, c, pc, h, as, ls, ps)
        BY <3>3 DEF BeginDelete, BeginRevoke, BeginUnlink
      <4> QED
        BY <3>1, <4>1
    <3> QED
      BY <1>3, <3>2, <3>3
  <2>2. ASSUME NEW u \in Workers, u # t, work'[u] # Nothing
        PROVE  /\ work[u] # Nothing /\ work'[u].call = work[u].call /\ work'[u].chain = work[u].chain
               /\ work'[u].index = work[u].index /\ work'[u].todo = work[u].todo /\ work'[u].pc = work[u].pc
    BY <2>1, <2>2, WorkIs DEF Work
  <2> QED
    BY <1>0, <2>1, <2>2, SteadyKeeps
<1> QED
  BY <1>2, <1>3

\* An index-taking call begins: every other of its chain makes the chain raced.
LEMMA TakerBegins ==
    ASSUME ConsentInv, IndexInv, NEW t \in Workers, work[t] = Nothing,
           NEW new \in Work, work' = [work EXCEPT ![t] = new], new.call \in Indexing, new.pc # "insert", Restores(new),
           raced' = IF \E u \in Workers : Is(u, {"create", "createAt", "restore"}) /\ work[u].chain = new.chain
                    THEN raced \cup {new.chain} ELSE raced,
           UNCHANGED <<rows, made, chain, index, watch>>
    PROVE  IndexInv'
<1>1. work'[t] = new /\ \A u \in Workers \ {t} : work'[u] = work[u]
  BY DEF ConsentInv, ConsentTypes
<1>2. raced \subseteq raced' /\ raced' \subseteq Chains
  BY DEF IndexInv, Work
<1>3. ASSUME NEW u \in Workers, NEW v, v = work'[u], v # Nothing PROVE Fresh(v)' /\ Restores(v)'
  <2>1. Restores(v)
    BY <1>1, <1>3 DEF IndexInv
  <2>2. Fresh(v)
    BY <1>1, <1>3 DEF IndexInv, Fresh
  <2> QED
    BY <1>2, <2>1, <2>2 DEF Fresh, Restores
<1>4. ASSUME NEW u \in Workers, NEW v \in Workers, u # v, work'[u] # Nothing, work'[v] # Nothing,
             NEW x, NEW y, x = work'[u], y = work'[v]
      PROVE  Overlaps(x, y)'
  <2>1. ASSUME NEW s \in Workers, s # t, work'[s] # Nothing, work'[s].call \in Indexing, work'[s].chain = new.chain
        PROVE  new.chain \in raced'
    BY <1>1, <2>1 DEF Is, Busy, Indexing
  <2>2. CASE u = t \/ v = t
    BY <1>1, <1>4, <2>1, <2>2 DEF Overlaps
  <2>3. CASE u # t /\ v # t
    BY <1>1, <1>2, <1>4, <2>3 DEF IndexInv, Overlaps
  <2> QED
    BY <2>2, <2>3
<1>5. OneAccountPerIndex'
  BY <1>2 DEF IndexInv, OneAccountPerIndex
<1> QED
  BY <1>2, <1>3, <1>4, <1>5 DEF IndexInv

LEMMA BeginCreateIndex ==
    ASSUME ConsentInv, IndexInv, NEW t \in Workers, NEW c \in {"create", "createAt"}, NEW k \in Chains,
           NEW i \in 0 .. MaxIndex, BeginCreate(t, c, k, i)
    PROVE  IndexInv'
<1> DEFINE new == Call(c, "read", Nothing, {}, k, i, {})
<1>1. new \in Work /\ new.call = c /\ new.pc = "read" /\ new.chain = k
  BY DEF Call, Work, HostCalls
<1>2. /\ work[t] = Nothing /\ work' = [work EXCEPT ![t] = new] /\ UNCHANGED <<rows, made, chain, index, watch>>
      /\ raced' = IF \E u \in Workers : Is(u, {"create", "createAt", "restore"}) /\ work[u].chain = k
                  THEN raced \cup {k} ELSE raced
  BY DEF BeginCreate, book, Busy
<1> HIDE DEF new
<1>3. Restores(new) /\ new.call \in Indexing
  BY <1>1 DEF Restores, Indexing
<1> QED
  BY <1>1, <1>2, <1>3, TakerBegins

LEMMA BeginRestoreIndex ==
    ASSUME ConsentInv, IndexInv, NEW t \in Workers, NEW a \in Accounts, BeginRestore(t, a)
    PROVE  IndexInv'
<1> DEFINE new == Call("restore", "find", Nothing, {a}, chain[a], index[a], {})
<1>0. chain[a] \in Chains /\ index[a] \in 0 .. MaxIndex
  BY DEF ConsentInv, BookOK
<1>1. new \in Work /\ new.call = "restore" /\ new.pc = "find" /\ new.chain = chain[a] /\ new.todo = {a} /\ new.index = index[a]
  BY <1>0 DEF Call, Work, HostCalls
<1>2. /\ work[t] = Nothing /\ work' = [work EXCEPT ![t] = new] /\ UNCHANGED <<rows, made, chain, index, watch>>
      /\ raced' = IF \E u \in Workers : Is(u, {"create", "createAt", "restore"}) /\ work[u].chain = chain[a]
                  THEN raced \cup {chain[a]} ELSE raced
      /\ a \in made \ watch
  BY DEF BeginRestore, book, Busy
<1> HIDE DEF new
<1>3. Restores(new) /\ new.call \in Indexing
  BY <1>1, <1>2 DEF Restores, Indexing
<1> QED
  BY <1>1, <1>2, <1>3, TakerBegins

\* An index is taken, or not; nothing is inserted.
LEMMA TakesIndex ==
    ASSUME ConsentInv, IndexInv, NEW t \in Workers, work[t] # Nothing, work[t].call \in Indexing,
           NEW new \in Work, work' = [work EXCEPT ![t] = new], new.call = work[t].call, new.chain = work[t].chain,
           new.call = "restore" => new.todo = work[t].todo /\ new.index = work[t].index,
           new.pc = "insert" => \A a \in Siblings(t) : index[a] # new.index,
           UNCHANGED <<rows, made, chain, index, watch, raced>>
    PROVE  IndexInv'
<1>1. work'[t] = new /\ \A u \in Workers \ {t} : work'[u] = work[u]
  BY DEF ConsentInv, ConsentTypes
<1>2. Fresh(new) /\ Restores(new)
  BY DEF IndexInv, Fresh, Restores, Siblings
<1>3. ASSUME NEW u \in Workers, NEW v, v = work'[u], v # Nothing PROVE Fresh(v)' /\ Restores(v)'
  <2>1. Fresh(v) /\ Restores(v)
    BY <1>1, <1>2, <1>3 DEF IndexInv
  <2> QED
    BY <2>1 DEF Fresh, Restores
<1>4. ASSUME NEW u \in Workers, NEW v \in Workers, u # v, work'[u] # Nothing, work'[v] # Nothing,
             NEW x, NEW y, x = work'[u], y = work'[v]
      PROVE  Overlaps(x, y)'
  BY <1>1, <1>4 DEF IndexInv, Overlaps
<1>5. OneAccountPerIndex'
  BY DEF IndexInv, OneAccountPerIndex
<1> QED
  BY <1>3, <1>4, <1>5 DEF IndexInv

LEMMA PickIndexIndex == ASSUME ConsentInv, IndexInv, NEW t \in Workers, PickIndex(t) PROVE IndexInv'
<1>1. /\ work[t] # Nothing /\ work[t].call \in {"create", "createAt"} /\ work[t] \in Work
      /\ UNCHANGED <<rows, made, chain, index, watch, raced>>
  BY WorkIs DEF PickIndex, Is, Busy, book, history
<1>2. CASE work[t].call = "create"
  <2> DEFINE new == [work[t] EXCEPT !.index = NextIndex(t), !.pc = "insert"]
  <2>1. work' = [work EXCEPT ![t] = new] /\ NextIndex(t) <= MaxIndex
    BY <1>1, <1>2 DEF PickIndex, Is, Busy
  <2>2. NextIndex(t) \in 0 .. MaxIndex /\ \A a \in Siblings(t) : index[a] < NextIndex(t)
    BY <2>1, IndexFree, AccessAssumption DEF ConsentInv
  <2>3. \A a \in Siblings(t) : index[a] \in Nat
    BY DEF Siblings, ConsentInv, BookOK
  <2>4. \A a \in Siblings(t) : index[a] # NextIndex(t)
    BY <2>2, <2>3
  <2>5. new \in Work /\ new.call = work[t].call /\ new.chain = work[t].chain /\ new.index = NextIndex(t)
    BY <1>1, <2>2 DEF Work
  <2> HIDE DEF new
  <2> QED
    BY <1>1, <1>2, <2>1, <2>4, <2>5, TakesIndex DEF Indexing
<1>3. CASE work[t].call # "create" /\ AtIndex(t) # {}
  BY <1>1, <1>3, ReturnSteady DEF PickIndex, Is, Busy
<1>4. CASE work[t].call # "create" /\ AtIndex(t) = {}
  <2> DEFINE new == [work[t] EXCEPT !.pc = "insert"]
  <2>1. work' = [work EXCEPT ![t] = new]
    BY <1>1, <1>4 DEF PickIndex, Is, Busy, Goto
  <2>2. \A a \in Siblings(t) : index[a] # work[t].index
    BY <1>4 DEF AtIndex
  <2>3. new \in Work /\ new.call = work[t].call /\ new.chain = work[t].chain /\ new.index = work[t].index
    BY <1>1 DEF Work
  <2> HIDE DEF new
  <2> QED
    BY <1>1, <2>1, <2>2, <2>3, TakesIndex DEF Indexing
<1> QED
  BY <1>2, <1>3, <1>4

LEMMA RestoreLooksIndex == ASSUME ConsentInv, IndexInv, NEW t \in Workers, RestoreLooks(t) PROVE IndexInv'
<1>1. /\ work[t] # Nothing /\ work[t].call = "restore" /\ work[t] \in Work
      /\ UNCHANGED <<rows, made, chain, index, watch, raced>>
  BY WorkIs DEF RestoreLooks, Is, Busy, book, history
<1>2. CASE Return(t)
  BY <1>1, <1>2, ReturnSteady
<1>3. ASSUME NEW pc \in {"find2", "insert"}, Goto(t, pc), pc = "insert" => AtIndex(t) = {} PROVE IndexInv'
  <2> DEFINE new == [work[t] EXCEPT !.pc = pc]
  <2>1. work' = [work EXCEPT ![t] = new]
    BY <1>3 DEF Goto
  <2>2. pc = "insert" => \A a \in Siblings(t) : index[a] # work[t].index
    BY <1>3 DEF AtIndex
  <2>3. /\ new \in Work /\ new.call = work[t].call /\ new.chain = work[t].chain /\ new.index = work[t].index
        /\ new.todo = work[t].todo /\ new.pc = pc
    BY <1>1 DEF Work
  <2> HIDE DEF new
  <2> QED
    BY <1>1, <2>1, <2>2, <2>3, TakesIndex DEF Indexing
<1> QED
  BY <1>2, <1>3 DEF RestoreLooks

LEMMA InsertAccountIndex ==
    ASSUME ConsentInv, IndexInv, NEW t \in Workers, NEW a \in Accounts, InsertAccount(t, a) PROVE IndexInv'
<1> DEFINE w == work[t]
<1>1. /\ w # Nothing /\ w \in Work /\ w.call \in {"create", "createAt", "view", "restore"} /\ w.pc = "insert"
      /\ rows' = rows \cup {a} /\ raced' = raced
  BY WorkIs DEF InsertAccount, At, Is, Busy, history
<1>2. Fresh(w) /\ Restores(w)
  BY <1>1 DEF IndexInv
<1>3. CASE w.call = "restore"
  <2>1. /\ a \in w.todo /\ work' = [work EXCEPT ![t] = Nothing] /\ UNCHANGED <<made, chain, index, watch>>
    BY <1>1, <1>3 DEF InsertAccount, Is, Busy, Return
  <2>2. a \in made \ watch /\ w.chain = chain[a] /\ w.index = index[a]
    BY <1>2, <1>3, <2>1 DEF Restores
  <2>3. work'[t] = Nothing /\ \A u \in Workers \ {t} : work'[u] = work[u]
    BY <2>1 DEF ConsentInv, ConsentTypes
  <2>4. ASSUME NEW u \in Workers, NEW v, v = work'[u], v # Nothing PROVE Fresh(v)' /\ Restores(v)'
    <3>1. u # t /\ v = work[u] /\ Fresh(v) /\ Restores(v) /\ Overlaps(w, v)
      BY <1>1, <2>3, <2>4 DEF IndexInv
    <3>2. Restores(v)'
      BY <2>1, <3>1 DEF Restores
    <3>3. Fresh(v)'
      BY <1>1, <1>3, <2>1, <2>2, <3>1 DEF Fresh, Overlaps, Indexing
    <3> QED
      BY <3>2, <3>3
  <2>5. ASSUME NEW u \in Workers, NEW v \in Workers, u # v, work'[u] # Nothing, work'[v] # Nothing,
               NEW x, NEW y, x = work'[u], y = work'[v]
        PROVE  Overlaps(x, y)'
    BY <1>1, <2>3, <2>5 DEF IndexInv, Overlaps
  <2>6. OneAccountPerIndex'
    BY <1>1, <1>2, <1>3, <2>1, <2>2 DEF IndexInv, OneAccountPerIndex, Fresh, Indexing
  <2> QED
    BY <1>1, <2>1, <2>2, <2>4, <2>5, <2>6 DEF IndexInv
<1>4. CASE w.call # "restore"
  <2> DEFINE new == [w EXCEPT !.pc = "setCurrent", !.todo = {a}]
  <2>1. /\ a \notin made /\ made' = made \cup {a} /\ work' = [work EXCEPT ![t] = new]
        /\ chain' = [chain EXCEPT ![a] = w.chain] /\ index' = [index EXCEPT ![a] = w.index]
        /\ watch' = IF w.call = "view" THEN watch \cup {a} ELSE watch
    BY <1>1, <1>4 DEF InsertAccount, NewAccount, Is, Busy
  <2>2. /\ chain'[a] = w.chain /\ index'[a] = w.index
        /\ \A b \in made : b # a /\ chain'[b] = chain[b] /\ index'[b] = index[b]
    BY <2>1 DEF ConsentInv, BookOK
  <2>3. new.call = w.call /\ new.chain = w.chain /\ new.pc = "setCurrent"
    BY <1>1 DEF Work
  <2> HIDE DEF new
  <2>4. work'[t] = new /\ \A u \in Workers \ {t} : work'[u] = work[u]
    BY <2>1 DEF ConsentInv, ConsentTypes
  <2>5. rows \subseteq made /\ watch \subseteq made
    BY DEF IndexInv
  <2>6. ASSUME NEW u \in Workers, NEW v, v = work'[u], v # Nothing PROVE Fresh(v)' /\ Restores(v)'
    <3>1. CASE u = t
      BY <1>4, <2>3, <2>4, <2>6, <3>1 DEF Fresh, Restores
    <3>2. CASE u # t
      <4>1. v = work[u] /\ Fresh(v) /\ Restores(v) /\ Overlaps(w, v)
        BY <1>1, <2>4, <2>6, <3>2 DEF IndexInv
      <4>2. Restores(v)'
        BY <2>1, <2>2, <4>1 DEF Restores
      <4>3. Fresh(v)'
        <5> SUFFICES ASSUME v.call \in Indexing, v.pc = "insert", v.chain \notin raced,
                            NEW b \in rows' \ watch', chain'[b] = v.chain
                     PROVE  index'[b] # v.index
          BY <1>1 DEF Fresh
        <5>1. CASE b = a
          BY <1>1, <1>4, <2>1, <2>2, <4>1, <5>1 DEF Overlaps, Indexing
        <5>2. CASE b # a
          <6>1. b \in rows \ watch /\ b \in made
            BY <1>1, <2>1, <2>5, <5>2
          <6> QED
            BY <2>2, <4>1, <6>1 DEF Fresh
        <5> QED
          BY <5>1, <5>2
      <4> QED
        BY <4>2, <4>3
    <3> QED
      BY <3>1, <3>2
  <2>7. ASSUME NEW u \in Workers, NEW v \in Workers, u # v, work'[u] # Nothing, work'[v] # Nothing,
               NEW x, NEW y, x = work'[u], y = work'[v]
        PROVE  Overlaps(x, y)'
    BY <1>1, <2>3, <2>4, <2>7 DEF IndexInv, Overlaps
  <2>8. OneAccountPerIndex'
    <3>a. \A b \in rows' \ watch' : b # a => b \in rows \ watch /\ b \in made
      BY <1>1, <2>1, <2>5
    <3>b. a \notin watch' => w.call \in Indexing
      BY <1>1, <2>1 DEF Indexing
    <3>1. ASSUME NEW b \in rows' \ watch', a \notin watch', b # a, chain'[b] = chain'[a], index'[b] = index'[a]
          PROVE  chain'[a] \in raced
      BY <1>1, <1>2, <2>2, <3>1, <3>a, <3>b DEF Fresh
    <3> SUFFICES ASSUME NEW x \in rows' \ watch', NEW y \in rows' \ watch', x # y, chain'[x] = chain'[y], index'[x] = index'[y]
                 PROVE  chain'[x] \in raced
      BY <1>1 DEF OneAccountPerIndex
    <3>2. CASE x # a /\ y # a
      BY <2>2, <3>2, <3>a DEF IndexInv, OneAccountPerIndex
    <3>3. CASE x = a \/ y = a
      BY <3>1, <3>3
    <3> QED
      BY <3>2, <3>3
  <2> QED
    BY <1>1, <2>1, <2>5, <2>6, <2>7, <2>8 DEF IndexInv
<1> QED
  BY <1>3, <1>4

LEMMA IndexPreserved == ConsentInv /\ IndexInv /\ [AccessNext]_accessVars => IndexInv'
<1> SUFFICES ASSUME ConsentInv, IndexInv, [AccessNext]_accessVars PROVE IndexInv'
  OBVIOUS
<1>1. CASE UNCHANGED accessVars
  <2>1. rows' \subseteq rows /\ UNCHANGED <<made, chain, index, watch, raced, work>>
    BY <1>1 DEF accessVars, book, history
  <2> QED
    BY <2>1, SteadyKeeps
<1>2. ASSUME NEW t \in Workers, AccessBegin(t) PROVE IndexInv'
  <2>1. ASSUME NEW c \in {"create", "createAt", "view"}, NEW k \in Chains, NEW i \in 0 .. MaxIndex,
               BeginCreate(t, c, k, IF c = "createAt" THEN i ELSE 0)
        PROVE  IndexInv'
    <3>1. (IF c = "createAt" THEN i ELSE 0) \in 0 .. MaxIndex
      BY AccessAssumption
    <3>2. CASE c = "view"
      BY <2>1, <3>1, <3>2, BeginsSteady
    <3>3. CASE c # "view"
      BY <2>1, <3>1, <3>3, BeginCreateIndex
    <3> QED
      BY <3>2, <3>3
  <2>2. ASSUME NEW a \in Accounts, BeginRestore(t, a) PROVE IndexInv'
    BY <2>2, BeginRestoreIndex
  <2> QED
    BY <1>2, <2>1, <2>2, BeginsSteady DEF AccessBegin
<1>3. ASSUME NEW t \in Workers, AccessStep(t) PROVE IndexInv'
  BY <1>3, PickIndexIndex, RestoreLooksIndex, InsertAccountIndex, AccessStepsSteady DEF AccessStep
<1>4. ASSUME NEW t \in Workers, AccessFails(t) PROVE IndexInv'
  BY <1>4, AccessStepsSteady
<1> QED
  BY <1>1, <1>2, <1>3, <1>4 DEF AccessNext

LEMMA IndexStart == AccessInit => IndexInv
BY DEF AccessInit, IndexInv, OneAccountPerIndex

LEMMA AccessAlways == AccessSpec => [](ConsentInv /\ IndexInv)
<1> QED
  BY ConsentStart, ConsentPreserved, IndexStart, IndexPreserved, PTL DEF AccessSpec

\* Two accounts of a wallet share an index only if two creations or restorations of
\* that chain overlapped: a deletion in between re-issues no index in use.
THEOREM OneIndexed == AccessSpec => []OneAccountPerIndex
<1>1. IndexInv => OneAccountPerIndex
  BY DEF IndexInv
<1> QED
  BY <1>1, AccessAlways, PTL

\* The rows, links and calls of DappAccess stay in their types.
THEOREM AccessTyped == AccessSpec => []AccessTypeOK
<1>1. ConsentInv /\ IndexInv => AccessTypeOK
  <2> SUFFICES ASSUME ConsentInv, IndexInv PROVE AccessTypeOK
    OBVIOUS
  <2> QED
    BY DEF ConsentInv, IndexInv, BookOK, ConsentTypes, ShownByConsent, AccessTypeOK, LinkRow
<1> QED
  BY <1>1, AccessAlways, PTL
=============================================================================
