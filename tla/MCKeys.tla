------------------------------ MODULE MCKeys ------------------------------
(* What an account can sign, and what it is told it can send: two          *)
(* components that share no state; one of them moves.                      *)
EXTENDS KeyUse, TransferPlan, TLC

CONSTANT First \* the wallet the host makes; the other one comes of its phrase

VARIABLE part

\* The tip a node suggests, and its silence, are told apart where they matter: on an
\* EVM chain, of coins, where the transfer is not traced.
Quiet(n) == n.tip = 1 /\ n.says
MCInit == /\ part \in {"keys", "plan"} /\ KeyInit /\ PlanInit
          /\ part = "keys" => family = "tron" /\ node.coins = 0 /\ node.tokens = 0 /\ node.to = "plain" /\ ~node.free
          /\ part = "keys" \/ node.traces \/ node.tokens = 1 => Quiet(node)
          /\ family # "evm" => node.tip = 1

\* Two calls that overlap are calls on one wallet; one account id is there to take,
\* so one of them makes an account, and exports that overlap answer alike.
SameWallet == \A j, k \in Jobs : job'[j] # None /\ job'[k] # None => job'[j].w = job'[k].w
Different == \A j, k \in Jobs :
    job'[j] # None /\ job'[k] # None /\ job'[j].op \in {"create", "export"} => j = k \/ job'[k].op # job'[j].op
KeyMenu ==
    /\ wallet[First] = None => \A w \in Wallets \ {First} : wallet'[w] = None
    /\ \A w \in Wallets \ {First} : \A k \in keys'[w] : k.root # Root(w)
    /\ SameWallet /\ Different

\* The first amount is less than the rent, more, or MAX, and at most one thing is
\* pinned, or the fee with the tip; what follows an answer is that request, or that
\* request for the maximum it gave.
Firsts ==
    {r \in Requests :
        /\ r.amount \in {1, 3, MAX}
        /\ <<r.as, r.pins>> \in {<<{}, {}>>, <<{}, {"gas"}>>, <<{}, {"fee"}>>, <<{"eip1559"}, {}>>,
                                 <<{"eip1559"}, {"fee", "tip"}>>, <<{"data"}, {}>>, <<{"raw"}, {}>>}}
FollowUps == {r \in {told.req, [told.req EXCEPT !.amount = told.max]} : r \in Requests}
Menu == IF ask # Nothing \/ sent # Nothing THEN {} ELSE IF told = Nothing THEN Firsts ELSE FollowUps

\* Nothing drifts once sent. A maximum is asked for no amount.
PlanMenu ==
    /\ drifts' # drifts => sent = Nothing /\ (ask # Nothing \/ told # Nothing)
    /\ ask = Nothing /\ ask' # Nothing /\ ask'.op = "max" => ask'.req.amount = MAX

MCNext ==
    /\ UNCHANGED part
    /\ \/ part = "keys" /\ KeyNext /\ KeyMenu /\ UNCHANGED planVars
       \/ part = "plan" /\ PlanStep(Menu) /\ PlanMenu /\ UNCHANGED keyVars
MCSpec == MCInit /\ [][MCNext]_<<keyVars, planVars, part>>

Interchangeable == Permutations(Jobs)
=============================================================================
