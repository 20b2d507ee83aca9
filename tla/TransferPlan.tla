---------------------------- MODULE TransferPlan ----------------------------
(***************************************************************************)
(* What the host is told of a transfer before it is made, and the transfer *)
(* that is then made, on one account: maxSendable and Swap:maxSpendable    *)
(* (handlers/account.rs, handlers/swap.rs), Transaction:validate and       *)
(* Transaction:simulate (handlers/transaction.rs, handlers/simulate.rs,    *)
(* handlers/solana_build.rs), Transaction:signAndSend and                  *)
(* Account:signAndSendTransaction. Bitcoin's coins are CoinWallet's.       *)
(*                                                                         *)
(* Every one of these calls asks the node several times; the node moves in *)
(* between, and need not answer. Amounts are in units of the smallest fee. *)
(***************************************************************************)
EXTENDS Naturals

CONSTANTS MaxBalance, \* coins the account may hold
          Drifts,     \* bound: times the node changes under a plan
          Tips,       \* the tips that nodes suggest
          PinnedGas, PinnedFee, PinnedTip, \* what a caller pins
          MAX,        \* the amount that asks for all there is
          Nothing     \* no call, no answer

ASSUME BalanceAssumption == MaxBalance \in Nat /\ Drifts \in Nat /\ Tips \subseteq Nat
ASSUME PinsAssumption == PinnedGas \in Nat /\ PinnedFee \in Nat /\ PinnedTip \in Nat

Families == {"evm", "solana", "tron"}

VARIABLES
    family, \* the account's chain
    node,   \* what the node answers of the account, the recipient and the fees
    ask,    \* the call in progress
    told,   \* the host's last answer, with the node it was true of
    sent,   \* the last broadcast
    drifts  \* changes of the node so far

planVars == <<family, node, ask, told, sent, drifts>>

Less(a, b) == IF a > b THEN a - b ELSE 0

-----------------------------------------------------------------------------
(* The node: coins and tokens of the account; whether the recipient exists, *)
(* and runs code; whether it has a token account; whether bandwidth is      *)
(* free; the base fee, and the tip it suggests; whether blocks have a base  *)
(* fee and calls are traced; whether it answers the calls libwallet goes on *)
(* without: the tip, the recipient's account, the bandwidth.                *)

Nodes(f) ==
    {n \in [coins : 0..MaxBalance, tokens : 0..1, to : {"absent", "plain", "contract"}, ata : BOOLEAN,
            free : BOOLEAN, base : 0..1, tip : Tips, london : BOOLEAN, traces : BOOLEAN, says : BOOLEAN] :
        /\ f = "evm" => ~n.free /\ ~n.ata /\ n.to # "absent" /\ (n.base > 0 => n.london)
        /\ f # "evm" => n.to # "contract" /\ n.base = 0 /\ ~n.london /\ ~n.traces
        /\ f = "solana" => ~n.free
        /\ f = "tron" => ~n.ata}

\* eth_gasPrice, and eth_maxPriorityFeePerGas or what stands in for it. The unit of a
\* price is half a gwei: maxSendable and evm_fill take 1 gwei, signAndSend takes 1.5.
GasPrice(n) == n.base + n.tip
TipOr(n, default) == IF n.says THEN n.tip ELSE default
ReservedTip == 2
SentTip == 3
\* Units of 21000: a call of a contract needs two, and so does calldata.
GasNeeded(n, asset, data) == IF n.to = "contract" \/ asset # "native" \/ data THEN 2 ELSE 1

\* Lamports: 5000 a signature; an account holds its rent, a token account its own.
SolanaFee == 1
Rent == 2
TokenRent == 1
\* Sun: TRANSFER_BANDWIDTH_SUN, NEW_ACCOUNT_SUN.
BandwidthFee == 1
NewAccountFee == 2
TronFee(n) == (IF n.free THEN 0 ELSE BandwidthFee) + (IF n.to = "absent" THEN NewAccountFee ELSE 0)

\* What the chains require of a transfer they take.
Rentable(left) == left = 0 \/ left >= Rent
TakesEvm(n, p) ==
    /\ p.price >= n.base /\ p.tip <= p.price /\ p.gas >= GasNeeded(n, p.asset, p.data)
    /\ n.coins >= p.value + p.gas * p.price
    /\ p.asset = "token" => n.tokens >= p.amount
TakesSolana(n, p) ==
    LET missing == IF n.ata THEN 0 ELSE TokenRent
        fronted == CASE p.asset = "native" -> 0
                     [] p.asset = "token"  -> missing
                     [] p.asset = "swap"   -> TokenRent + missing
        out     == p.value + SolanaFee + fronted
    IN  /\ n.coins >= out /\ Rentable(n.coins - out)
        /\ p.asset = "native" /\ n.to = "absent" => p.value >= Rent
        /\ p.asset = "token" => n.tokens >= p.amount
TakesTron(n, p) ==
    /\ n.coins >= p.value + (IF p.asset = "native" THEN TronFee(n) ELSE BandwidthFee)
    /\ p.asset = "token" => n.tokens >= p.amount
Takes(n, p) == CASE family = "evm" -> TakesEvm(n, p)
                 [] family = "solana" -> TakesSolana(n, p)
                 [] family = "tron" -> TakesTron(n, p)

-----------------------------------------------------------------------------
(* maxSendable. The host may name the calldata, and the EIP-1559 format.    *)

\* An answered tip of zero is not taken.
MaxEvm(coins, n, as) ==
    LET gas   == IF "data" \in as THEN GasNeeded(n, "native", TRUE) ELSE 1
        tip   == IF TipOr(n, 0) > 0 THEN n.tip ELSE ReservedTip
        price == IF "eip1559" \in as THEN 2 * n.base + tip ELSE GasPrice(n)
    IN  Less(coins, gas * price)
\* A recipient the node says nothing of counts as one that exists.
Absent(n) == n.to = "absent" /\ n.says
MaxSolana_NoFee(coins, n, fee) == Less(coins, Rent + (IF Absent(n) THEN Rent ELSE 0))
\* compute_solana_max_sendable
MaxSolana(coins, n, fee) == Less(coins, fee + Rent + (IF Absent(n) THEN Rent ELSE 0))
\* tron::max_sendable
MaxTron(coins, n) ==
    Less(coins, (IF n.free /\ n.says THEN 0 ELSE BandwidthFee) + (IF Absent(n) THEN NewAccountFee ELSE 0))
AccountMax(coins, n, asset, as) ==
    IF asset = "token" THEN n.tokens
    ELSE CASE family = "evm"    -> MaxEvm(coins, n, as)
           [] family = "solana" -> MaxSolana(coins, n, SolanaFee)
           [] family = "tron"   -> MaxTron(coins, n)

-----------------------------------------------------------------------------
(* A request: by which entry, of what, how much, in which field; as what: in *)
(* the EIP-1559 format, with calldata, with a transaction built before; and  *)
(* what its caller pins.                                                     *)

Amounts == 1..MaxBalance
Asks(api, asset, amounts, fields, as, pins) ==
    [api : {api}, asset : {asset}, amount : amounts, field : fields, as : SUBSET as, pins : SUBSET pins]
\* An ERC-20 transfer has its calldata in any case; a serialised SPL transfer is
\* signed as it is.
EvmRequests ==
    Asks("transaction", "native", Amounts \cup {MAX}, {"amount", "value"}, {"eip1559", "data"}, {"gas", "fee", "tip"})
    \cup Asks("transaction", "token", {1, MAX}, {"amount", "value"}, {"eip1559"}, {"gas", "fee", "tip"})
    \cup Asks("account", "native", Amounts, {"value"}, {"data"}, {"gas", "fee", "tip"})
    \cup Asks("transaction", "swap", Amounts \cup {MAX}, {"amount"}, {}, {})
SolanaRequests ==
    Asks("transaction", "native", Amounts \cup {MAX}, {"amount"}, {"raw"}, {"fee"})
    \cup Asks("transaction", "token", {1, MAX}, {"amount"}, {"raw"}, {})
    \cup Asks("account", "native", Amounts, {"value"}, {}, {})
    \cup Asks("account", "token", {1}, {"value"}, {}, {})
    \cup Asks("transaction", "swap", Amounts \cup {MAX}, {"amount"}, {}, {})
TronRequests ==
    Asks("transaction", "native", Amounts \cup {MAX}, {"amount"}, {}, {})
    \cup Asks("transaction", "token", {1, MAX}, {"amount"}, {}, {})
    \cup Asks("account", "native", Amounts, {"value"}, {}, {})
    \cup Asks("account", "token", {1}, {"value"}, {}, {})
Requests == CASE family = "evm"    -> EvmRequests
              [] family = "solana" -> SolanaRequests
              [] family = "tron"   -> TronRequests

Plan(asset, amount, value, data, gas, price, tip) ==
    [asset |-> asset, amount |-> amount, value |-> value, data |-> data, gas |-> gas, price |-> price, tip |-> tip]
\* A transfer whose fee the chain sets.
Transfer(asset, amount) == Plan(asset, amount, IF asset = "token" THEN 0 ELSE amount, FALSE, 0, 0, 0)

\* The value of an EVM send: tx.value, else tx.amount; no number counts as zero.
Significand(amount) == IF amount = MAX THEN 0 ELSE amount
\* estimateGas fails when the account does not hold the value or the tokens.
Estimated(n, asset, amount, data) ==
    IF (IF asset = "token" THEN n.tokens ELSE n.coins) >= amount THEN {GasNeeded(n, asset, data)} ELSE {}
\* sign_and_send: what the caller pins, else the node's gas price, and in the EIP-1559
\* format its tip; without an estimate there is no send.
SentGas(r, n) ==
    IF "gas" \in r.pins THEN {PinnedGas} ELSE Estimated(n, r.asset, Significand(r.amount), "data" \in r.as)
SentPrice(r, n) == IF "fee" \in r.pins THEN PinnedFee ELSE GasPrice(n)
TipOf(r, n) == IF "eip1559" \notin r.as THEN 0 ELSE IF "tip" \in r.pins THEN PinnedTip ELSE TipOr(n, SentTip)
\* evm_fill: the estimate carries no calldata, and 21000 stands in for it; the base fee
\* twice over and the tip, else the gas price, else zero. Only a pinned fee keeps the
\* caller's tip.
FilledGas(r, n) ==
    IF "gas" \in r.pins THEN {PinnedGas}
    ELSE LET estimated == Estimated(n, "native", r.amount, FALSE)
         IN  estimated \cup (IF n.says /\ estimated # {} THEN {} ELSE {1})
FilledFees(r, n) ==
    IF "fee" \in r.pins THEN {[price |-> PinnedFee, tip |-> IF "tip" \in r.pins THEN PinnedTip ELSE 0]}
    ELSE LET tip    == TipOr(n, ReservedTip)
             london == {[price |-> 2 * n.base + tip, tip |-> tip]}
             legacy == {[price |-> GasPrice(n), tip |-> 0]}
         IN  CASE n.says /\ n.london  -> london
               [] n.says /\ ~n.london -> legacy
               [] ~n.says -> (IF n.london THEN london ELSE {}) \cup legacy \cup {[price |-> 0, tip |-> 0]}
\* sign_and_send, evm_send_async
PlanEvm(r, n) ==
    LET amount == Significand(r.amount)
        value  == IF r.asset = "token" THEN 0 ELSE amount
        data   == "data" \in r.as
    IN  IF r.api = "account"
        THEN {Plan(r.asset, amount, value, data, g, f.price, f.tip) : g \in FilledGas(r, n), f \in FilledFees(r, n)}
        ELSE {Plan(r.asset, amount, value, data, g, SentPrice(r, n), TipOf(r, n)) : g \in SentGas(r, n)}

\* build_unsigned, and solana_send_async: MAX of a token is refused, MAX of coins
\* is what the balance read before leaves, less the caller's fee where there is one
\* (native_fee_lamports); nothing left is refused.
Resolved(r, coins, n) ==
    IF r.amount = MAX THEN MaxSolana(coins, n, IF "fee" \in r.pins THEN PinnedFee ELSE SolanaFee) ELSE r.amount
PlanSpl(r) == {Transfer("token", a) : a \in {r.amount} \ {MAX}}
PlanSolana(r, coins, n) ==
    IF r.asset = "token" THEN PlanSpl(r)
    ELSE {Transfer("native", a) : a \in {Resolved(r, coins, n)} \ {0}}
\* sign_and_send_tron, tron_send_async
PlanTrc20(r) == PlanSpl(r)
PlanTron(r, coins, n) ==
    IF r.asset = "token" THEN PlanTrc20(r)
    ELSE {Transfer("native", a) : a \in {IF r.amount = MAX THEN MaxTron(coins, n) ELSE r.amount} \ {0}}

\* resolve_max_amount_in names no recipient; a swap of SOL fronts the rent of the
\* account that wraps it and of the output's (solana_swap_sol_reservation).
SwapReservation(n) == TokenRent + (IF n.ata THEN 0 ELSE TokenRent)
MaxSpendable(coins, n) ==
    LET max == AccountMax(coins, [n EXCEPT !.to = "plain"], "native", {})
    IN  IF family = "solana" THEN Less(max, SwapReservation(n)) ELSE max
\* resolve_amount_in; the aggregator's transaction pays the amount in.
PlanSwap(r, coins, n) ==
    LET in == IF r.amount = MAX THEN MaxSpendable(coins, n) ELSE r.amount
    IN  {Plan("swap", a, a, TRUE, 2, GasPrice(n), 0) : a \in {in} \ {0}}

Plans(r, coins, n) ==
    IF r.asset = "swap" THEN PlanSwap(r, coins, n)
    ELSE CASE family = "evm"    -> PlanEvm(r, n)
           [] family = "solana" -> PlanSolana(r, coins, n)
           [] family = "tron"   -> PlanTron(r, coins, n)

-----------------------------------------------------------------------------
Asked(op, r) == [op |-> op, req |-> r, coins |-> node.coins, fresh |-> TRUE, plan |-> Nothing]

PlanTypeOK ==
    /\ family \in Families /\ node \in Nodes(family) /\ drifts \in 0..Drifts
    /\ ask # Nothing => ask.req \in Requests /\ ask.op \in {"max", "validate", "simulate", "send", "broadcast"}
    /\ told # Nothing => told.req \in Requests /\ told.max \in 0..MaxBalance
    /\ sent # Nothing => sent.req \in Requests

PlanInit ==
    /\ family \in Families /\ node \in Nodes(family)
    /\ ask = Nothing /\ told = Nothing /\ sent = Nothing /\ drifts = 0

Stale(x) == IF x = Nothing THEN x ELSE [x EXCEPT !.fresh = FALSE]

\* Somebody else pays, spends, opens an account or raises the fee.
Drift ==
    /\ drifts < Drifts /\ drifts' = drifts + 1
    /\ \/ \E c \in 0..MaxBalance \ {node.coins} : node' = [node EXCEPT !.coins = c]
       \/ node' = [node EXCEPT !.tokens = 1 - @]
       \/ node' = [node EXCEPT !.says = ~@]
       \/ node.to = "absent" /\ node' = [node EXCEPT !.to = "plain"]
       \/ ~node.ata /\ family = "solana" /\ node' = [node EXCEPT !.ata = TRUE]
       \/ node.london /\ node' = [node EXCEPT !.base = 1 - @]
       \/ \E t \in Tips \ {node.tip} : family = "evm" /\ node' = [node EXCEPT !.tip = t]
       \/ family = "tron" /\ node' = [node EXCEPT !.free = ~@]
    /\ told' = Stale(told) /\ ask' = Stale(ask) /\ sent' = Stale(sent)
    /\ UNCHANGED family

\* Every call reads the balance before the rest. The host asks again and again;
\* it is told one thing at a time and sends once.
Begin(op, r) ==
    /\ ask = Nothing
    /\ op # "send" => r.api = "transaction"
    /\ op \in {"validate", "simulate"} => r.asset # "swap"
    /\ sent = Nothing /\ (told = Nothing \/ op = "send")
    /\ ask' = Asked(op, r)
    /\ UNCHANGED <<family, node, told, sent, drifts>>

\* A look-up that a call cannot do without fails: the host is told nothing else.
CallFails ==
    /\ ask # Nothing
    /\ ask' = Nothing /\ UNCHANGED <<family, node, told, sent, drifts>>

\* What a preview is told by: the tracer or the node's call; or neither of them.
Tell(max, plan, by, reverts, moves) ==
    told' = [op |-> ask.op, req |-> ask.req, max |-> max, plan |-> plan, by |-> by, reverts |-> reverts,
             moves |-> moves, fresh |-> ask.fresh]

AnswerMax ==
    /\ ask # Nothing /\ ask.op = "max" /\ ask.req.asset # "swap"
    /\ Tell(AccountMax(ask.coins, node, ask.req.asset, ask.req.as), Nothing, "none", FALSE, 0)
    /\ ask' = Nothing /\ UNCHANGED <<family, node, sent, drifts>>

AnswerSwap ==
    /\ ask # Nothing /\ ask.op = "max" /\ ask.req.asset = "swap"
    /\ Tell(MaxSpendable(ask.coins, node), Nothing, "none", FALSE, 0)
    /\ ask' = Nothing /\ UNCHANGED <<family, node, sent, drifts>>

Previewed_Parsed(r, coins, n) == {Transfer(r.asset, a) : a \in {Significand(r.amount)}}
\* validate and simulate build with the sender's builder.
Previewed(r, coins, n) == PlanSolana(r, coins, n)

\* validate: a structural check, and on Solana the transfer built.
Validate ==
    /\ ask # Nothing /\ ask.op = "validate"
    /\ \/ family # "solana" /\ Tell(0, Nothing, "none", FALSE, 0)
       \/ family = "solana" /\ \E p \in Previewed(ask.req, ask.coins, node) : Tell(0, p, "none", FALSE, p.amount)
       \/ family = "solana" /\ Previewed(ask.req, ask.coins, node) = {} /\ UNCHANGED told
    /\ ask' = Nothing /\ UNCHANGED <<family, node, sent, drifts>>

\* The call an EVM preview runs carries tx.value, never tx.amount, and the caller's gas.
Called(r) == IF r.field = "value" /\ r.asset = "native" THEN Significand(r.amount) ELSE 0
Reverts(r, n) ==
    \/ n.coins < Called(r)
    \/ r.asset = "token" /\ n.tokens < Significand(r.amount)
    \/ "gas" \in r.pins /\ PinnedGas < GasNeeded(n, r.asset, "data" \in r.as)
\* What moves by the tracer's tree; by the decode of tx.amount, or of the calldata.
Traced(r, n) ==
    IF r.asset = "native" THEN Called(r) ELSE IF Reverts(r, n) THEN 0 ELSE Significand(r.amount)
Decoded(r) ==
    IF r.asset = "token" \/ (r.field = "amount" /\ "data" \notin r.as) THEN Significand(r.amount) ELSE 0
\* A frame that cannot be read is told as a success that moves nothing; any error of
\* the call, an unreachable node's too, as a revert.
SimulateEvm ==
    /\ ask # Nothing /\ ask.op = "simulate" /\ family = "evm"
    /\ LET r == ask.req
       IN  \/ node.traces /\ Tell(0, Nothing, "trace", Reverts(r, node), Traced(r, node))
           \/ node.traces /\ Tell(0, Nothing, "none", FALSE, 0)
           \/ ~node.traces /\ Tell(0, Nothing, "call", Reverts(r, node), IF Reverts(r, node) THEN 0 ELSE Decoded(r))
           \/ ~node.traces /\ Tell(0, Nothing, "none", TRUE, 0)
    /\ ask' = Nothing /\ UNCHANGED <<family, node, sent, drifts>>

\* A transaction that the caller built is simulated as it is, whatever the fields say.
Simulated(r, coins, n) ==
    IF "raw" \in r.as THEN {Transfer("native", a) : a \in Amounts} ELSE Previewed(r, coins, n)
\* The transfer, run by the node; a node that cannot be reached is told as a revert.
SimulateSolana ==
    /\ ask # Nothing /\ ask.op = "simulate" /\ family = "solana"
    /\ \/ \E p \in Simulated(ask.req, ask.coins, node) :
             \/ Tell(0, p, "call", ~Takes(node, p), p.amount)
             \/ Tell(0, p, "none", TRUE, p.amount)
       \/ Simulated(ask.req, ask.coins, node) = {} /\ UNCHANGED told
    /\ ask' = Nothing /\ UNCHANGED <<family, node, sent, drifts>>

\* Answered with 400.
SimulateTron ==
    /\ ask # Nothing /\ ask.op = "simulate" /\ family = "tron"
    /\ ask' = Nothing /\ UNCHANGED <<family, node, told, sent, drifts>>

BuildPlan ==
    /\ ask # Nothing /\ ask.op = "send"
    /\ \/ \E p \in Plans(ask.req, ask.coins, node) : ask' = [ask EXCEPT !.op = "broadcast", !.plan = p]
       \/ Plans(ask.req, ask.coins, node) = {} /\ ask' = Nothing
    /\ UNCHANGED <<family, node, told, sent, drifts>>

BroadcastPlan ==
    /\ ask # Nothing /\ ask.op = "broadcast"
    /\ sent' = [req |-> ask.req, plan |-> ask.plan, coins |-> ask.coins, taken |-> Takes(node, ask.plan),
                fresh |-> ask.fresh]
    /\ ask' = Nothing /\ UNCHANGED <<family, node, told, drifts>>

\* The host forgets what it was told, or that it sent.
Forget ==
    /\ ask = Nothing /\ (told # Nothing \/ sent # Nothing)
    /\ told' = Nothing /\ sent' = Nothing
    /\ UNCHANGED <<family, node, ask, drifts>>

PlanStep(requests) ==
    \/ Drift \/ Forget \/ CallFails
    \/ \E op \in {"max", "validate", "simulate", "send"}, r \in requests : Begin(op, r)
    \/ AnswerMax \/ AnswerSwap \/ Validate \/ SimulateEvm \/ SimulateSolana \/ SimulateTron
    \/ BuildPlan \/ BroadcastPlan
PlanNext == PlanStep(Requests)

PlanSpec == PlanInit /\ [][PlanNext]_planVars

-----------------------------------------------------------------------------
\* The host sends what it was told, and nothing changed meanwhile.
Follows(op) == told # Nothing /\ sent # Nothing /\ told.op = op /\ told.fresh /\ sent.fresh

\* A maximum that holds back what its transfer costs: not of an EVM swap, nor of a
\* contract that is sent coins without the calldata being named, whose gas is not asked
\* for; not below what a caller pins. A node that says nothing of a recipient, or of
\* the tip of the EIP-1559 format, leaves its cost out.
Covered(r) ==
    /\ family = "evm" => /\ r.asset = "native" /\ r.pins = {}
                         /\ node.to # "contract" \/ "data" \in r.as
                         /\ node.says \/ "eip1559" \notin r.as
    /\ family = "solana" /\ "fee" \in r.pins => PinnedFee >= SolanaFee
    /\ family = "tron" /\ node.to = "absent" => node.says

\* Sending exactly the maximum the account was just said to have is accepted by
\* its chain, and so is MAX itself where it is resolved while sending, whatever was
\* told before: fees, tips, calldata, rents, a new recipient and bandwidth are all held
\* back where Covered says so (max_sendable, compute_solana_max_sendable,
\* tron::max_sendable, resolve_max_amount_in, build_unsigned, sign_and_send_tron,
\* sign_and_send). A new Solana account must get its own rent.
MaxIsAccepted ==
    /\ sent # Nothing /\ sent.fresh
    /\ \/ sent.req.amount = MAX
       \/ Follows("max") /\ sent.req = [told.req EXCEPT !.amount = told.max]
    /\ sent.req.asset # "token" /\ sent.req.api = "transaction" /\ sent.plan.amount > 0
    /\ Covered(sent.req)
    /\ ~(family = "solana" /\ sent.req.asset = "native" /\ node.to = "absent" /\ sent.plan.amount < Rent)
    => sent.taken

\* A trace shows tokens and tx.value, the decode of a call tokens and tx.amount.
Shows(by, r) ==
    \/ r.asset = "token"
    \/ by = "trace" /\ r.field = "value"
    \/ by = "call" /\ r.field = "amount" /\ "data" \notin r.as

\* A transfer previewed and then sent unchanged is the transfer that was shown, with
\* the outcome that was shown, when the node answered: on Solana one builder makes
\* both, unless the caller hands bytes of its own to the preview (solana_build.rs);
\* an EVM preview that says it reverts is of a send the chain would not take, and one
\* that does not shows what moves, where Shows says so (simulate_evm).
PreviewIsTheSend ==
    Follows("simulate") /\ sent.req = told.req =>
        /\ family = "solana" /\ "raw" \notin told.req.as =>
               told.plan = sent.plan /\ (told.by # "none" => (told.reverts <=> ~sent.taken))
        /\ family = "evm" /\ told.by # "none" =>
               /\ told.reverts => ~sent.taken
               /\ ~told.reverts /\ Shows(told.by, told.req) => told.moves = sent.plan.amount

\* What the Dart model and the changelog say of the MAX amount: resolved when sent.
MaxMovesTheRest ==
    sent # Nothing /\ sent.taken /\ sent.req.amount = MAX => sent.plan.amount > 0
=============================================================================
