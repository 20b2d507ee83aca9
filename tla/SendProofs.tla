----------------------------- MODULE SendProofs -----------------------------
(***************************************************************************)
(* Theorems about sending: SwapExecution, TokenBook, CoinWallet and        *)
(* TransactionSend, for any number of callers, quotes, accounts, tokens,   *)
(* threads and transactions. The components share no state; each part has  *)
(* its own inductive invariant and is the theorems of one of them.         *)
(***************************************************************************)
EXTENDS TransactionSend, CoinWallet, SwapExecution, TokenBook, FiniteSetTheorems, TLAPS

-----------------------------------------------------------------------------
\* A finite set of numbers has a largest one.
LEMMA LargestExists ==
    ASSUME NEW S \in SUBSET Nat, IsFiniteSet(S), S # {}
    PROVE  \E x \in S : \A y \in S : y <= x
<1> DEFINE Above(x) == {y \in S : y > x}
           All == {Above(x) : x \in S}
<1>1. IsWellFoundedOn(StrictSubsetOrdering(S), SUBSET S)
  BY FS_StrictSubsetOrderingWellFounded, FS_FiniteSubsetsOfFinite
<1>2. All \subseteq SUBSET S /\ All # {}
  OBVIOUS
<1> HIDE DEF All
<1>3. PICK U \in All : \A V \in All : ~(<<V, U>> \in StrictSubsetOrdering(S))
  BY <1>1, <1>2, WFMin
<1> USE DEF All
<1>4. PICK x \in S : U = Above(x)
  OBVIOUS
<1> SUFFICES ASSUME NEW y \in S, ~(y <= x) PROVE FALSE
  OBVIOUS
<1>5. x \in Nat /\ y \in Nat /\ y > x
  OBVIOUS
<1>6. Above(y) \subseteq Above(x) /\ y \in Above(x) /\ y \notin Above(y)
  <2>1. \A z \in S : z > y => z > x
    BY <1>5
  <2>2. ~(y > y)
    BY <1>5
  <2> QED
    BY <1>5, <2>1, <2>2, Zenon
<1>7. Above(y) \in All /\ Above(y) \in SUBSET S /\ Above(x) \in SUBSET S
  OBVIOUS
<1>8. <<Above(y), Above(x)>> \in StrictSubsetOrdering(S)
  BY <1>6, <1>7 DEF StrictSubsetOrdering
<1> QED
  BY <1>3, <1>4, <1>7, <1>8

\* A set of numbers has a smallest one.
LEMMA SmallestExists ==
    ASSUME NEW S \in SUBSET Nat, S # {}
    PROVE  \E x \in S : \A y \in S : x <= y
<1>1. PICK n \in S : TRUE
  OBVIOUS
<1> DEFINE Low == {y \in S : y <= n}
           Flip == {n - y : y \in Low}
<1>2. Low \in SUBSET Nat /\ n \in Low
  <2>1. n \in Nat /\ n <= n
    OBVIOUS
  <2> QED
    BY <2>1, Zenon
<1>3. Flip \in SUBSET Nat /\ n - n \in Flip /\ \A s \in Flip : s <= n
  BY <1>2
<1> HIDE DEF Flip
<1>4. IsFiniteSet(Flip)
  BY <1>2, <1>3, FS_BoundedSetOfNaturals
<1>5. PICK z \in Flip : \A w \in Flip : w <= z
  BY <1>3, <1>4, LargestExists
<1> USE DEF Flip
<1>6. PICK x \in Low : z = n - x
  OBVIOUS
<1>7. ASSUME NEW y \in S PROVE x <= y
  <2>1. CASE y \in Low
    <3>1. n - y \in Flip
      BY <2>1
    <3>2. n - y <= n - x
      BY <3>1, <1>5, <1>6
    <3> QED
      BY <3>2, x \in Nat, y \in Nat, n \in Nat
  <2>2. CASE y \notin Low
    BY <2>2, <1>1, <1>2, <1>6, y \in Nat, x \in Nat, n \in Nat
  <2> QED
    BY <2>1, <2>2
<1> QED
  BY <1>6, <1>7

-----------------------------------------------------------------------------
(* SwapExecution. An order inherits what its execution established: whose   *)
(* account pays was settled when the call began, in a book of quotes whose  *)
(* accounts are there or were lost (BookInv), and the transaction passed    *)
(* the guard at this very attempt (ExecInv).                                *)

\* The account that pays is the quote's, or there is a reason for another.
PaysFor(q, by, named) == by = quote[q].for \/ named \/ quote[q].for \in lost \cup {Unset}

\* What is signed passed the guard of its quote, which is still cached.
Checked(q, tx) == tx \in Tx /\ Check(q, tx)

\* The account of a quote is there, or it was deleted at some time.
BookInv == \A q \in Quotes : quote[q] # Unset => quote[q].for \notin removed \/ quote[q].for \in lost

ExecOK(r) ==
    /\ quote[r.quote] # Unset /\ PaysFor(r.quote, r.by, r.named)
    /\ r.pc # "fetch" => Checked(r.quote, r.tx)
OrderOK(o) == quote[o.quote] # Unset /\ PaysFor(o.quote, o.by, o.named) /\ Checked(o.quote, o.tx)

ExecInv  == \A c \in Callers : exec[c] # Unset => ExecOK(exec[c])
OrderInv == \A n \in DOMAIN orders : OrderOK(orders[n])

SwapInv == SwapTypeOK /\ BookInv /\ ExecInv /\ OrderInv

\* The invariant holds with no quote and no order (SwapInit).
THEOREM SwapStarts == SwapInit => SwapInv
<1> SUFFICES ASSUME SwapInit PROVE SwapInv
  OBVIOUS
<1>1. payer \in Payers \cup {Unset}
  BY DEF SwapInit, Found
<1>2. SwapTypeOK
  BY <1>1 DEF SwapInit, SwapTypeOK
<1> QED
  BY <1>2 DEF SwapInit, SwapInv, BookInv, ExecInv, OrderInv

-----------------------------------------------------------------------------
(* Orders are finitely many. *)

LEMMA OrdersFinite ==
    ASSUME SwapTypeOK
    PROVE  /\ IsFiniteSet(DOMAIN orders) /\ Cardinality(DOMAIN orders) \in Nat
           /\ \A S \in SUBSET DOMAIN orders : Cardinality(S) \in Nat
<1>1. IsFiniteSet(1..MaxOrder)
  BY SwapAssumption, FS_Interval
<1>2. IsFiniteSet(DOMAIN orders)
  BY <1>1, FS_Subset DEF SwapTypeOK
<1>3. \A S \in SUBSET DOMAIN orders : IsFiniteSet(S)
  BY <1>2, FS_Subset
<1> QED
  BY <1>2, <1>3, FS_CardinalityType

LEMMA NoncesAreNumbers ==
    ASSUME SwapTypeOK, NEW a, NEW n \in (NextNonce(a)..Cardinality(Of(a))) \cup {0}
    PROVE  n \in Nat
<1>1. Of(a) \in SUBSET DOMAIN orders
  BY DEF Of
<1>2. {k \in Of(a) : orders[k].state = "landed"} \in SUBSET DOMAIN orders
  BY <1>1
<1> QED
  BY <1>1, <1>2, OrdersFinite DEF NextNonce

-----------------------------------------------------------------------------
(* Steps of an execution. *)

\* In a book that is as it was, what was so of an execution or an order is so.
LEMMA SameQuotes ==
    ASSUME UNCHANGED <<quote, lost>>
    PROVE  /\ \A r : ExecOK(r)' <=> ExecOK(r)
           /\ \A o : OrderOK(o)' <=> OrderOK(o)
BY DEF ExecOK, OrderOK, PaysFor, Checked, Check

\* One caller's execution becomes r, or ends; the orders stay.
LEMMA ExecKeeps ==
    ASSUME SwapInv, NEW c \in Callers, NEW r, r = Unset \/ (r \in Exec /\ ExecOK(r)),
           exec' = [exec EXCEPT ![c] = r],
           UNCHANGED <<quote, expired, removed, payer, orders, lost>>, doubtful' \subseteq Quotes
    PROVE  SwapInv'
<1>1. SwapTypeOK'
  BY DEF SwapInv, SwapTypeOK
<1>2. exec'[c] = r /\ \A d \in Callers \ {c} : exec'[d] = exec[d]
  BY DEF SwapInv, SwapTypeOK
<1>3. \A d \in Callers : exec'[d] # Unset => ExecOK(exec'[d])
  BY <1>2 DEF SwapInv, ExecInv
<1>4. ExecInv'
  <2>1. ASSUME NEW d \in Callers, NEW x, x = exec'[d], x # Unset PROVE ExecOK(x)'
    BY <1>3, <2>1, SameQuotes
  <2> QED
    BY <2>1 DEF ExecInv, ExecOK, PaysFor, Checked, Check
<1>5. OrderInv' /\ BookInv'
  BY DEF SwapInv, OrderInv, BookInv, OrderOK, PaysFor, Checked, Check
<1> QED
  BY <1>1, <1>4, <1>5 DEF SwapInv

LEMMA ExecIs ==
    ASSUME SwapInv, NEW c \in Callers, exec[c] # Unset
    PROVE  exec[c] \in Exec /\ ExecOK(exec[c])
BY DEF SwapInv, SwapTypeOK, ExecInv

\* What a caller does to its record.
LEMMA NextIsExec ==
    ASSUME NEW e \in Exec, ExecOK(e)
    PROVE  /\ \A n \in 1..MaxOrder : e.pc # "fetch" =>
                LET r == [e EXCEPT !.pc = "await", !.order = n] IN r \in Exec /\ ExecOK(r)
           /\ \A n \in 1..Attempts : LET r == [e EXCEPT !.attempt = n, !.pc = "fetch"]
                                     IN  r \in Exec /\ ExecOK(r)
<1>1. ASSUME NEW n \in 1..MaxOrder, e.pc # "fetch"
      PROVE  LET r == [e EXCEPT !.pc = "await", !.order = n] IN r \in Exec /\ ExecOK(r)
  <2> DEFINE r == [e EXCEPT !.pc = "await", !.order = n]
  <2>1. n \in 0..MaxOrder
    BY SwapAssumption
  <2>2. /\ r \in Exec /\ r.quote = e.quote /\ r.by = e.by /\ r.named = e.named /\ r.tx = e.tx
    BY <2>1 DEF Exec
  <2> HIDE DEF r
  <2>3. ExecOK(r)
    BY <1>1, <2>2 DEF ExecOK
  <2> QED
    BY <2>2, <2>3 DEF r
<1>2. ASSUME NEW n \in 1..Attempts
      PROVE  LET r == [e EXCEPT !.attempt = n, !.pc = "fetch"] IN r \in Exec /\ ExecOK(r)
  <2> DEFINE r == [e EXCEPT !.attempt = n, !.pc = "fetch"]
  <2>1. r \in Exec /\ r.quote = e.quote /\ r.by = e.by /\ r.named = e.named /\ r.pc = "fetch"
    BY DEF Exec
  <2> HIDE DEF r
  <2>2. ExecOK(r)
    BY <2>1 DEF ExecOK
  <2> QED
    BY <2>1, <2>2 DEF r
<1> QED
  BY <1>1, <1>2

\* Whoever pays is the account of the quote, or there is a reason for another: an
\* account of a quote that cannot be found was deleted since.
LEMMA PayerSettled ==
    ASSUME SwapInv, NEW q \in Quotes, quote[q] # Unset, NEW named \in Payers \cup {Unset}
    PROVE  PaysFor(q, PayingAccount(q, named), named # Unset)
<1>1. CASE named # Unset
  BY <1>1 DEF PaysFor
<1>2. CASE named = Unset /\ quote[q].for \notin removed \cup {Unset}
  BY <1>2 DEF PaysFor, PayingAccount
<1>3. CASE named = Unset /\ quote[q].for \in removed \cup {Unset}
  BY <1>3 DEF PaysFor, SwapInv, BookInv
<1> QED
  BY <1>1, <1>2, <1>3

LEMMA ExecuteKeeps ==
    ASSUME SwapInv, NEW c \in Callers, NEW q \in Quotes, NEW named \in Payers \cup {Unset}, Execute(c, q, named)
    PROVE  SwapInv'
<1> DEFINE a == PayingAccount(q, named)
           r == [quote |-> q, pc |-> "fetch", by |-> a, named |-> named # Unset, attempt |-> 1,
                 tx |-> Unset, nonce |-> 0, order |-> 0]
<1>1. /\ quote[q] # Unset /\ a # Unset /\ exec' = [exec EXCEPT ![c] = r]
      /\ UNCHANGED <<quote, expired, removed, payer, orders, lost>>
  BY DEF Execute
<1>2. a \in Payers
  BY <1>1 DEF PayingAccount, SwapInv, SwapTypeOK, CachedQuote
<1>3. PaysFor(q, a, named # Unset)
  BY <1>1, PayerSettled
<1>4. PICK by \in Payers, host \in BOOLEAN : by = a /\ host = (named # Unset)
  <2>1. (named # Unset) \in BOOLEAN
    OBVIOUS
  <2> HIDE DEF a
  <2> QED
    BY <1>2, <2>1, Zenon
<1>5. [quote |-> q, pc |-> "fetch", by |-> by, named |-> host, attempt |-> 1,
       tx |-> Unset, nonce |-> 0, order |-> 0] \in Exec
  BY SwapAssumption DEF Exec, Attempts
<1>6. r \in Exec
  BY <1>4, <1>5
<1>7. r.quote = q /\ r.by = a /\ r.named = (named # Unset) /\ r.pc = "fetch"
  OBVIOUS
<1> HIDE DEF r, a
<1>8. ExecOK(r)
  BY <1>1, <1>3, <1>7 DEF ExecOK
<1>9. doubtful' \subseteq Quotes
  BY DEF Execute, SwapInv, SwapTypeOK
<1> QED
  BY <1>1, <1>6, <1>8, <1>9, ExecKeeps

\* Ending a call, going on with it, and starting over.
LEMMA AnswerKeeps ==
    ASSUME SwapInv, NEW c \in Callers, Answer(c),
           UNCHANGED <<quote, expired, removed, payer, orders, lost>>, doubtful' \subseteq Quotes
    PROVE  SwapInv'
BY ExecKeeps DEF Answer

LEMMA RetryKeeps ==
    ASSUME SwapInv, NEW c \in Callers, exec[c] # Unset, Again(c), Retry(c),
           UNCHANGED <<quote, expired, removed, payer, orders, lost>>, doubtful' \subseteq Quotes
    PROVE  SwapInv'
<1> DEFINE r == [exec[c] EXCEPT !.attempt = exec[c].attempt + 1, !.pc = "fetch"]
<1>1. exec[c] \in Exec /\ ExecOK(exec[c])
  BY ExecIs
<1>a. exec[c].attempt + 1 \in 1..Attempts
  BY <1>1 DEF Exec, Again, Attempts
<1>2. r \in Exec /\ ExecOK(r)
  BY <1>1, <1>a, NextIsExec
<1>3. exec' = [exec EXCEPT ![c] = r]
  BY DEF Retry
<1> HIDE DEF r
<1> QED
  BY <1>2, <1>3, ExecKeeps

\* The heart of it: what goes on to be signed was checked at this attempt.
LEMMA FetchKeeps == ASSUME SwapInv, NEW c \in Callers, Fetch(c) PROVE SwapInv'
<1>0. exec[c] # Unset /\ UNCHANGED <<quote, expired, removed, payer, orders, lost, doubtful>>
  BY DEF Fetch, Executing
<1>1. doubtful' \subseteq Quotes
  BY <1>0 DEF SwapInv, SwapTypeOK
<1>2. CASE Answer(c)
  BY <1>0, <1>1, <1>2, AnswerKeeps
<1>3. CASE ~Answer(c)
  <2>1. PICK tx \in Tx : /\ Check(exec[c].quote, tx)
                         /\ exec' = [exec EXCEPT ![c].tx = tx,
                                       ![c].pc = IF exec[c].quote \in Solana THEN "handOver" ELSE "nonce"]
    BY <1>3 DEF Fetch
  <2> DEFINE r == [exec[c] EXCEPT !.tx = tx, !.pc = IF exec[c].quote \in Solana THEN "handOver" ELSE "nonce"]
  <2>2. exec' = [exec EXCEPT ![c] = r]
    BY <2>1
  <2>3. exec[c] \in Exec /\ ExecOK(exec[c])
    BY <1>0, ExecIs
  <2>4. /\ r \in Exec /\ r.quote = exec[c].quote /\ r.by = exec[c].by /\ r.named = exec[c].named
        /\ r.tx = tx
    BY <2>3 DEF Exec
  <2> HIDE DEF r
  <2>5. ExecOK(r)
    BY <2>1, <2>3, <2>4 DEF ExecOK, Checked
  <2> QED
    BY <1>0, <1>1, <2>2, <2>4, <2>5, ExecKeeps
<1> QED
  BY <1>2, <1>3

LEMMA FetchNonceKeeps == ASSUME SwapInv, NEW c \in Callers, FetchNonce(c) PROVE SwapInv'
<1>1. PICK n \in (NextNonce(exec[c].by)..Cardinality(Of(exec[c].by))) \cup {0} :
          exec' = [exec EXCEPT ![c].nonce = n, ![c].pc = "handOver"]
  BY DEF FetchNonce
<1> DEFINE r == [exec[c] EXCEPT !.nonce = n, !.pc = "handOver"]
<1>2. /\ exec[c] # Unset /\ exec[c].pc = "nonce"
      /\ UNCHANGED <<quote, expired, removed, payer, orders, lost, doubtful>>
  BY DEF FetchNonce, Executing
<1>3. n \in Nat
  BY <1>1, NoncesAreNumbers DEF SwapInv
<1>4. exec[c] \in Exec /\ ExecOK(exec[c])
  BY <1>2, ExecIs
<1>5. r \in Exec /\ r.quote = exec[c].quote /\ r.by = exec[c].by /\ r.named = exec[c].named /\ r.tx = exec[c].tx
  BY <1>3, <1>4 DEF Exec
<1>6. exec' = [exec EXCEPT ![c] = r]
  BY <1>1
<1> HIDE DEF r
<1>7. ExecOK(r)
  BY <1>2, <1>4, <1>5 DEF ExecOK
<1>8. doubtful' \subseteq Quotes
  BY <1>2 DEF SwapInv, SwapTypeOK
<1> QED
  BY <1>2, <1>5, <1>6, <1>7, <1>8, ExecKeeps

\* What an execution hands over becomes an order as it is.
LEMMA AcceptedKeeps ==
    ASSUME SwapInv, NEW c \in Callers, exec[c] # Unset, exec[c].pc = "handOver",
           NEW n, n = Cardinality(DOMAIN orders) + 1, n <= MaxOrder, UNCHANGED <<quote, lost>>,
           orders' = [i \in DOMAIN orders \cup {n} |->
                         IF i # n THEN orders[i]
                         ELSE [quote |-> exec[c].quote, by |-> exec[c].by, named |-> exec[c].named, tx |-> exec[c].tx,
                               nonce |-> exec[c].nonce, state |-> "flying"]]
    PROVE  /\ n \in 1..MaxOrder
           /\ DOMAIN orders' \subseteq 1..MaxOrder /\ \A i \in DOMAIN orders' : orders'[i] \in Order
           /\ OrderInv'
<1> DEFINE o == [quote |-> exec[c].quote, by |-> exec[c].by, named |-> exec[c].named, tx |-> exec[c].tx,
                 nonce |-> exec[c].nonce, state |-> "flying"]
<1>1. exec[c] \in Exec /\ ExecOK(exec[c])
  BY ExecIs
<1>2. Checked(exec[c].quote, exec[c].tx)
  BY <1>1 DEF ExecOK
<1>3. exec[c].tx \in Tx
  BY <1>2 DEF Checked
<1>4. o \in Order /\ o.quote = exec[c].quote /\ o.by = exec[c].by /\ o.named = exec[c].named /\ o.tx = exec[c].tx
  BY <1>1, <1>3 DEF Exec, Order
<1>5. n \in 1..MaxOrder
  BY OrdersFinite, SwapAssumption DEF SwapInv
<1>6. DOMAIN orders' = DOMAIN orders \cup {n}
  OBVIOUS
<1>7. \A i \in DOMAIN orders' : orders'[i] = o \/ (i \in DOMAIN orders /\ orders'[i] = orders[i])
  BY <1>6
<1> HIDE DEF o
<1>8. OrderOK(o)
  BY <1>1, <1>2, <1>4 DEF OrderOK, ExecOK
<1>9. DOMAIN orders' \subseteq 1..MaxOrder /\ \A i \in DOMAIN orders' : orders'[i] \in Order
  BY <1>4, <1>5, <1>6, <1>7 DEF SwapInv, SwapTypeOK
<1>10. \A i \in DOMAIN orders' : OrderOK(orders'[i])
  BY <1>7, <1>8 DEF SwapInv, OrderInv
<1>11. OrderInv'
  <2>1. ASSUME NEW i \in DOMAIN orders', NEW x, x = orders'[i] PROVE OrderOK(x)'
    BY <1>10, <2>1, SameQuotes
  <2> QED
    BY <2>1 DEF OrderInv, OrderOK, PaysFor, Checked, Check
<1> QED
  BY <1>5, <1>9, <1>11

LEMMA HandOverKeeps == ASSUME SwapInv, NEW c \in Callers, HandOver(c) PROVE SwapInv'
<1> DEFINE e == exec[c]
           n == Cardinality(DOMAIN orders) + 1
           accepted == orders' = [i \in DOMAIN orders \cup {n} |->
                         IF i # n THEN orders[i]
                         ELSE [quote |-> e.quote, by |-> e.by, named |-> e.named, tx |-> e.tx, nonce |-> e.nonce,
                               state |-> "flying"]]
<1>0. e # Unset /\ e.pc = "handOver" /\ UNCHANGED <<quote, expired, removed, payer, lost>>
  BY DEF HandOver, Executing
<1>a. e \in Exec /\ ExecOK(e)
  BY <1>0, ExecIs
<1>b. doubtful \subseteq Quotes /\ e.quote \in Quotes
  BY <1>a DEF SwapInv, SwapTypeOK, Exec
<1>c. Again(c) => e.attempt + 1 \in 1..Attempts
  BY <1>a DEF Exec, Again, Attempts
<1>1. ASSUME n <= MaxOrder, accepted, doubtful' \subseteq Quotes, NEW r, exec' = [exec EXCEPT ![c] = r],
             r = Unset \/ (r \in Exec /\ ExecOK(r))
      PROVE  SwapInv'
  <2>1. /\ DOMAIN orders' \subseteq 1..MaxOrder /\ \A i \in DOMAIN orders' : orders'[i] \in Order
        /\ OrderInv'
    BY <1>0, <1>1, AcceptedKeeps
  <2>2. exec'[c] = r /\ \A d \in Callers \ {c} : exec'[d] = exec[d]
    BY <1>1 DEF SwapInv, SwapTypeOK
  <2>3. SwapTypeOK'
    BY <1>0, <1>1, <2>1 DEF SwapInv, SwapTypeOK
  <2>4. \A d \in Callers : exec'[d] # Unset => ExecOK(exec'[d])
    BY <1>1, <2>2 DEF SwapInv, ExecInv
  <2>5. ExecInv'
    <3>1. ASSUME NEW d \in Callers, NEW x, x = exec'[d], x # Unset PROVE ExecOK(x)'
      BY <1>0, <2>4, <3>1, SameQuotes
    <3> QED
      BY <3>1, <1>0 DEF ExecInv, ExecOK, PaysFor, Checked, Check
  <2>6. BookInv'
    BY <1>0 DEF SwapInv, BookInv
  <2> QED
    BY <2>1, <2>3, <2>5, <2>6 DEF SwapInv
<1>2. CASE /\ n <= MaxOrder /\ accepted /\ UNCHANGED doubtful
           /\ exec' = [exec EXCEPT ![c].pc = "await", ![c].order = n] \/ Answer(c)
  <2> DEFINE r == [e EXCEPT !.pc = "await", !.order = n]
  <2>1. n \in 1..MaxOrder
    BY <1>2, OrdersFinite, SwapAssumption DEF SwapInv
  <2>2. r \in Exec /\ ExecOK(r)
    BY <1>0, <1>a, <2>1, NextIsExec
  <2>3. CASE Answer(c)
    BY <1>1, <1>2, <1>b, <2>3 DEF Answer
  <2>4. CASE exec' = [exec EXCEPT ![c].pc = "await", ![c].order = n]
    <3>1. exec' = [exec EXCEPT ![c] = r]
      BY <2>4
    <3> HIDE DEF r
    <3> QED
      BY <1>1, <1>2, <1>b, <2>2, <3>1
  <2> QED
    BY <1>2, <2>3, <2>4
<1>3. CASE /\ n <= MaxOrder /\ accepted /\ doubtful' = doubtful \cup {e.quote}
           /\ Answer(c) \/ (Again(c) /\ Retry(c))
  <2> DEFINE again == [e EXCEPT !.attempt = e.attempt + 1, !.pc = "fetch"]
  <2>1. Again(c) => again \in Exec /\ ExecOK(again)
    BY <1>a, <1>c, NextIsExec
  <2>2. PICK r : exec' = [exec EXCEPT ![c] = r] /\ (r = Unset \/ (r \in Exec /\ ExecOK(r)))
    BY <1>3, <2>1 DEF Answer, Retry
  <2> QED
    BY <1>1, <1>3, <1>b, <2>2
<1>4. CASE UNCHANGED <<orders, doubtful>> /\ (Answer(c) \/ (Again(c) /\ Retry(c)))
  BY <1>0, <1>4, <1>b, AnswerKeeps, RetryKeeps
<1> QED
  BY <1>2, <1>3, <1>4 DEF HandOver

LEMMA AwaitKeeps == ASSUME SwapInv, NEW c \in Callers, Await(c) PROVE SwapInv'
<1>1. exec[c] # Unset /\ UNCHANGED <<quote, expired, removed, payer, orders, lost, doubtful>>
  BY DEF Await, Executing
<1>2. Answer(c) \/ (Again(c) /\ Retry(c))
  BY DEF Await
<1>3. doubtful' \subseteq Quotes
  BY <1>1 DEF SwapInv, SwapTypeOK
<1> QED
  BY <1>1, <1>2, <1>3, AnswerKeeps, RetryKeeps

LEMMA ExecFailsKeeps == ASSUME SwapInv, NEW c \in Callers, ExecFails(c) PROVE SwapInv'
<1>1. exec[c] # Unset /\ Answer(c) /\ UNCHANGED <<quote, expired, removed, payer, orders, lost>>
  BY DEF ExecFails
<1>2. exec[c].quote \in Quotes
  BY <1>1, ExecIs DEF Exec
<1>3. doubtful' \subseteq Quotes
  BY <1>2 DEF ExecFails, SwapInv, SwapTypeOK
<1> QED
  BY <1>1, <1>3, AnswerKeeps

-----------------------------------------------------------------------------
(* The rest of the world. *)

\* Quotes are added and accounts are lost, never the other way round.
LEMMA BookKeeps ==
    ASSUME SwapInv, UNCHANGED <<exec, orders, doubtful>>, SwapTypeOK', BookInv', lost \subseteq lost',
           \A q \in Quotes : quote[q] # Unset => quote'[q] = quote[q]
    PROVE  SwapInv'
<1>1. \A c \in Callers : exec[c] # Unset => exec[c].quote \in Quotes
  BY DEF SwapInv, SwapTypeOK, Exec
<1>2. \A n \in DOMAIN orders : orders[n].quote \in Quotes
  BY DEF SwapInv, SwapTypeOK, Order
<1>3. ASSUME NEW q \in Quotes, quote[q] # Unset
      PROVE  /\ \A by, named : PaysFor(q, by, named) => PaysFor(q, by, named)'
             /\ \A tx : Checked(q, tx) => Checked(q, tx)'
  BY <1>3 DEF PaysFor, Checked, Check
<1>4. ASSUME NEW r, r.quote \in Quotes, ExecOK(r) PROVE ExecOK(r)'
  <2>1. quote[r.quote] # Unset /\ quote'[r.quote] = quote[r.quote]
    BY <1>4 DEF ExecOK
  <2> QED
    BY <1>3, <1>4, <2>1 DEF ExecOK
<1>5. ASSUME NEW o, o.quote \in Quotes, OrderOK(o) PROVE OrderOK(o)'
  <2>1. quote[o.quote] # Unset /\ quote'[o.quote] = quote[o.quote]
    BY <1>5 DEF OrderOK
  <2> QED
    BY <1>3, <1>5, <2>1 DEF OrderOK
<1>6. ExecInv'
  <2>1. ASSUME NEW c \in Callers, NEW x, x = exec[c], x # Unset PROVE ExecOK(x)'
    BY <1>1, <1>4, <2>1 DEF SwapInv, ExecInv
  <2> QED
    BY <2>1 DEF ExecInv, ExecOK, PaysFor, Checked, Check
<1>7. OrderInv'
  <2>1. ASSUME NEW n \in DOMAIN orders, NEW x, x = orders[n] PROVE OrderOK(x)'
    BY <1>2, <1>5, <2>1 DEF SwapInv, OrderInv
  <2> QED
    BY <2>1 DEF OrderInv, OrderOK, PaysFor, Checked, Check
<1> QED
  BY <1>6, <1>7 DEF SwapInv

LEMMA QuoteKeeps ==
    ASSUME SwapInv, NEW q \in Quotes, NEW a \in Payers \cup {Unset}, NEW router \in BOOLEAN, Quote(q, a, router)
    PROVE  SwapInv'
<1> DEFINE k == [for |-> a, router |-> router]
<1>1. /\ quote' = [quote EXCEPT ![q] = k] /\ quote[q] = Unset /\ a \in Found(removed)
      /\ UNCHANGED <<expired, removed, payer, exec, orders, lost, doubtful>>
  BY DEF Quote
<1>2. k \in CachedQuote /\ k.for = a
  BY DEF CachedQuote
<1> HIDE DEF k
<1>3. quote'[q] = k /\ \A p \in Quotes \ {q} : quote'[p] = quote[p]
  BY <1>1 DEF SwapInv, SwapTypeOK
<1>4. SwapTypeOK'
  BY <1>1, <1>2 DEF SwapInv, SwapTypeOK
<1>5. a \notin removed
  BY <1>1, SwapAssumption DEF Found, SwapInv, SwapTypeOK
<1>6. BookInv'
  BY <1>1, <1>2, <1>3, <1>5 DEF SwapInv, BookInv
<1> QED
  BY <1>1, <1>3, <1>4, <1>6, BookKeeps

LEMMA AccountsKeep ==
    ASSUME SwapInv, NEW a \in Payers, SetPayer(a) \/ RemovePayer(a) \/ RestorePayer(a)
    PROVE  SwapInv'
<1>0. UNCHANGED <<quote, expired, exec, orders, doubtful>> /\ lost \subseteq lost'
  BY DEF SetPayer, RemovePayer, RestorePayer
<1>1. payer' \in Payers \cup {Unset} /\ removed' \subseteq Payers /\ lost' \subseteq Payers
  BY DEF SetPayer, RemovePayer, RestorePayer, Found, SwapInv, SwapTypeOK
<1>2. SwapTypeOK'
  BY <1>0, <1>1 DEF SwapInv, SwapTypeOK
<1>3. \A b : b \in removed' => b \in removed \/ b \in lost'
  BY DEF SetPayer, RemovePayer, RestorePayer
<1>4. BookInv'
  BY <1>0, <1>3 DEF SwapInv, BookInv
<1> QED
  BY <1>0, <1>2, <1>4, BookKeeps

\* Orders change their state only.
LEMMA SettleKeeps == ASSUME SwapInv, NEW n \in DOMAIN orders, Settle(n) PROVE SwapInv'
<1>0. UNCHANGED <<quote, expired, removed, payer, exec, lost, doubtful>>
  BY DEF Settle
<1>1. /\ DOMAIN orders' = DOMAIN orders
      /\ \A k \in DOMAIN orders : orders'[k] \in {orders[k], [orders[k] EXCEPT !.state = "landed"],
                                                  [orders[k] EXCEPT !.state = "failed"]}
  BY DEF Settle
<1>2. \A k \in DOMAIN orders : orders[k] \in Order
  BY DEF SwapInv, SwapTypeOK
<1>3. \A k \in DOMAIN orders : /\ orders'[k] \in Order /\ orders'[k].quote = orders[k].quote
                               /\ orders'[k].by = orders[k].by /\ orders'[k].named = orders[k].named
                               /\ orders'[k].tx = orders[k].tx
  BY <1>1, <1>2 DEF Order
<1>4. SwapTypeOK'
  BY <1>0, <1>1, <1>3 DEF SwapInv, SwapTypeOK
<1>5. \A k \in DOMAIN orders : OrderOK(orders'[k])
  BY <1>3 DEF SwapInv, OrderInv, OrderOK
<1>6. OrderInv'
  <2>1. ASSUME NEW k \in DOMAIN orders, NEW x, x = orders'[k] PROVE OrderOK(x)'
    BY <1>0, <1>5, <2>1, SameQuotes
  <2> QED
    BY <1>0, <1>1, <2>1 DEF OrderInv, OrderOK, PaysFor, Checked, Check
<1>7. ExecInv' /\ BookInv'
  BY <1>0 DEF SwapInv, ExecInv, BookInv, ExecOK, PaysFor, Checked, Check
<1> QED
  BY <1>4, <1>6, <1>7 DEF SwapInv

\* Every step of quote, execute and the aggregator keeps the invariant.
THEOREM SwapPreserves == ASSUME SwapInv, [SwapNext]_swapVars PROVE SwapInv'
<1>1. ASSUME NEW q \in Quotes, ExpireQuote(q) PROVE SwapInv'
  <2>1. /\ expired' \subseteq Quotes
        /\ UNCHANGED <<quote, removed, payer, exec, orders, lost, doubtful>>
    BY <1>1 DEF ExpireQuote, SwapInv, SwapTypeOK
  <2>2. SwapTypeOK' /\ BookInv'
    BY <2>1 DEF SwapInv, SwapTypeOK, BookInv
  <2> QED
    BY <2>1, <2>2, BookKeeps
<1>2. ASSUME NEW c \in Callers, CallerStep(c) PROVE SwapInv'
  BY <1>2, ExecuteKeeps, FetchKeeps, FetchNonceKeeps, HandOverKeeps, AwaitKeeps, ExecFailsKeeps DEF CallerStep
<1>3. CASE UNCHANGED swapVars
  <2>1. SwapTypeOK' /\ BookInv'
    BY <1>3 DEF swapVars, SwapInv, SwapTypeOK, BookInv
  <2> QED
    BY <1>3, <2>1, BookKeeps DEF swapVars
<1> QED
  BY <1>1, <1>2, <1>3, QuoteKeeps, AccountsKeep, SettleKeeps DEF SwapNext

\* The state is of its type, for any number of callers, quotes and accounts.
THEOREM SwapTypes == SwapSpec => []SwapTypeOK
<1>1. SwapInv => SwapTypeOK
  BY DEF SwapInv
<1> QED
  BY SwapStarts, SwapPreserves, <1>1, PTL DEF SwapSpec

\* However many executions overlap, are retried, fail or lose their answer: each order
\* passed the guard of its quote at its own attempt (a minimum that is stated is not
\* below the floor; on an EVM chain the value, and the router when the quote knows it,
\* are the quote's), and is paid by the quote's account unless the host named one, the
\* quote was of none, or its account was deleted.
THEOREM OrdersAsQuoted == SwapSpec => []SwapsAsQuoted
<1>1. SwapInv => SwapsAsQuoted
  BY DEF SwapInv, OrderInv, OrderOK, PaysFor, Checked, Check, SwapsAsQuoted
<1> QED
  BY SwapStarts, SwapPreserves, <1>1, PTL DEF SwapSpec

-----------------------------------------------------------------------------
(* SwapExecution, once. SwapsOnce counts landed orders. OnceInv says of     *)
(* every quote that is in no doubt that one call runs at most, that the     *)
(* only order that may stand while it runs is the one it awaits, and that   *)
(* two orders never stand together.                                         *)

\* Every order of q has failed.
AllFailed(q) == \A n \in DOMAIN orders : orders[n].quote = q => orders[n].state = "failed"

\* Of a quote that is in no doubt one call runs at most. Before it awaits an order every
\* order of the quote has failed; then every other one has.
CallOnce(q) ==
    /\ \A c, d \in Callers : exec[c] # Unset /\ exec[d] # Unset /\ exec[c].quote = q /\ exec[d].quote = q => c = d
    /\ \A c \in Callers, n \in DOMAIN orders :
         exec[c] # Unset /\ exec[c].quote = q /\ orders[n].quote = q /\ orders[n].state # "failed" =>
         exec[c].pc = "await" /\ exec[c].order = n
    /\ \A m, n \in DOMAIN orders :
         orders[m].quote = q /\ orders[n].quote = q /\ orders[m].state # "failed" /\ orders[n].state # "failed" => m = n

OnceInv == \A q \in Quotes \ doubtful : CallOnce(q)

\* A step after which the orders of q that stand are no more, and its calls are as they
\* were, or one of them is over or has started over.
LEMMA LessKeeps ==
    ASSUME NEW q, CallOnce(q),
           DOMAIN orders' = DOMAIN orders,
           \A n \in DOMAIN orders : orders'[n].quote = orders[n].quote
               /\ (orders'[n].state # "failed" => orders[n].state # "failed"),
           \A c \in Callers : exec'[c] # Unset /\ exec'[c].quote = q =>
               /\ exec[c] # Unset /\ exec[c].quote = q
               /\ \/ exec'[c].pc = "await" /\ exec[c].pc = "await" /\ exec'[c].order = exec[c].order
                  \/ exec[c].pc # "await" \/ AllFailed(q)
    PROVE  CallOnce(q)'
BY DEF CallOnce, AllFailed

\* A call that ends, or goes on before anything is handed over.
LEMMA CallGoesOn ==
    ASSUME SwapInv, OnceInv, NEW c \in Callers, exec[c] # Unset, NEW r, exec' = [exec EXCEPT ![c] = r],
           orders' = orders, doubtful \subseteq doubtful',
           r = Unset \/ (r.quote = exec[c].quote /\ r.pc # "await"
                         /\ (exec[c].pc # "await" \/ AllFailed(exec[c].quote)))
    PROVE  OnceInv'
<1>1. exec'[c] = r /\ \A d \in Callers \ {c} : exec'[d] = exec[d]
  BY DEF SwapInv, SwapTypeOK
<1>2. ASSUME NEW q \in Quotes \ doubtful' PROVE CallOnce(q)'
  <2>1. CallOnce(q)
    BY DEF OnceInv
  <2> QED
    BY <1>1, <2>1, LessKeeps
<1> QED
  BY <1>2 DEF OnceInv

LEMMA ExecuteOnce ==
    ASSUME SwapInv, OnceInv, NEW c \in Callers, NEW q \in Quotes, NEW named \in Payers \cup {Unset}, Execute(c, q, named)
    PROVE  OnceInv'
<1> DEFINE a == PayingAccount(q, named)
           r == [quote |-> q, pc |-> "fetch", by |-> a, named |-> named # Unset, attempt |-> 1,
                 tx |-> Unset, nonce |-> 0, order |-> 0]
<1>1. exec' = [exec EXCEPT ![c] = r] /\ r.quote = q /\ r.pc = "fetch"
  BY DEF Execute
<1> HIDE DEF r
<1>2. /\ exec[c] = Unset /\ orders' = orders /\ doubtful \subseteq doubtful'
      /\ q \in doubtful' \/ \A d \in Callers \ {c} : exec[d] = Unset \/ exec[d].quote # q
      /\ q \in doubtful \/ AllFailed(q)
  BY DEF Execute, AllFailed
<1>3. exec'[c] = r /\ \A d \in Callers \ {c} : exec'[d] = exec[d]
  BY <1>1 DEF SwapInv, SwapTypeOK
<1>5. ASSUME NEW p \in Quotes \ doubtful' PROVE CallOnce(p)'
  <2>1. CallOnce(p)
    BY <1>2 DEF OnceInv
  <2>2. CASE p # q
    BY <1>1, <1>2, <1>3, <2>1, <2>2, LessKeeps
  <2>3. CASE p = q
    <3>1. \A d \in Callers : exec'[d] # Unset /\ exec'[d].quote = p => d = c
      BY <1>2, <1>3, <2>3
    <3>2. \A n \in DOMAIN orders' : orders'[n].quote = p => orders'[n].state = "failed"
      BY <1>2, <2>3 DEF AllFailed
    <3> QED
      BY <3>1, <3>2 DEF CallOnce
  <2> QED
    BY <2>2, <2>3
<1> QED
  BY <1>5 DEF OnceInv

LEMMA HandOverOnce == ASSUME SwapInv, OnceInv, NEW c \in Callers, HandOver(c) PROVE OnceInv'
<1> DEFINE e == exec[c]
           n == Cardinality(DOMAIN orders) + 1
           accepted == orders' = [i \in DOMAIN orders \cup {n} |->
                         IF i # n THEN orders[i]
                         ELSE [quote |-> e.quote, by |-> e.by, named |-> e.named, tx |-> e.tx, nonce |-> e.nonce,
                               state |-> "flying"]]
<1>0. e # Unset /\ e.pc = "handOver" /\ e \in Exec
  BY ExecIs DEF HandOver, Executing
<1>a. \A q \in Quotes \ doubtful : q = e.quote => AllFailed(q)
  BY <1>0 DEF OnceInv, CallOnce, AllFailed
<1>1. ASSUME UNCHANGED <<orders, doubtful>>, Answer(c) \/ Retry(c) PROVE OnceInv'
  <2>1. [e EXCEPT !.attempt = e.attempt + 1, !.pc = "fetch"].quote = e.quote
        /\ [e EXCEPT !.attempt = e.attempt + 1, !.pc = "fetch"].pc = "fetch"
    BY <1>0 DEF Exec
  <2>2. PICK r : exec' = [exec EXCEPT ![c] = r] /\ (r = Unset \/ (r.quote = e.quote /\ r.pc = "fetch"))
    BY <1>1, <2>1 DEF Answer, Retry
  <2> QED
    BY <1>0, <1>1, <2>2, CallGoesOn
<1>2. ASSUME accepted, NEW r, exec' = [exec EXCEPT ![c] = r], r = Unset \/ r.quote = e.quote,
             doubtful \subseteq doubtful',
             e.quote \in doubtful' \/ r = Unset \/ (r.pc = "await" /\ r.order = n)
      PROVE  OnceInv'
  <2>1. exec'[c] = r /\ \A d \in Callers \ {c} : exec'[d] = exec[d]
    BY <1>2 DEF SwapInv, SwapTypeOK
  <2>2. /\ DOMAIN orders' = DOMAIN orders \cup {n} /\ orders'[n].quote = e.quote
        /\ \A i \in DOMAIN orders' : i # n => i \in DOMAIN orders /\ orders'[i] = orders[i]
    BY <1>2
  <2> HIDE DEF n, e
  <2>3. ASSUME NEW q \in Quotes \ doubtful' PROVE CallOnce(q)'
    <3>1. CallOnce(q)
      BY <1>2, <2>3 DEF OnceInv
    <3>2. CASE q # e.quote
      <4>1. \A d \in Callers : exec'[d] # Unset /\ exec'[d].quote = q => d # c /\ exec'[d] = exec[d]
        BY <1>2, <2>1, <3>2
      <4>2. \A x \in DOMAIN orders' : orders'[x].quote = q => x \in DOMAIN orders /\ orders'[x] = orders[x]
        BY <2>2, <3>2
      <4> QED
        BY <3>1, <4>1, <4>2 DEF CallOnce
    <3>3. CASE q = e.quote
      <4>1. AllFailed(q)
        BY <1>2, <1>a, <2>3, <3>3
      <4>2. \A i \in DOMAIN orders' : orders'[i].quote = q /\ orders'[i].state # "failed" => i = n
        BY <2>2, <4>1 DEF AllFailed
      <4>3. r = Unset \/ (r.pc = "await" /\ r.order = n)
        BY <1>2, <2>3, <3>3
      <4>4. \A d \in Callers : exec'[d] # Unset /\ exec'[d].quote = q => d = c
        BY <1>0, <2>1, <3>1, <3>3 DEF CallOnce, e
      <4> QED
        BY <2>1, <4>2, <4>3, <4>4 DEF CallOnce
    <3> QED
      BY <3>2, <3>3
  <2> QED
    BY <2>3 DEF OnceInv
<1>3. CASE accepted /\ exec' = [exec EXCEPT ![c].pc = "await", ![c].order = n] /\ UNCHANGED doubtful
  <2> DEFINE r == [e EXCEPT !.pc = "await", !.order = n]
  <2>1. exec' = [exec EXCEPT ![c] = r] /\ r.quote = e.quote /\ r.pc = "await" /\ r.order = n
    BY <1>0, <1>3 DEF Exec
  <2> HIDE DEF r
  <2> QED
    BY <1>2, <1>3, <2>1
<1>b. CASE accepted /\ Answer(c) /\ UNCHANGED doubtful
  BY <1>2, <1>b DEF Answer
<1>4. CASE accepted /\ doubtful' = doubtful \cup {e.quote} /\ (Answer(c) \/ Retry(c))
  <2>1. [e EXCEPT !.attempt = e.attempt + 1, !.pc = "fetch"].quote = e.quote
    BY <1>0 DEF Exec
  <2>2. PICK r : exec' = [exec EXCEPT ![c] = r] /\ (r = Unset \/ r.quote = e.quote)
    BY <1>4, <2>1 DEF Answer, Retry
  <2> QED
    BY <1>2, <1>4, <2>2
<1> QED
  BY <1>1, <1>3, <1>4, <1>b DEF HandOver

LEMMA CallsOnce ==
    ASSUME SwapInv, OnceInv, NEW c \in Callers, Fetch(c) \/ FetchNonce(c) \/ Await(c) \/ ExecFails(c)
    PROVE  OnceInv'
<1>0. exec[c] # Unset /\ exec[c] \in Exec /\ orders' = orders /\ doubtful \subseteq doubtful'
  BY ExecIs DEF Fetch, FetchNonce, Await, ExecFails, Executing
<1>1. CASE Answer(c)
  BY <1>0, <1>1, CallGoesOn DEF Answer
<1>2. CASE Fetch(c) /\ ~Answer(c)
  <2>0. PICK tx : exec' = [exec EXCEPT ![c].tx = tx, ![c].pc = IF exec[c].quote \in Solana THEN "handOver" ELSE "nonce"]
    BY <1>2 DEF Fetch
  <2> DEFINE r == [exec[c] EXCEPT !.tx = tx, !.pc = IF exec[c].quote \in Solana THEN "handOver" ELSE "nonce"]
  <2>1. exec' = [exec EXCEPT ![c] = r]
    BY <2>0
  <2>2. exec' = [exec EXCEPT ![c] = r] /\ r.quote = exec[c].quote /\ r.pc # "await" /\ exec[c].pc # "await"
    BY <1>0, <1>2, <2>1 DEF Exec, Fetch, Executing
  <2> HIDE DEF r
  <2> QED
    BY <1>0, <2>2, CallGoesOn
<1>3. CASE FetchNonce(c)
  <2>1. PICK k : exec' = [exec EXCEPT ![c] = [exec[c] EXCEPT !.nonce = k, !.pc = "handOver"]]
    BY <1>3 DEF FetchNonce
  <2> DEFINE r == [exec[c] EXCEPT !.nonce = k, !.pc = "handOver"]
  <2>2. exec' = [exec EXCEPT ![c] = r] /\ r.quote = exec[c].quote /\ r.pc # "await" /\ exec[c].pc # "await"
    BY <1>0, <1>3, <2>1 DEF Exec, FetchNonce, Executing
  <2> HIDE DEF r
  <2> QED
    BY <1>0, <2>2, CallGoesOn
<1>4. CASE Await(c) /\ ~Answer(c)
  <2>1. orders[exec[c].order].state = "failed" /\ Retry(c) /\ doubtful' = doubtful /\ exec[c].pc = "await"
    BY <1>4 DEF Await, Executing
  <2> DEFINE r == [exec[c] EXCEPT !.attempt = exec[c].attempt + 1, !.pc = "fetch"]
  <2>2. exec' = [exec EXCEPT ![c] = r] /\ r.quote = exec[c].quote /\ r.pc # "await"
    BY <1>0, <2>1 DEF Exec, Retry
  <2> HIDE DEF r
  <2>3. exec'[c] = r /\ \A d \in Callers \ {c} : exec'[d] = exec[d]
    BY <2>2 DEF SwapInv, SwapTypeOK
  <2>4. ASSUME NEW q \in Quotes \ doubtful' PROVE CallOnce(q)'
    <3>1. CallOnce(q)
      BY <1>0, <2>4 DEF OnceInv
    <3>2. exec[c].quote = q => AllFailed(q)
      BY <1>0, <2>1, <3>1 DEF CallOnce, AllFailed
    <3> QED
      BY <1>0, <2>2, <2>3, <3>1, <3>2, LessKeeps
  <2> QED
    BY <2>4 DEF OnceInv
<1>5. CASE ExecFails(c)
  BY <1>1, <1>5 DEF ExecFails
<1> QED
  BY <1>1, <1>2, <1>3, <1>4, <1>5

LEMMA SettleOnce == ASSUME SwapInv, OnceInv, NEW n \in DOMAIN orders, Settle(n) PROVE OnceInv'
<1>1. UNCHANGED <<exec, doubtful>> /\ orders[n].state = "flying" /\ DOMAIN orders' = DOMAIN orders
  BY DEF Settle
<1>2. \A k \in DOMAIN orders : orders[k] \in Order
  BY DEF SwapInv, SwapTypeOK
<1>3. \A k \in DOMAIN orders : \/ orders'[k] = orders[k]
                               \/ orders'[k] = [orders[k] EXCEPT !.state = "failed"]
                               \/ k = n /\ orders'[k] = [orders[k] EXCEPT !.state = "landed"]
  BY DEF Settle
<1>4. \A k \in DOMAIN orders : orders'[k].quote = orders[k].quote
          /\ (orders'[k].state # "failed" => orders[k].state # "failed")
  BY <1>1, <1>2, <1>3 DEF Order
<1>5. ASSUME NEW q \in Quotes \ doubtful' PROVE CallOnce(q)'
  <2>1. CallOnce(q)
    BY <1>1, <1>5 DEF OnceInv
  <2> QED
    BY <1>1, <1>4, <2>1, LessKeeps
<1> QED
  BY <1>5 DEF OnceInv

LEMMA OncePreserved == ASSUME SwapInv, OnceInv, [SwapNext]_swapVars PROVE OnceInv'
<1>1. CASE UNCHANGED <<exec, orders, doubtful>>
  <2>1. ASSUME NEW q \in Quotes \ doubtful' PROVE CallOnce(q)'
    BY <1>1, <2>1, LessKeeps DEF OnceInv
  <2> QED
    BY <2>1 DEF OnceInv
<1>2. ASSUME NEW q \in Quotes, ExpireQuote(q) \/ \E a \in Payers \cup {Unset}, router \in BOOLEAN : Quote(q, a, router) PROVE OnceInv'
  BY <1>1, <1>2 DEF ExpireQuote, Quote
<1>3. ASSUME NEW a \in Payers, SetPayer(a) \/ RemovePayer(a) \/ RestorePayer(a) PROVE OnceInv'
  BY <1>1, <1>3 DEF SetPayer, RemovePayer, RestorePayer
<1>4. ASSUME NEW c \in Callers, CallerStep(c) PROVE OnceInv'
  BY <1>4, ExecuteOnce, HandOverOnce, CallsOnce DEF CallerStep
<1>5. ASSUME NEW n \in DOMAIN orders, Settle(n) PROVE OnceInv'
  BY <1>5, SettleOnce
<1>6. CASE UNCHANGED swapVars
  BY <1>1, <1>6 DEF swapVars
<1> QED
  BY <1>2, <1>3, <1>4, <1>5, <1>6 DEF SwapNext

LEMMA OnceStart == SwapInit => OnceInv
BY DEF SwapInit, OnceInv, CallOnce

\* A quote is swapped once, whatever a call hands over and however often the host
\* calls again after an error, unless two calls executed it at once or the answer to
\* a hand-over was lost.
THEOREM SwappedOnce == SwapSpec => []SwapsOnce
<1>1. OnceInv => SwapsOnce
  <2> SUFFICES ASSUME OnceInv, NEW q \in Quotes \ doubtful PROVE Cardinality(Landed(q)) <= 1
    BY DEF SwapsOnce
  <2>1. \A m, n \in Landed(q) : m = n
    BY DEF OnceInv, CallOnce, Landed
  <2>2. CASE Landed(q) = {}
    BY <2>2, FS_EmptySet
  <2>3. CASE Landed(q) # {}
    <3>1. PICK n : Landed(q) = {n}
      BY <2>1, <2>3
    <3> QED
      BY <3>1, FS_Singleton, Cardinality({n}) = 1
  <2> QED
    BY <2>2, <2>3
<1> QED
  BY SwapStarts, SwapPreserves, OnceStart, OncePreserved, <1>1, PTL DEF SwapSpec

-----------------------------------------------------------------------------
(* TokenBook. What is stored is stored under the id of the network the host *)
(* meant (StoredAsMeant). A list under way holds only items of its network, *)
(* and, once it read the rows, an item for every token it still owes        *)
(* (CallOK); whoever writes a token takes it off what the lists under way   *)
(* owe.                                                                     *)

RowOK(r) == r.network = Id(r.meant)

StoredAsMeant == \A t \in Tokens : tokens[t] # Blank => RowOK(tokens[t])

Items     == [token : Tokens, row : Row]
WriteCall == [op : {"write"}, step : {"delete", "insert"}, token : Tokens, row : Row]
ListCall  == [op : {"list"}, step : {"account", "rows", "balances", "shown"}, of : Refs,
              items : SUBSET Items, owed : SUBSET Tokens]
PayCall   == [op : {"pay"}, step : {"paid"}, on : Chains, row : Row, byId : BOOLEAN]

\* An owed token the list would show has its item.
Served(j) == \A t \in j.owed :
    tokens[t].meant = j.of.chain /\ tokens[t].kind = TokenKind(j.of.chain) => \E i \in j.items : i.token = t

ListOK(j) ==
    /\ \A t \in j.owed : tokens[t] # Blank
    /\ \A i \in j.items : i.row.meant = j.of.chain
    /\ j.step \in {"balances", "shown"} /\ j.of.form = "id" => Served(j)

CallOK(j) ==
    \/ j = Blank
    \/ j \in WriteCall /\ RowOK(j.row)
    \/ j \in ListCall /\ ListOK(j)
    \/ j \in PayCall /\ (j.row.meant = j.on \/ j.byId)

TokenInv == TokenTypeOK /\ StoredAsMeant /\ \A c \in Clerks : CallOK(call[c])

\* The invariant holds with no token registered (TokenInit).
THEOREM TokensStart == TokenInit => TokenInv
BY DEF TokenInit, TokenInv, TokenTypeOK, StoredAsMeant, CallOK

LEMMA IInvImplies == TokenInv => RegisteredIsListed
<1> SUFFICES ASSUME TokenInv, NEW c \in Clerks, call[c] # Blank
             PROVE  /\ call[c].step = "shown" /\ call[c].of.form = "id" => Served(call[c])
                    /\ call[c].step = "shown" => \A i \in call[c].items : i.row.meant = call[c].of.chain
                    /\ call[c].step = "paid" => call[c].row.meant = call[c].on \/ call[c].byId
  BY DEF RegisteredIsListed, Served
<1>1. CASE call[c] \in WriteCall
  BY <1>1 DEF WriteCall
<1>2. CASE call[c] \in ListCall /\ ListOK(call[c])
  BY <1>2 DEF ListCall, ListOK
<1>3. CASE call[c] \in PayCall /\ (call[c].row.meant = call[c].on \/ call[c].byId)
  BY <1>3 DEF PayCall
<1> QED
  BY <1>1, <1>2, <1>3 DEF TokenInv, CallOK

LEMMA CallTypes ==
    ASSUME NEW j, CallOK(j)
    PROVE  j \in {Blank} \cup WriteCall \cup ListCall \cup PayCall
BY DEF CallOK

-----------------------------------------------------------------------------
(* A step of one call that writes no token. *)

LEMMA CallKeeps ==
    ASSUME TokenInv, NEW c \in Clerks, NEW j, CallOK(j), call' = [call EXCEPT ![c] = j], tokens' = tokens,
           selected' \in Refs, holder' \in {"ethereum", "tron"}
    PROVE  TokenInv'
<1>1. j \in {Blank} \cup WriteCall \cup ListCall \cup PayCall
  BY CallTypes
<1>2. TokenTypeOK'
  BY <1>1 DEF TokenInv, TokenTypeOK, WriteCall, ListCall, PayCall, Items
<1>3. StoredAsMeant'
  BY DEF TokenInv, StoredAsMeant, RowOK
<1>4. ASSUME NEW d \in Clerks PROVE CallOK(call[d])'
  <2>1. call'[d] = (IF d = c THEN j ELSE call[d]) /\ CallOK(IF d = c THEN j ELSE call[d])
    BY DEF TokenInv, TokenTypeOK
  <2> QED
    BY <2>1 DEF CallOK, ListOK, Served, RowOK
<1> QED
  BY <1>2, <1>3, <1>4 DEF TokenInv

\* Listing: begin, account, rows, balances.
LEMMA ListKeeps ==
    ASSUME TokenInv, NEW c \in Clerks, BeginList(c) \/ ListAccount(c) \/ Rows(c) \/ Balances(c)
    PROVE  TokenInv'
<1>1. selected \in Refs /\ holder \in {"ethereum", "tron"} /\ \A t \in Tokens : tokens[t] \in Row \cup {Blank}
  BY DEF TokenInv, TokenTypeOK
<1>2. CASE BeginList(c)
  <2> DEFINE j == [op |-> "list", step |-> "account", of |-> selected, items |-> {},
                   owed |-> {t \in Tokens \ Busy : tokens[t] # Blank}]
  <2>1. j \in ListCall /\ ListOK(j)
    BY <1>1 DEF ListCall, ListOK
  <2>2. CallOK(j)
    BY <2>1 DEF CallOK
  <2> HIDE DEF j
  <2> QED
    BY <1>1, <1>2, <2>2, CallKeeps DEF BeginList, Takes, j
<1>3. ASSUME NEW s \in {"account", "rows", "balances"}, InList(c, s)
      PROVE  call[c] \in ListCall /\ ListOK(call[c])
  BY <1>3 DEF InList, TokenInv, CallOK, WriteCall, PayCall
<1>4. CASE ListAccount(c)
  <2> DEFINE j == IF holder = HolderOf(call[c].of.chain) THEN [call[c] EXCEPT !.step = "rows"]
                  ELSE [Shown(c) EXCEPT !.owed = {}]
  <2>1. InList(c, "account") /\ Takes(c, j) /\ UNCHANGED <<tokens, selected, holder>>
    BY <1>4 DEF ListAccount, Reads
  <2>2. j \in ListCall /\ ListOK(j)
    BY <1>3, <2>1 DEF Shown, ListCall, ListOK, Served
  <2>3. CallOK(j)
    BY <2>2 DEF CallOK
  <2> HIDE DEF j
  <2> QED
    BY <1>1, <2>1, <2>3, CallKeeps DEF Takes
<1>5. CASE Rows(c)
  <2> DEFINE of == call[c].of
             Listed == {u \in TokensByNetwork(FetchedId(of)) : tokens[u].kind = TokenKind(of.chain)}
             items == {[token |-> t, row |-> tokens[t]] : t \in Listed}
             j == [call[c] EXCEPT !.step = "balances", !.items = items]
  <2>1. InList(c, "rows") /\ Takes(c, j) /\ UNCHANGED <<tokens, selected, holder>>
    BY <1>5 DEF Rows, Reads
  <2>2. call[c] \in ListCall /\ ListOK(call[c]) /\ of \in Refs
    BY <1>3, <2>1 DEF ListCall
  <2>3. items \in SUBSET Items
    BY <1>1 DEF TokensByNetwork, Items
  <2>4. \A i \in items : i.row.meant = of.chain
    <3> SUFFICES ASSUME NEW t \in Listed PROVE tokens[t].meant = of.chain
      OBVIOUS
    <3>1. t \in Tokens /\ tokens[t] # Blank /\ tokens[t].network = FetchedId(of) /\ FetchedId(of) # Blank
      BY DEF TokensByNetwork
    <3>2. Id(tokens[t].meant) = Id(of.chain)
      BY <3>1 DEF FetchedId, TokenInv, StoredAsMeant, RowOK
    <3> QED
      BY <3>2 DEF Id
  <2>5. ASSUME of.form = "id", NEW t \in call[c].owed, tokens[t].meant = of.chain, tokens[t].kind = TokenKind(of.chain)
        PROVE  \E i \in items : i.token = t
    <3>1. t \in Tokens /\ tokens[t] # Blank /\ tokens[t].network = Id(of.chain)
      BY <2>2, <2>5 DEF ListCall, ListOK, TokenInv, StoredAsMeant, RowOK
    <3>2. of.chain \in Chains
      BY <2>2 DEF Refs
    <3>3. t \in Listed
      BY <2>5, <3>1, <3>2, TokenAssumption DEF TokensByNetwork, FetchedId
    <3>4. [token |-> t, row |-> tokens[t]] \in items
      BY <3>3
    <3> QED
      BY <3>4
  <2> HIDE DEF items
  <2>6. /\ j \in ListCall /\ j.items = items /\ j.owed = call[c].owed /\ j.of = of
    BY <2>2, <2>3 DEF ListCall
  <2>7. ListOK(j)
    BY <2>2, <2>4, <2>5, <2>6 DEF ListOK, Served
  <2>8. CallOK(j)
    BY <2>6, <2>7 DEF CallOK
  <2> HIDE DEF j
  <2> QED
    BY <1>1, <2>1, <2>8, CallKeeps DEF Takes
<1>6. CASE Balances(c)
  <2>1. PICK heard \in SUBSET call[c].items :
            Reads(c, "balances", [Shown(c) EXCEPT !.items = heard,
                                                  !.owed = Shown(c).owed \ {i.token : i \in call[c].items \ heard}])
    BY <1>6 DEF Balances
  <2> DEFINE kept == call[c].owed \ {i.token : i \in call[c].items \ heard}
             j == [Shown(c) EXCEPT !.items = heard, !.owed = kept]
  <2>2. call[c] \in ListCall /\ ListOK(call[c]) /\ call[c].step = "balances"
    BY <1>3, <2>1 DEF Reads, InList
  <2>3. Shown(c).owed = call[c].owed
    BY <2>2 DEF Shown, ListCall
  <2>4. Takes(c, j) /\ UNCHANGED <<tokens, selected, holder>>
    BY <2>1, <2>3 DEF Reads
  <2>5. \A t \in kept : \A i \in call[c].items : i.token = t => i \in heard
    OBVIOUS
  <2>6. kept \subseteq call[c].owed /\ heard \subseteq call[c].items
    OBVIOUS
  <2> HIDE DEF kept
  <2>7. j \in ListCall /\ j.items = heard /\ j.owed = kept /\ j.of = call[c].of
    BY <2>2, <2>6 DEF Shown, ListCall
  <2>8. ListOK(j)
    BY <2>2, <2>5, <2>6, <2>7 DEF ListOK, Served
  <2>9. CallOK(j)
    BY <2>7, <2>8 DEF CallOK
  <2> HIDE DEF j
  <2> QED
    BY <1>1, <2>4, <2>9, CallKeeps DEF Takes
<1> QED
  BY <1>2, <1>4, <1>5, <1>6

\* A payment takes a row that was registered for the selected network, or by its id.
LEMMA PayKeeps ==
    ASSUME TokenInv, NEW c \in Clerks, NEW t \in Tokens, tokens[t] # Blank,
           NEW byId \in BOOLEAN, tokens[t].meant = selected.chain \/ byId,
           Takes(c, [op |-> "pay", step |-> "paid", on |-> selected.chain, row |-> tokens[t], byId |-> byId]),
           UNCHANGED <<tokens, selected, holder>>
    PROVE  TokenInv'
<1> DEFINE j == [op |-> "pay", step |-> "paid", on |-> selected.chain, row |-> tokens[t], byId |-> byId]
<1>1. selected \in Refs /\ holder \in {"ethereum", "tron"} /\ tokens[t] \in Row /\ selected.chain \in Chains
  BY DEF TokenInv, TokenTypeOK, Refs
<1>2. j \in PayCall /\ (j.row.meant = j.on \/ j.byId)
  BY <1>1 DEF PayCall
<1>3. CallOK(j)
  BY <1>2 DEF CallOK
<1> HIDE DEF j
<1> QED
  BY <1>1, <1>3, CallKeeps DEF Takes, j

LEMMA PayByIdKeeps == ASSUME TokenInv, NEW c \in Clerks, NEW t \in Tokens, PayById(c, t) PROVE TokenInv'
BY PayKeeps DEF PayById

\* What is found by network and contract is stored under the selected network's id.
LEMMA PayByKeyKeeps ==
    ASSUME TokenInv, NEW c \in Clerks, NEW a \in Contracts, NEW derived \in BOOLEAN, PayByKey(c, a, derived)
    PROVE  TokenInv'
<1> DEFINE ids == {FetchedId(selected)} \cup (IF derived THEN {Id(selected.chain)} ELSE {})
<1>1. PICK t \in LookupByMint(ids, a) :
          Takes(c, [op |-> "pay", step |-> "paid", on |-> selected.chain, row |-> tokens[t], byId |-> FALSE])
  BY DEF PayByKey
<1>2. PICK i \in ids : t \in TokensByNetwork(i)
  BY <1>1 DEF LookupByMint
<1>3. t \in Tokens /\ tokens[t] # Blank /\ i # Blank /\ tokens[t].network = i
  BY <1>2 DEF TokensByNetwork
<1>4. i = Id(selected.chain)
  BY <1>2, <1>3 DEF FetchedId
<1>5. Id(tokens[t].meant) = Id(selected.chain)
  BY <1>3, <1>4 DEF TokenInv, StoredAsMeant, RowOK
<1>6. tokens[t].meant = selected.chain
  BY <1>5 DEF Id
<1> QED
  BY <1>1, <1>3, <1>6, PayKeeps DEF PayByKey

-----------------------------------------------------------------------------
(* The writes. *)

\* t's row becomes v: the lists under way owe t no more, what they owe stays as it was.
LEMMA WriteKeeps ==
    ASSUME TokenInv, NEW c \in Clerks, NEW t \in Tokens, NEW v, v = Blank \/ (v \in Row /\ RowOK(v)),
           NEW j, j = Blank \/ (j \in WriteCall /\ RowOK(j.row)),
           tokens' = [tokens EXCEPT ![t] = v], call' = [Disturb(t) EXCEPT ![c] = j],
           UNCHANGED <<selected, holder>>
    PROVE  TokenInv'
<1>1. /\ tokens'[t] = v /\ \A u \in Tokens : u # t => tokens'[u] = tokens[u]
      /\ tokens' \in [Tokens -> Row \cup {Blank}]
  BY DEF TokenInv, TokenTypeOK
<1>2. StoredAsMeant'
  BY <1>1 DEF TokenInv, StoredAsMeant, RowOK
<1>3. ASSUME NEW d \in Clerks PROVE CallOK(call[d])'
  <2>1. CASE d = c
    <3>1. call'[d] = j
      BY <2>1 DEF Disturb
    <3> QED
      BY <3>1 DEF CallOK, RowOK
  <2>2. CASE d # c /\ call[d] # Blank /\ call[d] \in ListCall /\ ListOK(call[d])
    <3> DEFINE k == [call[d] EXCEPT !.owed = call[d].owed \ {t}]
    <3>1. call'[d] = k
      BY <2>2 DEF Disturb, ListCall
    <3>2. k \in ListCall /\ k.owed = call[d].owed \ {t} /\ k.items = call[d].items /\ k.of = call[d].of
          /\ k.step = call[d].step
      BY <2>2 DEF ListCall
    <3> HIDE DEF k
    <3>3. /\ call'[d] \in ListCall /\ call'[d].owed = call[d].owed \ {t} /\ call'[d].items = call[d].items
          /\ call'[d].of = call[d].of /\ call'[d].step = call[d].step
      BY <3>1, <3>2
    <3>4. \A u \in call'[d].owed : u \in Tokens /\ u \in call[d].owed /\ tokens'[u] = tokens[u]
      BY <1>1, <2>2, <3>3 DEF ListCall
    <3>5. ListOK(call[d])'
      BY <2>2, <3>3, <3>4 DEF ListOK, Served
    <3> QED
      BY <3>3, <3>5 DEF CallOK, ListCall
  <2>3. CASE d # c /\ (call[d] = Blank \/ call[d] \notin ListCall)
    <3>1. call'[d] = call[d]
      BY <2>3 DEF Disturb, TokenInv, CallOK, WriteCall, PayCall
    <3> QED
      BY <2>3, <3>1 DEF TokenInv, CallOK, RowOK
  <2>4. call[d] \in ListCall => call[d] = Blank \/ ListOK(call[d])
    BY DEF TokenInv, CallOK, ListCall, WriteCall, PayCall
  <2> QED
    BY <2>1, <2>2, <2>3, <2>4
<1>4. call' \in [Clerks -> {Blank} \cup WriteCall \cup ListCall \cup PayCall]
  <2>1. ASSUME NEW d \in Clerks PROVE call'[d] \in {Blank} \cup WriteCall \cup ListCall \cup PayCall
    BY <1>3 DEF CallOK
  <2>2. DOMAIN call' = Clerks /\ call' = [d \in Clerks |-> call'[d]]
    BY DEF Disturb
  <2> QED
    BY <2>1, <2>2
<1>5. TokenTypeOK'
  BY <1>1, <1>4 DEF TokenInv, TokenTypeOK, WriteCall, ListCall, PayCall, Items
<1> QED
  BY <1>2, <1>3, <1>5 DEF TokenInv

LEMMA CreateKeeps ==
    ASSUME TokenInv, NEW c \in Clerks, NEW t \in Tokens, NEW r \in Refs, NEW a \in Contracts, NEW k \in Kinds,
           Create(c, t, r, a, k)
    PROVE  TokenInv'
<1> DEFINE row == [network |-> ResolveNetworkRef(r), address |-> a, kind |-> k, meant |-> r.chain]
           j == [op |-> "write", step |-> "delete", token |-> t, row |-> row]
<1>1. tokens[t] = Blank /\ call' = [Disturb(t) EXCEPT ![c] = j] /\ UNCHANGED <<tokens, selected, holder>>
  BY DEF Create, Write
<1>2. row \in Row /\ RowOK(row)
  BY DEF Row, RowOK, ResolveNetworkRef, Refs
<1> HIDE DEF row
<1>3. j \in WriteCall /\ RowOK(j.row)
  BY <1>2 DEF WriteCall
<1>4. tokens' = [tokens EXCEPT ![t] = Blank]
  BY <1>1 DEF TokenInv, TokenTypeOK
<1> HIDE DEF j
<1> QED
  BY <1>1, <1>3, <1>4, WriteKeeps

LEMMA UpdateKeeps ==
    ASSUME TokenInv, NEW c \in Clerks, NEW t \in Tokens, NEW k \in Kinds, Update(c, t, k)
    PROVE  TokenInv'
<1> DEFINE row == [tokens[t] EXCEPT !.kind = k]
           j == [op |-> "write", step |-> "delete", token |-> t, row |-> row]
<1>1. tokens[t] # Blank /\ call' = [Disturb(t) EXCEPT ![c] = j] /\ UNCHANGED <<tokens, selected, holder>>
  BY DEF Update, Write
<1>2. tokens[t] \in Row /\ RowOK(tokens[t])
  BY <1>1 DEF TokenInv, TokenTypeOK, StoredAsMeant
<1>3. row \in Row /\ RowOK(row)
  BY <1>2 DEF Row, RowOK
<1> HIDE DEF row
<1>4. j \in WriteCall /\ RowOK(j.row)
  BY <1>3 DEF WriteCall
<1>5. tokens' = [tokens EXCEPT ![t] = tokens[t]]
  BY <1>1 DEF TokenInv, TokenTypeOK
<1> HIDE DEF j
<1> QED
  BY <1>1, <1>2, <1>4, <1>5, WriteKeeps

LEMMA SaveKeeps ==
    ASSUME TokenInv, NEW c \in Clerks, SaveDelete(c) \/ SaveInsert(c)
    PROVE  TokenInv'
<1> DEFINE t == call[c].token
<1>1. call[c] \in WriteCall /\ RowOK(call[c].row)
  BY DEF SaveDelete, SaveInsert, TokenInv, CallOK, ListCall, PayCall
<1>2. t \in Tokens /\ call[c].row \in Row
  BY <1>1 DEF WriteCall
<1>3. CASE SaveDelete(c)
  <2> DEFINE j == [op |-> "write", step |-> "insert", token |-> t, row |-> call[c].row]
  <2>1. j \in WriteCall /\ RowOK(j.row)
    BY <1>1, <1>2 DEF WriteCall
  <2>2. tokens' = [tokens EXCEPT ![t] = Blank] /\ call' = [Disturb(t) EXCEPT ![c] = j] /\ UNCHANGED <<selected, holder>>
    BY <1>3 DEF SaveDelete, Write
  <2> HIDE DEF j
  <2> QED
    BY <1>2, <2>1, <2>2, WriteKeeps
<1>4. CASE SaveInsert(c)
  <2> DEFINE v == IF tokens[t] = Blank THEN call[c].row ELSE tokens[t]
  <2>1. v = Blank \/ (v \in Row /\ RowOK(v))
    BY <1>1, <1>2 DEF TokenInv, TokenTypeOK, StoredAsMeant
  <2>2. tokens' = [tokens EXCEPT ![t] = v] /\ call' = [Disturb(t) EXCEPT ![c] = Blank] /\ UNCHANGED <<selected, holder>>
    BY <1>4 DEF SaveInsert
  <2> HIDE DEF v
  <2> QED
    BY <1>2, <2>1, <2>2, WriteKeeps
<1> QED
  BY <1>3, <1>4

LEMMA DeleteKeeps == ASSUME TokenInv, NEW c \in Clerks, NEW t \in Tokens, Delete(c, t) PROVE TokenInv'
<1>1. /\ call[c] = Blank /\ tokens' = [tokens EXCEPT ![t] = Blank] /\ call' = Disturb(t)
      /\ UNCHANGED <<selected, holder>>
  BY DEF Delete, Idle
<1>2. call' = [Disturb(t) EXCEPT ![c] = Blank]
  <2>1. Disturb(t)[c] = Blank
    BY <1>1 DEF Disturb
  <2> QED
    BY <1>1, <2>1 DEF Disturb
<1> QED
  BY <1>1, <1>2, WriteKeeps

-----------------------------------------------------------------------------
(* The theorems. *)

\* Every statement of a write, a list or a payment keeps the invariant.
THEOREM TokensPreserve == TokenInv /\ [TokenNext]_tokenVars => TokenInv'
<1> SUFFICES ASSUME TokenInv, [TokenNext]_tokenVars PROVE TokenInv'
  OBVIOUS
<1>1. CallOK(Blank) /\ selected \in Refs /\ holder \in {"ethereum", "tron"}
  BY DEF CallOK, TokenInv, TokenTypeOK
<1>2. ASSUME NEW c \in Clerks, GiveUp(c) \/ Answered(c) PROVE TokenInv'
  BY <1>1, <1>2, CallKeeps DEF GiveUp, Answered, Takes
<1>3. ASSUME UNCHANGED <<tokens, call>>, selected' \in Refs, holder' \in {"ethereum", "tron"} PROVE TokenInv'
  <2>1. TokenTypeOK'
    BY <1>3 DEF TokenInv, TokenTypeOK
  <2>2. StoredAsMeant' /\ \A c \in Clerks : CallOK(call[c])'
    BY <1>3 DEF TokenInv, StoredAsMeant, CallOK, ListOK, Served, RowOK
  <2> QED
    BY <2>1, <2>2 DEF TokenInv
<1>4. ASSUME NEW r \in Refs, SelectNetwork(r) PROVE TokenInv'
  BY <1>1, <1>3, <1>4 DEF SelectNetwork
<1>5. ASSUME NEW h \in {"ethereum", "tron"}, SelectAccount(h) PROVE TokenInv'
  BY <1>1, <1>3, <1>5 DEF SelectAccount
<1>6. CASE UNCHANGED tokenVars
  BY <1>1, <1>3, <1>6 DEF tokenVars
<1>7. ASSUME NEW c \in Clerks, NEW t \in Tokens, PayById(c, t) PROVE TokenInv'
  BY <1>7, PayByIdKeeps
<1>8. ASSUME NEW c \in Clerks, NEW a \in Contracts, NEW derived \in BOOLEAN, PayByKey(c, a, derived) PROVE TokenInv'
  BY <1>8, PayByKeyKeeps
<1> QED
  BY <1>2, <1>4, <1>5, <1>6, <1>7, <1>8, ListKeeps, CreateKeeps, UpdateKeeps, SaveKeeps, DeleteKeeps DEF TokenNext

\* A token registered for a network is in the lists made while that network is selected by
\* its id, and nothing is listed or paid by contract on a network it was not registered for.
THEOREM ListedAsRegistered == TokenSpec => []RegisteredIsListed
<1> QED
  BY TokensStart, TokensPreserve, IInvImplies, PTL DEF TokenSpec

-----------------------------------------------------------------------------
(* CoinWallet. ShownPaymentStands is about payments that were broadcast.    *)
(* CoinInv adds what a listing promises: what the index knows is closed     *)
(* under the payments whose change it spends, a payment it knows has no     *)
(* coin left among those listed as unspent, and a call under way spends no  *)
(* coin of a payment the index knew at its listing.                         *)

\* With a payment, S has those whose coins it spends.
Closed(S) ==
    /\ S \subseteq DOMAIN sends
    /\ \A k \in S : \A i \in sends[k].ins : coins[i].from # 0 => coins[i].from \in S

\* No live payment of S spends a coin of C.
Apart(S, C) == \A k \in S : sends[k].state # "replaced" => sends[k].ins \cap C = {}

CoinShapes ==
    /\ DOMAIN asked = Senders
    /\ \E S : sends \in Seq(S)
    /\ \E S : coins \in Seq(S)
    /\ \A i \in Ids : coins[i].from \in DOMAIN sends \cup {0}
    /\ \A k \in DOMAIN sends : sends[k].ins \subseteq Ids
    /\ listed \subseteq Ids

CoinInv ==
    /\ CoinShapes
    /\ Closed(indexed) /\ Apart(indexed, listed \ marked)
    /\ \A s \in Senders : asked[s] # NoJob =>
         asked[s].ins \subseteq Ids /\ Closed(asked[s].shown) /\ Apart(asked[s].shown, asked[s].ins)
    /\ ShownPaymentStands

\* What is selected is of what was listed.
LEMMA SelectedAreListed == ASSUME NEW all, NEW want PROVE SelectUtxos(all, want) \subseteq all
BY DEF SelectUtxos, Largest

\* What falls with D: all of it is within every closed part of the payments.
LEMMA FallsWithin ==
    ASSUME NEW D, NEW X \in SUBSET DOMAIN sends, D \subseteq X,
           \A k \in DOMAIN sends : (\E i \in sends[k].ins : coins[i].from \in X) => k \in X
    PROVE  Falls(D) \subseteq X
<1> DEFINE closed == {Z \in SUBSET DOMAIN sends :
                        /\ D \subseteq Z
                        /\ \A k \in DOMAIN sends : (\E i \in sends[k].ins : coins[i].from \in Z) => k \in Z}
           least  == {k \in DOMAIN sends : \A Z \in closed : k \in Z}
<1>1. X \in closed
  OBVIOUS
<1>2. least \in closed
  <2>1. D \subseteq least
    BY <1>1
  <2>2. ASSUME NEW k \in DOMAIN sends, NEW i \in sends[k].ins, coins[i].from \in least PROVE k \in least
    BY <2>2
  <2> QED
    BY <2>1, <2>2
<1>3. \A Y \in closed : least \subseteq Y
  OBVIOUS
<1>4. Falls(D) = CHOOSE Z \in closed : \A Y \in closed : Z \subseteq Y
  BY DEF Falls
<1> HIDE DEF closed, least
<1> QED
  BY <1>1, <1>2, <1>3, <1>4

\* What a call that knew S replaces is outside of S.
LEMMA FallsOutside ==
    ASSUME CoinShapes, NEW S, Closed(S), NEW C, Apart(S, C)
    PROVE  {k \in Falls(Spenders(C)) : sends[k].state # "replaced"} \cap S = {}
<1> DEFINE X == DOMAIN sends \ S
<1>1. Spenders(C) \subseteq X
  BY DEF Spenders, Apart
<1>2. ASSUME NEW k \in DOMAIN sends, NEW i \in sends[k].ins, coins[i].from \in X PROVE k \in X
  <2>1. i \in Ids /\ DOMAIN sends \subseteq Nat \ {0}
    BY <1>2 DEF CoinShapes
  <2>2. coins[i].from # 0
    BY <1>2, <2>1
  <2> QED
    BY <1>2, <2>2 DEF Closed
<1>3. Falls(Spenders(C)) \subseteq X
  BY <1>1, <1>2, FallsWithin
<1> QED
  BY <1>3

-----------------------------------------------------------------------------

LEMMA BuildKeeps == ASSUME CoinInv, NEW s \in Senders, NEW want, Build(s, want) PROVE CoinInv'
<1> DEFINE ins == SelectUtxos(Listing, want)
           j == [ins |-> ins, want |-> want, change |-> Change(ins, want), index |-> NextChangeIndex(Listing),
                 shown |-> indexed, after |-> Len(sends)]
<1>1. UNCHANGED <<coins, sends, listed, marked, indexed>> /\ (asked' = asked \/ asked' = [asked EXCEPT ![s] = j])
  BY DEF Build
<1>2. j.ins \subseteq listed \ marked /\ j.shown = indexed
  BY SelectedAreListed DEF Listing
<1>3. j.ins \subseteq Ids /\ Closed(j.shown) /\ Apart(j.shown, j.ins)
  BY <1>2 DEF CoinInv, CoinShapes, Apart
<1> HIDE DEF j
<1>4. \A S, C : (Closed(S) => Closed(S)') /\ (Apart(S, C) => Apart(S, C)')
  BY <1>1 DEF Closed, Apart
<1>5. \A u \in Senders : asked'[u] = asked[u] \/ asked'[u] = j
  BY <1>1 DEF CoinInv, CoinShapes
<1> QED
  BY <1>1, <1>3, <1>4, <1>5 DEF CoinInv, CoinShapes, ShownPaymentStands, Ids

\* Payments are added and change their state, coins are added: what was so of those
\* there were stays so.
LEMMA GrowthKeeps ==
    ASSUME CoinInv, DOMAIN asked' = Senders, \A s \in Senders : asked'[s] = asked[s] \/ asked'[s] = NoJob,
           CoinShapes', UNCHANGED <<listed, marked, indexed>>, ShownPaymentStands',
           Ids \subseteq Ids', DOMAIN sends \subseteq DOMAIN sends',
           \A i \in Ids : coins'[i] = coins[i],
           \A k \in DOMAIN sends : sends'[k].ins = sends[k].ins
                                   /\ (sends'[k].state # "replaced" => sends[k].state # "replaced")
    PROVE  CoinInv'
<1>1. ASSUME NEW S, Closed(S) PROVE Closed(S)'
  <2>1. \A k \in S : k \in DOMAIN sends /\ sends[k].ins \subseteq Ids
    BY <1>1 DEF Closed, CoinInv, CoinShapes
  <2> QED
    BY <1>1, <2>1 DEF Closed
<1>2. ASSUME NEW S, NEW C, Closed(S), Apart(S, C) PROVE Apart(S, C)'
  BY <1>2 DEF Closed, Apart
<1>3. Closed(indexed)' /\ Apart(indexed, listed \ marked)'
  BY <1>1, <1>2 DEF CoinInv
<1>4. ASSUME NEW s \in Senders, asked'[s] # NoJob
      PROVE  (asked[s].ins \subseteq Ids /\ Closed(asked[s].shown) /\ Apart(asked[s].shown, asked[s].ins))'
  <2>1. /\ asked'[s] = asked[s]
        /\ asked[s].ins \subseteq Ids /\ Closed(asked[s].shown) /\ Apart(asked[s].shown, asked[s].ins)
    BY <1>4 DEF CoinInv
  <2>2. PICK C, S : C = asked[s].ins /\ S = asked[s].shown
    OBVIOUS
  <2>3. C \subseteq Ids' /\ Closed(S)' /\ Apart(S, C)'
    BY <2>1, <2>2, <1>1, <1>2
  <2>4. asked'[s].ins = C /\ asked'[s].shown = S
    BY <2>1, <2>2
  <2> QED
    BY <2>3, <2>4 DEF Closed, Apart
<1> QED
  BY <1>3, <1>4 DEF CoinInv

LEMMA BroadcastSpendKeeps == ASSUME CoinInv, NEW s \in Senders, BroadcastSpend(s) PROVE CoinInv'
<1>1. asked' = [asked EXCEPT ![s] = NoJob] /\ asked[s] # NoJob /\ UNCHANGED <<listed, marked, indexed>>
  BY DEF BroadcastSpend
<1>2. DOMAIN asked' = Senders /\ \A u \in Senders : asked'[u] = asked[u] \/ asked'[u] = NoJob
  BY <1>1 DEF CoinInv, CoinShapes
<1>3. CASE UNCHANGED <<coins, sends>>
  BY <1>1, <1>2, <1>3, GrowthKeeps DEF CoinInv, CoinShapes, ShownPaymentStands, Ids
<1>4. CASE ~UNCHANGED <<coins, sends>>
  <2> DEFINE hit == {k \in Falls(Spenders(asked[s].ins)) : sends[k].state # "replaced"}
             old == [k \in DOMAIN sends |-> IF k \in hit THEN [sends[k] EXCEPT !.state = "replaced"] ELSE sends[k]]
             e == [ins |-> asked[s].ins, want |-> asked[s].want, change |-> asked[s].change,
                   fee |-> Total(asked[s].ins) - asked[s].want - asked[s].change,
                   index |-> asked[s].index, state |-> "pooled", taken |-> hit \cap asked[s].shown]
             c == [amt |-> asked[s].change, script |-> "p2wpkh", chain |-> 1, index |-> asked[s].index,
                   from |-> Len(sends) + 1]
  <2>1. hit \cap asked[s].shown = {}
    BY <1>1, FallsOutside DEF CoinInv
  <2>2. sends' = Append(old, e) /\ (coins' = coins \/ coins' = Append(coins, c))
    BY <1>4, Zenon DEF BroadcastSpend
  <2>3. e.taken = {} /\ e.ins = asked[s].ins /\ c.from = Len(sends) + 1
    BY <2>1
  <2>4. asked[s].ins \subseteq Ids
    BY <1>1 DEF CoinInv
  <2> HIDE DEF hit, e, c
  <2>5. PICK S : sends \in Seq(S)
    BY DEF CoinInv, CoinShapes
  <2>6. PICK n \in Nat : n = Len(sends) /\ DOMAIN sends = 1 .. n
    BY <2>5
  <2>7. /\ DOMAIN old = 1 .. n
        /\ \A k \in 1 .. n : old[k] = sends[k] \/ old[k] = [sends[k] EXCEPT !.state = "replaced"]
    BY <2>6
  <2>8. \A k \in 1 .. n : /\ old[k].ins = sends[k].ins /\ old[k].taken = sends[k].taken
                          /\ (old[k].state # "replaced" => sends[k].state # "replaced")
    <3>1. ASSUME NEW k \in 1 .. n, NEW x, x = [sends[k] EXCEPT !.state = "replaced"], ~(old[k] = sends[k])
          PROVE  old[k] = x /\ x.ins = sends[k].ins /\ x.taken = sends[k].taken /\ (x.state # "replaced" => sends[k].state # "replaced")
      <4>1. old[k] = x
        BY <2>7, <3>1
      <4>2. k \in hit
        BY <2>6, <3>1
      <4>3. sends[k].state # "replaced"
        BY <4>2 DEF hit
      <4>4. x.ins = sends[k].ins /\ x.taken = sends[k].taken
        BY <3>1
      <4> QED
        BY <4>1, <4>3, <4>4
    <3> QED
      BY <3>1
  <2> DEFINE T == {old[k] : k \in 1 .. n} \cup {e}
  <2>9. old \in Seq(T) /\ Len(old) = n /\ e \in T
    <3>1. old \in [1 .. n -> T] /\ n \in Nat
      BY <2>6
    <3> HIDE DEF old
    <3> QED
      BY <3>1, <2>7
  <2> HIDE DEF old, T
  <2>10. /\ sends' \in Seq(T) /\ DOMAIN sends' = 1 .. n + 1
         /\ \A k \in 1 .. n + 1 : sends'[k] = IF k = n + 1 THEN e ELSE old[k]
    BY <2>2, <2>7, <2>9
  <2>11. PICK U : coins \in Seq(U)
    BY DEF CoinInv, CoinShapes
  <2>12. /\ coins' \in Seq(U \cup {c}) /\ Ids \subseteq Ids' /\ Ids' \subseteq Ids \cup {Len(coins) + 1}
         /\ \A i \in Ids : coins'[i] = coins[i]
         /\ \A i \in Ids' \ Ids : coins'[i] = c
    <3>1. CASE coins' = coins
      <4>1. coins' \in Seq(U \cup {c})
        BY <2>11, <3>1
      <4> QED
        BY <3>1, <4>1 DEF Ids
    <3>2. CASE coins' = Append(coins, c)
      <4>1. PICK m \in Nat : m = Len(coins) /\ DOMAIN coins = 1 .. m
        BY <2>11
      <4>2. coins \in Seq(U \cup {c})
        BY <2>11
      <4>3. /\ coins' \in Seq(U \cup {c}) /\ DOMAIN coins' = 1 .. m + 1
            /\ \A i \in 1 .. m + 1 : coins'[i] = IF i = m + 1 THEN c ELSE coins[i]
        BY <3>2, <4>1, <4>2
      <4> QED
        BY <4>1, <4>3 DEF Ids
    <3> QED
      BY <2>2, <3>1, <3>2
  <2>13. DOMAIN sends \subseteq DOMAIN sends' /\ n + 1 \in DOMAIN sends'
    BY <2>6, <2>10
  <2>14. \A k \in DOMAIN sends : sends'[k] = old[k]
    BY <2>6, <2>10
  <2>15. \A k \in DOMAIN sends' : k \in DOMAIN sends \/ sends'[k] = e
    BY <2>6, <2>10
  <2>16. \A i \in Ids' : coins'[i].from \in DOMAIN sends' \cup {0}
    <3>1. ASSUME NEW i \in Ids' PROVE coins'[i].from \in DOMAIN sends' \cup {0}
      <4>1. CASE i \in Ids
        BY <2>12, <2>13, <4>1 DEF CoinInv, CoinShapes
      <4>2. CASE i \notin Ids
        BY <2>3, <2>6, <2>12, <2>13, <4>2
      <4> QED
        BY <4>1, <4>2
    <3> QED
      BY <3>1
  <2>17. \A k \in DOMAIN sends' : sends'[k].ins \subseteq Ids' /\ sends'[k].taken = {}
    <3>1. ASSUME NEW k \in DOMAIN sends' PROVE sends'[k].ins \subseteq Ids' /\ sends'[k].taken = {}
      <4>1. CASE k \in DOMAIN sends
        <5>1. sends[k].ins \subseteq Ids /\ sends[k].taken = {}
          BY <4>1 DEF CoinInv, CoinShapes, ShownPaymentStands
        <5> QED
          BY <2>6, <2>8, <2>12, <2>14, <4>1, <5>1
      <4>2. CASE k \notin DOMAIN sends
        BY <2>3, <2>4, <2>12, <2>15, <4>2
      <4> QED
        BY <4>1, <4>2
    <3> QED
      BY <3>1
  <2>18. CoinShapes'
    <3>1. listed' \subseteq Ids'
      BY <1>1, <2>12 DEF CoinInv, CoinShapes
    <3> QED
      BY <1>2, <2>10, <2>12, <2>16, <2>17, <3>1 DEF CoinShapes
  <2>19. \A k \in DOMAIN sends : sends'[k].ins = sends[k].ins
                                   /\ (sends'[k].state # "replaced" => sends[k].state # "replaced")
    BY <2>6, <2>8, <2>14
  <2> QED
    BY <1>1, <1>2, <2>12, <2>13, <2>17, <2>18, <2>19, GrowthKeeps DEF ShownPaymentStands
<1> QED
  BY <1>3, <1>4

LEMMA DepositKeeps == ASSUME CoinInv, NEW a, NEW p, Deposit(a, p) PROVE CoinInv'
<1> DEFINE c == [amt |-> a, script |-> p, chain |-> 0, index |-> 0, from |-> 0]
<1>1. coins' = Append(coins, c) /\ UNCHANGED <<sends, listed, marked, asked, indexed>>
  BY DEF Deposit
<1>2. c.from = 0
  OBVIOUS
<1> HIDE DEF c
<1>3. PICK U : coins \in Seq(U)
  BY DEF CoinInv, CoinShapes
<1>4. PICK m \in Nat : m = Len(coins) /\ DOMAIN coins = 1 .. m
  BY <1>3
<1>5. coins \in Seq(U \cup {c})
  BY <1>3
<1>6. /\ coins' \in Seq(U \cup {c}) /\ DOMAIN coins' = 1 .. m + 1
      /\ \A i \in 1 .. m + 1 : coins'[i] = IF i = m + 1 THEN c ELSE coins[i]
  BY <1>1, <1>4, <1>5
<1>7. Ids \subseteq Ids' /\ (\A i \in Ids : coins'[i] = coins[i]) /\ \A i \in Ids' \ Ids : coins'[i] = c
  BY <1>4, <1>6 DEF Ids
<1>8. \A i \in Ids' : coins'[i].from \in DOMAIN sends' \cup {0}
  BY <1>1, <1>2, <1>7 DEF CoinInv, CoinShapes
<1>9. CoinShapes'
  BY <1>1, <1>6, <1>7, <1>8 DEF CoinInv, CoinShapes
<1>10. DOMAIN asked' = Senders
  BY <1>1 DEF CoinInv, CoinShapes
<1> QED
  BY <1>1, <1>7, <1>9, <1>10, GrowthKeeps DEF CoinInv, ShownPaymentStands

LEMMA ConfirmKeeps == ASSUME CoinInv, NEW k \in DOMAIN sends, Confirm(k) PROVE CoinInv'
<1>1. /\ sends' = [sends EXCEPT ![k].state = "mined"] /\ sends[k].state = "pooled"
      /\ UNCHANGED <<coins, listed, marked, asked, indexed>>
  BY DEF Confirm
<1>2. DOMAIN sends' = DOMAIN sends
  BY <1>1
<1>3. \A i \in DOMAIN sends : sends'[i].ins = sends[i].ins /\ sends'[i].taken = sends[i].taken
                              /\ (sends'[i].state # "replaced" => sends[i].state # "replaced")
  <2>1. \A i \in DOMAIN sends : sends'[i] = sends[i] \/ (i = k /\ sends'[i] = [sends[i] EXCEPT !.state = "mined"])
    BY <1>1
  <2>2. /\ [sends[k] EXCEPT !.state = "mined"].ins = sends[k].ins
        /\ [sends[k] EXCEPT !.state = "mined"].taken = sends[k].taken
    OBVIOUS
  <2> QED
    BY <1>1, <2>1, <2>2
<1>4. PICK S : sends \in Seq(S)
  BY DEF CoinInv, CoinShapes
<1>5. sends' \in Seq(S \cup {sends'[k]})
  <2>1. \A i \in DOMAIN sends : sends'[i] \in S \cup {sends'[k]}
    BY <1>1, <1>4
  <2>2. PICK n \in Nat : DOMAIN sends = 1 .. n
    BY <1>4
  <2>3. sends' = [i \in 1 .. n |-> sends'[i]]
    BY <1>1, <2>2
  <2>4. sends' \in [1 .. n -> S \cup {sends'[k]}]
    BY <2>1, <2>2, <2>3
  <2> QED
    BY <2>2, <2>4
<1>6. CoinShapes'
  BY <1>1, <1>2, <1>3, <1>5 DEF CoinInv, CoinShapes, Ids
<1>7. ShownPaymentStands'
  BY <1>2, <1>3 DEF CoinInv, ShownPaymentStands
<1>8. DOMAIN asked' = Senders /\ Ids' = Ids
  BY <1>1 DEF CoinInv, CoinShapes, Ids
<1> QED
  BY <1>1, <1>2, <1>3, <1>6, <1>7, <1>8, GrowthKeeps

\* The index knows every payment, with those whose coins it spends, and marks or drops
\* their coins.
LEMMA IndexKeeps == ASSUME CoinInv, Index PROVE CoinInv'
<1>1. /\ listed' = {i \in Ids : Alive(i)} /\ marked' = {i \in Ids : Alive(i) /\ Spent(i)}
      /\ indexed' = DOMAIN sends /\ UNCHANGED <<coins, sends, asked>>
  BY DEF Index
<1>2. Closed(DOMAIN sends)
  BY DEF CoinInv, CoinShapes, Closed
<1>3. Apart(DOMAIN sends, listed' \ marked')
  BY <1>1 DEF Apart, Spent, Spenders
<1>4. Closed(indexed)' /\ Apart(indexed, listed \ marked)'
  BY <1>1, <1>2, <1>3 DEF Closed, Apart
<1>5. CoinShapes' /\ ShownPaymentStands'
  BY <1>1 DEF CoinInv, CoinShapes, ShownPaymentStands, Ids
<1> QED
  BY <1>1, <1>4, <1>5 DEF CoinInv, Closed, Apart, Ids

LEMMA CoinsPreserved == CoinInv /\ [CoinNext]_coinVars => CoinInv'
<1> SUFFICES ASSUME CoinInv, [CoinNext]_coinVars PROVE CoinInv'
  OBVIOUS
<1>1. CASE UNCHANGED coinVars
  BY <1>1 DEF coinVars, CoinInv, CoinShapes, Closed, Apart, ShownPaymentStands, Ids
<1> QED
  BY <1>1, BuildKeeps, BroadcastSpendKeeps, DepositKeeps, ConfirmKeeps, IndexKeeps DEF CoinNext

\* A payment the provider's index had caught up with when a call listed its coins is
\* not replaced by that call, directly or with a payment it descends from: for any
\* number of calls, coins and payments.
THEOREM PaymentsStand == CoinSpec => []ShownPaymentStands
<1>1. CoinInit => CoinInv
  <2> SUFFICES ASSUME CoinInit PROVE CoinInv
    OBVIOUS
  <2>1. DOMAIN sends = {} /\ sends \in Seq({}) /\ Ids = {} /\ coins \in Seq({})
    BY DEF CoinInit, Ids
  <2> QED
    BY <2>1 DEF CoinInit, CoinInv, CoinShapes, Closed, Apart, ShownPaymentStands
<1>2. CoinInv => ShownPaymentStands
  BY DEF CoinInv
<1> QED
  BY <1>1, <1>2, CoinsPreserved, PTL DEF CoinSpec

-----------------------------------------------------------------------------
(* TransactionSend. SendStands is about pending transactions and those      *)
(* replaced. StandInv adds what every call under way knows of the node:     *)
(* what it has not broadcast is unknown to it, what it saw pending is known *)
(* to it for good, and is not in the place of the nonce it took (SendOK);   *)
(* two sends hold two transactions (JobsOK).                                *)

\* Transactions the node has known.
Used(h) == IsMined(h) \/ h \in Pending \cup replaced

\* Of a send: what it has not broadcast yet is unknown to the node; what the node
\* showed it is known for good, and was not in the place of the nonce it took.
SendOK(j) ==
    /\ j.pc \in {"nonce", "broadcast"} => ~Used(j.tx)
    /\ j.pc = "broadcast" /\ j.counted =>
         NoTx \notin j.seen /\ (\A h \in j.seen : Used(h)) /\ pool[j.nonce] \notin j.seen

\* Of a sweep: it lies within the chain, and has a page left when it goes for one.
SweepOK(j) ==
    /\ j.pc = "page" => j.pages < MaxPages
    /\ j.pc = "store" => j.page # <<>>

BookTypes ==
    /\ chain \in Seq(Hashes) /\ mined \in 0..(MaxNonce + 1)
    /\ pool \in [Nonces -> Hashes \cup {NoTx}]
    /\ current \in NetIds
    /\ rows \in [Hashes -> [NetIds -> [send : 0..2, sweep : 0..2]]]
    /\ replaced \subseteq Hashes /\ torn \subseteq NetIds

Send(j)  == j \in SendJob /\ SendOK(j)
Sweep(j) == j \in SweepJob /\ SweepOK(j) /\ j.at <= Len(chain)

JobsOK ==
    /\ DOMAIN job = Threads
    /\ \A t \in Threads : job[t] # NoTx => Send(job[t]) \/ Sweep(job[t])
    /\ \A t, u \in Threads : t # u /\ Sends(t) /\ Sends(u) => job[t].tx # job[u].tx

StandInv == BookTypes /\ JobsOK /\ SendStands

-----------------------------------------------------------------------------
(* What a step may do to the node. *)

\* The node forgets nothing, and takes only what no other send is about to broadcast.
LEMMA SendLasts ==
    ASSUME NEW j, SendOK(j),
           \A h : Used(h) => Used(h)',
           j.pc \in {"nonce", "broadcast"} => ~Used(j.tx)',
           pool'[j.nonce] = pool[j.nonce] \/ pool'[j.nonce] = NoTx \/ ~Used(pool'[j.nonce])
    PROVE  SendOK(j)'
BY DEF SendOK

\* The calls as they are, in a node that is as it was.
LEMMA SameNode ==
    ASSUME UNCHANGED <<chain, pool, replaced>>
    PROVE  /\ \A h : Used(h)' <=> Used(h)
           /\ \A j : Send(j)' <=> Send(j)
           /\ \A j : Sweep(j)' <=> Sweep(j)
<1>1. \A h : Used(h)' <=> Used(h)
  BY DEF Used, IsMined, Pending
<1> QED
  BY <1>1 DEF Send, Sweep, SendOK, SweepOK

LEMMA SendTells ==
    /\ \A j \in SendJob : j.call # "sweep"
    /\ \A j \in SweepJob : j.call = "sweep"
BY DEF SendJob, SweepJob

\* One thread's job becomes another, or ends, and the node stays.
LEMMA JobStepKeeps ==
    ASSUME StandInv, NEW t \in Threads, NEW new, job' = [job EXCEPT ![t] = new],
           UNCHANGED <<chain, pool, mined, replaced, displaced>>, BookTypes',
           \/ new = NoTx
           \/ Sweep(new)
           \/ Send(new) /\ \A u \in Threads \ {t} : Sends(u) => job[u].tx # new.tx
    PROVE  StandInv'
<1>1. DOMAIN job' = Threads /\ job'[t] = new /\ \A u \in Threads \ {t} : job'[u] = job[u]
  BY DEF StandInv, JobsOK
<1>2. \A u \in Threads : \A j : j = job'[u] /\ j # NoTx => Send(j) \/ Sweep(j)
  BY <1>1 DEF StandInv, JobsOK
<1>3. \A u \in Threads : \A j : j = job'[u] /\ j # NoTx => Send(j)' \/ Sweep(j)'
  BY <1>2, SameNode
<1>4. ASSUME NEW u \in Threads, NEW v \in Threads, u # v, Sends(u)', Sends(v)' PROVE job'[u].tx # job'[v].tx
  <2>1. \A w \in Threads \ {t} : Sends(w)' => Sends(w)
    BY <1>1 DEF Sends
  <2>2. \A w \in Threads \ {t} : Sends(t)' /\ Sends(w) => job[w].tx # new.tx
    BY <1>1, SendTells DEF Sends, Sweep
  <2> QED
    BY <1>1, <1>4, <2>1, <2>2 DEF StandInv, JobsOK
<1> QED
  BY <1>1, <1>3, <1>4 DEF StandInv, JobsOK, SendStands

LEMMA FinishKeeps ==
    ASSUME StandInv, NEW t \in Threads, Finish(t),
           UNCHANGED <<chain, pool, mined, replaced, displaced>>, BookTypes'
    PROVE  StandInv'
BY JobStepKeeps DEF Finish

LEMMA SameBook ==
    ASSUME BookTypes, UNCHANGED <<chain, pool, mined, current, rows, replaced>>, torn' \subseteq NetIds
    PROVE  BookTypes'
BY DEF BookTypes

-----------------------------------------------------------------------------
(* The node moves. *)

\* A transaction of nobody's send enters, or one moves within the node.
LEMMA NodeMoves ==
    ASSUME StandInv, UNCHANGED <<job, displaced>>, BookTypes', Len(chain) <= Len(chain'),
           \A h : Used(h) => Used(h)',
           \A t \in Threads : Sends(t) /\ job[t].pc \in {"nonce", "broadcast"} => ~Used(job[t].tx)',
           \A n \in Nonces : pool'[n] = pool[n] \/ pool'[n] = NoTx
    PROVE  StandInv'
<1>1. ASSUME NEW t \in Threads, NEW j, j = job'[t], j # NoTx PROVE Send(j)' \/ Sweep(j)'
  <2>1. j = job[t] /\ (Send(j) \/ Sweep(j))
    BY <1>1 DEF StandInv, JobsOK
  <2>2. CASE Sweep(j)
    <3>1. j.at \in Nat /\ Len(chain) \in Nat /\ Len(chain') \in Nat /\ j.at <= Len(chain)
      BY <2>2 DEF Sweep, SweepJob, StandInv, BookTypes
    <3>2. j.at <= Len(chain')
      BY <3>1
    <3> QED
      BY <2>2, <3>2 DEF Sweep, SweepOK
  <2>3. CASE Send(j)
    <3>1. j \in SendJob /\ SendOK(j) /\ j.nonce \in Nonces
      BY <2>3 DEF Send, SendJob
    <3>2. j.pc \in {"nonce", "broadcast"} => ~Used(j.tx)'
      BY <1>1, <2>1, <3>1, SendTells DEF Sends
    <3>3. SendOK(j)'
      BY <3>1, <3>2, SendLasts
    <3> QED
      BY <3>1, <3>3 DEF Send
  <2> QED
    BY <2>1, <2>2, <2>3
<1>2. \A t, u \in Threads : t # u /\ Sends(t)' /\ Sends(u)' => job'[t].tx # job'[u].tx
  BY DEF StandInv, JobsOK, Sends
<1> QED
  BY <1>1, <1>2 DEF StandInv, JobsOK, SendStands

LEMMA AppendIs ==
    ASSUME chain \in Seq(Hashes), NEW h \in Hashes
    PROVE  LET c == Append(chain, h) IN
           /\ c \in Seq(Hashes) /\ Len(c) = Len(chain) + 1 /\ Len(chain) \in Nat
           /\ \A x : (\E i \in DOMAIN c : c[i] = x) <=> (\E i \in DOMAIN chain : chain[i] = x) \/ x = h
<1> DEFINE c == Append(chain, h)
<1>1. /\ c \in Seq(Hashes) /\ Len(c) = Len(chain) + 1 /\ Len(chain) \in Nat
      /\ DOMAIN c = 1 .. Len(chain) + 1 /\ DOMAIN chain = 1 .. Len(chain)
      /\ \A i \in DOMAIN chain : c[i] = chain[i]
      /\ c[Len(chain) + 1] = h /\ Len(chain) + 1 \in 1 .. Len(chain) + 1
  OBVIOUS
<1>2. \A i \in 1 .. Len(chain) + 1 : i \in 1 .. Len(chain) \/ i = Len(chain) + 1
  BY <1>1
<1>3. \A i \in 1 .. Len(chain) : i \in 1 .. Len(chain) + 1
  BY <1>1
<1> HIDE DEF c
<1>4. \A x : (\E i \in DOMAIN c : c[i] = x) <=> (\E i \in DOMAIN chain : chain[i] = x) \/ x = h
  BY <1>1, <1>2, <1>3
<1> QED
  BY <1>1, <1>4 DEF c

LEMMA MineKeeps == ASSUME StandInv, Mine PROVE StandInv'
<1> DEFINE h == pool[mined]
<1>0. BookTypes
  BY DEF StandInv
<1>1. /\ mined \in Nonces /\ h \in Hashes /\ h # NoTx /\ pool' = [pool EXCEPT ![mined] = NoTx]
      /\ chain' = Append(chain, h) /\ mined' = mined + 1
      /\ UNCHANGED <<current, rows, job, replaced, displaced, torn>>
  BY <1>0 DEF Mine, BookTypes
<1>2. /\ chain' \in Seq(Hashes) /\ Len(chain') = Len(chain) + 1 /\ Len(chain) \in Nat
      /\ \A x : IsMined(x)' <=> IsMined(x) \/ x = h
  BY <1>0, <1>1, AppendIs DEF BookTypes, IsMined
<1>3. BookTypes'
  BY <1>0, <1>1, <1>2, PageAssumption DEF BookTypes, Nonces
<1>4. \A n \in Nonces : pool'[n] = IF n = mined THEN NoTx ELSE pool[n]
  BY <1>0, <1>1 DEF BookTypes
<1>5. \A x : Used(x)' <=> Used(x)
  <2>1. h \in Pending
    BY <1>1 DEF Pending
  <2>2. \A x : x \in Pending' => x \in Pending
    BY <1>4 DEF Pending
  <2>3. \A x : x \in Pending => x \in Pending' \/ x = h
    BY <1>4 DEF Pending
  <2> HIDE DEF h
  <2> QED
    BY <1>1, <1>2, <2>1, <2>2, <2>3 DEF Used
<1>6. \A t \in Threads : Sends(t) /\ job[t].pc \in {"nonce", "broadcast"} => ~Used(job[t].tx)
  BY SendTells DEF StandInv, JobsOK, Sends, Send, Sweep, SendOK
<1> HIDE DEF h
<1> QED
  BY <1>1, <1>2, <1>3, <1>4, <1>5, <1>6, NodeMoves

LEMMA IncomingKeeps == ASSUME StandInv, NEW h \in Hashes, Incoming(h) PROVE StandInv'
<1>0. BookTypes
  BY DEF StandInv
<1>1. /\ chain' = Append(chain, h) /\ Unused(h)
      /\ UNCHANGED <<pool, mined, current, rows, job, replaced, displaced, torn>>
  BY DEF Incoming
<1>2. /\ chain' \in Seq(Hashes) /\ Len(chain') = Len(chain) + 1 /\ Len(chain) \in Nat
      /\ \A x : IsMined(x)' <=> IsMined(x) \/ x = h
  BY <1>0, <1>1, AppendIs DEF BookTypes, IsMined
<1>3. BookTypes'
  BY <1>0, <1>1, <1>2 DEF BookTypes
<1>4. \A x : Used(x)' <=> Used(x) \/ x = h
  BY <1>1, <1>2 DEF Used, Pending
<1>5. \A t \in Threads : Sends(t) /\ job[t].pc \in {"nonce", "broadcast"} => ~Used(job[t].tx)
  BY SendTells DEF StandInv, JobsOK, Sends, Send, Sweep, SendOK
<1>6. \A t \in Threads : Sends(t) => job[t].tx # h
  BY <1>1 DEF Unused
<1> QED
  BY <1>1, <1>2, <1>3, <1>4, <1>5, <1>6, NodeMoves

-----------------------------------------------------------------------------
(* A send. *)

LEMMA BeginSendKeeps ==
    ASSUME StandInv, NEW t \in Threads, NEW c \in {"send", "rawSend"}, NEW h \in Hashes, NEW named \in BOOLEAN,
           NEW given \in BOOLEAN, NEW n \in Nonces, BeginSend(t, c, h, named, given, n)
    PROVE  StandInv'
<1> DEFINE pinned == given /\ (n > 0 \/ c = "rawSend")
           new == [call |-> c, pc |-> IF pinned THEN "broadcast" ELSE "nonce",
                   net |-> IF named THEN "net" ELSE current,
                   tx |-> h, nonce |-> IF pinned THEN n ELSE 0, counted |-> ~pinned, seen |-> {}]
<1>1. /\ job' = [job EXCEPT ![t] = new] /\ Unused(h)
      /\ UNCHANGED <<chain, pool, mined, current, rows, replaced, displaced, torn>>
  BY DEF BeginSend
<1>2. BookTypes'
  BY <1>1, SameBook DEF StandInv, BookTypes
<1>a. PICK open \in BOOLEAN, net \in NetIds, pc \in {"nonce", "broadcast"}, k \in Nonces :
          /\ open = ~pinned /\ net = (IF named THEN "net" ELSE current)
          /\ pc = (IF pinned THEN "broadcast" ELSE "nonce") /\ k = (IF pinned THEN n ELSE 0)
  <2>a. (~pinned) \in BOOLEAN
    OBVIOUS
  <2>b. 0 \in Nonces
    BY PageAssumption DEF Nonces
  <2> HIDE DEF pinned
  <2>1. (IF named THEN "net" ELSE current) \in NetIds
        /\ (IF pinned THEN "broadcast" ELSE "nonce") \in {"nonce", "broadcast"}
        /\ (IF pinned THEN n ELSE 0) \in Nonces
    BY <2>b DEF NetIds, StandInv, BookTypes
  <2> QED
    BY <2>a, <2>1, Zenon
<1>b. [call |-> c, pc |-> pc, net |-> net, tx |-> h, nonce |-> k, counted |-> open, seen |-> {}] \in SendJob
  BY DEF SendJob
<1>3. new \in SendJob
  BY <1>a, <1>b
<1>4. ~Used(h)
  BY <1>1 DEF Unused, Used
<1>5. Send(new)
  BY <1>3, <1>4 DEF Send, SendOK
<1>6. \A u \in Threads : Sends(u) => job[u].tx # new.tx
  BY <1>1 DEF Unused
<1> HIDE DEF new, pinned
<1> QED
  BY <1>1, <1>2, <1>5, <1>6, JobStepKeeps

\* PendingCount is a nonce whose place is free, unless every one is taken.
LEMMA CountIsFree ==
    ASSUME BookTypes, PendingCount <= MaxNonce
    PROVE  PendingCount \in Nonces /\ pool[PendingCount] = NoTx
<1>0. mined \in Nat /\ MaxNonce \in Nat
  BY PageAssumption DEF BookTypes
<1> DEFINE S == {n \in Nonces : n >= mined /\ pool[n] = NoTx}
<1>1. S # {}
  <2>1. ~(\A n \in Nonces : n < mined \/ pool[n] # NoTx)
    BY <1>0 DEF PendingCount
  <2>2. PICK n \in Nonces : ~(n < mined) /\ pool[n] = NoTx
    BY <2>1
  <2>3. n >= mined
    BY <1>0, <2>2 DEF Nonces
  <2> QED
    BY <2>2, <2>3
<1>2. S \in SUBSET Nat
  BY DEF Nonces
<1>3. PICK n \in S : \A k \in S : n <= k
  BY <1>1, <1>2, SmallestExists
<1>4. \A k \in mined..(n - 1) : pool[k] # NoTx
  <2> SUFFICES ASSUME NEW k \in mined..(n - 1), pool[k] = NoTx PROVE FALSE
    OBVIOUS
  <2>1. n \in Nat /\ n <= MaxNonce /\ n >= mined
    BY DEF Nonces
  <2>2. k \in Nat /\ k >= mined /\ k < n
    BY <1>0, <2>1
  <2>3. k \in Nonces
    BY <1>0, <2>1, <2>2 DEF Nonces
  <2>4. n <= k
    BY <1>3, <2>2, <2>3
  <2> QED
    BY <2>1, <2>2, <2>4
<1>5. \E m \in Nonces : m >= mined /\ pool[m] = NoTx /\ \A k \in mined..(m - 1) : pool[k] # NoTx
  BY <1>3, <1>4
<1>6. PendingCount = CHOOSE m \in Nonces : /\ m >= mined /\ pool[m] = NoTx
                                           /\ \A k \in mined..(m - 1) : pool[k] # NoTx
  <2>1. ~(\A m \in Nonces : m < mined \/ pool[m] # NoTx)
    BY <1>0 DEF PendingCount
  <2> QED
    BY <2>1 DEF PendingCount
<1> QED
  BY <1>5, <1>6

LEMMA ReadNonceKeeps == ASSUME StandInv, NEW t \in Threads, ReadNonce(t) PROVE StandInv'
<1> DEFINE j == job[t]
<1>1. /\ j # NoTx /\ j.pc = "nonce"
      /\ UNCHANGED <<chain, pool, mined, current, rows, replaced, displaced, torn>>
  BY DEF ReadNonce, At
<1>2. BookTypes'
  BY <1>1, SameBook DEF StandInv, BookTypes
<1>3. Send(j)
  BY <1>1 DEF StandInv, JobsOK, Sweep, SweepJob
<1>4. ASSUME NEW new, job' = [job EXCEPT ![t] = new], new.tx = j.tx, Send(new)
      PROVE  StandInv'
  <2>1. \A u \in Threads \ {t} : Sends(u) => job[u].tx # new.tx
    BY <1>1, <1>3, <1>4, SendTells DEF StandInv, JobsOK, Sends, Send
  <2> QED
    BY <1>1, <1>2, <1>4, <2>1, JobStepKeeps
<1>5. CASE /\ PendingCount <= MaxNonce
           /\ job' = [job EXCEPT ![t].nonce = PendingCount, ![t].seen = Pending, ![t].pc = "broadcast"]
  <2> DEFINE new == [j EXCEPT !.nonce = PendingCount, !.seen = Pending, !.pc = "broadcast"]
  <2>0. job' = [job EXCEPT ![t] = new]
    BY <1>5
  <2>1. PendingCount \in Nonces /\ pool[PendingCount] = NoTx
    BY <1>5, CountIsFree DEF StandInv
  <2>2. Pending \subseteq Hashes /\ NoTx \notin Pending /\ \A h \in Pending : Used(h)
    BY DEF Pending, StandInv, BookTypes, Used
  <2>3. /\ new \in SendJob /\ new.nonce = PendingCount /\ new.seen = Pending /\ new.pc = "broadcast"
        /\ new.tx = j.tx
    BY <1>3, <2>1, <2>2 DEF Send, SendJob
  <2>4. Send(new)
    BY <1>1, <1>3, <2>1, <2>2, <2>3 DEF Send, SendOK
  <2> HIDE DEF new
  <2> QED
    BY <1>4, <2>0, <2>3, <2>4
<1>6. CASE job' = [job EXCEPT ![t].nonce = 0, ![t].counted = FALSE, ![t].pc = "broadcast"]
  <2> DEFINE new == [j EXCEPT !.nonce = 0, !.counted = FALSE, !.pc = "broadcast"]
  <2>0. job' = [job EXCEPT ![t] = new]
    BY <1>6
  <2>1. 0 \in Nonces
    BY PageAssumption DEF Nonces
  <2>2. new \in SendJob /\ ~new.counted /\ new.pc = "broadcast" /\ new.tx = j.tx
    BY <1>3, <2>1 DEF Send, SendJob
  <2>3. Send(new)
    BY <1>1, <1>3, <2>2 DEF Send, SendOK
  <2> HIDE DEF new
  <2> QED
    BY <1>4, <2>0, <2>2, <2>3
<1> QED
  BY <1>5, <1>6 DEF ReadNonce

LEMMA BroadcastKeeps == ASSUME StandInv, NEW t \in Threads, Broadcast(t) PROVE StandInv'
<1> DEFINE j == job[t]
           held == pool[j.nonce]
<1>0. BookTypes
  BY DEF StandInv
<1>1. j # NoTx /\ j.pc = "broadcast" /\ UNCHANGED <<chain, mined, current, rows, torn>>
  BY DEF Broadcast, At
<1>2. Send(j) /\ SendOK(j) /\ j \in SendJob /\ Sends(t)
  BY <1>1, SendTells DEF StandInv, JobsOK, Sweep, SweepJob, Send, Sends
<1>3. CASE Finish(t) /\ UNCHANGED <<pool, replaced, displaced>>
  <2>1. torn' \subseteq NetIds
    BY <1>0, <1>1 DEF BookTypes
  <2>2. BookTypes'
    BY <1>0, <1>1, <1>3, <2>1, SameBook
  <2> QED
    BY <1>1, <1>3, <2>2, FinishKeeps
<1>4. CASE /\ pool' = [pool EXCEPT ![j.nonce] = j.tx]
           /\ replaced' = replaced \cup ({held} \ {NoTx})
           /\ displaced' = IF held \in j.seen /\ j.counted THEN displaced \cup {held} ELSE displaced
           /\ \/ job' = [job EXCEPT ![t].pc = "record"]
              \/ Finish(t)
  <2>a. j.nonce \in Nonces /\ j.tx \in Hashes /\ held \in Hashes \cup {NoTx} /\ j.counted \in BOOLEAN
    BY <1>0, <1>2 DEF SendJob, BookTypes
  <2>1. \A n \in Nonces : pool'[n] = IF n = j.nonce THEN j.tx ELSE pool[n]
    BY <1>0, <1>4 DEF BookTypes
  <2>2. displaced' = displaced
    BY <1>1, <1>2, <1>4 DEF SendOK
  <2>3. BookTypes'
    BY <1>0, <1>1, <1>4, <2>a DEF BookTypes
  <2>4. ~Used(j.tx)
    BY <1>1, <1>2 DEF SendOK
  <2>5. \A x : IsMined(x)' <=> IsMined(x)
    BY <1>1 DEF IsMined
  <2>6. \A x : Used(x) => Used(x)'
    <3>1. \A x : x \in Pending => x \in Pending' \/ x = held
      BY <2>1 DEF Pending
    <3>2. NoTx \notin Pending
      BY DEF Pending
    <3>3. held \in replaced' \/ held = NoTx
      BY <1>4
    <3> HIDE DEF held, j
    <3> QED
      BY <1>4, <2>5, <3>1, <3>2, <3>3 DEF Used
  <2>7. \A x : Used(x)' => Used(x) \/ x = j.tx
    <3>1. \A x : x \in Pending' => x \in Pending \/ x = j.tx
      BY <2>1 DEF Pending
    <3>2. held # NoTx => held \in Pending
      BY <2>a DEF Pending
    <3> HIDE DEF held, j
    <3> QED
      BY <1>4, <2>5, <3>1, <3>2 DEF Used
  <2>8. PICK new : /\ job' = [job EXCEPT ![t] = new]
                   /\ new = NoTx \/ (new \in SendJob /\ new.pc = "record" /\ new.tx = j.tx)
    <3>1. [j EXCEPT !.pc = "record"] \in SendJob /\ [j EXCEPT !.pc = "record"].pc = "record"
          /\ [j EXCEPT !.pc = "record"].tx = j.tx
      BY <1>2 DEF SendJob
    <3> QED
      BY <1>4, <3>1 DEF Finish
  <2>9. DOMAIN job' = Threads /\ job'[t] = new /\ \A u \in Threads \ {t} : job'[u] = job[u]
    BY <2>8 DEF StandInv, JobsOK
  <2>10. new = NoTx \/ Send(new)'
    BY <2>8 DEF Send, SendOK
  <2>11. ASSUME NEW u \in Threads \ {t}, NEW i, i = job'[u], i # NoTx PROVE Send(i)' \/ Sweep(i)'
    <3>1. i = job[u] /\ (Send(i) \/ Sweep(i))
      BY <2>9, <2>11 DEF StandInv, JobsOK
    <3>2. CASE Sweep(i)
      BY <1>1, <3>2 DEF Sweep, SweepOK
    <3>3. CASE Send(i)
      <4>1. i \in SendJob /\ SendOK(i) /\ i.nonce \in Nonces
        BY <3>3 DEF Send, SendJob
      <4>2. i.tx # j.tx
        BY <1>2, <2>11, <3>1, <4>1, SendTells DEF StandInv, JobsOK, Sends
      <4>3. i.pc \in {"nonce", "broadcast"} => ~Used(i.tx)'
        BY <2>7, <4>1, <4>2 DEF SendOK
      <4>4. pool'[i.nonce] = pool[i.nonce] \/ ~Used(pool'[i.nonce])
        BY <2>1, <2>4, <4>1
      <4>5. SendOK(i)'
        BY <2>6, <4>1, <4>3, <4>4, SendLasts
      <4> QED
        BY <4>1, <4>5 DEF Send
    <3> QED
      BY <3>1, <3>2, <3>3
  <2>12. \A u, v \in Threads : u # v /\ Sends(u)' /\ Sends(v)' => job'[u].tx # job'[v].tx
    <3>1. \A u \in Threads \ {t} : Sends(u)' => Sends(u) /\ job[u].tx # j.tx
      BY <1>2, <2>9 DEF StandInv, JobsOK, Sends
    <3>2. Sends(t)' => job'[t].tx = j.tx
      BY <2>8, <2>9 DEF Sends
    <3> QED
      BY <2>9, <3>1, <3>2 DEF StandInv, JobsOK
  <2>13. JobsOK'
    <3>1. \A u \in Threads : \A i : i = job'[u] /\ i # NoTx => Send(i)' \/ Sweep(i)'
      BY <2>9, <2>10, <2>11
    <3> QED
      BY <2>9, <2>12, <3>1 DEF JobsOK
  <2> QED
    BY <2>2, <2>3, <2>13 DEF StandInv, SendStands
<1> QED
  BY <1>3, <1>4 DEF Broadcast

LEMMA RowsTyped ==
    ASSUME BookTypes, NEW h \in Hashes, NEW n \in NetIds
    PROVE  /\ [rows EXCEPT ![h][n].send = Twice(@)] \in [Hashes -> [NetIds -> [send : 0..2, sweep : 0..2]]]
           /\ [rows EXCEPT ![h][n].sweep = Twice(@)] \in [Hashes -> [NetIds -> [send : 0..2, sweep : 0..2]]]
           /\ [rows EXCEPT ![h][n] = [send |-> 0, sweep |-> 0]] \in [Hashes -> [NetIds -> [send : 0..2, sweep : 0..2]]]
<1>1. rows[h] \in [NetIds -> [send : 0..2, sweep : 0..2]] /\ rows[h][n] \in [send : 0..2, sweep : 0..2]
  BY DEF BookTypes
<1>2. \A k \in 0..2 : Twice(k) \in 0..2
  BY DEF Twice
<1>3. [rows[h][n] EXCEPT !.send = Twice(@)] \in [send : 0..2, sweep : 0..2]
  BY <1>1, <1>2
<1>4. [rows[h][n] EXCEPT !.sweep = Twice(@)] \in [send : 0..2, sweep : 0..2]
  BY <1>1, <1>2
<1>5. [send |-> 0, sweep |-> 0] \in [send : 0..2, sweep : 0..2]
  OBVIOUS
<1> QED
  BY <1>1, <1>3, <1>4, <1>5 DEF BookTypes

LEMMA RecordKeeps == ASSUME StandInv, NEW t \in Threads, Record(t) PROVE StandInv'
<1> DEFINE j == job[t]
<1>1. /\ j # NoTx /\ j.pc = "record" /\ rows' = [rows EXCEPT ![j.tx][j.net].send = Twice(@)] /\ Finish(t)
      /\ UNCHANGED <<chain, pool, mined, current, replaced, displaced, torn>>
  BY DEF Record, At
<1>2. j.tx \in Hashes /\ j.net \in NetIds
  BY <1>1 DEF StandInv, JobsOK, Send, Sweep, SendJob, SweepJob
<1>3. BookTypes'
  BY <1>1, <1>2, RowsTyped DEF StandInv, BookTypes
<1> QED
  BY <1>1, <1>3, FinishKeeps

-----------------------------------------------------------------------------
(* A sweep. *)

LEMMA BeginSweepKeeps == ASSUME StandInv, NEW t \in Threads, BeginSweep(t) PROVE StandInv'
<1> DEFINE new == [call |-> "sweep", pc |-> "page", net |-> current,
                   at |-> Len(chain), page |-> <<>>, known |-> FALSE, pages |-> 0]
<1>1. /\ job' = [job EXCEPT ![t] = new] /\ UNCHANGED <<chain, pool, mined, current, rows, replaced, displaced>>
      /\ torn' \subseteq NetIds
  BY DEF BeginSweep, StandInv, BookTypes
<1>2. BookTypes'
  BY <1>1, SameBook DEF StandInv
<1>3. Len(chain) \in Nat /\ current \in NetIds /\ <<>> \in Seq(Hashes) /\ 0 \in 0..MaxPages /\ 0 < MaxPages
  BY PageAssumption DEF StandInv, BookTypes
<1>4. Sweep(new)
  BY <1>3 DEF Sweep, SweepJob, SweepOK
<1> HIDE DEF new
<1> QED
  BY <1>1, <1>2, <1>4, JobStepKeeps

LEMMA PageIs ==
    ASSUME BookTypes, NEW p \in Nat, p <= Len(chain)
    PROVE  PageFrom(p) \in Seq(Hashes) /\ Len(PageFrom(p)) \in 0..p
<1> DEFINE n == IF p < PageSize THEN p ELSE PageSize
<1>1. n \in Nat /\ n <= p /\ Len(chain) \in Nat /\ chain \in Seq(Hashes) /\ PageFrom(p) = [i \in 1..n |-> chain[p + 1 - i]]
  BY PageAssumption DEF PageFrom, BookTypes
<1> HIDE DEF n
<1>2. \A i \in 1..n : p + 1 - i \in 1..Len(chain)
  BY <1>1
<1>3. \A i \in 1..n : chain[p + 1 - i] \in Hashes
  BY <1>1, <1>2
<1> QED
  BY <1>1, <1>3

LEMMA SweepIs ==
    ASSUME StandInv, NEW t \in Threads, job[t] # NoTx, job[t].pc \in {"page", "look", "store"}
    PROVE  Sweep(job[t]) /\ job[t] \in SweepJob
BY DEF StandInv, JobsOK, Send, SendJob, Sweep

LEMMA FetchPageKeeps == ASSUME StandInv, NEW t \in Threads, FetchPage(t) PROVE StandInv'
<1> DEFINE j == job[t]
           p == IF j.pages = 0 THEN Len(chain) ELSE j.at
           new == [j EXCEPT !.page = PageFrom(p), !.at = p - Len(PageFrom(p)), !.pages = j.pages + 1,
                            !.known = FALSE, !.pc = "look"]
<1>1. j # NoTx /\ j.pc = "page" /\ UNCHANGED <<chain, pool, mined, current, rows, replaced, displaced, torn>>
  BY DEF FetchPage, At
<1>2. BookTypes'
  BY <1>1, SameBook DEF StandInv, BookTypes
<1>3. CASE p = 0
  BY <1>1, <1>2, <1>3, FinishKeeps DEF FetchPage
<1>4. CASE p # 0
  <2>1. job' = [job EXCEPT ![t] = new]
    BY <1>4 DEF FetchPage
  <2>2. Sweep(j) /\ j \in SweepJob /\ j.at \in Nat /\ j.at <= Len(chain) /\ j.pages < MaxPages
        /\ Len(chain) \in Nat /\ j.pages \in 0..MaxPages
    BY <1>1, SweepIs DEF Sweep, SweepJob, SweepOK, StandInv, BookTypes
  <2>3. p \in Nat /\ p <= Len(chain)
    BY <2>2
  <2> HIDE DEF p
  <2>4. PageFrom(p) \in Seq(Hashes) /\ Len(PageFrom(p)) \in 0..p
    BY <2>3, PageIs DEF StandInv
  <2>5. /\ p - Len(PageFrom(p)) \in Nat /\ p - Len(PageFrom(p)) <= Len(chain)
    BY <2>2, <2>3, <2>4
  <2>6. j.pages + 1 \in 0..MaxPages
    BY <2>2, PageAssumption
  <2>7. new \in SweepJob /\ new.pc = "look" /\ new.at = p - Len(PageFrom(p))
    BY <2>2, <2>4, <2>5, <2>6 DEF SweepJob
  <2>8. Sweep(new)
    BY <2>5, <2>7 DEF Sweep, SweepOK
  <2> HIDE DEF new
  <2> QED
    BY <1>1, <1>2, <2>1, <2>8, JobStepKeeps
<1> QED
  BY <1>3, <1>4

\* A sweep goes on where it is.
LEMMA SweepGoesOn ==
    ASSUME NEW j \in SweepJob, Sweep(j), NEW pc \in {"page", "look", "store"}, NEW page \in Seq(Hashes), NEW known \in BOOLEAN,
           pc = "page" => j.pages < MaxPages, pc = "store" => page # <<>>
    PROVE  /\ Sweep([j EXCEPT !.pc = pc, !.page = page, !.known = known])
           /\ Sweep([j EXCEPT !.pc = pc, !.page = page])
           /\ Sweep([j EXCEPT !.known = known, !.page = page]) \/ j.pc = "store"
           /\ Sweep([j EXCEPT !.pc = pc]) \/ (pc = "store" /\ j.page = <<>>)
BY DEF Sweep, SweepJob, SweepOK

LEMMA LookUpKeeps == ASSUME StandInv, NEW t \in Threads, LookUp(t) PROVE StandInv'
<1> DEFINE j == job[t]
<1>1. /\ j # NoTx /\ j.pc = "look" /\ j.page # <<>>
      /\ UNCHANGED <<chain, pool, mined, current, rows, replaced, displaced, torn>>
  BY DEF LookUp, At
<1>2. BookTypes'
  BY <1>1, SameBook DEF StandInv, BookTypes
<1>3. Sweep(j) /\ j \in SweepJob /\ Tail(j.page) \in Seq(Hashes)
  BY <1>1, SweepIs DEF SweepJob
<1>4. Sweep([j EXCEPT !.known = TRUE, !.page = Tail(j.page)])
  BY <1>1, <1>3, SweepGoesOn
<1>5. Sweep([j EXCEPT !.pc = "store"])
  BY <1>1, <1>3 DEF Sweep, SweepJob, SweepOK
<1>6. PICK new : job' = [job EXCEPT ![t] = new] /\ Sweep(new)
  BY <1>4, <1>5 DEF LookUp
<1> QED
  BY <1>1, <1>2, <1>6, JobStepKeeps

LEMMA StoreKeeps == ASSUME StandInv, NEW t \in Threads, Store(t) PROVE StandInv'
<1> DEFINE j == job[t]
<1>1. /\ j # NoTx /\ j.pc = "store" /\ job' = [job EXCEPT ![t] = [j EXCEPT !.pc = "look", !.page = Tail(j.page)]]
      /\ UNCHANGED <<chain, pool, mined, current, replaced, displaced>>
  BY DEF Store, At
<1>2. Sweep(j) /\ j \in SweepJob /\ j.page # <<>>
  BY <1>1, SweepIs DEF Sweep, SweepOK
<1>3. Tail(j.page) \in Seq(Hashes) /\ Head(j.page) \in Hashes /\ j.net \in NetIds
  BY <1>2 DEF SweepJob
<1>4. BookTypes'
  <2>1. \/ rows' = [rows EXCEPT ![Head(j.page)][j.net].sweep = Twice(@)] /\ torn' = torn
        \/ rows' = rows /\ torn' = torn \cup {j.net}
    BY DEF Store
  <2>2. BookTypes
    BY DEF StandInv
  <2>3. rows' \in [Hashes -> [NetIds -> [send : 0..2, sweep : 0..2]]]
    <3>1. CASE rows' = rows
      BY <2>2, <3>1 DEF BookTypes
    <3>2. CASE rows' = [rows EXCEPT ![Head(j.page)][j.net].sweep = Twice(@)]
      <4>1. PICK h \in Hashes, n \in NetIds : h = Head(j.page) /\ n = j.net
        BY <1>3
      <4>2. rows' = [rows EXCEPT ![h][n].sweep = Twice(@)]
        BY <3>2, <4>1
      <4> QED
        BY <2>2, <4>2, RowsTyped
    <3> QED
      BY <2>1, <3>1, <3>2
  <2> HIDE DEF j
  <2> QED
    BY <1>1, <1>3, <2>1, <2>2, <2>3 DEF BookTypes
<1> DEFINE new == [j EXCEPT !.pc = "look", !.page = Tail(j.page)]
<1>5. Sweep(new)
  BY <1>2, <1>3 DEF Sweep, SweepJob, SweepOK
<1> HIDE DEF new
<1> QED
  BY <1>1, <1>4, <1>5, JobStepKeeps DEF new

LEMMA NextPageKeeps == ASSUME StandInv, NEW t \in Threads, NextPage(t) PROVE StandInv'
<1> DEFINE j == job[t]
           new == [j EXCEPT !.pc = "page"]
<1>1. /\ j # NoTx /\ j.pc = "look" /\ UNCHANGED <<chain, pool, mined, current, rows, replaced, displaced>>
  BY DEF NextPage, At
<1>2. Sweep(j) /\ j \in SweepJob /\ j.net \in NetIds /\ j.pages \in 0..MaxPages
  BY <1>1, SweepIs DEF SweepJob
<1>3. torn' = torn \/ torn' = torn \cup {j.net}
  BY DEF NextPage
<1>4. BookTypes'
  BY <1>1, <1>2, <1>3, SameBook DEF StandInv, BookTypes
<1>5. CASE Finish(t)
  BY <1>1, <1>4, <1>5, FinishKeeps
<1>6. CASE ~Finish(t)
  <2>1. job' = [job EXCEPT ![t] = new] /\ j.pages # MaxPages
    BY <1>6 DEF NextPage
  <2>2. j.pages < MaxPages
    BY <1>2, <2>1, PageAssumption
  <2>3. Sweep(new)
    BY <1>2, <2>2 DEF Sweep, SweepJob, SweepOK
  <2> HIDE DEF new
  <2> QED
    BY <1>1, <1>4, <2>1, <2>3, JobStepKeeps
<1> QED
  BY <1>5, <1>6

-----------------------------------------------------------------------------

LEMMA JobFailsKeeps == ASSUME StandInv, NEW t \in Threads, JobFails(t) PROVE StandInv'
<1>1. /\ Finish(t) /\ job[t] # NoTx /\ torn' = IF Sweeps(t) THEN torn \cup {job[t].net} ELSE torn
      /\ UNCHANGED <<chain, pool, mined, current, rows, replaced, displaced>>
  BY DEF JobFails
<1>2. job[t].net \in NetIds
  BY <1>1 DEF StandInv, JobsOK, Send, Sweep, SendJob, SweepJob
<1>3. BookTypes'
  BY <1>1, <1>2, SameBook DEF StandInv, BookTypes
<1> QED
  BY <1>1, <1>3, FinishKeeps

LEMMA StandPreserved == StandInv /\ [BookNext]_bookVars => StandInv'
<1> SUFFICES ASSUME StandInv, [BookNext]_bookVars PROVE StandInv'
  OBVIOUS
<1>1. ASSUME UNCHANGED <<chain, pool, replaced, displaced, job>>, BookTypes' PROVE StandInv'
  <2>1. \A t \in Threads : \A j : j = job'[t] /\ j # NoTx => Send(j)' \/ Sweep(j)'
    BY <1>1, SameNode DEF StandInv, JobsOK
  <2>2. \A t, u \in Threads : t # u /\ Sends(t)' /\ Sends(u)' => job'[t].tx # job'[u].tx
    BY <1>1 DEF StandInv, JobsOK, Sends
  <2> QED
    BY <1>1, <2>1, <2>2 DEF StandInv, JobsOK, SendStands
<1>2. CASE UNCHANGED bookVars
  BY <1>1, <1>2 DEF bookVars, StandInv, BookTypes
<1>3. CASE Switch
  BY <1>1, <1>3 DEF Switch, StandInv, BookTypes
<1>4. ASSUME NEW h \in Hashes, NEW n \in NetIds, DeleteRow(h, n) PROVE StandInv'
  <2>1. BookTypes'
    BY <1>4, RowsTyped DEF DeleteRow, StandInv, BookTypes
  <2> QED
    BY <1>1, <1>4, <2>1 DEF DeleteRow
<1>5. ASSUME NEW t \in Threads, ThreadStep(t) PROVE StandInv'
  BY <1>5, BeginSendKeeps, ReadNonceKeeps, BroadcastKeeps, RecordKeeps, BeginSweepKeeps, FetchPageKeeps, LookUpKeeps,
     StoreKeeps, NextPageKeeps, JobFailsKeeps DEF ThreadStep
<1> QED
  BY <1>2, <1>3, <1>4, <1>5, MineKeeps, IncomingKeeps DEF BookNext

LEMMA StandStart == BookInit => StandInv
<1> SUFFICES ASSUME BookInit PROVE StandInv
  OBVIOUS
<1>1. BookTypes
  <2>1. /\ chain = <<>> /\ mined = 0 /\ current = "" /\ replaced = {} /\ torn = {}
    BY DEF BookInit
  <2>a. <<>> \in Seq(Hashes) /\ 0 \in 0..(MaxNonce + 1) /\ "" \in NetIds
    BY PageAssumption DEF NetIds
  <2>2. pool \in [Nonces -> Hashes \cup {NoTx}]
    BY DEF BookInit
  <2>3. [send |-> 0, sweep |-> 0] \in [send : 0..2, sweep : 0..2]
    OBVIOUS
  <2>4. [n \in NetIds |-> [send |-> 0, sweep |-> 0]] \in [NetIds -> [send : 0..2, sweep : 0..2]]
    BY <2>3
  <2>5. rows \in [Hashes -> [NetIds -> [send : 0..2, sweep : 0..2]]]
    BY <2>4 DEF BookInit
  <2> QED
    BY <2>1, <2>a, <2>2, <2>5 DEF BookTypes
<1> QED
  BY <1>1 DEF BookInit, StandInv, JobsOK, SendStands, Sends

LEMMA StandAlways == BookSpec => []StandInv
BY StandStart, StandPreserved, PTL DEF BookSpec

\* A payment the node already held when another send asked it for a nonce is not
\* replaced by that send, unless the host pinned the nonce or the count could not be
\* read, for any number of
\* threads, transactions and nonces.
THEOREM SentStand == BookSpec => []SendStands
<1>1. StandInv => SendStands
  BY DEF StandInv
<1> QED
  BY <1>1, StandAlways, PTL

\* The chain, the pool, the rows and the calls of TransactionSend stay in their
\* types.
THEOREM BookTyped == BookSpec => []BookTypeOK
<1>1. StandInv => BookTypeOK
  BY DEF StandInv, BookTypes, JobsOK, Send, Sweep, SendStands, BookTypeOK
<1> QED
  BY <1>1, StandAlways, PTL

-----------------------------------------------------------------------------
(* TransactionSend: holes in the history. A sweep leaves no hole behind but  *)
(* above the place it has reached (Left), so an unexplained hole lies below  *)
(* it and the row above (Explained); once the sweep has met a known result,  *)
(* what is below it is explained by that result's own past (Accounted).      *)

\* No transaction is in two places of the chain and the pool.
NodeOK ==
    /\ \A i, j \in DOMAIN chain : chain[i] = chain[j] => i = j
    /\ \A n \in Nonces : pool[n] # NoTx => ~IsMined(pool[n])
    /\ \A m, n \in Nonces : pool[m] = pool[n] /\ pool[m] # NoTx => m = n

\* A sweep stores what is mined.
MinedBySweep == \A h \in Hashes : \A n \in NetIds : rows[h][n].sweep > 0 => IsMined(h)

\* The results a sweep has left of its page, newest first.
PageOK(j) ==
    /\ j.pc = "page" => j.page = <<>> /\ ~j.known
    /\ j.pages = 0 => j.pc = "page"
    /\ j.at + Len(j.page) <= Len(chain)
    /\ \A i \in DOMAIN j.page : j.page[i] = chain[j.at + Len(j.page) + 1 - i]

PagesOK == \A t \in Threads : Sweeps(t) => PageOK(job[t])

\* The place of the chain below which a sweep has not looked yet.
Left(j) == IF j.pages = 0 THEN Len(chain) ELSE j.at + Len(j.page)

Caused(i, n) == \E s \in DOMAIN chain : s > i /\ rows[chain[s]][n].send > 0

Explained(n, p) ==
    \A i \in DOMAIN chain : \A j \in DOMAIN chain :
        i < j /\ Stored(chain[j], n) /\ ~Stored(chain[i], n) => Caused(i, n) \/ (i <= p /\ p < j)

Accounted(n, p) ==
    \A i \in DOMAIN chain : i <= p /\ ~Stored(chain[i], n) => Caused(i, n)

SweepsOn(t, n) == Sweeps(t) /\ job[t].net = n

NetOK(n) ==
    /\ \A t, u \in Threads : SweepsOn(t, n) /\ SweepsOn(u, n) => t = u
    /\ \A t \in Threads : \A p \in Nat :
         SweepsOn(t, n) /\ p = Left(job[t]) => Explained(n, p) /\ (job[t].known => Accounted(n, p))
    /\ (\A t \in Threads : ~SweepsOn(t, n)) => Explained(n, 0)

HoleInv ==
    /\ NodeOK /\ MinedBySweep /\ PagesOK
    /\ \A n \in NetIds \ torn : NetOK(n)

-----------------------------------------------------------------------------
(* What a step may do to the rows of one network. *)

LEMMA RowsGrow ==
    ASSUME BookTypes, UNCHANGED chain, NEW n \in NetIds,
           \A h \in Hashes : /\ Stored(h, n) => Stored(h, n)'
                             /\ rows[h][n].send > 0 => rows'[h][n].send > 0
                             /\ Stored(h, n)' => Stored(h, n) \/ rows'[h][n].send > 0
    PROVE  \A p \in Nat : (Explained(n, p) => Explained(n, p)') /\ (Accounted(n, p) => Accounted(n, p)')
<1>1. \A i \in DOMAIN chain : chain[i] \in Hashes
  BY DEF BookTypes
<1>2. \A i : Caused(i, n) => Caused(i, n)'
  BY <1>1 DEF Caused
<1>3. ASSUME NEW p \in Nat, Explained(n, p) PROVE Explained(n, p)'
  <2>1. SUFFICES ASSUME NEW i \in DOMAIN chain, NEW j \in DOMAIN chain, i < j,
                        Stored(chain[j], n)', ~Stored(chain[i], n)'
                 PROVE  Caused(i, n)' \/ (i <= p /\ p < j)
    BY DEF Explained
  <2>2. ~Stored(chain[i], n)
    BY <1>1, <2>1
  <2>3. CASE Stored(chain[j], n)
    BY <1>2, <1>3, <2>1, <2>2, <2>3 DEF Explained
  <2>4. CASE ~Stored(chain[j], n)
    <3>1. rows'[chain[j]][n].send > 0
      BY <1>1, <2>1, <2>4
    <3>2. i \in Nat /\ j \in Nat /\ j > i
      BY <2>1 DEF BookTypes
    <3> QED
      BY <2>1, <3>1, <3>2 DEF Caused
  <2> QED
    BY <2>3, <2>4
<1>4. ASSUME NEW p \in Nat, Accounted(n, p) PROVE Accounted(n, p)'
  BY <1>1, <1>2, <1>4 DEF Accounted
<1> QED
  BY <1>3, <1>4

LEMMA SameRows ==
    ASSUME BookTypes, UNCHANGED <<chain, rows>>, NEW n \in NetIds
    PROVE  \A p \in Nat : (Explained(n, p) => Explained(n, p)') /\ (Accounted(n, p) => Accounted(n, p)')
BY RowsGrow DEF Stored, Count

\* A row more, by a send or by a sweep.
LEMMA RowAdded ==
    ASSUME BookTypes, NEW h \in Hashes, NEW n \in NetIds, NEW by \in {"send", "sweep"},
           \/ by = "send" /\ rows' = [rows EXCEPT ![h][n].send = Twice(@)]
           \/ by = "sweep" /\ rows' = [rows EXCEPT ![h][n].sweep = Twice(@)]
    PROVE  /\ \A g \in Hashes : \A m \in NetIds : g # h \/ m # n => rows'[g][m] = rows[g][m]
           /\ Stored(h, n)'
           /\ by = "send" => rows'[h][n].send > 0 /\ rows'[h][n].sweep = rows[h][n].sweep
           /\ by = "sweep" => rows'[h][n].send = rows[h][n].send
<1>1. rows \in [Hashes -> [NetIds -> [send : 0..2, sweep : 0..2]]]
  BY DEF BookTypes
<1>2. \A k \in 0..2 : Twice(k) \in 0..2 /\ Twice(k) > 0
  BY DEF Twice
<1>3. rows[h] \in [NetIds -> [send : 0..2, sweep : 0..2]] /\ rows[h][n] \in [send : 0..2, sweep : 0..2]
  BY <1>1
<1>4. rows[h][n].send \in 0..2 /\ rows[h][n].sweep \in 0..2
  BY <1>3
<1>5. CASE by = "send" /\ rows' = [rows EXCEPT ![h][n].send = Twice(@)]
  <2>1. rows'[h][n].send = Twice(rows[h][n].send) /\ rows'[h][n].sweep = rows[h][n].sweep
    BY <1>1, <1>3, <1>5
  <2>2. \A g \in Hashes : \A m \in NetIds : g # h \/ m # n => rows'[g][m] = rows[g][m]
    BY <1>1, <1>3, <1>5
  <2> QED
    BY <1>2, <1>4, <1>5, <2>1, <2>2 DEF Stored, Count
<1>6. CASE by = "sweep" /\ rows' = [rows EXCEPT ![h][n].sweep = Twice(@)]
  <2>1. rows'[h][n].sweep = Twice(rows[h][n].sweep) /\ rows'[h][n].send = rows[h][n].send
    BY <1>1, <1>3, <1>6
  <2>2. \A g \in Hashes : \A m \in NetIds : g # h \/ m # n => rows'[g][m] = rows[g][m]
    BY <1>1, <1>3, <1>6
  <2> QED
    BY <1>2, <1>4, <1>6, <2>1, <2>2 DEF Stored, Count
<1> QED
  BY <1>5, <1>6

-----------------------------------------------------------------------------
(* What a step may do to the sweeps of one network. *)

\* A step of t that does not concern the network's sweeps.
LEMMA NetElsewhere ==
    ASSUME StandInv, NEW n \in NetIds, NetOK(n), NEW t \in Threads, UNCHANGED chain,
           \A u \in Threads \ {t} : job'[u] = job[u], ~SweepsOn(t, n), ~SweepsOn(t, n)',
           \A p \in Nat : (Explained(n, p) => Explained(n, p)') /\ (Accounted(n, p) => Accounted(n, p)')
    PROVE  NetOK(n)'
<1>1. \A u \in Threads : SweepsOn(u, n)' => u # t /\ SweepsOn(u, n) /\ job'[u] = job[u]
  BY DEF SweepsOn, Sweeps
<1>2. \A u \in Threads : SweepsOn(u, n) => SweepsOn(u, n)'
  BY DEF SweepsOn, Sweeps
<1>3. \A j : Left(j)' = Left(j)
  BY DEF Left
<1>4. ASSUME NEW u \in Threads, NEW p \in Nat, SweepsOn(u, n)', p = Left(job[u])'
      PROVE  Explained(n, p)' /\ (job'[u].known => Accounted(n, p)')
  <2>1. SweepsOn(u, n) /\ job'[u] = job[u] /\ p = Left(job[u])
    BY <1>1, <1>4 DEF Left
  <2>2. Explained(n, p) /\ (job[u].known => Accounted(n, p))
    BY <2>1 DEF NetOK
  <2> QED
    BY <2>1, <2>2
<1>5. (\A u \in Threads : ~SweepsOn(u, n)') => Explained(n, 0)'
  BY <1>2 DEF NetOK
<1> QED
  BY <1>1, <1>4, <1>5 DEF NetOK

\* A step of the only sweep of the network, which begins, goes on or ends.
LEMMA NetHere ==
    ASSUME NEW n \in NetIds, NEW t \in Threads,
           \A u \in Threads \ {t} : job'[u] = job[u] /\ ~SweepsOn(u, n),
           \A p \in Nat : SweepsOn(t, n)' /\ p = Left(job[t])' =>
               Explained(n, p)' /\ (job'[t].known => Accounted(n, p)'),
           SweepsOn(t, n)' \/ Explained(n, 0)'
    PROVE  NetOK(n)'
<1>1. \A u \in Threads : SweepsOn(u, n)' => u = t
  BY DEF SweepsOn, Sweeps
<1>2. ASSUME NEW u \in Threads, NEW p \in Nat, SweepsOn(u, n)', p = Left(job[u])'
      PROVE  Explained(n, p)' /\ (job'[u].known => Accounted(n, p)')
  BY <1>1, <1>2
<1> QED
  BY <1>1, <1>2 DEF NetOK

\* The only sweep of a network.
LEMMA OnlySweep ==
    ASSUME StandInv, HoleInv, NEW t \in Threads, Sweeps(t), job[t].net \notin torn
    PROVE  LET n == job[t].net IN
           /\ n \in NetIds /\ Left(job[t]) \in Nat
           /\ \A u \in Threads \ {t} : ~SweepsOn(u, n)
           /\ Explained(n, Left(job[t])) /\ (job[t].known => Accounted(n, Left(job[t])))
<1>1. job[t] \in SweepJob
  BY SendTells DEF StandInv, JobsOK, Sweeps, Send, Sweep
<1>2. job[t].net \in NetIds /\ job[t].at \in Nat /\ job[t].page \in Seq(Hashes) /\ Len(chain) \in Nat
  BY <1>1 DEF SweepJob, StandInv, BookTypes
<1>3. Left(job[t]) \in Nat
  BY <1>2 DEF Left
<1>4. NetOK(job[t].net)
  BY <1>2 DEF HoleInv
<1> QED
  BY <1>2, <1>3, <1>4 DEF NetOK, SweepsOn

\* A step of one thread that leaves the tables as they are and is not of a sweep.
LEMMA PlainStep ==
    ASSUME StandInv, HoleInv, NEW t \in Threads, UNCHANGED <<chain, rows>>, torn \subseteq torn',
           \A u \in Threads \ {t} : job'[u] = job[u], NodeOK',
           Sweeps(t) => job[t].net \in torn', ~Sweeps(t)'
    PROVE  HoleInv'
<1>1. ASSUME NEW n \in NetIds \ torn' PROVE NetOK(n)'
  <2>1. n \in NetIds /\ NetOK(n) /\ ~SweepsOn(t, n) /\ ~SweepsOn(t, n)'
    BY <1>1 DEF HoleInv, SweepsOn
  <2>2. BookTypes
    BY DEF StandInv
  <2> QED
    BY <2>1, <2>2, SameRows, NetElsewhere
<1>2. MinedBySweep'
  BY DEF HoleInv, MinedBySweep, IsMined
<1>3. \A u \in Threads : Sweeps(u)' => Sweeps(u) /\ job'[u] = job[u]
  BY DEF Sweeps
<1>4. PagesOK'
  BY <1>3 DEF HoleInv, PagesOK, PageOK
<1> QED
  BY <1>1, <1>2, <1>4 DEF HoleInv

LEMMA SameNodeOK == ASSUME NodeOK, UNCHANGED <<chain, pool>> PROVE NodeOK'
BY DEF NodeOK, IsMined

\* A step of a sweep that leaves the tables as they are.
LEMMA SweepStep ==
    ASSUME StandInv, HoleInv, NEW t \in Threads, UNCHANGED <<chain, pool, rows>>, torn \subseteq torn',
           Sweeps(t), NEW new, job' = [job EXCEPT ![t] = new],
           new # NoTx => new.call = "sweep" /\ new.net = job[t].net /\ PageOK(new),
           job[t].net \notin torn' =>
               IF new = NoTx THEN Explained(job[t].net, 0)
               ELSE Explained(job[t].net, Left(new)) /\ (new.known => Accounted(job[t].net, Left(new)))
    PROVE  HoleInv'
<1>1. DOMAIN job = Threads /\ job'[t] = new /\ \A u \in Threads \ {t} : job'[u] = job[u]
  BY DEF StandInv, JobsOK
<1>2. BookTypes /\ NodeOK'
  BY SameNodeOK DEF StandInv, HoleInv
<1>3. ASSUME NEW n \in NetIds \ torn' PROVE NetOK(n)'
  <2>1. NetOK(n) /\ n \in NetIds \ torn
    BY <1>3 DEF HoleInv
  <2>2. \A p \in Nat : (Explained(n, p) => Explained(n, p)') /\ (Accounted(n, p) => Accounted(n, p)')
    BY <1>2, SameRows
  <2>3. CASE job[t].net # n
    <3>1. ~SweepsOn(t, n) /\ ~SweepsOn(t, n)'
      BY <1>1, <2>3 DEF SweepsOn, Sweeps
    <3> QED
      BY <1>1, <2>1, <2>2, <3>1, NetElsewhere
  <2>4. CASE job[t].net = n
    <3>1. \A u \in Threads \ {t} : job'[u] = job[u] /\ ~SweepsOn(u, n)
      BY <1>1, <2>1, <2>4, OnlySweep
    <3>2. CASE new = NoTx
      <4>1. ~SweepsOn(t, n)' /\ Explained(n, 0)'
        BY <1>1, <1>3, <2>2, <2>4, <3>2 DEF SweepsOn, Sweeps
      <4> QED
        BY <3>1, <4>1, NetHere
    <3>3. CASE new # NoTx
      <4>1. SweepsOn(t, n)'
        BY <1>1, <2>4, <3>3 DEF SweepsOn, Sweeps
      <4>2. ASSUME NEW p \in Nat, p = Left(job[t])'
            PROVE  Explained(n, p)' /\ (job'[t].known => Accounted(n, p)')
        <5>1. p = Left(new)
          BY <1>1, <4>2 DEF Left
        <5> QED
          BY <1>1, <1>3, <2>2, <2>4, <3>3, <5>1
      <4> QED
        BY <3>1, <4>1, <4>2, NetHere
    <3> QED
      BY <3>2, <3>3
  <2> QED
    BY <2>3, <2>4
<1>4. MinedBySweep'
  BY DEF HoleInv, MinedBySweep, IsMined
<1>5. ASSUME NEW u \in Threads, Sweeps(u)' PROVE PageOK(job[u])'
  <2>1. PageOK(job'[u])
    BY <1>1, <1>5 DEF HoleInv, PagesOK, Sweeps
  <2> QED
    BY <2>1 DEF PageOK
<1> QED
  BY <1>2, <1>3, <1>4, <1>5 DEF HoleInv, PagesOK

-----------------------------------------------------------------------------
(* The node and the sends. *)

LEMMA AppendAt ==
    ASSUME chain \in Seq(Hashes), NEW h \in Hashes, chain' = Append(chain, h)
    PROVE  /\ Len(chain) \in Nat /\ Len(chain') = Len(chain) + 1
           /\ DOMAIN chain = 1..Len(chain) /\ DOMAIN chain' = 1..(Len(chain) + 1)
           /\ \A i \in DOMAIN chain : chain'[i] = chain[i]
           /\ chain'[Len(chain) + 1] = h
OBVIOUS

\* A transaction is mined that no sweep has stored.
LEMMA GrowsKeep ==
    ASSUME StandInv, HoleInv, NEW h \in Hashes, chain' = Append(chain, h), ~IsMined(h),
           UNCHANGED <<rows, job, torn>>,
           \A n \in Nonces : pool'[n] # NoTx => pool'[n] = pool[n] /\ pool[n] # h
    PROVE  HoleInv'
<1>1. /\ Len(chain) \in Nat /\ Len(chain') = Len(chain) + 1
      /\ DOMAIN chain = 1..Len(chain) /\ DOMAIN chain' = 1..(Len(chain) + 1)
      /\ \A i \in DOMAIN chain : chain'[i] = chain[i]
      /\ chain'[Len(chain) + 1] = h
  BY AppendAt DEF StandInv, BookTypes
<1>2. \A i \in DOMAIN chain' : i \in DOMAIN chain \/ i = Len(chain) + 1
  BY <1>1
<1>3. \A i \in DOMAIN chain : i \in DOMAIN chain' /\ chain[i] # h
  BY <1>1 DEF IsMined
<1>4. \A g : IsMined(g)' <=> IsMined(g) \/ g = h
  <2>1. Len(chain) + 1 \in DOMAIN chain'
    BY <1>1
  <2> QED
    BY <1>1, <1>2, <1>3, <2>1 DEF IsMined
<1>5. NodeOK'
  <2>1. \A i, j \in DOMAIN chain' : chain'[i] = chain'[j] => i = j
    BY <1>1, <1>2, <1>3 DEF HoleInv, NodeOK
  <2>2. \A n \in Nonces : \A g : g = pool'[n] /\ g # NoTx => ~IsMined(g)'
    BY <1>4 DEF HoleInv, NodeOK
  <2>3. \A m, n \in Nonces : pool'[m] = pool'[n] /\ pool'[m] # NoTx => m = n
    BY DEF HoleInv, NodeOK
  <2> QED
    BY <2>1, <2>2, <2>3 DEF NodeOK, IsMined
<1>6. MinedBySweep'
  BY <1>4 DEF HoleInv, MinedBySweep
<1>7. ASSUME NEW t \in Threads, Sweeps(t)' PROVE PageOK(job[t])'
  <2>1. Sweeps(t) /\ PageOK(job[t])
    BY <1>7 DEF HoleInv, PagesOK, Sweeps
  <2>2. job[t] \in SweepJob
    BY <2>1, SendTells DEF StandInv, JobsOK, Sweeps, Send, Sweep
  <2>3. job[t].at \in Nat /\ Len(job[t].page) \in Nat /\ DOMAIN job[t].page = 1..Len(job[t].page)
    BY <2>2 DEF SweepJob
  <2>4. job[t].at + Len(job[t].page) <= Len(chain)
    BY <2>1 DEF PageOK
  <2>5. ASSUME NEW i \in DOMAIN job[t].page
        PROVE  job[t].page[i] = chain'[job[t].at + Len(job[t].page) + 1 - i]
    <3>1. job[t].at + Len(job[t].page) + 1 - i \in DOMAIN chain
      BY <1>1, <2>3, <2>4
    <3> QED
      BY <1>1, <2>1, <3>1 DEF PageOK
  <2>6. job[t].at + Len(job[t].page) <= Len(chain')
    BY <1>1, <2>3, <2>4
  <2> QED
    BY <2>1, <2>5, <2>6 DEF PageOK
<1>8. ASSUME NEW n \in NetIds \ torn' PROVE NetOK(n)'
  <2> DEFINE top == Len(chain)
  <2>1. NetOK(n) /\ n \in NetIds
    BY <1>8 DEF HoleInv
  <2>2. \A g : Stored(g, n)' <=> Stored(g, n)
    BY DEF Stored, Count
  <2>3. \A i : Caused(i, n) => Caused(i, n)'
    BY <1>1, <1>3 DEF Caused
  <2>4. Stored(h, n) => rows[h][n].send > 0
    <3>1. rows[h][n] \in [send : 0..2, sweep : 0..2]
      BY <2>1 DEF StandInv, BookTypes
    <3>2. rows[h][n].send \in 0..2 /\ rows[h][n].sweep \in 0..2
      BY <3>1
    <3>3. ~(rows[h][n].sweep > 0)
      BY <2>1 DEF HoleInv, MinedBySweep
    <3> QED
      BY <3>2, <3>3 DEF Stored, Count
  <2>5. ASSUME NEW p \in Nat, NEW q \in Nat, p <= q, Explained(n, p), p = q \/ p = Len(chain)
        PROVE  Explained(n, q)'
    <3>1. SUFFICES ASSUME NEW i \in DOMAIN chain', NEW j \in DOMAIN chain', i < j,
                          Stored(chain'[j], n), ~Stored(chain'[i], n)
                   PROVE  Caused(i, n)' \/ (i <= q /\ q < j)
      BY <2>2 DEF Explained
    <3>2. i \in DOMAIN chain /\ ~Stored(chain[i], n)
      BY <1>1, <3>1
    <3>3. CASE j \in DOMAIN chain
      <4>1. Caused(i, n) \/ (i <= p /\ p < j)
        BY <1>1, <2>5, <3>1, <3>2, <3>3 DEF Explained
      <4>2. ~(p = Len(chain) /\ p < j)
        BY <1>1, <3>3
      <4> QED
        BY <2>3, <2>5, <4>1, <4>2
    <3>4. CASE j = Len(chain) + 1
      <4>1. rows'[chain'[j]][n].send > 0
        BY <1>1, <2>4, <3>1, <3>4
      <4>2. j > i
        BY <1>1, <3>1
      <4> QED
        BY <3>1, <4>1, <4>2 DEF Caused
    <3> QED
      BY <1>2, <3>3, <3>4
  <2>6. ASSUME NEW p \in Nat, p <= Len(chain), Accounted(n, p) PROVE Accounted(n, p)'
    <3>1. \A i \in DOMAIN chain' : i <= p => i \in DOMAIN chain
      BY <1>1, <2>6
    <3> QED
      BY <1>1, <2>2, <2>3, <2>6, <3>1 DEF Accounted
  <2>7. \A t : SweepsOn(t, n)' <=> SweepsOn(t, n)
    BY DEF SweepsOn, Sweeps
  <2>8. ASSUME NEW t \in Threads, NEW q \in Nat, SweepsOn(t, n)', q = Left(job[t])'
        PROVE  Explained(n, q)' /\ (job'[t].known => Accounted(n, q)')
    <3>1. Sweeps(t) /\ job[t].net = n /\ PageOK(job[t])
      BY <2>7, <2>8 DEF SweepsOn, HoleInv, PagesOK
    <3>2. Left(job[t]) \in Nat /\ Explained(n, Left(job[t])) /\ (job[t].known => Accounted(n, Left(job[t])))
      BY <1>8, <3>1, OnlySweep
    <3>3. CASE job[t].pages = 0
      <4>1. Left(job[t]) = Len(chain) /\ q = Len(chain) + 1 /\ ~job[t].known
        BY <1>1, <2>8, <3>1, <3>3 DEF Left, PageOK
      <4>2. PICK p \in Nat : p = Left(job[t])
        BY <3>2
      <4>3. p <= q /\ p = Len(chain) /\ Explained(n, p)
        BY <1>1, <3>2, <4>1, <4>2
      <4>4. Explained(n, q)'
        BY <2>5, <4>2, <4>3
      <4> QED
        BY <4>1, <4>4
    <3>4. CASE job[t].pages # 0
      <4>1. q = Left(job[t]) /\ q <= Len(chain)
        BY <2>8, <3>1, <3>4 DEF Left, PageOK
      <4> QED
        BY <2>5, <2>6, <3>2, <4>1
    <3> QED
      BY <3>3, <3>4
  <2>9. (\A t \in Threads : ~SweepsOn(t, n)') => Explained(n, 0)'
    BY <2>1, <2>5, <2>7 DEF NetOK
  <2>10. \A t, u \in Threads : SweepsOn(t, n)' /\ SweepsOn(u, n)' => t = u
    BY <2>1, <2>7 DEF NetOK
  <2> QED
    BY <2>8, <2>9, <2>10 DEF NetOK
<1> QED
  BY <1>5, <1>6, <1>7, <1>8 DEF HoleInv, PagesOK

LEMMA MineExplains == ASSUME StandInv, HoleInv, Mine PROVE HoleInv'
<1> DEFINE h == pool[mined]
<1>1. /\ mined \in Nonces /\ h # NoTx /\ chain' = Append(chain, h) /\ pool' = [pool EXCEPT ![mined] = NoTx]
      /\ UNCHANGED <<rows, job, torn>>
  BY DEF Mine
<1>2. h \in Hashes /\ ~IsMined(h)
  BY <1>1 DEF StandInv, BookTypes, HoleInv, NodeOK
<1>3. ASSUME NEW n \in Nonces, pool'[n] # NoTx PROVE pool'[n] = pool[n] /\ pool[n] # h
  <2>1. n # mined /\ pool'[n] = pool[n]
    BY <1>1, <1>3 DEF StandInv, BookTypes
  <2> QED
    BY <1>1, <1>3, <2>1 DEF HoleInv, NodeOK
<1> HIDE DEF h
<1> QED
  BY <1>1, <1>2, <1>3, GrowsKeep

LEMMA IncomingExplains == ASSUME StandInv, HoleInv, NEW h \in Hashes, Incoming(h) PROVE HoleInv'
<1>1. chain' = Append(chain, h) /\ ~IsMined(h) /\ h \notin Pending /\ UNCHANGED <<rows, job, torn, pool>>
  BY DEF Incoming, Unused
<1>2. \A n \in Nonces : pool'[n] # NoTx => pool'[n] = pool[n] /\ pool[n] # h
  BY <1>1 DEF Pending
<1> QED
  BY <1>1, <1>2, GrowsKeep

LEMMA SendExplains ==
    ASSUME StandInv, HoleInv, NEW t \in Threads, ReadNonce(t) \/ Broadcast(t)
           \/ \E c \in {"send", "rawSend"}, h \in Hashes, named, given \in BOOLEAN, n \in Nonces : BeginSend(t, c, h, named, given, n)
    PROVE  HoleInv'
<1>0. DOMAIN job = Threads /\ NodeOK
  BY DEF StandInv, JobsOK, HoleInv
<1>1. CASE \E c \in {"send", "rawSend"}, h \in Hashes, named, given \in BOOLEAN, n \in Nonces : BeginSend(t, c, h, named, given, n)
  <2>1. PICK c \in {"send", "rawSend"}, h \in Hashes, named, given \in BOOLEAN, n \in Nonces : BeginSend(t, c, h, named, given, n)
    BY <1>1
  <2>2. ~Sweeps(t) /\ ~Sweeps(t)' /\ \A u \in Threads \ {t} : job'[u] = job[u]
    BY <1>0, <2>1 DEF BeginSend, Sweeps
  <2>3. UNCHANGED <<chain, pool, rows, torn>>
    BY <2>1 DEF BeginSend
  <2> QED
    BY <1>0, <2>2, <2>3, SameNodeOK, PlainStep
<1>2. CASE ReadNonce(t)
  <2>1. job[t] \in SendJob /\ job[t] # NoTx
    BY <1>2 DEF ReadNonce, At, StandInv, JobsOK, Send, Sweep, SweepJob
  <2>2. ~Sweeps(t) /\ ~Sweeps(t)' /\ \A u \in Threads \ {t} : job'[u] = job[u]
    BY <1>0, <1>2, <2>1 DEF ReadNonce, Sweeps, SendJob
  <2>3. UNCHANGED <<chain, pool, rows, torn>>
    BY <1>2 DEF ReadNonce
  <2> QED
    BY <1>0, <2>2, <2>3, SameNodeOK, PlainStep
<1>3. CASE Broadcast(t)
  <2> DEFINE j == job[t]
  <2>1. j \in SendJob /\ SendOK(j) /\ j # NoTx /\ j.pc = "broadcast"
    BY <1>3 DEF Broadcast, At, StandInv, JobsOK, Send, Sweep, SweepJob
  <2>2. ~Used(j.tx) /\ j.nonce \in Nonces
    BY <2>1 DEF SendOK, SendJob
  <2>3. UNCHANGED <<chain, rows, torn>>
    BY <1>3 DEF Broadcast
  <2>4. ~Sweeps(t) /\ ~Sweeps(t)' /\ \A u \in Threads \ {t} : job'[u] = job[u]
    BY <1>0, <1>3, <2>1 DEF Broadcast, Finish, Sweeps, SendJob
  <2>5. pool' = pool \/ pool' = [pool EXCEPT ![j.nonce] = j.tx]
    BY <1>3 DEF Broadcast
  <2>6. CASE pool' = [pool EXCEPT ![j.nonce] = j.tx]
    <3>1. \A n \in Nonces : pool'[n] = IF n = j.nonce THEN j.tx ELSE pool[n]
      BY <2>6 DEF StandInv, BookTypes
    <3>2. ~IsMined(j.tx) /\ \A n \in Nonces : pool[n] # NoTx => pool[n] # j.tx
      BY <2>2 DEF Used, Pending
    <3>3. \A h : IsMined(h)' <=> IsMined(h)
      BY <2>3 DEF IsMined
    <3> HIDE DEF j
    <3>4. \A n \in Nonces : pool'[n] # NoTx => ~IsMined(pool'[n])
      BY <1>0, <3>1, <3>2 DEF NodeOK
    <3>5. \A m, n \in Nonces : pool'[m] = pool'[n] /\ pool'[m] # NoTx => m = n
      BY <1>0, <3>1, <3>2 DEF NodeOK
    <3>6. NodeOK'
      BY <1>0, <2>3, <3>3, <3>4, <3>5 DEF NodeOK
    <3> QED
      BY <2>3, <2>4, <3>6, PlainStep
  <2>7. CASE pool' = pool
    BY <1>0, <2>3, <2>4, <2>7, SameNodeOK, PlainStep
  <2> QED
    BY <2>5, <2>6, <2>7
<1> QED
  BY <1>1, <1>2, <1>3

LEMMA RecordExplains == ASSUME StandInv, HoleInv, NEW t \in Threads, Record(t) PROVE HoleInv'
<1> DEFINE j == job[t]
<1>1. /\ j # NoTx /\ j.pc = "record" /\ rows' = [rows EXCEPT ![j.tx][j.net].send = Twice(@)] /\ Finish(t)
      /\ UNCHANGED <<chain, pool, torn>>
  BY DEF Record, At
<1>2. j \in SendJob /\ j.tx \in Hashes /\ j.net \in NetIds
  BY <1>1 DEF StandInv, JobsOK, Send, Sweep, SendJob, SweepJob
<1>3. PICK h \in Hashes, m \in NetIds : rows' = [rows EXCEPT ![h][m].send = Twice(@)]
  BY <1>1, <1>2
<1>4. /\ \A g \in Hashes : \A n \in NetIds : g # h \/ n # m => rows'[g][n] = rows[g][n]
      /\ rows'[h][m].send > 0 /\ rows'[h][m].sweep = rows[h][m].sweep /\ Stored(h, m)'
  BY <1>3, RowAdded DEF StandInv
<1>5. ~Sweeps(t) /\ ~Sweeps(t)' /\ \A u \in Threads \ {t} : job'[u] = job[u]
  BY <1>1, <1>2 DEF Finish, Sweeps, SendJob, StandInv, JobsOK
<1>6. ASSUME NEW n \in NetIds \ torn' PROVE NetOK(n)'
  <2>1. n \in NetIds /\ NetOK(n) /\ ~SweepsOn(t, n) /\ ~SweepsOn(t, n)'
    BY <1>1, <1>5, <1>6 DEF HoleInv, SweepsOn
  <2>2. \A g \in Hashes :
          /\ Stored(g, n) => Stored(g, n)'
          /\ rows[g][n].send > 0 => rows'[g][n].send > 0
          /\ Stored(g, n)' => Stored(g, n) \/ rows'[g][n].send > 0
    <3>1. ASSUME NEW g \in Hashes, g = h, n = m PROVE rows'[g][n].send > 0 /\ Stored(g, n)'
      BY <1>4, <3>1
    <3>2. ASSUME NEW g \in Hashes, g # h \/ n # m PROVE rows'[g][n] = rows[g][n]
      BY <1>4, <2>1, <3>2
    <3> QED
      BY <3>1, <3>2 DEF Stored, Count
  <2>3. \A p \in Nat : (Explained(n, p) => Explained(n, p)') /\ (Accounted(n, p) => Accounted(n, p)')
    BY <1>1, <2>1, <2>2, RowsGrow DEF StandInv
  <2> QED
    BY <1>1, <1>5, <2>1, <2>3, NetElsewhere
<1>7. MinedBySweep'
  <2>1. \A g \in Hashes : \A n \in NetIds : rows'[g][n].sweep = rows[g][n].sweep
    BY <1>4
  <2> QED
    BY <1>1, <2>1 DEF HoleInv, MinedBySweep, IsMined
<1>8. NodeOK'
  BY <1>1, SameNodeOK DEF HoleInv
<1>9. \A u \in Threads : Sweeps(u)' => Sweeps(u) /\ job'[u] = job[u]
  BY <1>5 DEF Sweeps
<1>10. PagesOK'
  BY <1>1, <1>9 DEF HoleInv, PagesOK, PageOK
<1> QED
  BY <1>6, <1>7, <1>8, <1>10 DEF HoleInv

-----------------------------------------------------------------------------
(* The sweeps. *)

LEMMA BeginSweepExplains == ASSUME StandInv, HoleInv, NEW t \in Threads, BeginSweep(t) PROVE HoleInv'
<1> DEFINE new == [call |-> "sweep", pc |-> "page", net |-> current,
                   at |-> Len(chain), page |-> <<>>, known |-> FALSE, pages |-> 0]
<1>1. /\ job[t] = NoTx /\ job' = [job EXCEPT ![t] = new]
      /\ torn' = IF \E u \in Threads : Sweeps(u) /\ job[u].net = current THEN torn \cup {current} ELSE torn
      /\ UNCHANGED <<chain, pool, mined, current, rows, replaced, displaced>>
  BY DEF BeginSweep
<1>2. job'[t] = new /\ (\A u \in Threads \ {t} : job'[u] = job[u]) /\ ~Sweeps(t)
  BY <1>1 DEF StandInv, JobsOK, Sweeps
<1>3. /\ new.call = "sweep" /\ new.pc = "page" /\ new.net = current /\ new.at = Len(chain)
      /\ new.page = <<>> /\ ~new.known /\ new.pages = 0
  OBVIOUS
<1> HIDE DEF new
<1>4. BookTypes /\ Len(chain) \in Nat
  BY DEF StandInv, BookTypes
<1>5. ASSUME NEW n \in NetIds \ torn' PROVE NetOK(n)'
  <2>1. n \in NetIds \ torn /\ NetOK(n)
    BY <1>1, <1>5 DEF HoleInv
  <2>2. \A p \in Nat : (Explained(n, p) => Explained(n, p)') /\ (Accounted(n, p) => Accounted(n, p)')
    BY <1>1, <1>4, <2>1, SameRows
  <2>3. CASE n # current
    <3>1. ~SweepsOn(t, n) /\ ~SweepsOn(t, n)'
      BY <1>2, <1>3, <2>3 DEF SweepsOn
    <3> QED
      BY <1>1, <1>2, <2>1, <2>2, <3>1, NetElsewhere
  <2>4. CASE n = current
    <3>1. \A u \in Threads : ~SweepsOn(u, n)
      BY <1>1, <1>5, <2>4 DEF SweepsOn
    <3>2. Explained(n, 0)
      BY <2>1, <3>1 DEF NetOK
    <3>3. Explained(n, Len(chain))
      BY <1>4, <3>2 DEF Explained, BookTypes
    <3>4. ASSUME NEW p \in Nat, SweepsOn(t, n)', p = Left(job[t])'
          PROVE  Explained(n, p)' /\ (job'[t].known => Accounted(n, p)')
      <4>1. p = Len(chain)
        BY <1>1, <1>2, <1>3, <3>4 DEF Left
      <4> QED
        BY <1>2, <1>3, <2>2, <3>3, <4>1
    <3>5. Explained(n, 0)'
      BY <2>2, <3>2
    <3> QED
      BY <1>2, <2>1, <3>1, <3>4, <3>5, NetHere
  <2> QED
    BY <2>3, <2>4
<1>6. MinedBySweep'
  BY <1>1 DEF HoleInv, MinedBySweep, IsMined
<1>7. PageOK(new)
  BY <1>3, <1>4 DEF PageOK
<1>8. ASSUME NEW u \in Threads, Sweeps(u)' PROVE PageOK(job[u])'
  <2>1. PageOK(job'[u])
    BY <1>2, <1>7, <1>8 DEF HoleInv, PagesOK, Sweeps
  <2> QED
    BY <1>1, <2>1 DEF PageOK
<1> QED
  BY <1>1, <1>5, <1>6, <1>8, SameNodeOK DEF HoleInv, PagesOK

\* A page is the results from a place downwards.
LEMMA PageAt ==
    ASSUME BookTypes, NEW p \in Nat, p <= Len(chain)
    PROVE  /\ PageFrom(p) \in Seq(Hashes) /\ Len(PageFrom(p)) \in 0..p
           /\ DOMAIN PageFrom(p) = 1..Len(PageFrom(p))
           /\ \A i \in DOMAIN PageFrom(p) : PageFrom(p)[i] = chain[p + 1 - i]
<1> DEFINE n == IF p < PageSize THEN p ELSE PageSize
<1>1. n \in Nat /\ PageFrom(p) = [i \in 1..n |-> chain[p + 1 - i]]
  BY PageAssumption DEF PageFrom
<1> HIDE DEF n
<1>2. PageFrom(p) \in Seq(Hashes) /\ Len(PageFrom(p)) \in 0..p
  BY PageIs
<1> QED
  BY <1>1, <1>2

LEMMA FetchPageExplains == ASSUME StandInv, HoleInv, NEW t \in Threads, FetchPage(t) PROVE HoleInv'
<1> DEFINE j == job[t]
           p == IF j.pages = 0 THEN Len(chain) ELSE j.at
           new == [j EXCEPT !.page = PageFrom(p), !.at = p - Len(PageFrom(p)), !.pages = j.pages + 1,
                            !.known = FALSE, !.pc = "look"]
<1>1. j # NoTx /\ j.pc = "page" /\ UNCHANGED <<chain, pool, rows, torn>>
  BY DEF FetchPage, At
<1>2. Sweep(j) /\ j \in SweepJob /\ j.at \in Nat /\ j.at <= Len(chain) /\ Len(chain) \in Nat /\ j.pages \in Nat
  BY <1>1, SweepIs DEF Sweep, SweepJob, StandInv, BookTypes
<1>3. Sweeps(t) /\ PageOK(j)
  BY <1>1, <1>2, SendTells DEF Sweeps, HoleInv, PagesOK
<1>4. p \in Nat /\ p <= Len(chain)
  BY <1>2
<1>5. Left(j) = p
  BY <1>1, <1>2, <1>3 DEF Left, PageOK
<1>6. CASE p = 0
  <2>1. job' = [job EXCEPT ![t] = NoTx]
    BY <1>6 DEF FetchPage, Finish
  <2>2. j.net \notin torn' => Explained(j.net, 0)
    BY <1>1, <1>3, <1>5, <1>6, OnlySweep
  <2> HIDE DEF j
  <2> QED
    BY <1>1, <1>3, <2>1, <2>2, SweepStep DEF j
<1>7. CASE p # 0
  <2>1. job' = [job EXCEPT ![t] = new]
    BY <1>7 DEF FetchPage
  <2> HIDE DEF p
  <2> DEFINE page == PageFrom(p)
  <2>2. /\ page \in Seq(Hashes) /\ Len(page) \in 0..p /\ DOMAIN page = 1..Len(page)
        /\ \A i \in DOMAIN page : page[i] = chain[p + 1 - i]
    BY <1>4, PageAt DEF StandInv
  <2> HIDE DEF page
  <2>3. /\ new.call = "sweep" /\ new.net = j.net /\ new.pc = "look" /\ new.page = page
        /\ new.at = p - Len(page) /\ new.pages = j.pages + 1 /\ ~new.known
    BY <1>2 DEF SweepJob, page
  <2>4. p - Len(page) \in Nat /\ j.pages + 1 \in 0..MaxPages
    BY <1>1, <1>2, <1>4, <2>2, PageAssumption DEF Sweep, SweepOK, SweepJob
  <2>5. new \in SweepJob
    BY <1>2, <2>2, <2>4 DEF SweepJob, page
  <2> HIDE DEF new
  <2>6. new.at + Len(new.page) = p /\ new.pages # 0
    BY <1>2, <1>4, <2>2, <2>3
  <2>7. PageOK(new)
    BY <1>4, <2>2, <2>3, <2>6 DEF PageOK
  <2>8. Left(new) = p
    BY <2>6 DEF Left
  <2>9. j.net \notin torn' => Explained(j.net, Left(new)) /\ (new.known => Accounted(j.net, Left(new)))
    BY <1>1, <1>3, <1>5, <2>3, <2>8, OnlySweep
  <2> QED
    BY <1>1, <1>3, <2>1, <2>5, <2>3, <2>7, <2>9, SweepStep, NoTxAssumption
<1> QED
  BY <1>6, <1>7

\* What a sweep that has results left looks at next.
LEMMA NextResult ==
    ASSUME StandInv, HoleInv, NEW t \in Threads, job[t] # NoTx, job[t].pc \in {"look", "store"}, job[t].page # <<>>
    PROVE  LET j == job[t] IN
           /\ Sweeps(t) /\ PageOK(j) /\ j \in SweepJob /\ j.pages # 0
           /\ Left(j) \in DOMAIN chain /\ chain[Left(j)] = Head(j.page) /\ j.net \in NetIds
           /\ Tail(j.page) \in Seq(Hashes) /\ Len(Tail(j.page)) = Len(j.page) - 1
           /\ \A i \in DOMAIN Tail(j.page) : i + 1 \in DOMAIN j.page /\ Tail(j.page)[i] = j.page[i + 1]
           /\ j.at \in Nat /\ Len(j.page) \in Nat /\ Left(j) = j.at + Len(j.page)
<1>1. job[t] \in SweepJob /\ Sweeps(t)
  BY SweepIs, SendTells DEF Sweeps
<1>2. PageOK(job[t])
  BY <1>1 DEF HoleInv, PagesOK
<1>3. /\ job[t].page \in Seq(Hashes) /\ job[t].at \in Nat /\ Len(chain) \in Nat /\ job[t].net \in NetIds
      /\ DOMAIN chain = 1..Len(chain)
  BY <1>1 DEF SweepJob, StandInv, BookTypes
<1>4. PICK page \in Seq(Hashes) : page = job[t].page
  BY <1>3
<1>5. /\ Len(page) \in Nat /\ Len(page) > 0 /\ 1 \in DOMAIN page /\ Head(page) = page[1]
      /\ Tail(page) \in Seq(Hashes) /\ Len(Tail(page)) = Len(page) - 1
      /\ \A i \in DOMAIN Tail(page) : i + 1 \in DOMAIN page /\ Tail(page)[i] = page[i + 1]
  BY <1>4
<1>6. job[t].pages # 0
  BY <1>2 DEF PageOK
<1>7. Left(job[t]) = job[t].at + Len(page)
  BY <1>4, <1>6 DEF Left
<1>8. Left(job[t]) \in DOMAIN chain
  BY <1>2, <1>3, <1>4, <1>5, <1>7 DEF PageOK
<1>9. page[1] = chain[job[t].at + Len(page) + 1 - 1]
  BY <1>2, <1>4, <1>5 DEF PageOK
<1>10. job[t].at + Len(page) + 1 - 1 = job[t].at + Len(page)
  BY <1>3, <1>5
<1> QED
  BY <1>1, <1>2, <1>3, <1>4, <1>5, <1>6, <1>7, <1>8, <1>9, <1>10

\* The page without its first result.
LEMMA PagePasses ==
    ASSUME StandInv, HoleInv, NEW t \in Threads, job[t] # NoTx, job[t].pc \in {"look", "store"}, job[t].page # <<>>,
           NEW new, new.page = Tail(job[t].page), new.at = job[t].at, new.pages = job[t].pages, new.pc = "look"
    PROVE  PageOK(new) /\ Left(new) = Left(job[t]) - 1 /\ Left(new) \in Nat
<1> DEFINE j == job[t]
<1>1. /\ PageOK(j) /\ j.pages # 0 /\ Len(Tail(j.page)) = Len(j.page) - 1
      /\ \A i \in DOMAIN Tail(j.page) : i + 1 \in DOMAIN j.page /\ Tail(j.page)[i] = j.page[i + 1]
      /\ j.at \in Nat /\ Len(j.page) \in Nat /\ Left(j) = j.at + Len(j.page)
      /\ Tail(j.page) \in Seq(Hashes) /\ Left(j) \in DOMAIN chain
  BY NextResult
<1> HIDE DEF j
<1>2. DOMAIN Tail(j.page) = 1..(Len(j.page) - 1) /\ Len(chain) \in Nat /\ DOMAIN chain = 1..Len(chain)
  BY <1>1 DEF StandInv, BookTypes
<1>3. ASSUME NEW i \in DOMAIN Tail(j.page)
      PROVE  Tail(j.page)[i] = chain[j.at + (Len(j.page) - 1) + 1 - i]
  <2>1. i \in Nat /\ j.at + Len(j.page) + 1 - (i + 1) = j.at + (Len(j.page) - 1) + 1 - i
    BY <1>1, <1>2
  <2> QED
    BY <1>1, <2>1 DEF PageOK
<1>4. j.at + (Len(j.page) - 1) <= Len(chain)
  BY <1>1, <1>2 DEF PageOK
<1>5. PageOK(new)
  BY <1>1, <1>3, <1>4 DEF PageOK, j
<1>6. Left(new) = j.at + (Len(j.page) - 1)
  BY <1>1 DEF Left, j
<1>7. j.at + Len(j.page) \in 1..Len(chain)
  BY <1>1, <1>2
<1>8. j.at + (Len(j.page) - 1) = (j.at + Len(j.page)) - 1 /\ j.at + (Len(j.page) - 1) \in Nat
  BY <1>1, <1>2, <1>7
<1> QED
  BY <1>1, <1>5, <1>6, <1>8 DEF j

LEMMA LookUpExplains == ASSUME StandInv, HoleInv, NEW t \in Threads, LookUp(t) PROVE HoleInv'
<1> DEFINE j == job[t]
           q == Left(j)
           passed == [j EXCEPT !.known = TRUE, !.page = Tail(j.page)]
           found == [j EXCEPT !.pc = "store"]
<1>1. /\ j # NoTx /\ j.pc = "look" /\ j.page # <<>> /\ UNCHANGED <<chain, pool, rows, torn>>
  BY DEF LookUp, At
<1>2. /\ Sweeps(t) /\ PageOK(j) /\ j \in SweepJob /\ j.pages # 0 /\ j.net \in NetIds
      /\ q \in DOMAIN chain /\ chain[q] = Head(j.page) /\ Tail(j.page) \in Seq(Hashes)
  BY <1>1, NextResult
<1>3. CASE Stored(Head(j.page), j.net)
  <2>1. job' = [job EXCEPT ![t] = passed]
    BY <1>3 DEF LookUp
  <2>2. /\ passed \in SweepJob /\ passed.call = "sweep" /\ passed.net = j.net /\ passed.page = Tail(j.page)
        /\ passed.at = j.at /\ passed.pages = j.pages /\ passed.pc = "look" /\ passed.known
    BY <1>1, <1>2 DEF SweepJob
  <2> HIDE DEF passed
  <2>3. PageOK(passed) /\ Left(passed) = q - 1 /\ Left(passed) \in Nat
    BY <1>1, <2>2, PagePasses
  <2>4. ASSUME j.net \notin torn'
        PROVE  Explained(j.net, q - 1) /\ Accounted(j.net, q - 1)
    <3>1. Explained(j.net, q)
      BY <1>1, <1>2, <2>4, OnlySweep
    <3>2. Stored(chain[q], j.net)
      BY <1>2, <1>3
    <3>3. q \in Nat /\ \A i \in DOMAIN chain : i \in Nat
      BY <1>2 DEF StandInv, BookTypes
    <3> HIDE DEF q, j
    <3>4. ASSUME NEW i \in DOMAIN chain, i <= q - 1, ~Stored(chain[i], j.net) PROVE Caused(i, j.net)
      <4>1. i < q /\ ~(q < q)
        BY <3>3, <3>4
      <4> QED
        BY <1>2, <3>1, <3>2, <3>4, <4>1 DEF Explained
    <3>5. ASSUME NEW i \in DOMAIN chain, NEW k \in DOMAIN chain, i < k,
                 Stored(chain[k], j.net), ~Stored(chain[i], j.net)
          PROVE  Caused(i, j.net) \/ (i <= q - 1 /\ q - 1 < k)
      <4>1. Caused(i, j.net) \/ (i <= q /\ q < k)
        BY <3>1, <3>5 DEF Explained
      <4>2. i # q
        BY <3>2, <3>5
      <4> QED
        BY <3>3, <4>1, <4>2
    <3> QED
      BY <3>4, <3>5 DEF Explained, Accounted
  <2> QED
    BY <1>1, <1>2, <2>1, <2>2, <2>3, <2>4, SweepStep, NoTxAssumption
<1>4. CASE ~Stored(Head(j.page), j.net)
  <2>1. job' = [job EXCEPT ![t] = found]
    BY <1>4 DEF LookUp
  <2>2. /\ found \in SweepJob /\ found.call = "sweep" /\ found.net = j.net /\ found.page = j.page
        /\ found.at = j.at /\ found.pages = j.pages /\ found.pc = "store" /\ found.known = j.known
    BY <1>2 DEF SweepJob
  <2> HIDE DEF found
  <2>3. PageOK(found) /\ Left(found) = q
    BY <1>2, <2>2 DEF PageOK, Left
  <2>4. j.net \notin torn' => Explained(j.net, q) /\ (j.known => Accounted(j.net, q))
    BY <1>1, <1>2, OnlySweep
  <2> HIDE DEF j, q
  <2> QED
    BY <1>1, <1>2, <2>1, <2>2, <2>3, <2>4, SweepStep, NoTxAssumption DEF j
<1> QED
  BY <1>3, <1>4

LEMMA StoreExplains == ASSUME StandInv, HoleInv, NEW t \in Threads, Store(t) PROVE HoleInv'
<1> DEFINE j == job[t]
           q == Left(j)
           new == [j EXCEPT !.pc = "look", !.page = Tail(j.page)]
<1>1. /\ j # NoTx /\ j.pc = "store" /\ job' = [job EXCEPT ![t] = new]
      /\ UNCHANGED <<chain, pool>> /\ torn \subseteq torn'
  BY DEF Store, At
<1>2. j.page # <<>>
  BY <1>1, SweepIs DEF Sweep, SweepOK
<1>3. /\ Sweeps(t) /\ PageOK(j) /\ j \in SweepJob /\ j.pages # 0 /\ j.net \in NetIds
      /\ q \in DOMAIN chain /\ chain[q] = Head(j.page) /\ Tail(j.page) \in Seq(Hashes)
  BY <1>1, <1>2, NextResult
<1>4. /\ new \in SweepJob /\ new.call = "sweep" /\ new.net = j.net /\ new.page = Tail(j.page)
      /\ new.at = j.at /\ new.pages = j.pages /\ new.pc = "look" /\ new.known = j.known
  BY <1>3 DEF SweepJob
<1> HIDE DEF new
<1>5. PageOK(new) /\ Left(new) = q - 1 /\ Left(new) \in Nat
  BY <1>1, <1>2, <1>4, PagePasses
<1>6. CASE torn' = torn \cup {j.net} /\ UNCHANGED rows
  BY <1>1, <1>3, <1>4, <1>5, <1>6, SweepStep, NoTxAssumption
<1>7. CASE rows' = [rows EXCEPT ![Head(j.page)][j.net].sweep = Twice(@)] /\ UNCHANGED torn
  <2>0. BookTypes
    BY DEF StandInv
  <2>1. PICK h \in Hashes, m \in NetIds : h = chain[q] /\ m = j.net
    BY <1>3, <2>0 DEF BookTypes
  <2>2. rows' = [rows EXCEPT ![h][m].sweep = Twice(@)]
    BY <1>3, <1>7, <2>1
  <2>3. /\ \A g \in Hashes : \A n \in NetIds : g # h \/ n # m => rows'[g][n] = rows[g][n]
        /\ Stored(h, m)' /\ rows'[h][m].send = rows[h][m].send
    BY <2>0, <2>2, RowAdded
  <2>4. job'[t] = new /\ \A u \in Threads \ {t} : job'[u] = job[u]
    BY <1>1 DEF StandInv, JobsOK
  <2>5. \A i \in DOMAIN chain : chain[i] \in Hashes /\ i \in Nat /\ (chain[i] = h => i = q)
    BY <1>3, <2>0, <2>1 DEF BookTypes, HoleInv, NodeOK
  <2>6. \A i : Caused(i, m) => Caused(i, m)'
    <3>1. \A g \in Hashes : rows'[g][m].send = rows[g][m].send
      BY <2>3
    <3> QED
      BY <1>1, <2>5, <3>1 DEF Caused
  <2>7. \A g \in Hashes : g # h => (Stored(g, m)' <=> Stored(g, m))
    BY <2>3 DEF Stored, Count
  <2>8. ASSUME NEW n \in NetIds \ torn', n # m PROVE NetOK(n)'
    <3>1. NetOK(n) /\ ~SweepsOn(t, n) /\ ~SweepsOn(t, n)'
      BY <1>1, <1>4, <2>1, <2>4, <2>8 DEF HoleInv, SweepsOn
    <3>2. \A g \in Hashes : rows'[g][n] = rows[g][n]
      BY <2>3, <2>8
    <3>3. \A p \in Nat : (Explained(n, p) => Explained(n, p)') /\ (Accounted(n, p) => Accounted(n, p)')
      BY <1>1, <2>0, <3>2, RowsGrow DEF Stored, Count
    <3> QED
      BY <1>1, <2>4, <3>1, <3>3, NetElsewhere
  <2>9. ASSUME m \notin torn' PROVE NetOK(m)'
    <3>1. /\ q \in Nat /\ Explained(m, q) /\ (j.known => Accounted(m, q))
          /\ \A u \in Threads \ {t} : ~SweepsOn(u, m)
      BY <1>1, <1>3, <2>1, <2>9, OnlySweep
    <3>2. SweepsOn(t, m)'
      BY <1>4, <2>1, <2>4, NoTxAssumption DEF SweepsOn, Sweeps
    <3>3. ASSUME NEW p \in Nat, p = Left(job[t])'
          PROVE  Explained(m, p)' /\ (job'[t].known => Accounted(m, p)')
      <4>1. p = q - 1 /\ job'[t].known = j.known
        <5>1. p = Left(new)
          BY <1>1, <2>4, <3>3 DEF Left
        <5> QED
          BY <1>4, <1>5, <2>4, <5>1
      <4> HIDE DEF j, q
      <4>2. ASSUME NEW i \in DOMAIN chain, NEW k \in DOMAIN chain, i < k,
                   Stored(chain[k], m)', ~Stored(chain[i], m)'
            PROVE  Caused(i, m)' \/ (i <= p /\ p < k)
        <5>1. chain[i] # h /\ i # q /\ ~Stored(chain[i], m)
          BY <1>1, <1>3, <2>1, <2>3, <2>5, <2>7, <4>2
        <5>2. CASE k = q
          BY <2>5, <3>1, <4>1, <4>2, <5>2
        <5>3. CASE k # q
          <6>1. Stored(chain[k], m)
            BY <1>1, <2>5, <2>7, <4>2, <5>3
          <6>2. Caused(i, m) \/ (i <= q /\ q < k)
            BY <3>1, <4>2, <5>1, <6>1 DEF Explained
          <6>3. i \in Nat /\ k \in Nat
            BY <2>5
          <6> QED
            BY <2>6, <3>1, <4>1, <5>1, <6>2, <6>3
        <5> QED
          BY <5>2, <5>3
      <4>3. ASSUME job'[t].known, NEW i \in DOMAIN chain, i <= p, ~Stored(chain[i], m)'
            PROVE  Caused(i, m)'
        <5>1. ~Stored(chain[i], m) /\ i <= q
          BY <1>1, <2>3, <2>5, <2>7, <3>1, <4>1, <4>3
        <5> QED
          BY <2>6, <3>1, <4>1, <4>3, <5>1 DEF Accounted
      <4> QED
        BY <1>1, <4>2, <4>3 DEF Explained, Accounted
    <3> QED
      BY <2>4, <3>1, <3>2, <3>3, NetHere
  <2>10. MinedBySweep'
    <3>1. IsMined(h)
      BY <1>3, <2>1 DEF IsMined
    <3>2. \A g \in Hashes : \A n \in NetIds : g # h => rows'[g][n].sweep = rows[g][n].sweep
      BY <2>3
    <3> QED
      BY <1>1, <3>1, <3>2 DEF HoleInv, MinedBySweep, IsMined
  <2>11. ASSUME NEW u \in Threads, Sweeps(u)' PROVE PageOK(job[u])'
    <3>1. PageOK(job'[u])
      BY <1>5, <2>4, <2>11 DEF HoleInv, PagesOK, Sweeps
    <3> QED
      BY <1>1, <3>1 DEF PageOK
  <2> QED
    BY <1>1, <2>8, <2>9, <2>10, <2>11, SameNodeOK DEF HoleInv, PagesOK
<1> QED
  BY <1>6, <1>7 DEF Store

LEMMA NextPageExplains == ASSUME StandInv, HoleInv, NEW t \in Threads, NextPage(t) PROVE HoleInv'
<1> DEFINE j == job[t]
           new == [j EXCEPT !.pc = "page"]
<1>1. /\ j # NoTx /\ j.pc = "look" /\ j.page = <<>> /\ UNCHANGED <<chain, pool, rows>> /\ torn \subseteq torn'
  BY DEF NextPage, At
<1>2. j \in SweepJob /\ Sweeps(t)
  BY <1>1, SweepIs, SendTells DEF Sweeps
<1>3. PageOK(j) /\ j.pages # 0 /\ j.at \in Nat /\ j.known \in BOOLEAN
  BY <1>1, <1>2 DEF HoleInv, PagesOK, PageOK, SweepJob
<1>4. Left(j) = j.at
  BY <1>1, <1>3 DEF Left
<1>5. CASE j.known \/ j.at = 0 \/ j.pages = MaxPages
  <2>1. /\ job' = [job EXCEPT ![t] = NoTx]
        /\ torn' = IF ~j.known /\ j.at > 0 THEN torn \cup {j.net} ELSE torn
    BY <1>5 DEF NextPage, Finish
  <2>2. ASSUME j.net \notin torn' PROVE Explained(j.net, 0)
    <3>1. j.net \notin torn /\ (j.known \/ j.at = 0)
      BY <1>3, <2>1, <2>2
    <3>2. Explained(j.net, j.at) /\ (j.known => Accounted(j.net, j.at))
      BY <1>2, <1>4, <3>1, OnlySweep
    <3> HIDE DEF j
    <3>3. CASE j.at = 0
      BY <3>2, <3>3
    <3>4. CASE j.known
      BY <3>2, <3>4 DEF Explained, Accounted
    <3> QED
      BY <3>1, <3>3, <3>4
  <2> QED
    BY <1>1, <1>2, <2>1, <2>2, SweepStep
<1>6. CASE ~(j.known \/ j.at = 0 \/ j.pages = MaxPages)
  <2>1. job' = [job EXCEPT ![t] = new] /\ torn' = torn
    BY <1>6 DEF NextPage
  <2>2. /\ new \in SweepJob /\ new.call = "sweep" /\ new.net = j.net /\ new.page = <<>> /\ new.at = j.at
        /\ new.pages = j.pages /\ new.pc = "page" /\ ~new.known
    BY <1>1, <1>2, <1>6 DEF SweepJob
  <2> HIDE DEF new
  <2>3. PageOK(new) /\ Left(new) = j.at
    BY <1>1, <1>3, <2>2 DEF PageOK, Left
  <2>4. j.net \notin torn' => Explained(j.net, j.at)
    BY <1>2, <1>4, <2>1, OnlySweep
  <2> HIDE DEF j
  <2> QED
    BY <1>1, <1>2, <2>1, <2>2, <2>3, <2>4, SweepStep, NoTxAssumption DEF j
<1> QED
  BY <1>5, <1>6

-----------------------------------------------------------------------------

LEMMA JobFailsExplains == ASSUME StandInv, HoleInv, NEW t \in Threads, JobFails(t) PROVE HoleInv'
<1>1. /\ Finish(t) /\ torn' = IF Sweeps(t) THEN torn \cup {job[t].net} ELSE torn
      /\ UNCHANGED <<chain, pool, rows>>
  BY DEF JobFails
<1>2. ~Sweeps(t)' /\ \A u \in Threads \ {t} : job'[u] = job[u]
  BY <1>1 DEF Finish, Sweeps, StandInv, JobsOK
<1>3. NodeOK'
  BY <1>1, SameNodeOK DEF HoleInv
<1> QED
  BY <1>1, <1>2, <1>3, PlainStep

\* A deletion tears the history of its network, and of no other.
LEMMA DeleteExplains ==
    ASSUME StandInv, HoleInv, NEW h \in Hashes, NEW m \in NetIds, DeleteRow(h, m)
    PROVE  HoleInv'
<1>1. /\ rows' = [rows EXCEPT ![h][m] = [send |-> 0, sweep |-> 0]] /\ torn' = torn \cup {m}
      /\ UNCHANGED <<chain, pool, job>> /\ BookTypes
  BY DEF DeleteRow, StandInv
<1>2. \A g \in Hashes : \A n \in NetIds :
        rows'[g][n] = IF g = h /\ n = m THEN [send |-> 0, sweep |-> 0] ELSE rows[g][n]
  BY <1>1 DEF BookTypes
<1>3. ASSUME NEW n \in NetIds \ torn' PROVE NetOK(n)'
  <2>1. n # m /\ NetOK(n)
    BY <1>1, <1>3 DEF HoleInv
  <2>2. \A p \in Nat : (Explained(n, p) => Explained(n, p)') /\ (Accounted(n, p) => Accounted(n, p)')
    <3>1. \A g \in Hashes : rows'[g][n] = rows[g][n]
      BY <1>2, <2>1
    <3> QED
      BY <1>1, <3>1, RowsGrow DEF Stored, Count
  <2>3. \A j : Left(j)' = Left(j)
    BY <1>1 DEF Left
  <2>4. \A t \in Threads : SweepsOn(t, n)' <=> SweepsOn(t, n)
    BY <1>1 DEF SweepsOn, Sweeps
  <2>5. ASSUME NEW t \in Threads, NEW p \in Nat, SweepsOn(t, n)', p = Left(job[t])'
        PROVE  Explained(n, p)' /\ (job'[t].known => Accounted(n, p)')
    <3>1. p = Left(job[t])
      BY <1>1, <2>5 DEF Left
    <3> QED
      BY <1>1, <2>1, <2>2, <2>4, <2>5, <3>1 DEF NetOK
  <2> QED
    BY <2>1, <2>2, <2>4, <2>5 DEF NetOK
<1>4. MinedBySweep'
  BY <1>1, <1>2 DEF HoleInv, MinedBySweep, IsMined
<1> QED
  BY <1>1, <1>3, <1>4, SameNodeOK DEF HoleInv, PagesOK, PageOK, Sweeps

LEMMA HolePreserved == StandInv /\ HoleInv /\ [BookNext]_bookVars => HoleInv'
<1> SUFFICES ASSUME StandInv, HoleInv, [BookNext]_bookVars PROVE HoleInv'
  OBVIOUS
<1>1. CASE UNCHANGED bookVars \/ Switch
  BY <1>1 DEF bookVars, Switch, HoleInv, NodeOK, MinedBySweep, PagesOK, PageOK, NetOK, Explained, Accounted,
     Caused, Left, SweepsOn, Sweeps, Stored, Count, IsMined
<1>2. ASSUME NEW t \in Threads, ThreadStep(t) PROVE HoleInv'
  BY <1>2, SendExplains, RecordExplains, BeginSweepExplains, FetchPageExplains, LookUpExplains,
     StoreExplains, NextPageExplains, JobFailsExplains DEF ThreadStep
<1> QED
  BY <1>1, <1>2, MineExplains, IncomingExplains, DeleteExplains DEF BookNext

LEMMA HoleStart == BookInit => HoleInv
<1> SUFFICES ASSUME BookInit PROVE HoleInv
  OBVIOUS
<1>1. \A i \in DOMAIN chain : FALSE
  <2>1. chain = <<>>
    BY DEF BookInit
  <2>2. Len(chain) = 0 /\ chain \in Seq(Hashes)
    BY <2>1
  <2>3. DOMAIN chain = 1..Len(chain)
    BY <2>2
  <2> QED
    BY <2>2, <2>3
<1>2. (\A t \in Threads : ~Sweeps(t)) /\ (\A n \in Nonces : pool[n] = NoTx)
  BY DEF BookInit, Sweeps
<1>3. MinedBySweep
  <2> SUFFICES ASSUME NEW h \in Hashes, NEW n \in NetIds PROVE ~(rows[h][n].sweep > 0)
    BY DEF MinedBySweep
  <2>1. rows[h][n] = [send |-> 0, sweep |-> 0]
    BY DEF BookInit
  <2> QED
    BY <2>1
<1> QED
  BY <1>1, <1>2, <1>3 DEF HoleInv, NodeOK, PagesOK, NetOK, Explained, SweepsOn

\* What the history of an account misses below a row it has is the work of a send
\* that stored ahead of its elders, of a sweep cut short or under way, of sweeps
\* that met, of a result passed over or of a deletion: for any number of threads,
\* transactions, pages and networks' ids (existing_tx_by_hash, txhistory.rs).
THEOREM HolesExplained == BookSpec => []HolesHaveCause
<1>1. StandInv /\ HoleInv => HolesHaveCause
  <2> SUFFICES ASSUME StandInv, HoleInv, NEW n \in NetIds \ torn, \A t \in Threads : ~(Sweeps(t) /\ job[t].net = n),
                      NEW i \in DOMAIN chain, NEW j \in DOMAIN chain,
                      i < j, Stored(chain[j], n), ~Stored(chain[i], n)
               PROVE  \E s \in (i + 1)..Len(chain) : rows[chain[s]][n].send > 0
    BY DEF HolesHaveCause
  <2>1. Explained(n, 0)
    BY DEF HoleInv, NetOK, SweepsOn
  <2>2. Len(chain) \in Nat /\ DOMAIN chain = 1..Len(chain)
    BY DEF StandInv, BookTypes
  <2>3. Caused(i, n)
    BY <2>1, <2>2 DEF Explained
  <2>4. PICK s \in DOMAIN chain : s > i /\ rows[chain[s]][n].send > 0
    BY <2>3 DEF Caused
  <2>5. s \in (i + 1)..Len(chain)
    BY <2>2, <2>4
  <2> QED
    BY <2>4, <2>5
<1> QED
  BY <1>1, StandAlways, HoleStart, HolePreserved, PTL DEF BookSpec
=============================================================================
