-------------------------- MODULE ApprovalQueue --------------------------
(***************************************************************************)
(* The user-approval queue of handlers/request.rs.                         *)
(*                                                                         *)
(* A worker thread raises a request (`run`): it saves a "pending" row,     *)
(* registers a waiter in the Env, broadcasts the prompt and blocks on the  *)
(* waiter's channel for at most 120 seconds. Host calls (`approve` and     *)
(* `reject`, each on a worker thread of its own) claim the row, perform    *)
(* the side effect, write the terminal status and resolve the waiter.      *)
(*                                                                         *)
(* Grain: the DB actor runs one statement at a time and nothing groups     *)
(* statements into a transaction, so every DELETE, INSERT and SELECT is a  *)
(* step of its own, and so is every access to the waiter map. Any of the   *)
(* statements may fail, and what the code does then is part of the step.   *)
(***************************************************************************)
EXTENDS Naturals

CONSTANTS Requests,   \* request ids; `run` makes a fresh one, so each is raised once
          Calls,      \* worker threads of Request:approve / Request:reject
          NoRow,      \* SELECT found nothing
          NoCall      \* the call's thread is not running

\* What the request's type makes of the approval: what `approve` does for it
\* and what the Web3 method that raised it makes of the answer.
Kinds == {"test", "connect", "add_network", "chain_switch", "sign", "send_asset"}

Status == {"pending", "processing", "accepted", "rejected", "timedout"}
Row    == [status : Status, result : BOOLEAN]


VARIABLES
    kind,      \* kind[r]: the request's type
    row,       \* row[r]: its row in the Request table, or NoRow
    waiters,   \* ids that have a Sender in Env.request_waiters
    chan,      \* chan[r]: the status sent to the waiter's channel, or "empty"
    runpc,     \* runpc[r]: where the thread inside `run` is
    runrow,    \* runrow[r]: the row copy that thread holds
    answer,    \* answer[r]: how `run` ended for the dApp
    hasResult, \* hasResult[r]: did the request `run` returned carry a Result?
    call,      \* call[c]: the call's locals (see Call), or NoCall
    \* History, read by no action:
    wins,      \* wins[r]: calls whose request_resolve returned true
    effects,   \* effects[r]: times the side effect happened, counted up to 2
    unsure,    \* requests with a side effect that happened and reported an error
    overlapped,\* requests that had two calls in flight at the same time
    stranded,  \* requests whose row a failed statement lost, or left claimed
    unread,    \* requests of which a failed read was taken for a missing row
    crashed    \* has the process ever died?

runVars   == <<waiters, chan, runpc, runrow, answer, hasResult>>
failVars  == <<stranded, unread>>
histVars  == <<wins, effects, unsure, overlapped, failVars, crashed>>
vars      == <<kind, row, runVars, call, histVars>>

RunPc  == {"new", "register", "broadcast", "wait", "reload", "take", "fetch",
           "delete", "insert", "done", "lost"}
Answer == {"none", "accepted", "rejected", "timedout", "lost"}

\* A running call: where it is, which of its fetch/save pairs that belongs to,
\* the terminal status it wants to write, its request, the row copy it is about
\* to save, and (history) whether it began after its request was over.
Call == [pc    : {"check", "fetch", "delete", "insert", "effect", "resolve"},
         phase : {"claim", "result", "release", "respond"},
         op    : {"accepted", "rejected"},
         id    : Requests,
         copy  : Row \cup {NoRow},
         late  : BOOLEAN]

ASSUME NullAssumption == NoRow \notin Row /\ NoCall \notin Call

TypeOK ==
    /\ kind \in [Requests -> Kinds]
    /\ row \in [Requests -> Row \cup {NoRow}]
    /\ waiters \subseteq Requests
    /\ chan \in [Requests -> {"empty", "accepted", "rejected"}]
    /\ runpc \in [Requests -> RunPc]
    /\ runrow \in [Requests -> Row \cup {NoRow}]
    /\ answer \in [Requests -> Answer]
    /\ hasResult \in [Requests -> BOOLEAN]
    /\ call \in [Calls -> Call \cup {NoCall}]
    /\ wins \in [Requests -> Nat]
    /\ effects \in [Requests -> 0..2]
    /\ unsure \subseteq Requests
    /\ overlapped \subseteq Requests
    /\ stranded \subseteq Requests /\ unread \subseteq Requests
    /\ crashed \in BOOLEAN

FreshRow == [status |-> "pending", result |-> FALSE]

Init ==
    /\ kind \in [Requests -> Kinds]
    /\ row = [r \in Requests |-> NoRow]
    /\ waiters = {}
    /\ chan = [r \in Requests |-> "empty"]
    /\ runpc = [r \in Requests |-> "new"]
    /\ runrow = [r \in Requests |-> NoRow]
    /\ answer = [r \in Requests |-> "none"]
    /\ hasResult = [r \in Requests |-> FALSE]
    /\ call = [c \in Calls |-> NoCall]
    /\ wins = [r \in Requests |-> 0]
    /\ effects = [r \in Requests |-> 0]
    /\ unsure = {}
    /\ overlapped = {}
    /\ stranded = {} /\ unread = {}
    /\ crashed = FALSE

-----------------------------------------------------------------------------
(* The thread inside `run`. *)

\* request::save of the new row. The id is fresh, so its DELETE removes nothing
\* and the row is first visible when the INSERT runs: one step. (When it fails
\* the dApp gets the error and nobody is asked: as if nothing was raised.)
Persist(r) ==
    /\ runpc[r] = "new"
    /\ row' = [row EXCEPT ![r] = FreshRow]
    /\ runpc' = [runpc EXCEPT ![r] = "register"]
    /\ UNCHANGED <<kind, waiters, chan, runrow, answer, hasResult, call, histVars>>

\* env.request_register: from here on approve and reject find a waiter.
Register(r) ==
    /\ runpc[r] = "register"
    /\ waiters' = waiters \cup {r}
    /\ runpc' = [runpc EXCEPT ![r] = "broadcast"]
    /\ UNCHANGED <<kind, row, chan, runrow, answer, hasResult, call, histVars>>

\* env.broadcast of the "request" event: the host shows the prompt.
Broadcast(r) ==
    /\ runpc[r] = "broadcast"
    /\ runpc' = [runpc EXCEPT ![r] = "wait"]
    /\ UNCHANGED <<kind, row, waiters, chan, runrow, answer, hasResult, call, histVars>>

\* rx.recv_timeout returned Ok(status).
Receive(r) ==
    /\ runpc[r] = "wait"
    /\ chan[r] # "empty"
    /\ runpc' = [runpc EXCEPT ![r] = "reload"]
    /\ UNCHANGED <<kind, row, waiters, chan, runrow, answer, hasResult, call, histVars>>

\* Reload the row and return it under the status received: the request as it was
\* raised, without a Result, when the row is not there or the SELECT fails.
Reload(r) ==
    /\ runpc[r] = "reload"
    /\ answer' = [answer EXCEPT ![r] = chan[r]]
    /\ \E found \in {row[r], NoRow} :
          /\ hasResult' = [hasResult EXCEPT ![r] = found # NoRow /\ found.result]
          /\ unread' = IF found # row[r] THEN unread \cup {r} ELSE unread
    /\ runpc' = [runpc EXCEPT ![r] = "done"]
    /\ UNCHANGED <<kind, row, waiters, chan, runrow, call,
                   wins, effects, unsure, overlapped, stranded, crashed>>

\* Mutant: rx.recv() without a time-out.
Timeout_Never(r) == FALSE

\* rx.recv_timeout returned Err: 120 seconds passed with nothing in the channel.
Timeout(r) ==
    /\ runpc[r] = "wait"
    /\ chan[r] = "empty"
    /\ runpc' = [runpc EXCEPT ![r] = "take"]
    /\ UNCHANGED <<kind, row, waiters, chan, runrow, answer, hasResult, call, histVars>>

\* Mutant: the time-out path leaves the waiter in the map.
Take_KeepsWaiter(r) ==
    /\ runpc[r] = "take"
    /\ runpc' = [runpc EXCEPT ![r] = "fetch"]
    /\ UNCHANGED <<kind, row, waiters, chan, runrow, answer, hasResult, call, histVars>>

\* env.request_take: the waiter is dropped, a moment after the timer fired.
Take(r) ==
    /\ runpc[r] = "take"
    /\ waiters' = waiters \ {r}
    /\ runpc' = [runpc EXCEPT ![r] = "fetch"]
    /\ UNCHANGED <<kind, row, chan, runrow, answer, hasResult, call, histVars>>

AnswerTimedOut(r) ==
    /\ answer' = [answer EXCEPT ![r] = "timedout"]
    /\ runpc' = [runpc EXCEPT ![r] = "done"]

\* The time-out path reads the row and rewrites it as "timedout": no row, or a
\* SELECT that fails, no save.
RunFetch(r) ==
    /\ runpc[r] = "fetch"
    /\ \/ /\ AnswerTimedOut(r)
          /\ UNCHANGED runrow
       \/ /\ row[r] # NoRow
          /\ runrow' = [runrow EXCEPT ![r] = [row[r] EXCEPT !.status = "timedout"]]
          /\ runpc' = [runpc EXCEPT ![r] = "delete"]
          /\ UNCHANGED answer
    /\ UNCHANGED <<kind, row, waiters, chan, hasResult, call, histVars>>

\* The save's errors are ignored; the dApp gets 4001 "Request timed out." anyway.
RunDelete(r) ==
    /\ runpc[r] = "delete"
    /\ \/ /\ row' = [row EXCEPT ![r] = NoRow]
          /\ runpc' = [runpc EXCEPT ![r] = "insert"]
          /\ UNCHANGED <<runrow, answer>>
       \/ /\ runrow' = [runrow EXCEPT ![r] = NoRow]
          /\ AnswerTimedOut(r)
          /\ UNCHANGED row
    /\ UNCHANGED <<kind, waiters, chan, hasResult, call, histVars>>

\* The INSERT fails for certain when another thread saved in between.
RunInsert(r) ==
    /\ runpc[r] = "insert"
    /\ \/ row[r] = NoRow /\ row' = [row EXCEPT ![r] = runrow[r]]
       \/ UNCHANGED row
    /\ runrow' = [runrow EXCEPT ![r] = NoRow]
    /\ AnswerTimedOut(r)
    /\ UNCHANGED <<kind, waiters, chan, hasResult, call, histVars>>

RunStep(r) ==
    \/ Register(r) \/ Broadcast(r) \/ Receive(r) \/ Reload(r) \/ Timeout(r)
    \/ Take(r) \/ RunFetch(r) \/ RunDelete(r) \/ RunInsert(r)

-----------------------------------------------------------------------------
(* A host call: claim, side effect, respond, and release when it fails. *)

\* The side effect an approval stands for, and the ones that leave a Result.
HasEffect(r) == kind[r] \in {"connect", "add_network", "chain_switch", "sign"}
HasResult(r) == kind[r] \in {"chain_switch", "sign"}
Gone(r)      == runpc[r] \in {"done", "lost"}
About(c, r)  == call[c] # NoCall /\ call[c].id = r
At(c, pc)    == call[c] # NoCall /\ call[c].pc = pc

Return(c)  == call' = [call EXCEPT ![c] = NoCall]
Goto(c, pc) == call' = [call EXCEPT ![c].pc = pc, ![c].copy = NoRow]
GotoFetch(c, p) ==
    call' = [call EXCEPT ![c].pc = "fetch", ![c].phase = p, ![c].copy = NoRow]
Save(c, new) == call' = [call EXCEPT ![c].pc = "delete", ![c].copy = new]

\* Request:approve {Id} or Request:reject {Id}. A host knows an id from the
\* event or from listing the table: not before the row is there.
Begin(c, r, o) ==
    /\ call[c] = NoCall
    /\ runpc[r] # "new"
    /\ call' = [call EXCEPT ![c] = [pc |-> "check", phase |-> "claim", op |-> o, id |-> r,
                                   copy |-> NoRow, late |-> Gone(r)]]
    /\ overlapped' = IF \E d \in Calls : About(d, r) THEN overlapped \cup {r} ELSE overlapped
    /\ UNCHANGED <<kind, row, runVars, wins, effects, unsure, failVars, crashed>>

\* Mutant: claim trusts the row's status and does not ask for the waiter.
Check_StatusOnly(c) ==
    /\ At(c, "check")
    /\ GotoFetch(c, "claim")
    /\ UNCHANGED <<kind, row, runVars, histVars>>

\* claim: env.request_pending, else 400 "no longer awaiting a response".
Check(c) ==
    /\ At(c, "check")
    /\ IF call[c].id \in waiters THEN GotoFetch(c, "claim") ELSE Return(c)
    /\ UNCHANGED <<kind, row, runVars, histVars>>

\* claim goes on only from "pending" (404 / 400 otherwise).
FetchClaim(c, found) ==
    /\ call[c].phase = "claim"
    /\ IF found # NoRow /\ found.status = "pending"
       THEN Save(c, [found EXCEPT !.status = "processing"]) ELSE Return(c)

\* The Result of a signature or a chain switch is written into the row it finds.
FetchResult(c, found) ==
    /\ call[c].phase = "result"
    /\ IF found # NoRow
       THEN Save(c, [found EXCEPT !.result = TRUE]) ELSE GotoFetch(c, "respond")

\* release rolls "processing" back to "pending" and touches nothing else.
FetchRelease(c, found) ==
    /\ call[c].phase = "release"
    /\ IF found # NoRow /\ found.status = "processing"
       THEN Save(c, [found EXCEPT !.status = "pending"]) ELSE Return(c)

\* respond writes the terminal status over whatever it finds.
FetchRespond(c, found) ==
    /\ call[c].phase = "respond"
    /\ IF found # NoRow
       THEN Save(c, [found EXCEPT !.status = call[c].op]) ELSE Goto(c, "resolve")

\* A read that failed and was taken for a missing row: release leaves the claim, the
\* Result is not saved (history).
Missed(c, found) ==
    LET r == call[c].id
    IN  /\ stranded' = IF found # row[r] /\ call[c].phase = "release" THEN stranded \cup {r} ELSE stranded
        /\ unread' = IF found # row[r] /\ call[c].phase = "result" THEN unread \cup {r} ELSE unread

\* A SELECT that fails does what one that finds nothing does: claim returns an
\* error, the other three (`if let Ok(Some(..))`) go on without the row.
Fetch(c) ==
    /\ At(c, "fetch")
    /\ \E found \in {row[call[c].id], NoRow} :
          /\ \/ FetchClaim(c, found) \/ FetchResult(c, found)
             \/ FetchRelease(c, found) \/ FetchRespond(c, found)
          /\ Missed(c, found)
    /\ UNCHANGED <<kind, row, runVars, wins, effects, unsure, overlapped, crashed>>

\* Where the call goes after its save. claim and the Result save propagate a
\* failed statement; release and respond ignore it.
AfterSave(c, ok) ==
    \/ call[c].phase = "claim" /\ ok /\ call[c].op = "accepted" /\ Goto(c, "effect")
    \/ call[c].phase = "claim" /\ ok /\ call[c].op = "rejected" /\ GotoFetch(c, "respond")
    \/ call[c].phase = "claim" /\ ~ok /\ Return(c)
    \/ call[c].phase = "result" /\ GotoFetch(c, IF ok THEN "respond" ELSE "release")
    \/ call[c].phase = "release" /\ Return(c)
    \/ call[c].phase = "respond" /\ Goto(c, "resolve")

\* A save that failed: of the Result, it hides a side effect that happened; `lost`
\* says that it left no row, or a claimed one (history).
SaveFailed(c, lost) ==
    /\ AfterSave(c, FALSE)
    /\ unsure' = IF call[c].phase = "result" THEN unsure \cup {call[c].id} ELSE unsure
    /\ stranded' = IF lost THEN stranded \cup {call[c].id} ELSE stranded
    /\ UNCHANGED row

\* request::save, first statement.
Delete(c) ==
    /\ At(c, "delete")
    /\ \/ /\ row' = [row EXCEPT ![call[c].id] = NoRow]
          /\ call' = [call EXCEPT ![c].pc = "insert"]
          /\ UNCHANGED <<unsure, stranded>>
       \/ SaveFailed(c, call[c].phase = "release")
    /\ UNCHANGED <<kind, runVars, wins, effects, overlapped, unread, crashed>>

\* request::save, second statement. It fails on the primary key when another
\* thread's INSERT came between this call's DELETE and now; when it fails for
\* another reason the row is lost.
Insert(c) ==
    /\ At(c, "insert")
    /\ \/ /\ row[call[c].id] = NoRow
          /\ row' = [row EXCEPT ![call[c].id] = call[c].copy]
          /\ AfterSave(c, TRUE)
          /\ UNCHANGED <<unsure, stranded>>
       \/ SaveFailed(c, row[call[c].id] = NoRow)
    /\ UNCHANGED <<kind, runVars, wins, effects, overlapped, unread, crashed>>

CountEffect(r) == effects' = [effects EXCEPT ![r] = IF @ = 2 THEN 2 ELSE @ + 1]

\* "test", which stands for watch_asset too: the approval is a pure acknowledgement.
Acknowledge(c, r) ==
    /\ kind[r] = "test"
    /\ GotoFetch(c, "respond")
    /\ UNCHANGED <<effects, unsure>>

\* Mutant: a successful side effect falls through to the error path's release.
EffectDone_Releases(c, r) ==
    /\ HasEffect(r)
    /\ CountEffect(r)
    /\ GotoFetch(c, "release")
    /\ UNCHANGED unsure

\* Mutant: respond without writing the Result first.
EffectDone_NoResult(c, r) ==
    /\ HasEffect(r)
    /\ CountEffect(r)
    /\ GotoFetch(c, "respond")
    /\ UNCHANGED unsure

\* The account is connected, the network saved, the chain switched, the message
\* signed or the transaction broadcast.
EffectDone(c, r) ==
    /\ HasEffect(r)
    /\ CountEffect(r)
    /\ GotoFetch(c, IF HasResult(r) THEN "result" ELSE "respond")
    /\ UNCHANGED unsure

\* Mutant: the error is returned without releasing the claim.
EffectRefused_NoRelease(c, r) ==
    /\ kind[r] # "test"
    /\ Return(c)
    /\ UNCHANGED <<effects, unsure>>

\* An error before anything happened: no Keys, no account, an unreachable node,
\* or a transaction_sign method `approve` has no arm for (mpurse_sendAsset).
EffectRefused(c, r) ==
    /\ kind[r] # "test"
    /\ GotoFetch(c, "release")
    /\ UNCHANGED <<effects, unsure>>

\* An error after it happened: the node took the transaction and its reply was
\* lost, or the first of several accounts is connected and the next not found.
EffectUnsure(c, r) ==
    /\ kind[r] \in {"connect", "sign"}
    /\ CountEffect(r)
    /\ unsure' = unsure \cup {r}
    /\ GotoFetch(c, "release")

SideEffect(c) ==
    /\ At(c, "effect")
    /\ LET r == call[c].id
       IN  Acknowledge(c, r) \/ EffectDone(c, r) \/ EffectRefused(c, r) \/ EffectUnsure(c, r)
    /\ UNCHANGED <<kind, row, runVars, wins, overlapped, failVars, crashed>>

\* env.request_resolve: remove the Sender and send. Without one the call fails
\* with 400; the receiver lives as long as the Sender is in the map.
Resolve(c) ==
    /\ At(c, "resolve")
    /\ LET r == call[c].id
       IN  IF r \in waiters
           THEN /\ waiters' = waiters \ {r}
                /\ chan' = [chan EXCEPT ![r] = call[c].op]
                /\ wins' = [wins EXCEPT ![r] = @ + 1]
           ELSE UNCHANGED <<waiters, chan, wins>>
    /\ Return(c)
    /\ UNCHANGED <<kind, row, runpc, runrow, answer, hasResult,
                   effects, unsure, overlapped, failVars, crashed>>

CallStep(c) ==
    Check(c) \/ Fetch(c) \/ Delete(c) \/ Insert(c) \/ SideEffect(c) \/ Resolve(c)

-----------------------------------------------------------------------------
\* The process dies and is started again: rows persist, threads and waiters
\* do not. What was raised and not answered stays unanswered. (The channels die
\* with their receivers: chan keeps what was sent and nothing reads it again.)
Crash ==
    /\ waiters' = {}
    /\ runpc' = [r \in Requests |-> IF runpc[r] \in {"new", "done"} THEN runpc[r] ELSE "lost"]
    /\ answer' = [r \in Requests |-> IF runpc[r] \in {"new", "done", "lost"}
                                     THEN answer[r] ELSE "lost"]
    /\ runrow' = [r \in Requests |-> NoRow]
    /\ call' = [c \in Calls |-> NoCall]
    /\ crashed' = TRUE
    /\ UNCHANGED <<kind, row, chan, hasResult, wins, effects, unsure, overlapped, failVars>>

Next ==
    \/ \E r \in Requests : Persist(r) \/ RunStep(r)
    \/ \E c \in Calls, r \in Requests, o \in {"accepted", "rejected"} : Begin(c, r, o)
    \/ \E c \in Calls : CallStep(c)
    \/ Crash

Spec == Init /\ [][Next]_vars

\* Threads are scheduled: whatever was started goes on. Nobody has to raise a
\* request, answer a prompt or crash.
Fairness ==
    /\ \A r \in Requests : WF_vars(RunStep(r))
    /\ \A c \in Calls : WF_vars(CallStep(c))

FairSpec == Spec /\ Fairness

-----------------------------------------------------------------------------
(* Properties. *)

\* The queue keeps its promise: one decision per prompt, an acceptance only
\* after its side effect, an answer that is the decision, a time-out or nothing.
Promise == INSTANCE ApprovalPromise WITH
    state   <- [r \in Requests |-> IF runpc[r] = "new" THEN "new"
                                   ELSE IF Gone(r) THEN "closed" ELSE "open"],
    wins    <- wins,
    verdict <- [r \in Requests |-> IF chan[r] = "empty" THEN "none" ELSE chan[r]],
    done    <- [r \in Requests |-> HasEffect(r) => effects[r] > 0],
    answer  <- answer

\* The queue implements ApprovalPromise (request_resolve removes the waiter it
\* answers; approve performs the side effect before it responds).
KeepsPromise == Promise!Spec

\* At most one approve or reject is told that it decided a request, and what the
\* dApp is told is what that call decided, however calls, the time-out and a
\* restart interleave (request_resolve, Receive and Reload of `run`).
SingleWinner ==
    \A r \in Requests :
        /\ wins[r] <= 1
        /\ answer[r] \in {"accepted", "rejected"} => wins[r] = 1 /\ chan[r] = answer[r]

\* A dApp told "accepted" got what it asked for: the side effect has happened
\* (approve: the side effect comes before respond).
AcceptedWasDone ==
    \A r \in Requests : answer[r] = "accepted" /\ HasEffect(r) => effects[r] > 0

\* A call that begins after the dApp got its answer, or after a restart left a
\* "pending" row behind, performs no side effect and rewrites no row (claim's
\* request_pending check).
LateCallHarmless ==
    \A c \in Calls : call[c] # NoCall /\ call[c].late => call[c].pc = "check"

\* Once the prompt is on screen and until its time-out, a request that no call is
\* working on can be answered: its waiter is there and its row is "pending",
\* whatever earlier approvals failed, and even when two of them collided: unless an
\* INSERT failed after its DELETE, or release could not read or save
\* (register before broadcast; release after every failure).
PromptIsAnswerable ==
    \A r \in Requests \ stranded :
        /\ runpc[r] = "wait" /\ chan[r] = "empty"
        /\ \A c \in Calls : ~About(c, r)
        => r \in waiters /\ row[r] # NoRow /\ row[r].status = "pending"

\* When the host never has two calls about one request in flight, and no error
\* hides a side effect that happened, the effect happens at most once and never
\* for a request whose dApp is told "rejected" (claim and respond).
EffectOnceIfSerial ==
    \A r \in Requests \ (overlapped \cup unsure) :
        effects[r] <= 1 /\ (answer[r] = "rejected" => effects[r] = 0)

\* Under the same discipline an accepted signature or chain switch reaches the
\* dApp with its Result, unless a statement that should keep or read the row failed
\* unnoticed (the Result is saved before the waiter is resolved).
ResultReachesDapp ==
    \A r \in Requests \ (overlapped \cup stranded \cup unread) :
        answer[r] = "accepted" /\ HasResult(r) => hasResult[r]

\* `run` always ends: the dApp is answered, or the process died.
EveryPromptEnds == \A r \in Requests : runpc[r] = "register" ~> Gone(r)

\* claim: "Atomically move a still-pending request into `processing` so
\* approve/reject side effects run at most once" (handlers/request.rs). Side
\* effects counted here are only the ones that reported success.
EffectAtMostOnce ==
    \A r \in Requests \ unsure : effects[r] <= 1

=============================================================================
