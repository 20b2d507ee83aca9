---------------------------- MODULE CeremonyHub ----------------------------
(***************************************************************************)
(* The router of a reshare with a remote participant (reshare.rs): each    *)
(* local party runs on a thread and sends through its broker; a broker     *)
(* hands a message to the handler of its type or buffers it until a party  *)
(* connects one; the messages of the remote party arrive on the thread of  *)
(* the Spot client, among them the report of a failure there. The thread   *)
(* of the request starts the parties and collects their results, watching  *)
(* for such a report and for a deadline.                                   *)
(*                                                                         *)
(* The parties are the TSS library's: in each round a party connects a     *)
(* handler for the round's messages, sends its own, and goes on when it    *)
(* heard everybody's. A message is known by its sender and its round.      *)
(***************************************************************************)
EXTENDS Naturals, FiniteSets

CONSTANTS Locals, \* parties on this device
          Remote, \* the party of the remote share
          Rounds, \* bound: rounds of messages
          Spot,   \* the thread of the Spot client
          Naught  \* no message in hand

ASSUME HubAssumption == Rounds \in Nat \ {0} /\ Remote \notin Locals /\ Spot \notin Locals

Parties  == Locals \cup {Remote}
Messages == [from : Parties, round : 1..Rounds]
Sends    == [to : Locals, msg : Messages]
Outcomes == {"refused", "shares", "party", "reason", "timeout"}

VARIABLES
    phase,     \* where the request is: wire, arm, init, collect, check, recv, or an outcome
    hook,      \* the hub's handler of failures is installed
    fired,     \* a failure was reported to the hub
    reason,    \* the report reached the collector's slot
    armed,     \* the Spot client hands the remote's messages to this ceremony
    late,      \* the deadline is past
    round,     \* round[p]: the round a local party is in, 0 before it starts
    todo,      \* todo[t]: messages thread t has yet to deliver in this process
    hand,      \* hand[t]: the message t found no handler for, before it buffers it
    connected, \* connected[p]: rounds p has a handler for
    buffer,    \* buffer[p]: messages waiting for a handler
    heard,     \* heard[p]: messages handed to p
    results,   \* results in the channel, by party
    got,       \* the number of results collected
    sentAway,  \* rounds whose messages the remote party sent
    \* History:
    failed,    \* the remote party reported its failure
    raced      \* messages whose handler was connected while they were in hand

hubVars    == <<phase, hook, fired, reason, armed, late, round, todo, hand, connected, buffer, heard,
                results, got, sentAway, failed, raced>>
brokerVars == <<todo, hand, connected, buffer, heard, raced>>
guardVars  == <<hook, fired, reason, armed, late>>

Threads == Locals \cup {Spot}

\* The hub lives as long as the request: a party still running after it sends nowhere.
Collecting == phase \in {"check", "clock", "recv"}
Reachable  == phase = "init" \/ Collecting

HubTypeOK ==
    /\ phase \in {"wire", "arm", "init", "check", "clock", "recv"} \cup Outcomes
    /\ {hook, fired, reason, armed, late, failed} \subseteq BOOLEAN
    /\ round \in [Locals -> 0..Rounds + 1]
    /\ todo \in [Threads -> SUBSET Sends]
    /\ \A t \in Threads : hand[t] \in Sends \cup {Naught}
    /\ connected \in [Locals -> SUBSET (1..Rounds)]
    /\ buffer \in [Locals -> SUBSET Messages] /\ heard \in [Locals -> SUBSET Messages]
    /\ results \in [Locals -> {"none", "share", "error", "panic", "taken"}]
    /\ got \in 0..Cardinality(Locals) /\ sentAway \subseteq 1..Rounds
    /\ raced \subseteq Sends

HubInit ==
    /\ phase = "wire"
    /\ hook = FALSE /\ fired = FALSE /\ reason = FALSE /\ armed = FALSE /\ late = FALSE
    /\ round = [p \in Locals |-> 0]
    /\ todo = [t \in Threads |-> {}] /\ hand = [t \in Threads |-> Naught]
    /\ connected = [p \in Locals |-> {}] /\ buffer = [p \in Locals |-> {}] /\ heard = [p \in Locals |-> {}]
    /\ results = [p \in Locals |-> "none"] /\ got = 0
    /\ sentAway = {} /\ failed = FALSE /\ raced = {}

-----------------------------------------------------------------------------
(* The request: setup_ceremony. *)

\* The failure handler, then the local parties' brokers.
Wire ==
    /\ phase = "wire" /\ phase' = "arm" /\ hook' = TRUE
    /\ UNCHANGED <<fired, reason, armed, late, round, brokerVars, results, got, sentAway, failed>>

Arm ==
    /\ phase = "arm" /\ phase' = "init" /\ armed' = TRUE
    /\ UNCHANGED <<hook, fired, reason, late, round, brokerVars, results, got, sentAway, failed>>

\* select_peer and the init query; either may fail. Then the parties are spawned.
InitQuery ==
    /\ phase = "init" /\ phase' \in {"check", "refused"}
    /\ UNCHANGED <<guardVars, round, brokerVars, results, got, sentAway, failed>>

-----------------------------------------------------------------------------
(* Brokers. *)

\* Mutant: what waited is left where it is.
Connect_NoDrain(p, r) ==
    /\ connected' = [connected EXCEPT ![p] = @ \cup {r}]
    /\ raced' = raced \cup {d \in {hand[t] : t \in Threads} \ {Naught} : d.to = p /\ d.msg.round = r}
    /\ UNCHANGED <<heard, buffer>>

\* Party p connects its handler of round r and takes what waited for it, in one step.
Connect(p, r) ==
    /\ connected' = [connected EXCEPT ![p] = @ \cup {r}]
    /\ heard' = [heard EXCEPT ![p] = @ \cup {m \in buffer[p] : m.round = r}]
    /\ buffer' = [buffer EXCEPT ![p] = {m \in @ : m.round # r}]
    /\ raced' = raced \cup {d \in {hand[t] : t \in Threads} \ {Naught} : d.to = p /\ d.msg.round = r}

\* LocalBroker::receive looks the handler up, and lets go of the handlers ...
LookUp(t, d) ==
    /\ Reachable /\ hand[t] = Naught /\ d \in todo[t]
    /\ todo' = [todo EXCEPT ![t] = @ \ {d}]
    /\ IF d.msg.round \in connected[d.to]
       THEN heard' = [heard EXCEPT ![d.to] = @ \cup {d.msg}] /\ hand' = hand
       ELSE hand' = [hand EXCEPT ![t] = d] /\ heard' = heard
    /\ UNCHANGED <<phase, guardVars, round, connected, buffer, results, got, sentAway, failed, raced>>

\* ... before it buffers a message that has none.
Push(t) ==
    /\ hand[t] # Naught
    /\ buffer' = [buffer EXCEPT ![hand[t].to] = @ \cup {hand[t].msg}]
    /\ hand' = [hand EXCEPT ![t] = Naught]
    /\ UNCHANGED <<phase, guardVars, round, todo, connected, heard, results, got, sentAway, failed, raced>>

-----------------------------------------------------------------------------
(* The parties. *)

Runs(p) == results[p] = "none" /\ todo[p] = {} /\ hand[p] = Naught
EverybodysOf(p, r) == {[from |-> q, round |-> r] : q \in Parties \ {p}}

Enter(p, r) ==
    /\ round' = [round EXCEPT ![p] = r]
    /\ Connect(p, r)
    /\ todo' = [todo EXCEPT ![p] = {[to |-> q, msg |-> [from |-> p, round |-> r]] : q \in Locals \ {p}}]

StartParty(p) ==
    /\ Collecting /\ Runs(p) /\ round[p] = 0 /\ Enter(p, 1)
    /\ UNCHANGED <<phase, guardVars, hand, results, got, sentAway, failed>>

NextRound(p) ==
    /\ Collecting /\ Runs(p) /\ round[p] \in 1..Rounds - 1
    /\ EverybodysOf(p, round[p]) \subseteq heard[p]
    /\ Enter(p, round[p] + 1)
    /\ UNCHANGED <<phase, guardVars, hand, results, got, sentAway, failed>>

\* The last round ends; or a message could not be sent, or made no sense; or the
\* thread dies.
PartyEnds(p, x) ==
    /\ Collecting /\ Runs(p) /\ round[p] # 0
    /\ x = "share" => round[p] = Rounds /\ EverybodysOf(p, Rounds) \subseteq heard[p]
    /\ results' = [results EXCEPT ![p] = x]
    /\ UNCHANGED <<phase, guardVars, round, brokerVars, got, sentAway, failed>>

\* The remote party, once it was asked: a round's messages, when it heard the ones before.
RemoteSends(r) ==
    /\ Reachable /\ armed /\ ~failed /\ r \notin sentAway
    /\ r > 1 => r - 1 \in sentAway /\ \A p \in Locals : round[p] >= r - 1
    /\ todo[Spot] = {} /\ hand[Spot] = Naught
    /\ sentAway' = sentAway \cup {r}
    /\ todo' = [todo EXCEPT ![Spot] = {[to |-> p, msg |-> [from |-> Remote, round |-> r]] : p \in Locals}]
    /\ UNCHANGED <<phase, guardVars, round, hand, connected, buffer, heard, results, got, failed, raced>>

\* Its report of a failure: Hub::fail runs the handler once.
RemoteFails ==
    /\ Reachable /\ armed /\ ~failed
    /\ todo[Spot] = {} /\ hand[Spot] = Naught
    /\ failed' = TRUE /\ fired' = TRUE
    /\ UNCHANGED <<phase, hook, reason, armed, late, round, brokerVars, results, got, sentAway>>

ReasonLands ==
    /\ fired /\ hook /\ ~reason /\ reason' = TRUE
    /\ UNCHANGED <<phase, hook, fired, armed, late, round, brokerVars, results, got, sentAway, failed>>

\* Another ceremony with the same remote share arms its own handler in place of this one.
Usurped ==
    /\ armed /\ Reachable /\ armed' = FALSE
    /\ UNCHANGED <<phase, hook, fired, reason, late, round, brokerVars, results, got, sentAway, failed>>

-----------------------------------------------------------------------------
(* The collector: collect_reshared and RoundsGuard. *)

Deadline ==
    /\ phase \in {"init", "check", "clock", "recv"} /\ ~late /\ late' = TRUE
    /\ UNCHANGED <<phase, hook, fired, reason, armed, round, brokerVars, results, got, sentAway, failed>>

\* Mutant: the deadline before the remote's reason.
Wrap_DeadlineFirst(hitDeadline) == IF hitDeadline THEN "timeout" ELSE IF reason THEN "reason" ELSE "party"

\* RoundsGuard::wrap: the remote's reason before the deadline before the party's error.
Wrap(hitDeadline) == CASE reason                 -> "reason"
                       [] ~reason /\ hitDeadline -> "timeout"
                       [] OTHER                  -> "party"

CheckReason ==
    /\ phase = "check"
    /\ phase' = IF reason THEN "reason" ELSE "clock"
    /\ UNCHANGED <<guardVars, round, brokerVars, results, got, sentAway, failed>>

CheckClock ==
    /\ phase = "clock"
    /\ phase' = IF late THEN Wrap(TRUE) ELSE "recv"
    /\ UNCHANGED <<guardVars, round, brokerVars, results, got, sentAway, failed>>

\* One result; or none for 250 ms; or every sender is gone.
Receive ==
    /\ phase = "recv"
    /\ \/ \E p \in Locals :
            /\ results[p] \in {"share", "error"}
            /\ results' = [results EXCEPT ![p] = "taken"]
            /\ got' = got + 1
            /\ phase' = CASE results[p] = "error"            -> Wrap(FALSE)
                          [] results[p] = "share" /\ got + 1 = Cardinality(Locals) -> "shares"
                          [] OTHER                           -> "check"
       \/ phase' = "check" /\ UNCHANGED <<results, got>>
       \/ /\ \A p \in Locals : results[p] \in {"taken", "panic"}
          /\ phase' = "shares" /\ UNCHANGED <<results, got>>
    /\ UNCHANGED <<guardVars, round, brokerVars, sentAway, failed>>

HubNext ==
    \/ Wire \/ Arm \/ InitQuery
    \/ \E t \in Threads : Push(t) \/ \E d \in todo[t] : LookUp(t, d)
    \/ \E p \in Locals : StartParty(p) \/ NextRound(p) \/ \E x \in {"share", "error", "panic"} : PartyEnds(p, x)
    \/ \E r \in 1..Rounds : RemoteSends(r)
    \/ RemoteFails \/ ReasonLands \/ Usurped
    \/ Deadline \/ CheckReason \/ CheckClock \/ Receive

HubSpec == HubInit /\ [][HubNext]_hubVars

-----------------------------------------------------------------------------
\* A message waits in a broker's buffer only for a party that has not connected its
\* handler, except where the handler was connected between the lookup that did not
\* find it and the push.
WaitsForHandler ==
    \A p \in Locals : \A m \in buffer[p] :
        m.round \in connected[p] => [to |-> p, msg |-> m] \in raced

\* A ceremony given up at the deadline had no report of the remote party to tell: none
\* had reached it, and none came before its handler was there.
NoReportMissed == [][phase' = "timeout" /\ phase # "timeout" => ~reason /\ (fired => hook)]_hubVars

=============================================================================
