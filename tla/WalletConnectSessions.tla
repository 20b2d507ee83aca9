----------------------- MODULE WalletConnectSessions -----------------------
(***************************************************************************)
(* WalletConnect (wcmanager.rs, walletconnect.rs, models/wc_session.rs,    *)
(* handlers/wc.rs, env.rs): the host pairs with a dApp, approves or        *)
(* rejects the session it proposes and ends sessions; a reader thread      *)
(* takes what the relay delivers. Sessions are rows of the database, so    *)
(* they outlive the process; subscriptions belong to the connection, and   *)
(* the proposals to answer to the manager, both made anew by every start.  *)
(*                                                                         *)
(* A call keeps the manager it found and holds its lock; its steps are the *)
(* statements that send or write, which may fail, and between which the    *)
(* process may end. A topic is known by the pairing or the proposal it is  *)
(* derived from. Answers to requests and events change no state.           *)
(***************************************************************************)
EXTENDS Naturals, Sequences

CONSTANTS Clients,   \* threads of the host's calls
          Pairings,  \* pairing URIs
          Proposals, \* proposals of dApps; also the sessions they become
          MaxStarts, \* bound: connections to the relay
          Nobody     \* no call, proposal or pairing

ASSUME SessionsAssumption == MaxStarts \in Nat

Topics == Pairings \cup Proposals
Stages == {"insert", "listen", "subscribe", "store", "settle", "respond", "refuse", "notify", "close"}
Calls  == [does : {"pair", "approve", "reject", "disconnect"}, topic : Topics,
           manager : 1..MaxStarts, pc : {"lock"} \cup Stages]
Frame  == [topic : Topics, kind : {"propose", "request", "delete"}, of : Proposals]

VARIABLES
    table,    \* table[t]: the state of the row of topic t, or "none"
    managers, \* managers[n]: what the n-th connection subscribed to, and its proposals
    started,  \* the manager calls find, or 0
    calls,    \* calls[c]: the call a thread runs, or Nobody
    mail,     \* frames the relay holds for the wallet
    offered,  \* offered[p]: the pairing over which a dApp proposed p, or Nobody
    said,     \* said[p]: what the wallet told the dApp about p
    shown,    \* frames handed to the host
    \* History:
    cut       \* topics of connections that ended

sessionVars == <<table, managers, started, calls, mail, offered, said, shown, cut>>
relayVars   == <<mail, offered, shown>>

SessionsTypeOK ==
    /\ table \in [Topics -> {"none", "pairing", "active", "disconnected"}]
    /\ managers \in Seq([subs : SUBSET Topics, pending : [Pairings -> Proposals \cup {Nobody}]])
    /\ started \in 0..Len(managers) /\ Len(managers) <= MaxStarts
    /\ calls \in [Clients -> Calls \cup {Nobody}]
    /\ mail \subseteq Frame /\ shown \subseteq Frame
    /\ offered \in [Proposals -> Pairings \cup {Nobody}]
    /\ said \in [Proposals -> SUBSET {"settle", "response", "refusal", "delete"}]
    /\ cut \subseteq Topics

SessionsInit ==
    /\ table = [t \in Topics |-> "none"]
    /\ managers = <<>> /\ started = 0
    /\ calls = [c \in Clients |-> Nobody]
    /\ mail = {} /\ shown = {} /\ cut = {}
    /\ offered = [p \in Proposals |-> Nobody]
    /\ said = [p \in Proposals |-> {}]

-----------------------------------------------------------------------------
(* The connection. *)

Known == {t \in Topics : table[t] # "none"}

\* wc_start: refused while a manager runs.
WcConnect ==
    /\ started = 0 /\ Len(managers) < MaxStarts
    /\ managers' = Append(managers, [subs |-> {}, pending |-> [t \in Pairings |-> Nobody]])
    /\ started' = Len(managers) + 1
    /\ UNCHANGED <<table, calls, relayVars, said, cut>>

\* wc_stop: calls under way keep the manager they found.
WcDisconnect ==
    /\ started # 0 /\ started' = 0
    /\ cut' = cut \cup Known
    /\ UNCHANGED <<table, managers, calls, relayVars, said>>

\* The process ends; only the rows stay.
WcProcessEnds ==
    /\ started' = 0 /\ calls' = [c \in Clients |-> Nobody]
    /\ cut' = cut \cup Known
    /\ started # 0 \/ calls # calls'
    /\ UNCHANGED <<table, managers, relayVars, said>>

-----------------------------------------------------------------------------
(* Calls. *)

Held(n)   == \E c \in Clients : calls[c] # Nobody /\ calls[c].manager = n /\ calls[c].pc # "lock"
At(c, pc) == calls[c] # Nobody /\ calls[c].pc = pc
GoOn(c, pc)  == calls' = [calls EXCEPT ![c].pc = pc]
Return(c) == calls' = [calls EXCEPT ![c] = Nobody]

\* Mutants: the row is written last; the row is written before the subscription.
ApproveOrder_RowLast  == <<"subscribe", "settle", "respond", "store">>
ApproveOrder_RowFirst == <<"store", "subscribe", "settle", "respond">>

\* What approve does, in its order.
ApproveOrder == <<"subscribe", "store", "settle", "respond">>

After(pc) == LET n == CHOOSE n \in DOMAIN ApproveOrder : ApproveOrder[n] = pc
             IN IF n = Len(ApproveOrder) THEN "done" ELSE ApproveOrder[n + 1]
Proceed(c) == IF After(calls[c].pc) = "done" THEN Return(c) ELSE GoOn(c, After(calls[c].pc))

FirstStage(k) == CASE k = "pair"    -> "insert"
                   [] k = "approve" -> ApproveOrder[1]
                   [] k = "reject"  -> "refuse"
                   [] OTHER         -> "notify"

\* A call finds the manager; the host approves what it was shown.
Call(c, k, t) ==
    /\ calls[c] = Nobody /\ started # 0
    /\ k \in {"pair", "reject"} => t \in Pairings
    /\ k = "approve" => \E f \in shown : f.kind = "propose" /\ f.of = t
    /\ calls' = [calls EXCEPT ![c] = [does |-> k, topic |-> t, manager |-> started, pc |-> "lock"]]
    /\ UNCHANGED <<table, managers, started, relayVars, said, cut>>

\* The lock; approve and disconnect then find the row of the pairing or the topic.
Lock(c) ==
    /\ At(c, "lock") /\ ~Held(calls[c].manager)
    /\ LET j == calls[c]
           found == CASE j.does = "approve"    -> table[offered[j.topic]] # "none"
                      [] j.does = "disconnect" -> table[j.topic] # "none"
                      [] OTHER                 -> TRUE
       IN IF found THEN GoOn(c, FirstStage(j.does)) ELSE Return(c)
    /\ UNCHANGED <<table, managers, started, relayVars, said, cut>>

Subscribes(n, t) == managers' = [managers EXCEPT ![n].subs = @ \cup {t}]

\* create_pairing, create_active: the topic is unique.
Insert(c, state) ==
    /\ table' = [table EXCEPT ![calls[c].topic] = state]
    /\ cut' = IF calls[c].manager = started THEN cut ELSE cut \cup {calls[c].topic}

PairInsert(c) ==
    /\ At(c, "insert")
    /\ IF table[calls[c].topic] = "none" THEN Insert(c, "pairing") /\ GoOn(c, "listen")
       ELSE Return(c) /\ UNCHANGED <<table, cut>>
    /\ UNCHANGED <<managers, started, relayVars, said>>

PairSubscribe(c) ==
    /\ At(c, "listen") /\ Return(c)
    /\ Subscribes(calls[c].manager, calls[c].topic)
    /\ UNCHANGED <<table, started, relayVars, said, cut>>

ApproveSubscribe(c) ==
    /\ At(c, "subscribe") /\ Proceed(c)
    /\ Subscribes(calls[c].manager, calls[c].topic)
    /\ UNCHANGED <<table, started, relayVars, said, cut>>

ApproveStore(c) ==
    /\ At(c, "store")
    /\ IF table[calls[c].topic] = "none" THEN Insert(c, "active") /\ Proceed(c)
       ELSE Return(c) /\ UNCHANGED <<table, cut>>
    /\ UNCHANGED <<managers, started, relayVars, said>>

Tells(p, x) == said' = [said EXCEPT ![p] = @ \cup {x}]
Forgets(n, t) == managers' = [managers EXCEPT ![n].pending[t] = Nobody]

ApproveSettle(c) ==
    /\ At(c, "settle") /\ Proceed(c)
    /\ Tells(calls[c].topic, "settle")
    /\ UNCHANGED <<table, managers, started, relayVars, cut>>

\* The answer over the pairing; then whatever that pairing proposed is not pending.
ApproveRespond(c) ==
    /\ At(c, "respond") /\ Proceed(c)
    /\ Tells(calls[c].topic, "response")
    /\ Forgets(calls[c].manager, offered[calls[c].topic])
    /\ UNCHANGED <<table, started, relayVars, cut>>

\* reject: the proposal is not pending any more, whether or not the refusal is sent.
Refuse(c) ==
    /\ At(c, "refuse") /\ Return(c)
    /\ LET n == calls[c].manager  p == managers[n].pending[calls[c].topic] IN
       \/ p = Nobody /\ UNCHANGED <<managers, said>>
       \/ p # Nobody /\ Forgets(n, calls[c].topic)
          /\ (Tells(p, "refusal") \/ said' = said)
    /\ UNCHANGED <<table, started, relayVars, cut>>

\* disconnect: the peer is told if it can be.
Notify(c) ==
    /\ At(c, "notify") /\ GoOn(c, "close")
    /\ said' = said \/ (calls[c].topic \in Proposals /\ Tells(calls[c].topic, "delete"))
    /\ UNCHANGED <<table, managers, started, relayVars, cut>>

Close(c) ==
    /\ At(c, "close") /\ Return(c)
    /\ table' = [table EXCEPT ![calls[c].topic] = "disconnected"]
    /\ UNCHANGED <<managers, started, relayVars, said, cut>>

\* A frame cannot be sent: the call fails where it is.
SendFails(c) ==
    /\ \E pc \in {"listen", "subscribe", "settle", "respond"} : At(c, pc)
    /\ Return(c)
    /\ UNCHANGED <<table, managers, started, relayVars, said, cut>>

-----------------------------------------------------------------------------
(* The relay and the dApp. *)

\* pump: the frame is acknowledged, then opened with the keys of its topic's row.
Pump(f) ==
    /\ started # 0 /\ ~Held(started)
    /\ f \in mail /\ f.topic \in managers[started].subs
    /\ mail' = mail \ {f}
    /\ IF table[f.topic] = "none" THEN UNCHANGED <<managers, shown>>
       ELSE /\ shown' = shown \cup {f}
            /\ managers' = IF f.kind = "propose" /\ f.topic \in Pairings
                           THEN [managers EXCEPT ![started].pending[f.topic] = f.of]
                           ELSE managers
    /\ UNCHANGED <<table, started, calls, offered, said, cut>>

Settled(p) == {"settle", "response"} \subseteq said[p]

Propose(p, t) ==
    /\ offered[p] = Nobody
    /\ offered' = [offered EXCEPT ![p] = t]
    /\ mail' = mail \cup {[topic |-> t, kind |-> "propose", of |-> p]}
    /\ UNCHANGED <<table, managers, started, calls, said, shown, cut>>

\* A request over a session, or its end.
PeerSends(p, k) ==
    /\ Settled(p)
    /\ LET f == [topic |-> p, kind |-> k, of |-> p] IN
       f \notin mail \cup shown /\ mail' = mail \cup {f}
    /\ UNCHANGED <<table, managers, started, calls, offered, said, shown, cut>>

CallStep(c) ==
    \/ Lock(c) \/ PairInsert(c) \/ PairSubscribe(c)
    \/ ApproveSubscribe(c) \/ ApproveStore(c) \/ ApproveSettle(c) \/ ApproveRespond(c)
    \/ Refuse(c) \/ Notify(c) \/ Close(c) \/ SendFails(c)

SessionsNext ==
    \/ WcConnect \/ WcDisconnect \/ WcProcessEnds
    \/ \E c \in Clients, k \in {"pair", "approve", "reject", "disconnect"}, t \in Topics : Call(c, k, t)
    \/ \E c \in Clients : CallStep(c)
    \/ \E f \in mail : Pump(f)
    \/ \E p \in Proposals, t \in Pairings : Propose(p, t)
    \/ \E p \in Proposals, k \in {"request", "delete"} : PeerSends(p, k)

SessionsSpec == SessionsInit /\ [][SessionsNext]_sessionVars

-----------------------------------------------------------------------------
\* A session the dApp considers settled has its row, and with it the key its
\* requests are read with, wherever approve was interrupted and whatever ran next
\* to it.
SettledIsKept == \A p \in Proposals : Settled(p) => table[p] \in {"active", "disconnected"}

\* A session listed as active is one the connection hears, unless that connection is
\* not the one it was approved over (nothing subscribes again after a restart).
ActiveIsHeard ==
    started # 0 => \A p \in Proposals : table[p] = "active" => p \in managers[started].subs \cup cut
=============================================================================
