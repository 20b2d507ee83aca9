---------------------------- MODULE FfiHandle ----------------------------
(***************************************************************************)
(* One session handle of the C interface (lib.rs, handle.rs) and the       *)
(* threads that can call the host back: the worker of each request, the    *)
(* WalletConnect reader and the Spot `transfer` handlers (env.rs). The     *)
(* host's own threads call LibwalletRequest, LibwalletSetEventCallback and *)
(* LibwalletDestroy; the last has to leave nothing behind that calls back. *)
(*                                                                         *)
(* A step runs from one lock, flag or reference count that another thread  *)
(* can change to the next. The host's callbacks return by themselves.      *)
(***************************************************************************)
EXTENDS Naturals

CONSTANTS Requests, \* calls of LibwalletRequest
          Queries,  \* `transfer` messages of other devices
          Setters,  \* calls of LibwalletSetEventCallback
          Overlap   \* may the last be in progress while LibwalletDestroy is?

ASSUME HostAssumption == Overlap \in BOOLEAN

VARIABLES
    registered, \* the handle is in REGISTRY
    shutdown,   \* Handle::shutdown
    inflight,   \* Handle::inflight
    sink,       \* Env::event_sink holds a callback
    sinkHeld,   \* its mutex is held by a thread that is inside the callback
    wc,         \* Env::wc holds a runtime
    wcHeld,     \* its mutex is held by a thread that joins the reader
    stop,       \* WcRuntime::stop of the last runtime
    spot,       \* Env::spot holds a client
    req,        \* where each request is
    query,      \* where each transfer query is
    setter,     \* where each LibwalletSetEventCallback is
    reader,     \* where the WalletConnect reader is
    destroy     \* where LibwalletDestroy is

locks == <<sinkHeld, wcHeld>>
vars  == <<registered, shutdown, inflight, sink, wc, stop, spot, locks,
           req, query, setter, reader, destroy>>

ReqPc     == {"idle", "called", "running", "event", "inside", "starting", "stopping",
              "joining", "progress", "keygen", "replying", "leaving", "ended"}
QueryPc   == {"idle", "up", "inside", "parked", "ended"}
SetterPc  == {"idle", "got", "checked", "ended"}
ReaderPc  == {"off", "top", "upgrade", "up", "inside"}
DestroyPc == {"idle", "removed", "joining", "spot", "sink", "flag", "waiting", "returned"}

\* The requests whose worker holds an InflightGuard.
Inflight == {r \in Requests : req[r] \notin {"idle", "called", "ended"}}

TypeOK ==
    /\ registered \in BOOLEAN /\ shutdown \in BOOLEAN
    /\ inflight \in Nat
    /\ sink \in BOOLEAN /\ sinkHeld \in BOOLEAN
    /\ wc \in BOOLEAN /\ wcHeld \in BOOLEAN /\ stop \in BOOLEAN
    /\ spot \in BOOLEAN
    /\ req \in [Requests -> ReqPc]
    /\ query \in [Queries -> QueryPc]
    /\ setter \in [Setters -> SetterPc]
    /\ reader \in ReaderPc
    /\ destroy \in DestroyPc

\* LibwalletInit has returned the handle.
Init ==
    /\ registered = TRUE /\ shutdown = FALSE
    /\ inflight = 0
    /\ sink = FALSE /\ sinkHeld = FALSE
    /\ wc = FALSE /\ wcHeld = FALSE /\ stop = FALSE
    /\ spot = FALSE
    /\ req = [r \in Requests |-> "idle"]
    /\ query = [q \in Queries |-> "idle"]
    /\ setter = [s \in Setters |-> "idle"]
    /\ reader = "off"
    /\ destroy = "idle"

\* Someone holds an Arc of the handle or of its Env: what Weak::upgrade tests.
EnvAlive ==
    \/ registered
    \/ destroy \notin {"idle", "returned"}
    \/ \E r \in Requests : req[r] \notin {"idle", "ended"}
    \/ \E s \in Setters : setter[s] \in {"got", "checked"}
    \/ \E q \in Queries : query[q] \notin {"idle", "ended"}
    \/ reader \in {"up", "inside"}

-----------------------------------------------------------------------------
(* LibwalletRequest and its worker. *)

Goto(r, pc) == req' = [req EXCEPT ![r] = pc]

\* get_handle. An unknown handle is answered on the caller's own thread.
Call(r) ==
    /\ req[r] = "idle"
    /\ Goto(r, IF registered THEN "called" ELSE "ended")
    /\ UNCHANGED <<registered, shutdown, inflight, sink, wc, stop, spot, locks,
                   query, setter, reader, destroy>>

\* Mutant: no barrier.
BeginRequest_NoBarrier(r) ==
    /\ req[r] = "called"
    /\ Goto(r, "running") /\ inflight' = inflight + 1
    /\ UNCHANGED <<registered, shutdown, sink, wc, stop, spot, locks,
                   query, setter, reader, destroy>>

\* begin_request, under the lock of `inflight`. A refusal is answered on the
\* caller's own thread; otherwise the worker is spawned.
BeginRequest(r) ==
    /\ req[r] = "called"
    /\ \/ shutdown /\ Goto(r, "ended") /\ UNCHANGED inflight
       \/ ~shutdown /\ Goto(r, "running") /\ inflight' = inflight + 1
    /\ UNCHANGED <<registered, shutdown, sink, wc, stop, spot, locks,
                   query, setter, reader, destroy>>

\* A handler goes for a mutex of the Env, to broadcast an event or to start or
\* stop WalletConnect, or reports progress, which is dropped once the handle is
\* shutting down.
HandlerActs(r) ==
    /\ req[r] = "running"
    /\ \/ \E pc \in {"event", "starting", "stopping"} : Goto(r, pc)
       \/ ~shutdown /\ Goto(r, "progress")
    /\ UNCHANGED <<registered, shutdown, inflight, sink, wc, stop, spot, locks,
                   query, setter, reader, destroy>>

\* The progress callback returns.
Progress(r) ==
    /\ req[r] = "progress"
    /\ Goto(r, "running")
    /\ UNCHANGED <<registered, shutdown, inflight, sink, wc, stop, spot, locks,
                   query, setter, reader, destroy>>

\* Env::broadcast takes the sink's mutex and keeps it during the callback.
Broadcast(r) ==
    /\ req[r] = "event"
    /\ ~sinkHeld
    /\ IF sink THEN Goto(r, "inside") /\ sinkHeld' = TRUE
               ELSE Goto(r, "running") /\ UNCHANGED sinkHeld
    /\ UNCHANGED <<registered, shutdown, inflight, sink, wc, stop, spot, wcHeld,
                   query, setter, reader, destroy>>

EventReturns(r) ==
    /\ req[r] = "inside"
    /\ Goto(r, "running") /\ sinkHeld' = FALSE
    /\ UNCHANGED <<registered, shutdown, inflight, sink, wc, stop, spot, wcHeld,
                   query, setter, reader, destroy>>

\* Spot:status, Wallet:exportToDevice, ...: start (or return) the client.
SpotStart(r) ==
    /\ req[r] = "running"
    /\ spot' = TRUE
    /\ UNCHANGED <<registered, shutdown, inflight, sink, wc, stop, locks,
                   req, query, setter, reader, destroy>>

\* WalletConnect:start; it fails when there is a runtime already.
WcStart(r) ==
    /\ req[r] = "starting"
    /\ ~wcHeld
    /\ \/ wc /\ UNCHANGED <<wc, stop, reader>>
       \/ ~wc /\ wc' = TRUE /\ stop' = FALSE /\ reader' = "top"
    /\ Goto(r, "running")
    /\ UNCHANGED <<registered, shutdown, inflight, sink, spot, locks,
                   query, setter, destroy>>

\* WalletConnect:stop: take the runtime, and join the reader with Env::wc locked.
WcStop(r) ==
    /\ req[r] = "stopping"
    /\ ~wcHeld
    /\ \/ ~wc /\ Goto(r, "running") /\ UNCHANGED <<wc, stop, wcHeld>>
       \/ wc /\ wc' = FALSE /\ stop' = TRUE /\ wcHeld' = TRUE /\ Goto(r, "joining")
    /\ UNCHANGED <<registered, shutdown, inflight, sink, spot, sinkHeld,
                   query, setter, reader, destroy>>

WcJoined(r) ==
    /\ req[r] = "joining"
    /\ reader = "off"
    /\ Goto(r, "running") /\ wcHeld' = FALSE
    /\ UNCHANGED <<registered, shutdown, inflight, sink, wc, stop, spot, sinkHeld,
                   query, setter, reader, destroy>>

\* initiate_keygen waits for the other parties of the ceremony, with no deadline:
\* Keygen::wait returns when the last of them has sent its part, or never.
WaitsForParties(r) ==
    /\ req[r] = "running"
    /\ Goto(r, "keygen")
    /\ UNCHANGED <<registered, shutdown, inflight, sink, wc, stop, spot, locks,
                   query, setter, reader, destroy>>

PartiesAnswer(r) ==
    /\ req[r] = "keygen"
    /\ Goto(r, "running")
    /\ UNCHANGED <<registered, shutdown, inflight, sink, wc, stop, spot, locks,
                   query, setter, reader, destroy>>

\* The handler returns (or panics): the worker looks at the flag and replies.
HandlerReturns(r) ==
    /\ req[r] = "running"
    /\ Goto(r, IF shutdown THEN "leaving" ELSE "replying")
    /\ UNCHANGED <<registered, shutdown, inflight, sink, wc, stop, spot, locks,
                   query, setter, reader, destroy>>

\* The response callback returns.
Reply(r) ==
    /\ req[r] = "replying"
    /\ Goto(r, "leaving")
    /\ UNCHANGED <<registered, shutdown, inflight, sink, wc, stop, spot, locks,
                   query, setter, reader, destroy>>

\* Mutant: a worker that replies to nobody is not counted out.
EndRequest_LeaksCount(r) ==
    /\ req[r] = "leaving"
    /\ Goto(r, "ended") /\ inflight' = IF shutdown THEN inflight ELSE inflight - 1
    /\ UNCHANGED <<registered, shutdown, sink, wc, stop, spot, locks,
                   query, setter, reader, destroy>>

\* The guard is dropped: end_request.
EndRequest(r) ==
    /\ req[r] = "leaving"
    /\ Goto(r, "ended") /\ inflight' = inflight - 1
    /\ UNCHANGED <<registered, shutdown, sink, wc, stop, spot, locks,
                   query, setter, reader, destroy>>

\* What a worker has begun goes on; what a handler does next is its own choice.
WorkerStep(r) ==
    \/ BeginRequest(r) \/ Progress(r) \/ Broadcast(r) \/ EventReturns(r)
    \/ WcStart(r) \/ WcStop(r) \/ WcJoined(r) \/ Reply(r) \/ EndRequest(r)

HandlerStep(r) ==
    HandlerActs(r) \/ SpotStart(r) \/ WaitsForParties(r) \/ PartiesAnswer(r)

-----------------------------------------------------------------------------
(* The background threads: wc_start's reader, spot_start's transfer handler. *)

reads == <<registered, shutdown, inflight, sink, wc, stop, spot, wcHeld,
           req, query, setter, destroy>>

\* Mutant: the reader keeps the Env alive by itself.
ReaderUpgrade_Strong ==
    reader = "upgrade" /\ reader' = "up" /\ UNCHANGED <<reads, sinkHeld>>

ReaderUpgrade ==
    /\ reader = "upgrade"
    /\ reader' = IF EnvAlive THEN "up" ELSE "off"
    /\ UNCHANGED <<reads, sinkHeld>>

\* One turn of the loop: look at `stop`, upgrade, pump, broadcast what came in.
ReaderStep ==
    \/ /\ reader = "top"
       /\ reader' = IF stop THEN "off" ELSE "upgrade"
       /\ UNCHANGED <<reads, sinkHeld>>
    \/ ReaderUpgrade
    \/ /\ reader = "up"     \* no frame, or one that does not parse
       /\ reader' = "top"
       /\ UNCHANGED <<reads, sinkHeld>>
    \/ /\ reader = "inside"
       /\ reader' = "top" /\ sinkHeld' = FALSE
       /\ UNCHANGED reads

\* A frame came in: broadcast it if there is a sink.
ReaderEvent ==
    /\ reader = "up"
    /\ ~sinkHeld /\ sink
    /\ reader' = "inside" /\ sinkHeld' = TRUE
    /\ UNCHANGED reads

others == <<registered, shutdown, inflight, sink, wc, stop, spot, wcHeld,
            req, setter, reader, destroy>>

\* A message reaches the client, whose handler upgrades its Weak<Env>.
QueryArrives(q) ==
    /\ query[q] = "idle"
    /\ spot /\ EnvAlive
    /\ query' = [query EXCEPT ![q] = "up"]
    /\ UNCHANGED <<others, sinkHeld>>

\* handle_transfer_query: an unknown session or a wrong token is refused; else
\* the pairing is broadcast, and the handler waits for the host's answer (90 s).
QueryStep(q) ==
    \/ /\ query[q] = "up"
       /\ query' = [query EXCEPT ![q] = "ended"]
       /\ UNCHANGED <<others, sinkHeld>>
    \/ /\ query[q] = "up"
       /\ ~sinkHeld
       /\ query' = [query EXCEPT ![q] = IF sink THEN "inside" ELSE "parked"]
       /\ sinkHeld' = sink
       /\ UNCHANGED others
    \/ /\ query[q] = "inside"
       /\ query' = [query EXCEPT ![q] = "parked"] /\ sinkHeld' = FALSE
       /\ UNCHANGED others
    \/ /\ query[q] = "parked"
       /\ query' = [query EXCEPT ![q] = "ended"]
       /\ UNCHANGED <<others, sinkHeld>>

-----------------------------------------------------------------------------
(* LibwalletSetEventCallback and LibwalletDestroy. *)

SetterBusy == \E s \in Setters : setter[s] \in {"got", "checked"}

\* get_handle.
SetterCalls(s) ==
    /\ setter[s] = "idle"
    /\ Overlap \/ destroy = "idle"
    /\ setter' = [setter EXCEPT ![s] = IF registered THEN "got" ELSE "ended"]
    /\ UNCHANGED <<registered, shutdown, inflight, sink, wc, stop, spot, locks,
                   req, query, reader, destroy>>

\* The check of `shutdown`.
SetterChecks(s) ==
    /\ setter[s] = "got"
    /\ setter' = [setter EXCEPT ![s] = IF shutdown THEN "ended" ELSE "checked"]
    /\ UNCHANGED <<registered, shutdown, inflight, sink, wc, stop, spot, locks,
                   req, query, reader, destroy>>

\* set_event_sink, with the callback or with null.
SetterInstalls(s) ==
    /\ setter[s] = "checked"
    /\ ~sinkHeld
    /\ sink' \in BOOLEAN
    /\ setter' = [setter EXCEPT ![s] = "ended"]
    /\ UNCHANGED <<registered, shutdown, inflight, wc, stop, spot, locks,
                   req, query, reader, destroy>>

\* Out of the registry. A second call finds nothing and returns at once.
Destroy ==
    /\ destroy = "idle"
    /\ Overlap \/ ~SetterBusy
    /\ registered' = FALSE
    /\ destroy' = "removed"
    /\ UNCHANGED <<shutdown, inflight, sink, wc, stop, spot, locks,
                   req, query, setter, reader>>

\* wc_stop.
DestroyStopsWc ==
    /\ destroy = "removed"
    /\ ~wcHeld
    /\ IF wc THEN wc' = FALSE /\ stop' = TRUE /\ wcHeld' = TRUE /\ destroy' = "joining"
             ELSE destroy' = "spot" /\ UNCHANGED <<wc, stop, wcHeld>>
    /\ UNCHANGED <<registered, shutdown, inflight, sink, spot, sinkHeld,
                   req, query, setter, reader>>

DestroyJoins ==
    /\ destroy = "joining"
    /\ reader = "off"
    /\ wcHeld' = FALSE
    /\ destroy' = "spot"
    /\ UNCHANGED <<registered, shutdown, inflight, sink, wc, stop, spot, sinkHeld,
                   req, query, setter, reader>>

\* spot_close: no message is delivered any more; a handler that runs goes on.
DestroyClosesSpot ==
    /\ destroy = "spot"
    /\ spot' = FALSE
    /\ destroy' = "sink"
    /\ UNCHANGED <<registered, shutdown, inflight, sink, wc, stop, locks,
                   req, query, setter, reader>>

\* Mutant: the sink is left to be dropped with the Env.
DestroyClearsSink_Keeps ==
    /\ destroy = "sink"
    /\ destroy' = "flag"
    /\ UNCHANGED <<registered, shutdown, inflight, sink, wc, stop, spot, locks,
                   req, query, setter, reader>>

\* set_event_sink(None).
DestroyClearsSink ==
    /\ destroy = "sink"
    /\ ~sinkHeld
    /\ sink' = FALSE
    /\ destroy' = "flag"
    /\ UNCHANGED <<registered, shutdown, inflight, wc, stop, spot, locks,
                   req, query, setter, reader>>

\* shutdown_and_wait: set the flag under the lock of `inflight`, then wait until
\* it is zero.
DestroySetsFlag ==
    /\ destroy = "flag"
    /\ shutdown' = TRUE
    /\ destroy' = "waiting"
    /\ UNCHANGED <<registered, inflight, sink, wc, stop, spot, locks,
                   req, query, setter, reader>>

DestroyReturnsNow ==
    /\ destroy = "waiting"
    /\ inflight = 0
    /\ destroy' = "returned"
    /\ UNCHANGED <<registered, shutdown, inflight, sink, wc, stop, spot, locks,
                   req, query, setter, reader>>

DestroyStep ==
    \/ DestroyStopsWc \/ DestroyJoins \/ DestroyClosesSpot
    \/ DestroyClearsSink \/ DestroySetsFlag \/ DestroyReturnsNow

Next ==
    \/ \E r \in Requests : Call(r) \/ WorkerStep(r) \/ HandlerStep(r) \/ HandlerReturns(r)
    \/ ReaderStep \/ ReaderEvent
    \/ \E q \in Queries : QueryArrives(q) \/ QueryStep(q)
    \/ \E s \in Setters : SetterCalls(s) \/ SetterChecks(s) \/ SetterInstalls(s)
    \/ Destroy \/ DestroyStep

Spec == Init /\ [][Next]_vars

\* Threads run, callbacks return, and a handler that is not in a key generation
\* with other parties does a finite number of things and returns (approvals,
\* uploads and the transfer queries have deadlines). Nothing makes the other
\* parties answer: there is no fairness of PartiesAnswer. A mutex that is free
\* again and again is obtained: the reader sleeps between two turns.
FairSpec ==
    /\ Spec
    /\ \A r \in Requests : SF_vars(WorkerStep(r)) /\ SF_vars(HandlerReturns(r))
    /\ WF_vars(ReaderStep)
    /\ \A q \in Queries : WF_vars(QueryStep(q))
    /\ \A s \in Setters : SF_vars(SetterChecks(s) \/ SetterInstalls(s))
    /\ SF_vars(DestroyStep)

-----------------------------------------------------------------------------
(* Properties. *)

\* Some thread is inside the event callback.
InEvent ==
    \/ \E r \in Requests : req[r] = "inside"
    \/ \E q \in Queries : query[q] = "inside"
    \/ reader = "inside"

\* A worker is in, or about to make, a progress or response callback.
Replying(r) == req[r] \in {"progress", "replying"}

\* "Mark shutting down and block until all in-flight workers have finished"
\* (handle.rs): once LibwalletDestroy has returned no handler is running, and
\* none starts, however the calls of the host's threads overlap (begin_request
\* against shutdown_and_wait).
NoWorkerAfterDestroy == destroy = "returned" => Inflight = {}

\* LibwalletDestroy: "wait for all in-flight workers so no callback fires after
\* this returns" (lib.rs): no response, no progress and no event.
NoCallbackAfterDestroy ==
    destroy = "returned" => ~InEvent /\ \A r \in Requests : ~Replying(r)

\* LibwalletDestroy returns unless a request waits for ever for the parties of a
\* key generation (reshare.rs gives that wait no deadline, and shutdown_and_wait
\* waits for the request): there is no cycle of waiting between it, a worker that
\* stops WalletConnect, the reader they join and the threads inside the callback.
DestroyReturns ==
    (\A r \in Requests : []<>(req[r] # "keygen"))
        => (destroy = "removed" ~> destroy = "returned")

\* The background ends after LibwalletDestroy, even a reader that a request in
\* flight started after wc_stop: it holds the Env only weakly.
BackgroundEnds == destroy = "returned" ~> reader = "off" /\ ~EnvAlive
=============================================================================
