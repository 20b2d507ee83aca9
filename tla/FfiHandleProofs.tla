------------------------- MODULE FfiHandleProofs -------------------------
(***************************************************************************)
(* Proofs about FfiHandle, for any number of requests, transfer queries    *)
(* and event callback changes: type correctness, that no worker outlives   *)
(* LibwalletDestroy, and that nothing calls the host back after it when    *)
(* the host does not change its event callback meanwhile.                  *)
(***************************************************************************)
EXTENDS FfiHandle, FiniteSetTheorems, TLAPS

\* The counter counts the guards.
CountInv ==
    /\ IsFiniteSet(Inflight)
    /\ inflight = Cardinality(Inflight)

\* Everything has its type and the counter is right.
TypeInv == TypeOK /\ CountInv

\* begin_request adds one guard, and end_request removes one.
LEMMA CountUp ==
    ASSUME NEW r \in Requests, TypeOK, CountInv, req[r] = "called",
           req' = [req EXCEPT ![r] = "running"], inflight' = inflight + 1
    PROVE  CountInv' /\ inflight' \in Nat
<1>1. Inflight' = Inflight \cup {r} /\ r \notin Inflight
  BY DEF TypeOK, Inflight
<1>2. IsFiniteSet(Inflight') /\ Cardinality(Inflight') = Cardinality(Inflight) + 1
  BY <1>1, FS_AddElement DEF CountInv
<1> QED
  BY <1>2 DEF CountInv, TypeOK

LEMMA CountDown ==
    ASSUME NEW r \in Requests, TypeOK, CountInv, req[r] = "leaving",
           req' = [req EXCEPT ![r] = "ended"], inflight' = inflight - 1
    PROVE  CountInv' /\ inflight' \in Nat
<1>1. Inflight' = Inflight \ {r} /\ r \in Inflight
  BY DEF TypeOK, Inflight
<1>2. IsFiniteSet(Inflight') /\ Cardinality(Inflight') = Cardinality(Inflight) - 1
  BY <1>1, FS_RemoveElement DEF CountInv
<1>3. Cardinality(Inflight') \in Nat
  BY <1>2, FS_CardinalityType
<1> QED
  BY <1>2, <1>3 DEF CountInv

\* Any other step of a request leaves the count alone.
LEMMA CountSame ==
    ASSUME NEW r \in Requests, TypeOK, CountInv, NEW pc,
           req' = [req EXCEPT ![r] = pc], UNCHANGED inflight,
           req[r] \in {"idle", "called", "ended"} <=> pc \in {"idle", "called", "ended"}
    PROVE  CountInv'
<1>1. Inflight' = Inflight
  BY DEF TypeOK, Inflight
<1> QED
  BY <1>1 DEF CountInv

\* So does a step that changes neither `req` nor `inflight`.
LEMMA CountUnchanged ==
    ASSUME CountInv, UNCHANGED <<req, inflight>>
    PROVE  CountInv'
  BY DEF CountInv, Inflight

\* TypeInv is inductive.
LEMMA TypeInvariant == Spec => []TypeInv
<1>1. Init => TypeInv
  <2> SUFFICES ASSUME Init PROVE TypeInv
    OBVIOUS
  <2>1. TypeOK
    BY DEF Init, TypeOK, ReqPc, QueryPc, SetterPc, ReaderPc, DestroyPc
  <2>2. Inflight = {}
    BY DEF Init, Inflight
  <2>3. CountInv
    BY <2>2, FS_EmptySet DEF Init, CountInv
  <2> QED
    BY <2>1, <2>3 DEF TypeInv
<1>2. TypeInv /\ [Next]_vars => TypeInv'
  <2> SUFFICES ASSUME TypeInv, [Next]_vars PROVE TypeInv'
    OBVIOUS
  <2> USE DEF TypeInv
  <2>1. ASSUME NEW r \in Requests, BeginRequest(r) PROVE TypeInv'
    <3>1. CASE shutdown
      <4>1. CountInv'
        BY <2>1, <3>1, CountSame DEF BeginRequest, Goto
      <4> QED
        BY <2>1, <3>1, <4>1 DEF BeginRequest, Goto, TypeOK, ReqPc, locks
    <3>2. CASE ~shutdown
      <4>1. CountInv' /\ inflight' \in Nat
        BY <2>1, <3>2, CountUp DEF BeginRequest, Goto
      <4> QED
        BY <2>1, <3>2, <4>1 DEF BeginRequest, Goto, TypeOK, ReqPc, locks
    <3> QED
      BY <3>1, <3>2
  <2>2. ASSUME NEW r \in Requests, EndRequest(r) PROVE TypeInv'
    <3>1. CountInv' /\ inflight' \in Nat
      BY <2>2, CountDown DEF EndRequest, Goto
    <3> QED
      BY <2>2, <3>1 DEF EndRequest, Goto, TypeOK, ReqPc, locks
  <2>3. ASSUME NEW r \in Requests,
               \/ Call(r) \/ HandlerActs(r) \/ Progress(r) \/ Broadcast(r) \/ EventReturns(r)
               \/ WcStart(r) \/ WcStop(r) \/ WcJoined(r) \/ HandlerReturns(r) \/ Reply(r)
               \/ WaitsForParties(r) \/ PartiesAnswer(r)
        PROVE  TypeInv'
    <3>1. PICK pc \in ReqPc :
             /\ req' = [req EXCEPT ![r] = pc]
             /\ req[r] \in {"idle", "called", "ended"} <=> pc \in {"idle", "called", "ended"}
      BY <2>3 DEF Goto, ReqPc, Call, HandlerActs, Progress, Broadcast, EventReturns,
                  WcStart, WcStop, WcJoined, HandlerReturns, Reply,
                  WaitsForParties, PartiesAnswer
    <3>2. UNCHANGED inflight
      BY <2>3 DEF Call, HandlerActs, Progress, Broadcast, EventReturns,
                  WcStart, WcStop, WcJoined, HandlerReturns, Reply,
                  WaitsForParties, PartiesAnswer
    <3>3. CountInv'
      BY <3>1, <3>2, CountSame
    <3>4. req' \in [Requests -> ReqPc]
      BY <3>1 DEF TypeOK
    <3>5. UNCHANGED <<registered, shutdown, sink, spot, query, setter, destroy>>
      BY <2>3 DEF Call, HandlerActs, Progress, Broadcast, EventReturns,
                  WcStart, WcStop, WcJoined, HandlerReturns, Reply,
                  WaitsForParties, PartiesAnswer
    <3>6. CASE Broadcast(r) \/ EventReturns(r) \/ WcStart(r) \/ WcStop(r) \/ WcJoined(r)
      <4>1. reader' \in ReaderPc
        BY <3>6 DEF Broadcast, EventReturns, WcStart, WcStop, WcJoined, TypeOK, ReaderPc
      <4>2. (sinkHeld \in BOOLEAN /\ wc \in BOOLEAN /\ wcHeld \in BOOLEAN /\ stop \in BOOLEAN)'
        BY <3>6, Zenon
           DEF Broadcast, EventReturns, WcStart, WcStop, WcJoined, locks, TypeOK
      <4> QED
        BY <3>2, <3>3, <3>4, <3>5, <4>1, <4>2 DEF TypeOK
    <3>7. CASE \/ Call(r) \/ HandlerActs(r) \/ Progress(r) \/ HandlerReturns(r) \/ Reply(r)
               \/ WaitsForParties(r) \/ PartiesAnswer(r)
      <4>1. UNCHANGED <<locks, wc, stop, reader>>
        BY <3>7 DEF Call, HandlerActs, Progress, HandlerReturns, Reply,
                    WaitsForParties, PartiesAnswer
      <4> QED
        BY <3>2, <3>3, <3>4, <3>5, <4>1 DEF TypeOK, locks
    <3> QED
      BY <2>3, <3>6, <3>7
  <2>4. ASSUME NEW r \in Requests, SpotStart(r) PROVE TypeInv'
    BY <2>4, CountUnchanged DEF SpotStart, TypeOK, locks
  <2>5. CASE ReaderStep \/ ReaderEvent
    <3>1. CountInv'
      BY <2>5, CountUnchanged DEF ReaderStep, ReaderUpgrade, ReaderEvent, reads
    <3> QED
      BY <2>5, <3>1 DEF ReaderStep, ReaderUpgrade, ReaderEvent, reads, TypeOK, ReaderPc
  <2>6. ASSUME NEW q \in Queries, QueryArrives(q) \/ QueryStep(q) PROVE TypeInv'
    <3>1. CountInv'
      BY <2>6, CountUnchanged DEF QueryArrives, QueryStep, others
    <3> QED
      BY <2>6, <3>1 DEF QueryArrives, QueryStep, others, TypeOK, QueryPc
  <2>7. ASSUME NEW s \in Setters, SetterCalls(s) \/ SetterChecks(s) \/ SetterInstalls(s)
        PROVE  TypeInv'
    <3>1. CountInv'
      BY <2>7, CountUnchanged DEF SetterCalls, SetterChecks, SetterInstalls
    <3> QED
      BY <2>7, <3>1 DEF SetterCalls, SetterChecks, SetterInstalls, locks, TypeOK, SetterPc
  <2>8. CASE Destroy \/ DestroyStep
    <3> USE DEF Destroy, DestroyStep, DestroyStopsWc, DestroyJoins, DestroyClosesSpot,
                DestroyClearsSink, DestroySetsFlag, DestroyReturnsNow
    <3>1. CountInv'
      BY <2>8, CountUnchanged
    <3> QED
      BY <2>8, <3>1 DEF locks, TypeOK, DestroyPc
  <2>9. CASE UNCHANGED vars
    BY <2>9, CountUnchanged DEF vars, locks, TypeOK
  <2> QED
    BY <2>1, <2>2, <2>3, <2>4, <2>5, <2>6, <2>7, <2>8, <2>9
       DEF Next, WorkerStep, HandlerStep
<1> QED
  BY <1>1, <1>2, PTL DEF Spec

\* Every variable keeps its type: in particular the counter of requests in
\* flight never drops below zero (handle.rs).
THEOREM TypeCorrect == Spec => []TypeOK
<1>1. TypeInv => TypeOK
  BY DEF TypeInv
<1> QED
  BY <1>1, TypeInvariant, PTL

-----------------------------------------------------------------------------
(* No worker outlives LibwalletDestroy. *)

\* From the moment LibwalletDestroy waits, the flag is up; when it has returned
\* there is no guard, and with the flag up none is made.
BarrierInv ==
    /\ destroy \in {"waiting", "returned"} => shutdown
    /\ NoWorkerAfterDestroy

\* No handler runs once LibwalletDestroy has returned, for any number of
\* requests and however the host's calls overlap: the flag is set and read
\* under the lock of the counter (begin_request, shutdown_and_wait).
THEOREM WorkersGone == Spec => []NoWorkerAfterDestroy
<1>1. Init => BarrierInv
  BY DEF Init, BarrierInv, NoWorkerAfterDestroy
<1>2. TypeInv /\ BarrierInv /\ [Next]_vars => BarrierInv'
  <2> SUFFICES ASSUME TypeInv, BarrierInv, [Next]_vars PROVE BarrierInv'
    OBVIOUS
  <2> USE DEF TypeInv, BarrierInv, NoWorkerAfterDestroy
  <2>1. ASSUME NEW r \in Requests, BeginRequest(r) PROVE BarrierInv'
    BY <2>1 DEF BeginRequest, Goto, Inflight, TypeOK
  <2>2. ASSUME NEW r \in Requests,
               \/ Call(r) \/ HandlerActs(r) \/ Progress(r) \/ Broadcast(r) \/ EventReturns(r)
               \/ WcStart(r) \/ WcStop(r) \/ WcJoined(r) \/ HandlerReturns(r) \/ Reply(r)
               \/ EndRequest(r) \/ WaitsForParties(r) \/ PartiesAnswer(r)
        PROVE  BarrierInv'
    <3>1. UNCHANGED <<shutdown, destroy>>
      BY <2>2 DEF Call, HandlerActs, Progress, Broadcast, EventReturns,
                  WcStart, WcStop, WcJoined, HandlerReturns, Reply, EndRequest,
                  WaitsForParties, PartiesAnswer
    <3>2. PICK pc \in ReqPc : /\ req' = [req EXCEPT ![r] = pc]
                              /\ req[r] # "idle" => r \in Inflight
                              /\ req[r] = "idle" => pc \in {"called", "ended"}
      BY <2>2 DEF Goto, ReqPc, Inflight, Call, HandlerActs, Progress, Broadcast, EventReturns,
                  WcStart, WcStop, WcJoined, HandlerReturns, Reply, EndRequest,
                  WaitsForParties, PartiesAnswer
    <3>3. Inflight = {} => Inflight' = {}
      BY <3>2 DEF Inflight, TypeOK
    <3> QED
      BY <3>1, <3>3
  <2>3. CASE DestroyReturnsNow
    <3>1. Inflight = {}
      BY <2>3, FS_EmptySet DEF DestroyReturnsNow, CountInv
    <3> QED
      BY <2>3, <3>1 DEF DestroyReturnsNow, Inflight
  <2>4. CASE \/ Destroy \/ DestroyStopsWc \/ DestroyJoins \/ DestroyClosesSpot
             \/ DestroyClearsSink \/ DestroySetsFlag
    BY <2>4 DEF Destroy, DestroyStopsWc, DestroyJoins, DestroyClosesSpot,
                DestroyClearsSink, DestroySetsFlag
  <2>5. ASSUME \/ \E r \in Requests : SpotStart(r)
               \/ ReaderStep \/ ReaderEvent
               \/ \E q \in Queries : QueryArrives(q) \/ QueryStep(q)
               \/ \E s \in Setters : SetterCalls(s) \/ SetterChecks(s) \/ SetterInstalls(s)
               \/ UNCHANGED vars
        PROVE  BarrierInv'
    <3>1. UNCHANGED <<shutdown, destroy, req>>
      BY <2>5 DEF SpotStart, ReaderStep, ReaderUpgrade, ReaderEvent, reads, QueryArrives,
                  QueryStep, others, SetterCalls, SetterChecks, SetterInstalls, vars
    <3> QED
      BY <3>1 DEF Inflight
  <2> QED
    BY <2>1, <2>2, <2>3, <2>4, <2>5 DEF Next, WorkerStep, HandlerStep, DestroyStep
<1>3. BarrierInv => NoWorkerAfterDestroy
  BY DEF BarrierInv
<1> QED
  BY <1>1, <1>2, <1>3, TypeInvariant, PTL DEF Spec

-----------------------------------------------------------------------------
(* Nothing calls back after LibwalletDestroy. *)

\* The mutex of the event sink: whoever is inside the callback holds it, alone.
LockInv ==
    /\ \A r \in Requests : req[r] = "inside" =>
          /\ sinkHeld /\ reader # "inside"
          /\ \A q \in Queries : query[q] # "inside"
          /\ \A x \in Requests : req[x] = "inside" => x = r
    /\ \A q \in Queries : query[q] = "inside" =>
          /\ sinkHeld /\ reader # "inside"
          /\ \A x \in Queries : query[x] = "inside" => x = q
    /\ reader = "inside" => sinkHeld

\* Once LibwalletDestroy has begun no one is about to install a callback; once
\* it has cleared the sink, there is none and no one is inside.
ClearedInv ==
    /\ destroy # "idle" => ~SetterBusy
    /\ destroy \in {"flag", "waiting", "returned"} => ~sink /\ ~InEvent

SinkInv == LockInv /\ ClearedInv

\* LockInv and ClearedInv are inductive when no LibwalletSetEventCallback is in
\* progress while LibwalletDestroy is.
LEMMA SinkInvariant ==
    ASSUME Overlap = FALSE
    PROVE  Spec => []SinkInv
<1>1. Init => SinkInv
  BY DEF Init, SinkInv, LockInv, ClearedInv, SetterBusy, InEvent
<1>2. TypeOK /\ SinkInv /\ [Next]_vars => SinkInv'
  <2> SUFFICES ASSUME TypeOK, SinkInv, [Next]_vars PROVE SinkInv'
    OBVIOUS
  <2> USE DEF SinkInv, LockInv, ClearedInv, SetterBusy, InEvent, TypeOK
  <2>1. ASSUME NEW r \in Requests,
               \/ Call(r) \/ BeginRequest(r) \/ HandlerActs(r) \/ Progress(r)
               \/ WcStop(r) \/ WcJoined(r) \/ HandlerReturns(r) \/ Reply(r) \/ EndRequest(r)
               \/ WaitsForParties(r) \/ PartiesAnswer(r)
        PROVE  SinkInv'
    <3>1. UNCHANGED <<sink, sinkHeld, query, setter, reader, destroy>>
      BY <2>1 DEF locks, Call, BeginRequest, HandlerActs, Progress, WcStop, WcJoined,
                  HandlerReturns, Reply, EndRequest, WaitsForParties, PartiesAnswer
    <3>2. PICK pc : req' = [req EXCEPT ![r] = pc] /\ pc # "inside"
      BY <2>1 DEF Goto, Call, BeginRequest, HandlerActs, Progress, WcStop, WcJoined,
                  HandlerReturns, Reply, EndRequest, WaitsForParties, PartiesAnswer
    <3> QED
      BY <3>1, <3>2
  <2>2. ASSUME NEW r \in Requests, Broadcast(r) PROVE SinkInv'
    BY <2>2 DEF Broadcast, Goto
  <2>3. ASSUME NEW r \in Requests, EventReturns(r) PROVE SinkInv'
    BY <2>3 DEF EventReturns, Goto
  <2>4. ASSUME NEW r \in Requests, WcStart(r) PROVE SinkInv'
    BY <2>4 DEF WcStart, Goto, locks
  <2>5. ASSUME NEW r \in Requests, SpotStart(r) PROVE SinkInv'
    BY <2>5 DEF SpotStart, locks
  <2>6. CASE ReaderStep
    BY <2>6 DEF ReaderStep, ReaderUpgrade, reads
  <2>7. CASE ReaderEvent
    BY <2>7 DEF ReaderEvent, reads
  <2>8. ASSUME NEW q \in Queries, QueryArrives(q) PROVE SinkInv'
    BY <2>8 DEF QueryArrives, others
  <2>9. ASSUME NEW q \in Queries, QueryStep(q) PROVE SinkInv'
    BY <2>9 DEF QueryStep, others
  <2>10. ASSUME NEW s \in Setters, SetterCalls(s) PROVE SinkInv'
    BY <2>10 DEF SetterCalls, locks
  <2>11. ASSUME NEW s \in Setters, SetterChecks(s) \/ SetterInstalls(s) PROVE SinkInv'
    BY <2>11 DEF SetterChecks, SetterInstalls, locks
  <2>12. CASE Destroy
    BY <2>12 DEF Destroy, locks
  <2>13. CASE DestroyClearsSink
    BY <2>13 DEF DestroyClearsSink, locks
  <2>14. CASE \/ DestroyStopsWc \/ DestroyJoins \/ DestroyClosesSpot
              \/ DestroySetsFlag \/ DestroyReturnsNow
    BY <2>14 DEF DestroyStopsWc, DestroyJoins, DestroyClosesSpot, DestroySetsFlag,
                 DestroyReturnsNow, locks
  <2>15. CASE UNCHANGED vars
    BY <2>15 DEF vars, locks
  <2> QED
    BY <2>1, <2>2, <2>3, <2>4, <2>5, <2>6, <2>7, <2>8, <2>9, <2>10, <2>11, <2>12, <2>13,
       <2>14, <2>15 DEF Next, WorkerStep, HandlerStep, DestroyStep
<1>3. TypeInv => TypeOK
  BY DEF TypeInv
<1> QED
  BY <1>1, <1>2, <1>3, TypeInvariant, PTL DEF Spec

\* "no callback fires after this returns" (LibwalletDestroy, lib.rs), for a host
\* that does not change its event callback at the same time: no response, no
\* progress and no event, from any number of workers and transfer handlers and
\* from a reader that outlived wc_stop.
THEOREM Silence ==
    ASSUME Overlap = FALSE
    PROVE  Spec => []NoCallbackAfterDestroy
<1>1. SinkInv /\ NoWorkerAfterDestroy => NoCallbackAfterDestroy
  BY DEF SinkInv, ClearedInv, NoWorkerAfterDestroy, NoCallbackAfterDestroy, Inflight, Replying
<1> QED
  BY <1>1, SinkInvariant, WorkersGone, PTL
=============================================================================
