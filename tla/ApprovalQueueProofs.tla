----------------------- MODULE ApprovalQueueProofs -----------------------
(***************************************************************************)
(* Proofs about ApprovalQueue, for any sets of requests and calls: type    *)
(* correctness, the single winner, "accepted means done", the harmlessness *)
(* of late calls, that the queue implements ApprovalPromise, the effect    *)
(* and the result of serial calls, and that prompts stay answerable.       *)
(***************************************************************************)
EXTENDS ApprovalQueue, TLAPS

\* `run` reloads the row only when its channel delivered a status.
ReloadInv == \A r \in Requests : runpc[r] = "reload" => chan[r] # "empty"

TypeInv == TypeOK /\ ReloadInv

\* TypeInv is inductive.
LEMMA TypeInvariant == Spec => []TypeInv
<1> USE NullAssumption
<1>1. Init => TypeInv
  <2> SUFFICES ASSUME Init PROVE TypeInv
    OBVIOUS
  <2>1. /\ kind \in [Requests -> Kinds]
        /\ row \in [Requests -> Row \cup {NoRow}]
        /\ waiters \subseteq Requests
        /\ chan \in [Requests -> {"empty", "accepted", "rejected"}]
        /\ runrow \in [Requests -> Row \cup {NoRow}]
        /\ call \in [Calls -> Call \cup {NoCall}]
        /\ unsure \subseteq Requests
        /\ overlapped \subseteq Requests
        /\ stranded \subseteq Requests /\ unread \subseteq Requests
    BY DEF Init
  <2>2. /\ runpc \in [Requests -> RunPc]
        /\ answer \in [Requests -> Answer]
        /\ wins \in [Requests -> Nat]
        /\ effects \in [Requests -> 0..2]
    BY DEF Init, RunPc, Answer
  <2>3. hasResult \in [Requests -> BOOLEAN] /\ crashed \in BOOLEAN
    BY Zenon DEF Init
  <2>4. ReloadInv
    BY DEF Init, ReloadInv
  <2> QED
    BY <2>1, <2>2, <2>3, <2>4 DEF TypeInv, TypeOK
<1>2. TypeInv /\ [Next]_vars => TypeInv'
  <2> SUFFICES ASSUME TypeInv, [Next]_vars PROVE TypeInv'
    OBVIOUS
  <2> USE DEF TypeInv, ReloadInv, TypeOK, Row, Status, RunPc, Answer, Call, runVars, failVars, histVars
  <2>1. ASSUME NEW r \in Requests, Persist(r) PROVE TypeInv'
    BY <2>1 DEF Persist, FreshRow
  <2>2. ASSUME NEW r \in Requests, RunStep(r) PROVE TypeInv'
    <3>1. CASE Register(r)
      BY <3>1 DEF Register
    <3>2. CASE Broadcast(r)
      BY <3>2 DEF Broadcast
    <3>3. CASE Receive(r)
      BY <3>3 DEF Receive
    <3>4. CASE Reload(r)
      BY <3>4 DEF Reload
    <3>5. CASE Timeout(r)
      BY <3>5 DEF Timeout
    <3>6. CASE Take(r)
      BY <3>6 DEF Take
    <3>7. CASE RunFetch(r)
      BY <3>7 DEF RunFetch, AnswerTimedOut
    <3>8. CASE RunDelete(r)
      BY <3>8 DEF RunDelete, AnswerTimedOut
    <3>9. CASE RunInsert(r)
      BY <3>9 DEF RunInsert, AnswerTimedOut
    <3> QED
      BY <2>2, <3>1, <3>2, <3>3, <3>4, <3>5, <3>6, <3>7, <3>8, <3>9 DEF RunStep
  <2>3. ASSUME NEW c \in Calls, NEW r \in Requests, NEW o \in {"accepted", "rejected"},
               Begin(c, r, o)
        PROVE TypeInv'
    <3> DEFINE new == [pc |-> "check", phase |-> "claim", op |-> o, id |-> r,
                       copy |-> NoRow, late |-> Gone(r)]
    <3>1. Gone(r) \in BOOLEAN
      BY DEF Gone
    <3>2. new \in Call
      BY <3>1
    <3>3. call' = [call EXCEPT ![c] = new]
      BY <2>3 DEF Begin
    <3>4. call' \in [Calls -> Call \cup {NoCall}]
      <4> HIDE DEF new
      <4> QED BY <3>2, <3>3
    <3>5. overlapped' \subseteq Requests
      BY <2>3 DEF Begin
    <3> QED
      BY <2>3, <3>4, <3>5 DEF Begin
  <2>4. ASSUME NEW c \in Calls, CallStep(c) PROVE TypeInv'
    <3>1. CASE Check(c)
      BY <2>4, <3>1 DEF Check, At, GotoFetch, Return
    <3>2. CASE Fetch(c)
      BY <2>4, <3>2 DEF Fetch, FetchClaim, FetchResult, FetchRelease, FetchRespond, Missed,
                        At, Goto, GotoFetch, Return, Save
    <3>3. CASE Delete(c)
      BY <2>4, <3>3 DEF Delete, SaveFailed, AfterSave, At, Goto, GotoFetch, Return
    <3>4. CASE Insert(c)
      BY <2>4, <3>4 DEF Insert, SaveFailed, AfterSave, At, Goto, GotoFetch, Return
    <3>5. CASE SideEffect(c)
      BY <2>4, <3>5 DEF SideEffect, Acknowledge, EffectDone, EffectRefused, EffectUnsure,
                        CountEffect, At, GotoFetch
    <3>6. CASE Resolve(c)
      BY <2>4, <3>6 DEF Resolve, At, Return
    <3> QED
      BY <2>4, <3>1, <3>2, <3>3, <3>4, <3>5, <3>6 DEF CallStep
  <2>5. CASE Crash
    BY <2>5 DEF Crash
  <2>6. CASE UNCHANGED vars
    BY <2>6 DEF vars
  <2> QED
    BY <2>1, <2>2, <2>3, <2>4, <2>5, <2>6 DEF Next
<1> QED
  BY <1>1, <1>2, PTL DEF Spec

\* Every variable of the queue keeps its type, whatever the interleaving of
\* `run`, approve, reject, the time-out and restarts.
THEOREM TypeCorrect == Spec => []TypeOK
<1>1. TypeInv => TypeOK
  BY DEF TypeInv
<1> QED
  BY <1>1, TypeInvariant, PTL

-----------------------------------------------------------------------------
(* The inductive invariant. *)

\* A waiter stands for an undecided prompt whose dApp is still there; a status
\* was sent exactly when one call won; an answer is the status that was sent.
DecisionInv ==
    \A r \in Requests :
        /\ r \in waiters => runpc[r] \in {"broadcast", "wait", "take"} /\ wins[r] = 0
        /\ runpc[r] \in {"new", "register"} => wins[r] = 0
        /\ wins[r] = IF chan[r] = "empty" THEN 0 ELSE 1
        /\ answer[r] \in {"accepted", "rejected"} => chan[r] = answer[r]

\* What accepting r stands for has happened.
Performed(r) == HasEffect(r) => effects[r] > 0

\* A call past its side effect has performed it, and so has one that was heard.
EffectInv ==
    /\ \A c \in Calls : call[c] # NoCall =>
          /\ runpc[call[c].id] # "new"
          /\ call[c].pc = "resolve" => call[c].phase = "respond"
          /\ call[c].phase = "result" => Performed(call[c].id)
          /\ call[c].phase = "respond" /\ call[c].op = "accepted" => Performed(call[c].id)
    /\ \A r \in Requests : chan[r] = "accepted" => Performed(r)

\* A late call's request is over, and the call has not got past claim's check.
LateInv ==
    \A c \in Calls : call[c] # NoCall /\ call[c].late =>
        call[c].pc = "check" /\ Gone(call[c].id)

IInv == TypeInv /\ DecisionInv /\ EffectInv /\ LateInv

LEMMA DecisionStep == TypeInv /\ DecisionInv /\ [Next]_vars => DecisionInv'
<1> SUFFICES ASSUME TypeInv, DecisionInv, [Next]_vars PROVE DecisionInv'
  OBVIOUS
<1> USE DEF TypeInv, TypeOK, DecisionInv, runVars, failVars, histVars
<1>1. ASSUME NEW q \in Requests, Persist(q) PROVE DecisionInv'
  BY <1>1 DEF Persist, RunPc
<1>2. ASSUME NEW q \in Requests, RunStep(q) PROVE DecisionInv'
  <2>1. CASE Register(q)
    BY <2>1 DEF Register, RunPc
  <2>2. CASE Broadcast(q)
    BY <2>2 DEF Broadcast, RunPc
  <2>3. CASE Receive(q)
    BY <2>3 DEF Receive, RunPc
  <2>4. CASE Reload(q)
    BY <2>4 DEF Reload, RunPc
  <2>5. CASE Timeout(q)
    BY <2>5 DEF Timeout, RunPc
  <2>6. CASE Take(q)
    BY <2>6 DEF Take, RunPc
  <2>7. CASE RunFetch(q)
    BY <2>7 DEF RunFetch, AnswerTimedOut, RunPc
  <2>8. CASE RunDelete(q)
    BY <2>8 DEF RunDelete, AnswerTimedOut, RunPc
  <2>9. CASE RunInsert(q)
    BY <2>9 DEF RunInsert, AnswerTimedOut, RunPc
  <2> QED
    BY <1>2, <2>1, <2>2, <2>3, <2>4, <2>5, <2>6, <2>7, <2>8, <2>9 DEF RunStep
<1>3. ASSUME NEW c \in Calls, NEW q \in Requests, NEW o \in {"accepted", "rejected"},
             Begin(c, q, o)
      PROVE DecisionInv'
  BY <1>3 DEF Begin
<1>4. ASSUME NEW c \in Calls, CallStep(c) PROVE DecisionInv'
  <2>1. CASE Resolve(c)
    <3> DEFINE q == call[c].id
    <3>1. q \in Requests /\ call[c].op \in {"accepted", "rejected"}
      BY <2>1, NullAssumption DEF Resolve, At, Call
    <3>2. CASE q \in waiters
      <4>1. /\ waiters' = waiters \ {q}
            /\ chan' = [chan EXCEPT ![q] = call[c].op]
            /\ wins' = [wins EXCEPT ![q] = @ + 1]
            /\ UNCHANGED <<runpc, answer>>
        BY <2>1, <3>2 DEF Resolve
      <4>2. wins[q] = 0 /\ chan[q] = "empty"
        BY <3>1, <3>2
      <4>3. /\ q \notin waiters'
            /\ runpc'[q] \notin {"new", "register"}
            /\ wins'[q] = 1 /\ chan'[q] = call[c].op /\ chan'[q] # "empty"
            /\ answer'[q] \notin {"accepted", "rejected"}
        BY <3>1, <3>2, <4>1, <4>2
      <4>4. \A r \in Requests \ {q} :
              /\ r \in waiters' <=> r \in waiters
              /\ chan'[r] = chan[r] /\ wins'[r] = wins[r]
        BY <4>1
      <4> QED
        <5> SUFFICES ASSUME NEW r \in Requests
                     PROVE  /\ r \in waiters' => runpc'[r] \in {"broadcast", "wait", "take"} /\ wins'[r] = 0
                            /\ runpc'[r] \in {"new", "register"} => wins'[r] = 0
                            /\ wins'[r] = IF chan'[r] = "empty" THEN 0 ELSE 1
                            /\ answer'[r] \in {"accepted", "rejected"} => chan'[r] = answer'[r]
          BY DEF DecisionInv
        <5>1. CASE r = q
          BY <5>1, <4>3
        <5>2. CASE r # q
          BY <5>2, <4>4, <4>1
        <5> QED
          BY <5>1, <5>2
    <3>3. CASE q \notin waiters
      BY <2>1, <3>3 DEF Resolve
    <3> QED
      BY <3>2, <3>3
  <2>2. CASE ~Resolve(c)
    <3>1. UNCHANGED <<waiters, chan, runpc, answer, wins>>
      BY <1>4, <2>2 DEF CallStep, Check, Fetch, Delete, Insert, SaveFailed, SideEffect
    <3> QED
      BY <3>1
  <2> QED
    BY <2>1, <2>2
<1>5. CASE Crash
  BY <1>5 DEF Crash, RunPc, Answer
<1>6. CASE UNCHANGED vars
  BY <1>6 DEF vars
<1> QED
  BY <1>1, <1>2, <1>3, <1>4, <1>5, <1>6 DEF Next

\* A run step writes nothing that EffectInv and LateInv read but runpc.
LEMMA RunStepFrame ==
  ASSUME TypeInv, NEW q \in Requests, Persist(q) \/ RunStep(q)
  PROVE  /\ UNCHANGED <<kind, chan, effects, call>>
         /\ \A r \in Requests : /\ runpc[r] # "new" => runpc'[r] # "new"
                                /\ Gone(r) => Gone(r)'
BY DEF Persist, RunStep, Register, Broadcast, Receive, Reload, Timeout, Take, RunFetch,
       RunDelete, RunInsert, AnswerTimedOut, Gone, TypeInv, TypeOK, histVars

\* Every step of a call keeps its request, its verdict and its lateness, or
\* returns; nothing else touches another call.
LEMMA CallStepFrame ==
  ASSUME TypeInv, NEW c \in Calls, CallStep(c)
  PROVE  /\ call[c] \in Call
         /\ UNCHANGED <<kind, runpc, answer>>
         /\ \A d \in Calls \ {c} : call'[d] = call[d]
         /\ \/ call'[c] = NoCall
            \/ /\ call'[c] \in Call
               /\ call'[c].id = call[c].id
               /\ call'[c].op = call[c].op
               /\ call'[c].late = call[c].late
<1> USE NullAssumption DEF TypeInv, TypeOK, Call, runVars, histVars
<1>1. CASE Check(c)
  BY <1>1 DEF Check, At, GotoFetch, Return
<1>2. CASE Fetch(c)
  BY <1>2 DEF Fetch, FetchClaim, FetchResult, FetchRelease, FetchRespond,
              At, Goto, GotoFetch, Return, Save, Row, Status
<1>3. CASE Delete(c)
  BY <1>3 DEF Delete, SaveFailed, AfterSave, At, Goto, GotoFetch, Return
<1>4. CASE Insert(c)
  BY <1>4 DEF Insert, SaveFailed, AfterSave, At, Goto, GotoFetch, Return
<1>5. CASE SideEffect(c)
  BY <1>5 DEF SideEffect, Acknowledge, EffectDone, EffectRefused, EffectUnsure, At, GotoFetch
<1>6. CASE Resolve(c)
  BY <1>6 DEF Resolve, At, Return
<1> QED
  BY <1>1, <1>2, <1>3, <1>4, <1>5, <1>6 DEF CallStep

\* Side effects are never undone.
LEMMA EffectsGrow ==
  ASSUME TypeInv, [Next]_vars, NEW r \in Requests, effects[r] > 0
  PROVE  effects'[r] > 0
<1> USE DEF TypeInv, TypeOK, runVars, histVars
<1>1. ASSUME NEW c \in Calls, SideEffect(c) PROVE effects'[r] > 0
  BY <1>1 DEF SideEffect, Acknowledge, EffectDone, EffectRefused, EffectUnsure, CountEffect
<1>2. CASE \A c \in Calls : ~SideEffect(c)
  <2>1. UNCHANGED effects
    BY <1>2, RunStepFrame DEF Next, vars, Begin, CallStep, Check, Fetch, Delete, Insert,
                              Resolve, Crash
  <2> QED
    BY <2>1
<1> QED
  BY <1>1, <1>2

LEMMA EffectStep == TypeInv /\ EffectInv /\ [Next]_vars => EffectInv'
<1> SUFFICES ASSUME TypeInv, EffectInv, [Next]_vars PROVE EffectInv'
  OBVIOUS
<1>0. UNCHANGED kind
  BY RunStepFrame, CallStepFrame DEF Next, vars, Begin, Crash
<1>a. \A r \in Requests : Performed(r) => Performed(r)'
  BY <1>0, EffectsGrow DEF Performed, HasEffect
<1>1. ASSUME NEW q \in Requests, Persist(q) \/ RunStep(q) PROVE EffectInv'
  BY <1>1, <1>a, RunStepFrame, NullAssumption DEF EffectInv, TypeInv, TypeOK, Call
<1>2. ASSUME NEW c \in Calls, NEW q \in Requests, NEW o \in {"accepted", "rejected"},
             Begin(c, q, o)
      PROVE EffectInv'
  BY <1>2, <1>a, NullAssumption DEF Begin, EffectInv, TypeInv, TypeOK, Call, runVars
<1>3. ASSUME NEW c \in Calls, CallStep(c) PROVE EffectInv'
  <2> DEFINE q == call[c].id
  <2>0. q \in Requests
    BY <1>3, CallStepFrame DEF Call
  <2>1. ASSUME call'[c] # NoCall
        PROVE  /\ call'[c].pc = "resolve" => call'[c].phase = "respond"
               /\ call'[c].phase = "result" => Performed(q)'
               /\ call'[c].phase = "respond" /\ call'[c].op = "accepted" => Performed(q)'
    <3> USE NullAssumption DEF TypeInv, TypeOK, Call, EffectInv, runVars, histVars
    <3>1. CASE Check(c)
      BY <1>3, <1>a, <2>0, <2>1, <3>1 DEF Check, At, GotoFetch, Return
    <3>2. CASE Fetch(c)
      BY <1>3, <1>a, <2>0, <2>1, <3>2
         DEF Fetch, FetchClaim, FetchResult, FetchRelease, FetchRespond,
             At, Goto, GotoFetch, Return, Save
    <3>3. CASE Delete(c)
      BY <1>3, <1>a, <2>0, <2>1, <3>3 DEF Delete, SaveFailed, AfterSave, At, Goto, GotoFetch, Return
    <3>4. CASE Insert(c)
      BY <1>3, <1>a, <2>0, <2>1, <3>4 DEF Insert, SaveFailed, AfterSave, At, Goto, GotoFetch, Return
    <3>5. CASE SideEffect(c)
      <4>1. CASE Acknowledge(c, q)
        BY <1>0, <2>0, <3>5, <4>1 DEF Acknowledge, SideEffect, At, GotoFetch, Performed, HasEffect
      <4>2. CASE EffectDone(c, q)
        <5>1. effects'[q] > 0
          BY <2>0, <4>2 DEF EffectDone, CountEffect
        <5>2. call'[c].id = q /\ call'[c].pc = "fetch"
          BY <1>3, <2>1, <4>2, CallStepFrame DEF EffectDone, GotoFetch
        <5> QED
          BY <5>1, <5>2 DEF Performed
      <4>3. CASE EffectRefused(c, q) \/ EffectUnsure(c, q)
        BY <2>0, <3>5, <4>3 DEF EffectRefused, EffectUnsure, SideEffect, At, GotoFetch
      <4> QED
        BY <3>5, <4>1, <4>2, <4>3 DEF SideEffect
    <3>6. CASE Resolve(c)
      BY <2>1, <3>6 DEF Resolve, Return, At
    <3> QED
      BY <1>3, <3>1, <3>2, <3>3, <3>4, <3>5, <3>6 DEF CallStep
  <2>2. \A r \in Requests : chan'[r] = "accepted" => Performed(r)'
    <3>1. CASE Resolve(c)
      BY <1>3, <1>a, <2>0, <3>1, NullAssumption DEF Resolve, At, EffectInv, TypeInv, TypeOK
    <3>2. CASE ~Resolve(c)
      <4>1. UNCHANGED chan
        BY <1>3, <3>2 DEF CallStep, Check, Fetch, Delete, Insert, SideEffect, runVars
      <4> QED
        BY <4>1, <1>a DEF EffectInv
    <3> QED
      BY <3>1, <3>2
  <2> QED
    BY <1>3, <1>a, <2>0, <2>1, <2>2, CallStepFrame, NullAssumption DEF EffectInv, TypeInv, TypeOK, Call
<1>4. CASE Crash
  BY <1>4, <1>a DEF Crash, EffectInv, TypeInv, TypeOK
<1>5. CASE UNCHANGED vars
  BY <1>5 DEF vars, EffectInv, Performed, HasEffect, runVars, histVars
<1> QED
  BY <1>1, <1>2, <1>3, <1>4, <1>5 DEF Next

LEMMA LateStep == TypeInv /\ DecisionInv /\ LateInv /\ [Next]_vars => LateInv'
<1> SUFFICES ASSUME TypeInv, DecisionInv, LateInv, [Next]_vars PROVE LateInv'
  OBVIOUS
<1> USE NullAssumption
<1>1. ASSUME NEW q \in Requests, Persist(q) \/ RunStep(q) PROVE LateInv'
  BY <1>1, RunStepFrame DEF LateInv, TypeInv, TypeOK, Call
<1>2. ASSUME NEW c \in Calls, NEW q \in Requests, NEW o \in {"accepted", "rejected"},
             Begin(c, q, o)
      PROVE LateInv'
  <2>1. call'[c].pc = "check" /\ call'[c].id = q /\ call'[c].late = Gone(q)
    BY <1>2, Zenon DEF Begin, TypeInv, TypeOK
  <2>2. \A d \in Calls \ {c} : call'[d] = call[d]
    BY <1>2 DEF Begin, TypeInv, TypeOK
  <2>3. UNCHANGED runpc
    BY <1>2 DEF Begin, runVars
  <2>4. ASSUME NEW d \in Calls
        PROVE  call'[d] # NoCall /\ call'[d].late => call'[d].pc = "check" /\ Gone(call[d].id)'
    <3>1. CASE d = c
      <4>1. Gone(q)' <=> Gone(q)
        BY <2>3, Zenon DEF Gone
      <4>2. Gone(call[d].id)' <=> Gone(q)'
        BY <2>1, <3>1, Zenon DEF Gone
      <4> QED
        BY <2>1, <3>1, <4>1, <4>2, Zenon
    <3>2. CASE d # c
      BY <2>2, <2>3, <3>2 DEF LateInv, Gone
    <3> QED
      BY <3>1, <3>2
  <2> QED
    BY <2>4, Zenon DEF LateInv
<1>3. ASSUME NEW c \in Calls, CallStep(c) PROVE LateInv'
  <2>1. CASE call[c].late
    \* The waiter of a request that is over is gone, so claim's check returns.
    <3>1. call[c] # NoCall
      BY <1>3 DEF CallStep, Check, Fetch, Delete, Insert, SideEffect, Resolve, At
    <3>2. call[c].pc = "check" /\ Gone(call[c].id)
      BY <2>1, <3>1 DEF LateInv
    <3>3. call[c].id \notin waiters
      BY <3>2, CallStepFrame, <1>3 DEF DecisionInv, Gone, Call
    <3>4. Check(c)
      BY <1>3, <3>2 DEF CallStep, Fetch, Delete, Insert, SideEffect, Resolve, At
    <3>5. call'[c] = NoCall
      BY <3>3, <3>4 DEF Check, Return, TypeInv, TypeOK
    <3> QED
      BY <1>3, <3>5, CallStepFrame DEF LateInv, Gone
  <2>2. CASE ~call[c].late
    BY <1>3, <2>2, CallStepFrame DEF LateInv, Gone
  <2> QED
    BY <2>1, <2>2
<1>4. CASE Crash
  BY <1>4 DEF Crash, LateInv, TypeInv, TypeOK
<1>5. CASE UNCHANGED vars
  BY <1>5 DEF vars, LateInv, Gone, runVars
<1> QED
  BY <1>1, <1>2, <1>3, <1>4, <1>5 DEF Next

\* IInv is inductive.
LEMMA IInvariant == Spec => []IInv
<1>1. Init => DecisionInv /\ EffectInv /\ LateInv
  <2> SUFFICES ASSUME Init PROVE DecisionInv /\ EffectInv /\ LateInv
    OBVIOUS
  <2>1. DecisionInv
    BY DEF Init, DecisionInv
  <2>2. EffectInv /\ LateInv
    BY DEF Init, EffectInv, LateInv
  <2> QED
    BY <2>1, <2>2
<1>2. TypeInv /\ DecisionInv /\ EffectInv /\ LateInv /\ [Next]_vars
        => (DecisionInv /\ EffectInv /\ LateInv)'
  BY DecisionStep, EffectStep, LateStep
<1> QED
  BY <1>1, <1>2, TypeInvariant, PTL DEF Spec, IInv

-----------------------------------------------------------------------------
(* What follows from it. *)

\* Whatever the interleaving of approvals, rejections, the time-out and restarts,
\* at most one call decides a request and the dApp is told what it decided.
THEOREM SingleDecision == Spec => []SingleWinner
<1>1. ASSUME DecisionInv, NEW r \in Requests
      PROVE  wins[r] <= 1 /\ (answer[r] \in {"accepted", "rejected"} => wins[r] = 1 /\ chan[r] = answer[r])
  <2>1. wins[r] = 0 \/ wins[r] = 1
    BY <1>1 DEF DecisionInv
  <2>2. answer[r] \in {"accepted", "rejected"} => wins[r] = 1 /\ chan[r] = answer[r]
    BY <1>1 DEF DecisionInv
  <2> QED
    BY <2>1, <2>2
<1>2. IInv => SingleWinner
  BY <1>1 DEF IInv, SingleWinner
<1> QED
  BY <1>2, IInvariant, PTL

\* A dApp that is told "accepted" got the side effect it asked for.
THEOREM AcceptedMeansDone == Spec => []AcceptedWasDone
<1>1. IInv => AcceptedWasDone
  BY DEF IInv, DecisionInv, EffectInv, Performed, AcceptedWasDone
<1> QED
  BY <1>1, IInvariant, PTL

\* A call that begins after its request is over never gets past claim's check.
THEOREM LateCallsDoNothing == Spec => []LateCallHarmless
<1>1. IInv => LateCallHarmless
  BY DEF IInv, LateInv, LateCallHarmless
<1> QED
  BY <1>1, IInvariant, PTL

-----------------------------------------------------------------------------
(* The queue implements ApprovalPromise. *)

stateBar ==
    [r \in Requests |-> IF runpc[r] = "new" THEN "new" ELSE IF Gone(r) THEN "closed" ELSE "open"]
verdictBar == [r \in Requests |-> IF chan[r] = "empty" THEN "none" ELSE chan[r]]
doneBar == [r \in Requests |-> HasEffect(r) => effects[r] > 0]

\* A step inside `run` opens the prompt, answers the dApp or is invisible.
LEMMA RunSimulation ==
  ASSUME TypeInv, DecisionInv, NEW q \in Requests, Persist(q) \/ RunStep(q)
  PROVE  [Promise!Next]_(Promise!vars)
<1> USE DEF TypeInv, TypeOK, runVars, histVars
<1>1. UNCHANGED verdictBar /\ UNCHANGED doneBar /\ UNCHANGED wins
  <2>1. UNCHANGED <<kind, chan, effects, wins>>
    BY DEF Persist, RunStep, Register, Broadcast, Receive, Reload, Timeout, Take,
           RunFetch, RunDelete, RunInsert, AnswerTimedOut
  <2> QED
    BY <2>1 DEF verdictBar, doneBar, HasEffect
<1>2. CASE Persist(q)
  <2>1. stateBar[q] = "new" /\ stateBar' = [stateBar EXCEPT ![q] = "open"] /\ answer' = answer
    BY <1>2 DEF Persist, stateBar, Gone
  <2>2. Promise!Open(q)
    BY <1>1, <2>1 DEF Promise!Open, stateBar, verdictBar, doneBar
  <2> QED
    BY <2>2 DEF Promise!Next
<1>3. ASSUME stateBar[q] = "open", stateBar' = [stateBar EXCEPT ![q] = "closed"],
             \/ wins[q] = 1 /\ answer' = [answer EXCEPT ![q] = verdictBar[q]]
             \/ answer' = [answer EXCEPT ![q] = "timedout"]
      PROVE  Promise!Next
  <2>1. Promise!Answer(q)
    BY <1>1, <1>3 DEF Promise!Answer, stateBar, verdictBar, doneBar
  <2> QED
    BY <2>1 DEF Promise!Next
<1>4. CASE Reload(q)
  <2>1. chan[q] # "empty" /\ wins[q] = 1
    BY <1>4 DEF Reload, ReloadInv, DecisionInv
  <2>2. stateBar[q] = "open" /\ stateBar' = [stateBar EXCEPT ![q] = "closed"]
    BY <1>4 DEF Reload, stateBar, Gone
  <2>3. answer' = [answer EXCEPT ![q] = verdictBar[q]]
    BY <1>4, <2>1 DEF Reload, verdictBar
  <2> QED
    BY <1>3, <2>1, <2>2, <2>3
<1>5. CASE RunFetch(q) \/ RunDelete(q) \/ RunInsert(q)
  <2>1. CASE AnswerTimedOut(q)
    <3>1. runpc[q] \in {"fetch", "delete", "insert"}
      BY <1>5 DEF RunFetch, RunDelete, RunInsert
    <3>2. stateBar[q] = "open" /\ stateBar' = [stateBar EXCEPT ![q] = "closed"]
      BY <2>1, <3>1 DEF AnswerTimedOut, stateBar, Gone
    <3> QED
      BY <1>3, <2>1, <3>2 DEF AnswerTimedOut
  <2>2. CASE ~AnswerTimedOut(q)
    <3>1. stateBar' = stateBar /\ answer' = answer
      BY <1>5, <2>2 DEF RunFetch, RunDelete, RunInsert, stateBar, Gone
    <3> QED
      BY <1>1, <3>1 DEF Promise!vars, stateBar, verdictBar, doneBar
  <2> QED
    BY <2>1, <2>2
<1>6. CASE Register(q) \/ Broadcast(q) \/ Receive(q) \/ Timeout(q) \/ Take(q)
  <2>1. stateBar' = stateBar /\ answer' = answer
    BY <1>6 DEF Register, Broadcast, Receive, Timeout, Take, stateBar, Gone
  <2> QED
    BY <1>1, <2>1 DEF Promise!vars, stateBar, verdictBar, doneBar
<1> QED
  BY <1>2, <1>4, <1>5, <1>6 DEF RunStep

\* A step of a call performs, decides or is invisible.
LEMMA CallSimulation ==
  ASSUME IInv, NEW c \in Calls, CallStep(c)
  PROVE  [Promise!Next]_(Promise!vars)
<1> USE DEF IInv, TypeInv, TypeOK, runVars, histVars
<1>a. PICK q \in Requests : q = call[c].id
  BY CallStepFrame, NullAssumption DEF Call
<1>b. PICK v \in {"accepted", "rejected"} : v = call[c].op
  BY CallStepFrame, NullAssumption DEF Call
<1>0. runpc[q] # "new"
  BY <1>a, CallStepFrame, NullAssumption DEF Call, EffectInv
<1>1. UNCHANGED <<stateBar, answer>>
  BY CallStepFrame DEF stateBar, Gone
<1>2. CASE SideEffect(c)
  <2>1. UNCHANGED <<chan, wins, verdictBar>>
    BY <1>2 DEF SideEffect, verdictBar
  <2>2. CASE HasEffect(q) /\ CountEffect(q)
    <3>1. doneBar' = [doneBar EXCEPT ![q] = TRUE]
      <4>1. UNCHANGED kind
        BY CallStepFrame
      <4>2. effects'[q] > 0
        BY <1>0, <2>2 DEF CountEffect
      <4>3. \A r \in Requests \ {q} : effects'[r] = effects[r]
        BY <1>0, <2>2 DEF CountEffect
      <4>4. doneBar \in [Requests -> BOOLEAN] /\ doneBar' \in [Requests -> BOOLEAN]
        BY Zenon DEF doneBar
      <4>5. doneBar'[q] = TRUE
        BY <4>2 DEF doneBar
      <4>6. \A r \in Requests \ {q} : doneBar'[r] = doneBar[r]
        BY <4>1, <4>3 DEF doneBar, HasEffect
      <4> QED
        BY <4>4, <4>5, <4>6
    <3>2. stateBar[q] # "new"
      BY <1>0 DEF stateBar
    <3>3. Promise!Perform(q)
      BY <1>1, <2>1, <3>1, <3>2 DEF Promise!Perform, stateBar, verdictBar, doneBar
    <3> QED
      BY <1>0, <3>3 DEF Promise!Next
  <2>3. CASE UNCHANGED effects
    <3>1. UNCHANGED doneBar
      BY <2>3, CallStepFrame DEF doneBar, HasEffect
    <3> QED
      BY <1>1, <2>1, <3>1 DEF Promise!vars, stateBar, verdictBar, doneBar
  <2> QED
    BY <1>2, <1>a, <2>2, <2>3
       DEF SideEffect, Acknowledge, EffectDone, EffectRefused, EffectUnsure, HasEffect
<1>3. CASE ~SideEffect(c)
  <2>0. UNCHANGED doneBar
    <3>1. UNCHANGED <<kind, effects>>
      BY <1>3, CallStepFrame DEF CallStep, Check, Fetch, Delete, Insert, Resolve
    <3> QED
      BY <3>1 DEF doneBar, HasEffect
  <2>1. CASE Resolve(c) /\ q \in waiters
    <3>1. /\ chan' = [chan EXCEPT ![q] = v]
          /\ wins' = [wins EXCEPT ![q] = @ + 1]
      BY <1>a, <1>b, <2>1 DEF Resolve
    <3>2. stateBar[q] = "open" /\ wins[q] = 0
      BY <1>0, <2>1 DEF DecisionInv, stateBar, Gone
    <3>3. wins' = [wins EXCEPT ![q] = 1]
      BY <3>1, <3>2
    <3>4. verdictBar' = [verdictBar EXCEPT ![q] = v]
      BY <1>0, <3>1 DEF verdictBar
    <3>5. v = "accepted" => doneBar[q]
      BY <1>a, <1>b, <2>1, NullAssumption DEF Resolve, At, EffectInv, Performed, doneBar
    <3>6. Promise!Decide(q, v)
      BY <1>1, <2>0, <3>2, <3>3, <3>4, <3>5 DEF Promise!Decide, stateBar, verdictBar, doneBar
    <3> QED
      BY <1>0, <3>6 DEF Promise!Next, Promise!Verdict
  <2>2. CASE ~(Resolve(c) /\ q \in waiters)
    <3>1. UNCHANGED <<chan, wins>>
      BY <1>3, <1>a, <2>2 DEF CallStep, Check, Fetch, Delete, Insert, Resolve
    <3>2. UNCHANGED verdictBar
      BY <3>1 DEF verdictBar
    <3> QED
      BY <1>1, <2>0, <3>1, <3>2 DEF Promise!vars, stateBar, verdictBar, doneBar
  <2> QED
    BY <2>1, <2>2
<1> QED
  BY <1>2, <1>3

\* The queue implements ApprovalPromise, for any number of requests and calls.
THEOREM Refinement == Spec => KeepsPromise
<1>1. Init => Promise!Init
  <2> SUFFICES ASSUME Init PROVE Promise!Init
    OBVIOUS
  <2>1. stateBar = [r \in Requests |-> "new"] /\ verdictBar = [r \in Requests |-> "none"]
    BY DEF Init, stateBar, verdictBar
  <2>2. doneBar \in [Requests -> BOOLEAN]
    BY Zenon DEF doneBar
  <2> QED
    BY <2>1, <2>2 DEF Init, Promise!Init, stateBar, verdictBar, doneBar
<1>2. IInv /\ [Next]_vars => [Promise!Next]_(Promise!vars)
  <2> SUFFICES ASSUME IInv, [Next]_vars PROVE [Promise!Next]_(Promise!vars)
    OBVIOUS
  <2>1. ASSUME NEW q \in Requests, Persist(q) \/ RunStep(q)
        PROVE  [Promise!Next]_(Promise!vars)
    BY <2>1, RunSimulation DEF IInv
  <2>2. ASSUME NEW c \in Calls, CallStep(c) PROVE [Promise!Next]_(Promise!vars)
    BY <2>2, CallSimulation
  <2>3. CASE (\E c \in Calls, r \in Requests, o \in {"accepted", "rejected"} : Begin(c, r, o))
             \/ UNCHANGED vars
    <3>1. UNCHANGED <<kind, chan, runpc, answer, wins, effects>>
      BY <2>3 DEF Begin, vars, runVars, histVars
    <3> QED
      BY <3>1 DEF Promise!vars, Gone, HasEffect
  <2>4. CASE Crash
    <3> USE DEF IInv, TypeInv, TypeOK
    <3>1. stateBar' = [r \in Requests |-> IF stateBar[r] = "open" THEN "closed" ELSE stateBar[r]]
      BY <2>4 DEF Crash, stateBar, Gone
    <3>2. answer' = [r \in Requests |-> IF stateBar[r] = "open" THEN "lost" ELSE answer[r]]
      BY <2>4 DEF Crash, stateBar, Gone
    <3>3. UNCHANGED <<wins, verdictBar, doneBar>>
      BY <2>4 DEF Crash, verdictBar, doneBar, HasEffect
    <3>4. Promise!Restart
      BY <3>1, <3>2, <3>3 DEF Promise!Restart, stateBar, verdictBar, doneBar
    <3> QED
      BY <3>4 DEF Promise!Next
  <2> QED
    BY <2>1, <2>2, <2>3, <2>4 DEF Next
<1> QED
  BY <1>1, <1>2, IInvariant, PTL DEF Spec, Promise!Spec, KeepsPromise

-----------------------------------------------------------------------------
(* One call at a time. EffectOnceIfSerial and ResultReachesDapp speak of     *)
(* requests about which the host never had two calls in flight. SerialInv    *)
(* says where the only call can be once the effect happened, or the answer   *)
(* is there, and that no statement of the time-out path comes between the    *)
(* two of its saves while somebody may still answer.                         *)

\* The time-out path took the waiter: from here on `run` may rewrite the row.
PastTake(r) == runpc[r] \in {"fetch", "delete", "insert", "done", "lost"}

\* Nobody else is about the request; once the dApp's answer is there, a call has not
\* got past claim's check.
OneCall(r) ==
    /\ \A c, d \in Calls : About(c, r) /\ About(d, r) => c = d
    /\ chan[r] # "empty" => \A c \in Calls : About(c, r) => call[c].pc = "check"

\* Between its two statements a save holds the row; otherwise the row is there as
\* long as somebody may answer and no failed statement lost it.
RowHeld(r) ==
    /\ row[r] = NoRow /\ r \in waiters \ stranded => \E c \in Calls : About(c, r) /\ call[c].pc = "insert"
    /\ runpc[r] = "register" => row[r] # NoRow
    /\ \A c \in Calls : About(c, r) =>
         /\ call[c].pc # "check" => runpc[r] \notin {"new", "register"}
         /\ call[c].pc = "insert" => row[r] = NoRow \/ PastTake(r)
         /\ call[c].pc \in {"delete", "insert"} => call[c].copy # NoRow
         /\ call[c].pc = "effect" => call[c].op = "accepted" /\ call[c].phase = "claim"
         /\ call[c].pc = "check" => call[c].phase = "claim"

\* The row as the call's save will leave it.
Carried(c) == IF call[c].pc \in {"delete", "insert"} THEN call[c].copy ELSE row[call[c].id]

\* A Result that was written stays in the row until the dApp has reloaded it.
ResultHeld(r) == HasResult(r) /\ r \notin stranded \cup unread =>
    /\ \A c \in Calls : About(c, r) /\ r \in waiters /\ call[c].op = "accepted" =>
         /\ call[c].phase = "respond" => Carried(c).result = TRUE
         /\ call[c].phase = "respond" /\ call[c].pc = "delete" => row[r] # NoRow /\ row[r].result = TRUE
         /\ call[c].phase = "result" /\ call[c].pc # "fetch" => Carried(c).result = TRUE
    /\ chan[r] = "accepted" /\ ~PastTake(r) /\ runpc[r] # "take" => row[r] # NoRow /\ row[r].result = TRUE
    /\ answer[r] = "accepted" => hasResult[r] = TRUE

\* A call that performed the effect goes on to respond; when it is over, or has to
\* release because the time-out path rewrote the row, nobody is asked any more.
Settled(r) ==
    /\ effects[r] \in {0, 1}
    /\ effects[r] = 1 =>
         /\ runpc[r] \notin {"new", "register"} /\ chan[r] # "rejected"
         /\ r \in waiters => \E c \in Calls : About(c, r)
         /\ \A c \in Calls : About(c, r) =>
              \/ call[c].phase \in {"result", "respond"} /\ call[c].op = "accepted"
              \/ (call[c].pc = "check" \/ call[c].phase = "release") /\ r \notin waiters

SerialOK(r) == OneCall(r) /\ RowHeld(r) /\ ResultHeld(r) /\ (r \notin unsure => Settled(r))
SerialInv == \A r \in Requests \ overlapped : SerialOK(r)

\* Nothing that the invariant says of r changes.
Same(r) ==
    /\ kind'[r] = kind[r] /\ row'[r] = row[r] /\ chan'[r] = chan[r] /\ runpc'[r] = runpc[r]
    /\ answer'[r] = answer[r] /\ hasResult'[r] = hasResult[r] /\ effects'[r] = effects[r]
    /\ (r \in waiters' <=> r \in waiters) /\ (r \in unsure' <=> r \in unsure)
    /\ (r \in stranded' <=> r \in stranded) /\ (r \in unread' <=> r \in unread)
    /\ \A c \in Calls : About(c, r) \/ About(c, r)' => call'[c] = call[c]

\* What the invariant says of r stays true where nothing of r moves.
LEMMA SerialElsewhere == ASSUME NEW r \in Requests, SerialOK(r), Same(r) PROVE SerialOK(r)'
<1>1. \A c \in Calls : About(c, r)' <=> About(c, r)
  BY DEF Same, About
<1>2. OneCall(r)'
  BY <1>1 DEF Same, SerialOK, OneCall
<1>3. PastTake(r)' <=> PastTake(r)
  BY DEF Same, PastTake
<1>4. RowHeld(r)'
  BY <1>1, <1>3 DEF Same, SerialOK, RowHeld
<1>5. HasResult(r)' <=> HasResult(r)
  BY DEF Same, HasResult
<1>6. \A c \in Calls : About(c, r) => Carried(c)' = Carried(c)
  BY <1>1 DEF Same, Carried, About
<1>7. ResultHeld(r)'
  BY <1>1, <1>3, <1>5, <1>6 DEF Same, SerialOK, ResultHeld
<1>8. Settled(r) => Settled(r)'
  BY <1>1 DEF Same, Settled
<1> QED
  BY <1>2, <1>4, <1>7, <1>8 DEF SerialOK, Same

\* A step touches nothing of a request it is not about.
LEMMA CallElsewhere ==
    ASSUME TypeInv, NEW c \in Calls, CallStep(c), NEW r \in Requests, r # call[c].id
    PROVE  Same(r)
<1> USE NullAssumption DEF TypeInv, TypeOK, runVars, failVars, histVars
<1>1. \A d \in Calls : About(d, r) \/ About(d, r)' => call'[d] = call[d]
  BY CallStepFrame DEF About
<1>2. call[c].id \in Requests
  BY CallStepFrame DEF Call
<1>3. /\ kind'[r] = kind[r] /\ row'[r] = row[r] /\ chan'[r] = chan[r] /\ effects'[r] = effects[r]
      /\ (r \in waiters' <=> r \in waiters) /\ (r \in unsure' <=> r \in unsure)
      /\ (r \in stranded' <=> r \in stranded) /\ (r \in unread' <=> r \in unread)
      /\ UNCHANGED <<runpc, answer, hasResult>>
  <2>1. CASE Check(c)
    BY <2>1 DEF Check
  <2>2. CASE Fetch(c)
    BY <1>2, <2>2 DEF Fetch, Missed
  <2>3. CASE Delete(c)
    BY <1>2, <2>3 DEF Delete, SaveFailed
  <2>4. CASE Insert(c)
    BY <1>2, <2>4 DEF Insert, SaveFailed
  <2>5. CASE SideEffect(c)
    BY <1>2, <2>5 DEF SideEffect, Acknowledge, EffectDone, EffectRefused, EffectUnsure, CountEffect
  <2>6. CASE Resolve(c)
    BY <1>2, <2>6 DEF Resolve
  <2> QED
    BY <2>1, <2>2, <2>3, <2>4, <2>5, <2>6 DEF CallStep
<1> QED
  BY <1>1, <1>3 DEF Same

\* Nor does a step of `run`.
LEMMA RunElsewhere ==
    ASSUME TypeInv, NEW q \in Requests, Persist(q) \/ RunStep(q), NEW r \in Requests, r # q
    PROVE  Same(r)
<1> USE DEF TypeInv, TypeOK, failVars, histVars
<1>1. UNCHANGED <<kind, chan, effects, call, unsure>>
  BY DEF Persist, RunStep, Register, Broadcast, Receive, Reload, Timeout, Take, RunFetch,
         RunDelete, RunInsert, AnswerTimedOut
<1>2. /\ row'[r] = row[r] /\ runpc'[r] = runpc[r] /\ answer'[r] = answer[r] /\ hasResult'[r] = hasResult[r]
      /\ (r \in waiters' <=> r \in waiters)
      /\ (r \in stranded' <=> r \in stranded) /\ (r \in unread' <=> r \in unread)
  BY DEF Persist, RunStep, Register, Broadcast, Receive, Reload, Timeout, Take, RunFetch,
         RunDelete, RunInsert, AnswerTimedOut
<1> QED
  BY <1>1, <1>2 DEF Same, About

\* A step of the request's own `run`.
LEMMA SerialRun ==
    ASSUME TypeInv, DecisionInv, EffectInv, NEW r \in Requests, SerialOK(r), Persist(r) \/ RunStep(r)
    PROVE  SerialOK(r)'
<1> USE NullAssumption DEF TypeInv, TypeOK, failVars, histVars
<1>1. UNCHANGED <<kind, chan, effects, call, unsure, stranded>> /\ unread \subseteq unread'
  BY DEF Persist, RunStep, Register, Broadcast, Receive, Reload, Timeout, Take, RunFetch,
         RunDelete, RunInsert, AnswerTimedOut
<1>2. (\A c \in Calls : About(c, r)' <=> About(c, r)) /\ (HasResult(r)' <=> HasResult(r))
  BY <1>1 DEF About, HasResult
<1>3. OneCall(r)'
  BY <1>1, <1>2 DEF SerialOK, OneCall
<1>4. RowHeld(r)'
  <2>1. CASE Persist(r)
    <3>1. \A c \in Calls : ~About(c, r)
      BY <2>1 DEF Persist, EffectInv, About
    <3>2. r \notin waiters'
      BY <2>1 DEF Persist, DecisionInv
    <3>a. FreshRow \in Row
      BY DEF FreshRow, Row, Status
    <3>3. row'[r] # NoRow
      BY <2>1, <3>a DEF Persist
    <3> QED
      BY <1>2, <3>1, <3>2, <3>3 DEF RowHeld
  <2>2. CASE Register(r)
    <3>1. row' = row /\ row[r] # NoRow /\ runpc'[r] = "broadcast"
      BY <2>2 DEF Register, SerialOK, RowHeld
    <3>2. \A c \in Calls : About(c, r) => call[c].pc = "check" /\ call[c].phase = "claim"
      BY <2>2 DEF Register, SerialOK, RowHeld
    <3> QED
      BY <1>1, <1>2, <3>1, <3>2 DEF RowHeld
  <2>3. CASE RunStep(r) /\ ~Register(r)
    <3>1. /\ runpc[r] # "register" /\ runpc'[r] \notin {"new", "register"}
          /\ r \in waiters' => r \in waiters
      BY <2>3 DEF RunStep, Register, Broadcast, Receive, Reload, Timeout, Take, RunFetch,
         RunDelete, RunInsert, AnswerTimedOut
    <3>2. row' = row \/ (PastTake(r) /\ PastTake(r)')
      BY <2>3 DEF RunStep, Broadcast, Receive, Reload, Timeout, Take, RunFetch,
         RunDelete, RunInsert, AnswerTimedOut, PastTake
    <3>3. (PastTake(r) => PastTake(r)') /\ (PastTake(r)' => r \notin waiters')
      BY <2>3 DEF RunStep, Broadcast, Receive, Reload, Timeout, Take, RunFetch,
         RunDelete, RunInsert, AnswerTimedOut, PastTake, DecisionInv, ReloadInv
    <3> QED
      BY <1>1, <1>2, <3>1, <3>2, <3>3 DEF SerialOK, RowHeld
  <2> QED
    BY <2>1, <2>2, <2>3
<1>5. ResultHeld(r)'
  <2>1. CASE Persist(r)
    <3>1. \A c \in Calls : ~About(c, r)
      BY <2>1 DEF Persist, EffectInv, About
    <3>2. chan'[r] # "accepted" /\ answer'[r] # "accepted"
      BY <1>1, <2>1 DEF Persist, DecisionInv
    <3> QED
      BY <1>2, <3>1, <3>2 DEF ResultHeld
  <2>2. CASE Reload(r)
    <3>1. /\ row' = row /\ waiters' = waiters /\ PastTake(r)' /\ answer'[r] = chan[r]
          /\ r \notin unread' => hasResult'[r] = (row[r] # NoRow /\ row[r].result)
      BY <2>2 DEF Reload, PastTake
    <3>2. \A c \in Calls : About(c, r) => Carried(c)' = Carried(c)
      BY <1>1, <3>1 DEF Carried, About
    <3>3. ~PastTake(r) /\ runpc[r] # "take"
      BY <2>2 DEF Reload, PastTake
    <3> QED
      BY <1>1, <1>2, <3>1, <3>2, <3>3 DEF SerialOK, ResultHeld
  <2>3. CASE RunStep(r) /\ ~Reload(r)
    <3>1. answer'[r] \in {answer[r], "timedout"} /\ hasResult' = hasResult
      BY <2>3 DEF RunStep, Register, Broadcast, Receive, Reload, Timeout, Take, RunFetch,
         RunDelete, RunInsert, AnswerTimedOut
    <3>2. PastTake(r)' \/ runpc'[r] = "take" \/ (row' = row /\ ~PastTake(r) /\ runpc[r] # "take")
      BY <2>3 DEF RunStep, Register, Broadcast, Receive, Reload, Timeout, Take, RunFetch,
         RunDelete, RunInsert, AnswerTimedOut, PastTake
    <3>3. r \in waiters' => row' = row /\ (r \in waiters \/ \A c \in Calls : About(c, r) => call[c].phase = "claim")
      BY <2>3 DEF RunStep, Register, Broadcast, Receive, Reload, Timeout, Take, RunFetch,
         RunDelete, RunInsert, AnswerTimedOut, DecisionInv, SerialOK, RowHeld
    <3>4. row' = row => \A c \in Calls : About(c, r) => Carried(c)' = Carried(c)
      BY <1>1 DEF Carried, About
    <3> QED
      BY <1>1, <1>2, <3>1, <3>2, <3>3, <3>4 DEF SerialOK, ResultHeld
  <2> QED
    BY <2>1, <2>2, <2>3
<1>6. Settled(r) => Settled(r)'
  <2>1. /\ runpc[r] \notin {"new", "register"} => runpc'[r] \notin {"new", "register"} /\ (r \in waiters' => r \in waiters)
    BY DEF Persist, RunStep, Register, Broadcast, Receive, Reload, Timeout, Take, RunFetch,
         RunDelete, RunInsert, AnswerTimedOut
  <2> QED
    BY <1>1, <1>2, <2>1 DEF Settled
<1> QED
  BY <1>1, <1>3, <1>4, <1>5, <1>6 DEF SerialOK

\* A call about a request that nobody else is about.
LEMMA SerialCall ==
    ASSUME IInv, NEW c \in Calls, CallStep(c), NEW r \in Requests, r = call[c].id, SerialOK(r)
    PROVE  SerialOK(r)'
<1> USE NullAssumption DEF IInv, TypeInv, TypeOK, Call, failVars, histVars, runVars
<1>0. /\ call[c] \in Call /\ call[c] # NoCall /\ About(c, r) /\ UNCHANGED <<kind, runpc, answer>>
      /\ (HasResult(r)' <=> HasResult(r)) /\ (PastTake(r)' <=> PastTake(r))
      /\ HasResult(r) => HasEffect(r)
  BY CallStepFrame DEF About, HasResult, HasEffect, PastTake
<1>1. \A d \in Calls : (About(d, r) => d = c) /\ (About(d, r)' => d = c)
  BY <1>0, CallStepFrame DEF SerialOK, OneCall, About
<1>2. CASE Check(c)
  <2>1. \/ call' = [call EXCEPT ![c] = NoCall]
        \/ /\ r \in waiters /\ call' = [call EXCEPT ![c].pc = "fetch", ![c].phase = "claim", ![c].copy = NoRow]
    BY <1>2 DEF Check, GotoFetch, Return
  <2>2. UNCHANGED <<row, waiters, chan, hasResult, effects, unsure, stranded, unread>>
    BY <1>2 DEF Check
  <2>3. OneCall(r)'
    BY <1>0, <1>1, <2>1, <2>2 DEF SerialOK, OneCall, DecisionInv, About
  <2>4. RowHeld(r)'
    BY <1>0, <1>1, <1>2, <2>1, <2>2 DEF SerialOK, RowHeld, DecisionInv, About, Check, At
  <2>5. ResultHeld(r)'
    BY <1>0, <1>1, <2>1, <2>2 DEF SerialOK, ResultHeld, About
  <2>6. Settled(r) => Settled(r)'
    BY <1>0, <1>1, <1>2, <2>1, <2>2 DEF Settled, About, RowHeld, SerialOK, Check, At
  <2> QED
    BY <2>2, <2>3, <2>4, <2>5, <2>6 DEF SerialOK
<1>a. call[c].pc # "check" => chan[r] = "empty" /\ runpc[r] \notin {"new", "register"}
  BY <1>0 DEF SerialOK, OneCall, RowHeld
<1>3. CASE Fetch(c)
  <2>a. PICK found \in {row[r], NoRow} :
          /\ FetchClaim(c, found) \/ FetchResult(c, found) \/ FetchRelease(c, found) \/ FetchRespond(c, found)
          /\ Missed(c, found)
    BY <1>3 DEF Fetch
  <2> DEFINE Marked(st) == [found EXCEPT !.status = st]
             Finished == [found EXCEPT !.result = TRUE]
  <2>0. At(c, "fetch") /\ call[c].pc = "fetch" /\ chan[r] = "empty" /\ (r \in waiters \ stranded => row[r] # NoRow)
    BY <1>0, <1>1, <1>3, <1>a DEF Fetch, At, SerialOK, RowHeld
  <2>b. /\ stranded \subseteq stranded' /\ unread \subseteq unread'
        /\ call[c].phase = "result" /\ found # row[r] => r \in unread'
    BY <2>a DEF Missed
  <2>1. \/ /\ call' = [call EXCEPT ![c] = NoCall]
           /\ call[c].phase \in {"claim", "release"}
        \/ /\ call[c].phase = "claim" /\ found # NoRow
           /\ call' = [call EXCEPT ![c].pc = "delete", ![c].copy = Marked("processing")]
        \/ /\ call[c].phase = "result" /\ found # NoRow
           /\ call' = [call EXCEPT ![c].pc = "delete", ![c].copy = Finished]
        \/ /\ call[c].phase = "result" /\ found = NoRow
           /\ call' = [call EXCEPT ![c].pc = "fetch", ![c].phase = "respond", ![c].copy = NoRow]
        \/ /\ call[c].phase = "release" /\ found # NoRow
           /\ call' = [call EXCEPT ![c].pc = "delete", ![c].copy = Marked("pending")]
        \/ /\ call[c].phase = "respond" /\ found # NoRow
           /\ call' = [call EXCEPT ![c].pc = "delete", ![c].copy = Marked(call[c].op)]
        \/ /\ call[c].phase = "respond" /\ found = NoRow
           /\ call' = [call EXCEPT ![c].pc = "resolve", ![c].copy = NoRow]
    BY <2>a DEF FetchClaim, FetchResult, FetchRelease, FetchRespond, Goto, GotoFetch, Return, Save
  <2>2. UNCHANGED <<row, waiters, chan, hasResult, effects, unsure>>
    BY <1>3 DEF Fetch
  <2>7. call'[c] # NoCall => call'[c] \in Call
    BY CallStepFrame
  <2>8. found # NoRow => /\ found \in Row
                         /\ \A st \in Status : Marked(st) \in Row
                                             /\ Marked(st).result = found.result
                         /\ Finished \in Row /\ Finished.result = TRUE
    BY DEF Row
  <2>9. call[c].op \in Status /\ "pending" \in Status /\ "processing" \in Status
    BY <1>0 DEF Status
  <2> HIDE DEF Marked, Finished
  <2>10. call'[c] # NoCall => /\ call'[c].pc \in {"delete", "fetch", "resolve"} /\ call'[c].op = call[c].op
                              /\ call'[c].pc = "delete" => call'[c].copy # NoRow
    <3>1. CASE call[c].phase = "claim"
      BY <1>0, <2>1, <2>8, <2>9, <3>1
    <3>2. CASE call[c].phase = "result"
      BY <1>0, <2>1, <2>8, <2>9, <3>2
    <3>3. CASE call[c].phase = "release"
      BY <1>0, <2>1, <2>8, <2>9, <3>3
    <3>4. CASE call[c].phase = "respond"
      BY <1>0, <2>1, <2>8, <2>9, <3>4
    <3> QED
      BY <1>0, <3>1, <3>2, <3>3, <3>4
  <2>11. call'[c] # NoCall /\ r \in waiters /\ r \notin stranded' \cup unread' =>
            /\ call'[c].phase = call[c].phase
            /\ call[c].phase = "result" => call'[c].pc = "delete" /\ call'[c].copy.result = TRUE
            /\ call[c].phase = "respond" => \/ call'[c].pc = "delete" /\ call'[c].copy.result = row[r].result
                                           \/ call'[c].pc = "resolve"
    <3>1. CASE call[c].phase = "claim"
      BY <1>0, <2>0, <2>1, <2>b, <3>1
    <3>2. CASE call[c].phase = "result"
      BY <1>0, <2>0, <2>1, <2>8, <2>b, <3>2
    <3>3. CASE call[c].phase = "release"
      BY <1>0, <2>0, <2>1, <2>b, <3>3
    <3>4. CASE call[c].phase = "respond"
      BY <1>0, <2>0, <2>1, <2>8, <2>9, <2>b, <3>4
    <3> QED
      BY <1>0, <3>1, <3>2, <3>3, <3>4
  <2>3. OneCall(r)'
    BY <1>0, <1>1, <2>0, <2>2 DEF SerialOK, OneCall, About
  <2>4. RowHeld(r)'
    BY <1>0, <1>1, <1>a, <2>0, <2>2, <2>10, <2>b DEF SerialOK, RowHeld, About
  <2>5. ResultHeld(r)'
    <3> SUFFICES ASSUME HasResult(r), r \notin stranded' \cup unread' PROVE ResultHeld(r)'
      BY <1>0 DEF ResultHeld
    <3>1. r \in waiters /\ call[c].op = "accepted" /\ call[c].phase = "respond" => row[r] # NoRow /\ row[r].result = TRUE
      BY <1>0, <2>0, <2>b DEF SerialOK, ResultHeld, Carried
    <3>2. call'[c] # NoCall /\ r \in waiters /\ call[c].op = "accepted" =>
            /\ call'[c].phase \in {"result", "respond"} => Carried(c)'.result = TRUE
            /\ call'[c].phase = "respond" => row[r] # NoRow /\ row[r].result = TRUE
      <4>1. CASE call'[c].pc = "delete"
        BY <1>0, <2>2, <2>11, <3>1, <4>1 DEF Carried
      <4>2. CASE call'[c] # NoCall /\ call'[c].pc # "delete"
        <5>1. r \in waiters => call[c].phase \notin {"result"} /\ call'[c].phase = call[c].phase
          BY <2>11, <4>2
        <5>2. call'[c].pc \notin {"delete", "insert"} /\ call'[c].id = r
          BY <2>10, <4>2, CallStepFrame
        <5> QED
          BY <2>2, <3>1, <5>1, <5>2 DEF Carried
      <4> QED
        BY <4>1, <4>2
    <3> QED
      BY <1>0, <1>1, <2>0, <2>2, <2>10, <3>2, <2>b DEF SerialOK, ResultHeld, About
  <2>6. Settled(r) => Settled(r)'
    BY <1>0, <1>1, <2>0, <2>1, <2>2, <2>7 DEF Settled, About, RowHeld, SerialOK, At
  <2> QED
    BY <2>2, <2>3, <2>4, <2>5, <2>6 DEF SerialOK
<1>b. ASSUME NEW lost \in BOOLEAN, SaveFailed(c, lost), call[c].pc \in {"delete", "insert"},
             row[r] = NoRow /\ call[c].pc = "insert" => lost,
             UNCHANGED <<waiters, chan, hasResult, effects, unread>>
      PROVE  SerialOK(r)'
  <2>1. /\ row' = row /\ stranded \subseteq stranded' /\ unsure \subseteq unsure' /\ (lost => r \in stranded')
        /\ \/ call[c].phase \in {"claim", "release"} /\ call' = [call EXCEPT ![c] = NoCall]
           \/ /\ call[c].phase = "result" /\ r \in unsure'
              /\ call' = [call EXCEPT ![c].pc = "fetch", ![c].phase = "release", ![c].copy = NoRow]
           \/ /\ call[c].phase = "respond"
              /\ call' = [call EXCEPT ![c].pc = "resolve", ![c].copy = NoRow]
    BY <1>b DEF SaveFailed, AfterSave, Goto, GotoFetch, Return
  <2>2. chan[r] = "empty" /\ (r \in waiters => ~PastTake(r))
    BY <1>b, <1>a DEF PastTake, DecisionInv
  <2>3. OneCall(r)'
    BY <1>0, <1>1, <1>b, <2>2 DEF OneCall
  <2>4. r \in waiters' \ stranded' => row'[r] # NoRow
    BY <1>0, <1>1, <1>b, <2>1 DEF SerialOK, RowHeld
  <2>5. call'[c] # NoCall => call'[c].pc \in {"fetch", "resolve"}
    BY <1>0, <2>1
  <2>6. RowHeld(r)'
    BY <1>0, <1>1, <1>a, <1>b, <2>1, <2>4, <2>5 DEF SerialOK, RowHeld, About
  <2>7. ResultHeld(r)'
    <3> SUFFICES ASSUME HasResult(r), r \notin stranded' \cup unread' PROVE ResultHeld(r)'
      BY <1>0 DEF ResultHeld
    <3>1. call'[c] # NoCall /\ call'[c].phase = "respond" =>
             call[c].phase = "respond" /\ call'[c].pc = "resolve" /\ call'[c].op = call[c].op
      BY <1>0, <2>1
    <3>2. r \in waiters /\ call[c].phase = "respond" /\ call[c].op = "accepted" => row[r] # NoRow /\ row[r].result = TRUE
      BY <1>0, <1>b, <2>1, <2>2 DEF SerialOK, RowHeld, ResultHeld
    <3>3. call'[c] # NoCall => call'[c].phase # "result" /\ call'[c].id = r
      BY <1>0, <2>1
    <3> QED
      BY <1>0, <1>1, <1>b, <2>1, <2>2, <3>1, <3>2, <3>3 DEF SerialOK, ResultHeld, Carried, About
  <2>8. r \notin unsure' /\ Settled(r) => Settled(r)'
    BY <1>0, <1>1, <1>b, <2>1 DEF Settled, About
  <2> QED
    BY <2>1, <2>3, <2>6, <2>7, <2>8 DEF SerialOK
<1>4. CASE Delete(c)
  <2>0. call[c].pc = "delete" /\ chan[r] = "empty" /\ UNCHANGED <<waiters, chan, hasResult, effects, unread>>
    BY <1>0, <1>4, <1>a DEF Delete, At
  <2>9. CASE SaveFailed(c, call[c].phase = "release")
    BY <1>b, <2>0, <2>9
  <2>1. CASE row' = [row EXCEPT ![r] = NoRow] /\ call' = [call EXCEPT ![c].pc = "insert"] /\ UNCHANGED <<unsure, stranded>>
    <3>3. OneCall(r)'
      BY <1>0, <1>1, <2>0 DEF SerialOK, OneCall, About
    <3>4. RowHeld(r)'
      BY <1>0, <1>1, <2>0, <2>1 DEF SerialOK, RowHeld, About, At
    <3>5. ResultHeld(r)'
      BY <1>0, <1>1, <2>0, <2>1 DEF SerialOK, ResultHeld, Carried, RowHeld, About, At
    <3>6. Settled(r) => Settled(r)'
      BY <1>0, <1>1, <2>0, <2>1 DEF Settled, About, RowHeld, SerialOK, At
    <3> QED
      BY <2>1, <3>3, <3>4, <3>5, <3>6 DEF SerialOK
  <2> QED
    BY <1>4, <2>9, <2>1 DEF Delete
<1>5. CASE Insert(c)
  <2>0. /\ call[c].pc = "insert" /\ chan[r] = "empty" /\ call[c].copy # NoRow /\ call[c].copy \in Row
        /\ UNCHANGED <<waiters, chan, hasResult, effects, unread>>
    BY <1>0, <1>5, <1>a DEF Insert, At, SerialOK, RowHeld
  <2>9. CASE SaveFailed(c, row[r] = NoRow)
    BY <1>b, <2>0, <2>9
  <2>1. CASE row[r] = NoRow /\ row' = [row EXCEPT ![r] = call[c].copy] /\ AfterSave(c, TRUE) /\ UNCHANGED <<unsure, stranded>>
    <3>1. \/ call[c].phase = "release" /\ call' = [call EXCEPT ![c] = NoCall]
          \/ /\ call[c].phase = "claim" /\ call[c].op = "accepted"
             /\ call' = [call EXCEPT ![c].pc = "effect", ![c].copy = NoRow]
          \/ /\ call[c].phase = "claim" /\ call[c].op = "rejected"
             /\ call' = [call EXCEPT ![c].pc = "fetch", ![c].phase = "respond", ![c].copy = NoRow]
          \/ /\ call[c].phase = "result"
             /\ call' = [call EXCEPT ![c].pc = "fetch", ![c].phase = "respond", ![c].copy = NoRow]
          \/ /\ call[c].phase = "respond"
             /\ call' = [call EXCEPT ![c].pc = "resolve", ![c].copy = NoRow]
      BY <2>1 DEF AfterSave, Goto, GotoFetch, Return
    <3>3. OneCall(r)'
      BY <1>0, <1>1, <2>0 DEF SerialOK, OneCall, About
    <3>8. call'[c] # NoCall => /\ call'[c].pc \in {"effect", "fetch", "resolve"}
                               /\ call'[c].pc = "effect" => call'[c].op = "accepted" /\ call'[c].phase = "claim"
      BY <1>0, <3>1
    <3>9. row'[r] = call[c].copy /\ row'[r] # NoRow
      BY <2>0, <2>1
    <3>4. RowHeld(r)'
      BY <1>0, <1>1, <1>a, <2>0, <3>8, <3>9 DEF SerialOK, RowHeld, About
    <3>5. ResultHeld(r)'
      BY <1>0, <1>1, <2>0, <2>1, <3>1, <3>9 DEF SerialOK, ResultHeld, Carried, RowHeld, About, At
    <3>6. Settled(r) => Settled(r)'
      BY <1>0, <1>1, <2>0, <2>1, <3>1 DEF Settled, About, RowHeld, SerialOK, At
    <3> QED
      BY <2>1, <3>3, <3>4, <3>5, <3>6 DEF SerialOK
  <2> QED
    BY <1>5, <2>9, <2>1 DEF Insert
<1>6. CASE SideEffect(c)
  <2>0. call[c].pc = "effect" /\ chan[r] = "empty" /\ call[c].op = "accepted" /\ call[c].phase = "claim"
        /\ call' = [call EXCEPT ![c] = call'[c]] /\ call'[c] # NoCall
    BY <1>0, <1>6, <1>a DEF SideEffect, At, SerialOK, RowHeld, Acknowledge, EffectDone, EffectRefused, EffectUnsure,
       GotoFetch
  <2>1. /\ call'[c].pc = "fetch" /\ call'[c].op = "accepted"
        /\ call'[c].phase \in {"respond", "result", "release"}
        /\ HasResult(r) => call'[c].phase # "respond"
        /\ \/ effects'[r] = effects[r] /\ (effects[r] = 1 => ~Settled(r))
           \/ r \in unsure'
           \/ ~Settled(r)
           \/ effects[r] = 0 /\ effects'[r] = 1 /\ call'[c].phase # "release"
    <3>1. Settled(r) => effects[r] = 0
      BY <1>0, <1>1, <2>0 DEF Settled, About
    <3>2. CASE Acknowledge(c, r)
      BY <1>0, <2>0, <3>1, <3>2 DEF Acknowledge, GotoFetch, HasResult
    <3>3. CASE EffectDone(c, r)
      BY <1>0, <2>0, <3>1, <3>3 DEF EffectDone, CountEffect, GotoFetch
    <3>4. CASE EffectRefused(c, r)
      BY <1>0, <2>0, <3>1, <3>4 DEF EffectRefused, GotoFetch
    <3>5. CASE EffectUnsure(c, r)
      BY <1>0, <2>0, <3>1, <3>5 DEF EffectUnsure, GotoFetch
    <3> QED
      BY <1>6, <3>2, <3>3, <3>4, <3>5 DEF SideEffect
  <2>2. UNCHANGED <<row, waiters, chan, hasResult, stranded, unread>> /\ (r \in unsure => r \in unsure')
    BY <1>6 DEF SideEffect, Acknowledge, EffectDone, EffectRefused, EffectUnsure
  <2>3. OneCall(r)'
    BY <1>0, <1>1, <2>0, <2>2 DEF SerialOK, OneCall, About
  <2>4. RowHeld(r)'
    BY <1>0, <1>1, <1>a, <2>0, <2>1, <2>2 DEF SerialOK, RowHeld, About
  <2>5. ResultHeld(r)'
    BY <1>0, <1>1, <2>0, <2>1, <2>2 DEF SerialOK, ResultHeld, Carried, RowHeld, About
  <2>6. Settled(r) /\ r \notin unsure' => Settled(r)'
    <3> SUFFICES ASSUME Settled(r), r \notin unsure' PROVE Settled(r)'
      OBVIOUS
    <3>1. effects[r] = 0
      BY <1>0, <1>1, <2>0 DEF Settled, About
    <3>2. CASE effects'[r] = 0
      BY <3>2 DEF Settled
    <3>3. CASE effects'[r] = 1 /\ call'[c].phase # "release"
      <4>1. About(c, r)'
        BY <2>0, CallStepFrame DEF About
      <4>2. call'[c].phase \in {"result", "respond"} /\ call'[c].op = "accepted"
        BY <2>1, <3>3
      <4> QED
        BY <1>0, <1>1, <1>a, <2>0, <2>2, <3>3, <4>1, <4>2 DEF Settled
    <3> QED
      BY <2>1, <3>1, <3>2, <3>3
  <2> QED
    BY <2>2, <2>3, <2>4, <2>5, <2>6 DEF SerialOK
<1>7. CASE Resolve(c)
  <2>0. call[c].pc = "resolve" /\ chan[r] = "empty" /\ call[c].phase = "respond"
    BY <1>0, <1>7, <1>a DEF Resolve, At, EffectInv
  <2>1. /\ call'[c] = NoCall
        /\ r \notin waiters'
        /\ \/ chan'[r] = chan[r]
           \/ chan'[r] = call[c].op /\ r \in waiters
    BY <1>0, <1>7 DEF Resolve, Return
  <2>2. UNCHANGED <<row, hasResult, effects, unsure, stranded, unread>>
    BY <1>7 DEF Resolve
  <2>7. \A d \in Calls : ~About(d, r)'
    BY <1>1, <2>1 DEF About
  <2>3. OneCall(r)'
    BY <2>7 DEF OneCall
  <2>4. RowHeld(r)'
    BY <1>0, <1>a, <2>0, <2>1, <2>7 DEF RowHeld
  <2>5. ResultHeld(r)'
    <3> SUFFICES ASSUME HasResult(r), r \notin stranded \cup unread PROVE ResultHeld(r)'
      BY <1>0, <2>2 DEF ResultHeld
    <3>1. chan'[r] = "accepted" => row[r] # NoRow /\ row[r].result = TRUE
      BY <1>0, <1>1, <2>0, <2>1 DEF SerialOK, RowHeld, ResultHeld, Carried
    <3> QED
      BY <1>0, <2>1, <2>2, <2>7, <3>1 DEF SerialOK, ResultHeld
  <2>6. Settled(r) => Settled(r)'
    BY <1>0, <1>1, <2>0, <2>1, <2>2, <2>7 DEF Settled, About
  <2> QED
    BY <2>2, <2>3, <2>4, <2>5, <2>6 DEF SerialOK
<1> QED
  BY <1>2, <1>3, <1>4, <1>5, <1>6, <1>7 DEF CallStep

LEMMA SerialBegin ==
    ASSUME TypeInv, NEW c \in Calls, NEW q \in Requests, NEW o \in {"accepted", "rejected"}, Begin(c, q, o),
           NEW r \in Requests, r \notin overlapped', SerialOK(r)
    PROVE  SerialOK(r)'
<1> USE NullAssumption DEF TypeInv, TypeOK, failVars, histVars, runVars
<1>1. UNCHANGED <<kind, row, waiters, chan, runpc, answer, hasResult, effects, unsure, stranded, unread>> /\ call[c] = NoCall
      /\ \A d \in Calls \ {c} : call'[d] = call[d]
  BY DEF Begin
<1>2. CASE r # q
  <2>1. ~About(c, r) /\ ~About(c, r)'
    BY <1>1, <1>2 DEF Begin, About
  <2> QED
    BY <1>1, <2>1, SerialElsewhere DEF Same, About
<1>3. CASE r = q
  <2>1. \A d \in Calls : ~About(d, r)
    BY <1>3 DEF Begin
  <2>2. \A d \in Calls : About(d, r)' => d = c
    BY <1>1, <2>1 DEF About
  <2>3. call'[c].pc = "check" /\ call'[c].phase = "claim" /\ About(c, r)'
    <3> DEFINE new == [pc |-> "check", phase |-> "claim", op |-> o, id |-> q, copy |-> NoRow, late |-> Gone(q)]
    <3>1. call'[c] = new
      BY DEF Begin
    <3>2. new \in Call
      BY DEF Call, Gone
    <3>3. new.pc = "check" /\ new.phase = "claim" /\ new.id = q
      OBVIOUS
    <3> QED
      BY <1>3, <3>1, <3>2, <3>3 DEF About
  <2>4. OneCall(r)'
    BY <2>2, <2>3 DEF OneCall
  <2>5. RowHeld(r)'
    BY <1>1, <2>1, <2>2, <2>3 DEF SerialOK, RowHeld
  <2>6. ResultHeld(r)'
    BY <1>1, <2>1, <2>2, <2>3 DEF SerialOK, ResultHeld, HasResult, PastTake
  <2>7. Settled(r) => Settled(r)'
    BY <1>1, <2>1, <2>2, <2>3 DEF Settled
  <2> QED
    BY <1>1, <2>4, <2>5, <2>6, <2>7 DEF SerialOK
<1> QED
  BY <1>2, <1>3

LEMMA SerialCrash == ASSUME TypeInv, DecisionInv, Crash, NEW r \in Requests, SerialOK(r) PROVE SerialOK(r)'
<1> USE NullAssumption DEF TypeInv, TypeOK
<1>1. (\A c \in Calls : ~About(c, r)') /\ r \notin waiters' /\ UNCHANGED <<kind, row, chan, hasResult, effects, unsure, stranded, unread>>
  BY DEF Crash, About, failVars
<1>2. /\ runpc'[r] \in {"new", "done", "lost"} /\ (runpc'[r] = "new" <=> runpc[r] = "new")
      /\ answer'[r] \in {answer[r], "lost"}
  BY DEF Crash
<1>3. OneCall(r)' /\ RowHeld(r)'
  BY <1>1, <1>2 DEF OneCall, RowHeld
<1>4. chan[r] = "accepted" => runpc[r] # "new"
  BY DEF DecisionInv
<1>5. ResultHeld(r)'
  BY <1>1, <1>2, <1>4 DEF SerialOK, ResultHeld, HasResult, PastTake
<1>6. Settled(r) => Settled(r)'
  BY <1>1, <1>2 DEF Settled
<1> QED
  BY <1>1, <1>3, <1>5, <1>6 DEF SerialOK

LEMMA SerialStep == IInv /\ SerialInv /\ [Next]_vars => SerialInv'
<1> SUFFICES ASSUME IInv, SerialInv, [Next]_vars, NEW r \in Requests, r \notin overlapped' PROVE SerialOK(r)'
  BY DEF SerialInv
<1> USE DEF IInv
<1>1. overlapped \subseteq overlapped'
  BY RunStepFrame DEF Next, vars, histVars, Persist, RunStep, Register, Broadcast, Receive, Reload, Timeout, Take,
     RunFetch, RunDelete, RunInsert, Begin, CallStep, Check, Fetch, Delete, Insert, SideEffect, Resolve, Crash
<1>2. SerialOK(r)
  BY <1>1 DEF SerialInv
<1>3. ASSUME NEW q \in Requests, Persist(q) \/ RunStep(q) PROVE SerialOK(r)'
  BY <1>2, <1>3, SerialRun, RunElsewhere, SerialElsewhere
<1>4. ASSUME NEW c \in Calls, NEW q \in Requests, NEW o \in {"accepted", "rejected"}, Begin(c, q, o)
      PROVE  SerialOK(r)'
  BY <1>2, <1>4, SerialBegin
<1>5. ASSUME NEW c \in Calls, CallStep(c) PROVE SerialOK(r)'
  BY <1>2, <1>5, SerialCall, CallElsewhere, SerialElsewhere
<1>6. CASE Crash
  BY <1>2, <1>6, SerialCrash
<1>7. CASE UNCHANGED vars
  BY <1>2, <1>7, SerialElsewhere DEF vars, runVars, failVars, histVars, Same, About
<1> QED
  BY <1>3, <1>4, <1>5, <1>6, <1>7 DEF Next

LEMMA SerialAlways == Spec => [](IInv /\ SerialInv)
<1>1. Init => SerialInv
  <2> SUFFICES ASSUME Init, NEW r \in Requests PROVE SerialOK(r)
    BY DEF SerialInv
  <2>1. (\A c \in Calls : ~About(c, r)) /\ r \notin waiters /\ chan[r] = "empty" /\ effects[r] = 0 /\ runpc[r] = "new"
        /\ answer[r] = "none"
    BY DEF Init, About
  <2> QED
    BY <2>1 DEF SerialOK, OneCall, RowHeld, ResultHeld, Settled
<1> QED
  BY <1>1, SerialStep, IInvariant, PTL DEF Spec

\* When the host never has two calls about one request in flight, and no error hid a side
\* effect that happened, the effect happens at most once, and never for a request whose
\* dApp is told "rejected", whatever the time-out and restarts do meanwhile.
THEOREM EffectOnce == Spec => []EffectOnceIfSerial
<1>1. ASSUME IInv, SerialInv, NEW r \in Requests \ (overlapped \cup unsure)
      PROVE  effects[r] <= 1 /\ (answer[r] = "rejected" => effects[r] = 0)
  <2>1. Settled(r)
    BY <1>1 DEF SerialInv, SerialOK
  <2>2. answer[r] = "rejected" => chan[r] = "rejected"
    BY <1>1 DEF IInv, DecisionInv
  <2> QED
    BY <2>1, <2>2 DEF Settled
<1>2. IInv /\ SerialInv => EffectOnceIfSerial
  BY <1>1 DEF EffectOnceIfSerial
<1> QED
  BY <1>2, SerialAlways, PTL

\* Under the same discipline an accepted signature or chain switch reaches the dApp with
\* its Result: it is in the row from before the waiter is resolved until `run` reloads it.
THEOREM ResultArrives == Spec => []ResultReachesDapp
<1>1. ASSUME IInv, SerialInv, NEW r \in Requests \ (overlapped \cup stranded \cup unread)
      PROVE  answer[r] = "accepted" /\ HasResult(r) => hasResult[r]
  BY <1>1, Zenon DEF SerialInv, SerialOK, ResultHeld
<1>2. IInv /\ SerialInv => ResultReachesDapp
  BY <1>1 DEF ResultReachesDapp
<1> QED
  BY <1>2, SerialAlways, PTL

-----------------------------------------------------------------------------
(* Prompts, with any number of calls. Whatever collides, a missing row is     *)
(* about to be inserted, and a claimed one has a call that will release it   *)
(* or answer (Owes).                                                         *)

\* The prompt is raised and undecided, and the time-out has not fired.
Asked(r) == runpc[r] \in {"register", "broadcast", "wait"} /\ chan[r] = "empty"

\* A call that will release the claim or resolve the waiter; one that is past releasing it.
Owes(c) == \/ call[c].pc = "effect" \/ call[c].phase \in {"result", "respond"}
           \/ call[c].phase = "release" /\ call[c].pc \in {"fetch", "delete"}

\* What a call about the prompt is going to save, and how far it can be.
SaveOK(c) ==
    /\ call[c].pc \in {"delete", "insert"} =>
         /\ call[c].copy # NoRow /\ call[c].copy.status # "timedout"
         /\ call[c].phase = "release" => call[c].copy.status = "pending"
         /\ call[c].phase = "claim" => call[c].copy.status = "processing"
    /\ call[c].pc \in {"check", "effect"} => call[c].phase = "claim"

\* A missing row is about to be inserted again, and somebody answers for a claimed one.
RowAsked(r) ==
    /\ row[r] = NoRow => \E c \in Calls : About(c, r) /\ call[c].pc = "insert"
    /\ row[r] # NoRow =>
         /\ row[r].status # "timedout"
         /\ row[r].status = "processing" => \E c \in Calls : About(c, r) /\ Owes(c)
         /\ row[r].status \in {"accepted", "rejected"} => \E c \in Calls : About(c, r) /\ call[c].phase = "respond"

PromptOK(r) ==
    /\ \A c \in Calls : About(c, r) /\ call[c].pc # "check" => runpc[r] \notin {"new", "register"}
    /\ Asked(r) /\ r \notin stranded =>
         /\ runpc[r] # "register" => r \in waiters
         /\ RowAsked(r)
         /\ \A c \in Calls : About(c, r) => SaveOK(c)
PromptInv == \A r \in Requests : PromptOK(r)

LEMMA PromptElsewhere == ASSUME NEW r \in Requests, PromptOK(r), Same(r) PROVE PromptOK(r)'
<1>1. \A c \in Calls : About(c, r)' <=> About(c, r)
  BY DEF Same, About
<1>2. Asked(r)' <=> Asked(r)
  BY DEF Same, Asked
<1>3. \A c \in Calls : About(c, r) => (SaveOK(c)' <=> SaveOK(c)) /\ (Owes(c)' <=> Owes(c))
  BY DEF Same, SaveOK, Owes
<1>4. RowAsked(r) => RowAsked(r)'
  BY <1>1, <1>3 DEF Same, RowAsked
<1> QED
  BY <1>1, <1>2, <1>3, <1>4 DEF Same, PromptOK

LEMMA PromptRun ==
    ASSUME TypeInv, DecisionInv, EffectInv, NEW r \in Requests, PromptOK(r), Persist(r) \/ RunStep(r)
    PROVE  PromptOK(r)'
<1> USE NullAssumption DEF TypeInv, TypeOK, failVars, histVars
<1>1. UNCHANGED <<chan, call, stranded>>
  BY DEF Persist, RunStep, Register, Broadcast, Receive, Reload, Timeout, Take, RunFetch,
         RunDelete, RunInsert, AnswerTimedOut
<1>2. \A c \in Calls : (About(c, r)' <=> About(c, r)) /\ (SaveOK(c)' <=> SaveOK(c)) /\ (Owes(c)' <=> Owes(c))
  BY <1>1 DEF About, SaveOK, Owes
<1>3. CASE Persist(r)
  <2>1. \A c \in Calls : ~About(c, r)
    BY <1>3 DEF Persist, EffectInv, About
  <2>2. FreshRow \in Row /\ FreshRow.status = "pending"
    BY DEF FreshRow, Row, Status
  <2>3. row'[r] = FreshRow /\ runpc'[r] = "register"
    BY <1>3 DEF Persist
  <2> QED
    BY <1>2, <2>1, <2>2, <2>3 DEF PromptOK, RowAsked
<1>4. CASE Register(r) \/ Broadcast(r)
  <2>1. row' = row /\ runpc[r] \in {"register", "broadcast"} /\ runpc'[r] \in {"broadcast", "wait"} /\ chan' = chan
    BY <1>1, <1>4 DEF Register, Broadcast
  <2>2. Asked(r)' => Asked(r)
    BY <2>1 DEF Asked
  <2>3. Asked(r) /\ r \notin stranded => r \in waiters'
    BY <1>4 DEF Register, Broadcast, PromptOK
  <2>4. RowAsked(r) => RowAsked(r)'
    BY <1>1, <1>2, <2>1 DEF RowAsked
  <2> QED
    BY <1>1, <1>2, <2>1, <2>2, <2>3, <2>4 DEF PromptOK
<1>5. CASE RunStep(r) /\ ~Register(r) /\ ~Broadcast(r)
  <2>1. ~Asked(r)' /\ runpc'[r] \notin {"new", "register"}
    BY <1>1, <1>5 DEF RunStep, Receive, Reload, Timeout, Take, RunFetch, RunDelete, RunInsert, AnswerTimedOut, Asked
  <2> QED
    BY <2>1 DEF PromptOK
<1> QED
  BY <1>3, <1>4, <1>5

LEMMA PromptBegin ==
    ASSUME TypeInv, NEW c \in Calls, NEW q \in Requests, NEW o \in {"accepted", "rejected"}, Begin(c, q, o),
           NEW r \in Requests, PromptOK(r)
    PROVE  PromptOK(r)'
<1> USE NullAssumption DEF TypeInv, TypeOK, failVars, histVars, runVars
<1>1. UNCHANGED <<row, waiters, chan, runpc, stranded>> /\ call[c] = NoCall /\ \A d \in Calls \ {c} : call'[d] = call[d]
  BY DEF Begin
<1>2. call'[c].pc = "check" /\ call'[c].phase = "claim"
  <2> DEFINE new == [pc |-> "check", phase |-> "claim", op |-> o, id |-> q, copy |-> NoRow, late |-> Gone(q)]
  <2>1. call'[c] = new
    BY DEF Begin
  <2>2. new.pc = "check" /\ new.phase = "claim"
    OBVIOUS
  <2> QED
    BY <2>1, <2>2
<1>3. \A d \in Calls \ {c} : (About(d, r)' <=> About(d, r)) /\ (SaveOK(d)' <=> SaveOK(d)) /\ (Owes(d)' <=> Owes(d))
  BY <1>1 DEF About, SaveOK, Owes
<1>4. ~About(c, r) /\ SaveOK(c)'
  BY <1>1, <1>2 DEF About, SaveOK
<1>5. RowAsked(r) => RowAsked(r)'
  BY <1>1, <1>3, <1>4 DEF RowAsked
<1>6. Asked(r)' <=> Asked(r)
  BY <1>1 DEF Asked
<1> QED
  BY <1>1, <1>2, <1>3, <1>4, <1>5, <1>6 DEF PromptOK

LEMMA PromptCall ==
    ASSUME IInv, NEW c \in Calls, CallStep(c), NEW r \in Requests, r = call[c].id, PromptOK(r)
    PROVE  PromptOK(r)'
<1> USE NullAssumption DEF IInv, TypeInv, TypeOK, Call, failVars, histVars, runVars
<1>0. call[c] \in Call /\ call[c] # NoCall /\ About(c, r) /\ UNCHANGED runpc
  BY CallStepFrame DEF About
<1>1. \A d \in Calls \ {c} :
         /\ call'[d] = call[d]
         /\ (About(d, r)' <=> About(d, r)) /\ (SaveOK(d)' <=> SaveOK(d)) /\ (Owes(d)' <=> Owes(d))
  BY CallStepFrame DEF About, SaveOK, Owes
<1>2. call'[c] # NoCall /\ call'[c].pc # "check" => runpc[r] \notin {"new", "register"}
  <2>1. CASE Check(c)
    BY <1>0, <2>1 DEF Check, Return, DecisionInv
  <2>2. CASE ~Check(c)
    <3>1. call[c].pc # "check"
      BY <1>0, <2>2 DEF CallStep, Fetch, Delete, Insert, SideEffect, Resolve, At
    <3> QED
      BY <1>0, <3>1 DEF PromptOK
  <2> QED
    BY <2>1, <2>2
<1>3. \A d \in Calls : About(d, r)' /\ call'[d].pc # "check" => runpc'[r] \notin {"new", "register"}
  BY <1>0, <1>1, <1>2 DEF About, PromptOK
<1>b. Asked(r)' => Asked(r)
  BY <1>0 DEF Asked, CallStep, Check, Fetch, Delete, Insert, SideEffect, Resolve
<1>c. stranded \subseteq stranded'
  BY DEF CallStep, Check, Fetch, Missed, Delete, Insert, SaveFailed, SideEffect, Resolve
<1>4. SUFFICES ASSUME Asked(r)', r \notin stranded'
               PROVE  /\ runpc[r] # "register" => r \in waiters'
                      /\ RowAsked(r)'
                      /\ call'[c] # NoCall => SaveOK(c)'
  BY <1>0, <1>1, <1>3, <1>b, <1>c DEF PromptOK, About
<1>5. Asked(r) /\ r \notin stranded
  BY <1>4, <1>b, <1>c
<1>6. (runpc[r] # "register" => r \in waiters) /\ RowAsked(r) /\ SaveOK(c)
  BY <1>0, <1>5 DEF PromptOK
<1>7. CASE Check(c)
  <2>1. UNCHANGED <<row, waiters>> /\ call[c].pc = "check" /\ call[c].phase = "claim" /\ ~Owes(c)
    BY <1>0, <1>6, <1>7 DEF Check, At, SaveOK, Owes
  <2>2. call'[c] # NoCall => call'[c].pc = "fetch"
    BY <1>0, <1>7 DEF Check, GotoFetch, Return
  <2>3. RowAsked(r)'
    BY <1>0, <1>1, <1>6, <2>1 DEF RowAsked
  <2>4. call'[c] # NoCall => SaveOK(c)'
    BY <2>2 DEF SaveOK
  <2> QED
    BY <1>6, <2>1, <2>3, <2>4
<1>8. CASE Fetch(c)
  <2>a. PICK found \in {row[r], NoRow} :
          /\ FetchClaim(c, found) \/ FetchResult(c, found) \/ FetchRelease(c, found) \/ FetchRespond(c, found)
          /\ Missed(c, found)
    BY <1>8 DEF Fetch
  <2> DEFINE Marked(st) == [found EXCEPT !.status = st]
             Finished == [found EXCEPT !.result = TRUE]
  <2>b. call[c].phase = "release" => found = row[r]
    BY <1>4, <2>a DEF Missed
  <2>0. call[c].pc = "fetch"
    BY <1>0, <1>8 DEF Fetch, At
  <2>1. \/ /\ call' = [call EXCEPT ![c] = NoCall]
           /\ \/ call[c].phase = "claim"
              \/ call[c].phase = "release" /\ ~(found # NoRow /\ found.status = "processing")
        \/ /\ call[c].phase = "claim" /\ found # NoRow
           /\ call' = [call EXCEPT ![c].pc = "delete", ![c].copy = Marked("processing")]
        \/ /\ call[c].phase = "result" /\ found # NoRow
           /\ call' = [call EXCEPT ![c].pc = "delete", ![c].copy = Finished]
        \/ /\ call[c].phase = "result" /\ found = NoRow
           /\ call' = [call EXCEPT ![c].pc = "fetch", ![c].phase = "respond", ![c].copy = NoRow]
        \/ /\ call[c].phase = "release" /\ found # NoRow
           /\ call' = [call EXCEPT ![c].pc = "delete", ![c].copy = Marked("pending")]
        \/ /\ call[c].phase = "respond" /\ found # NoRow
           /\ call' = [call EXCEPT ![c].pc = "delete", ![c].copy = Marked(call[c].op)]
        \/ /\ call[c].phase = "respond" /\ found = NoRow
           /\ call' = [call EXCEPT ![c].pc = "resolve", ![c].copy = NoRow]
    BY <2>a DEF FetchClaim, FetchResult, FetchRelease, FetchRespond, Goto, GotoFetch, Return, Save
  <2>2. UNCHANGED <<row, waiters>>
    BY <1>8 DEF Fetch
  <2>3. found # NoRow => /\ \A st \in Status : Marked(st) \in Row /\ Marked(st).status = st
                         /\ Finished \in Row /\ Finished.status = found.status
    BY DEF Row
  <2>4. call[c].op \in Status \ {"timedout"} /\ "pending" \in Status /\ "processing" \in Status
    BY <1>0 DEF Status
  <2>5. found # NoRow => found.status # "timedout"
    BY <1>6 DEF RowAsked
  <2> HIDE DEF Marked, Finished
  <2>6. CASE call[c].phase = "claim"
    <3>1. call'[c] # NoCall => SaveOK(c)'
      BY <1>0, <2>1, <2>3, <2>4, <2>6 DEF SaveOK
    <3>2. ~Owes(c)
      BY <2>0, <2>6 DEF Owes
    <3>3. RowAsked(r)'
      BY <1>0, <1>1, <1>6, <2>0, <2>2, <2>6, <3>2 DEF RowAsked
    <3> QED
      BY <1>6, <2>2, <3>1, <3>3
  <2>7. CASE call[c].phase = "result"
    <3>1. call'[c] # NoCall /\ call'[c].phase \in {"result", "respond"} /\ SaveOK(c)'
      BY <1>0, <2>1, <2>3, <2>5, <2>7 DEF SaveOK
    <3>2. Owes(c)' /\ About(c, r)'
      BY <3>1, CallStepFrame DEF Owes, About
    <3>3. RowAsked(r)'
      BY <1>0, <1>1, <1>6, <2>0, <2>2, <2>7, <3>2 DEF RowAsked
    <3> QED
      BY <1>6, <2>2, <3>1, <3>3
  <2>8. CASE call[c].phase = "release"
    <3>1. call'[c] # NoCall => SaveOK(c)' /\ call'[c].pc = "delete" /\ call'[c].phase = "release"
      BY <1>0, <2>1, <2>3, <2>4, <2>8 DEF SaveOK
    <3>2. call'[c] # NoCall => Owes(c)' /\ About(c, r)'
      BY <3>1, CallStepFrame DEF Owes, About
    <3>4. call'[c] = NoCall => ~(found # NoRow /\ found.status = "processing")
      BY <1>0, <2>1, <2>3, <2>4, <2>8
    <3>3. RowAsked(r)'
      BY <1>0, <1>1, <1>6, <2>0, <2>2, <2>8, <2>b, <3>2, <3>4 DEF RowAsked
    <3> QED
      BY <1>6, <2>2, <3>1, <3>3
  <2>9. CASE call[c].phase = "respond"
    <3>1. call'[c] # NoCall /\ call'[c].phase = "respond" /\ SaveOK(c)'
      BY <1>0, <2>1, <2>3, <2>4, <2>9 DEF SaveOK
    <3>2. Owes(c)' /\ About(c, r)'
      BY <3>1, CallStepFrame DEF Owes, About
    <3>3. RowAsked(r)'
      BY <1>0, <1>1, <1>6, <2>0, <2>2, <2>9, <3>1, <3>2 DEF RowAsked
    <3> QED
      BY <1>6, <2>2, <3>1, <3>3
  <2> QED
    BY <1>0, <2>6, <2>7, <2>8, <2>9
<1>d. ASSUME SaveFailed(c, FALSE), call[c].pc \in {"delete", "insert"}, waiters' = waiters,
             call[c].phase # "release", call[c].pc = "insert" => row[r] # NoRow
      PROVE  (runpc[r] # "register" => r \in waiters') /\ RowAsked(r)' /\ (call'[c] # NoCall => SaveOK(c)')
  <2>1. /\ row' = row
        /\ \/ call[c].phase = "claim" /\ call' = [call EXCEPT ![c] = NoCall]
           \/ /\ call[c].phase = "result"
              /\ call' = [call EXCEPT ![c].pc = "fetch", ![c].phase = "release", ![c].copy = NoRow]
           \/ /\ call[c].phase = "respond"
              /\ call' = [call EXCEPT ![c].pc = "resolve", ![c].copy = NoRow]
    BY <1>d DEF SaveFailed, AfterSave, Goto, GotoFetch, Return
  <2>2. call'[c] # NoCall => SaveOK(c)'
    BY <1>0, <2>1 DEF SaveOK
  <2>3. call'[c] # NoCall => About(c, r)'
    BY CallStepFrame DEF About
  <2>4. Owes(c) => call'[c] # NoCall /\ Owes(c)'
    BY <1>0, <1>d, <2>1 DEF Owes
  <2>5. call[c].phase = "respond" => call'[c] # NoCall /\ call'[c].phase = "respond"
    BY <1>0, <2>1
  <2>6. RowAsked(r)'
    BY <1>0, <1>1, <1>6, <1>d, <2>1, <2>3, <2>4, <2>5 DEF RowAsked
  <2> QED
    BY <1>6, <1>d, <2>2, <2>6
<1>9. CASE Delete(c)
  <2>0. call[c].pc = "delete" /\ waiters' = waiters
    BY <1>0, <1>9 DEF Delete, At
  <2>5. CASE SaveFailed(c, call[c].phase = "release")
    <3>1. call[c].phase # "release"
      BY <1>4, <2>5 DEF SaveFailed
    <3>2. SaveFailed(c, FALSE)
      BY <2>5, <3>1 DEF SaveFailed
    <3> QED
      BY <1>d, <2>0, <3>1, <3>2
  <2>6. SUFFICES ASSUME ~SaveFailed(c, call[c].phase = "release")
                 PROVE (runpc[r] # "register" => r \in waiters') /\ RowAsked(r)' /\ (call'[c] # NoCall => SaveOK(c)')
    BY <2>5
  <2>1. /\ call[c].pc = "delete" /\ call' = [call EXCEPT ![c].pc = "insert"]
        /\ row' = [row EXCEPT ![r] = NoRow] /\ waiters' = waiters
    BY <1>0, <1>9, <2>0, <2>6 DEF Delete
  <2>2. call'[c].pc = "insert" /\ About(c, r)' /\ call'[c].copy = call[c].copy /\ call'[c].phase = call[c].phase
    BY <1>0, <2>1, CallStepFrame DEF About
  <2>3. RowAsked(r)'
    BY <2>1, <2>2 DEF RowAsked
  <2>4. SaveOK(c)'
    BY <1>6, <2>1, <2>2 DEF SaveOK
  <2> QED
    BY <1>6, <2>1, <2>3, <2>4
<1>10. CASE Insert(c)
  <2>0. /\ call[c].pc = "insert" /\ call[c].copy \in Row /\ waiters' = waiters
    BY <1>0, <1>6, <1>10 DEF Insert, At, SaveOK
  <2>1. CASE SaveFailed(c, row[r] = NoRow)
    <3>1. row[r] # NoRow
      BY <1>4, <2>1 DEF SaveFailed
    <3>2. SaveFailed(c, FALSE)
      BY <2>1, <3>1 DEF SaveFailed
    <3>3. CASE call[c].phase # "release"
      BY <1>d, <2>0, <3>1, <3>2, <3>3
    <3>4. CASE call[c].phase = "release"
      <4>1. row' = row /\ call' = [call EXCEPT ![c] = NoCall] /\ ~Owes(c)
        BY <2>0, <3>2, <3>4 DEF SaveFailed, AfterSave, Return, Owes
      <4>2. RowAsked(r)'
        BY <1>0, <1>1, <1>6, <2>0, <3>1, <3>4, <4>1 DEF RowAsked
      <4> QED
        BY <1>0, <1>6, <2>0, <4>1, <4>2
    <3> QED
      BY <3>3, <3>4
  <2>2. CASE row[r] = NoRow /\ row' = [row EXCEPT ![r] = call[c].copy] /\ AfterSave(c, TRUE)
    <3>1. \/ call[c].phase = "release" /\ call' = [call EXCEPT ![c] = NoCall]
          \/ /\ call[c].phase = "claim"
             /\ call' = [call EXCEPT ![c].pc = "effect", ![c].copy = NoRow]
          \/ /\ call[c].phase \in {"claim", "result"}
             /\ call' = [call EXCEPT ![c].pc = "fetch", ![c].phase = "respond", ![c].copy = NoRow]
          \/ /\ call[c].phase = "respond"
             /\ call' = [call EXCEPT ![c].pc = "resolve", ![c].copy = NoRow]
      BY <2>2 DEF AfterSave, Goto, GotoFetch, Return
    <3>2. call'[c] # NoCall => About(c, r)' /\ SaveOK(c)'
      <4>1. call'[c] # NoCall => About(c, r)'
        BY CallStepFrame DEF About
      <4>2. call'[c] # NoCall => SaveOK(c)'
        BY <1>0, <3>1 DEF SaveOK
      <4> QED
        BY <4>1, <4>2
    <3>3. row'[r] = call[c].copy /\ row'[r] # NoRow /\ row'[r].status # "timedout"
      BY <1>6, <2>0, <2>2 DEF SaveOK
    <3>4. CASE call[c].phase = "release"
      BY <1>6, <2>0, <3>2, <3>3, <3>4 DEF SaveOK, RowAsked
    <3>5. CASE call[c].phase = "claim"
      <4>1. Owes(c)' /\ call'[c] # NoCall
        BY <1>0, <3>1, <3>5 DEF Owes
      <4>2. row'[r].status = "processing"
        BY <1>6, <2>0, <3>3, <3>5 DEF SaveOK
      <4> QED
        BY <1>6, <2>0, <3>2, <3>3, <4>1, <4>2 DEF RowAsked
    <3>6. CASE call[c].phase \in {"result", "respond"}
      <4>1. call'[c] # NoCall /\ call'[c].phase = "respond"
        BY <1>0, <3>1, <3>6
      <4>2. Owes(c)'
        BY <4>1 DEF Owes
      <4> QED
        BY <1>6, <2>0, <3>2, <3>3, <4>1, <4>2 DEF RowAsked
    <3> QED
      BY <1>0, <3>4, <3>5, <3>6
  <2> QED
    BY <1>0, <1>10, <2>1, <2>2 DEF Insert
<1>11. CASE SideEffect(c)
  <2>1. /\ call[c].pc = "effect" /\ call[c].phase = "claim"
        /\ call'[c].pc = "fetch" /\ call'[c].phase \in {"result", "respond", "release"} /\ About(c, r)'
        /\ UNCHANGED <<row, waiters>>
    <3>1. call[c].pc = "effect" /\ call[c].phase = "claim"
      BY <1>0, <1>6, <1>11 DEF SideEffect, At, SaveOK
    <3>2. call'[c].pc = "fetch" /\ call'[c].phase \in {"result", "respond", "release"} /\ call'[c] # NoCall
          /\ UNCHANGED <<row, waiters>>
      BY <1>0, <1>11 DEF SideEffect, Acknowledge, EffectDone, EffectRefused, EffectUnsure, GotoFetch
    <3> QED
      BY <1>0, <3>1, <3>2, CallStepFrame DEF About
  <2>2. Owes(c)' /\ SaveOK(c)'
    BY <2>1 DEF Owes, SaveOK
  <2>3. RowAsked(r)'
    BY <1>0, <1>1, <1>6, <2>1, <2>2 DEF RowAsked
  <2> QED
    BY <1>6, <2>1, <2>2, <2>3
<1>12. CASE Resolve(c)
  <2>1. r \in waiters
    BY <1>0, <1>6, <1>12 DEF Resolve, At, PromptOK
  <2>2. chan'[r] = call[c].op /\ call[c].op # "empty"
    BY <1>0, <1>12, <2>1 DEF Resolve
  <2> QED
    BY <1>4, <2>2 DEF Asked
<1>13. Check(c) \/ Fetch(c) \/ Delete(c) \/ Insert(c) \/ SideEffect(c) \/ Resolve(c)
  BY Zenon DEF CallStep
<1> QED
  BY <1>7, <1>8, <1>9, <1>10, <1>11, <1>12, <1>13, Zenon

LEMMA PromptStep == IInv /\ PromptInv /\ [Next]_vars => PromptInv'
<1> SUFFICES ASSUME IInv, PromptInv, [Next]_vars, NEW r \in Requests PROVE PromptOK(r)'
  BY DEF PromptInv
<1> USE DEF IInv
<1>1. PromptOK(r)
  BY DEF PromptInv
<1>2. ASSUME NEW q \in Requests, Persist(q) \/ RunStep(q) PROVE PromptOK(r)'
  BY <1>1, <1>2, PromptRun, RunElsewhere, PromptElsewhere
<1>3. ASSUME NEW c \in Calls, NEW q \in Requests, NEW o \in {"accepted", "rejected"}, Begin(c, q, o)
      PROVE  PromptOK(r)'
  BY <1>1, <1>3, PromptBegin
<1>4. ASSUME NEW c \in Calls, CallStep(c) PROVE PromptOK(r)'
  BY <1>1, <1>4, PromptCall, CallElsewhere, PromptElsewhere
<1>5. CASE Crash
  <2>1. (\A c \in Calls : ~About(c, r)') /\ ~Asked(r)'
    BY <1>5 DEF Crash, About, Asked, TypeInv, TypeOK
  <2> QED
    BY <2>1 DEF PromptOK
<1>6. CASE UNCHANGED vars
  BY <1>1, <1>6, PromptElsewhere DEF vars, runVars, failVars, histVars, Same, About
<1> QED
  BY <1>2, <1>3, <1>4, <1>5, <1>6 DEF Next

\* Once the prompt is on screen and until its time-out, a request that no call is working
\* on can be answered, whatever earlier approvals failed and however many collided, as
\* long as no INSERT failed after its DELETE and no release failed.
THEOREM PromptsAnswerable == Spec => []PromptIsAnswerable
<1>1. Init => PromptInv
  BY DEF Init, PromptInv, PromptOK, About, Asked
<1>2. ASSUME TypeInv, PromptInv, NEW r \in Requests \ stranded, runpc[r] = "wait" /\ chan[r] = "empty",
             \A c \in Calls : ~About(c, r)
      PROVE  r \in waiters /\ row[r] # NoRow /\ row[r].status = "pending"
  <2>1. r \in waiters /\ RowAsked(r)
    BY <1>2 DEF PromptInv, PromptOK, Asked
  <2> QED
    BY <1>2, <2>1 DEF RowAsked, TypeInv, TypeOK, Row, Status
<1>3. TypeInv /\ PromptInv => PromptIsAnswerable
  BY <1>2 DEF PromptIsAnswerable
<1> QED
  BY <1>1, <1>3, PromptStep, IInvariant, PTL DEF Spec, IInv
=============================================================================
