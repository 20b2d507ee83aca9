------------------------- MODULE ApprovalPromise -------------------------
(***************************************************************************)
(* What the user-approval queue promises a dApp and its user, whatever the *)
(* threads do: a prompt is decided at most once, an acceptance is only     *)
(* decided after the side effect it stands for, and the one answer the     *)
(* dApp gets is the decision, a time-out, or nothing (the process died).   *)
(***************************************************************************)
EXTENDS Naturals

CONSTANT Requests   \* the approval requests (fresh ids: each is raised once)

VARIABLES state,    \* "new", "open" (a dApp is waiting) or "closed"
          wins,     \* how many approve/reject calls were told they decided it
          verdict,  \* what was decided: "none", "accepted" or "rejected"
          done,     \* has what an acceptance stands for happened? (From the
                    \* start when it stands for nothing but itself.)
          answer    \* what the dApp was answered

vars == <<state, wins, verdict, done, answer>>

Verdict == {"accepted", "rejected"}

Init ==
    /\ state = [r \in Requests |-> "new"]
    /\ wins = [r \in Requests |-> 0]
    /\ verdict = [r \in Requests |-> "none"]
    /\ done \in [Requests -> BOOLEAN]
    /\ answer = [r \in Requests |-> "none"]

Open(r) ==
    /\ state[r] = "new"
    /\ state' = [state EXCEPT ![r] = "open"]
    /\ UNCHANGED <<wins, verdict, done, answer>>

\* A side effect is never performed for a prompt that was never raised. It may
\* complete after the dApp has been told the prompt timed out.
Perform(r) ==
    /\ state[r] # "new"
    /\ done' = [done EXCEPT ![r] = TRUE]
    /\ UNCHANGED <<state, wins, verdict, answer>>

Decide(r, v) ==
    /\ state[r] = "open"
    /\ wins[r] = 0
    /\ v = "accepted" => done[r]
    /\ wins' = [wins EXCEPT ![r] = 1]
    /\ verdict' = [verdict EXCEPT ![r] = v]
    /\ UNCHANGED <<state, done, answer>>

Answer(r) ==
    /\ state[r] = "open"
    /\ state' = [state EXCEPT ![r] = "closed"]
    /\ \/ /\ wins[r] = 1
          /\ answer' = [answer EXCEPT ![r] = verdict[r]]
       \/ answer' = [answer EXCEPT ![r] = "timedout"]
    /\ UNCHANGED <<wins, verdict, done>>

\* The process dies and comes back: every dApp still waiting is gone.
Restart ==
    /\ state' = [r \in Requests |-> IF state[r] = "open" THEN "closed" ELSE state[r]]
    /\ answer' = [r \in Requests |-> IF state[r] = "open" THEN "lost" ELSE answer[r]]
    /\ UNCHANGED <<wins, verdict, done>>

Next ==
    \/ \E r \in Requests : Open(r) \/ Perform(r) \/ Answer(r)
    \/ \E r \in Requests, v \in Verdict : Decide(r, v)
    \/ Restart

Spec == Init /\ [][Next]_vars
=============================================================================
