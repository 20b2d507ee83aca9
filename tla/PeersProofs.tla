---------------------------- MODULE PeersProofs -----------------------------
(***************************************************************************)
(* Theorems about what talks to another device: DeviceTransfer,            *)
(* WalletConnectSessions, CeremonyHub and AirgapSigning, for any number of *)
(* devices, sessions, threads, parties, requests and calls. The components *)
(* share no state; each part has its own inductive invariant and is the    *)
(* theorems of one of them.                                                *)
(***************************************************************************)
EXTENDS AirgapSigning, CeremonyHub, DeviceTransfer, WalletConnectSessions, FiniteSetTheorems, TLAPS

-----------------------------------------------------------------------------
\* A finite set of numbers has a largest one.
LEMMA LargestExists ==
    ASSUME NEW S \in SUBSET Nat, IsFiniteSet(S), S # {}
    PROVE  \E x \in S : \A y \in S : y <= x
<1> DEFINE Above(x) == {y \in S : y > x}
           All == {Above(x) : x \in S}
<1>1. IsWellFoundedOn(StrictSubsetOrdering(S), SUBSET S)
  BY FS_StrictSubsetOrderingWellFounded, FS_FiniteSubsetsOfFinite
<1>2. All \subseteq SUBSET S /\ All # {}
  OBVIOUS
<1> HIDE DEF All
<1>3. PICK U \in All : \A V \in All : ~(<<V, U>> \in StrictSubsetOrdering(S))
  BY <1>1, <1>2, WFMin
<1> USE DEF All
<1>4. PICK x \in S : U = Above(x)
  OBVIOUS
<1> SUFFICES ASSUME NEW y \in S, ~(y <= x) PROVE FALSE
  OBVIOUS
<1>5. x \in Nat /\ y \in Nat /\ y > x
  OBVIOUS
<1>6. Above(y) \subseteq Above(x) /\ y \in Above(x) /\ y \notin Above(y)
  <2>1. \A z \in S : z > y => z > x
    BY <1>5
  <2>2. ~(y > y)
    BY <1>5
  <2> QED
    BY <1>5, <2>1, <2>2, Zenon
<1>7. Above(y) \in All /\ Above(y) \in SUBSET S /\ Above(x) \in SUBSET S
  OBVIOUS
<1>8. <<Above(y), Above(x)>> \in StrictSubsetOrdering(S)
  BY <1>6, <1>7 DEF StrictSubsetOrdering
<1> QED
  BY <1>3, <1>4, <1>7, <1>8

-----------------------------------------------------------------------------
(* DeviceTransfer. ReleasedAsConfirmed says what is true of a release. The  *)
(* invariant adds who may still release: of the queries of a session at     *)
(* most one is past the claim, and none is once the wallet was released     *)
(* (OneClaimant); what that query showed and heard so far (QueryInv); and   *)
(* that the channel's first message is the host's first answer              *)
(* (ChannelInv).                                                            *)

\* d's query took the claim of its session s and is not answered yet.
Past(d, s) == query[d] # Absent /\ query[d].code = s /\ query[d].pc \notin {"find", "claim"}

OneClaimant ==
    /\ \A d \in Devices, s \in Codes : Past(d, s) => session[s].claimed
    /\ \A d, e \in Devices, s \in Codes : Past(d, s) /\ Past(e, s) => d = e
    /\ \A d, e \in Devices, s \in Codes : Past(d, s) => <<s, e>> \notin released
    /\ \A d \in Devices, s \in Codes : <<s, d>> \in released => session[s].claimed
    /\ \A d, e \in Devices, s \in Codes : <<s, d>> \in released /\ <<s, e>> \in released => d = e

QueryOK(d) ==
    query[d] # Absent =>
        /\ query[d].token = "right" => <<query[d].code, d>> \in paired
        /\ query[d].pc \in {"take", "wait", "remove", "build"} =>
              query[d].token = "right" /\ Announced(query[d].code, d)
        /\ query[d].pc \in {"remove", "build"} /\ query[d].heard = "confirm" => first[query[d].code] = TRUE
        /\ query[d].pc = "build" => query[d].heard = "confirm"

QueryInv == \A d \in Devices : QueryOK(d)

ChannelInv ==
    \A s \in Codes : IF session[s].says = <<>> THEN first[s] = Absent ELSE first[s] = Head(session[s].says)

ReleaseInv ==
    /\ \A r \in released : r \in paired /\ Announced(r[1], r[2]) /\ first[r[1]] = TRUE
    /\ \A d \in Devices : reply[d] = "payload" \/ device[d] # "nothing" => \E s \in Codes : <<s, d>> \in released

IInv == TransferTypeOK /\ OneClaimant /\ QueryInv /\ ChannelInv /\ ReleaseInv

Sessions == [claimed : BOOLEAN, end : {"none", "held", "taken", "dropped"}, says : Seq(BOOLEAN)]
Queries  == [code : Codes, token : {"right", "wrong", "garbled"},
             pc : {"find", "claim", "token", "take", "wait", "remove", "build"},
             heard : {"none", "confirm", "cancel", "timeout"}]

\* The invariant holds before the first export (TransferInit).
THEOREM TransferStarts == TransferInit => IInv
<1> SUFFICES ASSUME TransferInit PROVE IInv
  OBVIOUS
<1>1. TransferTypeOK
  BY DEF TransferInit, TransferTypeOK, Answered
<1>2. OneClaimant /\ QueryInv /\ ReleaseInv
  BY DEF TransferInit, OneClaimant, QueryInv, QueryOK, ReleaseInv, Past
<1>3. ChannelInv
  BY DEF TransferInit, ChannelInv
<1> QED
  BY <1>1, <1>2, <1>3 DEF IInv

LEMMA IInvImplies == IInv => ReleasedAsConfirmed
<1> SUFFICES ASSUME IInv PROVE ReleasedAsConfirmed
  OBVIOUS
<1>1. ASSUME NEW s \in Codes PROVE Cardinality({d \in Devices : <<s, d>> \in released}) <= 1
  <2> DEFINE S == {d \in Devices : <<s, d>> \in released}
  <2>1. CASE S = {}
    <3>1. Cardinality(S) = 0
      BY <2>1, FS_EmptySet
    <3> QED
      BY <3>1
  <2>2. CASE S # {}
    <3>1. PICK d \in S : TRUE
      BY <2>2
    <3>2. \A e \in S : e = d
      BY <3>1 DEF IInv, OneClaimant
    <3>3. S = {d}
      BY <3>1, <3>2
    <3>4. Cardinality(S) = 1
      BY <3>3, FS_Singleton
    <3> QED
      BY <3>4
  <2> QED
    BY <2>1, <2>2
<1> QED
  BY <1>1 DEF IInv, ReleaseInv, ReleasedAsConfirmed

-----------------------------------------------------------------------------
(* The host's calls. *)

\* What no step but the queries' own touches keeps its invariants.
LEMMA ExportKeeps == ASSUME IInv, NEW s \in Codes, Export(s) PROVE IInv'
<1>1. /\ session' = [session EXCEPT ![s].end = "held"]
      /\ UNCHANGED <<owned, query, reply, deciding, device, historyVars>> /\ listed' = listed \cup {s}
  BY DEF Export
<1>2. session[s] \in Sessions /\ [session[s] EXCEPT !.end = "held"] \in Sessions
  BY DEF IInv, TransferTypeOK, Sessions
<1>3. TransferTypeOK'
  BY <1>1, <1>2 DEF IInv, TransferTypeOK, historyVars, Sessions
<1>4. \A x \in Codes : session'[x].claimed = session[x].claimed /\ session'[x].says = session[x].says
  BY <1>1, <1>2 DEF IInv, TransferTypeOK, Sessions
<1>5. OneClaimant' /\ QueryInv' /\ ReleaseInv'
  BY <1>1, <1>4 DEF IInv, OneClaimant, QueryInv, QueryOK, ReleaseInv, Past, historyVars, Announced
<1>6. ChannelInv'
  BY <1>1, <1>4 DEF IInv, ChannelInv, historyVars
<1> QED
  BY <1>3, <1>5, <1>6 DEF IInv

\* Nothing but the wallet, the calls of the host or the new devices moves.
LEMMA ElsewhereKeeps ==
    ASSUME IInv, UNCHANGED <<listed, session, query, reply, historyVars>>,
           owned' \in BOOLEAN, deciding' \in [Hosts -> [code : Codes, says : BOOLEAN] \cup {Absent}],
           device' \in [Devices -> {"nothing", "wallet", "whole"}],
           \A d \in Devices : device'[d] # "nothing" => reply[d] = "payload" \/ device[d] # "nothing"
    PROVE  IInv'
<1>1. TransferTypeOK'
  BY DEF IInv, TransferTypeOK, historyVars
<1>2. OneClaimant' /\ QueryInv' /\ ChannelInv'
  BY DEF IInv, OneClaimant, QueryInv, QueryOK, ChannelInv, Past, historyVars, Announced
<1>3. ReleaseInv'
  BY DEF IInv, ReleaseInv, historyVars, Announced
<1> QED
  BY <1>1, <1>2, <1>3 DEF IInv

\* The host's first answer is recorded when the channel is still empty.
LEMMA SayKeeps == ASSUME IInv, NEW h \in Hosts, Say(h) PROVE IInv'
<1> DEFINE s == deciding[h].code
           x == deciding[h].says
<1>1. /\ deciding[h] # Absent /\ deciding' = [deciding EXCEPT ![h] = Absent]
      /\ UNCHANGED <<listed, owned, query, reply, device, paired, showed, released>>
  BY DEF Say
<1>2. s \in Codes /\ x \in BOOLEAN
  BY <1>1 DEF IInv, TransferTypeOK
<1>3. CASE UNCHANGED <<session, first>>
  BY <1>1, <1>3, ElsewhereKeeps DEF IInv, TransferTypeOK, historyVars
<1>4. CASE /\ session' = [session EXCEPT ![s].says = Append(session[s].says, x)]
           /\ first' = IF first[s] = Absent THEN [first EXCEPT ![s] = x] ELSE first
  <2>1. session[s] \in Sessions /\ session[s].says \in Seq(BOOLEAN)
    BY <1>2 DEF IInv, TransferTypeOK, Sessions
  <2>2. Append(session[s].says, x) \in Seq(BOOLEAN) /\ Append(session[s].says, x) # <<>>
        /\ Head(Append(session[s].says, x)) = IF session[s].says = <<>> THEN x ELSE Head(session[s].says)
    BY <1>2, <2>1
  <2>3. [session[s] EXCEPT !.says = Append(session[s].says, x)] \in Sessions
    BY <2>1, <2>2 DEF Sessions
  <2>4. TransferTypeOK'
    BY <1>1, <1>2, <1>4, <2>3 DEF IInv, TransferTypeOK, Sessions
  <2>5. /\ \A y \in Codes : session'[y].claimed = session[y].claimed
        /\ \A y \in Codes \ {s} : session'[y].says = session[y].says
        /\ session'[s].says = Append(session[s].says, x)
    BY <1>2, <1>4, <2>1 DEF IInv, TransferTypeOK, Sessions
  <2>6. \A y \in Codes : first[y] # Absent => first'[y] = first[y]
    BY <1>4 DEF IInv, TransferTypeOK
  <2>7. \A y \in Codes : first[y] = TRUE => first'[y] = TRUE
    BY <2>6, TransferAssumption
  <2>8. OneClaimant'
    BY <1>1, <2>5 DEF IInv, OneClaimant, Past
  <2>9. QueryInv'
    <3> SUFFICES ASSUME NEW d \in Devices, query[d] # Absent
                 PROVE  /\ query[d].token = "right" => <<query[d].code, d>> \in paired
                        /\ query[d].pc \in {"take", "wait", "remove", "build"} =>
                              query[d].token = "right" /\ Announced(query[d].code, d)
                        /\ query[d].pc \in {"remove", "build"} /\ query[d].heard = "confirm"
                              => first'[query[d].code] = TRUE
                        /\ query[d].pc = "build" => query[d].heard = "confirm"
      BY <1>1 DEF QueryInv, QueryOK, Announced
    <3>1. query[d].code \in Codes
      BY DEF IInv, TransferTypeOK
    <3> QED
      BY <2>7, <3>1 DEF IInv, QueryInv, QueryOK, Announced
  <2>10. ReleaseInv'
    <3>1. \A r \in released : r[1] \in Codes
      BY DEF IInv, TransferTypeOK
    <3> QED
      BY <1>1, <2>7, <3>1 DEF IInv, ReleaseInv, Announced
  <2>11. ChannelInv'
    <3> SUFFICES ASSUME NEW y \in Codes
                 PROVE  IF session'[y].says = <<>> THEN first'[y] = Absent ELSE first'[y] = Head(session'[y].says)
      BY DEF ChannelInv
    <3>1. CASE y # s
      <4>1. first'[y] = first[y]
        BY <1>4, <3>1 DEF IInv, TransferTypeOK
      <4> QED
        BY <2>5, <3>1, <4>1 DEF IInv, ChannelInv
    <3>2. CASE y = s
      <4>1. CASE session[s].says = <<>>
        <5>1. first[s] = Absent
          BY <1>2, <4>1 DEF IInv, ChannelInv
        <5> QED
          BY <1>2, <1>4, <2>2, <2>5, <3>2, <4>1, <5>1 DEF IInv, TransferTypeOK
      <4>2. CASE session[s].says # <<>>
        <5>1. first[s] = Head(session[s].says) /\ Head(session[s].says) \in BOOLEAN
          BY <1>2, <2>1, <4>2 DEF IInv, ChannelInv
        <5>2. first' = first
          BY <1>4, <5>1, TransferAssumption
        <5> QED
          BY <2>2, <2>5, <3>2, <4>2, <5>1, <5>2
      <4> QED
        BY <4>1, <4>2
    <3> QED
      BY <3>1, <3>2
  <2> QED
    BY <2>4, <2>8, <2>9, <2>10, <2>11 DEF IInv
<1> QED
  BY <1>3, <1>4 DEF Say

LEMMA SourceEndsKeeps == ASSUME IInv, SourceEnds PROVE IInv'
<1>1. /\ session' = [x \in Codes |-> [session[x] EXCEPT !.end = IF session[x].end = "none" THEN session[x].end ELSE "dropped"]]
      /\ query' = [d \in Devices |-> Absent] /\ listed' = {} /\ deciding' = [h \in Hosts |-> Absent]
      /\ reply' = [d \in Devices |-> IF query[d] = Absent THEN reply[d] ELSE "lost"]
      /\ UNCHANGED <<owned, device, historyVars>>
  BY DEF SourceEnds
<1>2. \A x \in Codes : session[x] \in Sessions /\ session'[x] \in Sessions
                       /\ session'[x].claimed = session[x].claimed /\ session'[x].says = session[x].says
  BY <1>1 DEF IInv, TransferTypeOK, Sessions
<1>3. TransferTypeOK'
  <2>1. session' \in [Codes -> Sessions]
    BY <1>1, <1>2
  <2> QED
    BY <1>1, <2>1 DEF IInv, TransferTypeOK, historyVars, Answered, Sessions
<1>4. OneClaimant' /\ QueryInv'
  BY <1>1, <1>2 DEF IInv, OneClaimant, QueryInv, QueryOK, Past, historyVars, Announced
<1>5. ChannelInv' /\ ReleaseInv'
  BY <1>1, <1>2 DEF IInv, ChannelInv, ReleaseInv, historyVars, Announced
<1> QED
  BY <1>3, <1>4, <1>5 DEF IInv

-----------------------------------------------------------------------------
(* The steps of a query. *)

\* A step of d's query that claims and releases nothing keeps the invariant, if what
\* d's query then knows is true.
LEMMA QueryStepKeeps ==
    ASSUME IInv, NEW d \in Devices, TransferTypeOK', QueryOK(d)',
           \A e \in Devices : e # d => query'[e] = query[e],
           \A x \in Codes : session'[x].says = session[x].says
                              /\ session'[x].claimed = session[x].claimed,
           \A x \in Codes : Past(d, x)' => Past(d, x),
           \A e \in Devices : reply'[e] = "payload" => reply[e] = "payload",
           UNCHANGED <<first, released, device>>, paired \subseteq paired', showed \subseteq showed'
    PROVE  IInv'
<1>1. \A e \in Devices, x \in Codes : Past(e, x)' => Past(e, x)
  <2> SUFFICES ASSUME NEW e \in Devices, NEW x \in Codes, Past(e, x)' PROVE Past(e, x)
    OBVIOUS
  <2>1. CASE e = d
    BY <2>1
  <2>2. CASE e # d
    BY <2>2 DEF Past
  <2> QED
    BY <2>1, <2>2
<1>2. OneClaimant'
  BY <1>1 DEF IInv, OneClaimant
<1>3. QueryInv'
  <2> SUFFICES ASSUME NEW e \in Devices PROVE QueryOK(e)'
    BY DEF QueryInv
  <2>1. CASE e # d
    BY <2>1 DEF IInv, QueryInv, QueryOK, Announced
  <2> QED
    BY <2>1
<1>4. ChannelInv'
  BY DEF IInv, ChannelInv
<1>5. ReleaseInv'
  BY DEF IInv, ReleaseInv, Announced
<1> QED
  BY <1>2, <1>3, <1>4, <1>5 DEF IInv

LEMMA AskKeeps ==
    ASSUME IInv, NEW d \in Devices, NEW s \in Codes, NEW token \in {"right", "wrong", "garbled"}, Ask(d, s, token)
    PROVE  IInv'
<1> DEFINE q == [code |-> s, token |-> token, pc |-> "find", heard |-> "none"]
<1>1. /\ query' = [query EXCEPT ![d] = q]
      /\ paired' = IF token = "right" THEN paired \cup {<<s, d>>} ELSE paired
      /\ UNCHANGED <<listed, session, owned, reply, deciding, device, first, showed, released>>
  BY DEF Ask, sourceVars
<1>2. q \in Queries
  BY DEF Queries
<1>3. TransferTypeOK'
  BY <1>1, <1>2 DEF IInv, TransferTypeOK, Queries
<1>4. query'[d] = q /\ \A e \in Devices : e # d => query'[e] = query[e]
  BY <1>1 DEF IInv, TransferTypeOK
<1>5. QueryOK(d)' /\ \A x \in Codes : ~Past(d, x)'
  BY <1>1, <1>4 DEF QueryOK, Past
<1> QED
  BY <1>1, <1>3, <1>4, <1>5, QueryStepKeeps

\* What a query is answered, but the payload.
LEMMA RefusedKeeps ==
    ASSUME IInv, NEW d \in Devices, NEW a \in Answered \ {"payload"}, Reply(d, a),
           listed' \subseteq Codes, session' \in [Codes -> Sessions],
           \A x \in Codes : session'[x].says = session[x].says
                              /\ session'[x].claimed = session[x].claimed,
           UNCHANGED <<owned, deciding, device, historyVars>>
    PROVE  IInv'
<1>1. query' = [query EXCEPT ![d] = Absent] /\ reply' = [reply EXCEPT ![d] = a]
  BY DEF Reply
<1>2. TransferTypeOK'
  BY <1>1 DEF IInv, TransferTypeOK, historyVars, Sessions
<1>3. query'[d] = Absent /\ \A e \in Devices : e # d => query'[e] = query[e]
  BY <1>1 DEF IInv, TransferTypeOK
<1>4. QueryOK(d)' /\ \A x \in Codes : ~Past(d, x)'
  BY <1>3 DEF QueryOK, Past
<1>5. \A e \in Devices : reply'[e] = "payload" => reply[e] = "payload"
  BY <1>1 DEF IInv, TransferTypeOK, Answered
<1> QED
  BY <1>2, <1>3, <1>4, <1>5, QueryStepKeeps DEF historyVars

\* A step of d's query to pc that leaves the tables of the source typed and sets no claim.
LEMMA GoesOnKeeps ==
    ASSUME IInv, NEW d \in Devices, query[d] # Absent, NEW q \in Queries,
           query' = [query EXCEPT ![d] = q], q.code = query[d].code, q.token = query[d].token,
           query[d].pc \notin {"find", "claim"} \/ q.pc \in {"find", "claim"},
           listed' \subseteq Codes, session' \in [Codes -> Sessions], showed' \subseteq Codes \X Devices \X Devices,
           \A x \in Codes : session'[x].says = session[x].says
                              /\ session'[x].claimed = session[x].claimed,
           UNCHANGED <<owned, reply, deciding, device, first, paired, released>>, showed \subseteq showed',
           /\ q.pc \in {"take", "wait", "remove", "build"} => q.token = "right" /\ \E name \in Devices : <<q.code, d, name>> \in showed'
           /\ q.pc \in {"remove", "build"} /\ q.heard = "confirm" => first[q.code] = TRUE
           /\ q.pc = "build" => q.heard = "confirm"
    PROVE  IInv'
<1>1. TransferTypeOK'
  BY DEF IInv, TransferTypeOK, Queries, Sessions
<1>2. query'[d] = q /\ \A e \in Devices : e # d => query'[e] = query[e]
  BY DEF IInv, TransferTypeOK
<1>3. QueryOK(d)'
  BY <1>2 DEF IInv, QueryInv, QueryOK, Announced
<1>4. \A x \in Codes : Past(d, x)' => Past(d, x)
  BY <1>2 DEF Past
<1> QED
  BY <1>1, <1>2, <1>3, <1>4, QueryStepKeeps

LEMMA FindKeeps == ASSUME IInv, NEW d \in Devices, Find(d) PROVE IInv'
<1>1. query[d] # Absent /\ query[d].pc = "find" /\ UNCHANGED <<sourceVars, deciding, device, historyVars>>
  BY DEF Find, Pc
<1>2. listed \subseteq Codes /\ session \in [Codes -> Sessions] /\ query[d] \in Queries
      /\ showed \subseteq Codes \X Devices \X Devices
  BY <1>1 DEF IInv, TransferTypeOK, Sessions, Queries
<1>3. CASE Step(d, "claim") /\ reply' = reply
  <2> DEFINE q == [query[d] EXCEPT !.pc = "claim"]
  <2>1. query' = [query EXCEPT ![d] = q] /\ q \in Queries /\ q.pc = "claim" /\ q.code = query[d].code
        /\ q.token = query[d].token
    BY <1>2, <1>3 DEF Step, Queries
  <2> HIDE DEF q
  <2> QED
    BY <1>1, <1>2, <1>3, <2>1, GoesOnKeeps DEF sourceVars, historyVars
<1>4. CASE Reply(d, "not_found")
  BY <1>1, <1>2, <1>4, RefusedKeeps DEF Answered, sourceVars
<1> QED
  BY <1>3, <1>4 DEF Find

\* The only step that adds a query past the claim: it found the session unclaimed, so
\* no other query is past it and nothing was released.
LEMMA ClaimKeeps == ASSUME IInv, NEW d \in Devices, Claim(d) PROVE IInv'
<1> DEFINE s == query[d].code
<1>1. /\ query[d] # Absent /\ query[d].pc = "claim" /\ session' = [session EXCEPT ![s].claimed = TRUE]
      /\ UNCHANGED <<listed, owned, deciding, device, historyVars>>
  BY DEF Claim, Pc
<1>2. /\ listed \subseteq Codes /\ session \in [Codes -> Sessions] /\ query[d] \in Queries /\ s \in Codes
      /\ showed \subseteq Codes \X Devices \X Devices
  BY <1>1 DEF IInv, TransferTypeOK, Sessions, Queries
<1>3. [session[s] EXCEPT !.claimed = TRUE] \in Sessions
  BY <1>2 DEF Sessions
<1>4. session' \in [Codes -> Sessions]
  BY <1>1, <1>2, <1>3
<1>5. /\ \A x \in Codes : session'[x].says = session[x].says
      /\ \A x \in Codes : x # s => session'[x].claimed = session[x].claimed
      /\ session'[s].claimed = TRUE
  BY <1>1, <1>2 DEF Sessions
<1>6. CASE session[s].claimed /\ Reply(d, "not_found")
  <2>1. \A x \in Codes : session'[x].claimed = session[x].claimed
    <3>1. session[s].claimed = TRUE
      BY <1>2, <1>6 DEF Sessions
    <3> QED
      BY <1>5, <3>1
  <2> QED
    BY <1>1, <1>4, <1>5, <1>6, <1>2, <2>1, RefusedKeeps DEF Answered
<1>7. CASE ~session[s].claimed /\ Step(d, "token") /\ reply' = reply
  <2> DEFINE q == [query[d] EXCEPT !.pc = "token"]
  <2>1. query' = [query EXCEPT ![d] = q] /\ q \in Queries /\ q.pc = "token" /\ q.code = s
        /\ q.token = query[d].token /\ q.heard = query[d].heard
    BY <1>2, <1>7 DEF Step, Queries
  <2> HIDE DEF q
  <2>2. query'[d] = q /\ \A e \in Devices : e # d => query'[e] = query[e]
    BY <2>1 DEF IInv, TransferTypeOK
  <2>3. TransferTypeOK'
    BY <1>1, <1>2, <1>4, <1>7, <2>1 DEF IInv, TransferTypeOK, Queries, Sessions, historyVars
  <2>4. \A e \in Devices, x \in Codes : Past(e, x)' => (e = d /\ x = s) \/ (e # d /\ Past(e, x))
    BY <2>1, <2>2 DEF Past
  <2>5. \A e \in Devices : ~Past(e, s) /\ <<s, e>> \notin released
    BY <1>2, <1>7 DEF IInv, OneClaimant
  <2>6. OneClaimant'
    <3>1. \A e \in Devices, x \in Codes : Past(e, x)' => session'[x].claimed
      BY <1>5, <2>4 DEF IInv, OneClaimant
    <3>2. \A e, f \in Devices, x \in Codes : Past(e, x)' /\ Past(f, x)' => e = f
      BY <2>4, <2>5 DEF IInv, OneClaimant
    <3>3. \A e, f \in Devices, x \in Codes : Past(e, x)' => <<x, f>> \notin released'
      BY <1>1, <2>4, <2>5 DEF IInv, OneClaimant, historyVars
    <3>4. \A e \in Devices, x \in Codes : <<x, e>> \in released' => session'[x].claimed
      BY <1>1, <1>5 DEF IInv, OneClaimant, historyVars
    <3>5. \A e, f \in Devices, x \in Codes : <<x, e>> \in released' /\ <<x, f>> \in released' => e = f
      BY <1>1 DEF IInv, OneClaimant, historyVars
    <3> QED
      BY <3>1, <3>2, <3>3, <3>4, <3>5 DEF OneClaimant
  <2>7. QueryInv'
    <3> SUFFICES ASSUME NEW e \in Devices PROVE QueryOK(e)'
      BY DEF QueryInv
    <3>1. CASE e # d
      BY <1>1, <2>2, <3>1 DEF IInv, QueryInv, QueryOK, historyVars, Announced
    <3>2. CASE e = d
      BY <1>1, <2>1, <2>2, <3>2 DEF IInv, QueryInv, QueryOK, historyVars, Announced
    <3> QED
      BY <3>1, <3>2
  <2>8. ChannelInv' /\ ReleaseInv'
    BY <1>1, <1>5, <1>7 DEF IInv, ChannelInv, ReleaseInv, historyVars, Announced
  <2> QED
    BY <2>3, <2>6, <2>7, <2>8 DEF IInv
<1> QED
  BY <1>6, <1>7 DEF Claim

LEMMA CheckTokenKeeps ==
    ASSUME IInv, NEW d \in Devices, NEW name \in Devices, CheckToken(d, name)
    PROVE  IInv'
<1> DEFINE s == query[d].code
<1>1. /\ query[d] # Absent /\ query[d].pc = "token"
      /\ UNCHANGED <<session, owned, deciding, device, first, paired, released>>
  BY DEF CheckToken, Pc
<1>2. /\ listed \subseteq Codes /\ session \in [Codes -> Sessions] /\ query[d] \in Queries /\ s \in Codes
      /\ showed \subseteq Codes \X Devices \X Devices
  BY <1>1 DEF IInv, TransferTypeOK, Sessions, Queries
<1>3. CASE Reply(d, "bad_request") /\ UNCHANGED <<listed, showed>>
  BY <1>1, <1>2, <1>3, RefusedKeeps DEF Answered, historyVars
<1>4. CASE listed' = listed \ {s} /\ Reply(d, "token_invalid") /\ showed' = showed
  BY <1>1, <1>2, <1>4, RefusedKeeps DEF Answered, historyVars
<1>5. CASE /\ query[d].token = "right" /\ Step(d, "take")
           /\ showed' = showed \cup {<<s, d, name>>} /\ UNCHANGED <<listed, reply>>
  <2> DEFINE q == [query[d] EXCEPT !.pc = "take"]
  <2>1. query' = [query EXCEPT ![d] = q] /\ q \in Queries /\ q.pc = "take" /\ q.code = s
        /\ q.token = query[d].token
    BY <1>2, <1>5 DEF Step, Queries
  <2> HIDE DEF q
  <2>2. showed \subseteq showed' /\ showed' \subseteq Codes \X Devices \X Devices /\ \E x \in Devices : <<q.code, d, x>> \in showed'
    BY <1>2, <1>5, <2>1
  <2> QED
    BY <1>1, <1>2, <1>5, <2>1, <2>2, GoesOnKeeps DEF Announced
<1> QED
  BY <1>3, <1>4, <1>5 DEF CheckToken

LEMMA TakeEndKeeps == ASSUME IInv, NEW d \in Devices, TakeEnd(d) PROVE IInv'
<1> DEFINE s == query[d].code
<1>1. query[d] # Absent /\ query[d].pc = "take" /\ UNCHANGED <<listed, owned, deciding, device, historyVars>>
  BY DEF TakeEnd, Pc
<1>2. /\ listed \subseteq Codes /\ session \in [Codes -> Sessions] /\ query[d] \in Queries /\ s \in Codes
      /\ showed \subseteq Codes \X Devices \X Devices
  BY <1>1 DEF IInv, TransferTypeOK, Sessions, Queries
<1>3. CASE Reply(d, "not_found") /\ session' = session
  BY <1>1, <1>2, <1>3, RefusedKeeps DEF Answered
<1>4. CASE session' = [session EXCEPT ![s].end = "taken"] /\ Step(d, "wait") /\ reply' = reply
  <2> DEFINE q == [query[d] EXCEPT !.pc = "wait"]
  <2>1. query' = [query EXCEPT ![d] = q] /\ q \in Queries /\ q.pc = "wait" /\ q.code = s
        /\ q.token = query[d].token
    BY <1>2, <1>4 DEF Step, Queries
  <2>2. [session[s] EXCEPT !.end = "taken"] \in Sessions
    BY <1>2 DEF Sessions
  <2>3. /\ session' \in [Codes -> Sessions]
        /\ \A x \in Codes : session'[x].says = session[x].says /\ session'[x].claimed = session[x].claimed
    BY <1>2, <1>4, <2>2 DEF Sessions
  <2>4. query[d].token = "right" /\ Announced(s, d)
    BY <1>1 DEF IInv, QueryInv, QueryOK
  <2> HIDE DEF q
  <2> QED
    BY <1>1, <1>2, <1>4, <2>1, <2>3, <2>4, GoesOnKeeps DEF Announced, historyVars
<1> QED
  BY <1>3, <1>4 DEF TakeEnd

\* What a query hears as a confirm is the host's first answer to its session.
LEMMA HearKeeps == ASSUME IInv, NEW d \in Devices, Hear(d) PROVE IInv'
<1> DEFINE s == query[d].code
           x == IF session[s].says = <<>> THEN "timeout" ELSE IF Heard(session[s].says) THEN "confirm" ELSE "cancel"
           q == [query[d] EXCEPT !.pc = "remove", !.heard = x]
<1>1. /\ query[d] # Absent /\ query[d].pc = "wait" /\ query' = [query EXCEPT ![d] = q]
      /\ UNCHANGED <<sourceVars, reply, deciding, device, historyVars>>
  BY DEF Hear, Pc
<1>2. /\ listed \subseteq Codes /\ session \in [Codes -> Sessions] /\ query[d] \in Queries /\ s \in Codes
      /\ showed \subseteq Codes \X Devices \X Devices
  BY <1>1 DEF IInv, TransferTypeOK, Sessions, Queries
<1>3. q \in Queries /\ q.pc = "remove" /\ q.code = s /\ q.token = query[d].token /\ q.heard = x
  BY <1>2 DEF Queries
<1>4. query[d].token = "right" /\ Announced(s, d)
  BY <1>1 DEF IInv, QueryInv, QueryOK
<1>5. x = "confirm" => first[s] = TRUE
  <2> SUFFICES ASSUME session[s].says # <<>>, Heard(session[s].says) PROVE first[s] = TRUE
    OBVIOUS
  <2>1. session[s].says \in Seq(BOOLEAN) /\ first[s] = Head(session[s].says)
    BY <1>2 DEF IInv, ChannelInv, Sessions
  <2>2. Head(session[s].says) \in BOOLEAN
    BY <2>1
  <2> QED
    BY <2>1, <2>2 DEF Heard
<1> HIDE DEF q, x
<1>6. /\ \A y \in Codes : session'[y].says = session[y].says /\ session'[y].claimed = session[y].claimed
      /\ listed' = listed /\ session' = session /\ owned' = owned /\ showed' = showed
  BY <1>1 DEF sourceVars, historyVars
<1> QED
  BY <1>1, <1>2, <1>3, <1>4, <1>5, <1>6, GoesOnKeeps DEF Announced, historyVars

LEMMA UnlistKeeps == ASSUME IInv, NEW d \in Devices, Unlist(d) PROVE IInv'
<1> DEFINE s == query[d].code
<1>1. /\ query[d] # Absent /\ query[d].pc = "remove" /\ listed' = listed \ {s}
      /\ UNCHANGED <<owned, deciding, device, historyVars>>
  BY DEF Unlist, Pc
<1>2. /\ listed' \subseteq Codes /\ session \in [Codes -> Sessions] /\ query[d] \in Queries /\ s \in Codes
      /\ showed \subseteq Codes \X Devices \X Devices
  BY <1>1 DEF IInv, TransferTypeOK, Sessions, Queries
<1>3. CASE query[d].heard = "confirm" /\ Step(d, "build") /\ UNCHANGED <<reply, session>>
  <2> DEFINE q == [query[d] EXCEPT !.pc = "build"]
  <2>1. query' = [query EXCEPT ![d] = q] /\ q \in Queries /\ q.pc = "build" /\ q.code = s
        /\ q.token = query[d].token /\ q.heard = "confirm"
    BY <1>2, <1>3 DEF Step, Queries
  <2>2. query[d].token = "right" /\ Announced(s, d) /\ first[s] = TRUE
    BY <1>1, <1>3 DEF IInv, QueryInv, QueryOK
  <2> HIDE DEF q
  <2> QED
    BY <1>1, <1>2, <1>3, <2>1, <2>2, GoesOnKeeps DEF Announced, historyVars
<1>4. CASE /\ Reply(d, IF query[d].heard = "cancel" THEN "declined" ELSE "timeout")
           /\ session' = [session EXCEPT ![s].end = "dropped"]
  <2>1. [session[s] EXCEPT !.end = "dropped"] \in Sessions
    BY <1>2 DEF Sessions
  <2>2. /\ session' \in [Codes -> Sessions]
        /\ \A x \in Codes : session'[x].says = session[x].says /\ session'[x].claimed = session[x].claimed
    BY <1>2, <1>4, <2>1 DEF Sessions
  <2>3. CASE Reply(d, "declined")
    BY <1>1, <1>2, <2>2, <2>3, RefusedKeeps DEF Answered
  <2>4. CASE Reply(d, "timeout")
    BY <1>1, <1>2, <2>2, <2>4, RefusedKeeps DEF Answered
  <2> QED
    BY <1>4, <2>3, <2>4
<1> QED
  BY <1>1, <1>3, <1>4 DEF Unlist

\* The release: by the one query past the claim of its session.
LEMMA BuildKeeps == ASSUME IInv, NEW d \in Devices, Build(d) PROVE IInv'
<1> DEFINE s == query[d].code
<1>1. /\ query[d] # Absent /\ query[d].pc = "build" /\ session' = [session EXCEPT ![s].end = "dropped"]
      /\ UNCHANGED <<listed, owned, deciding, device, first, paired, showed>>
  BY DEF Build, Pc
<1>2. /\ listed \subseteq Codes /\ session \in [Codes -> Sessions] /\ query[d] \in Queries /\ s \in Codes
  BY <1>1 DEF IInv, TransferTypeOK, Sessions, Queries
<1>3. [session[s] EXCEPT !.end = "dropped"] \in Sessions
  BY <1>2 DEF Sessions
<1>4. /\ session' \in [Codes -> Sessions]
      /\ \A x \in Codes : session'[x].says = session[x].says /\ session'[x].claimed = session[x].claimed
  BY <1>1, <1>2, <1>3 DEF Sessions
<1>5. CASE Reply(d, "failed") /\ released' = released
  BY <1>1, <1>2, <1>4, <1>5, RefusedKeeps DEF Answered, historyVars
<1>6. ASSUME NEW a \in {"payload", "lost"}, released' = released \cup {<<s, d>>}, Reply(d, a) PROVE IInv'
  <2>1. query' = [query EXCEPT ![d] = Absent] /\ reply' = [reply EXCEPT ![d] = a]
    BY <1>6 DEF Reply
  <2>2. TransferTypeOK'
    BY <1>1, <1>2, <1>4, <1>6, <2>1 DEF IInv, TransferTypeOK, Sessions, Answered
  <2>3. query'[d] = Absent /\ \A e \in Devices : e # d => query'[e] = query[e]
    BY <2>1 DEF IInv, TransferTypeOK
  <2>4. Past(d, s) /\ query[d].token = "right" /\ first[s] = TRUE /\ <<s, d>> \in paired /\ Announced(s, d)
    BY <1>1 DEF IInv, QueryInv, QueryOK, Past
  <2>5. \A e \in Devices, x \in Codes : Past(e, x)' => e # d /\ Past(e, x)
    BY <2>3 DEF Past
  <2>6. session[s].claimed /\ (\A e \in Devices : Past(e, s) => e = d) /\ \A e \in Devices : <<s, e>> \notin released
    BY <1>2, <2>4 DEF IInv, OneClaimant
  <2>7. OneClaimant'
    <3>1. \A e \in Devices, x \in Codes : Past(e, x)' => session'[x].claimed
      BY <1>4, <2>5 DEF IInv, OneClaimant
    <3>2. \A e, f \in Devices, x \in Codes : Past(e, x)' /\ Past(f, x)' => e = f
      BY <2>5 DEF IInv, OneClaimant
    <3>3. \A e, f \in Devices, x \in Codes : Past(e, x)' => <<x, f>> \notin released'
      BY <1>6, <2>5, <2>6 DEF IInv, OneClaimant
    <3>4. \A e \in Devices, x \in Codes : <<x, e>> \in released' => session'[x].claimed
      BY <1>4, <1>6, <2>6 DEF IInv, OneClaimant
    <3>5. \A e, f \in Devices, x \in Codes : <<x, e>> \in released' /\ <<x, f>> \in released' => e = f
      BY <1>6, <2>6 DEF IInv, OneClaimant
    <3> QED
      BY <3>1, <3>2, <3>3, <3>4, <3>5 DEF OneClaimant
  <2>8. QueryInv'
    BY <1>1, <2>3 DEF IInv, QueryInv, QueryOK, Announced
  <2>9. ChannelInv'
    BY <1>1, <1>4 DEF IInv, ChannelInv
  <2>10. ReleaseInv'
    <3>1. \A r \in released' : r \in paired' /\ Announced(r[1], r[2])' /\ first'[r[1]] = TRUE
      BY <1>1, <1>6, <2>4 DEF IInv, ReleaseInv, Announced
    <3>2. \A e \in Devices : reply'[e] = "payload" \/ device'[e] # "nothing" => \E x \in Codes : <<x, e>> \in released'
      <4> SUFFICES ASSUME NEW e \in Devices, reply'[e] = "payload" \/ device'[e] # "nothing"
                   PROVE  \E x \in Codes : <<x, e>> \in released'
        OBVIOUS
      <4>1. CASE e = d
        BY <1>2, <1>6, <4>1
      <4>2. CASE e # d
        <5>1. reply'[e] = reply[e] /\ device'[e] = device[e]
          BY <1>1, <2>1, <4>2 DEF IInv, TransferTypeOK
        <5> QED
          BY <1>6, <5>1 DEF IInv, ReleaseInv
      <4> QED
        BY <4>1, <4>2
    <3> QED
      BY <3>1, <3>2 DEF ReleaseInv
  <2> QED
    BY <2>2, <2>7, <2>8, <2>9, <2>10 DEF IInv
<1> QED
  BY <1>5, <1>6 DEF Build

-----------------------------------------------------------------------------
(* The theorems. *)

\* Every call of the host, step of a query and step of a new device keeps the invariant.
THEOREM TransferPreserves == IInv /\ [TransferNext]_transferVars => IInv'
<1> SUFFICES ASSUME IInv, [TransferNext]_transferVars PROVE IInv'
  OBVIOUS
<1>1. CASE RemoveWallet
  BY <1>1, ElsewhereKeeps DEF RemoveWallet, IInv, TransferTypeOK
<1>2. ASSUME NEW h \in Hosts, NEW s \in Codes, NEW says \in BOOLEAN, Decide(h, s, says) PROVE IInv'
  BY <1>2, ElsewhereKeeps DEF Decide, sourceVars, IInv, TransferTypeOK
<1>3. ASSUME NEW d \in Devices, Restore(d) \/ StoreShares(d) PROVE IInv'
  BY <1>3, ElsewhereKeeps DEF Restore, StoreShares, sourceVars, IInv, TransferTypeOK
<1>4. CASE UNCHANGED transferVars
  BY <1>4, ElsewhereKeeps DEF transferVars, historyVars, IInv, TransferTypeOK
<1> QED
  BY <1>1, <1>2, <1>3, <1>4, ExportKeeps, SourceEndsKeeps, SayKeeps, AskKeeps, FindKeeps, ClaimKeeps,
     CheckTokenKeeps, TakeEndKeeps, HearKeeps, UnlistKeeps, BuildKeeps DEF TransferNext

\* Every variable of the transfer keeps its type (handle_transfer_query and the host's calls).
THEOREM TransferTypes == TransferSpec => []TransferTypeOK
<1>1. IInv => TransferTypeOK
  BY DEF IInv
<1> QED
  BY <1>1, TransferStarts, TransferPreserves, PTL DEF TransferSpec

\* A session releases the wallet at most once, to a device whose query carried its token and was
\* announced to the host, on the host's first answer; and what a new device stored comes from
\* such a release.
THEOREM ReleasedOnce == TransferSpec => []ReleasedAsConfirmed
<1> QED
  BY TransferStarts, TransferPreserves, IInvImplies, PTL DEF TransferSpec

-----------------------------------------------------------------------------
(* WalletConnectSessions. SettledIsKept and ActiveIsHeard speak of the      *)
(* rows. StageInv says what each stage of an approval has established for   *)
(* the next: the topic is subscribed before the row is written, and the row *)
(* is written before the peer is told.                                      *)

Manager == [subs : SUBSET Topics, pending : [Pairings -> Proposals \cup {Nobody}]]

\* What a stage of a call has established.
StageInv ==
    \A c \in Clients : calls[c] # Nobody =>
        /\ calls[c].manager <= Len(managers)
        /\ calls[c].pc \in {"settle", "respond"} => table[calls[c].topic] \in {"active", "disconnected"}
        /\ calls[c].pc \in {"notify", "close"} => table[calls[c].topic] # "none"
        /\ calls[c].pc = "store" /\ calls[c].manager = started => calls[c].topic \in managers[started].subs

\* Without a connection every row is one of a connection that ended.
CutInv == started = 0 => Known \subseteq cut

SessionsInv == SessionsTypeOK /\ StageInv /\ CutInv /\ SettledIsKept /\ ActiveIsHeard

LEMMA ApproveStages ==
    /\ After("subscribe") = "store" /\ After("store") = "settle"
    /\ After("settle") = "respond" /\ After("respond") = "done"
<1>1. DOMAIN ApproveOrder = 1..4 /\ Len(ApproveOrder) = 4
  BY DEF ApproveOrder
<1>2. /\ ApproveOrder[1] = "subscribe" /\ ApproveOrder[2] = "store"
      /\ ApproveOrder[3] = "settle" /\ ApproveOrder[4] = "respond"
  BY DEF ApproveOrder
<1>a. (CHOOSE n \in 1..4 : ApproveOrder[n] = "subscribe") = 1
  BY <1>2
<1>b. (CHOOSE n \in 1..4 : ApproveOrder[n] = "store") = 2
  BY <1>2
<1>c. (CHOOSE n \in 1..4 : ApproveOrder[n] = "settle") = 3
  BY <1>2
<1>d. (CHOOSE n \in 1..4 : ApproveOrder[n] = "respond") = 4
  BY <1>2
<1> QED
  BY <1>1, <1>2, <1>a, <1>b, <1>c, <1>d DEF After

LEMMA CallIs ==
    ASSUME SessionsInv, NEW c \in Clients, calls[c] # Nobody
    PROVE  calls[c] \in Calls /\ calls[c].topic \in Topics /\ calls[c].manager \in 1..Len(managers)
BY SessionsAssumption DEF SessionsInv, SessionsTypeOK, Calls, StageInv

LEMMA SessionsStart == SessionsInit => SessionsInv
<1> SUFFICES ASSUME SessionsInit PROVE SessionsInv
  OBVIOUS
<1>1. managers \in Seq(Manager) /\ Len(managers) = 0
  BY DEF SessionsInit
<1>2. SessionsTypeOK
  BY <1>1, SessionsAssumption DEF SessionsInit, SessionsTypeOK, Manager
<1> QED
  BY <1>2 DEF SessionsInit, SessionsInv, StageInv, CutInv, Known, SettledIsKept, Settled, ActiveIsHeard

LEMMA ConnectKeeps == ASSUME SessionsInv, WcConnect PROVE SessionsInv'
<1> DEFINE new == [subs |-> {}, pending |-> [t \in Pairings |-> Nobody]]
<1>1. new \in Manager
  BY DEF Manager
<1>2. managers \in Seq(Manager) /\ Len(managers) \in Nat
  BY DEF SessionsInv, SessionsTypeOK, Manager
<1>3. /\ managers' = Append(managers, new) /\ started = 0 /\ started' = Len(managers) + 1
      /\ Len(managers) < MaxStarts
      /\ UNCHANGED <<table, calls, mail, offered, shown, said, cut>>
  BY DEF WcConnect, relayVars
<1> HIDE DEF new
<1>4. /\ managers' \in Seq(Manager) /\ Len(managers') = Len(managers) + 1
      /\ \A n \in 1..Len(managers) : managers'[n] = managers[n]
  BY <1>1, <1>2, <1>3
<1>5. SessionsTypeOK'
  BY <1>2, <1>3, <1>4, SessionsAssumption DEF SessionsInv, SessionsTypeOK, Manager
<1>6. StageInv'
  <2> SUFFICES ASSUME NEW c \in Clients, calls[c] # Nobody
               PROVE  /\ calls[c].manager <= Len(managers)' /\ calls[c].manager # started'
                      /\ calls[c].pc \in {"settle", "respond"} => table[calls[c].topic] \in {"active", "disconnected"}
                      /\ calls[c].pc \in {"notify", "close"} => table[calls[c].topic] # "none"
    BY <1>3 DEF StageInv
  <2>1. calls[c].manager \in 1..Len(managers)
    BY CallIs
  <2>2. /\ calls[c].pc \in {"settle", "respond"} => table[calls[c].topic] \in {"active", "disconnected"}
        /\ calls[c].pc \in {"notify", "close"} => table[calls[c].topic] # "none"
    BY DEF SessionsInv, StageInv
  <2> QED
    BY <2>1, <2>2, <1>2, <1>3, <1>4
<1>7. CutInv' /\ SettledIsKept'
  BY <1>2, <1>3 DEF SessionsInv, CutInv, SettledIsKept, Settled
<1>8. ActiveIsHeard'
  BY <1>3 DEF SessionsInv, CutInv, Known, ActiveIsHeard, Topics
<1> QED
  BY <1>5, <1>6, <1>7, <1>8 DEF SessionsInv

\* The connection or the process ends.
LEMMA EndKeeps ==
    ASSUME SessionsInv, started' = 0, cut' = cut \cup Known,
           \A c \in Clients : calls'[c] \in {calls[c], Nobody}, calls' \in [Clients -> Calls \cup {Nobody}],
           UNCHANGED <<table, managers, relayVars, said>>
    PROVE  SessionsInv'
<1>1. SessionsTypeOK'
  BY DEF SessionsInv, SessionsTypeOK, Known, relayVars
<1>2. StageInv'
  <2> SUFFICES ASSUME NEW c \in Clients, calls'[c] # Nobody
               PROVE  /\ calls'[c] = calls[c] /\ calls[c].manager <= Len(managers) /\ calls[c].manager # started'
                      /\ calls[c].pc \in {"settle", "respond"} => table[calls[c].topic] \in {"active", "disconnected"}
                      /\ calls[c].pc \in {"notify", "close"} => table[calls[c].topic] # "none"
    BY DEF StageInv
  <2>1. calls'[c] = calls[c] /\ calls[c] # Nobody
    OBVIOUS
  <2>2. calls[c].manager \in 1..Len(managers)
    BY <2>1, CallIs
  <2> QED
    BY <2>1, <2>2 DEF SessionsInv, StageInv
<1>3. CutInv' /\ SettledIsKept' /\ ActiveIsHeard'
  BY DEF SessionsInv, CutInv, SettledIsKept, Settled, Known, ActiveIsHeard
<1> QED
  BY <1>1, <1>2, <1>3 DEF SessionsInv

\* The relay and the dApp: frames, offers and what the host was shown; proposals pending.
LEMMA RelayKeeps ==
    ASSUME SessionsInv, mail' \in SUBSET Frame, shown' \in SUBSET Frame,
           offered' \in [Proposals -> Pairings \cup {Nobody}],
           managers' \in Seq(Manager), Len(managers') = Len(managers),
           \A n \in 1..Len(managers) : managers'[n].subs = managers[n].subs,
           UNCHANGED <<table, started, calls, said, cut>>
    PROVE  SessionsInv'
<1>1. SessionsTypeOK'
  BY DEF SessionsInv, SessionsTypeOK, Manager
<1>a. started # 0 => managers'[started].subs = managers[started].subs
  BY DEF SessionsInv, SessionsTypeOK
<1>b. StageInv'
  <2> SUFFICES ASSUME NEW c \in Clients, calls[c] # Nobody
               PROVE  /\ calls[c].manager <= Len(managers)
                      /\ calls[c].pc \in {"settle", "respond"} => table[calls[c].topic] \in {"active", "disconnected"}
                      /\ calls[c].pc \in {"notify", "close"} => table[calls[c].topic] # "none"
                      /\ calls[c].pc = "store" /\ calls[c].manager = started => calls[c].topic \in managers'[started].subs
    BY DEF StageInv
  <2>1. calls[c].manager \in 1..Len(managers)
    BY CallIs
  <2> QED
    BY <1>a, <2>1 DEF SessionsInv, StageInv
<1>2. CutInv' /\ SettledIsKept' /\ ActiveIsHeard'
  BY <1>a DEF SessionsInv, CutInv, SettledIsKept, Settled, Known, ActiveIsHeard
<1> QED
  BY <1>1, <1>b, <1>2 DEF SessionsInv

\* A step of one call that leaves the rows, writes no subscription of another manager, and says x of p.
LEMMA CallKeeps ==
    ASSUME SessionsInv, NEW c \in Clients, NEW new \in Calls \cup {Nobody},
           calls' = [calls EXCEPT ![c] = new],
           new # Nobody => /\ new.manager <= Len(managers)
                           /\ new.pc \in {"settle", "respond"} => table[new.topic] \in {"active", "disconnected"}
                           /\ new.pc \in {"notify", "close"} => table[new.topic] # "none"
                           /\ new.pc = "store" /\ new.manager = started => new.topic \in managers'[started].subs,
           managers' \in Seq(Manager), Len(managers') = Len(managers),
           \A n \in 1..Len(managers) : managers[n].subs \subseteq managers'[n].subs,
           said' \in [Proposals -> SUBSET {"settle", "response", "refusal", "delete"}],
           \A p \in Proposals : Settled(p)' => Settled(p) \/ table[p] \in {"active", "disconnected"},
           UNCHANGED <<table, started, relayVars, cut>>
    PROVE  SessionsInv'
<1>1. SessionsTypeOK'
  BY DEF SessionsInv, SessionsTypeOK, Manager, relayVars
<1>2. calls'[c] = new /\ \A d \in Clients \ {c} : calls'[d] = calls[d]
  BY DEF SessionsInv, SessionsTypeOK
<1>a. started # 0 => managers[started].subs \subseteq managers'[started].subs
  BY DEF SessionsInv, SessionsTypeOK
<1>3. StageInv'
  <2> SUFFICES ASSUME NEW d \in Clients, calls'[d] # Nobody
               PROVE  /\ calls'[d].manager <= Len(managers)
                      /\ calls'[d].pc \in {"settle", "respond"} => table[calls'[d].topic] \in {"active", "disconnected"}
                      /\ calls'[d].pc \in {"notify", "close"} => table[calls'[d].topic] # "none"
                      /\ calls'[d].pc = "store" /\ calls'[d].manager = started => calls'[d].topic \in managers'[started].subs
    BY DEF StageInv
  <2>1. CASE d = c
    BY <1>2, <2>1
  <2>2. CASE d # c
    <3>1. calls'[d] = calls[d] /\ calls[d].manager \in 1..Len(managers)
      BY <1>2, <2>2, CallIs
    <3> QED
      BY <1>a, <3>1 DEF SessionsInv, StageInv
  <2> QED
    BY <2>1, <2>2
<1>4. CutInv' /\ SettledIsKept' /\ ActiveIsHeard'
  BY <1>a DEF SessionsInv, CutInv, SettledIsKept, Known, ActiveIsHeard
<1> QED
  BY <1>1, <1>3, <1>4 DEF SessionsInv

\* ... and leaves the managers and what was said.
LEMMA PlainKeeps ==
    ASSUME SessionsInv, NEW c \in Clients, NEW new \in Calls \cup {Nobody},
           calls' = [calls EXCEPT ![c] = new],
           new # Nobody => /\ new.manager <= Len(managers)
                           /\ new.pc \notin {"settle", "respond", "store", "notify", "close"},
           UNCHANGED <<table, managers, started, relayVars, said, cut>>
    PROVE  SessionsInv'
<1>1. managers' \in Seq(Manager) /\ said' \in [Proposals -> SUBSET {"settle", "response", "refusal", "delete"}]
  BY DEF SessionsInv, SessionsTypeOK, Manager
<1>2. \A p \in Proposals : Settled(p)' => Settled(p)
  BY DEF Settled
<1> QED
  BY <1>1, <1>2, CallKeeps

\* A step that writes the row of the call's topic.
LEMMA RowKeeps ==
    ASSUME SessionsInv, NEW c \in Clients, calls[c] # Nobody, NEW new \in Calls \cup {Nobody},
           NEW state \in {"pairing", "active", "disconnected"},
           calls' = [calls EXCEPT ![c] = new],
           new # Nobody => /\ new.manager = calls[c].manager /\ new.topic = calls[c].topic
                           /\ new.pc \notin {"store", "notify"}
                           /\ new.pc \in {"settle", "respond"} => state = "active",
           table' = [table EXCEPT ![calls[c].topic] = state],
           \/ state = "disconnected" /\ table[calls[c].topic] # "none" /\ cut' = cut
           \/ table[calls[c].topic] = "none" /\ calls[c].manager = started /\ cut' = cut /\ (state = "active" => calls[c].topic \in managers[started].subs)
           \/ table[calls[c].topic] = "none" /\ calls[c].manager # started /\ cut' = cut \cup {calls[c].topic},
           UNCHANGED <<managers, started, relayVars, said>>
    PROVE  SessionsInv'
<1> DEFINE top == calls[c].topic
<1>0. top \in Topics /\ calls[c].manager \in 1..Len(managers)
  BY CallIs
<1>1. SessionsTypeOK'
  BY <1>0 DEF SessionsInv, SessionsTypeOK, relayVars
<1>2. calls'[c] = new /\ \A d \in Clients \ {c} : calls'[d] = calls[d]
  BY DEF SessionsInv, SessionsTypeOK
<1>3. table'[top] = state /\ \A t \in Topics \ {top} : table'[t] = table[t]
  BY <1>0 DEF SessionsInv, SessionsTypeOK
<1>4. StageInv'
  <2> SUFFICES ASSUME NEW d \in Clients, calls'[d] # Nobody
               PROVE  /\ calls'[d].manager <= Len(managers)
                      /\ calls'[d].pc \in {"settle", "respond"} => table'[calls'[d].topic] \in {"active", "disconnected"}
                      /\ calls'[d].pc \in {"notify", "close"} => table'[calls'[d].topic] # "none"
                      /\ calls'[d].pc = "store" /\ calls'[d].manager = started => calls'[d].topic \in managers[started].subs
    BY DEF StageInv
  <2>1. CASE d = c
    BY <1>0, <1>2, <1>3, <2>1
  <2>2. CASE d # c
    <3>1. calls'[d] = calls[d] /\ calls[d].topic \in Topics
      BY <1>2, <2>2, CallIs
    <3>2. /\ table[calls[d].topic] \in {"active", "disconnected"} => table'[calls[d].topic] \in {"active", "disconnected"}
          /\ table[calls[d].topic] # "none" => table'[calls[d].topic] # "none"
      BY <1>3, <3>1
    <3> QED
      BY <3>1, <3>2 DEF SessionsInv, StageInv
  <2> QED
    BY <2>1, <2>2
<1>5. CutInv'
  BY <1>0, <1>3 DEF SessionsInv, CutInv, Known
<1>6. SettledIsKept'
  BY <1>0, <1>3 DEF SessionsInv, SettledIsKept, Settled, Topics
<1>7. ActiveIsHeard'
  BY <1>0, <1>3 DEF SessionsInv, ActiveIsHeard, Topics
<1> QED
  BY <1>1, <1>4, <1>5, <1>6, <1>7 DEF SessionsInv

-----------------------------------------------------------------------------
LEMMA CallBegins ==
    ASSUME SessionsInv, NEW c \in Clients, NEW k \in {"pair", "approve", "reject", "disconnect"}, NEW t \in Topics,
           Call(c, k, t)
    PROVE  SessionsInv'
<1> DEFINE new == [does |-> k, topic |-> t, manager |-> started, pc |-> "lock"]
<1>1. started \in 1..Len(managers) /\ started \in 1..MaxStarts
  BY SessionsAssumption DEF Call, SessionsInv, SessionsTypeOK
<1>2. new \in Calls
  BY <1>1 DEF Calls
<1>3. calls' = [calls EXCEPT ![c] = new] /\ UNCHANGED <<table, managers, started, relayVars, said, cut>>
  BY DEF Call
<1>4. new.manager <= Len(managers) /\ new.pc = "lock"
  BY <1>1
<1> HIDE DEF new
<1> QED
  BY <1>2, <1>3, <1>4, PlainKeeps

LEMMA NextStage ==
    ASSUME SessionsInv, NEW c \in Clients, calls[c] # Nobody, NEW pc \in Stages
    PROVE  /\ [calls[c] EXCEPT !.pc = pc] \in Calls
           /\ [calls[c] EXCEPT !.pc = pc].topic = calls[c].topic
           /\ [calls[c] EXCEPT !.pc = pc].manager = calls[c].manager
           /\ [calls[c] EXCEPT !.pc = pc].pc = pc
           /\ calls[c].manager <= Len(managers)
<1>1. calls[c] \in Calls /\ calls[c].manager \in 1..Len(managers)
  BY CallIs
<1> QED
  BY <1>1 DEF Calls

LEMMA LockKeeps == ASSUME SessionsInv, NEW c \in Clients, Lock(c) PROVE SessionsInv'
<1>0. calls[c] # Nobody /\ calls[c] \in Calls
  BY CallIs DEF Lock, At
<1>1. UNCHANGED <<table, managers, started, relayVars, said, cut>>
  BY DEF Lock
<1>2. CASE Return(c)
  BY <1>1, <1>2, PlainKeeps DEF Return
<1>3. CASE /\ GoOn(c, FirstStage(calls[c].does))
           /\ calls[c].does = "disconnect" => table[calls[c].topic] # "none"
  <2> DEFINE pc == FirstStage(calls[c].does)
             new == [calls[c] EXCEPT !.pc = pc]
  <2>1. /\ pc \in {"insert", "subscribe", "refuse", "notify"}
        /\ pc = "notify" => calls[c].does = "disconnect"
    BY <1>0 DEF FirstStage, ApproveOrder, Calls
  <2>2. pc \in Stages
    BY <2>1 DEF Stages
  <2>3. calls' = [calls EXCEPT ![c] = new]
    BY <1>3 DEF GoOn
  <2>4. /\ new \in Calls /\ new.manager <= Len(managers) /\ new.pc = pc /\ new.topic = calls[c].topic
    BY <1>0, <2>2, NextStage
  <2> HIDE DEF new, pc
  <2>5. \/ new.pc \notin {"settle", "respond", "store", "notify", "close"}
        \/ new.pc = "notify" /\ table[new.topic] # "none"
    BY <1>3, <2>1, <2>4
  <2>6. /\ managers' \in Seq(Manager) /\ said' \in [Proposals -> SUBSET {"settle", "response", "refusal", "delete"}]
        /\ \A p \in Proposals : Settled(p)' => Settled(p)
    BY <1>1 DEF SessionsInv, SessionsTypeOK, Manager, Settled
  <2> QED
    BY <1>1, <2>3, <2>4, <2>5, <2>6, CallKeeps
<1> QED
  BY <1>2, <1>3 DEF Lock

LEMMA ReturnKeeps ==
    ASSUME SessionsInv, NEW c \in Clients, Return(c), UNCHANGED <<table, managers, started, relayVars, said, cut>>
    PROVE  SessionsInv'
BY PlainKeeps DEF Return

LEMMA PairInsertKeeps == ASSUME SessionsInv, NEW c \in Clients, PairInsert(c) PROVE SessionsInv'
<1>0. calls[c] # Nobody /\ UNCHANGED <<managers, started, relayVars, said>>
  BY DEF PairInsert, At
<1>1. CASE table[calls[c].topic] = "none"
  <2>1. /\ calls' = [calls EXCEPT ![c] = [calls[c] EXCEPT !.pc = "listen"]]
        /\ table' = [table EXCEPT ![calls[c].topic] = "pairing"]
        /\ cut' = IF calls[c].manager = started THEN cut ELSE cut \cup {calls[c].topic}
    BY <1>1 DEF PairInsert, Insert, GoOn
  <2>2. "listen" \in Stages
    BY DEF Stages
  <2> DEFINE new == [calls[c] EXCEPT !.pc = "listen"]
  <2>3. new \in Calls /\ new.manager = calls[c].manager /\ new.topic = calls[c].topic /\ new.pc = "listen"
    BY <1>0, <2>2, NextStage
  <2> HIDE DEF new
  <2>4. calls' = [calls EXCEPT ![c] = new]
    BY <2>1 DEF new
  <2> QED
    BY <1>0, <1>1, <2>1, <2>3, <2>4, RowKeeps
<1>2. CASE table[calls[c].topic] # "none"
  BY <1>0, <1>2, ReturnKeeps DEF PairInsert
<1> QED
  BY <1>1, <1>2

LEMMA ApproveStoreKeeps == ASSUME SessionsInv, NEW c \in Clients, ApproveStore(c) PROVE SessionsInv'
<1>0. calls[c] # Nobody /\ calls[c].pc = "store" /\ UNCHANGED <<managers, started, relayVars, said>>
  BY DEF ApproveStore, At
<1>1. CASE table[calls[c].topic] = "none"
  <2>1. /\ calls' = [calls EXCEPT ![c] = [calls[c] EXCEPT !.pc = "settle"]]
        /\ table' = [table EXCEPT ![calls[c].topic] = "active"]
        /\ cut' = IF calls[c].manager = started THEN cut ELSE cut \cup {calls[c].topic}
    BY <1>0, <1>1, ApproveStages DEF ApproveStore, Insert, Proceed, GoOn
  <2>2. "settle" \in Stages
    BY DEF Stages
  <2> DEFINE new == [calls[c] EXCEPT !.pc = "settle"]
  <2>3. new \in Calls /\ new.manager = calls[c].manager /\ new.topic = calls[c].topic /\ new.pc = "settle"
    BY <1>0, <2>2, NextStage
  <2> HIDE DEF new
  <2>4. calls' = [calls EXCEPT ![c] = new]
    BY <2>1 DEF new
  <2>5. calls[c].manager = started => calls[c].topic \in managers[started].subs
    BY <1>0 DEF SessionsInv, StageInv
  <2> QED
    BY <1>0, <1>1, <2>1, <2>3, <2>4, <2>5, RowKeeps
<1>2. CASE table[calls[c].topic] # "none"
  BY <1>0, <1>2, ReturnKeeps DEF ApproveStore
<1> QED
  BY <1>1, <1>2

LEMMA CloseKeeps == ASSUME SessionsInv, NEW c \in Clients, Close(c) PROVE SessionsInv'
<1>1. /\ calls[c] # Nobody /\ table[calls[c].topic] # "none"
      /\ calls' = [calls EXCEPT ![c] = Nobody]
      /\ table' = [table EXCEPT ![calls[c].topic] = "disconnected"]
      /\ UNCHANGED <<managers, started, relayVars, said, cut>>
  BY DEF Close, At, Return, SessionsInv, StageInv
<1> QED
  BY <1>1, RowKeeps

\* A subscription or an answer, and the next stage.
LEMMA SubscribesTypes ==
    ASSUME SessionsInv, NEW n \in 1..Len(managers), NEW t \in Topics, Subscribes(n, t)
    PROVE  /\ managers' \in Seq(Manager) /\ Len(managers') = Len(managers)
           /\ \A k \in 1..Len(managers) : managers[k].subs \subseteq managers'[k].subs
           /\ t \in managers'[n].subs
<1>1. managers \in Seq(Manager)
  BY DEF SessionsInv, SessionsTypeOK, Manager
<1> DEFINE new == [managers[n] EXCEPT !.subs = @ \cup {t}]
<1>2. managers[n] \in Manager
  BY <1>1
<1>3. new \in Manager /\ new.subs = managers[n].subs \cup {t}
  BY <1>2 DEF Manager
<1>4. managers' = [managers EXCEPT ![n] = new]
  BY DEF Subscribes
<1> HIDE DEF new
<1> QED
  BY <1>1, <1>3, <1>4

LEMMA ForgetsTypes ==
    ASSUME SessionsInv, NEW n \in 1..Len(managers), NEW t, Forgets(n, t)
    PROVE  /\ managers' \in Seq(Manager) /\ Len(managers') = Len(managers)
           /\ \A k \in 1..Len(managers) : managers[k].subs = managers'[k].subs
<1>1. managers \in Seq(Manager)
  BY DEF SessionsInv, SessionsTypeOK, Manager
<1> DEFINE new == [managers[n] EXCEPT !.pending[t] = Nobody]
<1>2. managers[n] \in Manager
  BY <1>1
<1>3. new \in Manager /\ new.subs = managers[n].subs
  BY <1>2 DEF Manager
<1>4. managers' = [managers EXCEPT ![n] = new]
  BY DEF Forgets
<1> HIDE DEF new
<1> QED
  BY <1>1, <1>3, <1>4

LEMMA TellsTypes ==
    ASSUME SessionsInv, NEW p \in Proposals, NEW x \in {"settle", "response", "refusal", "delete"}, Tells(p, x)
    PROVE  /\ said' \in [Proposals -> SUBSET {"settle", "response", "refusal", "delete"}]
           /\ \A q \in Proposals \ {p} : said'[q] = said[q]
           /\ said'[p] = said[p] \cup {x}
BY DEF Tells, SessionsInv, SessionsTypeOK

LEMMA PairSubscribeKeeps == ASSUME SessionsInv, NEW c \in Clients, PairSubscribe(c) PROVE SessionsInv'
<1>0. calls[c] # Nobody
  BY DEF PairSubscribe, At
<1>1. Subscribes(calls[c].manager, calls[c].topic) /\ calls' = [calls EXCEPT ![c] = Nobody]
      /\ UNCHANGED <<table, started, relayVars, said, cut>>
  BY DEF PairSubscribe, Return
<1>2. /\ managers' \in Seq(Manager) /\ Len(managers') = Len(managers)
      /\ \A n \in 1..Len(managers) : managers[n].subs \subseteq managers'[n].subs
  BY <1>0, <1>1, CallIs, SubscribesTypes
<1>3. /\ said' \in [Proposals -> SUBSET {"settle", "response", "refusal", "delete"}]
      /\ \A p \in Proposals : Settled(p)' => Settled(p)
  BY <1>1 DEF SessionsInv, SessionsTypeOK, Settled
<1> QED
  BY <1>1, <1>2, <1>3, CallKeeps

LEMMA ApproveSubscribeKeeps == ASSUME SessionsInv, NEW c \in Clients, ApproveSubscribe(c) PROVE SessionsInv'
<1>0. calls[c] # Nobody /\ calls[c].topic \in Topics /\ calls[c].manager \in 1..Len(managers)
  BY CallIs DEF ApproveSubscribe, At
<1> DEFINE new == [calls[c] EXCEPT !.pc = "store"]
<1>1. Subscribes(calls[c].manager, calls[c].topic) /\ calls' = [calls EXCEPT ![c] = new]
      /\ UNCHANGED <<table, started, relayVars, said, cut>>
  BY ApproveStages DEF ApproveSubscribe, At, Proceed, GoOn
<1>2. "store" \in Stages
  BY DEF Stages
<1>3. new \in Calls /\ new.manager = calls[c].manager /\ new.topic = calls[c].topic /\ new.pc = "store"
      /\ new.manager <= Len(managers)
  BY <1>0, <1>2, NextStage
<1> HIDE DEF new
<1>4. /\ managers' \in Seq(Manager) /\ Len(managers') = Len(managers)
      /\ \A n \in 1..Len(managers) : managers[n].subs \subseteq managers'[n].subs
      /\ new.topic \in managers'[new.manager].subs
  BY <1>0, <1>1, <1>3, SubscribesTypes
<1>5. /\ said' \in [Proposals -> SUBSET {"settle", "response", "refusal", "delete"}]
      /\ \A p \in Proposals : Settled(p)' => Settled(p)
  BY <1>1 DEF SessionsInv, SessionsTypeOK, Settled
<1> QED
  BY <1>1, <1>3, <1>4, <1>5, CallKeeps

\* The wallet tells the dApp something of the session, whose row is there, and goes on.
LEMMA SaidKeeps ==
    ASSUME SessionsInv, NEW c \in Clients, calls[c] # Nobody, NEW new \in Calls \cup {Nobody},
           NEW x \in {"settle", "response", "refusal", "delete"},
           table[calls[c].topic] \in {"active", "disconnected"} \/ x \in {"refusal", "delete"},
           calls' = [calls EXCEPT ![c] = new],
           new # Nobody => /\ new.manager <= Len(managers) /\ new.topic = calls[c].topic
                           /\ new.pc \in {"settle", "respond"} => table[calls[c].topic] \in {"active", "disconnected"}
                           /\ new.pc \in {"notify", "close"} => table[calls[c].topic] # "none"
                           /\ new.pc # "store",
           managers' \in Seq(Manager), Len(managers') = Len(managers),
           \A n \in 1..Len(managers) : managers[n].subs \subseteq managers'[n].subs,
           NEW p, Tells(p, x) \/ said' = said, x \in {"settle", "response"} => p = calls[c].topic,
           UNCHANGED <<table, started, relayVars, cut>>
    PROVE  SessionsInv'
<1>1. said \in [Proposals -> SUBSET {"settle", "response", "refusal", "delete"}]
  BY DEF SessionsInv, SessionsTypeOK
<1>2. said' \in [Proposals -> SUBSET {"settle", "response", "refusal", "delete"}]
  BY <1>1 DEF Tells
<1>3. \A q \in Proposals : Settled(q)' => Settled(q) \/ table[q] \in {"active", "disconnected"}
  BY <1>1 DEF Tells, Settled
<1> QED
  BY <1>2, <1>3, CallKeeps

LEMMA ApproveSettleKeeps == ASSUME SessionsInv, NEW c \in Clients, ApproveSettle(c) PROVE SessionsInv'
<1>0. calls[c] # Nobody /\ table[calls[c].topic] \in {"active", "disconnected"}
  BY DEF ApproveSettle, At, SessionsInv, StageInv
<1> DEFINE new == [calls[c] EXCEPT !.pc = "respond"]
<1>1. Tells(calls[c].topic, "settle") /\ calls' = [calls EXCEPT ![c] = new]
      /\ UNCHANGED <<table, managers, started, relayVars, cut>>
  BY ApproveStages DEF ApproveSettle, At, Proceed, GoOn
<1>2. "respond" \in Stages
  BY DEF Stages
<1>3. new \in Calls /\ new.manager = calls[c].manager /\ new.topic = calls[c].topic /\ new.pc = "respond"
      /\ new.manager <= Len(managers)
  BY <1>0, <1>2, NextStage
<1> HIDE DEF new
<1>4. managers' \in Seq(Manager) /\ managers' = managers
  BY <1>1 DEF SessionsInv, SessionsTypeOK, Manager
<1> QED
  BY <1>0, <1>1, <1>3, <1>4, SaidKeeps

LEMMA ApproveRespondKeeps == ASSUME SessionsInv, NEW c \in Clients, ApproveRespond(c) PROVE SessionsInv'
<1>0. calls[c] # Nobody /\ table[calls[c].topic] \in {"active", "disconnected"}
  BY DEF ApproveRespond, At, SessionsInv, StageInv
<1>1. /\ Tells(calls[c].topic, "response") /\ calls' = [calls EXCEPT ![c] = Nobody]
      /\ Forgets(calls[c].manager, offered[calls[c].topic])
      /\ UNCHANGED <<table, started, relayVars, cut>>
  BY ApproveStages DEF ApproveRespond, At, Proceed, Return
<1>2. /\ managers' \in Seq(Manager) /\ Len(managers') = Len(managers)
      /\ \A n \in 1..Len(managers) : managers[n].subs \subseteq managers'[n].subs
  BY <1>0, <1>1, CallIs, ForgetsTypes
<1> QED
  BY <1>0, <1>1, <1>2, SaidKeeps

LEMMA RefuseKeeps == ASSUME SessionsInv, NEW c \in Clients, Refuse(c) PROVE SessionsInv'
<1>0. calls[c] # Nobody /\ calls' = [calls EXCEPT ![c] = Nobody] /\ UNCHANGED <<table, started, relayVars, cut>>
  BY DEF Refuse, At, Return
<1> DEFINE p == managers[calls[c].manager].pending[calls[c].topic]
<1>1. CASE UNCHANGED <<managers, said>>
  BY <1>0, <1>1, ReturnKeeps DEF Return
<1>2. CASE Forgets(calls[c].manager, calls[c].topic) /\ (Tells(p, "refusal") \/ said' = said)
  <2>1. /\ managers' \in Seq(Manager) /\ Len(managers') = Len(managers)
        /\ \A n \in 1..Len(managers) : managers[n].subs \subseteq managers'[n].subs
    BY <1>0, <1>2, CallIs, ForgetsTypes
  <2> QED
    BY <1>0, <1>2, <2>1, SaidKeeps
<1> QED
  BY <1>1, <1>2 DEF Refuse

LEMMA NotifyKeeps == ASSUME SessionsInv, NEW c \in Clients, Notify(c) PROVE SessionsInv'
<1>0. calls[c] # Nobody /\ table[calls[c].topic] # "none"
  BY DEF Notify, At, SessionsInv, StageInv
<1> DEFINE new == [calls[c] EXCEPT !.pc = "close"]
<1>1. (Tells(calls[c].topic, "delete") \/ said' = said) /\ calls' = [calls EXCEPT ![c] = new]
      /\ UNCHANGED <<table, managers, started, relayVars, cut>>
  BY DEF Notify, GoOn
<1>2. "close" \in Stages
  BY DEF Stages
<1>3. new \in Calls /\ new.manager = calls[c].manager /\ new.topic = calls[c].topic /\ new.pc = "close"
      /\ new.manager <= Len(managers)
  BY <1>0, <1>2, NextStage
<1> HIDE DEF new
<1>4. managers' \in Seq(Manager) /\ managers' = managers
  BY <1>1 DEF SessionsInv, SessionsTypeOK, Manager
<1> QED
  BY <1>0, <1>1, <1>3, <1>4, SaidKeeps

LEMMA PumpKeeps == ASSUME SessionsInv, NEW f \in mail, Pump(f) PROVE SessionsInv'
<1>1. started \in 1..Len(managers) /\ managers \in Seq(Manager) /\ f \in Frame
  BY DEF Pump, SessionsInv, SessionsTypeOK, Manager
<1>2. /\ mail' \in SUBSET Frame /\ shown' \in SUBSET Frame
      /\ offered' \in [Proposals -> Pairings \cup {Nobody}]
      /\ UNCHANGED <<table, started, calls, said, cut>>
  BY <1>1 DEF Pump, SessionsInv, SessionsTypeOK
<1> DEFINE new == [managers[started] EXCEPT !.pending[f.topic] = f.of]
<1>3. managers[started] \in Manager
  BY <1>1
<1>4. new \in Manager /\ new.subs = managers[started].subs
  BY <1>1, <1>3 DEF Manager, Frame
<1>5. managers' = managers \/ managers' = [managers EXCEPT ![started] = new]
  BY DEF Pump
<1> HIDE DEF new
<1>6. /\ managers' \in Seq(Manager) /\ Len(managers') = Len(managers)
      /\ \A n \in 1..Len(managers) : managers'[n].subs = managers[n].subs
  BY <1>1, <1>4, <1>5
<1> QED
  BY <1>2, <1>6, RelayKeeps

LEMMA PeerKeeps ==
    ASSUME SessionsInv,
           \/ \E p \in Proposals, t \in Pairings : Propose(p, t)
           \/ \E p \in Proposals, k \in {"request", "delete"} : PeerSends(p, k)
    PROVE  SessionsInv'
<1>1. managers \in Seq(Manager) /\ managers' = managers
  BY DEF Propose, PeerSends, SessionsInv, SessionsTypeOK, Manager
<1>2. mail' \in SUBSET Frame /\ shown' \in SUBSET Frame /\ offered' \in [Proposals -> Pairings \cup {Nobody}]
  <2>1. mail \in SUBSET Frame /\ shown \in SUBSET Frame /\ offered \in [Proposals -> Pairings \cup {Nobody}]
    BY DEF SessionsInv, SessionsTypeOK
  <2>2. ASSUME NEW p \in Proposals, NEW t \in Pairings, Propose(p, t)
        PROVE  mail' \in SUBSET Frame /\ shown' = shown /\ offered' \in [Proposals -> Pairings \cup {Nobody}]
    <3>1. [topic |-> t, kind |-> "propose", of |-> p] \in Frame
      BY DEF Frame, Topics
    <3> QED
      BY <2>1, <2>2, <3>1 DEF Propose
  <2>3. ASSUME NEW p \in Proposals, NEW k \in {"request", "delete"}, PeerSends(p, k)
        PROVE  mail' \in SUBSET Frame /\ shown' = shown /\ offered' = offered
    <3>1. [topic |-> p, kind |-> k, of |-> p] \in Frame
      BY DEF Frame, Topics
    <3> QED
      BY <2>1, <2>3, <3>1 DEF PeerSends
  <2> QED
    BY <2>1, <2>2, <2>3
<1>3. UNCHANGED <<table, started, calls, said, cut>>
  BY DEF Propose, PeerSends
<1> QED
  BY <1>1, <1>2, <1>3, RelayKeeps

LEMMA SessionsPreserve == SessionsInv /\ [SessionsNext]_sessionVars => SessionsInv'
<1> SUFFICES ASSUME SessionsInv, [SessionsNext]_sessionVars PROVE SessionsInv'
  OBVIOUS
<1>1. CASE UNCHANGED sessionVars
  BY <1>1 DEF sessionVars, SessionsInv, SessionsTypeOK, StageInv, CutInv, Known, SettledIsKept, Settled, ActiveIsHeard
<1>2. CASE WcConnect
  BY <1>2, ConnectKeeps
<1>3. CASE WcDisconnect \/ WcProcessEnds
  <2>1. calls' \in [Clients -> Calls \cup {Nobody}] /\ \A c \in Clients : calls'[c] \in {calls[c], Nobody}
    BY <1>3 DEF WcDisconnect, WcProcessEnds, SessionsInv, SessionsTypeOK
  <2> QED
    BY <1>3, <2>1, EndKeeps DEF WcDisconnect, WcProcessEnds
<1>4. ASSUME NEW c \in Clients, NEW k \in {"pair", "approve", "reject", "disconnect"}, NEW t \in Topics, Call(c, k, t)
      PROVE  SessionsInv'
  BY <1>4, CallBegins
<1>5. ASSUME NEW c \in Clients, CallStep(c) PROVE SessionsInv'
  <2>1. CASE SendFails(c)
    BY <2>1, ReturnKeeps DEF SendFails
  <2> QED
    BY <1>5, <2>1, LockKeeps, PairInsertKeeps, PairSubscribeKeeps, ApproveSubscribeKeeps, ApproveStoreKeeps,
       ApproveSettleKeeps, ApproveRespondKeeps, RefuseKeeps, NotifyKeeps, CloseKeeps DEF CallStep
<1>6. ASSUME NEW f \in mail, Pump(f) PROVE SessionsInv'
  BY <1>6, PumpKeeps
<1>7. CASE (\E p \in Proposals, t \in Pairings : Propose(p, t))
           \/ (\E p \in Proposals, k \in {"request", "delete"} : PeerSends(p, k))
  BY <1>7, PeerKeeps
<1> QED
  BY <1>1, <1>2, <1>3, <1>4, <1>5, <1>6, <1>7 DEF SessionsNext

LEMMA SessionsAlways == SessionsSpec => []SessionsInv
<1> QED
  BY SessionsStart, SessionsPreserve, PTL DEF SessionsSpec

\* A session the dApp considers settled has its row, and with it the key its requests
\* are read with, wherever the approval was interrupted and whatever ran next to it.
THEOREM SettledKept == SessionsSpec => []SettledIsKept
<1>1. SessionsInv => SettledIsKept
  BY DEF SessionsInv
<1> QED
  BY <1>1, SessionsAlways, PTL

\* A session listed as active is one the connection hears, unless that connection is
\* not the one it was approved over.
THEOREM ActiveHeard == SessionsSpec => []ActiveIsHeard
<1>1. SessionsInv => ActiveIsHeard
  BY DEF SessionsInv
<1> QED
  BY <1>1, SessionsAlways, PTL

\* The session table, the managers and the calls of WalletConnectSessions stay in
\* their types.
THEOREM SessionsTyped == SessionsSpec => []SessionsTypeOK
<1>1. SessionsInv => SessionsTypeOK
  BY DEF SessionsInv
<1> QED
  BY <1>1, SessionsAlways, PTL

-----------------------------------------------------------------------------
(* CeremonyHub. WaitsForHandler speaks of what a broker holds; HandInv adds *)
(* what a thread holds between the look-up of a handler and the push (a     *)
(* message whose handler came meanwhile was overtaken). HookInv says that   *)
(* the hook for failures is there before the remote party is told where to  *)
(* send them.                                                               *)

\* What the threads and the brokers hold.
BrokersOK ==
    /\ todo \in [Threads -> SUBSET Sends] /\ hand \in [Threads -> Sends \cup {Naught}]
    /\ connected \in [Locals -> SUBSET (1..Rounds)] /\ buffer \in [Locals -> SUBSET Messages]

\* A message in hand whose handler is there by now was overtaken by it.
HandInv == \A t \in Threads :
    hand[t] # Naught /\ hand[t].msg.round \in connected[hand[t].to] => hand[t] \in raced

BrokersInv == BrokersOK /\ HandInv /\ WaitsForHandler

\* The handler of failures is installed before the remote party is told where to send them.
HookInv == (phase # "wire" => hook = TRUE) /\ (armed = TRUE => phase # "wire") /\ (fired = TRUE => phase # "wire")

LEMMA SendIs ==
    ASSUME NEW d \in Sends
    PROVE  d.to \in Locals /\ d.msg \in Messages /\ d.msg.round \in 1..Rounds /\ d = [to |-> d.to, msg |-> d.msg]
BY DEF Sends, Messages

LEMMA BrokersStart == HubInit => BrokersInv
BY DEF HubInit, BrokersInv, BrokersOK, HandInv, WaitsForHandler

LEMMA LookUpKeeps ==
    ASSUME BrokersInv, NEW t \in Threads, NEW d \in todo[t], LookUp(t, d) PROVE BrokersInv'
<1>1. d \in Sends /\ BrokersOK
  BY DEF BrokersInv, BrokersOK
<1>2. /\ todo' = [todo EXCEPT ![t] = @ \ {d}] /\ UNCHANGED <<connected, buffer, raced>>
      /\ \/ hand' = hand
         \/ hand' = [hand EXCEPT ![t] = d] /\ d.msg.round \notin connected[d.to]
  BY DEF LookUp
<1>3. BrokersOK'
  BY <1>1, <1>2 DEF BrokersOK
<1>4. HandInv'
  BY <1>1, <1>2 DEF BrokersInv, BrokersOK, HandInv
<1>5. WaitsForHandler'
  BY <1>2 DEF BrokersInv, WaitsForHandler
<1> QED
  BY <1>3, <1>4, <1>5 DEF BrokersInv

LEMMA PushKeeps == ASSUME BrokersInv, NEW t \in Threads, Push(t) PROVE BrokersInv'
<1> DEFINE d == hand[t]
<1>1. d # Naught /\ d \in Sends
  BY DEF Push, BrokersInv, BrokersOK
<1>2. d.to \in Locals /\ d.msg \in Messages /\ d = [to |-> d.to, msg |-> d.msg]
  BY <1>1, SendIs
<1>3. /\ buffer' = [buffer EXCEPT ![d.to] = @ \cup {d.msg}] /\ hand' = [hand EXCEPT ![t] = Naught]
      /\ UNCHANGED <<todo, connected, raced>>
  BY DEF Push
<1>4. d.msg.round \in connected[d.to] => [to |-> d.to, msg |-> d.msg] \in raced
  BY <1>1, <1>2 DEF BrokersInv, HandInv
<1>5. BrokersOK'
  BY <1>2, <1>3 DEF BrokersInv, BrokersOK
<1>6. HandInv'
  BY <1>3 DEF BrokersInv, BrokersOK, HandInv
<1> HIDE DEF d
<1>7. WaitsForHandler'
  <2> SUFFICES ASSUME NEW p \in Locals, NEW m \in buffer'[p], m.round \in connected[p]
               PROVE  [to |-> p, msg |-> m] \in raced
    BY <1>3 DEF WaitsForHandler
  <2>1. CASE m \in buffer[p]
    BY <2>1 DEF BrokersInv, WaitsForHandler
  <2>2. CASE m \notin buffer[p]
    <3>1. p = d.to /\ m = d.msg
      BY <1>2, <1>3, <2>2 DEF BrokersInv, BrokersOK
    <3> QED
      BY <3>1, <1>4
  <2> QED
    BY <2>1, <2>2
<1> QED
  BY <1>5, <1>6, <1>7 DEF BrokersInv

LEMMA EnterKeeps ==
    ASSUME BrokersInv, NEW p \in Locals, NEW r \in 1..Rounds, Enter(p, r), hand' = hand PROVE BrokersInv'
<1>1. /\ connected' = [connected EXCEPT ![p] = @ \cup {r}]
      /\ buffer' = [buffer EXCEPT ![p] = {m \in @ : m.round # r}]
      /\ raced' = raced \cup {d \in {hand[t] : t \in Threads} \ {Naught} : d.to = p /\ d.msg.round = r}
      /\ todo' = [todo EXCEPT ![p] = {[to |-> q, msg |-> [from |-> p, round |-> r]] : q \in Locals \ {p}}]
  BY DEF Enter, Connect
<1>2. BrokersOK
  BY DEF BrokersInv
<1>3. {[to |-> q, msg |-> [from |-> p, round |-> r]] : q \in Locals \ {p}} \subseteq Sends
  BY DEF Sends, Messages, Parties
<1>4. BrokersOK'
  <2>1. todo' \in [Threads -> SUBSET Sends]
    BY <1>1, <1>2, <1>3 DEF BrokersOK
  <2>2. connected' \in [Locals -> SUBSET (1..Rounds)]
    BY <1>1, <1>2 DEF BrokersOK
  <2>3. buffer' \in [Locals -> SUBSET Messages]
    BY <1>1, <1>2 DEF BrokersOK
  <2> QED
    BY <1>2, <2>1, <2>2, <2>3 DEF BrokersOK
<1>5. HandInv'
  <2> SUFFICES ASSUME NEW t \in Threads, hand[t] # Naught, hand[t].msg.round \in connected'[hand[t].to]
               PROVE  hand[t] \in raced'
    BY DEF HandInv
  <2>1. hand[t] \in Sends /\ hand[t].to \in Locals
    BY <1>2, SendIs DEF BrokersOK
  <2>2. CASE hand[t].msg.round \in connected[hand[t].to]
    BY <1>1, <2>2 DEF BrokersInv, HandInv
  <2>3. CASE hand[t].msg.round \notin connected[hand[t].to]
    <3>1. hand[t].to = p /\ hand[t].msg.round = r
      BY <1>1, <1>2, <2>1, <2>3 DEF BrokersOK
    <3> QED
      BY <1>1, <3>1
  <2> QED
    BY <2>2, <2>3
<1>6. WaitsForHandler'
  <2> SUFFICES ASSUME NEW q \in Locals, NEW m \in buffer'[q], m.round \in connected'[q]
               PROVE  [to |-> q, msg |-> m] \in raced'
    BY DEF WaitsForHandler
  <2>1. m \in buffer[q] /\ m.round \in connected[q]
    <3>1. CASE q = p
      BY <1>1, <1>2, <3>1 DEF BrokersOK
    <3>2. CASE q # p
      BY <1>1, <1>2, <3>2 DEF BrokersOK
    <3> QED
      BY <3>1, <3>2
  <2> QED
    BY <1>1, <2>1 DEF BrokersInv, WaitsForHandler
<1> QED
  BY <1>4, <1>5, <1>6 DEF BrokersInv

LEMMA RemoteSendsKeeps == ASSUME BrokersInv, NEW r \in 1..Rounds, RemoteSends(r) PROVE BrokersInv'
<1>1. /\ todo' = [todo EXCEPT ![Spot] = {[to |-> p, msg |-> [from |-> Remote, round |-> r]] : p \in Locals}]
      /\ UNCHANGED <<hand, connected, buffer, raced>>
  BY DEF RemoteSends
<1>2. {[to |-> p, msg |-> [from |-> Remote, round |-> r]] : p \in Locals} \subseteq Sends
  BY DEF Sends, Messages, Parties
<1> QED
  BY <1>1, <1>2 DEF BrokersInv, BrokersOK, HandInv, WaitsForHandler

LEMMA BrokersPreserve == BrokersInv /\ round \in [Locals -> Nat] /\ [HubNext]_hubVars => BrokersInv' /\ (round \in [Locals -> Nat])'
<1> SUFFICES ASSUME BrokersInv, round \in [Locals -> Nat], [HubNext]_hubVars PROVE BrokersInv' /\ (round \in [Locals -> Nat])'
  OBVIOUS
<1> USE HubAssumption
<1>1. CASE UNCHANGED brokerVars /\ round' = round
  BY <1>1 DEF brokerVars, BrokersInv, BrokersOK, HandInv, WaitsForHandler
<1>2. ASSUME NEW t \in Threads, NEW d \in todo[t], LookUp(t, d) PROVE BrokersInv' /\ (round \in [Locals -> Nat])'
  BY <1>2, LookUpKeeps DEF LookUp
<1>3. ASSUME NEW t \in Threads, Push(t) PROVE BrokersInv' /\ (round \in [Locals -> Nat])'
  BY <1>3, PushKeeps DEF Push
<1>4. ASSUME NEW p \in Locals, StartParty(p) \/ NextRound(p) PROVE BrokersInv' /\ (round \in [Locals -> Nat])'
  <2>1. PICK r \in 1..Rounds : Enter(p, r) /\ hand' = hand
    BY <1>4 DEF StartParty, NextRound
  <2>2. (round \in [Locals -> Nat])'
    BY <2>1 DEF Enter
  <2> QED
    BY <2>1, <2>2, EnterKeeps
<1>5. ASSUME NEW r \in 1..Rounds, RemoteSends(r) PROVE BrokersInv' /\ (round \in [Locals -> Nat])'
  BY <1>5, RemoteSendsKeeps DEF RemoteSends
<1>6. CASE UNCHANGED hubVars
  BY <1>1, <1>6 DEF hubVars, brokerVars
<1>7. CASE \/ Wire \/ Arm \/ InitQuery \/ RemoteFails \/ ReasonLands \/ Usurped
           \/ Deadline \/ CheckReason \/ CheckClock \/ Receive
           \/ \E p \in Locals : \E x \in {"share", "error", "panic"} : PartyEnds(p, x)
  <2>1. UNCHANGED brokerVars /\ round' = round
    BY <1>7 DEF Wire, Arm, InitQuery, RemoteFails, ReasonLands, Usurped, Deadline, CheckReason, CheckClock,
                Receive, PartyEnds
  <2> QED
    BY <1>1, <2>1
<1> QED
  BY <1>2, <1>3, <1>4, <1>5, <1>6, <1>7 DEF HubNext

\* A message waits in a broker's buffer only for a party that has not connected its
\* handler, except where the handler was connected between the look-up that did not
\* find it and the push.
THEOREM HandlerAwaited == HubSpec => []WaitsForHandler
<1>1. HubInit => BrokersInv /\ round \in [Locals -> Nat]
  BY BrokersStart DEF HubInit
<1>2. BrokersInv => WaitsForHandler
  BY DEF BrokersInv
<1> QED
  BY <1>1, <1>2, BrokersPreserve, PTL DEF HubSpec

LEMMA HookPreserves == HookInv /\ [HubNext]_hubVars => HookInv' /\ (phase' = "timeout" /\ phase # "timeout" => ~reason /\ (fired => hook))
<1> SUFFICES ASSUME HookInv, [HubNext]_hubVars
             PROVE  HookInv' /\ (phase' = "timeout" /\ phase # "timeout" => ~reason /\ (fired => hook))
  OBVIOUS
<1>1. CASE UNCHANGED <<phase, hook, fired, armed>>
  BY <1>1 DEF HookInv
<1>2. CASE UNCHANGED hubVars
  BY <1>1, <1>2 DEF hubVars
<1>3. CASE Wire
  BY <1>3 DEF Wire, HookInv
<1>4. CASE Arm
  BY <1>4 DEF Arm, HookInv
<1>5. CASE InitQuery
  BY <1>5 DEF InitQuery, HookInv, guardVars
<1>6. ASSUME NEW t \in Threads, Push(t) \/ \E d \in todo[t] : LookUp(t, d)
      PROVE  UNCHANGED <<phase, hook, fired, armed>>
  BY <1>6 DEF Push, LookUp, guardVars
<1>7. ASSUME NEW p \in Locals, StartParty(p) \/ NextRound(p) \/ \E x \in {"share", "error", "panic"} : PartyEnds(p, x)
      PROVE  UNCHANGED <<phase, hook, fired, armed>>
  BY <1>7 DEF StartParty, NextRound, PartyEnds, guardVars
<1>8. ASSUME NEW r \in 1..Rounds, RemoteSends(r) PROVE UNCHANGED <<phase, hook, fired, armed>>
  BY <1>8 DEF RemoteSends, guardVars
<1>9. CASE RemoteFails
  BY <1>9 DEF RemoteFails, HookInv
<1>10. CASE ReasonLands \/ Deadline
  BY <1>1, <1>10 DEF ReasonLands, Deadline
<1>11. CASE Usurped
  BY <1>11 DEF Usurped, HookInv
<1>12. CASE CheckReason
  BY <1>12 DEF CheckReason, HookInv, guardVars
<1>13. CASE CheckClock
  BY <1>13 DEF CheckClock, HookInv, guardVars, Wrap
<1>14. CASE Receive
  BY <1>14 DEF Receive, HookInv, guardVars, Wrap
<1> QED
  BY <1>1, <1>2, <1>3, <1>4, <1>5, <1>6, <1>7, <1>8, <1>9, <1>10, <1>11, <1>12, <1>13, <1>14 DEF HubNext

\* A ceremony given up at the deadline had no report of the remote party to tell:
\* none had reached it, and none came before its handler was there. The deadline step
\* is the one that could break it.
THEOREM ReportTold == HubSpec => NoReportMissed
<1>1. HubInit => HookInv
  BY DEF HubInit, HookInv
<1>2. HookInv /\ [HubNext]_hubVars => HookInv' /\ [phase' = "timeout" /\ phase # "timeout" => ~reason /\ (fired => hook)]_hubVars
  BY HookPreserves
<1> QED
  BY <1>1, <1>2, PTL DEF HubSpec, NoReportMissed

-----------------------------------------------------------------------------
(* AirgapSigning. AcceptedAsAsked speaks of what was accepted. AirgapInv     *)
(* adds where it comes from: a request that is pending is as it was asked   *)
(* (RequestsOK), a decoder holds frames of answers that were displayed      *)
(* (ContextOK), and what a call under way has read of them (JobOK).         *)

\* The frames a decoder holds are of answers that were displayed.
ContextOK(c) == c # Nothing =>
    /\ c.kind \in {"none", "ur", "bbqr", "text"} /\ c.frames \in Seq(Frames)
    /\ c.kind = "none" => c.frames = <<>>
    /\ \A n \in DOMAIN c.frames :
         c.frames[n].answer \in displays /\ (c.kind = "text" => c.frames[n].index = 1)

JobOK(j) ==
    /\ j.kind = "feed" => j.ctx # Nothing /\ ContextOK(j.ctx) /\ j.frame \in Frames /\ j.frame.answer \in displays
                          /\ (j.frame.answer.via = "text" => j.frame.index = 1)
    /\ j.kind = "accept" =>
         /\ j.form \in {"eth", "sol", "psbt", "rawtx"} /\ (j.form = "psbt" => j.answer.form = "psbt")
         /\ j.p # Nothing => j.rid \in Requests /\ asked[j.rid] = j.p
    /\ j.kind = "import" => j.account \in Signers

RequestsOK ==
    /\ pending \in [Requests -> Pending \cup {Nothing}] /\ asked \in [Requests -> Pending \cup {Nothing}]
    /\ \A r \in Requests : pending[r] # Nothing => asked[r] = pending[r]

AnswersOK == displays \subseteq Answers

\* What was accepted is of a request that was built.
AcceptedOK == \A x \in accepted : x.account # Nothing /\ x.form # "rawtx" =>
    /\ x.rid \in Requests /\ asked[x.rid] # Nothing
    /\ x.of = x.rid /\ asked[x.rid].account = x.account
    /\ x.form \in {"eth", "sol"} => x.key = x.account

AirgapInv ==
    /\ imported \in [Signers -> {"none", "row", "keyed", "deleted"}]
    /\ RequestsOK /\ AnswersOK /\ ContextOK(context) /\ AcceptedOK
    /\ DOMAIN work = Workers
    /\ \A w \in Workers : work[w] # Nothing => JobOK(work[w])

\* Requests and displays only grow; what is known of either lasts.
LEMMA GrowthKeeps ==
    ASSUME displays \subseteq displays', \A r \in Requests : asked[r] # Nothing => asked'[r] = asked[r]
    PROVE  /\ \A c : ContextOK(c) => ContextOK(c)'
           /\ \A j : JobOK(j) => JobOK(j)'
           /\ accepted' = accepted /\ AcceptedOK => AcceptedOK'
<1>2. \A c : ContextOK(c) => ContextOK(c)'
  BY DEF ContextOK
<1>3. \A j : JobOK(j) => JobOK(j)'
  BY <1>2 DEF JobOK
<1>4. accepted' = accepted /\ AcceptedOK => AcceptedOK'
  BY DEF AcceptedOK
<1> QED
  BY <1>2, <1>3, <1>4

\* A step that leaves the requests, the answers and what was accepted alone.
LEMMA SameRequests ==
    ASSUME UNCHANGED <<displays, asked>>
    PROVE  /\ \A c : ContextOK(c)' <=> ContextOK(c)
           /\ \A j : JobOK(j)' <=> JobOK(j)
           /\ accepted' = accepted /\ AcceptedOK => AcceptedOK'
           /\ AnswersOK => AnswersOK'
<1>2. \A c : ContextOK(c)' <=> ContextOK(c)
  BY DEF ContextOK
<1>3. \A j : JobOK(j)' <=> JobOK(j)
  BY <1>2 DEF JobOK
<1>4. accepted' = accepted /\ AcceptedOK => AcceptedOK'
  BY DEF AcceptedOK
<1>5. AnswersOK => AnswersOK'
  BY DEF AnswersOK
<1> QED
  BY <1>2, <1>3, <1>4, <1>5

\* A thread goes on to a job that is right.
LEMMA JobKeeps ==
    ASSUME AirgapInv, NEW w \in Workers, NEW new, new = Nothing \/ JobOK(new),
           work' = [work EXCEPT ![w] = new], UNCHANGED <<displays, asked>>,
           imported' \in [Signers -> {"none", "row", "keyed", "deleted"}],
           RequestsOK', ContextOK(context)', AcceptedOK'
    PROVE  AirgapInv'
<1>1. DOMAIN work' = Workers /\ work'[w] = new /\ \A v \in Workers \ {w} : work'[v] = work[v]
  BY DEF AirgapInv
<1>2. \A v \in Workers : \A j : j = work'[v] /\ j # Nothing => JobOK(j)
  BY <1>1 DEF AirgapInv
<1>3. \A v \in Workers : \A j : j = work'[v] /\ j # Nothing => JobOK(j)'
  BY <1>2, SameRequests
<1>4. AnswersOK'
  BY SameRequests DEF AirgapInv
<1> QED
  BY <1>1, <1>3, <1>4 DEF AirgapInv

\* A step of the decoder, of a thread's import or of a thread that ends: the requests stay.
LEMMA QuietKeeps ==
    ASSUME AirgapInv, NEW w \in Workers, NEW new, new = Nothing \/ JobOK(new),
           work' = [work EXCEPT ![w] = new], UNCHANGED <<displays, requestVars>>,
           imported' \in [Signers -> {"none", "row", "keyed", "deleted"}],
           NEW c, ContextOK(c), context' = c
    PROVE  AirgapInv'
<1>1. RequestsOK' /\ AcceptedOK' /\ UNCHANGED <<displays, asked>>
  BY DEF AirgapInv, RequestsOK, AcceptedOK, requestVars
<1>2. ContextOK(c)'
  BY <1>1, SameRequests
<1> QED
  BY <1>1, <1>2, JobKeeps

LEMMA ImportRowKeeps ==
    ASSUME AirgapInv, NEW w \in Workers, NEW a \in Signers, ImportRow(w, a)
    PROVE  AirgapInv'
<1> DEFINE new == [kind |-> "import", account |-> a]
<1>1. JobOK(new)
  BY DEF JobOK
<1>2. /\ work' = [work EXCEPT ![w] = new] /\ UNCHANGED <<displays, requestVars>> /\ context' = context
      /\ imported' \in [Signers -> {"none", "row", "keyed", "deleted"}] /\ ContextOK(context)
  BY DEF ImportRow, Begin, AirgapInv
<1> QED
  BY <1>1, <1>2, QuietKeeps

LEMMA ImportKeyKeeps ==
    ASSUME AirgapInv, NEW w \in Workers, ImportKey(w)
    PROVE  AirgapInv'
<1>1. work[w] # Nothing /\ work[w].kind = "import"
  BY DEF ImportKey, Doing, Idle
<1>2. work[w].account \in Signers
  BY <1>1 DEF AirgapInv, JobOK
<1>3. /\ work' = [work EXCEPT ![w] = Nothing] /\ UNCHANGED <<displays, requestVars>> /\ context' = context
      /\ imported' \in [Signers -> {"none", "row", "keyed", "deleted"}] /\ ContextOK(context)
  BY <1>2 DEF ImportKey, Done, AirgapInv
<1> QED
  BY <1>3, QuietKeeps

LEMMA FeedLoadKeeps ==
    ASSUME AirgapInv, NEW w \in Workers, NEW x \in displays, NEW f \in FramesOf(x), FeedLoad(w, f)
    PROVE  AirgapInv'
<1> DEFINE new == [kind |-> "feed", ctx |-> context, frame |-> f]
<1>1. f \in Frames /\ f.answer = x /\ (x.via = "text" => f.index = 1)
  BY DEF FramesOf, Frames, AirgapInv, AnswersOK
<1>2. JobOK(new)
  BY <1>1 DEF JobOK, FeedLoad, AirgapInv
<1>3. /\ work' = [work EXCEPT ![w] = new] /\ UNCHANGED <<displays, requestVars>> /\ context' = context
      /\ imported' \in [Signers -> {"none", "row", "keyed", "deleted"}] /\ ContextOK(context)
  BY DEF FeedLoad, Begin, AirgapInv
<1> QED
  BY <1>2, <1>3, QuietKeeps

LEMMA KeptFrames ==
    ASSUME NEW c, c # Nothing, ContextOK(c), NEW f \in Frames, f.answer \in displays,
           f.answer.via = "text" => f.index = 1, Fits(c, f)
    PROVE  ContextOK(Kept(c, f))
<1>1. f.answer.via \in {"ur", "bbqr", "text"}
  BY DEF Frames, Answers
<1>2. c.kind \in {"none", f.answer.via} /\ c.frames \in Seq(Frames) /\ (c.kind = "none" => c.frames = <<>>)
  BY DEF Fits, ContextOK
<1>3. \A n \in DOMAIN c.frames : c.frames[n].answer \in displays /\ (f.answer.via = "text" => c.frames[n].index = 1)
  BY <1>2 DEF ContextOK
<1> DEFINE more == Append(c.frames, f)
<1>4. /\ more \in Seq(Frames)
      /\ \A n \in DOMAIN more : more[n].answer \in displays /\ (f.answer.via = "text" => more[n].index = 1)
  <2>1. more \in Seq(Frames) /\ DOMAIN more = 1 .. Len(c.frames) + 1 /\ DOMAIN c.frames = 1 .. Len(c.frames)
    BY <1>2
  <2>2. ASSUME NEW n \in DOMAIN more
        PROVE  more[n].answer \in displays /\ (f.answer.via = "text" => more[n].index = 1)
    <3>1. CASE n \in DOMAIN c.frames
      <4>1. more[n] = c.frames[n]
        BY <1>2, <3>1
      <4> QED
        BY <1>3, <3>1, <4>1
    <3>2. CASE n \notin DOMAIN c.frames
      <4>1. n = Len(c.frames) + 1
        BY <1>2, <2>1, <3>2
      <4>2. more[n] = f
        BY <1>2, <4>1
      <4> QED
        BY <4>2
    <3> QED
      BY <3>1, <3>2
  <2> QED
    BY <2>1, <2>2
<1> HIDE DEF more
<1>5. PICK fs : /\ Kept(c, f) = [kind |-> f.answer.via, frames |-> fs] /\ (fs = c.frames \/ fs = more)
  BY DEF Kept, more
<1> QED
  BY <1>1, <1>2, <1>3, <1>4, <1>5 DEF ContextOK

LEMMA FeedSaveKeeps ==
    ASSUME AirgapInv, NEW w \in Workers, FeedSave(w)
    PROVE  AirgapInv'
<1> DEFINE j == work[w]
<1>1. j # Nothing /\ j.kind = "feed" /\ JobOK(j)
  BY DEF FeedSave, Doing, Idle, AirgapInv
<1>2. Fits(j.ctx, j.frame) => ContextOK(Kept(j.ctx, j.frame))
  BY <1>1, KeptFrames DEF JobOK
<1>3. /\ work' = [work EXCEPT ![w] = Nothing] /\ UNCHANGED <<displays, requestVars>> /\ imported' = imported
      /\ context' = IF Fits(j.ctx, j.frame) THEN Kept(j.ctx, j.frame) ELSE context
  BY DEF FeedSave, Done
<1>4. ContextOK(context) /\ imported' \in [Signers -> {"none", "row", "keyed", "deleted"}]
  BY <1>3 DEF AirgapInv
<1> HIDE DEF j
<1>5. PICK c : c = context' /\ ContextOK(c)
  BY <1>2, <1>3, <1>4
<1> QED
  BY <1>3, <1>4, <1>5, QuietKeeps

\* What a complete decoder yields is an answer that was displayed, or one of no request.
LEMMA LastShown ==
    ASSUME NEW fs \in Seq(Frames), \A n \in DOMAIN fs : fs[n].answer \in displays,
           NEW i, \E n \in DOMAIN fs : fs[n].index = i
    PROVE  Last(fs, i) \in displays
<1> DEFINE S == {n \in DOMAIN fs : fs[n].index = i}
<1>1. S \in SUBSET Nat /\ S # {} /\ IsFiniteSet(S)
  <2>1. S \subseteq 1 .. Len(fs) /\ S # {}
    OBVIOUS
  <2>2. IsFiniteSet(1 .. Len(fs)) /\ 1 .. Len(fs) \subseteq Nat
    BY FS_Interval
  <2> QED
    BY <2>1, <2>2, FS_Subset, Zenon
<1>2. PICK n \in S : \A k \in S : k <= n
  BY <1>1, LargestExists
<1>3. \E m \in DOMAIN fs : fs[m].index = i /\ \A k \in DOMAIN fs : fs[k].index = i => k <= m
  BY <1>2
<1>4. (CHOOSE m \in DOMAIN fs : fs[m].index = i /\ \A k \in DOMAIN fs : fs[k].index = i => k <= m) \in DOMAIN fs
  BY <1>3
<1> QED
  BY <1>4 DEF Last

LEMMA PayloadOK ==
    ASSUME AnswersOK, NEW c, c # Nothing, ContextOK(c), Complete(c)
    PROVE  \A y \in Payloads(c) : y.form \in Forms /\ y.carries \in Requests \cup {Nothing}
<1> DEFINE fs == c.frames
<1>1. fs \in Seq(Frames) /\ (\A n \in DOMAIN fs : fs[n].answer \in displays)
  BY DEF ContextOK
<1>2. \E n \in DOMAIN fs : fs[n].index = 1
  <2> DEFINE seen == {c.frames[n].index : n \in DOMAIN c.frames}
  <2>1. CASE c.kind = "text"
    <3>1. seen # {} /\ \A n \in DOMAIN c.frames : c.frames[n].index = 1
      BY <2>1 DEF Complete, ContextOK
    <3> QED
      BY <3>1
  <2>2. CASE c.kind # "text"
    <3>1. seen = 1 .. 2
      BY <2>2 DEF Complete
    <3>2. 1 \in seen
      BY <3>1
    <3> QED
      BY <3>2
  <2> QED
    BY <2>1, <2>2
<1>3. Last(fs, 1) \in displays
  BY <1>1, <1>2, LastShown
<1> DEFINE x == Last(fs, 1)
<1>4. x \in Answers
  BY <1>3 DEF AnswersOK
<1> HIDE DEF x, fs
<1>5. \A o : LET y == [x EXCEPT !.of = o, !.key = Nothing] IN y.form = x.form /\ y.carries = x.carries
  BY <1>4 DEF Answers
<1>6. \A y \in Payloads(c) : y = x \/ \E o : y = [x EXCEPT !.of = o, !.key = Nothing]
  BY DEF Payloads, x, fs
<1> QED
  BY <1>4, <1>5, <1>6 DEF Answers

LEMMA SubmitKeeps ==
    ASSUME AirgapInv, NEW w \in Workers, NEW x, x.form \in Forms, NEW given \in Requests \cup {Nothing},
           NEW d, NEW b, Submit(w, x, given, d, b), x.carries \in Requests \cup {Nothing}
    PROVE  AirgapInv'
<1> DEFINE r == RequestOf(x, given)
           p == IF r = Nothing THEN Nothing ELSE pending[r]
           new == [kind |-> "accept", answer |-> x, form |-> Form(x, p), rid |-> r, p |-> p, broadcast |-> b, scanned |-> d]
<1>1. p # Nothing => r \in Requests /\ asked[r] = p
  BY DEF AirgapInv, RequestsOK, RequestOf
<1>2. Form(x, p) \in {"eth", "sol", "psbt", "rawtx"} /\ (Form(x, p) = "psbt" => x.form = "psbt")
  BY DEF Form, Forms
<1> HIDE DEF r, p
<1>3. JobOK(new)
  BY <1>1, <1>2 DEF JobOK
<1>4. /\ work' = [work EXCEPT ![w] = new] /\ UNCHANGED <<displays, requestVars>> /\ context' = context
      /\ imported' \in [Signers -> {"none", "row", "keyed", "deleted"}] /\ ContextOK(context)
  BY DEF Submit, Begin, AirgapInv, r, p
<1> QED
  BY <1>3, <1>4, QuietKeeps

LEMMA AcceptKeeps == ASSUME AirgapInv, NEW w \in Workers, Accept(w) PROVE AirgapInv'
<1> DEFINE j == work[w]
           taken == Matches(j.answer, j.form, j.rid, j.p) /\ (j.form \in {"eth", "sol"} => imported[j.p.account] # "deleted")
           new == [kind |-> "answer", broadcast |-> j.broadcast, scanned |-> j.scanned]
           entry == [rid |-> j.rid, account |-> IF j.p = Nothing THEN Nothing ELSE j.p.account,
                     of |-> j.answer.of, key |-> j.answer.key, form |-> j.form]
<1>1. j # Nothing /\ j.kind = "accept" /\ JobOK(j)
  BY DEF Accept, Doing, Idle, AirgapInv
<1>2. UNCHANGED <<imported, displays, asked, context>>
  BY DEF Accept
<1>3. imported' \in [Signers -> {"none", "row", "keyed", "deleted"}] /\ ContextOK(context)'
  <2>1. ContextOK(context)
    BY DEF AirgapInv
  <2>2. PICK c : c = context /\ ContextOK(c)
    BY <2>1
  <2>3. ContextOK(c)'
    BY <1>2, <2>2, SameRequests
  <2> QED
    BY <1>2, <2>2, <2>3 DEF AirgapInv
<1> DEFINE cleared == pending' = [r \in Requests |-> IF r = j.rid THEN Nothing ELSE pending[r]]
           answered == cleared /\ accepted' = accepted \cup {entry} /\ work' = [work EXCEPT ![w] = new]
           refused == work' = [work EXCEPT ![w] = Nothing] /\ UNCHANGED <<pending, accepted>>
<1>4. ASSUME taken, answered PROVE AirgapInv'
  <2>1. cleared /\ accepted' = accepted \cup {entry} /\ work' = [work EXCEPT ![w] = new]
    BY <1>4
  <2>2. RequestsOK'
    BY <1>2, <2>1 DEF AirgapInv, RequestsOK
  <2>3. JobOK(new)
    BY DEF JobOK
  <2>4. entry.account # Nothing /\ entry.form # "rawtx" =>
          /\ entry.rid \in Requests /\ asked[entry.rid] # Nothing
          /\ entry.of = entry.rid /\ asked[entry.rid].account = entry.account
          /\ entry.form \in {"eth", "sol"} => entry.key = entry.account
    <3> SUFFICES ASSUME j.p # Nothing, j.form \in {"eth", "sol", "psbt"}
                 PROVE  /\ j.rid \in Requests /\ asked[j.rid] # Nothing
                        /\ j.answer.of = j.rid /\ asked[j.rid].account = j.p.account
                        /\ j.form \in {"eth", "sol"} => j.answer.key = j.p.account
      BY <1>1 DEF JobOK
    <3>1. j.rid \in Requests /\ asked[j.rid] = j.p
      BY <1>1 DEF JobOK
    <3>2. j.answer.of = j.rid /\ (j.form \in {"eth", "sol"} => j.answer.key = j.p.account)
      BY <1>4 DEF Matches, EthMatches, SolMatches, PsbtMatches
    <3> QED
      BY <3>1, <3>2
  <2> HIDE DEF entry
  <2>5. AcceptedOK'
    BY <1>2, <2>1, <2>4 DEF AirgapInv, AcceptedOK
  <2> HIDE DEF new
  <2> QED
    BY <1>2, <1>3, <2>1, <2>2, <2>3, <2>5, JobKeeps
<1>5. ASSUME refused PROVE AirgapInv'
  <2>1. RequestsOK' /\ AcceptedOK'
    BY <1>2, <1>5 DEF AirgapInv, RequestsOK, AcceptedOK
  <2> QED
    BY <1>2, <1>3, <1>5, <2>1, JobKeeps
<1>6. (taken /\ answered) \/ refused
  BY DEF Accept, Begin, Done
<1> QED
  BY <1>4, <1>5, <1>6

LEMMA EndsKeep == ASSUME AirgapInv, NEW w \in Workers, AnswerSubmit(w) \/ Dies(w) PROVE AirgapInv'
<1>1. /\ work' = [work EXCEPT ![w] = Nothing] /\ UNCHANGED <<displays, requestVars>> /\ imported' = imported
      /\ context' = context \/ context' = Nothing
  BY DEF AnswerSubmit, Dies, Done
<1>2. ContextOK(context) /\ ContextOK(Nothing) /\ imported' \in [Signers -> {"none", "row", "keyed", "deleted"}]
  BY <1>1 DEF AirgapInv, ContextOK
<1>3. PICK c : c = context' /\ ContextOK(c)
  BY <1>1, <1>2
<1> QED
  BY <1>1, <1>2, <1>3, QuietKeeps

\* Requests are built, lapse, are answered; signers and decoders come and go.
LEMMA OutsideKeeps ==
    ASSUME AirgapInv, work' = work, accepted' = accepted,
           imported' \in [Signers -> {"none", "row", "keyed", "deleted"}],
           displays \subseteq displays', \A r \in Requests : asked[r] # Nothing => asked'[r] = asked[r],
           RequestsOK', AnswersOK', NEW c, ContextOK(c), context' = c
    PROVE  AirgapInv'
<1>1. ContextOK(c)' /\ AcceptedOK'
  BY GrowthKeeps DEF AirgapInv
<1>2. \A w \in Workers : \A j : j = work'[w] /\ j # Nothing => JobOK(j)'
  BY GrowthKeeps DEF AirgapInv
<1> QED
  BY <1>1, <1>2 DEF AirgapInv

LEMMA AirgapStepKeeps == ASSUME AirgapInv, NEW w \in Workers, AirgapStep(w) PROVE AirgapInv'
<1>1. ASSUME NEW x \in displays, NEW given \in Requests \cup {Nothing}, NEW b \in BOOLEAN, Submit(w, x, given, FALSE, b)
      PROVE  AirgapInv'
  <2>1. x.form \in Forms /\ x.carries \in Requests \cup {Nothing}
    BY DEF AirgapInv, AnswersOK, Answers
  <2> QED
    BY <1>1, <2>1, SubmitKeeps
<1>2. ASSUME context # Nothing, Complete(context), NEW x \in Payloads(context), NEW given \in Requests \cup {Nothing},
             NEW b \in BOOLEAN, Submit(w, x, given, TRUE, b)
      PROVE  AirgapInv'
  <2>1. x.form \in Forms /\ x.carries \in Requests \cup {Nothing}
    BY <1>2, PayloadOK DEF AirgapInv
  <2> QED
    BY <1>2, <2>1, SubmitKeeps
<1> QED
  BY <1>1, <1>2, ImportRowKeeps, ImportKeyKeeps, FeedLoadKeeps, FeedSaveKeeps, AcceptKeeps, EndsKeep DEF AirgapStep

LEMMA AirgapPreserved == AirgapInv /\ [AirgapNext]_airgapVars => AirgapInv'
<1> SUFFICES ASSUME AirgapInv, [AirgapNext]_airgapVars PROVE AirgapInv'
  OBVIOUS
<1>0. /\ imported \in [Signers -> {"none", "row", "keyed", "deleted"}] /\ RequestsOK /\ AnswersOK
      /\ ContextOK(context) /\ ContextOK(Nothing)
  BY DEF AirgapInv, ContextOK
<1>c. PICK c : c = context /\ ContextOK(c)
  BY <1>0
<1>1. CASE UNCHANGED airgapVars
  <2>1. /\ work' = work /\ accepted' = accepted /\ imported' = imported /\ displays' = displays /\ asked' = asked
        /\ pending' = pending /\ context' = context
    BY <1>1 DEF airgapVars
  <2>2. RequestsOK' /\ AnswersOK'
    BY <1>0, <2>1, SameRequests DEF RequestsOK
  <2> QED
    BY <1>0, <1>c, <2>1, <2>2, OutsideKeeps
<1>2. ASSUME NEW a \in Signers, DeleteSigner(a) PROVE AirgapInv'
  <2>1. /\ work' = work /\ accepted' = accepted /\ displays' = displays /\ asked' = asked
        /\ pending' = pending /\ context' = context
        /\ imported' \in [Signers -> {"none", "row", "keyed", "deleted"}]
    BY <1>0, <1>2 DEF DeleteSigner, requestVars
  <2>2. RequestsOK' /\ AnswersOK'
    BY <1>0, <2>1, SameRequests DEF RequestsOK
  <2> QED
    BY <1>c, <2>1, <2>2, OutsideKeeps
<1>3. ASSUME NEW r \in Requests, Lapse(r) PROVE AirgapInv'
  <2>1. /\ work' = work /\ accepted' = accepted /\ imported' = imported /\ displays' = displays /\ asked' = asked
        /\ context' = context /\ pending' = [pending EXCEPT ![r] = Nothing]
    BY <1>3 DEF Lapse
  <2>2. RequestsOK' /\ AnswersOK'
    BY <1>0, <2>1, SameRequests DEF RequestsOK
  <2> QED
    BY <1>0, <1>c, <2>1, <2>2, OutsideKeeps
<1>4. ASSUME NEW r \in Requests, NEW a \in Signers, NEW k \in Chain, BuildRequest(r, a, k) PROVE AirgapInv'
  <2> DEFINE p == [account |-> a, chain |-> k]
  <2>1. /\ work' = work /\ accepted' = accepted /\ imported' = imported /\ displays' = displays /\ context' = context
        /\ asked[r] = Nothing /\ asked' = [asked EXCEPT ![r] = p] /\ pending' = [pending EXCEPT ![r] = p]
    BY <1>4 DEF BuildRequest
  <2>2. p \in Pending
    BY DEF Pending
  <2> HIDE DEF p
  <2>3. \A q \in Requests : asked[q] # Nothing => asked'[q] = asked[q]
    BY <1>0, <2>1 DEF RequestsOK
  <2>4. RequestsOK'
    BY <1>0, <2>1, <2>2 DEF RequestsOK
  <2>5. AnswersOK'
    BY <1>0, <2>1, <2>3, GrowthKeeps DEF AnswersOK
  <2> QED
    BY <1>0, <1>c, <2>1, <2>3, <2>4, <2>5, OutsideKeeps
<1>5. ASSUME NEW r \in Requests, NEW k \in Signers, SignerAnswers(r, k) PROVE AirgapInv'
  <2>1. PICK q \in {Nothing, r}, f \in Forms, v \in {"ur", "bbqr", "text"} :
          LET x == [of |-> r, carries |-> q, key |-> k, form |-> f, via |-> v] IN
          displays' = displays \cup {x}
    BY <1>5 DEF SignerAnswers
  <2>2. /\ work' = work /\ accepted' = accepted /\ imported' = imported /\ context' = context
        /\ asked[r] # Nothing /\ asked' = asked /\ pending' = pending
    BY <1>5 DEF SignerAnswers, requestVars
  <2> DEFINE x == [of |-> r, carries |-> q, key |-> k, form |-> f, via |-> v]
  <2>3. x \in Answers /\ displays' = displays \cup {x}
    BY <2>1, <2>2 DEF Answers
  <2> HIDE DEF x
  <2>4. RequestsOK'
    BY <1>0, <2>2 DEF RequestsOK
  <2>5. AnswersOK'
    BY <1>0, <2>2, <2>3, GrowthKeeps DEF AnswersOK
  <2> QED
    BY <1>0, <1>c, <2>2, <2>3, <2>4, <2>5, OutsideKeeps
<1>6. CASE DecoderNew \/ DecoderDelete
  <2>1. /\ work' = work /\ accepted' = accepted /\ imported' = imported /\ displays' = displays /\ asked' = asked
        /\ pending' = pending /\ (context' = Empty \/ context' = Nothing)
    BY <1>6 DEF DecoderNew, DecoderDelete, requestVars
  <2>2. RequestsOK' /\ AnswersOK'
    BY <1>0, <2>1, SameRequests DEF RequestsOK
  <2>3. ContextOK(Empty)
    BY DEF ContextOK, Empty
  <2> QED
    BY <1>0, <2>1, <2>2, <2>3, OutsideKeeps
<1> QED
  BY <1>1, <1>2, <1>3, <1>4, <1>5, <1>6, AirgapStepKeeps DEF AirgapNext

LEMMA AirgapStart == AirgapInit => AirgapInv
BY DEF AirgapInit, AirgapInv, RequestsOK, AnswersOK, ContextOK, AcceptedOK

LEMMA AirgapAlways == AirgapSpec => []AirgapInv
BY AirgapStart, AirgapPreserved, PTL DEF AirgapSpec

\* What is accepted for an account is a transaction the account asked for, whatever answers
\* of whatever requests were displayed, scanned, mixed or named in between, and a signature
\* is of the account's key; a PSBT's signatures are not verified, and a signed raw
\* transaction is taken as it is.
THEOREM AcceptedOnRequest == AirgapSpec => []AcceptedAsAsked
<1>1. AirgapInv => AcceptedAsAsked
  BY DEF AirgapInv, AcceptedOK, AcceptedAsAsked
<1> QED
  BY <1>1, AirgapAlways, PTL

\* The requests, displays, decoder and calls of AirgapSigning stay in their types.
THEOREM AirgapTyped == AirgapSpec => []AirgapTypeOK
<1>1. AirgapInv => AirgapTypeOK
  BY DEF AirgapInv, RequestsOK, AnswersOK, ContextOK, AirgapTypeOK
<1> QED
  BY <1>1, AirgapAlways, PTL
=============================================================================
