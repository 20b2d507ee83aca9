--------------------------- MODULE VaultProofs ---------------------------
(***************************************************************************)
(* Proofs about Vault, for any number of workers and entries: type         *)
(* correctness, that an entry nobody deleted keeps its row, that a secure  *)
(* row has its platform key, and that what was locked stays locked.        *)
(***************************************************************************)
EXTENDS Vault, TLAPS

\* What is so of an operation in flight: where each kind can be, and what the
\* way there has established about its entries.
Phase(r) ==
    /\ r.kind = "create" => r.pc \in {"seal", "insertRow"}
    /\ r.kind = "use"    => r.pc \in {"fetch", "lookup", "open", "prompt", "opened"}
    /\ r.kind = "unlock" => r.pc \in {"fetch", "forget", "lookup", "open", "prompt", "opened"}
    /\ r.kind = "change" => r.pc \in {"fetch", "open", "prompt", "opened", "deleteRow", "insertRow", "forget"}
    /\ r.kind = "load"   => r.pc \in {"deleteRow", "insertRow"}
    /\ r.kind = "delete" => r.pc \in {"fetch", "deleteKey", "forget", "deleteRow"} /\ r.on \subseteq deleted
    /\ r.kind \in Locks  => r.pc \in {"forget", "cancel"}
    /\ r.kind \notin Locks => r.on \subseteq known /\ \A i, j \in r.on : i = j
    /\ r.pc = "seal" => r.on \subseteq secure
    /\ r.kind = "create" /\ r.pc = "insertRow" => r.on \cap secure \subseteq platform
    /\ r.kind \in {"change", "load"} /\ r.pc # "fetch" => r.on \cap secure = {}

PhaseInv == \A t \in Ops : op[t] # Idle => Phase(op[t])

\* Nobody knows the id of an entry that is being created.
AloneInv ==
    \A t, u \in Ops :
        t # u /\ op[t] # Idle /\ op[u] # Idle /\ op[t].kind = "create" /\ op[u].kind \notin Locks
        => op[t].on \cap op[u].on = {}

\* Only a creation makes an entry, and makes it secure.
AllKnown == secure \subseteq known /\ rows \subseteq known

TypeInv == TypeOK /\ PhaseInv /\ AloneInv /\ AllKnown

\* The steps of worker t leave the others where they are.
Stays(t) == op' = [op EXCEPT ![t] = op'[t]]

\* An operation that goes on is the same operation, at a place it may be.
GoesOn(t) ==
    op'[t] # Idle =>
        /\ op[t] # Idle
        /\ op'[t].kind = op[t].kind /\ op'[t].on = op[t].on
        /\ Phase(op[t])'

LEMMA Others ==
    ASSUME TypeOK, NEW t \in Ops, Stays(t), op'[t] \in Op \cup {Idle}
    PROVE  /\ op' \in [Ops -> Op \cup {Idle}]
           /\ \A u \in Ops \ {t} : op'[u] = op[u]
  BY DEF TypeOK, Stays

\* A step that neither begins an operation nor destroys a key.
LEMMA StepInv ==
    ASSUME TypeInv, NEW t \in Ops, Stays(t), op'[t] \in Op \cup {Idle}, GoesOn(t),
           secure' = secure, known' = known, deleted' = deleted, platform \subseteq platform'
    PROVE  op' \in [Ops -> Op \cup {Idle}] /\ PhaseInv' /\ AloneInv'
<1> USE DEF TypeInv
<1>1. op' \in [Ops -> Op \cup {Idle}] /\ \A u \in Ops \ {t} : op'[u] = op[u]
  BY Others
<1>2. ASSUME NEW u \in Ops, op'[u] # Idle PROVE Phase(op[u])'
  <2>1. CASE u = t
    BY <1>2, <2>1 DEF GoesOn
  <2>2. CASE u # t
    <3>1. op'[u] = op[u]
      BY <1>1, <2>2
    <3>2. Phase(op[u])
      BY <1>2, <3>1 DEF PhaseInv
    <3> QED
      BY <3>1, <3>2 DEF Phase
  <2> QED
    BY <2>1, <2>2
<1>3. ASSUME NEW u \in Ops, op'[u] # Idle
      PROVE  op[u] # Idle /\ op'[u].kind = op[u].kind /\ op'[u].on = op[u].on
  BY <1>1, <1>3 DEF GoesOn
<1>4. AloneInv'
  <2> SUFFICES ASSUME NEW u \in Ops, NEW v \in Ops, u # v, op'[u] # Idle, op'[v] # Idle,
                      op'[u].kind = "create", op'[v].kind \notin Locks
               PROVE  op'[u].on \cap op'[v].on = {}
    BY DEF AloneInv
  <2>1. op[u] # Idle /\ op[u].kind = "create" /\ op[u].on = op'[u].on
    BY <1>3
  <2>2. op[v] # Idle /\ op[v].kind \notin Locks /\ op[v].on = op'[v].on
    BY <1>3
  <2> QED
    BY <2>1, <2>2 DEF AloneInv
<1> QED
  BY <1>1, <1>2, <1>4 DEF PhaseInv

-----------------------------------------------------------------------------
(* The invariants of the entries and of the cache. *)

\* Worker u is about to store entry i.
Stores(u, i) ==
    op[u] # Idle /\ op[u].kind \notin Locks /\ i \in op[u].on /\ op[u].pc \in {"seal", "insertRow"}

\* Worker u has destroyed the key of i and is about to remove its row.
Removes(u, i) ==
    op[u] # Idle /\ op[u].kind = "delete" /\ i \in op[u].on /\ op[u].pc \in {"forget", "deleteRow"}

\* Worker u may put the secret of i into the cache.
MayKeep(u, i) == op[u] # Idle /\ op[u].kind \in {"use", "unlock"} /\ i \in op[u].on

RowInv   == \A i \in known \ (broken \cup deleted) : i \in rows \/ \E u \in Ops : Stores(u, i)
KeyInv   == \A i \in (rows \cap secure) \ broken : i \in platform \/ \E u \in Ops : Removes(u, i)
QuietInv == \A i \in Ids : wiped[i] = "quiet" => cache[i] = "none" /\ \A u \in Ops : ~MayKeep(u, i)

-----------------------------------------------------------------------------
(* Types and phases, action by action. *)

\* The operation goes on at pc.
Moved(t, pc) ==
    /\ Stays(t) /\ op[t] \in Op /\ op[t] # Idle /\ op'[t] \in Op /\ op'[t] # Idle
    /\ op'[t].pc = pc /\ op'[t].kind = op[t].kind /\ op'[t].on = op[t].on

\* The operation is over.
Ended(t) == Stays(t) /\ op[t] \in Op /\ op[t] # Idle /\ op'[t] = Idle

LEMMA GotoStep ==
    ASSUME TypeOK, NEW t \in Ops, op[t] # Idle, NEW pc \in Pc, Goto(t, pc)
    PROVE  Moved(t, pc)
<1>1. op[t] \in Op
  BY DEF TypeOK
<1>2. op'[t] = [op[t] EXCEPT !.pc = pc] /\ Stays(t)
  BY DEF Goto, TypeOK, Stays
<1>3. op'[t] \in Op
  BY <1>1, <1>2 DEF Op
<1>4. op'[t] # Idle
  BY <1>3, NullAssumption
<1>5. op'[t].pc = pc /\ op'[t].kind = op[t].kind /\ op'[t].on = op[t].on
  BY <1>1, <1>2 DEF Op
<1> QED
  BY <1>1, <1>2, <1>3, <1>4, <1>5 DEF Moved

LEMMA ReturnStep ==
    ASSUME TypeOK, NEW t \in Ops, op[t] # Idle, Return(t)
    PROVE  Ended(t)
<1>1. op[t] \in Op
  BY DEF TypeOK
<1> QED
  BY <1>1 DEF Return, TypeOK, Stays, Ended

\* An operation ends.
LEMMA EndInv ==
    ASSUME TypeInv, NEW t \in Ops, Ended(t),
           secure' = secure, known' = known, deleted' = deleted, platform \subseteq platform'
    PROVE  op' \in [Ops -> Op \cup {Idle}] /\ PhaseInv' /\ AloneInv'
  BY StepInv DEF Ended, GoesOn

\* An operation goes on to a place of its kind.
LEMMA MoveInv ==
    ASSUME TypeInv, NEW t \in Ops, NEW pc, Moved(t, pc), Phase(op[t])',
           secure' = secure, known' = known, deleted' = deleted, platform \subseteq platform'
    PROVE  op' \in [Ops -> Op \cup {Idle}] /\ PhaseInv' /\ AloneInv'
  BY StepInv DEF Moved, GoesOn

\* What the invariant says of the operation of t.
LEMMA Current ==
    ASSUME TypeInv, NEW t \in Ops, op[t] # Idle
    PROVE  op[t] \in Op /\ Phase(op[t])
  BY DEF TypeInv, TypeOK, PhaseInv

LEMMA SealKeyType ==
    ASSUME TypeInv, NEW t \in Ops, SealKey(t)
    PROVE  TypeInv'
<1>0. op[t] # Idle /\ op[t].pc = "seal" /\ op[t] \in Op /\ Phase(op[t])
  BY Current DEF SealKey, At
<1>a. secure' = secure /\ policy' = policy /\ rows' = rows /\ cache' = cache /\ known' = known
      /\ deleted' = deleted /\ wiped' = wiped
  BY DEF SealKey, sealed
<1>b. platform' \in {platform, platform \cup op[t].on}
  BY DEF SealKey
<1>c. platform' \subseteq secure
  BY <1>0, <1>b DEF Phase, TypeInv, TypeOK
<1>d. broken' \subseteq Ids
  BY <1>0 DEF SealKey, TypeInv, TypeOK, Op
<1>1. op' \in [Ops -> Op \cup {Idle}] /\ PhaseInv' /\ AloneInv'
  <2>1. CASE Goto(t, "insertRow") /\ platform' = platform \cup op[t].on
    <3>1. Moved(t, "insertRow")
      BY <1>0, <2>1, GotoStep DEF TypeInv, Pc
    <3>2. Phase(op[t])'
      BY <1>0, <1>a, <2>1, <3>1 DEF Phase, Moved, Locks
    <3> QED
      BY <1>a, <1>b, <3>1, <3>2, MoveInv
  <2>2. CASE Return(t)
    <3>1. Ended(t)
      BY <1>0, <2>2, ReturnStep DEF TypeInv
    <3> QED
      BY <1>a, <1>b, <3>1, EndInv
  <2> QED
    BY <2>1, <2>2 DEF SealKey
<1> QED
  BY <1>a, <1>c, <1>d, <1>1 DEF TypeInv, TypeOK, AllKnown

\* A step of the cases below: it touches no entry's history but wiped.
LEMMA QuietType ==
    ASSUME TypeInv, NEW t \in Ops, op[t] # Idle,
           Ended(t) \/ (\E pc \in Pc : Moved(t, pc) /\ Phase(op[t])'),
           secure' = secure, policy' = policy, platform' = platform,
           known' = known, deleted' = deleted,
           rows' \subseteq known, broken' \subseteq Ids,
           cache' \in [Ids -> {"none", "live", "expired"}],
           wiped' \in [Ids -> {"no", "busy", "quiet"}]
    PROVE  TypeInv'
<1>1. op' \in [Ops -> Op \cup {Idle}] /\ PhaseInv' /\ AloneInv'
  <2>1. CASE Ended(t)
    BY <2>1, EndInv
  <2>2. CASE \E pc \in Pc : Moved(t, pc) /\ Phase(op[t])'
    BY <2>2, MoveInv
  <2> QED
    BY <2>1, <2>2
<1> QED
  BY <1>1 DEF TypeInv, TypeOK, AllKnown

LEMMA FetchType ==
    ASSUME TypeInv, NEW t \in Ops, Fetch(t)
    PROVE  TypeInv'
<1>0. op[t] # Idle /\ op[t].pc = "fetch" /\ op[t] \in Op /\ Phase(op[t])
  BY Current DEF Fetch, At
<1>1. PICK i \in op[t].on : IF i \in rows THEN AfterFetch(t, i) ELSE Return(t)
  BY DEF Fetch
<1>a. UNCHANGED <<sealed, rows, platform, cache, history>>
  BY DEF Fetch
<1>2. CASE Return(t)
  <2>1. Ended(t)
    BY <1>0, <1>2, ReturnStep DEF TypeInv
  <2> QED
    BY <1>0, <1>a, <2>1, QuietType DEF TypeInv, TypeOK, AllKnown, sealed, history
<1>3. ASSUME NEW pc \in Pc, Goto(t, pc),
             \/ op[t].kind = "use" /\ pc = "lookup"
             \/ op[t].kind = "unlock" /\ pc = "forget"
             \/ op[t].kind = "delete" /\ pc \in {"deleteKey", "forget"}
             \/ op[t].kind = "change" /\ pc = "open" /\ op[t].on \cap secure = {}
      PROVE  TypeInv'
  <2>1. Moved(t, pc)
    BY <1>0, <1>3, GotoStep DEF TypeInv
  <2>2. Phase(op[t])'
    BY <1>0, <1>a, <1>3, <2>1 DEF Phase, Moved, Locks, sealed, history
  <2> QED
    BY <1>0, <1>a, <2>1, <2>2, QuietType DEF TypeInv, TypeOK, AllKnown, sealed, history
<1>4. CASE i \in rows
  <2>1. AfterFetch(t, i)
    BY <1>1, <1>4
  <2>2. CASE Is(t, {"use"}) /\ Goto(t, "lookup")
    BY <2>2, <1>3 DEF Is, Pc
  <2>3. CASE Is(t, {"unlock"}) /\ policy[i] # "eachUse" /\ Goto(t, "forget")
    BY <2>3, <1>3 DEF Is, Pc
  <2>4. CASE Is(t, {"change"}) /\ i \notin secure /\ Goto(t, "open")
    <3>1. op[t].on \cap secure = {}
      BY <1>0, <1>1, <2>4 DEF Phase, Locks, Is
    <3> QED
      BY <2>4, <3>1, <1>3 DEF Is, Pc
  <2>5. CASE Is(t, {"delete"}) /\ Goto(t, IF i \in secure THEN "deleteKey" ELSE "forget")
    BY <2>5, <1>3 DEF Is, Pc
  <2> QED
    BY <1>2, <2>1, <2>2, <2>3, <2>4, <2>5 DEF AfterFetch
<1> QED
  BY <1>1, <1>2, <1>4

LEMMA DeleteKeyType ==
    ASSUME TypeInv, NEW t \in Ops, DeleteKey(t)
    PROVE  TypeInv'
<1>0. op[t] # Idle /\ op[t].pc = "deleteKey" /\ op[t] \in Op /\ Phase(op[t])
  BY Current DEF DeleteKey, At
<1>k. op[t].kind = "delete"
  BY <1>0 DEF Phase, Op, Kinds, Locks
<1>a. UNCHANGED <<sealed, rows, cache, history>>
  BY DEF DeleteKey
<1>1. CASE Return(t) /\ UNCHANGED platform
  <2>1. Ended(t)
    BY <1>0, <1>1, ReturnStep DEF TypeInv
  <2> QED
    BY <1>0, <1>1, <1>a, <2>1, QuietType DEF TypeInv, TypeOK, AllKnown, sealed, history
<1>2. CASE Goto(t, "forget") /\ platform' \in {platform, platform \ op[t].on}
  <2>1. Moved(t, "forget")
    BY <1>0, <1>2, GotoStep DEF TypeInv, Pc
  <2>2. op' \in [Ops -> Op \cup {Idle}] /\ \A u \in Ops \ {t} : op'[u] = op[u]
    BY <2>1, Others DEF Moved, TypeInv
  <2>3. ASSUME NEW u \in Ops, op'[u] # Idle PROVE Phase(op[u])'
    <3>1. CASE u = t
      BY <1>0, <1>a, <1>k, <2>1, <3>1 DEF Phase, Moved, Locks, sealed, history
    <3>2. CASE u # t
      <4>1. op'[u] = op[u] /\ Phase(op[u])
        BY <2>2, <2>3, <3>2 DEF TypeInv, PhaseInv
      <4>2. op[u].kind = "create" => op[u].on \cap op[t].on = {}
        BY <1>0, <1>k, <2>3, <3>2, <4>1 DEF TypeInv, AloneInv, Locks
      <4> QED
        BY <1>a, <1>2, <4>1, <4>2 DEF Phase, sealed, history
    <3> QED
      BY <3>1, <3>2
  <2>4. ASSUME NEW u \in Ops, op'[u] # Idle
        PROVE  op[u] # Idle /\ op'[u].kind = op[u].kind /\ op'[u].on = op[u].on
    BY <2>1, <2>2, <2>4 DEF Moved
  <2>5. AloneInv'
    <3> SUFFICES ASSUME NEW u \in Ops, NEW v \in Ops, u # v, op'[u] # Idle, op'[v] # Idle,
                        op'[u].kind = "create", op'[v].kind \notin Locks
                 PROVE  op'[u].on \cap op'[v].on = {}
      BY DEF AloneInv
    <3>1. op[u] # Idle /\ op[u].kind = "create" /\ op[u].on = op'[u].on
      BY <2>4
    <3>2. op[v] # Idle /\ op[v].kind \notin Locks /\ op[v].on = op'[v].on
      BY <2>4
    <3> QED
      BY <3>1, <3>2 DEF AloneInv, TypeInv
  <2>6. TypeOK'
    BY <1>a, <1>2, <2>2 DEF TypeInv, TypeOK, sealed, history
  <2> QED
    BY <1>a, <2>3, <2>5, <2>6 DEF TypeInv, PhaseInv, AllKnown, sealed, history
<1> QED
  BY <1>1, <1>2 DEF DeleteKey

LEMMA DeleteRowType ==
    ASSUME TypeInv, NEW t \in Ops, DeleteRow(t)
    PROVE  TypeInv'
<1>0. op[t] # Idle /\ op[t].pc = "deleteRow" /\ op[t] \in Op /\ Phase(op[t])
  BY Current DEF DeleteRow, At
<1>a. UNCHANGED <<sealed, platform, cache, history>> /\ rows' = rows \ op[t].on
  BY DEF DeleteRow
<1>1. CASE Return(t)
  <2>1. Ended(t)
    BY <1>0, <1>1, ReturnStep DEF TypeInv
  <2> QED
    BY <1>0, <1>a, <2>1, QuietType DEF TypeInv, TypeOK, AllKnown, sealed, history
<1>2. CASE Goto(t, "insertRow") /\ op[t].kind # "delete"
  <2>1. Moved(t, "insertRow")
    BY <1>0, <1>2, GotoStep DEF TypeInv, Pc
  <2>2. Phase(op[t])'
    BY <1>0, <1>a, <1>2, <2>1 DEF Phase, Moved, Locks, sealed, history
  <2> QED
    BY <1>0, <1>a, <2>1, <2>2, QuietType DEF TypeInv, TypeOK, AllKnown, sealed, history, Pc
<1> QED
  BY <1>1, <1>2 DEF DeleteRow, Is

LEMMA InsertRowType ==
    ASSUME TypeInv, NEW t \in Ops, InsertRow(t)
    PROVE  TypeInv'
<1>0. op[t] # Idle /\ op[t].pc = "insertRow" /\ op[t] \in Op /\ Phase(op[t])
  BY Current DEF InsertRow, At
<1>a. UNCHANGED <<sealed, platform, cache, history>> /\ rows' = rows \cup op[t].on
  BY DEF InsertRow
<1>b. rows' \subseteq known
  BY <1>0, <1>a DEF Op, Kinds, Locks, Phase, TypeInv, AllKnown
<1>1. CASE Return(t)
  <2>1. Ended(t)
    BY <1>0, <1>1, ReturnStep DEF TypeInv
  <2> QED
    BY <1>0, <1>a, <1>b, <2>1, QuietType DEF TypeInv, TypeOK, AllKnown, sealed, history
<1>2. CASE Goto(t, "forget") /\ op[t].kind = "change"
  <2>1. Moved(t, "forget")
    BY <1>0, <1>2, GotoStep DEF TypeInv, Pc
  <2>2. Phase(op[t])'
    BY <1>0, <1>a, <1>2, <2>1 DEF Phase, Moved, Locks, sealed, history
  <2> QED
    BY <1>0, <1>a, <1>b, <2>1, <2>2, QuietType DEF TypeInv, TypeOK, AllKnown, sealed, history, Pc
<1> QED
  BY <1>1, <1>2 DEF InsertRow, Is

LEMMA LookupType ==
    ASSUME TypeInv, NEW t \in Ops, Lookup(t)
    PROVE  TypeInv'
<1>0. op[t] # Idle /\ op[t].pc = "lookup" /\ op[t] \in Op /\ Phase(op[t])
  BY Current DEF Lookup, At
<1>k. op[t].kind \in {"use", "unlock"}
  BY <1>0 DEF Phase, Op, Kinds, Locks
<1>a. UNCHANGED <<sealed, rows, platform, history>>
  BY DEF Lookup
<1>b. cache' \in [Ids -> {"none", "live", "expired"}]
  BY <1>0 DEF Lookup, TypeInv, TypeOK, Op
<1>1. CASE Return(t)
  <2>1. Ended(t)
    BY <1>0, <1>1, ReturnStep DEF TypeInv
  <2> QED
    BY <1>0, <1>a, <1>b, <2>1, QuietType DEF TypeInv, TypeOK, AllKnown, sealed, history
<1>2. CASE Goto(t, "open")
  <2>1. Moved(t, "open")
    BY <1>0, <1>2, GotoStep DEF TypeInv, Pc
  <2>2. Phase(op[t])'
    BY <1>0, <1>k, <1>a, <1>2, <2>1 DEF Phase, Moved, Locks, sealed, history
  <2> QED
    BY <1>0, <1>a, <1>b, <2>1, <2>2, QuietType DEF TypeInv, TypeOK, AllKnown, sealed, history, Pc
<1> QED
  BY <1>1, <1>2 DEF Lookup

LEMMA OpenType ==
    ASSUME TypeInv, NEW t \in Ops, Open(t) \/ Prompt(t)
    PROVE  TypeInv'
<1>0. op[t] # Idle /\ op[t].pc \in {"open", "prompt"} /\ op[t] \in Op /\ Phase(op[t])
  BY Current DEF Open, Prompt, At
<1>k. op[t].kind \in {"use", "unlock", "change"}
  BY <1>0 DEF Phase, Op, Kinds, Locks
<1>a. UNCHANGED <<sealed, rows, platform, cache, history>>
  BY DEF Open, Prompt
<1>1. CASE Return(t)
  <2>1. Ended(t)
    BY <1>0, <1>1, ReturnStep DEF TypeInv
  <2> QED
    BY <1>0, <1>a, <2>1, QuietType DEF TypeInv, TypeOK, AllKnown, sealed, history
<1>2. ASSUME NEW pc \in {"prompt", "opened"}, Goto(t, pc)
      PROVE  TypeInv'
  <2>1. Moved(t, pc)
    BY <1>0, <1>2, GotoStep DEF TypeInv, Pc
  <2>2. Phase(op[t])'
    BY <1>0, <1>k, <1>a, <1>2, <2>1 DEF Phase, Moved, Locks, sealed, history
  <2> QED
    BY <1>0, <1>a, <2>1, <2>2, QuietType DEF TypeInv, TypeOK, AllKnown, sealed, history, Pc
<1> QED
  BY <1>1, <1>2 DEF Open, Prompt

LEMMA KeepType ==
    ASSUME TypeInv, NEW t \in Ops, Keep(t)
    PROVE  TypeInv'
<1>0. op[t] # Idle /\ op[t].pc = "opened" /\ op[t] \in Op /\ Phase(op[t])
  BY Current DEF Keep, At
<1>a. UNCHANGED <<sealed, rows, platform, history>>
  BY DEF Keep
<1>b. cache' \in [Ids -> {"none", "live", "expired"}]
  BY DEF Keep, TypeInv, TypeOK
<1>1. CASE Return(t)
  <2>1. Ended(t)
    BY <1>0, <1>1, ReturnStep DEF TypeInv
  <2> QED
    BY <1>0, <1>a, <1>b, <2>1, QuietType DEF TypeInv, TypeOK, AllKnown, sealed, history
<1>2. CASE Goto(t, "deleteRow") /\ op[t].kind = "change"
  <2>1. Moved(t, "deleteRow")
    BY <1>0, <1>2, GotoStep DEF TypeInv, Pc
  <2>2. Phase(op[t])'
    BY <1>0, <1>a, <1>2, <2>1 DEF Phase, Moved, Locks, sealed, history
  <2> QED
    BY <1>0, <1>a, <1>b, <2>1, <2>2, QuietType DEF TypeInv, TypeOK, AllKnown, sealed, history, Pc
<1> QED
  BY <1>1, <1>2 DEF Keep, Is

LEMMA ForgetType ==
    ASSUME TypeInv, NEW t \in Ops, Forget(t)
    PROVE  TypeInv'
<1>0. op[t] # Idle /\ op[t].pc = "forget" /\ op[t] \in Op /\ Phase(op[t])
  BY Current DEF Forget, At
<1>a. UNCHANGED <<sealed, rows, platform, known, broken, deleted>>
  BY DEF Forget
<1>b. cache' \in [Ids -> {"none", "live", "expired"}]
  BY DEF Forget, TypeInv, TypeOK
<1>c. wiped' \in [Ids -> {"no", "busy", "quiet"}]
  BY DEF Forget, Wipe, TypeInv, TypeOK
<1>1. CASE Return(t)
  <2>1. Ended(t)
    BY <1>0, <1>1, ReturnStep DEF TypeInv
  <2> QED
    BY <1>0, <1>a, <1>b, <1>c, <2>1, QuietType DEF TypeInv, TypeOK, AllKnown, sealed
<1>2. ASSUME NEW pc \in {"lookup", "deleteRow", "cancel"}, Goto(t, pc),
             \/ op[t].kind = "unlock" /\ pc = "lookup"
             \/ op[t].kind = "delete" /\ pc = "deleteRow"
             \/ op[t].kind \in Locks /\ pc = "cancel"
      PROVE  TypeInv'
  <2>1. Moved(t, pc)
    BY <1>0, <1>2, GotoStep DEF TypeInv, Pc
  <2>2. Phase(op[t])'
    BY <1>0, <1>a, <1>2, <2>1 DEF Phase, Moved, Locks, sealed
  <2> QED
    BY <1>0, <1>a, <1>b, <1>c, <2>1, <2>2, QuietType DEF TypeInv, TypeOK, AllKnown, sealed, Pc
<1>3. AfterForget(t)
  BY DEF Forget
<1> QED
  BY <1>1, <1>2, <1>3 DEF AfterForget, Is

LEMMA FailType ==
    ASSUME TypeInv, NEW t \in Ops, StatementFails(t)
    PROVE  TypeInv'
<1>0. op[t] # Idle /\ op[t] \in Op
  BY Current DEF StatementFails
<1>1. Ended(t)
  BY <1>0, ReturnStep DEF TypeInv, StatementFails
<1>2. broken' \subseteq Ids
  BY <1>0 DEF StatementFails, TypeInv, TypeOK, Op
<1> QED
  BY <1>0, <1>1, <1>2, QuietType DEF TypeInv, TypeOK, AllKnown, StatementFails, sealed

\* Several operations end at once, the others stay.
LEMMA ManyEnd ==
    ASSUME TypeInv, op' \in [Ops -> Op \cup {Idle}], \A u \in Ops : op'[u] \in {Idle, op[u]},
           secure' = secure, known' = known, deleted' = deleted, platform' = platform
    PROVE  PhaseInv' /\ AloneInv'
<1>1. PhaseInv'
  <2> SUFFICES ASSUME NEW u \in Ops, op'[u] # Idle PROVE Phase(op[u])'
    BY DEF PhaseInv
  <2>1. op'[u] = op[u] /\ Phase(op[u])
    BY DEF TypeInv, PhaseInv
  <2> QED
    BY <2>1 DEF Phase
<1>2. AloneInv'
  <2> SUFFICES ASSUME NEW u \in Ops, NEW v \in Ops, u # v, op'[u] # Idle, op'[v] # Idle,
                      op'[u].kind = "create", op'[v].kind \notin Locks
               PROVE  op'[u].on \cap op'[v].on = {}
    BY DEF AloneInv
  <2>1. op'[u] = op[u] /\ op'[v] = op[v]
    OBVIOUS
  <2> QED
    BY <2>1 DEF AloneInv, TypeInv
<1> QED
  BY <1>1, <1>2

LEMMA CancelType ==
    ASSUME TypeInv, NEW t \in Ops, CancelPrompts(t)
    PROVE  TypeInv'
<1>1. op' \in [Ops -> Op \cup {Idle}] /\ \A u \in Ops : op'[u] \in {Idle, op[u]}
  BY DEF CancelPrompts, TypeInv, TypeOK
<1>2. UNCHANGED <<sealed, rows, platform, cache, history>>
  BY DEF CancelPrompts
<1> QED
  BY <1>1, <1>2, ManyEnd DEF TypeInv, TypeOK, sealed, history, AllKnown

LEMMA StopType ==
    ASSUME TypeInv, Stop
    PROVE  TypeInv'
<1>1. op' \in [Ops -> Op \cup {Idle}] /\ \A u \in Ops : op'[u] \in {Idle, op[u]}
  BY DEF Stop
<1>2. UNCHANGED <<sealed, rows, platform, known, deleted, wiped>>
  BY DEF Stop
<1>3. cache' \in [Ids -> {"none", "live", "expired"}] /\ broken' \subseteq Ids
  BY DEF Stop, TypeInv, TypeOK
<1> QED
  BY <1>1, <1>2, <1>3, ManyEnd DEF TypeInv, TypeOK, sealed, AllKnown

LEMMA ExpireType ==
    ASSUME TypeInv, NEW i \in Ids, Expire(i)
    PROVE  TypeInv'
<1>1. UNCHANGED <<sealed, rows, platform, op, history>>
  BY DEF Expire
<1>2. cache' \in [Ids -> {"none", "live", "expired"}]
  BY DEF Expire, TypeInv, TypeOK
<1>3. PhaseInv'
  BY <1>1 DEF TypeInv, PhaseInv, Phase, sealed, history
<1>4. AloneInv'
  BY <1>1 DEF TypeInv, AloneInv
<1> QED
  BY <1>1, <1>2, <1>3, <1>4 DEF TypeInv, TypeOK, sealed, history, AllKnown

\* What begins: operation r of worker t, which had none.
Begun(t, r) ==
    Stays(t) /\ op[t] = Idle /\ op'[t] = r /\ r \in Op /\ r # Idle

LEMMA BeginStep ==
    ASSUME TypeOK, NEW t \in Ops, NEW kind \in Kinds, NEW pc \in Pc, NEW on \in SUBSET Ids,
           Begin(t, kind, pc, on)
    PROVE  Begun(t, [kind |-> kind, pc |-> pc, on |-> on])
<1> DEFINE r == [kind |-> kind, pc |-> pc, on |-> on]
<1>1. r \in Op /\ r # Idle
  BY NullAssumption DEF Op
<1>2. op[t] = Idle /\ op'[t] = r /\ Stays(t)
  BY DEF Begin, TypeOK, Stays
<1> QED
  BY <1>1, <1>2 DEF Begun

LEMMA LockType ==
    ASSUME TypeInv, NEW t \in Ops, LockAll(t) \/ \E i \in Ids : Lock(t, i)
    PROVE  TypeInv'
<1>1. PICK kind \in Locks, on \in SUBSET Ids : Begin(t, kind, "forget", on)
  <2>1. CASE LockAll(t)
    BY <2>1 DEF LockAll, Locks
  <2>2. ASSUME NEW i \in Ids, Lock(t, i) PROVE \E kind \in Locks, on \in SUBSET Ids : Begin(t, kind, "forget", on)
    <3>1. "lock" \in Locks /\ {i} \in SUBSET Ids
      BY DEF Locks
    <3> QED
      BY <2>2, <3>1 DEF Lock
  <2> QED
    BY <2>1, <2>2
<1> DEFINE r == [kind |-> kind, pc |-> "forget", on |-> on]
<1>2. Begun(t, r)
  BY <1>1, BeginStep DEF TypeInv, Locks, Kinds, Pc
<1>a. UNCHANGED <<sealed, rows, platform, cache, known, broken, deleted, wiped>>
  BY DEF Lock, LockAll
<1>3. op' \in [Ops -> Op \cup {Idle}] /\ \A u \in Ops \ {t} : op'[u] = op[u]
  BY <1>2, Others DEF Begun, TypeInv
<1>4. op'[t] = r /\ r.kind \in Locks /\ r.pc = "forget"
  BY <1>2 DEF Begun
<1> HIDE DEF r
<1>5. PhaseInv'
  <2> SUFFICES ASSUME NEW u \in Ops, op'[u] # Idle PROVE Phase(op[u])'
    BY DEF PhaseInv
  <2>1. CASE u = t
    BY <1>4, <2>1 DEF Phase, Locks
  <2>2. CASE u # t
    <3>1. op'[u] = op[u] /\ Phase(op[u])
      BY <1>3, <2>2 DEF TypeInv, PhaseInv
    <3> QED
      BY <1>a, <3>1 DEF Phase, sealed
  <2> QED
    BY <2>1, <2>2
<1>6. AloneInv'
  <2> SUFFICES ASSUME NEW u \in Ops, NEW v \in Ops, u # v, op'[u] # Idle, op'[v] # Idle,
                      op'[u].kind = "create", op'[v].kind \notin Locks
               PROVE  op'[u].on \cap op'[v].on = {}
    BY DEF AloneInv
  <2>1. u # t /\ v # t
    BY <1>4 DEF Locks
  <2>2. op'[u] = op[u] /\ op'[v] = op[v]
    BY <1>3, <2>1
  <2> QED
    BY <2>2 DEF AloneInv, TypeInv
<1> QED
  BY <1>a, <1>2, <1>3, <1>5, <1>6 DEF TypeInv, TypeOK, Begun, sealed, AllKnown

LEMMA StartType ==
    ASSUME TypeInv, NEW t \in Ops, NEW i \in Ids, NEW kind \in Kinds, Start(t, kind, i)
    PROVE  TypeInv'
<1> DEFINE pc == IF kind = "load" THEN "deleteRow" ELSE "fetch"
           r  == [kind |-> kind, pc |-> pc, on |-> {i}]
<1>1. Begin(t, kind, pc, {i}) /\ {i} \in SUBSET Ids /\ pc \in Pc
  BY DEF Start, Pc
<1>2. Begun(t, r)
  BY <1>1, BeginStep DEF TypeInv
<1>a. UNCHANGED <<sealed, rows, platform, cache, known, broken>> /\ Published(i)
      /\ kind \in {"use", "unlock", "change", "delete", "load"} /\ (kind = "load" => i \notin secure)
  BY DEF Start
<1>b. deleted \subseteq deleted' /\ deleted' \subseteq Ids /\ (kind = "delete" => i \in deleted')
  BY DEF Start, TypeInv, TypeOK
<1>c. wiped' \in [Ids -> {"no", "busy", "quiet"}]
  BY DEF Start, TypeInv, TypeOK
<1>3. op' \in [Ops -> Op \cup {Idle}] /\ \A u \in Ops \ {t} : op'[u] = op[u]
  BY <1>2, Others DEF Begun, TypeInv
<1>4. op'[t] = r /\ r.kind = kind /\ r.pc = pc /\ r.on = {i}
  BY <1>2 DEF Begun
<1>5. (kind = "load" => pc = "deleteRow") /\ (kind # "load" => pc = "fetch")
  OBVIOUS
<1> HIDE DEF r, pc
<1>6. PhaseInv'
  <2> SUFFICES ASSUME NEW u \in Ops, op'[u] # Idle PROVE Phase(op[u])'
    BY DEF PhaseInv
  <2>1. CASE u = t
    BY <1>4, <1>5, <1>a, <1>b, <2>1 DEF Phase, Locks, Published, sealed
  <2>2. CASE u # t
    <3>1. op'[u] = op[u] /\ Phase(op[u])
      BY <1>3, <2>2 DEF TypeInv, PhaseInv
    <3> QED
      BY <1>a, <1>b, <3>1 DEF Phase, sealed
  <2> QED
    BY <2>1, <2>2
<1>7. AloneInv'
  <2> SUFFICES ASSUME NEW u \in Ops, NEW v \in Ops, u # v, op'[u] # Idle, op'[v] # Idle,
                      op'[u].kind = "create", op'[v].kind \notin Locks
               PROVE  op'[u].on \cap op'[v].on = {}
    BY DEF AloneInv
  <2>1. u # t /\ op'[u] = op[u]
    BY <1>3, <1>4, <1>a
  <2>2. CASE v # t
    BY <1>3, <2>1, <2>2 DEF AloneInv, TypeInv
  <2>3. CASE v = t
    <3>1. i \notin op[u].on
      BY <1>a, <2>1 DEF Published, About, Is, Locks
    <3> QED
      BY <1>4, <2>1, <2>3, <3>1
  <2> QED
    BY <2>2, <2>3
<1> QED
  BY <1>a, <1>b, <1>c, <1>2, <1>3, <1>6, <1>7 DEF TypeInv, TypeOK, Begun, sealed, AllKnown

LEMMA CreateType ==
    ASSUME TypeInv, NEW t \in Ops, NEW i \in Ids, Create(t, i)
    PROVE  TypeInv'
<1>1. PICK pc \in {"seal", "insertRow"} :
           Begin(t, "create", pc, {i}) /\ secure' = (IF pc = "seal" THEN secure \cup {i} ELSE secure)
  BY DEF Create
<1> DEFINE r == [kind |-> "create", pc |-> pc, on |-> {i}]
<1>2. Begun(t, r)
  <2>1. {i} \in SUBSET Ids /\ "create" \in Kinds /\ pc \in Pc
    BY DEF Kinds, Pc
  <2> QED
    BY <1>1, <2>1, BeginStep DEF TypeInv
<1>a. UNCHANGED <<rows, platform, cache, broken, deleted, wiped>> /\ i \notin known /\ known' = known \cup {i}
  BY DEF Create
<1>b. policy' \in [Ids -> Caching]
  BY OfferedAssumption DEF Create, TypeInv, TypeOK
<1>3. op' \in [Ops -> Op \cup {Idle}] /\ \A u \in Ops \ {t} : op'[u] = op[u]
  BY <1>2, Others DEF Begun, TypeInv
<1>4. op'[t] = r /\ r.kind = "create" /\ r.pc = pc /\ r.on = {i}
  BY <1>2 DEF Begun
<1>s. i \notin secure
  BY <1>a DEF TypeInv, AllKnown
<1> HIDE DEF r
<1>6. PhaseInv'
  <2> SUFFICES ASSUME NEW u \in Ops, op'[u] # Idle PROVE Phase(op[u])'
    BY DEF PhaseInv
  <2>1. CASE u = t
    BY <1>1, <1>4, <1>a, <1>s, <2>1 DEF Phase, Locks
  <2>2. CASE u # t
    <3>1. op'[u] = op[u] /\ Phase(op[u])
      BY <1>3, <2>2 DEF TypeInv, PhaseInv
    <3>2. op[u].kind \notin Locks => i \notin op[u].on
      BY <1>a, <3>1 DEF Phase
    <3> QED
      BY <1>1, <1>a, <3>1, <3>2 DEF Phase, Locks
  <2> QED
    BY <2>1, <2>2
<1>7. AloneInv'
  <2> SUFFICES ASSUME NEW u \in Ops, NEW v \in Ops, u # v, op'[u] # Idle, op'[v] # Idle,
                      op'[u].kind = "create", op'[v].kind \notin Locks
               PROVE  op'[u].on \cap op'[v].on = {}
    BY DEF AloneInv
  <2>0. ASSUME NEW w \in Ops, w # t, op'[w] # Idle, op'[w].kind \notin Locks
        PROVE  i \notin op'[w].on /\ op'[w] = op[w]
    BY <1>3, <1>a, <2>0 DEF TypeInv, PhaseInv, Phase
  <2>1. CASE u # t /\ v # t
    BY <1>3, <2>1 DEF AloneInv, TypeInv
  <2>2. CASE u = t
    BY <1>4, <2>0, <2>2
  <2>3. CASE v = t
    BY <1>4, <2>0, <2>3 DEF Locks
  <2> QED
    BY <2>1, <2>2, <2>3
<1> QED
  BY <1>1, <1>a, <1>b, <1>2, <1>3, <1>6, <1>7 DEF TypeInv, TypeOK, Begun, AllKnown

-----------------------------------------------------------------------------
(* The safety properties, action by action. *)

\* Worker t alone moved.
Alone(t) == \A u \in Ops \ {t} : op'[u] = op[u]

\* The operation of t went on or ended.
Advances(t) ==
    /\ Alone(t) /\ op[t] # Idle /\ op[t] \in Op
    /\ op'[t] # Idle => op'[t] \in Op /\ op'[t].kind = op[t].kind /\ op'[t].on = op[t].on

LEMMA AdvancesStep ==
    ASSUME TypeInv, NEW t \in Ops, op[t] # Idle, Return(t) \/ \E pc \in Pc : Goto(t, pc)
    PROVE  Advances(t)
<1>1. CASE Return(t)
  <2>1. Ended(t)
    BY <1>1, ReturnStep DEF TypeInv
  <2> QED
    BY <2>1, Others DEF Ended, Advances, Alone, TypeInv
<1>2. ASSUME NEW pc \in Pc, Goto(t, pc) PROVE Advances(t)
  <2>1. Moved(t, pc)
    BY <1>2, GotoStep DEF TypeInv
  <2> QED
    BY <2>1, Others DEF Moved, Advances, Alone, TypeInv
<1> QED
  BY <1>1, <1>2

\* A secret survives a step of t if t's own entries do.
LEMMA RowStep ==
    ASSUME RowInv, NEW t \in Ops, Alone(t), deleted \subseteq deleted', broken \subseteq broken',
           \A i \in known' \ (broken' \cup deleted') :
               i \notin known \/ Stores(t, i) \/ i \in rows => i \in rows' \/ Stores(t, i)'
    PROVE  RowInv'
<1> SUFFICES ASSUME NEW i \in known', i \notin broken', i \notin deleted', i \notin rows'
             PROVE  \E u \in Ops : Stores(u, i)'
  BY DEF RowInv
<1>1. CASE i \notin known \/ Stores(t, i) \/ i \in rows
  BY <1>1
<1>2. CASE i \in known /\ i \notin rows /\ ~Stores(t, i)
  <2>1. PICK u \in Ops : Stores(u, i)
    BY <1>2 DEF RowInv
  <2>2. u # t /\ op'[u] = op[u]
    BY <1>2, <2>1 DEF Alone
  <2> QED
    BY <2>1, <2>2 DEF Stores
<1> QED
  BY <1>1, <1>2

LEMMA KeyStep ==
    ASSUME KeyInv, NEW t \in Ops, Alone(t), broken \subseteq broken',
           \A i \in (rows' \cap secure') \ broken' :
               \/ i \in platform' \/ Removes(t, i)'
               \/ i \in rows \cap secure /\ i \notin platform /\ ~Removes(t, i)
    PROVE  KeyInv'
<1> SUFFICES ASSUME NEW i \in rows', i \in secure', i \notin broken', i \notin platform'
             PROVE  \E u \in Ops : Removes(u, i)'
  BY DEF KeyInv
<1>1. CASE Removes(t, i)'
  BY <1>1
<1>2. CASE i \in rows \cap secure /\ i \notin platform /\ ~Removes(t, i)
  <2>1. PICK u \in Ops : Removes(u, i)
    BY <1>2 DEF KeyInv
  <2>2. u # t /\ op'[u] = op[u]
    BY <1>2, <2>1 DEF Alone
  <2> QED
    BY <2>1, <2>2 DEF Removes
<1> QED
  BY <1>1, <1>2

LEMMA QuietStep ==
    ASSUME NEW t \in Ops, Alone(t),
           \A i \in Ids : wiped'[i] = "quiet" =>
               cache'[i] = "none" /\ ~MayKeep(t, i)' /\ \A u \in Ops \ {t} : ~MayKeep(u, i)
    PROVE  QuietInv'
<1> SUFFICES ASSUME NEW i \in Ids, wiped'[i] = "quiet", NEW u \in Ops
             PROVE  cache'[i] = "none" /\ ~MayKeep(u, i)'
  BY DEF QuietInv
<1>1. CASE u = t
  BY <1>1
<1>2. CASE u # t
  BY <1>2 DEF Alone, MayKeep
<1> QED
  BY <1>1, <1>2

\* An operation that touches neither cache nor what was wiped.
LEMMA QuietKept ==
    ASSUME QuietInv, NEW t \in Ops, Advances(t), wiped' = wiped,
           \A i \in Ids : cache'[i] = "none" \/ cache'[i] = cache[i]
    PROVE  QuietInv'
<1>1. ASSUME NEW i \in Ids, wiped[i] = "quiet"
      PROVE  cache'[i] = "none" /\ ~MayKeep(t, i)' /\ \A u \in Ops \ {t} : ~MayKeep(u, i)
  BY <1>1 DEF QuietInv, MayKeep, Advances
<1> QED
  BY <1>1, QuietStep DEF Advances

\* An operation that touches no row and no key, away from where those matter.
LEMMA EntriesKept ==
    ASSUME RowInv, KeyInv, NEW t \in Ops, Alone(t), rows' = rows, platform' = platform, secure' = secure,
           known' = known, deleted \subseteq deleted', broken \subseteq broken',
           op[t] = Idle \/ op[t].pc \notin {"seal", "insertRow", "forget", "deleteRow"}
    PROVE  RowInv' /\ KeyInv'
<1>1. \A i : ~Stores(t, i) /\ ~Removes(t, i)
  BY DEF Stores, Removes
<1>2. RowInv'
  BY <1>1, RowStep
<1>3. KeyInv'
  BY <1>1, KeyStep
<1> QED
  BY <1>2, <1>3

\* Rows, keys and cache are as the three invariants want them.
Kept == RowInv /\ KeyInv /\ QuietInv

LEMMA SealKeyKept ==
    ASSUME TypeInv, Kept, NEW t \in Ops, SealKey(t)
    PROVE  Kept'
<1>0. op[t] # Idle /\ op[t].pc = "seal" /\ op[t] \in Op /\ Phase(op[t])
  BY Current DEF SealKey, At
<1>1. Advances(t)
  BY <1>0, AdvancesStep DEF SealKey, Pc
<1>2. /\ secure' = secure /\ rows' = rows /\ cache' = cache /\ known' = known /\ deleted' = deleted
      /\ wiped' = wiped /\ broken \subseteq broken' /\ platform \subseteq platform'
  BY DEF SealKey, sealed
<1>3. RowInv'
  <2>1. CASE Goto(t, "insertRow")
    <3>1. Moved(t, "insertRow")
      BY <1>0, <2>1, GotoStep DEF TypeInv, Pc
    <3>2. \A i : Stores(t, i) => Stores(t, i)'
      BY <3>1 DEF Stores, Moved
    <3> QED
      BY <1>1, <1>2, <3>2, RowStep DEF Kept, Advances
  <2>2. CASE broken' = broken \cup op[t].on
    <3>1. \A i : Stores(t, i) => i \in broken'
      BY <2>2 DEF Stores
    <3> QED
      BY <1>1, <1>2, <3>1, RowStep DEF Kept, Advances
  <2> QED
    BY <2>1, <2>2 DEF SealKey
<1>4. KeyInv'
  <2>1. \A i : ~Removes(t, i)
    BY <1>0 DEF Removes
  <2> QED
    BY <1>1, <1>2, <2>1, KeyStep DEF Kept, Advances
<1> QED
  BY <1>1, <1>2, <1>3, <1>4, QuietKept DEF Kept

LEMMA FetchKept ==
    ASSUME TypeInv, Kept, NEW t \in Ops, Fetch(t)
    PROVE  Kept'
<1>0. op[t] # Idle /\ op[t].pc = "fetch"
  BY DEF Fetch, At
<1>1. Advances(t)
  BY <1>0, AdvancesStep DEF Fetch, AfterFetch, Pc
<1>2. UNCHANGED <<sealed, rows, platform, cache, history>>
  BY DEF Fetch
<1> QED
  BY <1>0, <1>1, <1>2, EntriesKept, QuietKept DEF Kept, Advances, sealed, history

LEMMA DeleteKeyKept ==
    ASSUME TypeInv, Kept, NEW t \in Ops, DeleteKey(t)
    PROVE  Kept'
<1>0. op[t] # Idle /\ op[t].pc = "deleteKey" /\ op[t] \in Op /\ Phase(op[t])
  BY Current DEF DeleteKey, At
<1>k. op[t].kind = "delete"
  BY <1>0 DEF Phase, Op, Kinds, Locks
<1>1. Advances(t)
  BY <1>0, AdvancesStep DEF DeleteKey, Pc
<1>2. UNCHANGED <<sealed, rows, cache, history>>
  BY DEF DeleteKey
<1>3. RowInv'
  <2>1. \A i : ~Stores(t, i)
    BY <1>0 DEF Stores
  <2> QED
    BY <1>1, <1>2, <2>1, RowStep DEF Kept, Advances, sealed, history
<1>4. KeyInv'
  <2>0. \A i : ~Removes(t, i)
    BY <1>0 DEF Removes
  <2>1. CASE Goto(t, "forget") /\ platform' = platform \ op[t].on
    <3>1. Moved(t, "forget")
      BY <1>0, <2>1, GotoStep DEF TypeInv, Pc
    <3>2. \A i \in op[t].on : Removes(t, i)'
      BY <1>k, <3>1 DEF Removes, Moved
    <3> QED
      BY <1>1, <1>2, <2>0, <2>1, <3>2, KeyStep DEF Kept, Advances, sealed, history
  <2>2. CASE platform' = platform
    BY <1>1, <1>2, <2>0, <2>2, KeyStep DEF Kept, Advances, sealed, history
  <2> QED
    BY <2>1, <2>2 DEF DeleteKey
<1> QED
  BY <1>1, <1>2, <1>3, <1>4, QuietKept DEF Kept, history

LEMMA DeleteRowKept ==
    ASSUME TypeInv, Kept, NEW t \in Ops, DeleteRow(t)
    PROVE  Kept'
<1>0. op[t] # Idle /\ op[t].pc = "deleteRow" /\ op[t] \in Op /\ Phase(op[t])
  BY Current DEF DeleteRow, At
<1>1. Advances(t)
  BY <1>0, AdvancesStep DEF DeleteRow, Pc
<1>2. UNCHANGED <<sealed, platform, cache, history>> /\ rows' = rows \ op[t].on
  BY DEF DeleteRow
<1>3. RowInv'
  <2>0. \A i : ~Stores(t, i)
    BY <1>0 DEF Stores
  <2>1. CASE op[t].kind = "delete"
    <3>1. op[t].on \subseteq deleted
      BY <1>0, <2>1 DEF Phase
    <3> QED
      BY <1>1, <1>2, <2>0, <3>1, RowStep DEF Kept, Advances, history
  <2>2. CASE Goto(t, "insertRow") /\ op[t].kind # "delete"
    <3>1. Moved(t, "insertRow")
      BY <1>0, <2>2, GotoStep DEF TypeInv, Pc
    <3>2. op[t].kind \notin Locks
      BY <1>0 DEF Phase
    <3>3. \A i \in op[t].on : Stores(t, i)'
      BY <3>1, <3>2 DEF Stores, Moved, Locks
    <3> QED
      BY <1>1, <1>2, <2>0, <3>3, RowStep DEF Kept, Advances, history
  <2> QED
    BY <2>1, <2>2 DEF DeleteRow, Is
<1>4. KeyInv'
  <2>1. \A i : i \notin op[t].on => ~Removes(t, i)
    BY DEF Removes
  <2> QED
    BY <1>1, <1>2, <2>1, KeyStep DEF Kept, Advances, sealed, history, KeyInv
<1> QED
  BY <1>1, <1>2, <1>3, <1>4, QuietKept DEF Kept, history

LEMMA InsertRowKept ==
    ASSUME TypeInv, Kept, NEW t \in Ops, InsertRow(t)
    PROVE  Kept'
<1>0. op[t] # Idle /\ op[t].pc = "insertRow" /\ op[t] \in Op /\ Phase(op[t])
  BY Current DEF InsertRow, At
<1>k. op[t].kind \in {"create", "change", "load"}
  BY <1>0 DEF Phase, Op, Kinds, Locks
<1>1. Advances(t)
  BY <1>0, AdvancesStep DEF InsertRow, Pc
<1>2. UNCHANGED <<sealed, platform, cache, history>> /\ rows' = rows \cup op[t].on
  BY DEF InsertRow
<1>3. RowInv'
  <2>1. \A i : Stores(t, i) => i \in rows'
    BY <1>2 DEF Stores
  <2> QED
    BY <1>1, <1>2, <2>1, RowStep DEF Kept, Advances, history
<1>4. KeyInv'
  <2>1. op[t].on \cap secure \subseteq platform
    BY <1>0, <1>k DEF Phase
  <2>2. \A i : ~Removes(t, i)
    BY <1>0 DEF Removes
  <2> QED
    BY <1>1, <1>2, <2>1, <2>2, KeyStep DEF Kept, Advances, sealed, history
<1> QED
  BY <1>1, <1>2, <1>3, <1>4, QuietKept DEF Kept, history

LEMMA SecretKept ==
    ASSUME TypeInv, Kept, NEW t \in Ops, Lookup(t) \/ Open(t) \/ Prompt(t)
    PROVE  Kept'
<1>0. op[t] # Idle /\ op[t].pc \in {"lookup", "open", "prompt"}
  BY DEF Lookup, Open, Prompt, At
<1>1. Advances(t)
  BY <1>0, AdvancesStep DEF Lookup, Open, Prompt, Pc
<1>2. UNCHANGED <<sealed, rows, platform, history>>
  BY DEF Lookup, Open, Prompt
<1>3. \A i \in Ids : cache'[i] = "none" \/ cache'[i] = cache[i]
  BY DEF Lookup, Open, Prompt, TypeInv, TypeOK
<1> QED
  BY <1>0, <1>1, <1>2, <1>3, EntriesKept, QuietKept DEF Kept, Advances, sealed, history

LEMMA KeepKept ==
    ASSUME TypeInv, Kept, NEW t \in Ops, Keep(t)
    PROVE  Kept'
<1>0. op[t] # Idle /\ op[t].pc = "opened" /\ op[t] \in Op /\ Phase(op[t])
  BY Current DEF Keep, At
<1>1. Advances(t)
  BY <1>0, AdvancesStep DEF Keep, Pc
<1>2. UNCHANGED <<sealed, rows, platform, history>>
  BY DEF Keep
<1>3. RowInv' /\ KeyInv'
  BY <1>0, <1>1, <1>2, EntriesKept DEF Kept, Advances, sealed, history
<1>4. QuietInv'
  <2>1. CASE op[t].kind = "change"
    BY <1>1, <1>2, <2>1, QuietKept DEF Kept, Keep, Is, history
  <2>2. CASE op[t].kind # "change" /\ Return(t)
            /\ cache' = [i \in Ids |-> IF i \in op[t].on /\ policy[i] # "eachUse" THEN "live" ELSE cache[i]]
    <3>1. op[t].kind \in {"use", "unlock"}
      BY <1>0, <2>2 DEF Phase, Op, Kinds, Locks
    <3>2. op'[t] = Idle
      BY <1>0, <2>2, ReturnStep DEF TypeInv, Ended
    <3>3. ASSUME NEW i \in Ids, wiped'[i] = "quiet"
          PROVE  cache'[i] = "none" /\ ~MayKeep(t, i)' /\ \A u \in Ops \ {t} : ~MayKeep(u, i)
      <4>1. cache[i] = "none" /\ \A u \in Ops : ~MayKeep(u, i)
        BY <1>2, <3>3 DEF Kept, QuietInv, history
      <4>2. i \notin op[t].on
        BY <1>0, <3>1, <4>1 DEF MayKeep
      <4>3. cache'[i] = "none"
        BY <2>2, <4>1, <4>2
      <4>4. ~MayKeep(t, i)'
        BY <3>2 DEF MayKeep
      <4> QED
        BY <4>1, <4>3, <4>4
    <3> QED
      BY <1>1, <3>3, QuietStep DEF Advances
  <2> QED
    BY <2>1, <2>2 DEF Keep, Is
<1> QED
  BY <1>3, <1>4 DEF Kept

LEMMA ForgetKept ==
    ASSUME TypeInv, Kept, NEW t \in Ops, Forget(t)
    PROVE  Kept'
<1>0. op[t] # Idle /\ op[t].pc = "forget" /\ op[t] \in Op /\ Phase(op[t])
  BY Current DEF Forget, At
<1>1. Advances(t)
  BY <1>0, AdvancesStep DEF Forget, AfterForget, Pc
<1>2. UNCHANGED <<sealed, rows, platform, known, broken, deleted>>
  BY DEF Forget
<1>3. RowInv'
  <2>1. \A i : ~Stores(t, i)
    BY <1>0 DEF Stores
  <2> QED
    BY <1>1, <1>2, <2>1, RowStep DEF Kept, Advances
<1>4. KeyInv'
  <2>1. CASE op[t].kind = "delete"
    <3>1. Goto(t, "deleteRow")
      BY <2>1 DEF Forget, AfterForget, Is, Locks
    <3>2. Moved(t, "deleteRow")
      BY <1>0, <3>1, GotoStep DEF TypeInv, Pc
    <3>3. \A i : Removes(t, i) => Removes(t, i)'
      BY <3>2 DEF Removes, Moved
    <3> QED
      BY <1>1, <1>2, <3>3, KeyStep DEF Kept, Advances, sealed
  <2>2. CASE op[t].kind # "delete"
    <3>1. \A i : ~Removes(t, i)
      BY <2>2 DEF Removes
    <3> QED
      BY <1>1, <1>2, <3>1, KeyStep DEF Kept, Advances, sealed
  <2> QED
    BY <2>1, <2>2
<1>5. QuietInv'
  <2>1. ASSUME NEW i \in Ids, wiped'[i] = "quiet"
        PROVE  cache'[i] = "none" /\ ~MayKeep(t, i)' /\ \A u \in Ops \ {t} : ~MayKeep(u, i)
    <3>1. CASE i \notin op[t].on \/ op[t].kind = "unlock"
      <4>1. wiped[i] = "quiet"
        BY <2>1, <3>1 DEF Forget, Wipe, Is
      <4>2. cache[i] = "none" /\ \A u \in Ops : ~MayKeep(u, i)
        BY <4>1 DEF Kept, QuietInv
      <4>3. cache'[i] = "none"
        BY <4>2 DEF Forget
      <4>4. ~MayKeep(t, i)'
        BY <1>1, <4>2 DEF MayKeep, Advances
      <4> QED
        BY <4>2, <4>3, <4>4
    <3>2. CASE i \in op[t].on /\ op[t].kind # "unlock"
      <4>1. About(i) \ {t} = {}
        BY <2>1, <3>2 DEF Forget, Wipe, Is
      <4>2. \A u \in Ops \ {t} : ~MayKeep(u, i)
        BY <4>1 DEF About, MayKeep, Is, Locks
      <4>3. cache'[i] = "none"
        BY <3>2 DEF Forget
      <4>4. op[t].kind \notin {"use", "unlock"}
        BY <1>0, <3>2 DEF Phase
      <4>5. ~MayKeep(t, i)'
        BY <1>1, <4>4 DEF MayKeep, Advances
      <4> QED
        BY <4>2, <4>3, <4>5
    <3> QED
      BY <3>1, <3>2
  <2> QED
    BY <1>1, <2>1, QuietStep DEF Advances
<1> QED
  BY <1>3, <1>4, <1>5 DEF Kept

LEMMA FailKept ==
    ASSUME TypeInv, Kept, NEW t \in Ops, StatementFails(t)
    PROVE  Kept'
<1>0. op[t] # Idle
  BY DEF StatementFails
<1>1. Advances(t)
  BY <1>0, AdvancesStep DEF StatementFails
<1>2. UNCHANGED <<sealed, rows, platform, cache, known, deleted, wiped>>
      /\ broken' = broken \cup op[t].on
  BY DEF StatementFails
<1>3. RowInv'
  <2>1. \A i : Stores(t, i) => i \in broken'
    BY <1>2 DEF Stores
  <2> QED
    BY <1>1, <1>2, <2>1, RowStep DEF Kept, Advances
<1>4. KeyInv'
  <2>1. \A i : Removes(t, i) => i \in broken'
    BY <1>2 DEF Removes
  <2> QED
    BY <1>1, <1>2, <2>1, KeyStep DEF Kept, Advances, sealed
<1> QED
  BY <1>1, <1>2, <1>3, <1>4, QuietKept DEF Kept

LEMMA CreateKept ==
    ASSUME TypeInv, Kept, NEW t \in Ops, NEW i \in Ids, Create(t, i)
    PROVE  Kept'
<1>1. PICK pc \in {"seal", "insertRow"} :
           Begin(t, "create", pc, {i}) /\ secure' = (IF pc = "seal" THEN secure \cup {i} ELSE secure)
  BY DEF Create
<1> DEFINE r == [kind |-> "create", pc |-> pc, on |-> {i}]
<1>2. Begun(t, r)
  <2>1. {i} \in SUBSET Ids /\ "create" \in Kinds /\ pc \in Pc
    BY DEF Kinds, Pc
  <2> QED
    BY <1>1, <2>1, BeginStep DEF TypeInv
<1>3. UNCHANGED <<rows, platform, cache, broken, deleted, wiped>> /\ i \notin known /\ known' = known \cup {i}
  BY DEF Create
<1>4. Alone(t)
  BY <1>2, Others DEF Begun, TypeInv, Alone
<1>5. op[t] = Idle /\ op'[t] # Idle /\ op'[t].kind = "create" /\ op'[t].pc \in {"seal", "insertRow"} /\ op'[t].on = {i}
  BY <1>2 DEF Begun
<1>6. RowInv'
  <2>1. Stores(t, i)' /\ \A j : ~Stores(t, j)
    BY <1>5 DEF Stores, Locks
  <2>2. ASSUME NEW j \in known' \ (broken' \cup deleted'), j \notin known \/ Stores(t, j) \/ j \in rows
        PROVE  j \in rows' \/ Stores(t, j)'
    BY <1>3, <2>1, <2>2
  <2> QED
    BY <1>3, <1>4, <2>2, RowStep DEF Kept
<1>7. KeyInv'
  <2>1. i \notin rows
    BY <1>3 DEF TypeInv, AllKnown
  <2>2. \A j : ~Removes(t, j)
    BY <1>5 DEF Removes
  <2> QED
    BY <1>1, <1>3, <1>4, <2>1, <2>2, KeyStep DEF Kept
<1>8. QuietInv'
  <2>1. \A j : ~MayKeep(t, j)'
    BY <1>5 DEF MayKeep
  <2> QED
    BY <1>3, <1>4, <2>1, QuietStep DEF Kept, QuietInv
<1> QED
  BY <1>6, <1>7, <1>8 DEF Kept

LEMMA StartKept ==
    ASSUME TypeInv, Kept, NEW t \in Ops, NEW i \in Ids, NEW kind \in Kinds, Start(t, kind, i)
    PROVE  Kept'
<1> DEFINE pc == IF kind = "load" THEN "deleteRow" ELSE "fetch"
           r  == [kind |-> kind, pc |-> pc, on |-> {i}]
<1>1. Begun(t, r)
  <2>1. Begin(t, kind, pc, {i}) /\ {i} \in SUBSET Ids /\ pc \in Pc
    BY DEF Start, Pc
  <2> QED
    BY <2>1, BeginStep DEF TypeInv
<1>2. UNCHANGED <<sealed, rows, platform, cache, known, broken>> /\ deleted \subseteq deleted'
  BY DEF Start
<1>3. Alone(t)
  BY <1>1, Others DEF Begun, TypeInv, Alone
<1>4. op[t] = Idle /\ op'[t].kind = kind /\ op'[t].on = {i}
  BY <1>1 DEF Begun
<1>5. RowInv' /\ KeyInv'
  BY <1>2, <1>3, <1>4, EntriesKept DEF Kept, sealed
<1>6. wiped' = IF kind \in {"use", "unlock"} THEN [wiped EXCEPT ![i] = "no"] ELSE wiped
  BY DEF Start
<1>7. ASSUME NEW j \in Ids, wiped'[j] = "quiet"
      PROVE  cache'[j] = "none" /\ ~MayKeep(t, j)' /\ \A u \in Ops \ {t} : ~MayKeep(u, j)
  <2>1. wiped[j] = "quiet" /\ (j = i => kind \notin {"use", "unlock"})
    BY <1>6, <1>7 DEF TypeInv, TypeOK
  <2>2. ~MayKeep(t, j)'
    BY <1>4, <2>1 DEF MayKeep
  <2> QED
    BY <1>2, <2>1, <2>2 DEF Kept, QuietInv
<1>8. QuietInv'
  BY <1>3, <1>7, QuietStep
<1> QED
  BY <1>5, <1>8 DEF Kept

LEMMA LockKept ==
    ASSUME TypeInv, Kept, NEW t \in Ops, LockAll(t) \/ \E i \in Ids : Lock(t, i)
    PROVE  Kept'
<1>1. UNCHANGED <<sealed, rows, platform, cache, known, broken, deleted, wiped>>
  BY DEF Lock, LockAll
<1>2. PICK kind \in Locks, on \in SUBSET Ids : Begin(t, kind, "forget", on)
  <2>1. CASE LockAll(t)
    BY <2>1 DEF LockAll, Locks
  <2>2. ASSUME NEW i \in Ids, Lock(t, i)
        PROVE  \E kind \in Locks, on \in SUBSET Ids : Begin(t, kind, "forget", on)
    <3>1. "lock" \in Locks /\ {i} \in SUBSET Ids
      BY DEF Locks
    <3> QED
      BY <2>2, <3>1 DEF Lock
  <2> QED
    BY <2>1, <2>2
<1> DEFINE r == [kind |-> kind, pc |-> "forget", on |-> on]
<1>3. Begun(t, r)
  BY <1>2, BeginStep DEF TypeInv, Locks, Kinds, Pc
<1>4. Alone(t)
  BY <1>3, Others DEF Begun, TypeInv, Alone
<1>5. op[t] = Idle /\ op'[t].kind \in Locks
  BY <1>3 DEF Begun
<1>6. RowInv' /\ KeyInv'
  BY <1>1, <1>4, <1>5, EntriesKept DEF Kept, sealed
<1>7. \A j : ~MayKeep(t, j)'
  BY <1>5 DEF MayKeep, Locks
<1> QED
  BY <1>1, <1>4, <1>6, <1>7, QuietStep DEF Kept, QuietInv

LEMMA CancelKept ==
    ASSUME TypeInv, Kept, NEW t \in Ops, CancelPrompts(t)
    PROVE  Kept'
<1>1. ASSUME NEW u \in Ops
      PROVE  op'[u] = op[u] \/ (op'[u] = Idle /\ op[u] # Idle /\ op[u].pc \in {"prompt", "cancel"})
  <2>1. op' = [v \in Ops |-> IF v = t \/ At(v, "prompt") THEN Idle ELSE op[v]]
    BY DEF CancelPrompts
  <2>2. op[t] # Idle /\ op[t].pc = "cancel"
    BY DEF CancelPrompts, At
  <2>3. CASE u = t
    BY <2>1, <2>2, <2>3
  <2>4. CASE At(u, "prompt")
    BY <2>1, <2>4 DEF At
  <2>5. CASE u # t /\ ~At(u, "prompt")
    BY <2>1, <2>5
  <2> QED
    BY <2>3, <2>4, <2>5
<1>2. /\ secure' = secure /\ rows' = rows /\ platform' = platform /\ cache' = cache
      /\ known' = known /\ broken' = broken /\ deleted' = deleted /\ wiped' = wiped
  BY DEF CancelPrompts, sealed, history
<1>3. ASSUME NEW u \in Ops, NEW i
      PROVE  /\ Stores(u, i) => Stores(u, i)'
             /\ Removes(u, i) => Removes(u, i)'
             /\ MayKeep(u, i)' => MayKeep(u, i)
  <2>1. CASE op'[u] = op[u]
    BY <2>1 DEF Stores, Removes, MayKeep
  <2>2. CASE op'[u] = Idle /\ op[u].pc \in {"prompt", "cancel"}
    BY <2>2 DEF Stores, Removes, MayKeep
  <2> QED
    BY <1>1, <2>1, <2>2
<1>4. RowInv'
  <2> SUFFICES ASSUME NEW i \in known, i \notin broken, i \notin deleted, i \notin rows
               PROVE  \E u \in Ops : Stores(u, i)'
    BY <1>2 DEF RowInv
  <2> QED
    BY <1>3 DEF Kept, RowInv
<1>5. KeyInv'
  <2> SUFFICES ASSUME NEW i \in rows, i \in secure, i \notin broken, i \notin platform
               PROVE  \E u \in Ops : Removes(u, i)'
    BY <1>2 DEF KeyInv
  <2> QED
    BY <1>3 DEF Kept, KeyInv
<1>6. QuietInv'
  <2> SUFFICES ASSUME NEW i \in Ids, wiped[i] = "quiet"
               PROVE  cache[i] = "none" /\ \A u \in Ops : ~MayKeep(u, i)'
    BY <1>2 DEF QuietInv
  <2> QED
    BY <1>3 DEF Kept, QuietInv
<1> QED
  BY <1>4, <1>5, <1>6 DEF Kept

LEMMA StopKept ==
    ASSUME TypeInv, Kept, Stop
    PROVE  Kept'
<1>1. \A u \in Ops : op'[u] = Idle
  BY DEF Stop
<1>2. UNCHANGED <<sealed, rows, platform, known, deleted, wiped>> /\ \A i \in Ids : cache'[i] = "none"
  BY DEF Stop
<1>3. \A u \in Ops, i \in Ids : Stores(u, i) \/ Removes(u, i) => i \in broken'
  BY DEF Stop, Stores, Removes, About, Is, Locks
<1>4. broken \subseteq broken' /\ known \subseteq Ids /\ rows \subseteq Ids
  BY DEF Stop, TypeInv, TypeOK
<1>5. RowInv'
  BY <1>2, <1>3, <1>4 DEF Kept, RowInv
<1>6. KeyInv'
  BY <1>2, <1>3, <1>4 DEF Kept, KeyInv, sealed
<1>7. QuietInv'
  BY <1>1, <1>2 DEF QuietInv, MayKeep
<1> QED
  BY <1>5, <1>6, <1>7 DEF Kept

LEMMA ExpireKept ==
    ASSUME TypeInv, Kept, NEW i \in Ids, Expire(i)
    PROVE  Kept'
<1>1. UNCHANGED <<sealed, rows, platform, op, history>>
  BY DEF Expire
<1>2. \A j \in Ids : cache[j] = "none" => cache'[j] = "none"
  BY DEF Expire, TypeInv, TypeOK
<1>3. RowInv' /\ KeyInv'
  BY <1>1 DEF Kept, RowInv, KeyInv, Stores, Removes, sealed, history
<1>4. QuietInv'
  BY <1>1, <1>2 DEF Kept, QuietInv, MayKeep, history
<1> QED
  BY <1>3, <1>4 DEF Kept

-----------------------------------------------------------------------------
(* The theorems. *)

LEMMA InitInv == Init => TypeInv /\ Kept
<1> SUFFICES ASSUME Init PROVE TypeInv /\ Kept
  OBVIOUS
<1>1. TypeOK
  BY DEF Init, TypeOK, Caching
<1>2. PhaseInv /\ AloneInv /\ AllKnown
  BY DEF Init, PhaseInv, AloneInv, AllKnown
<1>3. Kept
  BY DEF Init, Kept, RowInv, KeyInv, QuietInv
<1> QED
  BY <1>1, <1>2, <1>3 DEF TypeInv

LEMMA NextInv == TypeInv /\ Kept /\ [Next]_vars => (TypeInv /\ Kept)'
<1> SUFFICES ASSUME TypeInv, Kept, [Next]_vars PROVE TypeInv' /\ Kept'
  OBVIOUS
<1>1. ASSUME NEW t \in Ops, LockAll(t) PROVE TypeInv' /\ Kept'
  BY <1>1, LockType, LockKept
<1>2. ASSUME NEW t \in Ops, Advance(t) PROVE TypeInv' /\ Kept'
  <2>1. CASE SealKey(t)
    BY <2>1, SealKeyType, SealKeyKept
  <2>2. CASE Fetch(t)
    BY <2>2, FetchType, FetchKept
  <2>3. CASE DeleteKey(t)
    BY <2>3, DeleteKeyType, DeleteKeyKept
  <2>4. CASE DeleteRow(t)
    BY <2>4, DeleteRowType, DeleteRowKept
  <2>5. CASE InsertRow(t)
    BY <2>5, InsertRowType, InsertRowKept
  <2>6. CASE Lookup(t)
    BY <2>6, LookupType, SecretKept
  <2>7. CASE Open(t)
    BY <2>7, OpenType, SecretKept
  <2>8. CASE Keep(t)
    BY <2>8, KeepType, KeepKept
  <2>9. CASE Forget(t)
    BY <2>9, ForgetType, ForgetKept
  <2>10. CASE CancelPrompts(t)
    BY <2>10, CancelType, CancelKept
  <2> QED
    BY <1>2, <2>1, <2>2, <2>3, <2>4, <2>5, <2>6, <2>7, <2>8, <2>9, <2>10 DEF Advance
<1>3. ASSUME NEW t \in Ops, Prompt(t) PROVE TypeInv' /\ Kept'
  BY <1>3, OpenType, SecretKept
<1>4. ASSUME NEW t \in Ops, StatementFails(t) PROVE TypeInv' /\ Kept'
  BY <1>4, FailType, FailKept
<1>5. ASSUME NEW t \in Ops, NEW i \in Ids, Create(t, i) PROVE TypeInv' /\ Kept'
  BY <1>5, CreateType, CreateKept
<1>6. ASSUME NEW t \in Ops, NEW i \in Ids, Lock(t, i) PROVE TypeInv' /\ Kept'
  BY <1>6, LockType, LockKept
<1>7. ASSUME NEW t \in Ops, NEW i \in Ids, NEW kind \in Kinds, Start(t, kind, i) PROVE TypeInv' /\ Kept'
  BY <1>7, StartType, StartKept
<1>8. ASSUME NEW i \in Ids, Expire(i) PROVE TypeInv' /\ Kept'
  BY <1>8, ExpireType, ExpireKept
<1>9. CASE Stop
  BY <1>9, StopType, StopKept
<1>10. CASE UNCHANGED vars
  <2>1. UNCHANGED <<secure, policy, rows, platform, cache, op, known, broken, deleted, wiped>>
    BY <1>10 DEF vars, sealed, history
  <2>2. TypeInv'
    BY <2>1 DEF TypeInv, TypeOK, PhaseInv, Phase, AloneInv, AllKnown
  <2>3. Kept'
    BY <2>1 DEF Kept, RowInv, KeyInv, QuietInv, Stores, Removes, MayKeep
  <2> QED
    BY <2>2, <2>3
<1> QED
  BY <1>1, <1>2, <1>3, <1>4, <1>5, <1>6, <1>7, <1>8, <1>9, <1>10 DEF Next

LEMMA Invariant == Spec => [](TypeInv /\ Kept)
  BY InitInv, NextInv, PTL DEF Spec

\* Type correctness, for any number of workers and entries.
THEOREM TypeCorrect == Spec => []TypeOK
<1>1. TypeInv /\ Kept => TypeOK
  BY DEF TypeInv
<1> QED
  BY <1>1, Invariant, PTL

\* vault::store and delete: an entry that was never deleted, and that no failed
\* or interrupted operation touched, keeps its row, or a worker is about to
\* store it, however many workers write it at once.
THEOREM EntriesSurvive == Spec => []EntrySurvives
<1>1. RowInv => EntrySurvives
  BY DEF RowInv, EntrySurvives, Stores, About, Is
<1> QED
  BY <1>1, Invariant, PTL DEF Kept

\* create and delete order the key against the row: a secure entry with a row
\* has its platform key, unless a delete is about to remove the row or an
\* operation on the entry failed half-way.
THEOREM RowsHaveKeys == Spec => []SecureRowHasKey
<1>1. KeyInv => SecureRowHasKey
  BY DEF KeyInv, SecureRowHasKey, Removes, About, Is, Locks
<1> QED
  BY <1>1, Invariant, PTL DEF Kept

\* forget and lock_all: what was wiped while nothing else used the entry is not
\* in memory before a new use or unlock begins.
THEOREM LockedStays == Spec => []LockedStaysLocked
<1>1. QuietInv => LockedStaysLocked
  BY DEF QuietInv, LockedStaysLocked
<1> QED
  BY <1>1, Invariant, PTL DEF Kept

=============================================================================
