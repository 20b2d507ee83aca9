------------------------------ MODULE Vault ------------------------------
(***************************************************************************)
(* The vault of one session: vault/mod.rs (the entries and their platform  *)
(* keys), vault/session.rs (the cache of unsealed secrets) and the         *)
(* operations of handlers/vault.rs on them.                                *)
(*                                                                         *)
(* An entry is a row of table Vault. A secure entry also owns a key in the *)
(* platform's storage, which releases the secret after a prompt; a         *)
(* password entry is opened by its password alone. Every operation runs on *)
(* a worker thread of its own; a step is one SQL statement, one call of    *)
(* the platform, or one access of the cache under its mutex.               *)
(***************************************************************************)
EXTENDS Naturals

CONSTANTS Ops,     \* worker threads
          Ids,     \* entry ids: a creation takes a fresh one
          Policies,\* the CacheSeconds of the entries created, see Caching
          Offered, \* the operations the host calls
          Idle     \* the worker runs no operation of the vault

\* "use" stands for every request that takes the entry's secret (a Vault
\* KeyDescription, Vault:export), "lockAll" for Vault:lock without an id and for
\* Lifecycle:update {background}.
Kinds == {"create", "use", "unlock", "change", "load", "delete", "lock", "lockAll"}
Locks == {"lock", "lockAll"}

\* CacheSeconds: 0 (the secret is unsealed for every use), positive, negative.
Caching == {"eachUse", "timed", "untilLocked"}

ASSUME OfferedAssumption == Offered \subseteq Kinds /\ Policies \subseteq Caching

VARIABLES
    secure,    \* the entries of the secure backend; the others have a password
    policy,    \* policy[i]: the entry's CacheSeconds
    rows,      \* the entries that have a row
    platform,  \* the secure entries whose platform key exists
    cache,     \* cache[i]: "none", "live" or "expired" (still in memory)
    op,        \* op[t]: the operation's locals (see Op), or Idle
    \* History, of which the actions read that an id was used:
    known,     \* ids whose creation was begun
    broken,    \* entries with an operation that failed or died half-way
    deleted,   \* entries Vault:delete was called for
    wiped      \* wiped[i]: was the cached secret wiped after the last use began,
               \* and was another operation on the entry in flight ("busy")?

history == <<known, broken, deleted, wiped>>
sealed  == <<secure, policy>> \* fixed by the entry's creation, authenticated by its seal
vars    == <<sealed, rows, platform, cache, op, history>>

Pc == {"seal", "fetch", "lookup", "open", "prompt", "opened", "deleteKey", "forget",
       "deleteRow", "insertRow", "cancel"}

\* A running operation: the entries it is about (all of them for "lockAll").
Op == [kind : Kinds, pc : Pc, on : SUBSET Ids]

ASSUME NullAssumption == Idle \notin Op

TypeOK ==
    /\ secure \subseteq Ids
    /\ policy \in [Ids -> Caching]
    /\ rows \subseteq Ids
    /\ platform \subseteq secure
    /\ cache \in [Ids -> {"none", "live", "expired"}]
    /\ op \in [Ops -> Op \cup {Idle}]
    /\ known \subseteq Ids /\ broken \subseteq Ids /\ deleted \subseteq Ids
    /\ wiped \in [Ids -> {"no", "busy", "quiet"}]

Init ==
    /\ secure = {}
    /\ policy = [i \in Ids |-> "eachUse"]
    /\ rows = {}
    /\ platform = {}
    /\ cache = [i \in Ids |-> "none"]
    /\ op = [t \in Ops |-> Idle]
    /\ known = {} /\ broken = {} /\ deleted = {}
    /\ wiped = [i \in Ids |-> "no"]

At(t, pc)   == op[t] # Idle /\ op[t].pc = pc
Is(t, ks)   == op[t].kind \in ks
Goto(t, pc) == op' = [op EXCEPT ![t].pc = pc]
Return(t)   == op' = [op EXCEPT ![t] = Idle]

\* Operations in flight on entry i that may touch its row, its key or its secret.
About(i) == {t \in Ops : op[t] # Idle /\ ~Is(t, Locks) /\ i \in op[t].on}

Begin(t, kind, pc, on) ==
    /\ op[t] = Idle
    /\ kind \in Offered
    /\ op' = [op EXCEPT ![t] = [kind |-> kind, pc |-> pc, on |-> on]]

-----------------------------------------------------------------------------
(* Entries: create, load, changePassword and delete. *)

\* Vault:create and Vault:import, under a fresh id no host knows yet.
Create(t, i) ==
    /\ i \notin known
    /\ \/ Begin(t, "create", "seal", {i}) /\ secure' = secure \cup {i}
       \/ Begin(t, "create", "insertRow", {i}) /\ UNCHANGED secure
    /\ \E p \in Policies : policy' = [policy EXCEPT ![i] = p]
    /\ known' = known \cup {i}
    /\ UNCHANGED <<rows, platform, cache, broken, deleted, wiped>>

\* The id has been returned to the host (or was in a listing).
Published(i) == i \in known /\ \A t \in About(i) : ~Is(t, {"create"})

\* An operation on an entry begins by reading it; Vault:load writes at once, a
\* blob the host kept of a password entry.
Start(t, kind, i) ==
    /\ Published(i)
    /\ kind \in {"use", "unlock", "change", "delete", "load"}
    /\ kind = "load" => i \notin secure
    /\ Begin(t, kind, IF kind = "load" THEN "deleteRow" ELSE "fetch", {i})
    /\ wiped' = IF kind \in {"use", "unlock"} THEN [wiped EXCEPT ![i] = "no"] ELSE wiped
    /\ deleted' = IF kind = "delete" THEN deleted \cup {i} ELSE deleted
    /\ UNCHANGED <<sealed, rows, platform, cache, known, broken>>

\* Mutant: the row is written before the platform has made the key.
SealKey_Later(t) ==
    /\ At(t, "seal")
    /\ Goto(t, "insertRow")
    /\ UNCHANGED <<sealed, rows, platform, cache, history>>

\* seal_key: the platform makes the entry's key. When it fails the key may have
\* been made all the same (the wrapping failed).
SealKey(t) ==
    /\ At(t, "seal")
    /\ \/ Goto(t, "insertRow") /\ platform' = platform \cup op[t].on /\ UNCHANGED broken
       \/ Return(t) /\ platform' \in {platform, platform \cup op[t].on}
          /\ broken' = broken \cup op[t].on
    /\ UNCHANGED <<sealed, rows, cache, known, deleted, wiped>>

\* Where an operation goes with the entry it read. Unlock refuses an entry that
\* unlocks on every use, changePassword a secure one. From here on the operation
\* works on its copy of the row.
AfterFetch(t, i) ==
    \/ Is(t, {"use"}) /\ Goto(t, "lookup")
    \/ Is(t, {"unlock"}) /\ policy[i] # "eachUse" /\ Goto(t, "forget")
    \/ Is(t, {"unlock"}) /\ policy[i] = "eachUse" /\ Return(t)
    \/ Is(t, {"change"}) /\ i \notin secure /\ Goto(t, "open")
    \/ Is(t, {"change"}) /\ i \in secure /\ Return(t)
    \/ Is(t, {"delete"}) /\ Goto(t, IF i \in secure THEN "deleteKey" ELSE "forget")

Fetch(t) ==
    /\ At(t, "fetch")
    /\ \E i \in op[t].on : IF i \in rows THEN AfterFetch(t, i) ELSE Return(t)
    /\ UNCHANGED <<sealed, rows, platform, cache, history>>

\* delete: the platform key goes first; an error leaves the entry as it was. With
\* no backend for the row's provider (it is not registered in this process) the
\* key is left behind and the entry goes all the same.
DeleteKey(t) ==
    /\ At(t, "deleteKey")
    /\ \/ Goto(t, "forget") /\ platform' \in {platform, platform \ op[t].on}
       \/ Return(t) /\ UNCHANGED platform
    /\ UNCHANGED <<sealed, rows, cache, history>>

\* store's first statement, and delete's only one.
DeleteRow(t) ==
    /\ At(t, "deleteRow")
    /\ rows' = rows \ op[t].on
    /\ IF Is(t, {"delete"}) THEN Return(t) ELSE Goto(t, "insertRow")
    /\ UNCHANGED <<sealed, platform, cache, history>>

\* Mutant: a primary key error is answered by removing the row.
InsertRow_Clears(t) ==
    /\ At(t, "insertRow")
    /\ rows' = IF op[t].on \subseteq rows THEN rows \ op[t].on ELSE rows \cup op[t].on
    /\ IF Is(t, {"change"}) /\ ~(op[t].on \subseteq rows) THEN Goto(t, "forget") ELSE Return(t)
    /\ UNCHANGED <<sealed, platform, cache, history>>

\* store's second statement: a primary key error when another operation stored
\* the entry since the first, which ends this one. changePassword then drops
\* what was unlocked with the old password.
InsertRow(t) ==
    /\ At(t, "insertRow")
    /\ rows' = rows \cup op[t].on
    /\ IF Is(t, {"change"}) /\ ~(op[t].on \subseteq rows) THEN Goto(t, "forget") ELSE Return(t)
    /\ UNCHANGED <<sealed, platform, cache, history>>

-----------------------------------------------------------------------------
(* Secrets: session::secret, unlock and lock. *)

\* secret, under the cache's mutex: a live copy is the answer, an expired one goes.
Lookup(t) ==
    /\ At(t, "lookup")
    /\ \E i \in op[t].on :
         IF cache[i] = "live" THEN Return(t) /\ UNCHANGED cache
         ELSE Goto(t, "open") /\ cache' = [cache EXCEPT ![i] = "none"]
    /\ UNCHANGED <<sealed, rows, platform, history>>

\* unseal begins: the platform puts its prompt up, unless the key is gone; a
\* password is right or not.
Open(t) ==
    /\ At(t, "open")
    /\ IF op[t].on \subseteq secure
       THEN IF op[t].on \subseteq platform THEN Goto(t, "prompt") ELSE Return(t)
       ELSE Goto(t, "opened") \/ Return(t)
    /\ UNCHANGED <<sealed, rows, platform, cache, history>>

\* The user answers the prompt, or dismisses it.
Prompt(t) ==
    /\ At(t, "prompt")
    /\ Goto(t, "opened") \/ Return(t)
    /\ UNCHANGED <<sealed, rows, platform, cache, history>>

\* unseal returned the secret. changePassword seals it again and stores it; the
\* others keep it, when the policy lets them, and are done.
Keep(t) ==
    /\ At(t, "opened")
    /\ IF Is(t, {"change"}) THEN Goto(t, "deleteRow") /\ UNCHANGED cache
       ELSE /\ cache' = [i \in Ids |-> IF i \in op[t].on /\ policy[i] # "eachUse" THEN "live" ELSE cache[i]]
            /\ Return(t)
    /\ UNCHANGED <<sealed, rows, platform, history>>

\* The end of an entry's CacheSeconds: nothing removes the copy before it is
\* looked up again or locked.
Expire(i) ==
    /\ policy[i] = "timed" /\ cache[i] = "live"
    /\ cache' = [cache EXCEPT ![i] = "expired"]
    /\ UNCHANGED <<sealed, rows, platform, op, history>>

\* Vault:lock {Id}, Vault:lock, Lifecycle:update.
Lock(t, i) ==
    /\ Begin(t, "lock", "forget", {i})
    /\ UNCHANGED <<sealed, rows, platform, cache, known, broken, deleted, wiped>>

LockAll(t) ==
    /\ Begin(t, "lockAll", "forget", Ids)
    /\ UNCHANGED <<sealed, rows, platform, cache, known, broken, deleted, wiped>>

AfterForget(t) ==
    \/ Is(t, {"unlock"}) /\ Goto(t, "lookup")
    \/ Is(t, {"delete"}) /\ Goto(t, "deleteRow")
    \/ Is(t, {"change"}) /\ Return(t)
    \/ Is(t, Locks) /\ Goto(t, "cancel")

\* What a wipe is remembered as: it settles nothing for the unlock it begins.
Wipe(t) ==
    wiped' = [i \in Ids |-> IF i \notin op[t].on \/ Is(t, {"unlock"}) THEN wiped[i]
                            ELSE IF About(i) \ {t} = {} THEN "quiet" ELSE "busy"]

\* Mutant: only expired copies are dropped.
Forget_Expired(t) ==
    /\ At(t, "forget")
    /\ cache' = [i \in Ids |-> IF i \in op[t].on /\ cache[i] = "expired" THEN "none" ELSE cache[i]]
    /\ AfterForget(t)
    /\ Wipe(t)
    /\ UNCHANGED <<sealed, rows, platform, known, broken, deleted>>

\* forget, forget_everywhere, lock_scope or the first half of lock_all.
Forget(t) ==
    /\ At(t, "forget")
    /\ cache' = [i \in Ids |-> IF i \in op[t].on THEN "none" ELSE cache[i]]
    /\ AfterForget(t)
    /\ Wipe(t)
    /\ UNCHANGED <<sealed, rows, platform, known, broken, deleted>>

\* cancel_prompts: every prompt on screen fails as cancelled, whatever entry it
\* is for.
CancelPrompts(t) ==
    /\ At(t, "cancel")
    /\ op' = [u \in Ops |-> IF u = t \/ At(u, "prompt") THEN Idle ELSE op[u]]
    /\ UNCHANGED <<sealed, rows, platform, cache, history>>

-----------------------------------------------------------------------------
\* A database statement fails; what was done stays done.
StatementFails(t) ==
    /\ op[t] # Idle /\ op[t].pc \in {"fetch", "deleteRow", "insertRow"}
    /\ Return(t)
    /\ broken' = broken \cup op[t].on
    /\ UNCHANGED <<sealed, rows, platform, cache, known, deleted, wiped>>

\* The process dies, or the session is closed with its workers gone (the Env is
\* dropped: lock_scope). The table and the platform's keys persist.
Stop ==
    /\ op' = [t \in Ops |-> Idle]
    /\ cache' = [i \in Ids |-> "none"]
    /\ broken' = broken \cup {i \in Ids : About(i) # {}}
    /\ UNCHANGED <<sealed, rows, platform, known, deleted, wiped>>

\* What an operation does of itself: all but waiting for the user.
Advance(t) ==
    \/ SealKey(t) \/ Fetch(t) \/ DeleteKey(t) \/ DeleteRow(t) \/ InsertRow(t)
    \/ Lookup(t) \/ Open(t) \/ Keep(t) \/ Forget(t) \/ CancelPrompts(t)

Next ==
    \/ \E t \in Ops : LockAll(t) \/ Advance(t) \/ Prompt(t) \/ StatementFails(t)
    \/ \E t \in Ops, i \in Ids : Create(t, i) \/ Lock(t, i)
    \/ \E t \in Ops, i \in Ids, kind \in Kinds : Start(t, kind, i)
    \/ \E i \in Ids : Expire(i)
    \/ Stop

Spec == Init /\ [][Next]_vars

-----------------------------------------------------------------------------
(* Properties. *)

\* However operations overlap, an entry that is listed can be opened: its
\* platform key exists unless a delete is about to remove the row, or an
\* operation on the entry failed half-way (create makes the key first, delete
\* stops when it cannot destroy it).
SecureRowHasKey ==
    \A i \in (rows \cap secure) \ broken :
        i \in platform \/ \E t \in About(i) : Is(t, {"delete"})

\* However operations overlap, an entry that was never deleted keeps its row, or
\* a worker that removed it is about to store it again (changePassword, load).
EntrySurvives ==
    \A i \in known \ (broken \cup deleted) :
        i \in rows \/ \E t \in About(i) : op[t].pc \in {"seal", "insertRow"}

\* A secret locked, or dropped with its entry or its old password, while no other
\* operation was using the entry, is not in memory again before the entry is
\* used or unlocked anew.
LockedStaysLocked ==
    \A i \in Ids : wiped[i] = "quiet" => cache[i] = "none"

=============================================================================
