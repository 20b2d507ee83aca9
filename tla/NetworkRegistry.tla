-------------------------- MODULE NetworkRegistry --------------------------
(***************************************************************************)
(* Table Network and the current item "network" (models/network.rs): the   *)
(* seeding at start, the host's calls (handlers/network.rs), and the two   *)
(* Web3 methods that add a chain or switch to one after an approval        *)
(* (handlers/web3.rs, handlers/request.rs).                                *)
(*                                                                         *)
(* A row has an id, a chain and an RPC endpoint. Id and chain are each     *)
(* unique, but a chain has two ids: the one libwallet derives from it, and *)
(* the dotted one ("evm.137") the Web3 methods use. A step is one SQL      *)
(* statement; saving is two.                                               *)
(***************************************************************************)
EXTENDS Naturals, FiniteSets

CONSTANTS Agents,   \* worker threads
          ChainIds, \* the chains
          Builtin,  \* the chains every start seeds
          Listed,   \* the chains of the static registry
          NoNet     \* no call, no row, nothing selected

ASSUME ChainAssumption == Builtin \subseteq ChainIds /\ Listed \subseteq ChainIds

\* An id: derived by network_id_for, or dotted.
Ids == {"net", "dot"} \X ChainIds
NetworkIdFor(c) == <<"net", c>>
Dotted(c)       == <<"dot", c>>

VARIABLES
    stored,   \* ids with a row; the row's chain is the id's
    selected, \* the current network's id, or NoNet
    phase,    \* the session: "off", "seeding", "up"
    toSeed,   \* the chains the start has still to look at
    task,     \* task[t]: the worker's call, or NoNet
    \* History:
    registered  \* chains that got a row and that nobody is deleting or deleted since

netVars == <<stored, selected, phase, toSeed, task, registered>>

Task == [call : {"create", "update", "delete", "select", "add", "switch"},
         pc : {"look", "prompt", "clear", "put", "apply"}, id : Ids]
ASSUME NoNetAssumption == NoNet \notin Task

NetworkTypeOK ==
    /\ stored \subseteq Ids
    /\ selected \in Ids \cup {NoNet}
    /\ phase \in {"off", "seeding", "up"} /\ toSeed \subseteq Builtin
    /\ task \in [Agents -> Task \cup {NoNet}]
    /\ registered \subseteq ChainIds

NetworkInit ==
    /\ stored = {} /\ selected = NoNet /\ phase = "off" /\ toSeed = {}
    /\ task = [t \in Agents |-> NoNet]
    /\ registered = {}

Doing(t, pc)  == task[t] # NoNet /\ task[t].pc = pc
Calls(t, cs)  == task[t] # NoNet /\ task[t].call \in cs
Proceed(t, pc) == task' = [task EXCEPT ![t].pc = pc]
Leave(t)      == task' = [task EXCEPT ![t] = NoNet]
Deleting(c)   == \E t \in Agents : Calls(t, {"delete"}) /\ task[t].id[2] = c
Rows(c)       == {i \in stored : i[2] = c}

\* An INSERT is refused when the id or the chain has a row.
CanInsert(i) == Rows(i[2]) = {}

-----------------------------------------------------------------------------
(* Start and stop. *)

Start ==
    /\ phase = "off"
    /\ phase' = "seeding" /\ toSeed' = Builtin
    /\ UNCHANGED <<stored, selected, task, registered>>

\* make_default_networks: a chain is present when its derived id has a row. A
\* refused INSERT fails init, and LibwalletInit with it.
Seed(c) ==
    /\ phase = "seeding" /\ c \in toSeed
    /\ LET i == NetworkIdFor(c) IN
       IF i \in stored \/ CanInsert(i)
       THEN /\ stored' = stored \cup {i}
            /\ registered' = registered \cup {c}
            /\ toSeed' = toSeed \ {c}
            /\ UNCHANGED phase
       ELSE /\ phase' = "off" /\ toSeed' = {}
            /\ UNCHANGED <<stored, registered>>
    /\ UNCHANGED <<selected, task>>

Serve ==
    /\ phase = "seeding" /\ toSeed = {}
    /\ phase' = "up"
    /\ UNCHANGED <<stored, selected, toSeed, task, registered>>

\* The process ends, whatever its workers are doing: a row between the two
\* statements of a save is lost.
Half(t) == IF Doing(t, "put") THEN {task[t].id} ELSE {}
Exit ==
    /\ phase # "off"
    /\ phase' = "off" /\ toSeed' = {}
    /\ registered' = registered \ {i[2] : i \in UNION {Half(t) : t \in Agents}}
    /\ task' = [t \in Agents |-> NoNet]
    /\ UNCHANGED <<stored, selected>>

-----------------------------------------------------------------------------
(* Calls. *)

\* Network POST, PATCH, DELETE and setCurrent (which checks nothing: any id the
\* host has seen), wallet_addEthereumChain and wallet_switchEthereumChain.
Enter(t, c, i) ==
    /\ phase = "up" /\ task[t] = NoNet
    /\ \/ c = "create" /\ i = NetworkIdFor(i[2])
       \/ c \in {"update", "delete", "select"} /\ i \in stored
       \/ c \in {"add", "switch"} /\ i = Dotted(i[2])
    /\ task' = [task EXCEPT ![t] = [call |-> c, id |-> i, pc |->
                 CASE c \in {"update", "add", "switch"} -> "look"
                   [] c = "create" -> "clear" [] OTHER -> "apply"]]
    /\ registered' = IF c = "delete" THEN registered \ {i[2]} ELSE registered
    /\ UNCHANGED <<stored, selected, phase, toSeed>>

\* update wants a stored row; wallet_addEthereumChain is done when by_id_opt finds
\* the dotted id; wallet_switchEthereumChain takes that or a listed chain.
Look(t) ==
    /\ Doing(t, "look")
    /\ LET found == task[t].id \in stored IN
       \/ Calls(t, {"update"}) /\ IF found THEN Proceed(t, "clear") ELSE Leave(t)
       \/ Calls(t, {"add"}) /\ IF found THEN Leave(t) ELSE Proceed(t, "prompt")
       \/ Calls(t, {"switch"}) /\ IF found \/ task[t].id[2] \in Listed THEN Proceed(t, "prompt") ELSE Leave(t)
    /\ UNCHANGED <<stored, selected, phase, toSeed, registered>>

\* The user approves the request (ApprovalQueue), or it ends without an effect.
Decide(t) ==
    /\ Doing(t, "prompt")
    /\ \/ Proceed(t, IF Calls(t, {"add"}) THEN "clear" ELSE "apply")
       \/ Leave(t)
    /\ UNCHANGED <<stored, selected, phase, toSeed, registered>>

\* save's DELETE, by id.
Clear(t) ==
    /\ Doing(t, "clear")
    /\ stored' = stored \ {task[t].id}
    /\ Proceed(t, "put")
    /\ UNCHANGED <<selected, phase, toSeed, registered>>

\* Mutant: a row that stands in the way is removed, and the INSERT not repeated.
Put_Clears(t) ==
    /\ Doing(t, "put")
    /\ LET i == task[t].id IN
       /\ stored' = IF CanInsert(i) THEN stored \cup {i} ELSE stored \ Rows(i[2])
       /\ registered' = IF CanInsert(i) /\ ~Deleting(i[2]) THEN registered \cup {i[2]} ELSE registered
    /\ Leave(t)
    /\ UNCHANGED <<selected, phase, toSeed>>

\* save's INSERT, refused when the chain got a row meanwhile: under this id (two
\* saves overlapped), or under the chain's other id, and then this id is gone.
Put(t) ==
    /\ Doing(t, "put")
    /\ LET i == task[t].id IN
       /\ stored' = IF CanInsert(i) THEN stored \cup {i} ELSE stored
       /\ registered' = IF CanInsert(i) /\ ~Deleting(i[2]) THEN registered \cup {i[2]} ELSE registered
    /\ Leave(t)
    /\ UNCHANGED <<selected, phase, toSeed>>

\* delete's only statement; set_current, of the id given (an approved switch
\* selects the dotted id). A deletion leaves the current item alone.
Apply(t) ==
    /\ Doing(t, "apply")
    /\ LET i == task[t].id IN
       IF Calls(t, {"delete"})
       THEN stored' = stored \ {i} /\ UNCHANGED selected
       ELSE selected' = i /\ UNCHANGED stored
    /\ Leave(t)
    /\ UNCHANGED <<phase, toSeed, registered>>

\* A call's next statement fails and ends it.
CallFails(t) ==
    /\ task[t] # NoNet
    /\ registered' = registered \ {i[2] : i \in Half(t)}
    /\ Leave(t)
    /\ UNCHANGED <<stored, selected, phase, toSeed>>

AgentStep(t) ==
    \/ \E c \in {"create", "update", "delete", "select", "add", "switch"}, i \in Ids : Enter(t, c, i)
    \/ Look(t) \/ Decide(t) \/ Clear(t) \/ Put(t) \/ Apply(t) \/ CallFails(t)

NetworkNext ==
    \/ Start \/ Serve \/ Exit
    \/ \E c \in Builtin : Seed(c)
    \/ \E t \in Agents : AgentStep(t)

NetworkSpec == NetworkInit /\ [][NetworkNext]_netVars

-----------------------------------------------------------------------------
(* Properties *)

\* A chain that was seeded or saved keeps a row, under one id or the other, until
\* somebody deletes it: every built-in chain of a session that is up, too. Updates,
\* creations and approved additions of one chain overlap; in the middle of a save,
\* and when a save dies there, the row is missing.
RegisteredStays ==
    \A c \in registered : Rows(c) # {} \/ \E t \in Agents : Doing(t, "put") /\ task[t].id[2] = c

=============================================================================
