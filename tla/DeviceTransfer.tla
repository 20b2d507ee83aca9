--------------------------- MODULE DeviceTransfer ---------------------------
(***************************************************************************)
(* Moving a wallet to a new device (handlers/spot.rs, env.rs, transfer.rs):*)
(* the host exports the wallet, which registers a session and shows a      *)
(* pairing code; the new device sends the code's session and token in a    *)
(* query over Spot; the host sees the name the query gives its device and  *)
(* confirms or cancels; the sender of a confirmed query is answered with   *)
(* the wallet and the device shares, which it restores and stores in its   *)
(* vault.                                                                  *)
(*                                                                         *)
(* Queries run next to each other and to the host's calls, one access to   *)
(* the session table or to a session at a time. Sealing under the token    *)
(* is modelled by who holds the token.                                     *)
(***************************************************************************)
EXTENDS Naturals, Sequences, FiniteSets

CONSTANTS Codes,   \* exports: their sid and token
          Devices, \* queries, each of a device
          Hosts,   \* threads of the host's calls
          MaxSays, \* bound: answers of the host to one session
          Absent   \* no query, no call

ASSUME TransferAssumption == MaxSays \in Nat /\ Absent \notin BOOLEAN

VARIABLES
    listed,   \* sessions in the table
    session,  \* session[s]: claimed; the channel's end: held, taken, dropped; the answers in it
    owned,    \* the source device has the wallet
    query,    \* query[d]: the query of device d, or Absent
    reply,    \* reply[d]: what it was answered
    deciding, \* deciding[h]: the host's confirm or cancel under way, or Absent
    device,   \* device[d]: what the new device holds: nothing, the wallet, the shares too
    \* History:
    first,    \* first[s]: the host's first answer, or Absent
    paired,   \* the (session, device) pairs whose query carried the session's token
    showed,   \* what the host was shown: the session, the asking device, the name it was shown under
    released  \* the (session, device) pairs the wallet was released to

transferVars == <<listed, session, owned, query, reply, deciding, device, first, paired, showed, released>>
sourceVars   == <<listed, session, owned>>
historyVars  == <<first, paired, showed, released>>

Answered == {"payload", "declined", "timeout", "not_found", "bad_request", "token_invalid", "failed", "lost"}

TransferTypeOK ==
    /\ listed \subseteq Codes
    /\ session \in [Codes -> [claimed : BOOLEAN, end : {"none", "held", "taken", "dropped"}, says : Seq(BOOLEAN)]]
    /\ owned \in BOOLEAN
    /\ query \in [Devices -> [code : Codes, token : {"right", "wrong", "garbled"},
                              pc : {"find", "claim", "token", "take", "wait", "remove", "build"},
                              heard : {"none", "confirm", "cancel", "timeout"}] \cup {Absent}]
    /\ reply \in [Devices -> Answered \cup {"none"}]
    /\ deciding \in [Hosts -> [code : Codes, says : BOOLEAN] \cup {Absent}]
    /\ device \in [Devices -> {"nothing", "wallet", "whole"}]
    /\ first \in [Codes -> BOOLEAN \cup {Absent}]
    /\ paired \subseteq Codes \X Devices /\ showed \subseteq Codes \X Devices \X Devices
    /\ released \subseteq Codes \X Devices

TransferInit ==
    /\ listed = {} /\ owned = TRUE
    /\ session = [s \in Codes |-> [claimed |-> FALSE, end |-> "none", says |-> <<>>]]
    /\ query = [d \in Devices |-> Absent] /\ reply = [d \in Devices |-> "none"]
    /\ deciding = [h \in Hosts |-> Absent]
    /\ device = [d \in Devices |-> "nothing"]
    /\ first = [s \in Codes |-> Absent] /\ paired = {} /\ showed = {} /\ released = {}

-----------------------------------------------------------------------------
(* The source: the host's calls. *)

\* export_to_device: transfer_register under a fresh sid.
Export(s) ==
    /\ owned /\ session[s].end = "none"
    /\ listed' = listed \cup {s}
    /\ session' = [session EXCEPT ![s].end = "held"]
    /\ UNCHANGED <<owned, query, reply, deciding, device, historyVars>>

RemoveWallet ==
    /\ owned /\ owned' = FALSE
    /\ UNCHANGED <<listed, session, query, reply, deciding, device, historyVars>>

\* export_confirm, export_cancel: transfer_resolve finds the session ...
Decide(h, s, says) ==
    /\ deciding[h] = Absent /\ s \in listed
    /\ deciding' = [deciding EXCEPT ![h] = [code |-> s, says |-> says]]
    /\ UNCHANGED <<sourceVars, query, reply, device, historyVars>>

\* ... and sends into its channel, which fails once the other end is dropped.
Say(h) ==
    /\ deciding[h] # Absent
    /\ deciding' = [deciding EXCEPT ![h] = Absent]
    /\ LET s == deciding[h].code  x == deciding[h].says IN
       IF session[s].end = "dropped" THEN UNCHANGED <<session, first>>
       ELSE /\ Len(session[s].says) < MaxSays
            /\ session' = [session EXCEPT ![s].says = Append(@, x)]
            /\ first' = IF first[s] = Absent THEN [first EXCEPT ![s] = x] ELSE first
    /\ UNCHANGED <<listed, owned, query, reply, device, paired, showed, released>>

\* The source's process ends: sessions are in memory only.
SourceEnds ==
    /\ listed # {} /\ listed' = {}
    /\ session' = [s \in Codes |-> [session[s] EXCEPT !.end = IF @ = "none" THEN @ ELSE "dropped"]]
    /\ query' = [d \in Devices |-> Absent]
    /\ reply' = [d \in Devices |-> IF query[d] = Absent THEN reply[d] ELSE "lost"]
    /\ deciding' = [h \in Hosts |-> Absent]
    /\ UNCHANGED <<owned, device, historyVars>>

-----------------------------------------------------------------------------
(* The source: the query of a device (handle_transfer_query). *)

Pc(d, pc) == query[d] # Absent /\ query[d].pc = pc
Step(d, pc) == query' = [query EXCEPT ![d].pc = pc]
Reply(d, x) == /\ query' = [query EXCEPT ![d] = Absent]
               /\ reply' = [reply EXCEPT ![d] = x]

\* import_from_device asks with the code it was given; a query may also carry a token
\* that is not the session's, or is no token at all.
Ask(d, s, token) ==
    /\ query[d] = Absent /\ reply[d] = "none"
    /\ session[s].end # "none"
    /\ query' = [query EXCEPT ![d] = [code |-> s, token |-> token, pc |-> "find", heard |-> "none"]]
    /\ paired' = IF token = "right" THEN paired \cup {<<s, d>>} ELSE paired
    /\ UNCHANGED <<sourceVars, reply, deciding, device, first, showed, released>>

Find(d) ==
    /\ Pc(d, "find")
    /\ IF query[d].code \in listed THEN Step(d, "claim") /\ reply' = reply
       ELSE Reply(d, "not_found")
    /\ UNCHANGED <<sourceVars, deciding, device, historyVars>>

\* claimed.swap
Claim(d) ==
    /\ Pc(d, "claim")
    /\ LET s == query[d].code IN
       /\ session' = [session EXCEPT ![s].claimed = TRUE]
       /\ IF session[s].claimed THEN Reply(d, "not_found") ELSE Step(d, "token") /\ reply' = reply
    /\ UNCHANGED <<listed, owned, deciding, device, historyVars>>

\* A token that does not decode leaves the session, claimed; a wrong one removes it.
\* A right one is announced to the host, under the name the query gives its device
\* (newSpotID): import_from_device gives its own, and nothing compares the two. The
\* sender's stands in when none is given.
CheckToken(d, name) ==
    /\ Pc(d, "token")
    /\ LET s == query[d].code IN
       \/ query[d].token = "garbled" /\ Reply(d, "bad_request") /\ UNCHANGED <<listed, showed>>
       \/ query[d].token = "wrong"
          /\ listed' = listed \ {s} /\ Reply(d, "token_invalid") /\ showed' = showed
       \/ query[d].token = "right" /\ Step(d, "take")
          /\ showed' = showed \cup {<<s, d, name>>} /\ UNCHANGED <<listed, reply>>
    /\ UNCHANGED <<session, owned, deciding, device, first, paired, released>>

TakeEnd(d) ==
    /\ Pc(d, "take")
    /\ LET s == query[d].code IN
       IF session[s].end = "held"
       THEN session' = [session EXCEPT ![s].end = "taken"] /\ Step(d, "wait") /\ reply' = reply
       ELSE Reply(d, "not_found") /\ session' = session
    /\ UNCHANGED <<listed, owned, deciding, device, historyVars>>

\* Mutant: the latest answer.
Heard_Latest(says) == says[Len(says)]

\* The channel's first answer.
Heard(says) == Head(says)

\* recv_timeout, of 90 seconds.
Hear(d) ==
    /\ Pc(d, "wait")
    /\ LET s == query[d].code
           x == IF session[s].says = <<>> THEN "timeout"
                ELSE IF Heard(session[s].says) THEN "confirm" ELSE "cancel"
       IN query' = [query EXCEPT ![d].pc = "remove", ![d].heard = x]
    /\ UNCHANGED <<sourceVars, reply, deciding, device, historyVars>>

Unlist(d) ==
    /\ Pc(d, "remove")
    /\ LET s == query[d].code IN
       /\ listed' = listed \ {s}
       /\ IF query[d].heard = "confirm" THEN Step(d, "build") /\ UNCHANGED <<reply, session>>
          ELSE /\ Reply(d, IF query[d].heard = "cancel" THEN "declined" ELSE "timeout")
               /\ session' = [session EXCEPT ![s].end = "dropped"]
    /\ UNCHANGED <<owned, deciding, device, historyVars>>

\* build_transfer_payload and seal. The answer may come after the new device's 120 seconds.
Build(d) ==
    /\ Pc(d, "build")
    /\ LET s == query[d].code IN
       /\ session' = [session EXCEPT ![s].end = "dropped"]
       /\ IF owned THEN /\ released' = released \cup {<<s, d>>}
                        /\ Reply(d, "payload") \/ Reply(d, "lost")
          ELSE Reply(d, "failed") /\ released' = released
    /\ UNCHANGED <<listed, owned, deciding, device, first, paired, showed>>

-----------------------------------------------------------------------------
(* The new device. *)

\* import_from_device: restore_entry, then a vault entry for each share; either may fail.
Restore(d) ==
    /\ reply[d] = "payload" /\ device[d] = "nothing"
    /\ device' = [device EXCEPT ![d] = "wallet"]
    /\ UNCHANGED <<sourceVars, query, reply, deciding, historyVars>>

StoreShares(d) ==
    /\ device[d] = "wallet"
    /\ device' = [device EXCEPT ![d] = "whole"]
    /\ UNCHANGED <<sourceVars, query, reply, deciding, historyVars>>

TransferNext ==
    \/ \E s \in Codes : Export(s)
    \/ RemoveWallet \/ SourceEnds
    \/ \E h \in Hosts : Say(h) \/ \E s \in Codes, says \in BOOLEAN : Decide(h, s, says)
    \/ \E d \in Devices :
          \/ \E s \in Codes, token \in {"right", "wrong", "garbled"} : Ask(d, s, token)
          \/ \E name \in Devices : CheckToken(d, name)
          \/ Find(d) \/ Claim(d) \/ TakeEnd(d) \/ Hear(d) \/ Unlist(d) \/ Build(d)
          \/ Restore(d) \/ StoreShares(d)

TransferSpec == TransferInit /\ [][TransferNext]_transferVars

-----------------------------------------------------------------------------
\* d's query of s was announced to the host, under some name.
Announced(s, d) == \E name \in Devices : <<s, d, name>> \in showed

\* A session releases the wallet at most once (handle_transfer_query): to a device
\* whose query carried the session's token and was announced to the host, and only if
\* the host's first answer confirmed; what a new device holds is from such a release.
\* The name in the announcement is the query's own word, and may be another device's.
ReleasedAsConfirmed ==
    /\ \A s \in Codes : Cardinality({d \in Devices : <<s, d>> \in released}) <= 1
    /\ \A r \in released : r \in paired /\ Announced(r[1], r[2]) /\ first[r[1]] = TRUE
    /\ \A d \in Devices : device[d] # "nothing" => \E s \in Codes : <<s, d>> \in released
=============================================================================
