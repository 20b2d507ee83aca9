------------------------------ MODULE MCPeers ------------------------------
(* Four components that talk to another device and share no state: one of *)
(* them moves, the air-gapped signer with one of two menus.                *)
EXTENDS AirgapSigning, CeremonyHub, DeviceTransfer, WalletConnectSessions, TLC

VARIABLE part

MCInit ==
    /\ part \in {"sign", "scan", "hub", "transfer", "sessions"}
    /\ AirgapInit /\ HubInit /\ TransferInit /\ SessionsInit

One   == CHOOSE a \in Signers : TRUE
Early == \A r \in Requests : asked[r] = Nothing
Quiet == \A w \in Workers : Idle(w)

\* One answer is displayed, no decoder; what is accepted is broadcast.
SignMenu ==
    /\ context' = Nothing /\ Cardinality(displays') <= 1
    /\ \A w \in Workers : Doing(w, "accept")' => work'[w].broadcast

\* One account, requests for bitcoin, answers scanned by two threads once all are displayed.
ScanMenu ==
    /\ (\E r \in Requests : pending[r] # Nothing /\ pending'[r] = Nothing) => work' # work
    /\ \A r \in Requests : asked'[r] # Nothing => asked'[r] = [account |-> One, chain |-> "bitcoin"]
    /\ asked' # asked => Quiet
    /\ context' # Nothing => Cardinality(displays) = MaxScans
    /\ accepted # {} => context' = Nothing
    /\ context' = Empty => context \in {Nothing, Empty}
    /\ \A a \in Signers : imported'[a] # "none" => a = One /\ imported'[a] # "deleted"
    /\ \A w \in Workers : Doing(w, "accept")' =>
          work'[w].scanned /\ ~work'[w].broadcast /\ \A v \in Workers \ {w} : Idle(v)'

\* Accounts are imported before the first request, and deleted after it.
AirgapMenu ==
    /\ imported' # imported /\ ~Early => \E a \in Signers : imported'[a] = "deleted" /\ imported[a] # "deleted"
    /\ Early => (\A a \in Signers : imported'[a] # "deleted") /\ Cardinality({w \in Workers : ~Idle(w)'}) <= 1
    /\ displays' # displays => Quiet
    /\ IF part = "sign" THEN SignMenu ELSE ScanMenu

\* One frame of the peer after the proposals; sessions end over the first connection.
SessionsMenu ==
    /\ Cardinality({f \in mail' \cup shown' : f.kind # "propose"}) <= 1
    /\ \A c \in Clients : calls[c] = Nobody /\ calls'[c] # Nobody =>
          LET others == {calls[d].does : d \in {d \in Clients \ {c} : calls[d] # Nobody}} IN
          CASE calls'[c].does = "pair"       -> table[calls'[c].topic] = "none" \/ others = {}
            [] calls'[c].does = "disconnect" -> table[calls'[c].topic] = "active" /\ Len(managers) = 1
            [] OTHER                         -> "pair" \notin others
    /\ started' # started => \A p \in Proposals : table[p] # "disconnected"

MCNext ==
    /\ UNCHANGED part
    /\ \/ part \in {"sign", "scan"} /\ AirgapNext /\ AirgapMenu
          /\ UNCHANGED <<hubVars, transferVars, sessionVars>>
       \/ part = "hub" /\ HubNext /\ UNCHANGED <<airgapVars, transferVars, sessionVars>>
       \/ part = "transfer" /\ TransferNext /\ UNCHANGED <<airgapVars, hubVars, sessionVars>>
       \/ part = "sessions" /\ SessionsNext /\ SessionsMenu
          /\ UNCHANGED <<airgapVars, hubVars, transferVars>>

MCSpec == MCInit /\ [][MCNext]_<<airgapVars, hubVars, transferVars, sessionVars, part>>

\* The instances take their values from two sets: threads and devices, and the rest.
Interchangeable == Permutations(Workers) \cup Permutations(Requests)
=============================================================================
