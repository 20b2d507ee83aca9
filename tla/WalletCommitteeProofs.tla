---------------------- MODULE WalletCommitteeProofs ----------------------
(***************************************************************************)
(* Proofs about WalletCommittee, for any number of workers and committees  *)
(* and any size of a committee: type correctness, that no row belongs to a *)
(* committee whose share the server was never given, that a whole          *)
(* committee survives whatever rewrites of the keys overlap, and what      *)
(* operations that run one at a time leave behind.                         *)
(***************************************************************************)
EXTENDS WalletCommittee, TLAPS

\* A share says which committee it is of.
LEMMA ShareOf ==
    ASSUME NEW k, NEW s \in Committee(k)
    PROVE  s[1] = k
  BY DEF Committee

\* The committees' shares are the shares.
LEMMA CommitteeShares ==
    ASSUME NEW k \in Committees
    PROVE  Committee(k) \subseteq Shares
  BY DEF Shares

\* The committee of a share is one of the committees.
LEMMA ShareCommittee ==
    ASSUME NEW s \in Shares
    PROVE  s[1] \in Committees
<1>1. PICK k \in Committees : s \in Committee(k)
  BY DEF Shares
<1> QED
  BY <1>1, ShareOf

\* A restore runs only when there is a file to restore.
FileInv == \A t \in Ops : op[t] # Idle /\ op[t].kind = "restore" => file # NoFile

TypeInv == TypeOK /\ FileInv

\* What an operation does to its own record.
Stays(t) == op' = [op EXCEPT ![t] = op'[t]]

\* An operation that goes on keeps a well-typed record of the same kind.
GoesOn(t) ==
    \/ op'[t] = Idle
    \/ /\ op[t] \in Op /\ op'[t] \in Op
       /\ op'[t].kind = op[t].kind

\* The steps of one operation change only its own record, and keep its type.
LEMMA OpType ==
    ASSUME TypeInv, NEW t \in Ops, op[t] \in Op, Stays(t), GoesOn(t)
    PROVE  /\ op' \in [Ops -> Op \cup {Idle}]
           /\ file' # NoFile \/ file' = file => FileInv'
<1>1. op' \in [Ops -> Op \cup {Idle}]
  BY DEF TypeInv, TypeOK, Stays, GoesOn
<1>2. ASSUME file' # NoFile \/ file' = file, NEW u \in Ops, op'[u] # Idle, op'[u].kind = "restore"
      PROVE  file' # NoFile
  <2>1. CASE u = t
    BY <1>2, <2>1, NullAssumption DEF TypeInv, FileInv, GoesOn
  <2>2. CASE u # t
    BY <1>2, <2>2 DEF TypeInv, TypeOK, FileInv, Stays
  <2> QED
    BY <2>1, <2>2
<1> QED
  BY <1>1, <1>2 DEF FileInv

\* A step that moves the program counter of one operation.
LEMMA GotoType ==
    ASSUME TypeInv, NEW t \in Ops, op[t] \in Op, NEW pc \in Pc, op' = [op EXCEPT ![t].pc = pc]
    PROVE  Stays(t) /\ GoesOn(t) /\ op'[t] = [op[t] EXCEPT !.pc = pc]
<1>1. op'[t] = [op[t] EXCEPT !.pc = pc]
  BY DEF TypeInv, TypeOK
<1>2. op' = [op EXCEPT ![t] = op'[t]]
  BY DEF TypeInv, TypeOK
<1>3. [op[t] EXCEPT !.pc = pc] \in Op /\ [op[t] EXCEPT !.pc = pc].kind = op[t].kind
  BY DEF Op
<1> QED
  BY <1>1, <1>2, <1>3 DEF Stays, GoesOn

\* A step that ends one operation.
LEMMA ReturnType ==
    ASSUME TypeInv, NEW t \in Ops, op[t] \in Op, Return(t)
    PROVE  Stays(t) /\ GoesOn(t) /\ op'[t] = Idle
  BY DEF TypeInv, TypeOK, Return, Stays, GoesOn

\* An operation at some program counter is a record.
LEMMA AtOp ==
    ASSUME TypeInv, NEW t \in Ops, NEW pc, At(t, pc)
    PROVE  op[t] \in Op /\ op[t].pc = pc
  BY DEF TypeInv, TypeOK, At

-----------------------------------------------------------------------------
(* Type correctness. *)

\* The steps that read: the operation's record changes, and the last backup.
LEMMA ReadType ==
    ASSUME TypeInv, NEW t \in Ops, FetchWallet(t) \/ FetchKeys(t) \/ FetchKey(t) \/ WriteFile(t)
    PROVE  TypeInv'
<1> USE DEF Pc
<1>1. CASE FetchWallet(t)
  <2>1. op[t] \in Op
    BY <1>1, AtOp DEF FetchWallet
  <2>2. Stays(t) /\ GoesOn(t)
    <3>1. CASE wallet = "none" /\ Is(t, {"restore"})
      <4>1. file \in File
        BY <2>1, <3>1, NullAssumption DEF TypeInv, TypeOK, FileInv, Is
      <4> QED
        BY <1>1, <2>1, <3>1, <4>1 DEF FetchWallet, TypeInv, TypeOK, Stays, GoesOn, Op, File
    <3>2. CASE wallet = "none" /\ ~Is(t, {"restore"})
      BY <1>1, <2>1, <3>2, ReturnType DEF FetchWallet
    <3>3. CASE wallet # "none"
      BY <1>1, <2>1, <3>3 DEF FetchWallet, TypeInv, TypeOK, Stays, GoesOn, Op
    <3> QED
      BY <3>1, <3>2, <3>3
  <2> QED
    BY <1>1, <2>1, <2>2, OpType DEF FetchWallet, TypeInv, TypeOK, history
<1>2. CASE FetchKeys(t)
  <2>1. op[t] \in Op
    BY <1>2, AtOp DEF FetchKeys
  <2>2. Stays(t) /\ GoesOn(t)
    <3>1. CASE Return(t)
      BY <2>1, <3>1, ReturnType
    <3>2. CASE op' = [op EXCEPT ![t].pc = "ceremony", ![t].seen = keys]
      BY <2>1, <3>2 DEF TypeInv, TypeOK, Stays, GoesOn, Op
    <3>3. CASE op' = [op EXCEPT ![t].pc = "clear", ![t].row = "none"]
      BY <2>1, <3>3 DEF TypeInv, TypeOK, Stays, GoesOn, Op, Mode
    <3>4. CASE op' = [op EXCEPT ![t].pc = "write", ![t].seen = keys]
      BY <2>1, <3>4 DEF TypeInv, TypeOK, Stays, GoesOn, Op
    <3>5. ASSUME NEW s \in keys,
                 op' = [op EXCEPT ![t].pc = "upload", ![t].row = "none", ![t].new = s[1]]
          PROVE  Stays(t) /\ GoesOn(t)
      <4>1. s[1] \in Committees
        BY ShareCommittee DEF TypeInv, TypeOK
      <4> QED
        BY <2>1, <3>5, <4>1 DEF TypeInv, TypeOK, Stays, GoesOn, Op, Mode
    <3> QED
      BY <1>2, <3>1, <3>2, <3>3, <3>4, <3>5 DEF FetchKeys, AfterKeys
  <2> QED
    BY <1>2, <2>1, <2>2, OpType DEF FetchKeys, TypeInv, TypeOK, history
<1>3. CASE FetchKey(t)
  <2>1. op[t] \in Op
    BY <1>3, AtOp DEF FetchKey
  <2>2. Stays(t) /\ GoesOn(t)
    <3>1. CASE Return(t)
      BY <2>1, <3>1, ReturnType
    <3>2. ASSUME NEW s \in keys, op' = [op EXCEPT ![t].pc = "clearOne", ![t].todo = {s}]
          PROVE  Stays(t) /\ GoesOn(t)
      BY <2>1, <3>2 DEF TypeInv, TypeOK, Stays, GoesOn, Op
    <3> QED
      BY <1>3, <3>1, <3>2 DEF FetchKey
  <2> QED
    BY <1>3, <2>1, <2>2, OpType DEF FetchKey, TypeInv, TypeOK, history
<1>4. CASE WriteFile(t)
  <2>1. op[t] \in Op
    BY <1>4, AtOp DEF WriteFile
  <2>2. Stays(t) /\ GoesOn(t)
    BY <1>4, <2>1, ReturnType DEF WriteFile
  <2>3. file' \in File
    BY <1>4, <2>1 DEF WriteFile, File, Op
  <2>4. file' # NoFile
    BY <2>3, NullAssumption
  <2> QED
    BY <1>4, <2>1, <2>2, <2>3, <2>4, OpType DEF WriteFile, TypeInv, TypeOK, history
<1> QED
  BY <1>1, <1>2, <1>3, <1>4

\* The steps around the ceremony and the upload.
LEMMA CeremonyType ==
    ASSUME TypeInv, NEW t \in Ops,
           \/ Ceremony(t) \/ CeremonyFails(t) \/ UploadLands(t) \/ UploadDone(t) \/ UploadFails(t)
    PROVE  TypeInv'
<1> USE DEF Pc
<1>1. CASE Ceremony(t)
  <2>1. op[t] \in Op
    BY <1>1, AtOp DEF Ceremony, Generate
  <2>2. next \in Committees /\ next + 1 \in 0..(MaxComm + 1)
    BY <1>1, SizeAssumption DEF Ceremony, Generate, TypeInv, TypeOK, Committees
  <2>3. Committee(next) \subseteq Shares
    BY <2>2, CommitteeShares
  <2>4. Stays(t) /\ GoesOn(t)
    BY <1>1, <2>1, <2>2, <2>3 DEF Ceremony, Generate, TypeInv, TypeOK, Stays, GoesOn, Op, Mode
  <2> QED
    BY <1>1, <2>1, <2>2, <2>4, OpType DEF Ceremony, Generate, TypeInv, TypeOK, history
<1>2. CASE CeremonyFails(t)
  <2>1. op[t] \in Op
    BY <1>2, AtOp DEF CeremonyFails
  <2> QED
    BY <1>2, <2>1, ReturnType, OpType DEF CeremonyFails, TypeInv, TypeOK, history
<1>3. CASE UploadLands(t)
  <2>1. op[t] \in Op
    BY <1>3, AtOp DEF UploadLands
  <2>2. op[t].new \in Committees
    BY <2>1 DEF Op
  <2>3. [op[t] EXCEPT !.landed = TRUE] \in Op /\ [op[t] EXCEPT !.landed = TRUE].kind = op[t].kind
    <3> HIDE DEF Pc
    <3> QED BY <2>1, Zenon DEF Op
  <2>4. Stays(t) /\ GoesOn(t)
    BY <1>3, <2>1, <2>3 DEF UploadLands, TypeInv, TypeOK, Stays, GoesOn
  <2> QED
    BY <1>3, <2>1, <2>2, <2>4, OpType DEF UploadLands, TypeInv, TypeOK
<1>4. CASE UploadDone(t)
  <2>1. op[t] \in Op
    BY <1>4, AtOp DEF UploadDone
  <2>2. Stays(t) /\ GoesOn(t)
    BY <1>4, <2>1, GotoType, ReturnType DEF UploadDone, AfterUpload, Goto
  <2>3. drift' \in BOOLEAN
    BY <1>4, Zenon DEF UploadDone
  <2> QED
    BY <1>4, <2>1, <2>2, <2>3, OpType DEF UploadDone, TypeInv, TypeOK
<1>5. CASE UploadFails(t)
  <2>1. op[t] \in Op
    BY <1>5, AtOp DEF UploadFails
  <2>2. drift' \in BOOLEAN
    BY <1>5, Zenon DEF UploadFails
  <2> QED
    BY <1>5, <2>1, <2>2, ReturnType, OpType DEF UploadFails, TypeInv, TypeOK
<1> QED
  BY <1>1, <1>2, <1>3, <1>4, <1>5

\* The steps that write the two tables.
LEMMA WriteType ==
    ASSUME TypeInv, NEW t \in Ops,
           \/ InsertWallet(t) \/ DeleteKeys(t) \/ DeleteKey(t) \/ InsertKey(t)
           \/ InsertsDone(t) \/ StampGen(t) \/ SetProtocol(t) \/ DeleteWallet(t)
    PROVE  TypeInv'
<1> USE DEF Pc
<1>1. op[t] \in Op
  BY AtOp DEF InsertWallet, DeleteKeys, DeleteKey, InsertKey, InsertsDone, StampGen,
              SetProtocol, DeleteWallet
<1>2. CASE InsertWallet(t)
  <2>1. Stays(t) /\ GoesOn(t)
    <3>1. CASE op' = [op EXCEPT ![t].pc = "insert", ![t].row = "none"]
      BY <1>1, <3>1 DEF TypeInv, TypeOK, Stays, GoesOn, Op, Mode
    <3>2. CASE Return(t)
      BY <1>1, <3>2, ReturnType
    <3> QED
      BY <1>2, <3>1, <3>2 DEF InsertWallet
  <2>2. wallet' \in Mode
    BY <1>1, <1>2 DEF InsertWallet, TypeInv, TypeOK, Op
  <2> QED
    BY <1>1, <1>2, <2>1, <2>2, OpType DEF InsertWallet, TypeInv, TypeOK, history
<1>3. CASE DeleteKeys(t)
  <2>1. Stays(t) /\ GoesOn(t)
    BY <1>1, <1>3, GotoType DEF DeleteKeys, Goto
  <2>2. deleted' \in BOOLEAN
    BY <1>3, Zenon DEF DeleteKeys
  <2> QED
    BY <1>1, <1>3, <2>1, <2>2, OpType DEF DeleteKeys, TypeInv, TypeOK
<1>4. CASE DeleteKey(t)
  <2>1. Stays(t) /\ GoesOn(t)
    BY <1>1, <1>4, GotoType DEF DeleteKey, Goto
  <2> QED
    BY <1>1, <1>4, <2>1, OpType DEF DeleteKey, TypeInv, TypeOK, history
<1>5. CASE InsertKey(t)
  <2>1. PICK s \in op[t].todo :
           \/ Return(t) /\ UNCHANGED <<keys, drift>>
           \/ /\ keys' = keys \cup {s}
              /\ op' = [op EXCEPT ![t].todo = @ \ {s}]
              /\ drift' = (drift \/ (Is(t, {"restore"}) /\ IsRemote(s) /\ remote # s[1]))
    BY <1>5 DEF InsertKey
  <2>2. Stays(t) /\ GoesOn(t)
    <3>1. CASE Return(t)
      BY <1>1, <3>1, ReturnType
    <3>2. CASE op' = [op EXCEPT ![t].todo = @ \ {s}]
      BY <1>1, <3>2 DEF TypeInv, TypeOK, Stays, GoesOn, Op
    <3> QED
      BY <2>1, <3>1, <3>2
  <2>3. keys' \subseteq Shares
    BY <1>1, <2>1 DEF Op, TypeInv, TypeOK
  <2>4. drift' \in BOOLEAN
    BY <2>1, Zenon DEF TypeInv, TypeOK
  <2> QED
    BY <1>1, <1>5, <2>2, <2>3, <2>4, OpType DEF InsertKey, TypeInv, TypeOK
<1>6. CASE InsertsDone(t)
  <2>1. Stays(t) /\ GoesOn(t)
    BY <1>1, <1>6, GotoType, ReturnType DEF InsertsDone, AfterInserts, Goto
  <2> QED
    BY <1>1, <1>6, <2>1, OpType DEF InsertsDone, TypeInv, TypeOK, history
<1>7. CASE StampGen(t)
  <2>1. Stays(t) /\ GoesOn(t)
    BY <1>1, <1>7, GotoType, ReturnType DEF StampGen, Goto
  <2> QED
    BY <1>1, <1>7, <2>1, OpType DEF StampGen, TypeInv, TypeOK, history
<1>8. CASE SetProtocol(t)
  BY <1>1, <1>8, ReturnType, OpType DEF SetProtocol, TypeInv, TypeOK, history, Mode
<1>9. CASE DeleteWallet(t)
  BY <1>1, <1>9, ReturnType, OpType DEF DeleteWallet, TypeInv, TypeOK, history, Mode
<1> QED
  BY <1>2, <1>3, <1>4, <1>5, <1>6, <1>7, <1>8, <1>9

\* An operation that begins has a well-typed record.
LEMMA BeginType ==
    ASSUME TypeInv, NEW t \in Ops,
           (\E kind \in Offered : Start(t, kind)) \/ Create(t) \/ Import(t)
    PROVE  TypeInv'
<1>1. ASSUME NEW kind \in Offered, Start(t, kind) PROVE TypeInv'
  <2> DEFINE new == [kind |-> kind, pc |-> FirstStep(kind), row |-> "none",
                     seen |-> {}, new |-> 0, todo |-> {}, landed |-> FALSE]
  <2>1. 0 \in Committees
    BY SizeAssumption DEF Committees
  <2>2. new \in Op
    BY <2>1, OfferedAssumption DEF Op, FirstStep, Pc, Mode
  <2>3. op' = [op EXCEPT ![t] = new]
    BY <1>1 DEF Start
  <2>4. op' \in [Ops -> Op \cup {Idle}]
    <3> HIDE DEF new
    <3> QED BY <2>2, <2>3 DEF TypeInv, TypeOK
  <2>5. FileInv'
    <3>1. new.kind = "restore" => file # NoFile
      BY <1>1 DEF Start
    <3> HIDE DEF new
    <3> QED BY <1>1, <2>3, <3>1 DEF Start, TypeInv, TypeOK, FileInv
  <2>6. overlapped' \in BOOLEAN
    BY <1>1, Zenon DEF Start
  <2> QED
    BY <1>1, <2>4, <2>5, <2>6 DEF Start, TypeInv, TypeOK
<1>2. ASSUME NEW kind \in {"create", "import"}, NEW k \in Committees, Born(t, kind, k) PROVE TypeInv'
  <2> DEFINE new == [kind |-> kind, pc |-> IF k = 0 THEN "header" ELSE "upload",
                     row |-> IF k = 0 THEN "mnemonic" ELSE "mpc", seen |-> {},
                     new |-> k, todo |-> Committee(k), landed |-> FALSE]
  <2>1. Committee(k) \subseteq Shares
    BY CommitteeShares
  <2>2. new \in Op
    BY <2>1 DEF Op, Kinds, Pc, Mode
  <2>3. op' = [op EXCEPT ![t] = new] /\ new.kind = kind
    BY <1>2 DEF Born
  <2>4. next' \in 0..(MaxComm + 1)
    BY <1>2, SizeAssumption DEF Born, Committees
  <2> HIDE DEF new
  <2> QED
    BY <1>2, <2>2, <2>3, <2>4 DEF Born, TypeInv, TypeOK, FileInv, history
<1>3. CASE Create(t)
  <2>1. 1 \in Committees
    BY <1>3, SizeAssumption DEF Create, Committees
  <2> QED
    BY <1>2, <1>3, <2>1 DEF Create
<1>4. CASE Import(t)
  <2>1. 0 \in Committees
    BY SizeAssumption DEF Committees
  <2> QED
    BY <1>2, <1>4, <2>1 DEF Import
<1> QED
  BY <1>1, <1>3, <1>4

\* A failed statement and a crash only end operations.
LEMMA FaultType ==
    ASSUME TypeInv, (\E t \in Ops : StatementFails(t)) \/ Crash
    PROVE  TypeInv'
<1>1. ASSUME NEW t \in Ops, StatementFails(t) PROVE TypeInv'
  <2>1. op[t] \in Op
    BY <1>1 DEF StatementFails, TypeInv, TypeOK
  <2>2. drift' \in BOOLEAN
    BY <1>1, Zenon DEF StatementFails
  <2> QED
    BY <1>1, <2>1, <2>2, ReturnType, OpType DEF StatementFails, TypeInv, TypeOK
<1>2. CASE Crash
  <2>1. drift' \in BOOLEAN
    BY <1>2, Zenon DEF Crash
  <2> QED
    BY <1>2, <2>1 DEF Crash, TypeInv, TypeOK, FileInv
<1> QED
  BY <1>1, <1>2

\* TypeInv is inductive.
LEMMA TypeInvariant == Spec => []TypeInv
<1>1. Init => TypeInv
  <2> SUFFICES ASSUME Init PROVE TypeInv
    OBVIOUS
  <2>1. 0 \in Committees /\ 0 \in 0..(MaxComm + 1)
    BY SizeAssumption DEF Committees
  <2>2. overlapped \in BOOLEAN /\ broken \in BOOLEAN /\ deleted \in BOOLEAN /\ drift \in BOOLEAN
    BY Zenon DEF Init
  <2> QED
    BY <2>1, <2>2 DEF Init, TypeInv, TypeOK, FileInv, Mode
<1>2. TypeInv /\ [Next]_vars => TypeInv'
  <2>1. TypeInv /\ UNCHANGED vars => TypeInv'
    BY DEF vars, history, TypeInv, TypeOK, FileInv
  <2> QED
    BY <2>1, ReadType, CeremonyType, WriteType, BeginType, FaultType DEF Next, Advance
<1> QED
  BY <1>1, <1>2, PTL DEF Spec

\* The rows, the server's share, the backups and the operations keep their
\* types, for any number of workers, failed statements and restarts.
THEOREM TypeCorrect == Spec => []TypeOK
<1>1. TypeInv => TypeOK
  BY DEF TypeInv
<1> QED
  BY <1>1, TypeInvariant, PTL

-----------------------------------------------------------------------------
(* The server is given its share before a row of that committee is written. *)

Sent(shares) == \A s \in shares : s[1] # 0 => s[1] \in uploaded

\* What an operation read or is about to write was sent, the committee it is
\* uploading aside; what it takes for sent was.
OpSent(t) ==
    op[t] # Idle =>
        /\ Sent(op[t].seen)
        /\ Sent(op[t].todo) \/ (op[t].pc = "upload" /\ op[t].todo \subseteq Committee(op[t].new))
        /\ op[t].landed => op[t].new \in uploaded
        /\ op[t].pc \in {"wallet", "keys", "ceremony"} => ~op[t].landed

SentInv ==
    /\ Sent(keys)
    /\ file # NoFile => Sent(file.shares)
    /\ \A t \in Ops : OpSent(t)

\* Uploads only add to what was sent: a step of t leaves the others as they were.
LEMMA OthersSent ==
    ASSUME TypeInv, SentInv, NEW t \in Ops, Stays(t), uploaded \subseteq uploaded',
           OpSent(t)', Sent(keys'), file' # NoFile => Sent(file'.shares)
    PROVE  SentInv'
<1>1. ASSUME NEW u \in Ops, u # t PROVE OpSent(u)'
  <2>1. op'[u] = op[u]
    BY <1>1 DEF TypeInv, TypeOK, Stays
  <2> QED
    BY <2>1 DEF SentInv, OpSent, Sent
<1>2. Sent(keys)' /\ (file # NoFile => Sent(file.shares))'
  BY DEF Sent
<1> QED
  BY <1>1, <1>2 DEF SentInv

\* The steps that do not upload.
LEMMA QuietSent ==
    ASSUME TypeInv, SentInv, NEW t \in Ops,
           \/ FetchWallet(t) \/ FetchKeys(t) \/ FetchKey(t) \/ WriteFile(t)
           \/ Ceremony(t) \/ CeremonyFails(t) \/ UploadDone(t) \/ UploadFails(t)
           \/ InsertWallet(t) \/ DeleteKeys(t) \/ DeleteKey(t) \/ InsertKey(t)
           \/ InsertsDone(t) \/ StampGen(t) \/ SetProtocol(t) \/ DeleteWallet(t)
    PROVE  SentInv'
<1>1. op[t] \in Op
  BY AtOp DEF FetchWallet, FetchKeys, FetchKey, WriteFile, Ceremony, Generate, CeremonyFails,
              UploadDone, UploadFails, InsertWallet, DeleteKeys, DeleteKey, InsertKey,
              InsertsDone, StampGen, SetProtocol, DeleteWallet
<1>2. op[t] # Idle /\ OpSent(t)
  BY <1>1, NullAssumption DEF SentInv
<1>3. UNCHANGED uploaded
  BY DEF FetchWallet, FetchKeys, FetchKey, WriteFile, Ceremony, Generate, CeremonyFails,
         UploadDone, UploadFails, InsertWallet, DeleteKeys, DeleteKey, InsertKey,
         InsertsDone, StampGen, SetProtocol, DeleteWallet, history
<1>4. ASSUME Return(t), keys' \subseteq keys, UNCHANGED file PROVE SentInv'
  <2>1. Stays(t) /\ op'[t] = Idle
    BY <1>1, <1>4, ReturnType
  <2>2. OpSent(t)'
    BY <2>1 DEF OpSent
  <2> QED
    BY <1>3, <1>4, <2>1, <2>2, OthersSent DEF SentInv, Sent
<1>5. ASSUME NEW pc \in Pc \ {"upload", "wallet", "keys", "ceremony"}, op' = [op EXCEPT ![t].pc = pc],
             op[t].pc = "upload" => op[t].landed,
             keys' \subseteq keys, UNCHANGED file
      PROVE  SentInv'
  <2>1. Stays(t) /\ op'[t] = [op[t] EXCEPT !.pc = pc]
    BY <1>1, <1>5, GotoType
  <2>2. Sent(op[t].todo)
    BY <1>2, <1>5, ShareOf DEF OpSent, Sent
  <2>3. OpSent(t)'
    BY <1>1, <1>2, <1>3, <1>5, <2>1, <2>2 DEF OpSent, Sent, Op
  <2> QED
    BY <1>3, <1>5, <2>1, <2>3, OthersSent DEF SentInv, Sent
<1> USE DEF Pc
<1>6. CASE FetchWallet(t)
  <2>1. CASE Return(t)
    BY <1>4, <1>6, <2>1 DEF FetchWallet
  <2>2. CASE op' = [op EXCEPT ![t].pc = "keys", ![t].row = wallet]
    <3>1. Stays(t) /\ OpSent(t)'
      BY <1>1, <1>2, <1>3, <1>6, <2>2 DEF FetchWallet, At, TypeInv, TypeOK, Stays, OpSent, Sent, Op
    <3> QED
      BY <1>3, <1>6, <3>1, OthersSent DEF FetchWallet, SentInv
  <2>3. ASSUME Is(t, {"restore"}),
               op' = [op EXCEPT ![t].pc = "header", ![t].row = file.mode, ![t].todo = file.shares]
        PROVE  SentInv'
    <3>1. Sent(file.shares)
      BY <1>2, <2>3 DEF Is, TypeInv, FileInv, SentInv
    <3>2. Stays(t) /\ OpSent(t)'
      BY <1>1, <1>2, <1>3, <2>3, <3>1 DEF TypeInv, TypeOK, Stays, OpSent, Sent, Op
    <3> QED
      BY <1>3, <1>6, <3>2, OthersSent DEF FetchWallet, SentInv
  <2> QED
    BY <1>6, <2>1, <2>2, <2>3 DEF FetchWallet
<1>7. CASE FetchKeys(t)
  <2>1. UNCHANGED <<keys, file>>
    BY <1>7 DEF FetchKeys
  <2>2. CASE Return(t)
    BY <1>4, <2>1, <2>2
  <2>3. ASSUME NEW pc \in {"ceremony", "write"}, op' = [op EXCEPT ![t].pc = pc, ![t].seen = keys]
        PROVE  SentInv'
    <3>1. Stays(t) /\ OpSent(t)'
      BY <1>1, <1>2, <1>3, <1>7, <2>3 DEF FetchKeys, At, TypeInv, TypeOK, Stays, SentInv, OpSent, Sent, Op
    <3> QED
      BY <1>3, <2>1, <3>1, OthersSent DEF SentInv
  <2>4. CASE op' = [op EXCEPT ![t].pc = "clear", ![t].row = "none"]
    <3>1. Stays(t) /\ OpSent(t)'
      BY <1>1, <1>2, <1>3, <1>7, <2>4 DEF FetchKeys, At, TypeInv, TypeOK, Stays, OpSent, Sent, Op
    <3> QED
      BY <1>3, <2>1, <3>1, OthersSent DEF SentInv
  <2>5. ASSUME NEW s \in keys,
               op' = [op EXCEPT ![t].pc = "upload", ![t].row = "none", ![t].new = s[1]]
        PROVE  SentInv'
    <3>1. Sent(op[t].todo) /\ ~op[t].landed
      BY <1>2, <1>7 DEF FetchKeys, At, OpSent
    <3>2. Stays(t) /\ OpSent(t)'
      BY <1>1, <1>2, <1>3, <2>5, <3>1 DEF TypeInv, TypeOK, Stays, OpSent, Sent, Op
    <3> QED
      BY <1>3, <2>1, <3>2, OthersSent DEF SentInv
  <2> QED
    BY <1>7, <2>2, <2>3, <2>4, <2>5 DEF FetchKeys, AfterKeys
<1>8. CASE FetchKey(t)
  <2>1. CASE Return(t)
    BY <1>4, <1>8, <2>1 DEF FetchKey
  <2>2. ASSUME NEW s \in keys, op' = [op EXCEPT ![t].pc = "clearOne", ![t].todo = {s}]
        PROVE  SentInv'
    <3>1. Stays(t) /\ OpSent(t)'
      BY <1>1, <1>2, <1>3, <2>2 DEF TypeInv, TypeOK, Stays, SentInv, OpSent, Sent, Op
    <3> QED
      BY <1>3, <1>8, <3>1, OthersSent DEF FetchKey, SentInv
  <2> QED
    BY <1>8, <2>1, <2>2 DEF FetchKey
<1>9. CASE WriteFile(t)
  <2>1. Stays(t) /\ op'[t] = Idle
    BY <1>1, <1>9, ReturnType DEF WriteFile
  <2>2. Sent(file'.shares) /\ OpSent(t)'
    BY <1>2, <1>9, <2>1 DEF WriteFile, OpSent
  <2> QED
    BY <1>3, <1>9, <2>1, <2>2, OthersSent DEF WriteFile, SentInv
<1>10. CASE Ceremony(t)
  <2>1. ~op[t].landed
    BY <1>2, <1>10 DEF Ceremony, Generate, At, OpSent
  <2>2. Stays(t) /\ OpSent(t)'
    BY <1>1, <1>10, <2>1 DEF Ceremony, Generate, TypeInv, TypeOK, Stays, OpSent, Sent, Op
  <2> QED
    BY <1>3, <1>10, <2>2, OthersSent DEF Ceremony, Generate, SentInv
<1>11. CASE InsertWallet(t)
  <2>1. CASE Return(t)
    BY <1>4, <1>11, <2>1 DEF InsertWallet
  <2>2. CASE op' = [op EXCEPT ![t].pc = "insert", ![t].row = "none"]
    <3>1. Stays(t) /\ OpSent(t)'
      BY <1>1, <1>2, <1>3, <1>11, <2>2 DEF InsertWallet, At, TypeInv, TypeOK, Stays, OpSent, Sent, Op
    <3> QED
      BY <1>3, <1>11, <3>1, OthersSent DEF InsertWallet, SentInv
  <2> QED
    BY <1>11, <2>1, <2>2 DEF InsertWallet
<1>12. CASE InsertKey(t)
  <2>1. PICK s \in op[t].todo :
           \/ Return(t) /\ UNCHANGED <<keys, drift>>
           \/ /\ keys' = keys \cup {s}
              /\ op' = [op EXCEPT ![t].todo = @ \ {s}]
              /\ drift' = (drift \/ (Is(t, {"restore"}) /\ IsRemote(s) /\ remote # s[1]))
    BY <1>12 DEF InsertKey
  <2>2. CASE Return(t) /\ UNCHANGED keys
    BY <1>4, <1>12, <2>2 DEF InsertKey
  <2>3. CASE keys' = keys \cup {s} /\ op' = [op EXCEPT ![t].todo = @ \ {s}]
    <3>1. Sent(op[t].todo)
      BY <1>2, <1>12 DEF InsertKey, At, OpSent
    <3>2. Stays(t) /\ OpSent(t)'
      BY <1>1, <1>2, <1>3, <2>3, <3>1 DEF TypeInv, TypeOK, Stays, OpSent, Sent, Op
    <3> QED
      BY <1>3, <1>12, <2>3, <3>1, <3>2, OthersSent DEF InsertKey, SentInv, Sent
  <2> QED
    BY <2>1, <2>2, <2>3
<1>13. CASE UploadDone(t)
  BY <1>4, <1>5, <1>13 DEF UploadDone, AfterUpload, Goto
<1>14. CASE CeremonyFails(t) \/ UploadFails(t) \/ SetProtocol(t) \/ DeleteWallet(t)
  BY <1>4, <1>14 DEF CeremonyFails, UploadFails, SetProtocol, DeleteWallet
<1>15. CASE DeleteKeys(t) \/ DeleteKey(t)
  BY <1>5, <1>15 DEF DeleteKeys, DeleteKey, Goto, At
<1>16. CASE InsertsDone(t) \/ StampGen(t)
  BY <1>4, <1>5, <1>16 DEF InsertsDone, StampGen, AfterInserts, Goto, At
<1> QED
  BY <1>6, <1>7, <1>8, <1>9, <1>10, <1>11, <1>12, <1>13, <1>14, <1>15, <1>16

\* The steps that begin an operation, upload, or fail.
LEMMA LoudSent ==
    ASSUME TypeInv, SentInv,
           \/ \E t \in Ops : \/ (\E kind \in Offered : Start(t, kind)) \/ Create(t) \/ Import(t)
                            \/ UploadLands(t) \/ StatementFails(t)
           \/ Crash
    PROVE  SentInv'
<1>1. ASSUME NEW t \in Ops, NEW new, op' = [op EXCEPT ![t] = new], OpSent(t)',
             UNCHANGED <<uploaded, keys, file>>
      PROVE  SentInv'
  <2>1. Stays(t)
    BY <1>1 DEF TypeInv, TypeOK, Stays
  <2> QED
    BY <1>1, <2>1, OthersSent DEF SentInv
<1>2. ASSUME NEW t \in Ops, NEW kind \in Offered, Start(t, kind) PROVE SentInv'
  <2>1. OpSent(t)'
    BY <1>2 DEF Start, TypeInv, TypeOK, OpSent, Sent
  <2> QED
    BY <1>1, <1>2, <2>1 DEF Start
<1>3. ASSUME NEW t \in Ops, NEW kind, NEW k, Born(t, kind, k) PROVE SentInv'
  <2>1. OpSent(t)'
    BY <1>3, ShareOf DEF Born, TypeInv, TypeOK, OpSent, Sent
  <2> QED
    BY <1>1, <1>3, <2>1 DEF Born, history
<1>4. ASSUME NEW t \in Ops, UploadLands(t) PROVE SentInv'
  <2>1. op[t] \in Op /\ op[t].pc = "upload" /\ OpSent(t) /\ op[t] # Idle
    BY <1>4, AtOp, NullAssumption DEF UploadLands, SentInv
  <2>2. Stays(t) /\ uploaded \subseteq uploaded'
    BY <1>4 DEF UploadLands, TypeInv, TypeOK, Stays
  <2>3. op'[t] = [op[t] EXCEPT !.landed = TRUE]
    BY <1>4 DEF UploadLands, TypeInv, TypeOK
  <2>4. op[t].new \in uploaded'
    BY <1>4 DEF UploadLands
  <2>5. OpSent(t)'
    BY <2>1, <2>2, <2>3, <2>4 DEF OpSent, Sent, Op
  <2> QED
    BY <1>4, <2>2, <2>5, OthersSent DEF UploadLands, SentInv
<1>5. ASSUME NEW t \in Ops, StatementFails(t) PROVE SentInv'
  <2>1. OpSent(t)'
    BY <1>5 DEF StatementFails, Return, TypeInv, TypeOK, OpSent
  <2> QED
    BY <1>1, <1>5, <2>1 DEF StatementFails, Return
<1>6. CASE Crash
  BY <1>6 DEF Crash, SentInv, OpSent, Sent
<1> QED
  BY <1>2, <1>3, <1>4, <1>5, <1>6 DEF Create, Import

\* No row is of a committee whose share the server was never given, for any
\* number of overlapping workers, lost replies, failed statements and crashes:
\* the upload comes before the first DELETE (seal_share_full).
THEOREM UploadedFirst == Spec => []RowsWereUploaded
<1>1. Init => SentInv
  BY DEF Init, SentInv, OpSent, Sent
<1>2. TypeInv /\ SentInv /\ [Next]_vars => SentInv'
  <2>1. TypeInv /\ SentInv /\ UNCHANGED vars => SentInv'
    BY DEF vars, history, SentInv, OpSent, Sent
  <2> QED
    BY <2>1, QuietSent, LoudSent DEF Next, Advance
<1>3. SentInv => RowsWereUploaded
  BY DEF SentInv, Sent, RowsWereUploaded
<1> QED
  BY <1>1, <1>2, <1>3, TypeInvariant, PTL DEF Spec

-----------------------------------------------------------------------------
(* The secret survives overlapping operations. *)

\* The operations that insert shares they generated.
Makers   == {"create", "import", "reshare", "promote"}
Maker(t) == op[t] # Idle /\ op[t].kind \in Makers

\* Which operation can be where, and what it carries there.
Phase(t) ==
    op[t] # Idle =>
        /\ op[t].kind = "recrypt" => \A a, b \in op[t].todo : a = b
        /\ op[t].pc \in {"pick", "clearOne"} => op[t].kind = "recrypt"
        /\ op[t].pc = "ceremony" => op[t].kind \in {"reshare", "promote"}
        /\ op[t].pc = "upload" => op[t].kind \in {"create", "reshare", "promote", "repair"}
        /\ op[t].pc = "clear" => op[t].kind \in {"reshare", "promote", "delete"}
        /\ op[t].pc = "header" => op[t].kind \in {"create", "import"}
        /\ op[t].pc = "insert" => op[t].kind \in Makers \cup {"recrypt"}
        /\ op[t].pc # "drop"
        /\ op[t].pc \in {"upload", "clear", "header"} /\ op[t].kind \in Makers
              => op[t].todo = Committee(op[t].new)
        /\ op[t].pc \in {"keys", "write"} => wallet # "none"

\* The shares an operation has yet to insert are of a committee generated before.
Numbered(t) == op[t] # Idle => \A s \in op[t].todo : s[1] < next

\* A share that was generated and not yet inserted is nowhere else.
Owned ==
    \A t \in Ops : Maker(t) =>
        \A s \in op[t].todo :
            /\ s \notin keys
            /\ \A u \in Ops \ {t} : op[u] # Idle => s \notin op[u].todo

\* A whole committee is in the rows or about to be inserted.
Covered ==
    wallet # "none" =>
        \E k \in Committees : \A s \in Committee(k) : s \in keys \/ \E t \in Ops : s \in Pending(t)

Quiet == ~broken /\ ~deleted

CoreInv ==
    /\ \A t \in Ops : Phase(t) /\ Numbered(t)
    /\ \A s \in keys : s[1] < next
    /\ Owned
    /\ file # NoFile => wallet # "none"
    /\ Covered

\* A step of t leaves where the others are, and what they carry.
LEMMA OthersPhase ==
    ASSUME TypeInv, CoreInv, NEW t \in Ops, Stays(t),
           wallet # "none" => wallet' # "none", next' \in {next, next + 1},
           Phase(t)', Numbered(t)'
    PROVE  \A u \in Ops : Phase(u)' /\ Numbered(u)'
<1>1. ASSUME NEW u \in Ops, u # t PROVE Phase(u)' /\ Numbered(u)'
  <2>1. op'[u] = op[u]
    BY <1>1 DEF TypeInv, TypeOK, Stays
  <2>2. Phase(u)'
    BY <2>1 DEF CoreInv, Phase
  <2>3. ASSUME op[u] # Idle, NEW s \in op[u].todo PROVE s[1] < next'
    <3>1. s \in Shares
      BY <2>3 DEF TypeInv, TypeOK, Op
    <3>2. s[1] \in Nat /\ next \in Nat
      BY <3>1, ShareCommittee, SizeAssumption DEF Committees, TypeInv, TypeOK
    <3> QED
      BY <2>3, <3>2 DEF CoreInv, Numbered
  <2> QED
    BY <2>1, <2>2, <2>3 DEF Numbered
<1> QED
  BY <1>1

\* Rows are still of committees generated before.
LEMMA KeysNumbered ==
    ASSUME TypeInv, CoreInv, next' \in {next, next + 1},
           \A s \in keys' : s \in keys \/ s[1] < next
    PROVE  \A s \in keys' : s \in Shares => s[1] < next'
<1>1. ASSUME NEW s \in keys', s \in Shares PROVE s[1] < next'
  <2>1. s[1] \in Nat /\ next \in Nat
    BY <1>1, ShareCommittee, SizeAssumption DEF Committees, TypeInv, TypeOK
  <2> QED
    BY <1>1, <2>1 DEF CoreInv
<1> QED
  BY <1>1

\* A step in which t only gives up shares, to the rows or for good.
LEMMA OwnedShrinks ==
    ASSUME TypeInv, CoreInv, NEW t \in Ops, Stays(t), op[t] # Idle,
           NEW given \in SUBSET op[t].todo,
           keys' \subseteq keys \cup given,
           \/ op'[t] = Idle
           \/ op'[t].kind = op[t].kind /\ op'[t].todo \subseteq op[t].todo \ given
    PROVE  Owned'
<1>1. \A u \in Ops \ {t} : op'[u] = op[u]
  BY DEF TypeInv, TypeOK, Stays
<1>2. Owned
  BY DEF CoreInv
<1>3. ASSUME NEW u \in Ops, Maker(u)', NEW s \in op'[u].todo
      PROVE  s \notin keys' /\ \A v \in Ops \ {u} : op'[v] # Idle => s \notin op'[v].todo
  <2>1. CASE u = t
    <3>1. Maker(t) /\ s \in op[t].todo /\ s \notin given
      BY <1>3, <2>1 DEF Maker
    <3> QED
      BY <1>1, <1>2, <2>1, <3>1 DEF Owned
  <2>2. CASE u # t
    <3>1. Maker(u) /\ s \in op[u].todo
      BY <1>1, <1>3, <2>2 DEF Maker
    <3> QED
      BY <1>1, <1>2, <2>2, <3>1 DEF Owned
  <2> QED
    BY <2>1, <2>2
<1> QED
  BY <1>3 DEF Owned

\* A step in which t carries no other shares and the rows get none.
LEMMA OwnedKept ==
    ASSUME TypeInv, CoreInv, NEW t \in Ops, Stays(t), op[t] # Idle, keys' \subseteq keys,
           op'[t] = Idle \/ (op'[t].kind = op[t].kind /\ op'[t].todo \subseteq op[t].todo)
    PROVE  Owned'
<1>1. {} \in SUBSET op[t].todo /\ keys' \subseteq keys \cup {}
  OBVIOUS
<1>2. op'[t] = Idle \/ (op'[t].kind = op[t].kind /\ op'[t].todo \subseteq op[t].todo \ {})
  OBVIOUS
<1> QED
  BY <1>1, <1>2, OwnedShrinks

\* A step that takes nothing out of the rows and what is about to be inserted.
LEMMA CoveredStays ==
    ASSUME TypeInv, CoreInv, NEW t \in Ops, Stays(t),
           wallet' # "none" => wallet # "none",
           keys \cup Pending(t) \subseteq keys' \cup Pending(t)'
    PROVE  Covered'
<1>1. SUFFICES ASSUME wallet' # "none" PROVE Covered'
  BY DEF Covered
<1>2. PICK k \in Committees : \A s \in Committee(k) : s \in keys \/ \E u \in Ops : s \in Pending(u)
  BY <1>1 DEF CoreInv, Covered
<1>3. \A u \in Ops \ {t} : Pending(u)' = Pending(u)
  BY DEF TypeInv, TypeOK, Stays, Pending
<1>4. \A s \in Committee(k) : s \in keys' \/ \E u \in Ops : s \in Pending(u)'
  BY <1>2, <1>3
<1> QED
  BY <1>4 DEF Covered

\* A step of t that keeps every part of CoreInv keeps CoreInv.
LEMMA CoreStays ==
    ASSUME TypeInv, TypeInv', CoreInv, NEW t \in Ops, Stays(t),
           wallet # "none" => wallet' # "none", next' \in {next, next + 1},
           Phase(t)', Numbered(t)', Owned', Covered',
           \A s \in keys' : s \in keys \/ s[1] < next,
           file' # NoFile => file # NoFile \/ wallet' # "none"
    PROVE  CoreInv'
<1>1. \A u \in Ops : Phase(u)' /\ Numbered(u)'
  BY OthersPhase
<1>2. \A s \in keys' : s \in Shares
  BY DEF TypeInv, TypeOK
<1>3. \A s \in keys' : s[1] < next'
  BY <1>2, KeysNumbered
<1>4. file' # NoFile => wallet' # "none"
  BY DEF CoreInv
<1> QED
  BY <1>1, <1>3, <1>4 DEF CoreInv

\* A step of t that writes nothing, and after which t carries no other shares.
LEMMA CoreMoves ==
    ASSUME TypeInv, TypeInv', CoreInv, NEW t \in Ops, Stays(t), op[t] \in Op,
           UNCHANGED <<wallet, keys, file, next>>,
           Phase(t)', Pending(t) \subseteq keys \cup Pending(t)',
           op'[t] = Idle \/ (op'[t].kind = op[t].kind /\ op'[t].todo \subseteq op[t].todo)
    PROVE  CoreInv'
<1>1. op[t] # Idle
  BY NullAssumption
<1>2. Numbered(t)'
  BY <1>1 DEF CoreInv, Numbered
<1>3. Owned'
  BY <1>1, OwnedKept
<1>4. Covered'
  BY CoveredStays
<1> QED
  BY <1>2, <1>3, <1>4, CoreStays

\* The steps that read and write nothing of the wallet.
LEMMA CoreReads ==
    ASSUME TypeInv, TypeInv', CoreInv, NEW t \in Ops,
           FetchWallet(t) \/ FetchKeys(t) \/ FetchKey(t) \/ WriteFile(t)
    PROVE  CoreInv'
<1>1. op[t] \in Op /\ op[t] # Idle /\ Pending(t) = {}
  BY AtOp, NullAssumption DEF FetchWallet, FetchKeys, FetchKey, WriteFile, At, Pending
<1>2. Phase(t) /\ Numbered(t)
  BY DEF CoreInv
<1>3. ASSUME Return(t), UNCHANGED <<wallet, keys, file, next>> PROVE CoreInv'
  <2>1. Stays(t) /\ op'[t] = Idle
    BY <1>1, <1>3, ReturnType
  <2>2. Phase(t)'
    BY <2>1 DEF Phase
  <2> QED
    BY <1>1, <1>3, <2>1, <2>2, CoreMoves
<1>4. ASSUME NEW pc \in {"keys", "ceremony", "clear", "write"}, NEW row, NEW seen,
             op' = [op EXCEPT ![t].pc = pc, ![t].row = row, ![t].seen = seen],
             pc = "ceremony" => op[t].kind \in {"reshare", "promote"},
             pc = "clear" => op[t].kind = "delete",
             pc \in {"keys", "write"} => wallet # "none",
             UNCHANGED <<wallet, keys, file, next>>
      PROVE  CoreInv'
  <2>1. /\ Stays(t)
        /\ op'[t] = [op[t] EXCEPT !.pc = pc, !.row = row, !.seen = seen]
    BY <1>1, <1>4 DEF TypeInv, TypeOK, Stays
  <2>2. op'[t].kind = op[t].kind /\ op'[t].todo = op[t].todo /\ op'[t].pc = pc
    BY <1>1, <2>1 DEF Op
  <2>3. Phase(t)'
    BY <1>1, <1>2, <1>4, <2>2 DEF Phase, Makers
  <2> QED
    BY <1>1, <1>4, <2>1, <2>2, <2>3, CoreMoves
<1>5. CASE FetchWallet(t)
  <2>1. CASE Return(t)
    BY <1>3, <1>5, <2>1 DEF FetchWallet
  <2>2. CASE wallet # "none"
    <3>1. op' = [op EXCEPT ![t].pc = "keys", ![t].row = wallet]
      BY <1>5, <2>2 DEF FetchWallet
    <3>2. op' = [op EXCEPT ![t].pc = "keys", ![t].row = wallet, ![t].seen = op[t].seen]
      BY <1>1, <3>1 DEF TypeInv, TypeOK, Op
    <3> QED
      BY <1>4, <1>5, <2>2, <3>2 DEF FetchWallet
  <2>3. CASE wallet = "none" /\ Is(t, {"restore"})
    BY <1>1, <2>3 DEF Is, TypeInv, FileInv, CoreInv
  <2> QED
    BY <1>5, <2>1, <2>2, <2>3 DEF FetchWallet
<1>6. CASE FetchKeys(t)
  <2>1. UNCHANGED <<wallet, keys, file, next>> /\ wallet # "none"
    BY <1>1, <1>2, <1>6 DEF FetchKeys, At, Phase
  <2>2. CASE Return(t)
    BY <1>3, <2>1, <2>2
  <2>3. CASE Is(t, {"reshare", "promote"}) /\ op' = [op EXCEPT ![t].pc = "ceremony", ![t].seen = keys]
    <3>1. op' = [op EXCEPT ![t].pc = "ceremony", ![t].row = op[t].row, ![t].seen = keys]
      BY <1>1, <2>3 DEF TypeInv, TypeOK, Op
    <3> QED
      BY <1>4, <2>1, <2>3, <3>1 DEF Is
  <2>4. CASE Is(t, {"delete"}) /\ op' = [op EXCEPT ![t].pc = "clear", ![t].row = "none"]
    <3>1. op' = [op EXCEPT ![t].pc = "clear", ![t].row = "none", ![t].seen = op[t].seen]
      BY <1>1, <2>4 DEF TypeInv, TypeOK, Op
    <3> QED
      BY <1>4, <2>1, <2>4, <3>1 DEF Is
  <2>5. CASE op' = [op EXCEPT ![t].pc = "write", ![t].seen = keys]
    <3>1. op' = [op EXCEPT ![t].pc = "write", ![t].row = op[t].row, ![t].seen = keys]
      BY <1>1, <2>5 DEF TypeInv, TypeOK, Op
    <3> QED
      BY <1>4, <2>1, <3>1
  <2>6. ASSUME Is(t, {"repair"}), NEW s \in keys,
               op' = [op EXCEPT ![t].pc = "upload", ![t].row = "none", ![t].new = s[1]]
        PROVE  CoreInv'
    <3>1. /\ Stays(t)
          /\ op'[t] = [op[t] EXCEPT !.pc = "upload", !.row = "none", !.new = s[1]]
      BY <1>1, <2>6 DEF TypeInv, TypeOK, Stays
    <3>2. op'[t].kind = "repair" /\ op[t].kind = "repair" /\ op'[t].todo = op[t].todo /\ op'[t].pc = "upload"
      BY <1>1, <2>6, <3>1 DEF Op, Is
    <3>3. Phase(t)'
      BY <3>2 DEF Phase, Makers
    <3> QED
      BY <1>1, <2>1, <3>1, <3>2, <3>3, CoreMoves
  <2> QED
    BY <1>6, <2>2, <2>3, <2>4, <2>5, <2>6 DEF FetchKeys, AfterKeys
<1>7. CASE FetchKey(t)
  <2>1. CASE Return(t)
    BY <1>3, <1>7, <2>1 DEF FetchKey
  <2>2. ASSUME NEW s \in keys, op' = [op EXCEPT ![t].pc = "clearOne", ![t].todo = {s}]
        PROVE  CoreInv'
    <3>1. op[t].kind = "recrypt"
      BY <1>1, <1>2, <1>7 DEF FetchKey, At, Phase
    <3>2. Stays(t) /\ op'[t] = [op[t] EXCEPT !.pc = "clearOne", !.todo = {s}]
      BY <1>1, <2>2 DEF TypeInv, TypeOK, Stays
    <3>3. op'[t].kind = "recrypt" /\ op'[t].todo = {s} /\ op'[t].pc = "clearOne"
      BY <1>1, <3>1, <3>2 DEF Op
    <3>4. Phase(t)'
      BY <3>3 DEF Phase, Makers
    <3>5. Numbered(t)'
      BY <1>7, <3>3 DEF FetchKey, CoreInv, Numbered
    <3>6. Owned'
      <4>1. \A u \in Ops \ {t} : op'[u] = op[u]
        BY <3>2 DEF TypeInv, TypeOK, Stays
      <4>2. ASSUME NEW u \in Ops, Maker(u)', NEW r \in op'[u].todo
            PROVE  r \notin keys' /\ \A v \in Ops \ {u} : op'[v] # Idle => r \notin op'[v].todo
        <5>1. u # t /\ Maker(u) /\ r \in op[u].todo
          BY <3>3, <4>1, <4>2 DEF Maker, Makers
        <5>2. r \notin keys /\ r # s
          BY <5>1 DEF CoreInv, Owned
        <5> QED
          BY <1>7, <3>3, <4>1, <5>1, <5>2 DEF FetchKey, CoreInv, Owned
      <4> QED
        BY <4>2 DEF Owned
    <3>7. Covered'
      BY <1>1, <1>7, <3>2, CoveredStays DEF FetchKey
    <3> QED
      BY <1>7, <3>2, <3>4, <3>5, <3>6, <3>7, CoreStays DEF FetchKey
  <2> QED
    BY <1>7, <2>1, <2>2 DEF FetchKey
<1>8. CASE WriteFile(t)
  <2>1. Stays(t) /\ op'[t] = Idle
    BY <1>1, <1>8, ReturnType DEF WriteFile
  <2>2. wallet # "none"
    BY <1>1, <1>2, <1>8 DEF WriteFile, At, Phase
  <2>3. Phase(t)' /\ Numbered(t)'
    BY <2>1 DEF Phase, Numbered
  <2>4. Owned'
    BY <1>1, <1>8, <2>1, OwnedKept DEF WriteFile
  <2>5. Covered'
    BY <1>1, <1>8, <2>1, CoveredStays DEF WriteFile
  <2> QED
    BY <1>8, <2>1, <2>2, <2>3, <2>4, <2>5, CoreStays DEF WriteFile
<1> QED
  BY <1>5, <1>6, <1>7, <1>8

\* The ceremony and the upload.
LEMMA CoreCeremony ==
    ASSUME TypeInv, TypeInv', CoreInv, NEW t \in Ops,
           \/ Ceremony(t) \/ CeremonyFails(t) \/ UploadLands(t) \/ UploadDone(t) \/ UploadFails(t)
    PROVE  CoreInv'
<1>1. op[t] \in Op /\ op[t] # Idle /\ Pending(t) = {}
  BY AtOp, NullAssumption DEF Ceremony, Generate, CeremonyFails, UploadLands, UploadDone,
                              UploadFails, At, Pending
<1>2. Phase(t) /\ Numbered(t)
  BY DEF CoreInv
<1>3. ASSUME Return(t), UNCHANGED <<wallet, keys, file, next>> PROVE CoreInv'
  <2>1. Stays(t) /\ op'[t] = Idle
    BY <1>1, <1>3, ReturnType
  <2>2. Phase(t)'
    BY <2>1 DEF Phase
  <2> QED
    BY <1>1, <1>3, <2>1, <2>2, CoreMoves
<1>4. CASE Ceremony(t)
  <2>1. op[t].kind \in {"reshare", "promote"}
    BY <1>1, <1>2, <1>4 DEF Ceremony, Generate, At, Phase
  <2>2. Stays(t) /\ op'[t] = [op[t] EXCEPT !.pc = "upload", !.row = "none", !.seen = {},
                                          !.new = next, !.todo = Committee(next)]
    BY <1>1, <1>4 DEF Ceremony, Generate, TypeInv, TypeOK, Stays
  <2>3. op'[t].kind = op[t].kind /\ op'[t].todo = Committee(next) /\ op'[t].pc = "upload"
        /\ op'[t].new = next
    BY <1>1, <2>2 DEF Op
  <2>4. Phase(t)'
    BY <2>1, <2>3 DEF Phase, Makers
  <2>5. next' = next + 1 /\ next \in Nat /\ keys' = keys
    BY <1>4, SizeAssumption DEF Ceremony, Generate, TypeInv, TypeOK
  <2>6. Numbered(t)'
    BY <2>3, <2>5, ShareOf DEF Numbered
  <2>7. Owned'
    <3>1. \A u \in Ops \ {t} : op'[u] = op[u]
      BY <2>2 DEF TypeInv, TypeOK, Stays
    <3>2. \A s \in Committee(next) :
             s \notin keys /\ \A u \in Ops : op[u] # Idle => s \notin op[u].todo
      BY <2>5, ShareOf DEF CoreInv, Numbered
    <3>3. ASSUME NEW u \in Ops, Maker(u)', NEW s \in op'[u].todo
          PROVE  s \notin keys' /\ \A v \in Ops \ {u} : op'[v] # Idle => s \notin op'[v].todo
      <4>1. CASE u = t
        BY <2>3, <2>5, <3>1, <3>2, <3>3, <4>1
      <4>2. CASE u # t
        <5>1. Maker(u) /\ s \in op[u].todo /\ op[u] # Idle
          BY <3>1, <3>3, <4>2 DEF Maker
        <5> QED
          BY <2>3, <2>5, <3>1, <3>2, <4>2, <5>1 DEF CoreInv, Owned
      <4> QED
        BY <4>1, <4>2
    <3> QED
      BY <3>3 DEF Owned
  <2>8. Covered'
    BY <1>1, <1>4, <2>2, CoveredStays DEF Ceremony, Generate
  <2> QED
    BY <1>4, <2>2, <2>4, <2>6, <2>7, <2>8, CoreStays DEF Ceremony, Generate
<1>5. CASE UploadLands(t)
  <2>1. op'[t] = [op[t] EXCEPT !.landed = TRUE]
    BY <1>1, <1>5 DEF UploadLands, TypeInv, TypeOK
  <2>2. Stays(t)
    BY <1>5, <2>1 DEF UploadLands, TypeInv, TypeOK, Stays
  <2>3. op'[t].kind = op[t].kind /\ op'[t].todo = op[t].todo /\ op'[t].pc = op[t].pc
        /\ op'[t].new = op[t].new
    BY <1>1, <2>1 DEF Op
  <2>4. Phase(t)'
    BY <1>1, <1>2, <1>5, <2>3 DEF Phase, UploadLands, At
  <2> QED
    BY <1>1, <1>5, <2>2, <2>3, <2>4, CoreMoves DEF UploadLands
<1>6. CASE UploadDone(t)
  <2>1. CASE Return(t)
    BY <1>3, <1>6, <2>1 DEF UploadDone
  <2>2. ASSUME NEW pc \in {"header", "clear"}, op' = [op EXCEPT ![t].pc = pc],
               pc = "header" => op[t].kind = "create",
               pc = "clear" => op[t].kind \in {"reshare", "promote"}
        PROVE  CoreInv'
    <3>1. Stays(t) /\ op'[t] = [op[t] EXCEPT !.pc = pc]
      BY <1>1, <2>2, GotoType DEF Pc
    <3>2. op'[t].kind = op[t].kind /\ op'[t].todo = op[t].todo /\ op'[t].pc = pc
          /\ op'[t].new = op[t].new
      BY <1>1, <3>1 DEF Op
    <3>3. Phase(t)'
      BY <1>1, <1>2, <1>6, <2>2, <3>2 DEF Phase, Makers, UploadDone, At
    <3> QED
      BY <1>1, <1>6, <3>1, <3>2, <3>3, CoreMoves DEF UploadDone
  <2>3. op[t].kind \in {"create", "reshare", "promote", "repair"}
    BY <1>1, <1>2, <1>6 DEF UploadDone, At, Phase
  <2> QED
    BY <1>6, <2>1, <2>2, <2>3 DEF UploadDone, AfterUpload, Goto, Is
<1>7. CASE CeremonyFails(t) \/ UploadFails(t)
  BY <1>3, <1>7 DEF CeremonyFails, UploadFails
<1> QED
  BY <1>4, <1>5, <1>6, <1>7

\* The steps that write the tables, a delete's aside. A committee's rows are
\* deleted by a worker that holds the whole next committee.
LEMMA CoreWrites ==
    ASSUME TypeInv, TypeInv', CoreInv, Quiet', NEW t \in Ops,
           \/ InsertWallet(t) \/ DeleteKeys(t) \/ DeleteKey(t) \/ InsertKey(t)
           \/ InsertsDone(t) \/ StampGen(t) \/ SetProtocol(t) \/ DeleteWallet(t)
    PROVE  CoreInv'
<1>1. op[t] \in Op /\ op[t] # Idle
  BY AtOp, NullAssumption DEF InsertWallet, DeleteKeys, DeleteKey, InsertKey, InsertsDone,
                              StampGen, SetProtocol, DeleteWallet, At
<1>2. Phase(t) /\ Numbered(t)
  BY DEF CoreInv
<1>3. ASSUME Return(t), UNCHANGED <<keys, file, next>>, wallet = "none" <=> wallet' = "none",
             Pending(t) \subseteq keys
      PROVE  CoreInv'
  <2>1. Stays(t) /\ op'[t] = Idle
    BY <1>1, <1>3, ReturnType
  <2>2. Phase(t)' /\ Numbered(t)'
    BY <2>1 DEF Phase, Numbered
  <2>3. Owned'
    BY <1>1, <1>3, <2>1, OwnedKept
  <2>4. Covered'
    BY <1>3, <2>1, CoveredStays
  <2> QED
    BY <1>3, <2>1, <2>2, <2>3, <2>4, CoreStays
<1>4. CASE InsertWallet(t)
  <2>1. At(t, "header") /\ Pending(t) = {}
    BY <1>1, <1>4 DEF InsertWallet, At, Pending
  <2>2. CASE Return(t) /\ UNCHANGED wallet
    BY <1>3, <1>4, <2>1, <2>2 DEF InsertWallet
  <2>3. CASE /\ wallet = "none" /\ wallet' = op[t].row
             /\ op' = [op EXCEPT ![t].pc = "insert", ![t].row = "none"]
    <3>1. Stays(t) /\ op'[t] = [op[t] EXCEPT !.pc = "insert", !.row = "none"]
      BY <1>1, <2>3 DEF TypeInv, TypeOK, Stays
    <3>2. op'[t].kind = op[t].kind /\ op'[t].todo = op[t].todo /\ op'[t].pc = "insert"
      BY <1>1, <3>1 DEF Op
    <3>3. op[t].kind \in {"create", "import"} /\ op[t].todo = Committee(op[t].new)
      BY <1>1, <1>2, <2>1 DEF Phase, At, Makers
    <3>4. Phase(t)' /\ Numbered(t)'
      BY <1>1, <1>2, <1>4, <3>2, <3>3 DEF Phase, Numbered, Makers, InsertWallet
    <3>5. Owned'
      BY <1>1, <1>4, <3>1, <3>2, OwnedKept DEF InsertWallet
    <3>6. Covered'
      <4>1. op[t].new \in Committees
        BY <1>1 DEF Op
      <4>2. op'[t] \in Op
        BY <1>1, <3>1 DEF Op, Pc, Mode
      <4>3. Pending(t)' = Committee(op[t].new)
        BY <3>2, <3>3, <4>2, NullAssumption DEF Pending
      <4> QED
        BY <4>1, <4>3 DEF Covered
    <3> QED
      BY <1>4, <2>3, <3>1, <3>4, <3>5, <3>6, CoreStays DEF InsertWallet
  <2> QED
    BY <1>4, <2>2, <2>3 DEF InsertWallet
<1>5. CASE DeleteKeys(t)
  <2>1. op[t].pc = "clear" /\ op[t].kind \in {"reshare", "promote"}
    BY <1>1, <1>2, <1>5 DEF DeleteKeys, At, Phase, Quiet, Is
  <2>2. op' = [op EXCEPT ![t].pc = "insert"] /\ keys' = {}
    BY <1>5, <2>1 DEF DeleteKeys, Goto, Is
  <2>3. Stays(t) /\ op'[t] = [op[t] EXCEPT !.pc = "insert"]
    BY <1>1, <2>2, GotoType DEF Pc
  <2>4. op'[t].kind = op[t].kind /\ op'[t].todo = op[t].todo /\ op'[t].pc = "insert"
    BY <1>1, <2>3 DEF Op
  <2>5. Phase(t)' /\ Numbered(t)'
    BY <1>1, <1>2, <1>5, <2>1, <2>4 DEF Phase, Numbered, Makers, DeleteKeys
  <2>6. Owned'
    BY <1>1, <2>2, <2>3, <2>4, OwnedKept
  <2>7. Covered'
    <3>1. op[t].new \in Committees /\ op[t].todo = Committee(op[t].new)
      BY <1>1, <1>2, <2>1 DEF Op, Phase, Makers
    <3>2. op'[t] \in Op
      BY <1>1, <2>3 DEF Op, Pc
    <3>3. Pending(t)' = Committee(op[t].new)
      BY <2>4, <3>1, <3>2, NullAssumption DEF Pending
    <3> QED
      BY <3>1, <3>3 DEF Covered
  <2> QED
    BY <1>5, <2>2, <2>3, <2>5, <2>6, <2>7, CoreStays DEF DeleteKeys
<1>6. CASE DeleteKey(t)
  <2>1. op[t].pc = "clearOne" /\ op[t].kind = "recrypt" /\ Pending(t) = {}
    BY <1>1, <1>2, <1>6 DEF DeleteKey, At, Phase, Pending
  <2>2. Stays(t) /\ op'[t] = [op[t] EXCEPT !.pc = "insert"]
    BY <1>1, <1>6, GotoType DEF DeleteKey, Goto, Pc
  <2>3. op'[t].kind = op[t].kind /\ op'[t].todo = op[t].todo /\ op'[t].pc = "insert"
    BY <1>1, <2>2 DEF Op
  <2>4. Phase(t)' /\ Numbered(t)'
    BY <1>1, <1>2, <1>6, <2>1, <2>3 DEF Phase, Numbered, Makers, DeleteKey
  <2>5. Owned'
    BY <1>1, <1>6, <2>2, <2>3, OwnedKept DEF DeleteKey
  <2>6. Covered'
    <3>1. op'[t] \in Op
      BY <1>1, <2>2 DEF Op, Pc
    <3>2. Pending(t)' = op[t].todo
      BY <2>3, <3>1, NullAssumption DEF Pending
    <3>3. keys \cup Pending(t) \subseteq keys' \cup Pending(t)'
      BY <1>6, <2>1, <3>2 DEF DeleteKey
    <3> QED
      BY <1>6, <2>2, <3>3, CoveredStays DEF DeleteKey
  <2> QED
    BY <1>6, <2>2, <2>4, <2>5, <2>6, CoreStays DEF DeleteKey
<1>7. CASE InsertKey(t)
  <2>1. At(t, "insert") /\ Pending(t) = op[t].todo /\ UNCHANGED <<wallet, file, next>>
    BY <1>7 DEF InsertKey, At, Pending
  <2>2. PICK s \in op[t].todo :
           \/ s \in keys /\ Return(t) /\ UNCHANGED <<keys, drift>>
           \/ /\ s \notin keys
              /\ keys' = keys \cup {s}
              /\ op' = [op EXCEPT ![t].todo = @ \ {s}]
              /\ drift' = (drift \/ (Is(t, {"restore"}) /\ IsRemote(s) /\ remote # s[1]))
    BY <1>7 DEF InsertKey
  <2>3. CASE s \in keys /\ Return(t) /\ UNCHANGED keys
    <3>1. op[t].kind = "recrypt"
      BY <1>1, <1>2, <2>1, <2>3 DEF CoreInv, Owned, Maker, Phase, At
    <3>2. \A r \in op[t].todo : r \in keys
      BY <1>1, <1>2, <2>3, <3>1 DEF Phase
    <3> QED
      BY <1>3, <2>1, <2>3, <3>2
  <2>4. CASE keys' = keys \cup {s} /\ op' = [op EXCEPT ![t].todo = @ \ {s}]
    <3>1. Stays(t) /\ op'[t] = [op[t] EXCEPT !.todo = @ \ {s}]
      BY <1>1, <2>4 DEF TypeInv, TypeOK, Stays
    <3>2. op'[t].kind = op[t].kind /\ op'[t].todo = op[t].todo \ {s} /\ op'[t].pc = "insert"
          /\ op[t].pc = "insert"
      BY <1>1, <2>1, <3>1 DEF Op, At
    <3>3. op'[t] # Idle
      <4>1. op'[t] \in Op
        BY <1>1, <3>1 DEF Op
      <4> QED
        BY <4>1, NullAssumption
    <3>4. Phase(t)' /\ Numbered(t)'
      BY <1>1, <1>2, <2>1, <3>2 DEF Phase, Numbered, Makers
    <3>5. Owned'
      <4>1. {s} \in SUBSET op[t].todo /\ keys' \subseteq keys \cup {s}
        BY <2>4
      <4> QED
        BY <1>1, <3>1, <3>2, <4>1, OwnedShrinks
    <3>6. Covered'
      <4>1. Pending(t)' = op[t].todo \ {s}
        BY <3>2, <3>3 DEF Pending
      <4> QED
        BY <2>1, <2>4, <3>1, <4>1, CoveredStays
    <3> QED
      BY <1>1, <1>2, <2>1, <2>4, <3>1, <3>4, <3>5, <3>6, CoreStays DEF Numbered
  <2> QED
    BY <2>2, <2>3, <2>4
<1>8. CASE InsertsDone(t) \/ StampGen(t)
  <2>1. Pending(t) = {} /\ UNCHANGED <<wallet, keys, file, next>>
    BY <1>8 DEF InsertsDone, StampGen, At, Pending
  <2>2. CASE Return(t)
    BY <1>3, <2>1, <2>2
  <2>3. ASSUME NEW pc \in {"stamp", "protocol"}, op' = [op EXCEPT ![t].pc = pc] PROVE CoreInv'
    <3>1. Stays(t) /\ op'[t] = [op[t] EXCEPT !.pc = pc]
      BY <1>1, <2>3, GotoType DEF Pc
    <3>2. op'[t].kind = op[t].kind /\ op'[t].todo = op[t].todo /\ op'[t].pc = pc
      BY <1>1, <3>1 DEF Op
    <3>3. Phase(t)'
      BY <1>1, <1>2, <3>2 DEF Phase
    <3> QED
      BY <1>1, <2>1, <3>1, <3>2, <3>3, CoreMoves
  <2> QED
    BY <1>8, <2>2, <2>3 DEF InsertsDone, StampGen, AfterInserts, Goto
<1>9. CASE SetProtocol(t)
  <2>1. Pending(t) = {}
    BY <1>9 DEF SetProtocol, At, Pending
  <2> QED
    BY <1>3, <1>9, <2>1 DEF SetProtocol
<1>10. CASE DeleteWallet(t)
  BY <1>1, <1>2, <1>10 DEF DeleteWallet, At, Phase
<1> QED
  BY <1>4, <1>5, <1>6, <1>7, <1>8, <1>9, <1>10

\* An operation that begins.
LEMMA CoreBegins ==
    ASSUME TypeInv, TypeInv', CoreInv, NEW t \in Ops,
           (\E kind \in Offered : Start(t, kind)) \/ Create(t) \/ Import(t)
    PROVE  CoreInv'
<1>1. ASSUME NEW kind \in Offered, Start(t, kind) PROVE CoreInv'
  <2> DEFINE new == [kind |-> kind, pc |-> FirstStep(kind), row |-> "none",
                     seen |-> {}, new |-> 0, todo |-> {}, landed |-> FALSE]
  <2>1. op' = [op EXCEPT ![t] = new] /\ op[t] = Idle
    BY <1>1 DEF Start
  <2>2. new.todo = {} /\ new.kind = kind /\ new.kind \notin {"create", "import"}
        /\ new.pc = FirstStep(kind)
    BY OfferedAssumption
  <2> HIDE DEF new
  <2>3. Stays(t) /\ op'[t] = new /\ \A u \in Ops \ {t} : op'[u] = op[u]
    BY <2>1 DEF TypeInv, TypeOK, Stays
  <2>4. Phase(t)' /\ Numbered(t)'
    BY <2>2, <2>3 DEF Phase, Numbered, FirstStep
  <2>5. Owned'
    BY <1>1, <2>2, <2>3 DEF Start, CoreInv, Owned, Maker
  <2>6. Covered'
    BY <1>1, <2>1, <2>3, CoveredStays DEF Start, Pending
  <2> QED
    BY <1>1, <2>3, <2>4, <2>5, <2>6, CoreStays DEF Start
<1>2. ASSUME NEW kind \in {"create", "import"}, NEW k \in Committees, Born(t, kind, k),
             kind = "import" <=> k = 0
      PROVE  CoreInv'
  <2> DEFINE new == [kind |-> kind, pc |-> IF k = 0 THEN "header" ELSE "upload",
                     row |-> IF k = 0 THEN "mnemonic" ELSE "mpc", seen |-> {},
                     new |-> k, todo |-> Committee(k), landed |-> FALSE]
  <2>1. op' = [op EXCEPT ![t] = new] /\ op[t] = Idle /\ next = 0 /\ next' = k + 1
        /\ UNCHANGED <<wallet, keys, file>>
    BY <1>2 DEF Born
  <2>2. new.todo = Committee(k) /\ new.kind = kind /\ new.new = k
        /\ new.pc = IF k = 0 THEN "header" ELSE "upload"
    OBVIOUS
  <2> HIDE DEF new
  <2>3. Stays(t) /\ op'[t] = new /\ \A u \in Ops \ {t} : op'[u] = op[u]
    BY <2>1 DEF TypeInv, TypeOK, Stays
  <2>4. \A s \in Shares : s[1] \in Nat
    BY ShareCommittee, SizeAssumption DEF Committees
  <2>5. keys = {} /\ \A u \in Ops : op[u] # Idle => op[u].todo = {}
    <3>1. \A s \in keys : FALSE
      BY <2>1, <2>4 DEF CoreInv, TypeInv, TypeOK
    <3>2. \A u \in Ops : op[u] # Idle => \A s \in op[u].todo : FALSE
      BY <2>1, <2>4 DEF CoreInv, Numbered, TypeInv, TypeOK, Op
    <3> QED
      BY <3>1, <3>2
  <2>6. wallet = "none"
    <3>1. SUFFICES ASSUME wallet # "none" PROVE FALSE
      OBVIOUS
    <3>2. PICK j \in Committees : \A s \in Committee(j) : s \in keys \/ \E u \in Ops : s \in Pending(u)
      BY <3>1 DEF CoreInv, Covered
    <3>3. \E s \in Committee(j) : TRUE
      <4>1. 1 \in 1..N
        BY SizeAssumption
      <4>2. CASE j = 0
        BY <4>2 DEF Committee
      <4>3. CASE j # 0
        <5>1. <<j, 1>> \in Committee(j)
          BY <4>1, <4>3 DEF Committee
        <5> QED
          BY <5>1
      <4> QED
        BY <4>2, <4>3
    <3> QED
      BY <2>5, <3>2, <3>3 DEF Pending
  <2>7. Phase(t)'
    BY <1>2, <2>2, <2>3 DEF Phase, Makers
  <2>8. k \in Nat
    BY SizeAssumption DEF Committees
  <2>9. Numbered(t)'
    BY <2>1, <2>2, <2>3, <2>8, ShareOf DEF Numbered
  <2>10. Owned'
    <3>1. ASSUME NEW u \in Ops, Maker(u)', NEW s \in op'[u].todo
          PROVE  s \notin keys' /\ \A v \in Ops \ {u} : op'[v] # Idle => s \notin op'[v].todo
      BY <2>1, <2>3, <2>5, <3>1 DEF Maker
    <3> QED
      BY <3>1 DEF Owned
  <2>11. Covered'
    BY <2>1, <2>6 DEF Covered
  <2>12. ASSUME NEW u \in Ops, u # t PROVE Phase(u)' /\ Numbered(u)'
    <3>1. op'[u] = op[u]
      BY <2>3, <2>12
    <3>2. Phase(u)'
      BY <2>1, <3>1 DEF CoreInv, Phase
    <3> QED
      BY <2>5, <3>1, <3>2 DEF Numbered
  <2>13. (\A s \in keys : s[1] < next)' /\ (file # NoFile => wallet # "none")'
    BY <2>1, <2>5 DEF CoreInv
  <2>14. \A u \in Ops : Phase(u)' /\ Numbered(u)'
    BY <2>7, <2>9, <2>12
  <2> QED
    BY <2>10, <2>11, <2>13, <2>14 DEF CoreInv
<1>3. CASE Create(t)
  <2>1. 1 \in Committees
    BY <1>3, SizeAssumption DEF Create, Committees
  <2> QED
    BY <1>2, <1>3, <2>1 DEF Create
<1>4. CASE Import(t)
  <2>1. 0 \in Committees
    BY SizeAssumption DEF Committees
  <2> QED
    BY <1>2, <1>4, <2>1 DEF Import
<1> QED
  BY <1>1, <1>3, <1>4

\* Neither a failed statement, a crash nor a delete is ever taken back.
LEMMA QuietBefore ==
    ASSUME [Next]_vars, Quiet'
    PROVE  Quiet
<1>1. ASSUME NEW t \in Ops,
             \/ FetchWallet(t) \/ FetchKeys(t) \/ FetchKey(t) \/ WriteFile(t) \/ Ceremony(t)
             \/ CeremonyFails(t) \/ InsertWallet(t) \/ DeleteKey(t) \/ InsertsDone(t)
             \/ StampGen(t) \/ SetProtocol(t) \/ DeleteWallet(t)
      PROVE  Quiet
  BY <1>1 DEF Quiet, FetchWallet, FetchKeys, FetchKey, WriteFile, Ceremony, Generate,
         CeremonyFails, InsertWallet, DeleteKey, InsertsDone, StampGen, SetProtocol,
         DeleteWallet, history
<1>2. ASSUME NEW t \in Ops, UploadDone(t) \/ UploadFails(t) \/ DeleteKeys(t) \/ InsertKey(t)
      PROVE  Quiet
  <2>1. CASE UploadDone(t) \/ UploadFails(t) \/ InsertKey(t)
    BY <2>1 DEF Quiet, UploadDone, UploadFails, InsertKey
  <2>2. CASE DeleteKeys(t)
    BY <2>2, Zenon DEF Quiet, DeleteKeys
  <2> QED
    BY <1>2, <2>1, <2>2
<1>3. ASSUME NEW t \in Ops, Advance(t) PROVE Quiet
  BY <1>1, <1>2, <1>3 DEF Advance
<1> QED
  BY <1>3 DEF Quiet, Next, Start, Create, Import, Born, UploadLands, StatementFails, Crash, vars, history

\* Until a crash, a failed statement or a delete, however many operations
\* overlap, a wallet that was written has a whole committee in its rows or in
\* the hands of the workers rewriting them (replace_wallet_keys, recrypt_key).
THEOREM SecretKept == Spec => []SecretSurvives
<1>1. Init => (Quiet => CoreInv)
  BY DEF Init, CoreInv, Phase, Numbered, Owned, Maker, Covered
<1>2. TypeInv /\ TypeInv' /\ (Quiet => CoreInv) /\ [Next]_vars => (Quiet => CoreInv)'
  <2> SUFFICES ASSUME TypeInv, TypeInv', Quiet => CoreInv, [Next]_vars, Quiet' PROVE CoreInv'
    OBVIOUS
  <2>1. CoreInv
    BY QuietBefore
  <2>2. CASE UNCHANGED vars
    BY <2>1, <2>2 DEF vars, history, CoreInv, Phase, Numbered, Owned, Maker, Covered, Pending
  <2>3. ASSUME NEW t \in Ops, Advance(t) \/ UploadLands(t) PROVE CoreInv'
    BY <2>1, <2>3, CoreReads, CoreCeremony, CoreWrites DEF Advance
  <2>4. ASSUME NEW t \in Ops, (\E kind \in Offered : Start(t, kind)) \/ Create(t) \/ Import(t)
        PROVE  CoreInv'
    BY <2>1, <2>4, CoreBegins
  <2>5. ~(\E t \in Ops : StatementFails(t)) /\ ~Crash
    BY DEF StatementFails, Crash, Quiet
  <2> QED
    BY <2>2, <2>3, <2>4, <2>5 DEF Next
<1>3. TypeInv /\ (Quiet => CoreInv) => SecretSurvives
  <2> SUFFICES ASSUME CoreInv, wallet # "none"
               PROVE  \E k \in Committees : Committee(k) \subseteq keys \cup UNION {Pending(t) : t \in Ops}
    BY DEF Quiet, SecretSurvives
  <2>1. PICK k \in Committees : \A s \in Committee(k) : s \in keys \/ \E t \in Ops : s \in Pending(t)
    BY DEF CoreInv, Covered
  <2>2. Committee(k) \subseteq keys \cup UNION {Pending(t) : t \in Ops}
    BY <2>1
  <2> QED
    BY <2>2
<1> QED
  BY <1>1, <1>2, <1>3, TypeInvariant, PTL DEF Spec

-----------------------------------------------------------------------------
(* One operation at a time: whole committees, never mixed, the server in step. *)

InStep == \A s \in keys : IsRemote(s) => remote = s[1]

OneCommittee(shares) == \E k \in Committees : shares \subseteq Committee(k)

\* At most one worker is busy, and none before the wallet's id is generated.
OneOp  == \A t, u \in Ops : op[t] # Idle /\ op[u] # Idle => t = u
Unborn == next = 0 => AtRest /\ wallet = "none" /\ keys = {}

Rows == OneCommittee(keys) /\ (keys # {} => wallet # "none")

FileOK ==
    file # NoFile =>
        /\ file.mode # "none"
        /\ OneCommittee(file.shares)
        /\ ~broken => Fits(file.mode, file.shares)

\* What the Wallet row will say when the operation has ended.
Aim(t) == IF Is(t, {"promote"}) THEN "mpc" ELSE wallet

Renewing == {"create", "reshare", "promote"}

\* Which operation is at which statement, and what it read or is about to write.
Form(t) ==
    /\ op[t].pc \in {"keys", "ceremony", "write"} => op[t].row = wallet /\ wallet # "none"
    /\ op[t].pc \in {"ceremony", "write"} => op[t].seen = keys
    /\ op[t].pc = "ceremony" => Is(t, {"reshare", "promote"})
    /\ op[t].pc \in {"pick", "clearOne"} => Is(t, {"recrypt"})
    /\ op[t].pc = "clearOne" =>
          \E s \in keys : ~IsRemote(s) /\ op[t].todo = {s}
    /\ op[t].pc = "upload" =>
        /\ Is(t, Renewing \cup {"repair"})
        /\ Is(t, Renewing) => op[t].todo \subseteq Committee(op[t].new)
        /\ Is(t, {"create"}) => wallet = "none" /\ op[t].row # "none"
        /\ Is(t, {"reshare", "promote"}) => wallet # "none"
        /\ Is(t, {"repair"}) => keys \subseteq Committee(op[t].new)
    /\ op[t].pc = "header" =>
        /\ Is(t, {"create", "import", "restore"})
        /\ wallet = "none" /\ op[t].row # "none" /\ OneCommittee(op[t].todo)
        /\ Is(t, {"create"}) => op[t].todo \subseteq Committee(op[t].new)
        /\ Is(t, {"import"}) => \A s \in op[t].todo : ~IsRemote(s)
    /\ op[t].pc = "clear" =>
        \/ Is(t, {"delete"})
        \/ /\ Is(t, {"reshare", "promote"})
           /\ wallet # "none" /\ op[t].todo \subseteq Committee(op[t].new)
    /\ op[t].pc = "insert" =>
        /\ Is(t, Renewing \cup {"import", "restore", "recrypt"})
        /\ wallet # "none" /\ OneCommittee(keys \cup op[t].todo)
        /\ Is(t, Renewing) => keys \cup op[t].todo \subseteq Committee(op[t].new)
        /\ Is(t, {"import", "recrypt"}) => \A s \in op[t].todo : ~IsRemote(s)
    /\ op[t].pc \in {"stamp", "protocol"} => wallet # "none" /\ Is(t, {"reshare", "promote"})
    /\ op[t].pc = "protocol" => Is(t, {"promote"})
    /\ op[t].pc = "drop" => Is(t, {"delete"}) /\ keys = {}

\* Until something fails, the rows fit but while they are rewritten; then they
\* fit together with what is left to insert.
Whole(t) ==
    ~broken =>
        /\ op[t].pc \notin {"insert", "stamp", "protocol", "drop"} => Fits(wallet, keys)
        /\ op[t].pc = "insert" => /\ op[t].todo \cap keys = {}
                                  /\ Fits(Aim(t), keys \cup op[t].todo)
        /\ op[t].pc \in {"stamp", "protocol"} => Fits(Aim(t), keys)
        /\ op[t].pc = "header" => Fits(op[t].row, op[t].todo)
        /\ op[t].pc = "upload" /\ Is(t, {"create"}) => Fits(op[t].row, op[t].todo)
        /\ op[t].pc \in {"upload", "clear"} /\ Is(t, {"reshare", "promote"}) =>
              Fits(Aim(t), op[t].todo)

\* The server is in step but between an upload that landed and the rows. What
\* landed is a new committee's share, or the one of the rows.
Pushed(t) ==
    /\ ~drift => InStep \/ (op[t].landed /\ op[t].pc \in {"upload", "clear"})
    /\ op[t].landed => remote = op[t].new /\ Is(t, Renewing \cup {"repair"})
    /\ op[t].pc \in {"wallet", "keys", "ceremony", "write", "pick", "clearOne"} => ~op[t].landed
    /\ op[t].pc \in {"header", "insert"} /\ Is(t, Renewing) => op[t].landed
    /\ op[t].pc = "clear" /\ Is(t, {"reshare", "promote"}) => op[t].landed

Stage(t) == Form(t) /\ Whole(t) /\ Pushed(t)

Calm == (~broken => Fits(wallet, keys)) /\ (~drift => InStep)

Alone ==
    /\ OneOp /\ Unborn
    /\ Rows /\ FileOK
    /\ AtRest => Calm
    /\ \A t \in Ops : op[t] # Idle => Stage(t)

\* A step of the one operation under way.
LEMMA AloneStep ==
    ASSUME TypeInv, Alone, NEW t \in Ops, op[t] \in Op, Stays(t), next' = next \/ next' # 0,
           Rows', FileOK', op'[t] = Idle => Calm', op'[t] # Idle => Stage(t)'
    PROVE  Alone'
<1>1. op[t] # Idle
  BY NullAssumption
<1>2. op'[t] = op'[t] /\ \A u \in Ops : u # t => op'[u] = Idle
  BY <1>1 DEF TypeInv, TypeOK, Stays, Alone, OneOp
<1>3. OneOp'
  BY <1>2 DEF OneOp
<1>4. Unborn'
  BY <1>1 DEF Alone, Unborn, AtRest
<1>5. (AtRest => Calm)'
  BY DEF AtRest
<1>6. ASSUME NEW u \in Ops, op'[u] # Idle PROVE Stage(u)'
  BY <1>2, <1>6
<1> QED
  BY <1>3, <1>4, <1>5, <1>6 DEF Alone

\* What the one operation under way has to go by.
LEMMA AloneFacts ==
    ASSUME TypeInv, Alone, NEW t \in Ops, op[t] \in Op
    PROVE  op[t] # Idle /\ next # 0 /\ Rows /\ FileOK /\ Form(t) /\ Whole(t) /\ Pushed(t)
  BY NullAssumption DEF Alone, Stage, Unborn, AtRest

\* It ends and leaves the tables as they are.
LEMMA AloneReturns ==
    ASSUME TypeInv, Alone, NEW t \in Ops, op[t] \in Op, Return(t),
           op[t].pc \notin {"insert", "stamp", "protocol", "drop"},
           ~op[t].landed \/ drift', UNCHANGED <<wallet, keys, remote, file, next, broken>>,
           drift => drift'
    PROVE  Alone'
<1>1. Stays(t) /\ op'[t] = Idle
  BY ReturnType
<1>2. Rows' /\ FileOK'
  BY AloneFacts DEF Rows, FileOK
<1>3. Calm'
  BY AloneFacts DEF Calm, Whole, Pushed, InStep
<1> QED
  BY <1>1, <1>2, <1>3, AloneStep

\* The fields of a record whose program counter moved.
LEMMA GotoFields ==
    ASSUME TypeInv, NEW t \in Ops, op[t] \in Op, NEW pc \in Pc, op' = [op EXCEPT ![t].pc = pc]
    PROVE  /\ Stays(t)
           /\ op'[t].pc = pc /\ op'[t].kind = op[t].kind /\ op'[t].row = op[t].row
           /\ op'[t].seen = op[t].seen /\ op'[t].new = op[t].new /\ op'[t].todo = op[t].todo
           /\ op'[t].landed = op[t].landed /\ op'[t] # Idle
<1>1. Stays(t) /\ op'[t] = [op[t] EXCEPT !.pc = pc]
  BY GotoType
<1> QED
  BY <1>1, NullAssumption DEF Op

\* The steps that read: the operation takes what it found, and the backup.
LEMMA AloneReads ==
    ASSUME TypeInv, Alone, NEW t \in Ops, FetchWallet(t) \/ FetchKeys(t) \/ FetchKey(t) \/ WriteFile(t)
    PROVE  Alone'
<1>1. op[t] \in Op
  BY AtOp DEF FetchWallet, FetchKeys, FetchKey, WriteFile
<1>2. Rows /\ FileOK /\ Form(t) /\ Whole(t) /\ Pushed(t)
  BY <1>1, AloneFacts
<1>3. UNCHANGED <<wallet, keys, remote, next, broken, drift>>
  BY DEF FetchWallet, FetchKeys, FetchKey, WriteFile, history
<1>4. Rows'
  BY <1>2, <1>3 DEF Rows
<1>5. ASSUME UNCHANGED file PROVE FileOK'
  BY <1>2, <1>3, <1>5 DEF FileOK
<1>6. CASE FetchWallet(t)
  <2>1. op[t].pc = "wallet" /\ UNCHANGED file
    BY <1>6 DEF FetchWallet, At
  <2>2. CASE Return(t)
    BY <1>1, <1>2, <1>3, <2>1, <2>2, AloneReturns DEF Pushed
  <2>3. ASSUME wallet # "none", op' = [op EXCEPT ![t].pc = "keys", ![t].row = wallet]
        PROVE  Alone'
    <3>1. /\ Stays(t) /\ op'[t] \in Op
          /\ op'[t].pc = "keys" /\ op'[t].kind = op[t].kind /\ op'[t].row = wallet
          /\ op'[t].landed = op[t].landed
      BY <1>1, <2>3 DEF TypeInv, TypeOK, Stays, Op, Pc, Mode
    <3>2. Form(t)'
      BY <1>3, <2>3, <3>1 DEF Form, Is
    <3>3. Whole(t)'
      BY <1>2, <1>3, <2>1, <3>1 DEF Whole
    <3>4. Pushed(t)'
      BY <1>2, <1>3, <2>1, <3>1 DEF Pushed, InStep
    <3> QED
      BY <1>1, <1>3, <1>4, <1>5, <2>1, <3>1, <3>2, <3>3, <3>4, AloneStep, NullAssumption DEF Stage
  <2>4. ASSUME wallet = "none", Is(t, {"restore"}),
               op' = [op EXCEPT ![t].pc = "header", ![t].row = file.mode, ![t].todo = file.shares]
        PROVE  Alone'
    <3>1. file # NoFile
      BY <1>1, <2>4, NullAssumption DEF TypeInv, FileInv, Is
    <3>2. /\ Stays(t) /\ op'[t] \in Op
          /\ op'[t].pc = "header" /\ op'[t].kind = "restore" /\ op'[t].row = file.mode
          /\ op'[t].todo = file.shares /\ op'[t].landed = op[t].landed
      BY <1>1, <2>4, <3>1 DEF TypeInv, TypeOK, Stays, Op, Is, Pc, File
    <3>3. Form(t)'
      BY <1>2, <1>3, <2>1, <2>4, <3>1, <3>2 DEF Form, Is, FileOK
    <3>4. Whole(t)'
      BY <1>2, <1>3, <2>1, <3>1, <3>2 DEF Whole, FileOK, Is
    <3>5. Pushed(t)'
      BY <1>2, <1>3, <2>1, <3>2 DEF Pushed, InStep, Is, Renewing
    <3> QED
      BY <1>1, <1>3, <1>4, <1>5, <2>1, <3>2, <3>3, <3>4, <3>5, AloneStep, NullAssumption DEF Stage
  <2> QED
    BY <1>6, <2>2, <2>3, <2>4 DEF FetchWallet
<1>7. CASE FetchKeys(t)
  <2>1. op[t].pc = "keys" /\ UNCHANGED file
    BY <1>7 DEF FetchKeys, At
  <2>2. CASE Return(t)
    BY <1>1, <1>2, <1>3, <2>1, <2>2, AloneReturns DEF Pushed
  <2>3. ASSUME NEW pc \in {"ceremony", "write"}, op' = [op EXCEPT ![t].pc = pc, ![t].seen = keys],
               pc = "ceremony" => Is(t, {"reshare", "promote"})
        PROVE  Alone'
    <3>1. /\ Stays(t) /\ op'[t] \in Op
          /\ op'[t].pc = pc /\ op'[t].kind = op[t].kind /\ op'[t].row = op[t].row
          /\ op'[t].seen = keys /\ op'[t].landed = op[t].landed
      BY <1>1, <2>3 DEF TypeInv, TypeOK, Stays, Op, Pc, Mode
    <3>2. Form(t)'
      BY <1>2, <1>3, <2>1, <2>3, <3>1 DEF Form, Is
    <3>3. Whole(t)'
      BY <1>2, <1>3, <2>1, <2>3, <3>1 DEF Whole
    <3>4. Pushed(t)'
      BY <1>2, <1>3, <2>1, <2>3, <3>1 DEF Pushed, InStep
    <3> QED
      BY <1>1, <1>3, <1>4, <1>5, <2>1, <3>1, <3>2, <3>3, <3>4, AloneStep, NullAssumption DEF Stage
  <2>4. ASSUME Is(t, {"delete"}), op' = [op EXCEPT ![t].pc = "clear", ![t].row = "none"]
        PROVE  Alone'
    <3>1. /\ Stays(t) /\ op'[t] \in Op
          /\ op'[t].pc = "clear" /\ op'[t].kind = "delete" /\ op'[t].landed = op[t].landed
      BY <1>1, <2>4 DEF TypeInv, TypeOK, Stays, Op, Is, Pc, Mode
    <3>2. Form(t)'
      BY <3>1 DEF Form, Is
    <3>3. Whole(t)'
      BY <1>2, <1>3, <2>1, <3>1 DEF Whole, Is
    <3>4. Pushed(t)'
      BY <1>2, <1>3, <2>1, <3>1 DEF Pushed, InStep, Is
    <3> QED
      BY <1>1, <1>3, <1>4, <1>5, <2>1, <3>1, <3>2, <3>3, <3>4, AloneStep, NullAssumption DEF Stage
  <2>5. ASSUME Is(t, {"repair"}), NEW s \in keys,
               op' = [op EXCEPT ![t].pc = "upload", ![t].row = "none", ![t].new = s[1]]
        PROVE  Alone'
    <3>1. s[1] \in Committees
      BY ShareCommittee DEF TypeInv, TypeOK
    <3>2. /\ Stays(t) /\ op'[t] \in Op
          /\ op'[t].pc = "upload" /\ op'[t].kind = "repair" /\ op'[t].new = s[1]
          /\ op'[t].landed = op[t].landed
      BY <1>1, <2>5, <3>1 DEF TypeInv, TypeOK, Stays, Op, Is, Pc, Mode
    <3>3. keys \subseteq Committee(s[1])
      BY <1>2, <2>5, ShareOf DEF Rows, OneCommittee
    <3>4. Form(t)'
      BY <1>3, <3>2, <3>3 DEF Form, Is, Renewing
    <3>5. Whole(t)'
      BY <1>2, <1>3, <2>1, <3>2 DEF Whole, Is
    <3>6. Pushed(t)'
      BY <1>2, <1>3, <2>1, <3>2 DEF Pushed, InStep, Is
    <3> QED
      BY <1>1, <1>3, <1>4, <1>5, <2>1, <3>2, <3>4, <3>5, <3>6, AloneStep, NullAssumption DEF Stage
  <2> QED
    BY <1>7, <2>2, <2>3, <2>4, <2>5 DEF FetchKeys, AfterKeys
<1>8. CASE FetchKey(t)
  <2>1. op[t].pc = "pick" /\ UNCHANGED file
    BY <1>8 DEF FetchKey, At
  <2>2. CASE Return(t)
    BY <1>1, <1>2, <1>3, <2>1, <2>2, AloneReturns DEF Pushed
  <2>3. ASSUME NEW s \in keys, ~IsRemote(s), op' = [op EXCEPT ![t].pc = "clearOne", ![t].todo = {s}]
        PROVE  Alone'
    <3>1. /\ Stays(t) /\ op'[t] \in Op
          /\ op'[t].pc = "clearOne" /\ op'[t].kind = op[t].kind /\ op'[t].todo = {s}
          /\ op'[t].landed = op[t].landed
      BY <1>1, <2>3 DEF TypeInv, TypeOK, Stays, Op, Pc, Mode
    <3>2. Form(t)'
      BY <1>2, <1>3, <2>1, <2>3, <3>1 DEF Form, Is
    <3>3. Whole(t)'
      BY <1>2, <1>3, <2>1, <3>1 DEF Whole
    <3>4. Pushed(t)'
      BY <1>2, <1>3, <2>1, <3>1 DEF Pushed, InStep
    <3> QED
      BY <1>1, <1>3, <1>4, <1>5, <2>1, <3>1, <3>2, <3>3, <3>4, AloneStep, NullAssumption DEF Stage
  <2> QED
    BY <1>8, <2>2, <2>3 DEF FetchKey
<1>9. CASE WriteFile(t)
  <2>1. op[t].pc = "write" /\ Stays(t) /\ op'[t] = Idle
    BY <1>1, <1>9, ReturnType DEF WriteFile, At
  <2>2. op[t].row = wallet /\ wallet # "none" /\ op[t].seen = keys /\ ~op[t].landed
    BY <1>2, <2>1 DEF Form, Pushed
  <2>3. file'.mode = wallet /\ file'.shares = keys
    BY <1>9, <2>2 DEF WriteFile
  <2>4. FileOK'
    BY <1>2, <1>3, <2>1, <2>2, <2>3 DEF FileOK, Rows, Whole
  <2>5. Calm'
    BY <1>2, <1>3, <2>1, <2>2 DEF Calm, Whole, Pushed, InStep
  <2> QED
    BY <1>1, <1>3, <1>4, <2>1, <2>4, <2>5, AloneStep
<1> QED
  BY <1>6, <1>7, <1>8, <1>9

\* The steps around the ceremony and the upload.
LEMMA AloneCeremony ==
    ASSUME TypeInv, Alone, NEW t \in Ops,
           \/ Ceremony(t) \/ CeremonyFails(t) \/ UploadLands(t) \/ UploadDone(t) \/ UploadFails(t)
    PROVE  Alone'
<1>1. op[t] \in Op
  BY AtOp DEF Ceremony, Generate, CeremonyFails, UploadLands, UploadDone, UploadFails
<1>2. next # 0 /\ Rows /\ FileOK /\ Form(t) /\ Whole(t) /\ Pushed(t)
  BY <1>1, AloneFacts
<1>3. UNCHANGED <<wallet, keys, file, broken>>
  BY DEF Ceremony, Generate, CeremonyFails, UploadLands, UploadDone, UploadFails, history
<1>4. Rows' /\ FileOK'
  BY <1>2, <1>3 DEF Rows, FileOK
<1>5. CASE Ceremony(t)
  <2>1. op[t].pc = "ceremony" /\ UNCHANGED <<remote, drift>>
    BY <1>5 DEF Ceremony, Generate, At, history
  <2>2. next \in Committees \ {0} /\ next' # 0
    BY <1>2, <1>5, SizeAssumption DEF Ceremony, Generate, TypeInv, TypeOK, Committees
  <2>3. Committee(next) \subseteq Shares
    BY <2>2, CommitteeShares
  <2>4. /\ Stays(t) /\ op'[t] \in Op
        /\ op'[t].pc = "upload" /\ op'[t].kind = op[t].kind /\ op'[t].new = next
        /\ op'[t].todo = Committee(next) /\ op'[t].landed = op[t].landed
    BY <1>1, <1>5, <2>2, <2>3 DEF Ceremony, Generate, TypeInv, TypeOK, Stays, Op, Pc, Mode
  <2>5. Is(t, {"reshare", "promote"}) /\ wallet # "none" /\ ~op[t].landed
    BY <1>2, <2>1 DEF Form, Pushed
  <2>6. Is(t, {"reshare"}) => wallet = "mpc"
    BY <1>2, <1>5, <2>1 DEF Ceremony, Generate, CanGenerate, Form, Is
  <2>7. Form(t)'
    BY <1>3, <2>4, <2>5 DEF Form, Is, Renewing
  <2>8. Fits("mpc", Committee(next))
    BY <2>2 DEF Fits
  <2>9. Whole(t)'
    BY <1>2, <1>3, <2>1, <2>4, <2>5, <2>6, <2>8 DEF Whole, Aim, Is
  <2>10. Pushed(t)'
    BY <1>2, <1>3, <2>1, <2>4, <2>5 DEF Pushed, InStep
  <2> QED
    BY <1>1, <1>4, <2>2, <2>4, <2>7, <2>9, <2>10, AloneStep, NullAssumption DEF Stage
<1>6. CASE CeremonyFails(t)
  <2>1. op[t].pc = "ceremony" /\ UNCHANGED <<remote, next, drift>>
    BY <1>6 DEF CeremonyFails, At, history
  <2> QED
    BY <1>1, <1>2, <1>3, <1>6, <2>1, AloneReturns DEF CeremonyFails, Pushed
<1>7. CASE UploadLands(t)
  <2>1. op[t].pc = "upload" /\ UNCHANGED <<next, drift>> /\ remote' = op[t].new
    BY <1>7 DEF UploadLands, At
  <2>2. /\ Stays(t) /\ op'[t] = [op[t] EXCEPT !.landed = TRUE]
    BY <1>1, <1>7 DEF UploadLands, TypeInv, TypeOK, Stays
  <2>3. [op[t] EXCEPT !.landed = TRUE] \in Op
    BY <1>1, Zenon DEF Op
  <2>4. /\ op'[t].pc = "upload" /\ op'[t].kind = op[t].kind /\ op'[t].new = op[t].new
        /\ op'[t].row = op[t].row /\ op'[t].todo = op[t].todo /\ op'[t].landed
    BY <1>1, <2>1, <2>2 DEF Op
  <2>5. Form(t)'
    BY <1>2, <1>3, <2>1, <2>4 DEF Form, Is
  <2>6. Whole(t)'
    BY <1>2, <1>3, <2>1, <2>4 DEF Whole, Aim, Is
  <2>7. Pushed(t)'
    BY <1>2, <2>1, <2>4 DEF Pushed, Form, Is
  <2> QED
    BY <1>1, <1>4, <2>1, <2>2, <2>3, <2>5, <2>6, <2>7, AloneStep, NullAssumption DEF Stage
<1>8. CASE UploadDone(t)
  <2>1. op[t].pc = "upload" /\ UNCHANGED <<remote, next>> /\ op[t].landed
    BY <1>8 DEF UploadDone, At
  <2>2. remote = op[t].new
    BY <1>2, <2>1 DEF Pushed
  <2>3. CASE Is(t, {"repair"})
    <3>1. Stays(t) /\ op'[t] = Idle
      BY <1>1, <1>8, <2>3, ReturnType DEF UploadDone, AfterUpload
    <3>2. InStep'
      BY <1>2, <1>3, <2>1, <2>2, <2>3, ShareOf DEF InStep, Form
    <3>3. Calm'
      BY <1>2, <1>3, <2>1, <3>2 DEF Calm, Whole
    <3> QED
      BY <1>1, <1>4, <2>1, <3>1, <3>3, AloneStep
  <2>4. CASE ~Is(t, {"repair"})
    <3> DEFINE pc == IF Is(t, {"create"}) THEN "header" ELSE "clear"
    <3>1. pc \in Pc /\ op' = [op EXCEPT ![t].pc = pc]
      BY <1>8, <2>4 DEF UploadDone, AfterUpload, Goto, Pc
    <3>2. /\ Stays(t)
          /\ op'[t].pc = pc /\ op'[t].kind = op[t].kind /\ op'[t].row = op[t].row
          /\ op'[t].new = op[t].new /\ op'[t].todo = op[t].todo
          /\ op'[t].landed = op[t].landed /\ op'[t] # Idle
      <4> HIDE DEF pc
      <4> QED BY <1>1, <3>1, GotoFields
    <3>3. drift' = drift
      BY <1>8, <2>4, Zenon DEF UploadDone, TypeInv, TypeOK
    <3>4. Is(t, Renewing) /\ op[t].todo \subseteq Committee(op[t].new)
      BY <1>2, <2>1, <2>4 DEF Form, Is, Renewing
    <3>5. OneCommittee(op[t].todo)
      BY <1>1, <3>4 DEF OneCommittee, Op
    <3>6. Form(t)'
      BY <1>2, <1>3, <2>1, <3>2, <3>4, <3>5 DEF Form, Is, Renewing
    <3>7. Whole(t)'
      BY <1>2, <1>3, <2>1, <3>2, <3>4 DEF Whole, Aim, Is, Renewing
    <3>8. wallet = "none" => InStep
      BY <1>2 DEF Rows, InStep
    <3>9. Pushed(t)'
      BY <1>2, <1>3, <2>1, <3>2, <3>3, <3>4, <3>8 DEF Pushed, Is, Renewing, Form, InStep
    <3> QED
      BY <1>1, <1>4, <2>1, <3>2, <3>6, <3>7, <3>9, AloneStep DEF Stage
  <2> QED
    BY <2>3, <2>4
<1>9. CASE UploadFails(t)
  <2>1. op[t].pc = "upload" /\ UNCHANGED <<remote, next>> /\ Return(t)
        /\ (op[t].landed => drift') /\ (drift => drift')
    BY <1>9 DEF UploadFails, At
  <2> QED
    BY <1>1, <1>3, <2>1, AloneReturns
<1> QED
  BY <1>5, <1>6, <1>7, <1>8, <1>9

\* The steps that write the two tables.
LEMMA AloneWrites ==
    ASSUME TypeInv, Alone, NEW t \in Ops,
           \/ InsertWallet(t) \/ DeleteKeys(t) \/ DeleteKey(t) \/ InsertKey(t)
           \/ InsertsDone(t) \/ StampGen(t) \/ SetProtocol(t) \/ DeleteWallet(t)
    PROVE  Alone'
<1>1. op[t] \in Op
  BY AtOp DEF InsertWallet, DeleteKeys, DeleteKey, InsertKey, InsertsDone, StampGen,
              SetProtocol, DeleteWallet
<1>2. next # 0 /\ Rows /\ FileOK /\ Form(t) /\ Whole(t) /\ Pushed(t)
  BY <1>1, AloneFacts
<1>3. UNCHANGED <<remote, file, next, broken>>
  BY DEF InsertWallet, DeleteKeys, DeleteKey, InsertKey, InsertsDone, StampGen,
         SetProtocol, DeleteWallet, history
<1>4. FileOK'
  BY <1>2, <1>3 DEF FileOK
<1>5. CASE InsertWallet(t)
  <2>1. op[t].pc = "header" /\ UNCHANGED <<keys, drift>>
    BY <1>5 DEF InsertWallet, At, history
  <2>2. wallet = "none" /\ keys = {} /\ op[t].row # "none"
    BY <1>2, <2>1 DEF Form, Rows
  <2>3. wallet' = op[t].row /\ op' = [op EXCEPT ![t].pc = "insert", ![t].row = "none"]
    BY <1>5, <2>2 DEF InsertWallet
  <2>4. /\ Stays(t) /\ op'[t] \in Op
        /\ op'[t].pc = "insert" /\ op'[t].kind = op[t].kind /\ op'[t].new = op[t].new
        /\ op'[t].todo = op[t].todo /\ op'[t].landed = op[t].landed
    BY <1>1, <2>3 DEF TypeInv, TypeOK, Stays, Op, Pc, Mode
  <2>5. Rows'
    BY <1>2, <2>1, <2>2, <2>3 DEF Rows
  <2>6. Form(t)'
    BY <1>2, <2>1, <2>2, <2>3, <2>4 DEF Form, Is, Renewing
  <2>7. Whole(t)'
    BY <1>2, <1>3, <2>1, <2>2, <2>3, <2>4 DEF Whole, Aim, Is, Form
  <2>8. Pushed(t)'
    BY <1>2, <1>3, <2>1, <2>2, <2>4 DEF Pushed, Is, Renewing, InStep
  <2> QED
    BY <1>1, <1>3, <1>4, <2>4, <2>5, <2>6, <2>7, <2>8, AloneStep, NullAssumption DEF Stage
<1>6. CASE DeleteKeys(t)
  <2> DEFINE pc == IF Is(t, {"delete"}) THEN "drop" ELSE "insert"
  <2>1. op[t].pc = "clear" /\ UNCHANGED <<wallet, drift>> /\ keys' = {}
    BY <1>6 DEF DeleteKeys, At
  <2>2. pc \in Pc /\ op' = [op EXCEPT ![t].pc = pc]
    BY <1>6 DEF DeleteKeys, Goto, Pc
  <2>3. /\ Stays(t)
        /\ op'[t].pc = pc /\ op'[t].kind = op[t].kind /\ op'[t].new = op[t].new
        /\ op'[t].todo = op[t].todo /\ op'[t].landed = op[t].landed /\ op'[t] # Idle
    <3> HIDE DEF pc
    <3> QED BY <1>1, <2>2, GotoFields
  <2>4. Rows'
    BY <1>2, <2>1 DEF Rows, OneCommittee
  <2>5. pc = "insert" => OneCommittee(op[t].todo)
    BY <1>1, <1>2, <2>1 DEF Form, OneCommittee, Op
  <2>6. keys' \cup op'[t].todo = op[t].todo
    BY <2>1, <2>3
  <2>7. Form(t)'
    BY <1>2, <2>1, <2>3, <2>5, <2>6 DEF Form, Is, Renewing
  <2>8. Whole(t)'
    BY <1>2, <1>3, <2>1, <2>3, <2>6 DEF Whole, Aim, Is, Form
  <2>9. Pushed(t)'
    BY <1>2, <1>3, <2>1, <2>3 DEF Pushed, Is, Renewing, InStep, Form
  <2> QED
    BY <1>1, <1>3, <1>4, <2>3, <2>4, <2>7, <2>8, <2>9, AloneStep DEF Stage
<1>7. CASE DeleteKey(t)
  <2>1. op[t].pc = "clearOne" /\ UNCHANGED <<wallet, drift>> /\ keys' = keys \ op[t].todo
    BY <1>7 DEF DeleteKey, At, history
  <2>2. op' = [op EXCEPT ![t].pc = "insert"]
    BY <1>7 DEF DeleteKey, Goto
  <2>3. /\ Stays(t)
        /\ op'[t].pc = "insert" /\ op'[t].kind = op[t].kind /\ op'[t].new = op[t].new
        /\ op'[t].todo = op[t].todo /\ op'[t].landed = op[t].landed /\ op'[t] # Idle
    BY <1>1, <2>2, GotoFields DEF Pc
  <2>4. PICK s \in keys : ~IsRemote(s) /\ op[t].todo = {s}
    BY <1>2, <2>1 DEF Form
  <2>5. Rows'
    BY <1>2, <2>1 DEF Rows, OneCommittee
  <2>6. keys' \cup op'[t].todo = keys /\ keys' \cap op'[t].todo = {}
    BY <2>1, <2>3, <2>4
  <2>7. Form(t)'
    BY <1>2, <2>1, <2>3, <2>4, <2>6 DEF Form, Is, Renewing, Rows
  <2>8. Whole(t)'
    BY <1>2, <1>3, <2>1, <2>3, <2>6 DEF Whole, Aim, Is, Form
  <2>9. Pushed(t)'
    BY <1>2, <1>3, <2>1, <2>3 DEF Pushed, Is, Renewing, InStep, Form
  <2> QED
    BY <1>1, <1>3, <1>4, <2>3, <2>5, <2>7, <2>8, <2>9, AloneStep DEF Stage
<1>8. CASE InsertKey(t)
  <2>1. op[t].pc = "insert" /\ UNCHANGED wallet /\ wallet # "none"
    BY <1>2, <1>8 DEF InsertKey, At, Form
  <2>2. PICK s \in op[t].todo :
           \/ s \in keys /\ Return(t) /\ UNCHANGED <<keys, drift>>
           \/ /\ s \notin keys
              /\ keys' = keys \cup {s}
              /\ op' = [op EXCEPT ![t].todo = @ \ {s}]
              /\ drift' = (drift \/ (Is(t, {"restore"}) /\ IsRemote(s) /\ remote # s[1]))
    BY <1>8 DEF InsertKey
  <2>3. CASE s \in keys /\ Return(t) /\ UNCHANGED <<keys, drift>>
    <3>1. Stays(t) /\ op'[t] = Idle
      BY <1>1, <2>3, ReturnType
    <3>2. Rows'
      BY <1>2, <2>1, <2>3 DEF Rows
    <3>3. broken
      BY <1>2, <2>1, <2>3 DEF Whole
    <3>4. Calm'
      BY <1>2, <1>3, <2>1, <2>3, <3>3 DEF Calm, Pushed, InStep
    <3> QED
      BY <1>1, <1>3, <1>4, <3>1, <3>2, <3>4, AloneStep
  <2>4. CASE /\ s \notin keys
             /\ keys' = keys \cup {s}
             /\ op' = [op EXCEPT ![t].todo = @ \ {s}]
             /\ drift' = (drift \/ (Is(t, {"restore"}) /\ IsRemote(s) /\ remote # s[1]))
    <3>1. /\ Stays(t) /\ op'[t] \in Op
          /\ op'[t].pc = "insert" /\ op'[t].kind = op[t].kind /\ op'[t].new = op[t].new
          /\ op'[t].todo = op[t].todo \ {s} /\ op'[t].landed = op[t].landed
      BY <1>1, <2>1, <2>4 DEF TypeInv, TypeOK, Stays, Op
    <3>2. keys' \cup op'[t].todo = keys \cup op[t].todo /\ keys' \subseteq keys \cup op[t].todo
      BY <2>4, <3>1
    <3>3. Rows'
      BY <1>2, <2>1, <3>2 DEF Rows, OneCommittee, Form
    <3>4. Form(t)'
      BY <1>2, <2>1, <3>1, <3>2 DEF Form, Is
    <3>5. op[t].todo \cap keys = {} => op'[t].todo \cap keys' = {}
      BY <2>4, <3>1
    <3>6. Whole(t)'
      BY <1>2, <1>3, <2>1, <3>1, <3>2, <3>5 DEF Whole, Aim, Is
    <3>7. ~drift' => InStep'
      <4>1. SUFFICES ASSUME ~drift', IsRemote(s) PROVE remote = s[1]
        BY <1>2, <1>3, <2>1, <2>4 DEF Pushed, InStep
      <4>2. CASE Is(t, {"restore"})
        BY <2>4, <4>1, <4>2
      <4>3. CASE Is(t, {"import", "recrypt"})
        BY <1>2, <2>1, <4>1, <4>3 DEF Form
      <4>4. CASE Is(t, Renewing)
        BY <1>2, <2>1, <4>4, ShareOf DEF Form, Pushed
      <4> QED
        BY <1>2, <2>1, <4>2, <4>3, <4>4 DEF Form, Is, Renewing
    <3>8. Pushed(t)'
      BY <1>2, <1>3, <2>1, <3>1, <3>7 DEF Pushed, Is
    <3> QED
      BY <1>1, <1>3, <1>4, <3>1, <3>3, <3>4, <3>6, <3>8, AloneStep, NullAssumption DEF Stage
  <2> QED
    BY <2>2, <2>3, <2>4
<1>9. CASE InsertsDone(t)
  <2>1. op[t].pc = "insert" /\ op[t].todo = {} /\ UNCHANGED <<wallet, keys, drift>> /\ wallet # "none"
    BY <1>2, <1>9 DEF InsertsDone, At, history, Form
  <2>2. Rows'
    BY <1>2, <2>1 DEF Rows
  <2>3. keys \cup op[t].todo = keys
    BY <2>1
  <2>4. CASE Is(t, {"reshare", "promote"})
    <3>1. op' = [op EXCEPT ![t].pc = "stamp"]
      BY <1>9, <2>4 DEF InsertsDone, AfterInserts, Goto
    <3>2. /\ Stays(t)
          /\ op'[t].pc = "stamp" /\ op'[t].kind = op[t].kind /\ op'[t].new = op[t].new
          /\ op'[t].landed = op[t].landed /\ op'[t] # Idle
      BY <1>1, <3>1, GotoFields DEF Pc
    <3>3. Form(t)'
      BY <2>1, <2>4, <3>2 DEF Form, Is
    <3>4. Whole(t)'
      BY <1>2, <1>3, <2>1, <2>3, <3>2 DEF Whole, Aim, Is
    <3>5. Pushed(t)'
      BY <1>2, <1>3, <2>1, <3>2 DEF Pushed, InStep, Is
    <3> QED
      BY <1>1, <1>3, <1>4, <2>2, <3>2, <3>3, <3>4, <3>5, AloneStep DEF Stage
  <2>5. CASE ~Is(t, {"reshare", "promote"})
    <3>1. Stays(t) /\ op'[t] = Idle
      BY <1>1, <1>9, <2>5, ReturnType DEF InsertsDone, AfterInserts
    <3>2. Aim(t) = wallet
      BY <2>5 DEF Aim, Is
    <3>3. Calm'
      BY <1>2, <1>3, <2>1, <2>3, <3>2 DEF Calm, Whole, Pushed, InStep
    <3> QED
      BY <1>1, <1>3, <1>4, <2>2, <3>1, <3>3, AloneStep
  <2> QED
    BY <2>4, <2>5
<1>10. CASE StampGen(t)
  <2>1. op[t].pc = "stamp" /\ UNCHANGED <<wallet, keys, drift>> /\ wallet # "none"
        /\ Is(t, {"reshare", "promote"})
    BY <1>2, <1>10 DEF StampGen, At, history, Form
  <2>2. Rows'
    BY <1>2, <2>1 DEF Rows
  <2>3. CASE Is(t, {"promote"})
    <3>1. op' = [op EXCEPT ![t].pc = "protocol"]
      BY <1>10, <2>3 DEF StampGen, Goto
    <3>2. /\ Stays(t)
          /\ op'[t].pc = "protocol" /\ op'[t].kind = op[t].kind /\ op'[t].new = op[t].new
          /\ op'[t].landed = op[t].landed /\ op'[t] # Idle
      BY <1>1, <3>1, GotoFields DEF Pc
    <3>3. Form(t)'
      BY <2>1, <2>3, <3>2 DEF Form, Is
    <3>4. Whole(t)'
      BY <1>2, <1>3, <2>1, <3>2 DEF Whole, Aim, Is
    <3>5. Pushed(t)'
      BY <1>2, <1>3, <2>1, <3>2 DEF Pushed, InStep, Is
    <3> QED
      BY <1>1, <1>3, <1>4, <2>2, <3>2, <3>3, <3>4, <3>5, AloneStep DEF Stage
  <2>4. CASE ~Is(t, {"promote"})
    <3>1. Stays(t) /\ op'[t] = Idle
      BY <1>1, <1>10, <2>4, ReturnType DEF StampGen
    <3>2. Calm'
      BY <1>2, <1>3, <2>1, <2>4 DEF Calm, Whole, Pushed, InStep, Aim
    <3> QED
      BY <1>1, <1>3, <1>4, <2>2, <3>1, <3>2, AloneStep
  <2> QED
    BY <2>3, <2>4
<1>11. CASE SetProtocol(t)
  <2>1. op[t].pc = "protocol" /\ UNCHANGED <<keys, drift>> /\ wallet # "none" /\ wallet' = "mpc"
        /\ Is(t, {"promote"})
    BY <1>2, <1>11 DEF SetProtocol, At, history, Form
  <2>2. Stays(t) /\ op'[t] = Idle
    BY <1>1, <1>11, ReturnType DEF SetProtocol
  <2>3. Rows'
    BY <1>2, <2>1 DEF Rows
  <2>4. Calm'
    BY <1>2, <1>3, <2>1 DEF Calm, Whole, Pushed, InStep, Aim
  <2> QED
    BY <1>1, <1>3, <1>4, <2>2, <2>3, <2>4, AloneStep
<1>12. CASE DeleteWallet(t)
  <2>1. op[t].pc = "drop" /\ UNCHANGED <<keys, drift>> /\ keys = {} /\ wallet' = "none"
    BY <1>2, <1>12 DEF DeleteWallet, At, history, Form
  <2>2. Stays(t) /\ op'[t] = Idle
    BY <1>1, <1>12, ReturnType DEF DeleteWallet
  <2>3. Rows'
    BY <1>2, <2>1 DEF Rows
  <2>4. Calm'
    BY <1>3, <2>1 DEF Calm, Fits, InStep
  <2> QED
    BY <1>1, <1>3, <1>4, <2>2, <2>3, <2>4, AloneStep
<1> QED
  BY <1>5, <1>6, <1>7, <1>8, <1>9, <1>10, <1>11, <1>12

\* An operation that begins finds the tables at rest.
LEMMA AloneBegins ==
    ASSUME TypeInv, Alone, ~overlapped', NEW t \in Ops,
           (\E kind \in Offered : Start(t, kind)) \/ Create(t) \/ Import(t)
    PROVE  Alone'
<1>1. UNCHANGED <<wallet, keys, remote, file, broken, drift>>
  BY DEF Start, Create, Import, Born, history
<1>2. Rows' /\ FileOK'
  BY <1>1 DEF Alone, Rows, FileOK
<1>3. AtRest
  BY DEF Start, Create, Import, Born, AtRest, Alone, Unborn
<1>4. Calm
  BY <1>3 DEF Alone
<1>5. ASSUME NEW new \in Op, op' = [op EXCEPT ![t] = new], next' # 0, Stage(t)' PROVE Alone'
  <2>1. op'[t] # Idle /\ \A u \in Ops : u # t => op'[u] = Idle
    BY <1>3, <1>5, NullAssumption DEF TypeInv, TypeOK, AtRest
  <2>2. OneOp' /\ Unborn' /\ (AtRest => Calm)'
    BY <1>5, <2>1 DEF OneOp, Unborn, AtRest
  <2>3. ASSUME NEW u \in Ops, op'[u] # Idle PROVE Stage(u)'
    BY <1>5, <2>1, <2>3
  <2> QED
    BY <1>2, <2>2, <2>3 DEF Alone
<1>6. ASSUME NEW kind \in Offered, Start(t, kind) PROVE Alone'
  <2> DEFINE new == [kind |-> kind, pc |-> FirstStep(kind), row |-> "none",
                     seen |-> {}, new |-> 0, todo |-> {}, landed |-> FALSE]
  <2>1. 0 \in Committees
    BY SizeAssumption DEF Committees
  <2>2. new \in Op
    BY <2>1, OfferedAssumption DEF Op, FirstStep, Pc, Mode
  <2>3. op' = [op EXCEPT ![t] = new]
    BY <1>6 DEF Start
  <2>4. /\ op'[t].pc = FirstStep(kind) /\ op'[t].kind = kind /\ ~op'[t].landed
    BY <2>3 DEF TypeInv, TypeOK
  <2>5. FirstStep(kind) \in {"wallet", "pick"} /\ (FirstStep(kind) = "pick" => kind = "recrypt")
    BY DEF FirstStep
  <2>6. Form(t)'
    BY <2>4, <2>5 DEF Form, Is
  <2>7. Whole(t)'
    BY <1>1, <1>4, <2>4, <2>5 DEF Whole, Calm
  <2>8. Pushed(t)'
    BY <1>1, <1>4, <2>4, <2>5 DEF Pushed, Calm, InStep
  <2>9. next' # 0
    BY <1>6 DEF Start, Known, TypeInv, TypeOK
  <2> HIDE DEF new
  <2> QED
    BY <1>5, <2>2, <2>3, <2>6, <2>7, <2>8, <2>9 DEF Stage
<1>7. ASSUME NEW kind \in {"create", "import"}, NEW k \in Committees, Born(t, kind, k),
             k = 0 <=> kind = "import"
      PROVE  Alone'
  <2> DEFINE new == [kind |-> kind, pc |-> IF k = 0 THEN "header" ELSE "upload",
                     row |-> IF k = 0 THEN "mnemonic" ELSE "mpc", seen |-> {},
                     new |-> k, todo |-> Committee(k), landed |-> FALSE]
  <2>1. Committee(k) \subseteq Shares
    BY CommitteeShares
  <2>2. new \in Op
    BY <2>1 DEF Op, Kinds, Pc, Mode
  <2>3. op' = [op EXCEPT ![t] = new]
    BY <1>7 DEF Born
  <2>4. op'[t] = new
    BY <2>3 DEF TypeInv, TypeOK
  <2>5. wallet = "none" /\ keys = {}
    BY <1>7 DEF Born, Alone, Unborn
  <2>6. OneCommittee(Committee(k)) /\ Fits(new.row, Committee(k))
    BY DEF OneCommittee, Fits
  <2>7. k = 0 => \A s \in Committee(k) : ~IsRemote(s)
    BY ShareOf DEF IsRemote
  <2>8. Form(t)'
    BY <1>1, <1>7, <2>4, <2>5, <2>6, <2>7 DEF Form, Is, Renewing, OneCommittee
  <2>9. Whole(t)'
    BY <1>1, <1>4, <1>7, <2>4, <2>6 DEF Whole, Calm, Is
  <2>10. Pushed(t)'
    BY <1>1, <1>4, <1>7, <2>4 DEF Pushed, Calm, InStep, Is, Renewing
  <2>11. next' # 0
    BY <1>7, SizeAssumption DEF Born, Committees
  <2> HIDE DEF new
  <2> QED
    BY <1>5, <2>2, <2>3, <2>8, <2>9, <2>10, <2>11 DEF Stage
<1>8. CASE Create(t)
  BY <1>7, <1>8, SizeAssumption DEF Create, Committees
<1>9. CASE Import(t)
  BY <1>7, <1>9, SizeAssumption DEF Import, Committees
<1> QED
  BY <1>6, <1>8, <1>9

\* A failed statement or a crash ends the operation where it stands: the rows
\* may be half-written, never mixed.
LEMMA AloneFaults ==
    ASSUME TypeInv, Alone, (\E t \in Ops : StatementFails(t)) \/ Crash
    PROVE  Alone'
<1>1. UNCHANGED <<wallet, keys, remote, file, next>> /\ broken'
  BY DEF StatementFails, Crash
<1>2. PICK t \in Ops : op[t] # Idle
  BY DEF StatementFails, Crash
<1>3. op[t] \in Op /\ \A u \in Ops : u # t => op[u] = Idle
  BY <1>2 DEF TypeInv, TypeOK, Alone, OneOp
<1>4. Rows /\ FileOK /\ next # 0 /\ Pushed(t)
  BY <1>3, AloneFacts
<1>5. AtRest'
  BY <1>3, NullAssumption DEF StatementFails, Crash, Return, TypeInv, TypeOK, AtRest
<1>6. drift' = (drift \/ op[t].landed)
  BY <1>2, <1>3 DEF StatementFails, Crash, Ahead
<1>7. Calm'
  BY <1>1, <1>4, <1>6 DEF Calm, Pushed, InStep
<1>8. Rows' /\ FileOK' /\ Unborn'
  BY <1>1, <1>4 DEF Rows, FileOK, Unborn
<1> QED
  BY <1>5, <1>7, <1>8 DEF Alone, AtRest, OneOp

AloneInv == ~overlapped => Alone

\* While operations run one at a time, the rows, the backup and the server are
\* as the operation under way, if any, has left them.
LEMMA AloneInvariant == Spec => []AloneInv
<1>1. Init => AloneInv
  BY SizeAssumption DEF Init, AloneInv, Alone, OneOp, Unborn, AtRest, Rows, OneCommittee, FileOK,
         Calm, Fits, InStep, Committees
<1>2. TypeInv /\ AloneInv /\ [Next]_vars => AloneInv'
  <2> SUFFICES ASSUME TypeInv, AloneInv, [Next]_vars, ~overlapped' PROVE Alone'
    BY DEF AloneInv
  <2>1. ASSUME NEW t \in Ops, Advance(t) \/ UploadLands(t) PROVE Alone'
    <3>1. ~overlapped
      BY <2>1 DEF Advance, UploadLands, FetchWallet, FetchKeys, FetchKey, WriteFile, Ceremony,
             Generate, CeremonyFails, UploadDone, UploadFails, InsertWallet, DeleteKeys,
             DeleteKey, InsertKey, InsertsDone, StampGen, SetProtocol, DeleteWallet, history
    <3> QED
      BY <2>1, <3>1, AloneReads, AloneCeremony, AloneWrites DEF AloneInv, Advance
  <2>2. ASSUME NEW t \in Ops, (\E kind \in Offered : Start(t, kind)) \/ Create(t) \/ Import(t)
        PROVE  Alone'
    <3>1. ~overlapped
      BY <2>2 DEF Start, Create, Import, Born, history
    <3> QED
      BY <2>2, <3>1, AloneBegins DEF AloneInv
  <2>3. ASSUME (\E t \in Ops : StatementFails(t)) \/ Crash PROVE Alone'
    <3>1. ~overlapped
      BY <2>3 DEF StatementFails, Crash
    <3> QED
      BY <2>3, <3>1, AloneFaults DEF AloneInv
  <2>4. CASE UNCHANGED vars
    BY <2>4 DEF AloneInv, vars, history, Alone, OneOp, Unborn, AtRest, Rows, OneCommittee, FileOK,
           Calm, InStep, Stage, Form, Whole, Pushed, Aim, Is
  <2> QED
    BY <2>1, <2>2, <2>3, <2>4 DEF Next
<1> QED
  BY <1>1, <1>2, TypeInvariant, PTL DEF Spec

\* Operations that run one at a time and that nothing interrupts leave a whole
\* wallet and whole backups, through any number of reshares, promotions, failed
\* ceremonies and uploads, deletes and restores (replace_wallet_keys, persist).
THEOREM WholeAtRest == Spec => []OneWholeCommittee
<1>1. AloneInv => OneWholeCommittee
  BY DEF AloneInv, OneWholeCommittee, Alone, Calm, FileOK
<1> QED
  BY <1>1, AloneInvariant, PTL

\* One at a time but with crashes and failed statements anywhere: the shares in
\* the table are of one committee, and never without their wallet's row.
THEOREM NeverMixed == Spec => []NeverMixedNorOrphaned
<1>1. AloneInv => NeverMixedNorOrphaned
  BY DEF AloneInv, NeverMixedNorOrphaned, Alone, Rows, OneCommittee
<1> QED
  BY <1>1, AloneInvariant, PTL

\* One at a time, the server holds the share of the wallet's own committee,
\* unless an upload was given up after it landed, an operation died between the
\* upload and the rows or an old backup was restored, and no repair since.
THEOREM ServerInStep == Spec => []RemoteInStep
<1>1. AloneInv => RemoteInStep
  BY DEF AloneInv, RemoteInStep, Alone, Calm, InStep
<1> QED
  BY <1>1, AloneInvariant, PTL
=============================================================================
