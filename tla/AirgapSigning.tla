--------------------------- MODULE AirgapSigning ---------------------------
(***************************************************************************)
(* The air-gapped signer (airgap/*.rs, handlers/airgap.rs): its exported   *)
(* keys are imported as accounts; a request to sign is shown as a QR code  *)
(* and kept in the cache for a day; the signer answers with a signature,   *)
(* a signed PSBT or a signed transaction, often as an animated QR code     *)
(* whose frames the host feeds to a decoder kept in the cache between      *)
(* calls; an accepted answer uses the request up and may be broadcast.     *)
(*                                                                         *)
(* Cache reads and writes are steps: calls run on threads of their own.    *)
(* The transaction of a request is known by the request's id.              *)
(***************************************************************************)
EXTENDS Naturals, Sequences, FiniteSets

CONSTANTS Workers,   \* threads
          Requests,  \* request ids
          Signers,   \* accounts of signers; also their keys
          MaxScans,  \* bound: answers a signer displays
          Nothing    \* no request, account, call or decoder

ASSUME AirgapAssumption == MaxScans \in Nat

VARIABLES
    imported, \* imported[a]: what the database holds of the account
    pending,  \* pending[r]: the unsigned request, or Nothing
    displays, \* answers signers have displayed
    context,  \* the decoder, or Nothing
    work,     \* work[w]: the call a thread runs, or Nothing
    accepted, \* transactions accept returned
    \* History:
    asked     \* asked[r]: the request as it was built, or Nothing

airgapVars == <<imported, pending, displays, context, work, accepted, asked>>

Forms   == {"eth", "sol", "bare", "psbt", "rawtx"}
Chain   == {"ethereum", "solana", "bitcoin"}
Pending == [account : Signers, chain : Chain]
\* An answer is of a request's transaction, or of none; it may carry the request's id;
\* and it is signed by a key, or not by one key.
Answers == [of : Requests \cup {Nothing}, carries : Requests \cup {Nothing}, key : Signers \cup {Nothing},
            form : Forms, via : {"ur", "bbqr", "text"}]
\* An animated code has two frames here, a text has one.
Frames  == [answer : Answers, index : 1..2]

AirgapTypeOK ==
    /\ imported \in [Signers -> {"none", "row", "keyed", "deleted"}]
    /\ pending \in [Requests -> Pending \cup {Nothing}]
    /\ displays \subseteq Answers
    /\ context = Nothing \/ (context.kind \in {"none", "ur", "bbqr", "text"} /\ context.frames \in Seq(Frames))
    /\ DOMAIN work = Workers
    /\ asked \in [Requests -> Pending \cup {Nothing}]

AirgapInit ==
    /\ imported = [a \in Signers |-> "none"]
    /\ pending = [r \in Requests |-> Nothing] /\ asked = pending
    /\ displays = {} /\ accepted = {}
    /\ context = Nothing
    /\ work = [w \in Workers |-> Nothing]

Idle(w)     == work[w] = Nothing
Doing(w, k) == ~Idle(w) /\ work[w].kind = k
Begin(w, j) == work' = [work EXCEPT ![w] = j]
Done(w)     == work' = [work EXCEPT ![w] = Nothing]

requestVars == <<pending, asked, accepted>>

-----------------------------------------------------------------------------
(* Accounts of a signer. *)

\* import: an account row, then its key's origin; the call, and so the import, may end
\* between the two.
ImportRow(w, a) ==
    /\ Idle(w) /\ imported[a] = "none"
    /\ imported' = [imported EXCEPT ![a] = "row"]
    /\ Begin(w, [kind |-> "import", account |-> a])
    /\ UNCHANGED <<displays, context, requestVars>>

ImportKey(w) ==
    /\ Doing(w, "import")
    /\ imported' = [imported EXCEPT ![work[w].account] = IF @ = "deleted" THEN @ ELSE "keyed"]
    /\ Done(w)
    /\ UNCHANGED <<displays, context, requestVars>>

DeleteSigner(a) ==
    /\ imported[a] \in {"row", "keyed"}
    /\ imported' = [imported EXCEPT ![a] = "deleted"]
    /\ UNCHANGED <<displays, work, context, requestVars>>

-----------------------------------------------------------------------------
(* Requests and answers. *)

\* A PSBT of the account's coins names the origin of its key; a transaction that is not
\* Bitcoin's is complete without.
BuildsBitcoin(a)  == imported[a] = "keyed"
BuildsEthereum(a) == imported[a] \in {"row", "keyed"}
BuildsSolana(a)   == imported[a] \in {"row", "keyed"}

\* build_request: the unsigned transaction under a fresh id; then pending_save.
BuildRequest(r, a, c) ==
    /\ asked[r] = Nothing
    /\ CASE c = "bitcoin"  -> BuildsBitcoin(a)
         [] c = "ethereum" -> BuildsEthereum(a)
         [] c = "solana"   -> BuildsSolana(a)
    /\ pending' = [pending EXCEPT ![r] = [account |-> a, chain |-> c]]
    /\ asked' = [asked EXCEPT ![r] = [account |-> a, chain |-> c]]
    /\ UNCHANGED <<imported, displays, work, accepted, context>>

\* PENDING_TTL goes by.
Lapse(r) ==
    /\ pending[r] # Nothing
    /\ pending' = [pending EXCEPT ![r] = Nothing]
    /\ UNCHANGED <<imported, displays, work, asked, accepted, context>>

\* The signer scans a request and displays its answer, signed with the key it holds; a
\* PSBT only when it holds the key the PSBT names. A signature may carry no id.
SignerAnswers(r, k) ==
    /\ asked[r] # Nothing /\ Cardinality(displays) < MaxScans
    /\ \E c \in {Nothing, r}, f \in Forms, v \in {"ur", "bbqr", "text"} :
         LET x == [of |-> r, carries |-> c, key |-> k, form |-> f, via |-> v] IN
         /\ \/ f = "eth" /\ asked[r].chain = "ethereum" /\ v = "ur"
            \/ f = "sol" /\ asked[r].chain = "solana" /\ v = "ur"
            \/ f = "bare" /\ v = "text" /\ c = Nothing
            \/ f = "psbt" /\ c = Nothing /\ asked[r] = [account |-> k, chain |-> "bitcoin"]
            \/ f = "rawtx" /\ v = "bbqr" /\ c = Nothing /\ asked[r] = [account |-> k, chain |-> "bitcoin"]
         /\ x \notin displays
         /\ displays' = displays \cup {x}
    /\ UNCHANGED <<imported, work, context, requestVars>>

-----------------------------------------------------------------------------
(* The decoder. *)

Empty == [kind |-> "none", frames |-> <<>>]
FramesOf(x) == {[answer |-> x, index |-> i] : i \in IF x.via = "text" THEN {1} ELSE 1..2}
Last(fs, i) == fs[CHOOSE n \in DOMAIN fs : fs[n].index = i /\ \A k \in DOMAIN fs : fs[k].index = i => k <= n].answer

\* decode_inner: every fragment of a UR, every part of a BBQr file, the one text.
Complete(ctx) ==
    LET seen == {ctx.frames[n].index : n \in DOMAIN ctx.frames} IN
    IF ctx.kind = "text" THEN seen # {} ELSE seen = 1..2

\* feed: the frame is of the context's kind, and fits the frames kept: a UR's frames
\* carry its checksum, a BBQr part only the file's type, encoding and number of parts.
Fits(ctx, f) ==
    /\ ctx.kind \in {"none", f.answer.via}
    /\ \A n \in DOMAIN ctx.frames :
         LET x == ctx.frames[n].answer IN
         IF x.via = "bbqr" THEN x.form = f.answer.form ELSE x = f.answer

Kept(ctx, f) ==
    [kind   |-> f.answer.via,
     frames |-> IF \E n \in DOMAIN ctx.frames : ctx.frames[n] = f THEN ctx.frames ELSE Append(ctx.frames, f)]

\* payload: the last part received of each index. Parts of two files make a third: what
\* begins it may be the first one's transaction or not, and the signatures behind it are
\* not of one key.
Payloads(ctx) ==
    LET x == Last(ctx.frames, 1) IN
    IF ctx.kind = "text" \/ Last(ctx.frames, 2) = x THEN {x}
    ELSE {[x EXCEPT !.of = o, !.key = Nothing] : o \in {x.of, Nothing}}

DecoderNew ==
    /\ context' = Empty
    /\ UNCHANGED <<imported, displays, work, requestVars>>

\* decoder_delete (which takes any id), or the context's hour goes by.
DecoderDelete ==
    /\ context' = Nothing
    /\ UNCHANGED <<imported, displays, work, requestVars>>

\* decoder_feed: store_load.
FeedLoad(w, f) ==
    /\ Idle(w) /\ context # Nothing
    /\ Begin(w, [kind |-> "feed", ctx |-> context, frame |-> f])
    /\ UNCHANGED <<imported, displays, context, requestVars>>

\* feed and store_save: a frame that does not fit is an error, and nothing is saved.
FeedSave(w) ==
    /\ Doing(w, "feed")
    /\ LET j == work[w]  next == Kept(j.ctx, j.frame) IN
       IF Fits(j.ctx, j.frame)
       THEN context' = next
       ELSE UNCHANGED context
    /\ Done(w)
    /\ UNCHANGED <<imported, displays, requestVars>>

-----------------------------------------------------------------------------
(* Accepting an answer. *)

\* resolve_rid for signatures; the id the host gave for the other forms.
RequestOf(x, given) == IF x.carries # Nothing THEN x.carries ELSE given
Agree(x, given)     == x.carries = Nothing \/ given \in {Nothing, x.carries}

\* accept as it is dispatched: bare bytes are what the request's chain makes them.
Form(x, p) == IF x.form # "bare" THEN x.form
              ELSE CASE p.chain = "ethereum" -> "eth" [] p.chain = "solana" -> "sol" [] OTHER -> "rawtx"

\* accept_eth, accept_sol: the signature is of the request's transaction, by its account's key.
EthMatches(x, r, p) == p.chain = "ethereum" /\ x.of = r /\ x.key = p.account
SolMatches(x, r, p) == p.chain = "solana" /\ x.of = r /\ x.key = p.account

\* accept_psbt: its unsigned transaction is that of the request, if there is one; its
\* signatures are looked at for being there, never verified.
PsbtMatches(x, r, p) == p # Nothing => p.chain = "bitcoin" /\ x.of = r

\* Mutant: a PSBT's unsigned transaction is not compared either.
Matches_AnyPsbt(x, form, r, p) ==
    CASE form = "eth"   -> EthMatches(x, r, p)
      [] form = "sol"   -> SolMatches(x, r, p)
      [] OTHER          -> TRUE

\* accept_signed_raw_tx compares nothing.
Matches(x, form, r, p) ==
    CASE form = "eth"   -> EthMatches(x, r, p)
      [] form = "sol"   -> SolMatches(x, r, p)
      [] form = "psbt"  -> PsbtMatches(x, r, p)
      [] form = "rawtx" -> TRUE

\* submit_signature, up to pending_load. fromDecoder: the payload is the decoder's.
Submit(w, x, given, fromDecoder, broadcast) ==
    LET r == RequestOf(x, given)
        p == IF r = Nothing THEN Nothing ELSE pending[r] IN
    /\ Idle(w) /\ Agree(x, given)
    /\ fromDecoder => context # Nothing /\ Complete(context) /\ x \in Payloads(context)
    /\ ~fromDecoder => x \in displays
    /\ x.form \in {"eth", "sol", "bare"} => p # Nothing
    /\ Begin(w, [kind |-> "accept", answer |-> x, form |-> Form(x, p), rid |-> r, p |-> p,
                 broadcast |-> broadcast, scanned |-> fromDecoder])
    /\ UNCHANGED <<imported, displays, context, requestVars>>

\* The rest of accept: a match is answered for and its request deleted. Signatures are
\* checked under the account's key, so its account must still be there; a PSBT must parse
\* and be final once combined and finalized, which one of mixed parts may be or not.
Accept(w) ==
    /\ Doing(w, "accept")
    /\ LET j == work[w] IN
       \/ /\ Matches(j.answer, j.form, j.rid, j.p)
          /\ j.form \in {"eth", "sol"} => imported[j.p.account] # "deleted"
          /\ pending' = [r \in Requests |-> IF r = j.rid THEN Nothing ELSE pending[r]]
          /\ accepted' = accepted \cup
               {[rid |-> j.rid, account |-> IF j.p = Nothing THEN Nothing ELSE j.p.account,
                 of |-> j.answer.of, key |-> j.answer.key, form |-> j.form]}
          /\ Begin(w, [kind |-> "answer", broadcast |-> j.broadcast, scanned |-> j.scanned])
       \/ /\ \/ ~Matches(j.answer, j.form, j.rid, j.p)
             \/ j.form \in {"eth", "sol"} /\ imported[j.p.account] = "deleted"
             \/ j.form = "psbt" /\ j.answer.key = Nothing
          /\ Done(w) /\ UNCHANGED <<pending, accepted>>
    /\ UNCHANGED <<imported, displays, asked, context>>

\* The broadcast, if asked for: when it fails the call answers with an error only, and
\* neither the request nor the signed transaction is kept. Then the decoder goes.
AnswerSubmit(w) ==
    /\ Doing(w, "answer")
    /\ \/ work[w].scanned /\ context' = Nothing
       \/ (~work[w].scanned \/ work[w].broadcast) /\ UNCHANGED context
    /\ Done(w)
    /\ UNCHANGED <<imported, displays, requestVars>>

\* The process ends, or the database refuses a write.
Dies(w) ==
    /\ ~Idle(w) /\ Done(w)
    /\ UNCHANGED <<imported, displays, context, requestVars>>

-----------------------------------------------------------------------------
AirgapStep(w) ==
    \/ \E a \in Signers : ImportRow(w, a)
    \/ ImportKey(w)
    \/ \E x \in displays : \E f \in FramesOf(x) : FeedLoad(w, f)
    \/ FeedSave(w)
    \/ \E x \in displays, given \in Requests \cup {Nothing}, b \in BOOLEAN : Submit(w, x, given, FALSE, b)
    \/ context # Nothing /\ Complete(context)
       /\ \E x \in Payloads(context), given \in Requests \cup {Nothing}, b \in BOOLEAN : Submit(w, x, given, TRUE, b)
    \/ Accept(w) \/ AnswerSubmit(w) \/ Dies(w)

AirgapNext ==
    \/ \E a \in Signers : DeleteSigner(a)
    \/ \E r \in Requests : Lapse(r) \/ \E a \in Signers, c \in Chain : BuildRequest(r, a, c)
    \/ \E r \in Requests, k \in Signers : SignerAnswers(r, k)
    \/ DecoderNew \/ DecoderDelete
    \/ \E w \in Workers : AirgapStep(w)

AirgapSpec == AirgapInit /\ [][AirgapNext]_airgapVars

-----------------------------------------------------------------------------
(* Properties *)

\* accept answers for an account only with a transaction the account asked for, whatever
\* answer of whatever request was scanned, mixed or named; and when the answer is a
\* signature, the account's key made it. A PSBT's signatures are not verified, and a signed
\* raw transaction is taken as it is.
AcceptedAsAsked ==
    \A x \in accepted : x.account # Nothing /\ x.form # "rawtx" =>
        /\ x.of = x.rid /\ asked[x.rid].account = x.account
        /\ x.form \in {"eth", "sol"} => x.key = x.account

=============================================================================
