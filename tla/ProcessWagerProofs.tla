------------------------- MODULE ProcessWagerProofs -------------------------
(***************************************************************************)
(* Proofs about ProcessWager for every set of processes, wallets, requests   *)
(* and every pool size.                                                      *)
(***************************************************************************)
EXTENDS ProcessWagerProperties, SequenceTheorems, TLAPS

USE RequestsAssumption, WalletsAssumption, MaxIntAssumption, NullAssumption

(***************************************************************************)
(* The shapes of a step.  What an invariant needs to know of the fourteen    *)
(* actions of a process is which of these five it is.                        *)
(***************************************************************************)
\* Only p's own variables change, and it keeps working on the same request.
Own(p) ==
  /\ pc' = [pc EXCEPT ![p] = pc'[p]]
  /\ snap' = [snap EXCEPT ![p] = snap'[p]]
  /\ ref' = [ref EXCEPT ![p] = ref'[p]]
  /\ verdict' = [verdict EXCEPT ![p] = verdict'[p]]
  /\ out' = [out EXCEPT ![p] = out'[p]]
  /\ req' = req

\* What an answer to a request says of the committed rows: it repeats the row it
\* is about, and the errors no retry would change have a reason that lasts.
Repeats(r, o) ==
  /\ o.tx \in DOMAIN txs
  /\ txs[o.tx].req = r
  /\ o.status = txs[o.tx].status /\ o.code = txs[o.tx].code
  /\ txs[o.tx].status = "PROCESSED" => o.balance = txs[o.tx].result
LastingReason(r, error) ==
  /\ error = "IDEMPOTENCY_CONFLICT" => \E i \in DOMAIN txs : txs[i].req.key = r.key
  /\ error = "INVALID_OPENING_KIND" => r.kind = "OPENING"
  /\ error = "OWNER_MISMATCH" => r.wallet \in Wallets /\ Owner[r.wallet] # r.player
Tells(r, o) == (o.error = "none" => Repeats(r, o)) /\ LastingReason(r, o.error)

\* Row i is one that reversal r names and may undo.
RefersTo(r, i) ==
  /\ i \in DOMAIN txs
  /\ txs[i].req.provider = r.provider /\ txs[i].req.ext = r.ref
  /\ txs[i].status = "PROCESSED" /\ txs[i].req.kind \in ReversibleBy(r.kind)

\* No reversal of r's kind has been paid for what r names.
NotReversed(r) ==
  \A i \in DOMAIN txs :
    ~(/\ txs[i].req.provider = r.provider /\ txs[i].req.ref = r.ref
      /\ txs[i].req.kind = r.kind /\ txs[i].status = "PROCESSED")

\* p has found that its reversal may be paid.
Decides(p) ==
  /\ pc[p] = "reversal" /\ ref'[p] = ref[p]
  /\ NotReversed(req[p])
  /\ req[p].kind = "REFUND" => req[p].amount = txs[ref[p]].req.amount

\* p goes on, answers or gives up without writing and takes no new lock or key.
Quiet(p) ==
  /\ Own(p) /\ UNCHANGED db
  /\ pc[p] \in Phases \ {"idle", "answered"}
  /\ pc'[p] \in Phases \ {"idle"}
  /\ pc'[p] \in LockHeld => pc[p] \in LockHeld /\ snap'[p] = snap[p]
  /\ pc'[p] \in Inserted => pc[p] \in Inserted
  /\ snap'[p] \in {snap[p], Null}
  /\ ref'[p] \in 0..Len(txs)
  /\ verdict'[p] \in Verdicts
  /\ pc'[p] = "raced" => \E i \in DOMAIN txs : txs[i].req.key = req[p].key
  /\ pc'[p] = "reversal" \/ verdict'[p] = "move" => ref'[p] \in DOMAIN txs
  /\ pc'[p] = "reversal" => RefersTo(req[p], ref'[p])
  /\ pc'[p] = "settle" /\ verdict'[p] = "move" => Decides(p)
  /\ out'[p] = out[p] \/ pc'[p] = "answered"
  /\ pc'[p] = "answered" =>
       /\ out'[p] \in AnswerRow /\ out'[p].error \notin {"LOST_UPDATE", "CHECK_VIOLATION"}
       /\ Tells(req[p], out'[p])

\* p gets the row lock of its wallet.
Locks(p) ==
  /\ Own(p) /\ UNCHANGED <<db, ref, verdict, out>>
  /\ pc[p] = "lock" /\ pc'[p] = "claim"
  /\ req[p].wallet \in Wallets /\ ~Locked(req[p].wallet)
  /\ WellFormed(req[p].kind, req[p].amount, req[p].ref # NoRef)
  /\ snap'[p] = wallets[req[p].wallet]

\* p inserts its uncommitted row.
Claims(p) ==
  /\ Own(p) /\ UNCHANGED <<db, snap, ref, verdict, out>>
  /\ pc[p] = "claim" /\ pc'[p] = "apply"
  /\ FindByIdempotencyKey(req[p].key) = NoTx
  /\ FindByProviderAndExternalID(req[p].provider, req[p].ext) = NoTx
  /\ ~InsertConflicts(p)

\* The answer that comes with a new row.
AnswersNewRow(o, row) ==
  /\ o.error = "none" /\ o.tx = NextId
  /\ o.status = row.status /\ o.code = row.code
  /\ row.status = "PROCESSED" => o.balance = row.result

\* p commits row, and with it its events.
Commits(p, row) ==
  /\ Own(p)
  /\ pc[p] \in Inserted /\ pc'[p] = "answered"
  /\ snap'[p] = Null /\ ref'[p] = NoTx /\ verdict'[p] = "none"
  /\ out'[p] \in AnswerRow /\ AnswersNewRow(out'[p], row)
  /\ row \in Row /\ row.req = req[p]
  /\ txs' = Append(txs, row)
  /\ outbox' \in Seq(EventRow)
  /\ row.status = "PROCESSED" => row.result = wallets'[req[p].wallet].balance
  /\ row.code = "INSUFFICIENT_BALANCE" => snap[p].balance < req[p].amount

\* A row whose wager moves its wallet.
Moving(row) == row.status = "PROCESSED" /\ row.req.kind # "LOSS"

\* ... leaving the wallet alone.
Records(p) ==
  \E row \in Row : /\ Commits(p, row) /\ ~Moving(row) /\ UNCHANGED <<wallets, ledger>>
                   /\ outbox' = Append(outbox, Event(EventType(row.status), NextId, Null, 0))

\* What a wager does to its wallet; i is the row it reverses.
Effect(r, i, direction, amount) ==
  /\ r.kind = "BET" => direction = "DEBIT" /\ amount = r.amount
  /\ r.kind \in {"WIN", "REFUND"} => direction = "CREDIT" /\ amount = r.amount
  /\ r.kind = "ROLLBACK" =>
       /\ amount = txs[i].req.amount
       /\ direction = IF txs[i].req.kind = "BET" THEN "CREDIT" ELSE "DEBIT"

\* p may move its wallet so: a reversal has been decided.
Settles(p, direction, amount) ==
  /\ req[p].kind # "LOSS"
  /\ req[p].kind \in Reversals => pc[p] = "settle" /\ verdict[p] = "move"
  /\ Effect(req[p], ref[p], direction, amount)

\* ... with one movement of the wallet.
PaysEntry(p, row, entry) ==
  /\ Commits(p, row) /\ Moving(row)
  /\ Settles(p, entry.direction, entry.amount)
  /\ req[p].kind \in Reversals => row.refTx = ref[p]
  /\ entry.tx = NextId
  /\ entry.before = snap[p].balance
  /\ entry.after = Moved(entry.before, entry.direction, entry.amount)
  /\ wallets' = [wallets EXCEPT ![req[p].wallet] =
                   [balance |-> entry.after, version |-> snap[p].version + 1]]
  /\ ledger' = [ledger EXCEPT ![req[p].wallet] = Append(@, entry)]
  /\ outbox' = outbox \o <<Event("Processed", NextId, Null, 0),
                           Event("BalanceChanged", NextId, entry, snap[p].version + 1)>>

Pays(p) == \E row \in Row, entry \in Entry : PaysEntry(p, row, entry)

(***************************************************************************)
(* Every step of a process has one of the shapes.                           *)
(***************************************************************************)
\* An answer without a write is quiet.
LEMMA QuietAnswer ==
  ASSUME TypeOK, NEW p \in Processes, NEW o \in AnswerRow,
         o.error \notin {"LOST_UPDATE", "CHECK_VIOLATION"}, Tells(req[p], o),
         pc[p] \in Phases \ {"idle", "answered"},
         Answer(p, o), UNCHANGED db
  PROVE  Quiet(p)
<1>1. pc' = [pc EXCEPT ![p] = "answered"] /\ pc'[p] = "answered"
  BY DEF Answer, Goto, TypeOK, ProcessTypeOK
<1>2. /\ out' = [out EXCEPT ![p] = o] /\ out'[p] = o
      /\ snap' = [snap EXCEPT ![p] = Null] /\ snap'[p] = Null
      /\ ref' = [ref EXCEPT ![p] = NoTx] /\ ref'[p] = NoTx
      /\ verdict' = [verdict EXCEPT ![p] = "none"] /\ verdict'[p] = "none"
      /\ req' = req
  BY DEF Answer, TypeOK, ProcessTypeOK
<1>3. Own(p)
  BY <1>1, <1>2 DEF Own
<1>4. NoTx \in 0..Len(txs) /\ "none" \in Verdicts
  BY DEF NoTx, Verdicts, TypeOK, DbTypeOK
<1> QED
  BY <1>1, <1>2, <1>3, <1>4 DEF Quiet, Phases, LockHeld, Inserted, InTx

\* An error is a well-typed answer that carries itself.
LEMMA FailureType == \A e \in Errors : Failure(e) \in AnswerRow /\ Failure(e).error = e
  BY DEF Failure, AnswerRow, NoTx

\* Most errors need no lasting reason.
Passing == Errors \ {"LOST_UPDATE", "CHECK_VIOLATION", "IDEMPOTENCY_CONFLICT",
                     "INVALID_OPENING_KIND", "OWNER_MISMATCH"}
LEMMA PassingTells ==
  ASSUME NEW r, NEW e \in Passing
  PROVE  e \in Errors \ {"LOST_UPDATE", "CHECK_VIOLATION"} /\ LastingReason(r, e)
  BY DEF Passing, LastingReason

\* An output built from well-typed parts is a well-typed answer without an error.
LEMMA OutputType ==
  ASSUME NEW tx \in Nat, NEW status \in Statuses, NEW balance \in 0..MaxInt \cup {Null},
         NEW code \in FailureCodes \cup {Null}, NEW replay \in BOOLEAN
  PROVE  /\ Output(tx, status, balance, code, replay) \in AnswerRow
         /\ Output(tx, status, balance, code, replay).error = "none"
  BY DEF Output, AnswerRow

\* Giving up, except on the two defences, is quiet.
LEMMA QuietAbort ==
  ASSUME TypeOK, NEW p \in Processes, NEW e \in Errors \ {"LOST_UPDATE", "CHECK_VIOLATION"},
         LastingReason(req[p], e), pc[p] \in Phases \ {"idle", "answered"},
         Abort(p, e)
  PROVE  Quiet(p)
<1>1. Failure(e) \in AnswerRow /\ Failure(e).error = e /\ e # "none"
  BY FailureType DEF Errors
<1>2. Tells(req[p], Failure(e))
  BY <1>1 DEF Tells
<1> QED  BY <1>1, <1>2, QuietAnswer DEF Abort

\* A lookup returns 0 or the id of a row that matches.
LEMMA FindType ==
  ASSUME TypeOK
  PROVE  /\ \A key : FindByIdempotencyKey(key) # NoTx =>
              /\ FindByIdempotencyKey(key) \in DOMAIN txs
              /\ txs[FindByIdempotencyKey(key)].req.key = key
         /\ \A provider, ext : FindByProviderAndExternalID(provider, ext) # NoTx =>
              /\ FindByProviderAndExternalID(provider, ext) \in DOMAIN txs
              /\ txs[FindByProviderAndExternalID(provider, ext)].req.provider = provider
              /\ txs[FindByProviderAndExternalID(provider, ext)].req.ext = ext
<1>1. \A rows : rows # {} => TheRow(rows) \in rows
  BY DEF TheRow
<1>2. \A rows : TheRow(rows) # NoTx => rows # {}
  BY DEF TheRow
<1>3. ASSUME NEW key, FindByIdempotencyKey(key) # NoTx
      PROVE  /\ FindByIdempotencyKey(key) \in DOMAIN txs
             /\ txs[FindByIdempotencyKey(key)].req.key = key
  <2> DEFINE rows == {i \in DOMAIN txs : txs[i].req.key = key}
  <2>1. FindByIdempotencyKey(key) = TheRow(rows)
    BY DEF FindByIdempotencyKey
  <2> QED  BY <1>1, <1>2, <1>3, <2>1
<1>4. ASSUME NEW provider, NEW ext, FindByProviderAndExternalID(provider, ext) # NoTx
      PROVE  /\ FindByProviderAndExternalID(provider, ext) \in DOMAIN txs
             /\ txs[FindByProviderAndExternalID(provider, ext)].req.provider = provider
             /\ txs[FindByProviderAndExternalID(provider, ext)].req.ext = ext
  <2> DEFINE rows == {i \in DOMAIN txs : txs[i].req.provider = provider /\ txs[i].req.ext = ext}
  <2>1. FindByProviderAndExternalID(provider, ext) = TheRow(rows)
    BY DEF FindByProviderAndExternalID
  <2> QED  BY <1>1, <1>2, <1>4, <2>1
<1> QED  BY <1>3, <1>4

\* A reversal that is not found does not exist.
LEMMA NoReversalFound ==
  ASSUME TypeOK, NEW r, FindProcessedReversal(r.provider, r.ref, r.kind) = NoTx
  PROVE  NotReversed(r)
<1> DEFINE rows == {i \in DOMAIN txs : /\ txs[i].req.provider = r.provider
                                      /\ txs[i].req.ref = r.ref
                                      /\ txs[i].req.kind = r.kind
                                      /\ txs[i].status = "PROCESSED"}
<1>1. TheRow(rows) = NoTx
  BY DEF FindProcessedReversal
<1>2. rows \subseteq 1..Len(txs)
  BY DEF TypeOK, DbTypeOK
<1>3. rows = {}
  <2>1. rows # {} => TheRow(rows) \in rows
    BY DEF TheRow
  <2> QED  BY <1>1, <1>2, <2>1 DEF NoTx
<1> QED  BY <1>3 DEF NotReversed

\* The hash covers every field but the key.
LEMMA HashIdentifies ==
  ASSUME NEW r \in Requests, NEW s \in Requests,
         PayloadHash(r) = PayloadHash(s), r.key = s.key
  PROVE  r = s
<1>1. r \in Request /\ s \in Request
  OBVIOUS
<1> QED  BY <1>1 DEF PayloadHash, Request

\* Answering about the committed row of one's key is quiet, whatever the hashes
\* say.
LEMMA QuietExisting ==
  ASSUME TypeOK, NEW p \in Processes, NEW i \in DOMAIN txs,
         txs[i].req.key = req[p].key,
         pc[p] \in Phases \ {"idle", "answered"},
         HandleExisting(p, i)
  PROVE  Quiet(p)
<1>1. txs[i] \in Row /\ i \in Nat
  BY DEF TypeOK, DbTypeOK
<1> DEFINE o == Output(i, txs[i].status, txs[i].result, txs[i].code, TRUE)
<1>2. /\ txs[i].status \in Statuses /\ txs[i].code \in FailureCodes \cup {Null}
      /\ txs[i].result \in 0..MaxInt \cup {Null}
  BY <1>1 DEF Row
<1>3. /\ o \in AnswerRow /\ o.error = "none" /\ o.tx = i /\ o.status = txs[i].status
      /\ o.balance = txs[i].result /\ o.code = txs[i].code
  <2>1. o \in AnswerRow /\ o.error = "none"
    BY <1>1, <1>2, OutputType
  <2> QED  BY <2>1 DEF Output
<1>4. req[p] \in Requests /\ txs[i].req \in Requests
  BY <1>1 DEF TypeOK, PhaseOK, Row
<1> HIDE DEF o
<1>5. CASE PayloadHash(txs[i].req) = PayloadHash(req[p]) /\ Answer(p, o)
  <2>1. txs[i].req = req[p]
    BY <1>4, <1>5, HashIdentifies
  <2>2. Tells(req[p], o)
    BY <1>3, <2>1 DEF Tells, Repeats, LastingReason
  <2> QED  BY <1>3, <1>5, <2>2, QuietAnswer DEF HandleExisting
<1>6. CASE Answer(p, Failure("IDEMPOTENCY_CONFLICT"))
  <2>1. Abort(p, "IDEMPOTENCY_CONFLICT")
    BY <1>6 DEF Abort, HandleExisting
  <2> QED  BY <2>1, QuietAbort DEF Errors, LastingReason
<1> QED  BY <1>5, <1>6 DEF HandleExisting, o

\* Moving on to another phase without a write is quiet.
LEMMA QuietGoto ==
  ASSUME TypeOK, NEW p \in Processes,
         NEW phase \in Phases \ {"idle", "answered"},
         pc[p] \in Phases \ {"idle", "answered"},
         phase \in LockHeld => pc[p] \in LockHeld,
         phase \in Inserted => pc[p] \in Inserted,
         phase = "raced" => \E i \in DOMAIN txs : txs[i].req.key = req[p].key,
         Goto(p, phase), UNCHANGED <<db, req, snap, out>>,
         ref' = [ref EXCEPT ![p] = ref'[p]],
         verdict' = [verdict EXCEPT ![p] = verdict'[p]],
         ref'[p] \in 0..Len(txs), verdict'[p] \in Verdicts,
         phase = "reversal" \/ verdict'[p] = "move" => ref'[p] \in DOMAIN txs,
         phase = "reversal" => RefersTo(req[p], ref'[p]),
         phase = "settle" /\ verdict'[p] = "move" => Decides(p)
  PROVE  Quiet(p)
<1>1. pc' = [pc EXCEPT ![p] = phase] /\ pc'[p] = phase
  BY DEF Goto, TypeOK, ProcessTypeOK
<1>2. Own(p)
  BY <1>1 DEF Own, TypeOK, ProcessTypeOK
<1> HIDE DEF Decides, RefersTo
<1> QED  BY <1>1, <1>2 DEF Quiet

\* Fast path, BEGIN, the wallet's checks, a lost claim, the two lookups of a
\* reversal: none of them writes.
LEMMA LookupShape ==
  ASSUME TypeOK, NEW p \in Processes, Lookup(p)
  PROVE  Quiet(p)
<1>1. pc[p] \in Phases \ {"idle", "answered"}
  BY DEF Lookup, Phases
<1> DEFINE i == FindByIdempotencyKey(req[p].key)
<1>2. CASE i # NoTx /\ HandleExisting(p, i)
  BY <1>1, <1>2, FindType, QuietExisting
<1>3. CASE req[p].kind = "OPENING" /\ Abort(p, "INVALID_OPENING_KIND")
  BY <1>1, <1>3, QuietAbort DEF Errors, LastingReason
<1>4. CASE Goto(p, "begin") /\ UNCHANGED <<db, req, snap, ref, verdict, out>>
  <2>1. /\ "begin" \in Phases \ {"idle", "answered"} /\ "begin" \notin LockHeld
        /\ "begin" \notin Inserted
    BY DEF Phases, LockHeld, Inserted
  <2>2. ref[p] \in 0..Len(txs) /\ verdict[p] \in Verdicts
        /\ (verdict[p] = "move" => ref[p] \in DOMAIN txs)
    BY DEF TypeOK, ProcessTypeOK, PhaseOK
  <2>3. ref = [ref EXCEPT ![p] = ref[p]] /\ verdict = [verdict EXCEPT ![p] = verdict[p]]
    BY DEF TypeOK, ProcessTypeOK
  <2> QED  BY <1>1, <1>4, <2>1, <2>2, <2>3, QuietGoto
<1> QED  BY <1>2, <1>3, <1>4 DEF Lookup

\* BEGIN is quiet.
LEMMA BeginShape ==
  ASSUME TypeOK, NEW p \in Processes, Begin(p)
  PROVE  Quiet(p)
<1>1. pc[p] \in Phases \ {"idle", "answered"} /\ "lock" \in Phases \ {"idle", "answered"}
      /\ "lock" \notin LockHeld /\ "lock" \notin Inserted
  BY DEF Begin, Phases, InTx, LockHeld, Inserted
<1>2. ref[p] \in 0..Len(txs) /\ verdict[p] \in Verdicts
      /\ (verdict[p] = "move" => ref[p] \in DOMAIN txs)
  BY DEF TypeOK, ProcessTypeOK, PhaseOK
<1>3. ref = [ref EXCEPT ![p] = ref[p]] /\ verdict = [verdict EXCEPT ![p] = verdict[p]]
  BY DEF TypeOK, ProcessTypeOK
<1> QED  BY <1>1, <1>2, <1>3, QuietGoto DEF Begin

\* FindByIDWithLock takes the row lock, or its checks give up.
LEMMA LockWalletShape ==
  ASSUME TypeOK, NEW p \in Processes, LockWallet(p)
  PROVE  Quiet(p) \/ Locks(p)
<1>1. pc[p] = "lock" /\ pc[p] \in Phases \ {"idle", "answered"}
  BY DEF LockWallet, Phases, InTx
<1>2. CASE \E e \in Errors \ {"LOST_UPDATE", "CHECK_VIOLATION"} :
             LastingReason(req[p], e) /\ Abort(p, e)
  BY <1>1, <1>2, QuietAbort
<1>3. CASE /\ req[p].wallet \in Wallets /\ ~Locked(req[p].wallet)
           /\ WellFormed(req[p].kind, req[p].amount, req[p].ref # NoRef)
           /\ Goto(p, "claim")
           /\ snap' = [snap EXCEPT ![p] = wallets[req[p].wallet]]
           /\ UNCHANGED <<db, req, ref, verdict, out>>
  BY <1>1, <1>3 DEF Locks, Own, Goto, TypeOK, ProcessTypeOK
<1>4. /\ "OWNER_MISMATCH" \in Errors \ {"LOST_UPDATE", "CHECK_VIOLATION"}
      /\ req[p].wallet \in Wallets /\ Owner[req[p].wallet] # req[p].player =>
           LastingReason(req[p], "OWNER_MISMATCH")
      /\ {"WALLET_NOT_FOUND", "CURRENCY_MISMATCH", "INVALID_INPUT"} \subseteq Passing
  BY DEF Errors, Passing, LastingReason
<1> QED  BY <1>2, <1>3, <1>4, PassingTells DEF LockWallet

\* TryCreate claims the key, or loses the race, or gives up.
LEMMA TryCreateShape ==
  ASSUME TypeOK, NEW p \in Processes, TryCreate(p)
  PROVE  Quiet(p) \/ Claims(p)
<1>1. pc[p] = "claim" /\ pc[p] \in Phases \ {"idle", "answered"} /\ pc[p] \in LockHeld
  BY DEF TryCreate, Phases, InTx, LockHeld
<1>2. CASE /\ FindByIdempotencyKey(req[p].key) # NoTx
           /\ Goto(p, "raced")
           /\ UNCHANGED <<db, req, snap, ref, verdict, out>>
  <2>1. "raced" \in Phases \ {"idle", "answered"} /\ "raced" \notin Inserted
    BY DEF Phases, InTx, LockHeld, Inserted
  <2>2. \E i \in DOMAIN txs : txs[i].req.key = req[p].key
    BY <1>2, FindType
  <2>3. ref[p] \in 0..Len(txs) /\ verdict[p] \in Verdicts
        /\ (verdict[p] = "move" => ref[p] \in DOMAIN txs)
    BY DEF TypeOK, ProcessTypeOK, PhaseOK
  <2>4. ref = [ref EXCEPT ![p] = ref[p]] /\ verdict = [verdict EXCEPT ![p] = verdict[p]]
    BY DEF TypeOK, ProcessTypeOK
  <2> QED  BY <1>1, <1>2, <2>1, <2>2, <2>3, <2>4, QuietGoto
<1>3. CASE Abort(p, "DUPLICATE_EXTERNAL")
  BY <1>1, <1>3, QuietAbort, PassingTells DEF Passing, Errors
<1>4. CASE /\ FindByIdempotencyKey(req[p].key) = NoTx
           /\ FindByProviderAndExternalID(req[p].provider, req[p].ext) = NoTx
           /\ ~InsertConflicts(p)
           /\ Goto(p, "apply")
           /\ UNCHANGED <<db, req, snap, ref, verdict, out>>
  BY <1>1, <1>4 DEF Claims, Own, Goto, TypeOK, ProcessTypeOK
<1> QED  BY <1>2, <1>3, <1>4 DEF TryCreate

\* The answer after a lost race is quiet.
LEMMA AnswerRacedShape ==
  ASSUME TypeOK, NEW p \in Processes, AnswerRaced(p)
  PROVE  Quiet(p)
<1> DEFINE i == FindByIdempotencyKey(req[p].key)
<1>1. pc[p] = "raced" /\ pc[p] \in Phases \ {"idle", "answered"}
  BY DEF AnswerRaced, Phases, InTx, LockHeld
<1>2. \E j \in DOMAIN txs : txs[j].req.key = req[p].key
  BY <1>1 DEF TypeOK, PhaseOK
<1>3. i # NoTx
  <2> DEFINE rows == {j \in DOMAIN txs : txs[j].req.key = req[p].key}
  <2>1. rows # {} /\ i = TheRow(rows)
    BY <1>2 DEF FindByIdempotencyKey
  <2>2. i \in rows
    BY <2>1 DEF TheRow
  <2>3. rows \subseteq 1..Len(txs)
    BY DEF TypeOK, DbTypeOK
  <2> QED  BY <2>2, <2>3 DEF NoTx
<1> QED  BY <1>1, <1>3, FindType, QuietExisting DEF AnswerRaced

\* The lookup of a reference is quiet.
LEMMA FindReferenceShape ==
  ASSUME TypeOK, NEW p \in Processes, FindReference(p)
  PROVE  Quiet(p)
<1> DEFINE i == FindByProviderAndExternalID(req[p].provider, req[p].ref)
           v == ReferenceVerdict(req[p].kind, i)
           phase == IF v = "move" THEN "reversal" ELSE "settle"
<1>1. /\ pc[p] \in Phases \ {"idle", "answered"} /\ phase \in Phases \ {"idle", "answered"}
      /\ pc[p] \in LockHeld /\ pc[p] \in Inserted /\ phase # "raced"
  BY DEF FindReference, Phases, InTx, LockHeld, Inserted
<1>2. v \in {"postpone", "REFERENCE_NOT_FOUND", "move"} /\ (v = "move" => i # NoTx)
  BY DEF ReferenceVerdict
<1>3. i \in 0..Len(txs) /\ (v = "move" => i \in DOMAIN txs)
  BY <1>2, FindType DEF TypeOK, DbTypeOK, NoTx
<1>4. ref'[p] = i /\ verdict'[p] = v
  BY DEF FindReference, TypeOK, ProcessTypeOK
<1>5. v \in Verdicts /\ (phase = "reversal" => v = "move")
  BY <1>2 DEF Verdicts, Refusals
<1>6. /\ Goto(p, phase) /\ UNCHANGED <<db, req, snap, out>>
      /\ ref' = [ref EXCEPT ![p] = i] /\ verdict' = [verdict EXCEPT ![p] = v]
  BY DEF FindReference
<1>7. v = "move" => RefersTo(req[p], i)
  <2> SUFFICES ASSUME v = "move" PROVE RefersTo(req[p], i)
    OBVIOUS
  <2>1. /\ i \in DOMAIN txs /\ txs[i].req.provider = req[p].provider
        /\ txs[i].req.ext = req[p].ref
    BY <1>2, FindType
  <2>2. txs[i].status \in Statuses
    <3> HIDE DEF i
    <3>1. txs \in Seq(Row)
      BY DEF TypeOK, DbTypeOK
    <3>2. txs[i] \in Row
      BY <2>1, <3>1
    <3> QED  BY <3>2 DEF Row
  <2>3. /\ txs[i].status \notin {"PENDING", "PENDING_REFERENCE", "REJECTED", "FAILED"}
        /\ txs[i].req.kind \in ReversibleBy(req[p].kind)
    BY <1>2 DEF ReferenceVerdict
  <2> QED  BY <2>1, <2>2, <2>3 DEF RefersTo, Statuses
<1>8. ~(phase = "settle" /\ v = "move")
  OBVIOUS
<1> HIDE DEF i, v, phase
<1> QED  BY <1>1, <1>3, <1>4, <1>5, <1>6, <1>7, <1>8, QuietGoto

\* The lookup of a reversal is quiet.
LEMMA FindReversalShape ==
  ASSUME TypeOK, NEW p \in Processes, FindReversal(p)
  PROVE  Quiet(p)
<1> DEFINE v == ReversalVerdict(req[p], txs[ref[p]].req)
<1>1. /\ pc[p] \in Phases \ {"idle", "answered"} /\ "settle" \in Phases \ {"idle", "answered"}
      /\ pc[p] \in LockHeld /\ pc[p] \in Inserted
  BY DEF FindReversal, Phases, InTx, LockHeld, Inserted
<1>2. v \in Verdicts
  BY DEF ReversalVerdict, Verdicts, Refusals
<1>3. ref[p] \in 0..Len(txs) /\ ref[p] \in DOMAIN txs
  BY DEF FindReversal, TypeOK, ProcessTypeOK, PhaseOK
<1>4. verdict'[p] = v /\ ref = [ref EXCEPT ![p] = ref[p]]
  BY DEF FindReversal, TypeOK, ProcessTypeOK
<1>5. /\ Goto(p, "settle") /\ UNCHANGED <<db, req, snap, ref, out>>
      /\ verdict' = [verdict EXCEPT ![p] = v]
  BY DEF FindReversal
<1>6. v = "move" => Decides(p)
  <2> SUFFICES ASSUME v = "move" PROVE Decides(p)
    OBVIOUS
  <2>1. FindProcessedReversal(req[p].provider, req[p].ref, req[p].kind) = NoTx
    BY DEF ReversalVerdict
  <2>2. req[p].kind = "REFUND" =>
          <<req[p].amount, req[p].currency>> = <<txs[ref[p]].req.amount, txs[ref[p]].req.currency>>
    BY DEF ReversalVerdict
  <2> QED  BY <2>1, <2>2, NoReversalFound DEF Decides, FindReversal
<1> HIDE DEF v
<1> QED  BY <1>1, <1>2, <1>3, <1>4, <1>5, <1>6, QuietGoto

(***************************************************************************)
(* The steps that commit.                                                   *)
(***************************************************************************)
\* Sub in the guard of a DEBIT never overflows: CanDebit is all it needs.
LEMMA DebitFits ==
  \A balance \in 0..MaxInt, amount \in Int :
    CanDebit(balance, amount) => SubFits(balance, amount)
  BY DEF CanDebit, SubFits, AddFits, MinInt

\* The guards of Money.Add say exactly when the sum is an int64, and everything
\* they compute is one itself.
LEMMA AddFitsExactly ==
  \A a, b \in Int64 :
    /\ AddFits(a, b) <=> a + b \in Int64
    /\ b > 0 => MaxInt - b \in Int64
    /\ b < 0 => MinInt - b \in Int64
  BY DEF AddFits, Int64, MinInt

\* A row of wager_transactions is well typed.
LEMMA TxRowType ==
  ASSUME NEW r \in Requests, NEW status \in Statuses, NEW code \in FailureCodes \cup {Null},
         NEW result \in 0..MaxInt \cup {Null}, NEW refTx \in Nat
  PROVE  /\ TxRow(r, status, code, result, refTx) \in Row
         /\ TxRow(r, status, code, result, refTx).req = r
         /\ TxRow(r, status, code, result, refTx).status = status
         /\ TxRow(r, status, code, result, refTx).code = code
         /\ TxRow(r, status, code, result, refTx).result = result
         /\ TxRow(r, status, code, result, refTx).refTx = refTx
  BY DEF TxRow, Row

\* What a transaction with an inserted row knows when it settles.
LEMMA Settling ==
  ASSUME TypeOK, NEW p \in Processes, pc[p] \in Inserted
  PROVE  /\ req[p] \in Requests /\ req[p].wallet \in Wallets /\ req[p].amount \in Int
         /\ pc[p] \in LockHeld
         /\ snap[p] \in WalletRow /\ snap[p].balance \in 0..MaxInt
         /\ snap[p].version \in Nat \ {0}
         /\ NextId \in Nat \ {0}
         /\ ResolvedReference(p) \in Nat
         /\ WellFormed(req[p].kind, req[p].amount, req[p].ref # NoRef)
<1>1. pc[p] # "idle" /\ pc[p] \in LockHeld
  BY DEF Inserted, LockHeld
<1>2. req[p] \in Requests /\ req[p].wallet \in Wallets /\ snap[p] \in WalletRow
      /\ WellFormed(req[p].kind, req[p].amount, req[p].ref # NoRef)
  BY <1>1 DEF TypeOK, PhaseOK
<1>3. req[p].amount \in Int
  BY <1>2 DEF Request
<1>4. Len(txs) \in Nat /\ ref[p] \in 0..Len(txs)
  BY DEF TypeOK, DbTypeOK, ProcessTypeOK
<1> QED
  BY <1>1, <1>2, <1>3, <1>4 DEF WalletRow, NextId, ResolvedReference, NoTx

\* Answering after a write: p's variables are reset and its answer is kept.
LEMMA AnswerAfterWrite ==
  ASSUME TypeOK, NEW p \in Processes, NEW o \in AnswerRow, Answer(p, o)
  PROVE  /\ Own(p) /\ pc'[p] = "answered"
         /\ snap'[p] = Null /\ ref'[p] = NoTx /\ verdict'[p] = "none"
         /\ out'[p] = o
  BY DEF Answer, Goto, Own, TypeOK, ProcessTypeOK

\* A commit of one row and one event that leaves the wallet alone.
LEMMA RecordShape ==
  ASSUME TypeOK, NEW p \in Processes, pc[p] \in Inserted,
         NEW status \in Statuses, NEW code \in FailureCodes \cup {Null},
         NEW result \in 0..MaxInt \cup {Null}, NEW refTx \in Nat,
         NEW type \in {"Processed", "Rejected", "PendingReference"}, type = EventType(status),
         NEW o \in AnswerRow, o.error = "none", o.tx = NextId, o.status = status,
         o.code = code, status = "PROCESSED" => o.balance = result,
         status = "PROCESSED" => result = wallets[req[p].wallet].balance,
         status = "PROCESSED" => req[p].kind = "LOSS",
         code = "INSUFFICIENT_BALANCE" => snap[p].balance < req[p].amount,
         txs' = Append(txs, TxRow(req[p], status, code, result, refTx)),
         outbox' = Append(outbox, Event(type, NextId, Null, 0)),
         Answer(p, o), UNCHANGED <<wallets, ledger>>
  PROVE  Records(p)
<1> DEFINE row == TxRow(req[p], status, code, result, refTx)
<1>1. req[p] \in Requests /\ NextId \in Nat \ {0}
  BY Settling
<1>2. /\ row \in Row /\ row.req = req[p] /\ row.status = status /\ row.code = code
      /\ row.result = result
  <2>1. \A r \in Requests : /\ TxRow(r, status, code, result, refTx) \in Row
                            /\ TxRow(r, status, code, result, refTx).req = r
                            /\ TxRow(r, status, code, result, refTx).status = status
                            /\ TxRow(r, status, code, result, refTx).code = code
                            /\ TxRow(r, status, code, result, refTx).result = result
    BY TxRowType
  <2> QED  BY <1>1, <2>1
<1>3. Event(type, NextId, Null, 0) \in EventRow
  BY <1>1 DEF Event, EventRow
<1>4. outbox' \in Seq(EventRow)
  BY <1>3 DEF TypeOK, DbTypeOK
<1>5. wallets' = wallets
  OBVIOUS
<1>6. AnswersNewRow(o, row)
  BY <1>2 DEF AnswersNewRow
<1>7. ~Moving(row)
  BY <1>2 DEF Moving
<1>8. outbox' = Append(outbox, Event(EventType(row.status), NextId, Null, 0))
  BY <1>2
<1> HIDE DEF row
<1> QED
  BY <1>2, <1>4, <1>5, <1>6, <1>7, <1>8, AnswerAfterWrite DEF Records, Commits, row

\* rejectTransaction records a row and moves nothing.
LEMMA RejectShape ==
  ASSUME TypeOK, NEW p \in Processes, pc[p] \in Inserted, NEW code \in FailureCodes,
         code = "INSUFFICIENT_BALANCE" => snap[p].balance < req[p].amount,
         RejectTransaction(p, code)
  PROVE  Records(p)
<1>1. NextId \in Nat /\ snap[p].balance \in 0..MaxInt /\ ResolvedReference(p) \in Nat
  BY Settling
<1>2. "REJECTED" \in Statuses /\ "REJECTED" # "PROCESSED" /\ EventType("REJECTED") = "Rejected"
  BY DEF Statuses, EventType
<1> DEFINE o == Output(NextId, "REJECTED", snap[p].balance, code, FALSE)
<1>3. /\ o \in AnswerRow /\ o.error = "none" /\ o.tx = NextId
      /\ o.status = "REJECTED" /\ o.code = code
  <2>1. o \in AnswerRow /\ o.error = "none"
    BY <1>1, <1>2, OutputType
  <2> QED  BY <2>1 DEF Output
<1> HIDE DEF o
<1> QED  BY <1>1, <1>2, <1>3, RecordShape DEF RejectTransaction, o

\* One movement with its entry, its row and its two events.
LEMMA CommitShape ==
  ASSUME TypeOK, SnapshotCurrent, NEW p \in Processes, pc[p] \in Inserted,
         NEW direction \in Directions, NEW amount \in 1..MaxInt, Settles(p, direction, amount),
         Moved(snap[p].balance, direction, amount) \in 0..MaxInt,
         CommitSuccess(p, direction, amount)
  PROVE  Pays(p)
<1> DEFINE w     == req[p].wallet
           entry == LedgerEntry(NextId, direction, amount, snap[p].balance)
           row   == TxRow(req[p], "PROCESSED", Null, entry.after, ResolvedReference(p))
           o     == Output(NextId, "PROCESSED", entry.after, Null, FALSE)
<1>1. /\ req[p] \in Requests /\ w \in Wallets /\ pc[p] \in LockHeld
      /\ snap[p].balance \in 0..MaxInt /\ snap[p].version \in Nat \ {0}
      /\ NextId \in Nat \ {0} /\ ResolvedReference(p) \in Nat
  BY Settling
<1>2. wallets[w].version = snap[p].version
  BY <1>1 DEF SnapshotCurrent
<1>3. /\ entry \in Entry /\ entry.after = Moved(snap[p].balance, direction, amount)
      /\ entry.before = snap[p].balance /\ entry.direction = direction
      /\ entry.amount = amount /\ entry.tx = NextId
  BY <1>1 DEF LedgerEntry, Entry
<1>4. entry.after \in 0..MaxInt
  BY <1>3
<1>5. /\ wallets' = [wallets EXCEPT ![w] = [balance |-> entry.after, version |-> NextVersion(p)]]
      /\ txs' = Append(txs, row)
      /\ ledger' = [ledger EXCEPT ![w] = Append(@, entry)]
      /\ outbox' = outbox \o
           <<Event("Processed", NextId, Null, 0),
             Event("BalanceChanged", NextId, entry, NextVersion(p))>>
      /\ Answer(p, o)
  <2>1. ~(entry.after < 0)
    BY <1>4
  <2> HIDE DEF entry
  <2> QED  BY <1>2, <2>1 DEF CommitSuccess, LostUpdate, SettlementEvents, entry
<1>6. "PROCESSED" \in Statuses
  BY DEF Statuses
<1>7. /\ row \in Row /\ row.req = req[p] /\ row.status = "PROCESSED" /\ row.code = Null
      /\ row.result = entry.after /\ row.refTx = ResolvedReference(p)
  BY <1>1, <1>4, <1>6, TxRowType
<1>8. o \in AnswerRow /\ AnswersNewRow(o, row)
  <2>1. o \in AnswerRow /\ o.error = "none"
    BY <1>1, <1>4, <1>6, OutputType
  <2> QED  BY <1>7, <2>1 DEF AnswersNewRow, Output
<1>9. outbox' \in Seq(EventRow)
  <2>1. Event("Processed", NextId, Null, 0) \in EventRow
    BY <1>1 DEF Event, EventRow
  <2>2. Event("BalanceChanged", NextId, entry, NextVersion(p)) \in EventRow
    BY <1>1, <1>3 DEF Event, EventRow, NextVersion
  <2>3. <<Event("Processed", NextId, Null, 0),
          Event("BalanceChanged", NextId, entry, NextVersion(p))>> \in Seq(EventRow)
    BY <2>1, <2>2
  <2> QED  BY <1>5, <2>3, ConcatProperties DEF TypeOK, DbTypeOK
<1>10. wallets'[w].balance = entry.after
  BY <1>1, <1>5 DEF TypeOK, DbTypeOK
<1>11. Null # "INSUFFICIENT_BALANCE"
  BY DEF FailureCodes
<1>12. /\ Moving(row) /\ Settles(p, entry.direction, entry.amount)
       /\ req[p].kind \in Reversals => row.refTx = ref[p]
  BY <1>3, <1>7 DEF Moving, Settles, ResolvedReference
<1> HIDE DEF w, entry, row, o
<1>13. Commits(p, row)
  BY <1>5, <1>7, <1>8, <1>9, <1>10, <1>11, AnswerAfterWrite DEF Commits, w
<1>14. PaysEntry(p, row, entry)
  BY <1>3, <1>5, <1>12, <1>13 DEF PaysEntry, NextVersion, w
<1> QED  BY <1>3, <1>7, <1>14 DEF Pays

\* A credit pays, or overflows and gives up.
LEMMA CreditShape ==
  ASSUME TypeOK, SnapshotCurrent, NEW p \in Processes, pc[p] \in Inserted,
         NEW amount \in Int, Settles(p, "CREDIT", amount), Credit(p, amount)
  PROVE  Quiet(p) \/ Pays(p)
<1>1. snap[p].balance \in 0..MaxInt /\ pc[p] \in Phases \ {"idle", "answered"}
  BY Settling DEF Phases, InTx, LockHeld, Inserted
<1>2. CASE CanCredit(snap[p].balance, amount)
  <2>1. amount \in 1..MaxInt /\ Moved(snap[p].balance, "CREDIT", amount) \in 0..MaxInt
    BY <1>1, <1>2 DEF CanCredit, AddFits, MinInt, Moved
  <2>2. CommitSuccess(p, "CREDIT", amount) /\ "CREDIT" \in Directions
    BY <1>2 DEF Credit, Directions
  <2> QED  BY <2>1, <2>2, CommitShape
<1>3. CASE ~CanCredit(snap[p].balance, amount)
  BY <1>1, <1>3, QuietAbort, PassingTells DEF Credit, Passing, Errors
<1> QED  BY <1>2, <1>3

\* A debit pays, or rejects.
LEMMA DebitShape ==
  ASSUME TypeOK, SnapshotCurrent, NEW p \in Processes, pc[p] \in Inserted,
         NEW amount \in Int, Settles(p, "DEBIT", amount), NEW code \in FailureCodes,
         code = "INSUFFICIENT_BALANCE" => amount = req[p].amount /\ amount > 0,
         Debit(p, amount, code)
  PROVE  Records(p) \/ Pays(p)
<1>1. snap[p].balance \in 0..MaxInt
  BY Settling
<1>2. CASE CanDebit(snap[p].balance, amount)
  <2>1. amount \in 1..MaxInt /\ Moved(snap[p].balance, "DEBIT", amount) \in 0..MaxInt
    BY <1>1, <1>2 DEF CanDebit, Moved
  <2>2. CommitSuccess(p, "DEBIT", amount) /\ "DEBIT" \in Directions
    BY <1>2 DEF Debit, Directions
  <2> QED  BY <2>1, <2>2, CommitShape
<1>3. CASE ~CanDebit(snap[p].balance, amount)
  <2>1. RejectTransaction(p, code)
    BY <1>3 DEF Debit
  <2>2. code = "INSUFFICIENT_BALANCE" => snap[p].balance < req[p].amount
    BY <1>1, <1>3 DEF CanDebit
  <2> QED  BY <2>1, <2>2, RejectShape
<1> QED  BY <1>2, <1>3

\* A BET pays or records a rejection.
LEMMA ProcessBetShape ==
  ASSUME TypeOK, SnapshotCurrent, NEW p \in Processes, ProcessBet(p)
  PROVE  Records(p) \/ Pays(p)
<1>1. pc[p] \in Inserted /\ Settles(p, "DEBIT", req[p].amount)
  BY DEF ProcessBet, Inserted, Settles, Effect, Reversals
<1>2. req[p].amount \in Int /\ req[p].amount > 0
  BY <1>1, Settling DEF ProcessBet, WellFormed
<1> QED  BY <1>1, <1>2, DebitShape DEF ProcessBet, FailureCodes

\* A WIN pays or gives up.
LEMMA ProcessWinShape ==
  ASSUME TypeOK, SnapshotCurrent, NEW p \in Processes, ProcessWin(p)
  PROVE  Quiet(p) \/ Pays(p)
<1>1. pc[p] \in Inserted /\ Settles(p, "CREDIT", req[p].amount)
  BY DEF ProcessWin, Inserted, Settles, Effect, Reversals
<1> QED  BY <1>1, Settling, CreditShape DEF ProcessWin

\* A LOSS records a row.
LEMMA ProcessLossShape ==
  ASSUME TypeOK, SnapshotCurrent, NEW p \in Processes, ProcessLoss(p)
  PROVE  Records(p)
<1>1. /\ pc[p] \in Inserted /\ req[p].kind = "LOSS" /\ NoTx \in Nat
      /\ "PROCESSED" \in Statuses /\ EventType("PROCESSED") = "Processed"
  BY DEF ProcessLoss, Inserted, NoTx, Statuses, EventType
<1>2. /\ NextId \in Nat /\ pc[p] \in LockHeld /\ snap[p].balance \in 0..MaxInt
  BY <1>1, Settling
<1>3. snap[p].balance = wallets[req[p].wallet].balance
  BY <1>2 DEF SnapshotCurrent
<1> DEFINE o == Output(NextId, "PROCESSED", snap[p].balance, Null, FALSE)
<1>4. /\ o \in AnswerRow /\ o.error = "none" /\ o.tx = NextId
      /\ o.status = "PROCESSED" /\ o.code = Null /\ o.balance = snap[p].balance
  <2>1. o \in AnswerRow /\ o.error = "none"
    BY <1>1, <1>2, OutputType
  <2> QED  BY <2>1 DEF Output
<1>5. Null # "INSUFFICIENT_BALANCE"
  BY DEF FailureCodes
<1> HIDE DEF o
<1> QED  BY <1>1, <1>2, <1>3, <1>4, <1>5, RecordShape DEF ProcessLoss, o

\* Postponing records a row.
LEMMA MarkPendingReferenceShape ==
  ASSUME TypeOK, NEW p \in Processes, MarkPendingReference(p)
  PROVE  Records(p)
<1>1. /\ pc[p] \in Inserted /\ NoTx \in Nat
      /\ "PENDING_REFERENCE" \in Statuses /\ EventType("PENDING_REFERENCE") = "PendingReference"
  BY DEF MarkPendingReference, Inserted, NoTx, Statuses, EventType
<1>2. NextId \in Nat
  BY <1>1, Settling
<1> DEFINE o == Output(NextId, "PENDING_REFERENCE", Null, Null, FALSE)
<1>3. /\ o \in AnswerRow /\ o.error = "none" /\ o.tx = NextId
      /\ o.status = "PENDING_REFERENCE" /\ o.code = Null
  <2>1. o \in AnswerRow /\ o.error = "none"
    BY <1>1, <1>2, OutputType
  <2> QED  BY <2>1 DEF Output
<1>4. Null # "INSUFFICIENT_BALANCE"
  BY DEF FailureCodes
<1> HIDE DEF o
<1> QED  BY <1>1, <1>2, <1>3, <1>4, RecordShape DEF MarkPendingReference, o

\* Refusing a reversal records a row.
LEMMA RefuseReversalShape ==
  ASSUME TypeOK, NEW p \in Processes, RefuseReversal(p)
  PROVE  Records(p)
<1>1. pc[p] \in Inserted
  BY DEF RefuseReversal, Inserted
<1>2. verdict[p] # "INSUFFICIENT_BALANCE"
  BY DEF TypeOK, ProcessTypeOK, Verdicts, Refusals
<1> QED  BY <1>1, <1>2, RejectShape DEF RefuseReversal

\* A REFUND pays or gives up.
LEMMA SettleRefundShape ==
  ASSUME TypeOK, SnapshotCurrent, NEW p \in Processes, SettleRefund(p)
  PROVE  Quiet(p) \/ Pays(p)
<1>1. pc[p] \in Inserted /\ Settles(p, "CREDIT", req[p].amount)
  BY DEF SettleRefund, Inserted, Settles, Effect, Reversals
<1> QED  BY <1>1, Settling, CreditShape DEF SettleRefund

\* A ROLLBACK pays, records a rejection or gives up.
LEMMA SettleRollbackShape ==
  ASSUME TypeOK, SnapshotCurrent, NEW p \in Processes, SettleRollback(p)
  PROVE  Quiet(p) \/ Records(p) \/ Pays(p)
<1> DEFINE amount == txs[ref[p]].req.amount
<1>1. pc[p] \in Inserted
      /\ pc[p] \in Phases \ {"idle", "answered"}
  BY DEF SettleRollback, Inserted, Phases, InTx, LockHeld
<1>2. amount \in Int
  <2>1. ref[p] \in DOMAIN txs
    BY DEF SettleRollback, TypeOK, PhaseOK
  <2>2. txs[ref[p]] \in Row
    BY <2>1 DEF TypeOK, DbTypeOK
  <2> QED  BY <2>2 DEF Row, Request
<1>3. CASE Abort(p, "CURRENCY_MISMATCH")
  BY <1>1, <1>3, QuietAbort, PassingTells DEF Passing, Errors
<1>4. CASE txs[ref[p]].req.kind = "BET" /\ Credit(p, amount)
  <2>1. Settles(p, "CREDIT", amount)
    BY <1>4 DEF SettleRollback, Settles, Effect
  <2> QED  BY <1>1, <1>2, <1>4, <2>1, CreditShape
<1>5. CASE /\ txs[ref[p]].req.kind \in {"WIN", "REFUND"}
           /\ Debit(p, amount, "INSUFFICIENT_BALANCE_REVERSAL")
  <2>1. Settles(p, "DEBIT", amount)
    BY <1>5 DEF SettleRollback, Settles, Effect
  <2> QED  BY <1>1, <1>2, <1>5, <2>1, DebitShape DEF FailureCodes
<1> QED  BY <1>3, <1>4, <1>5 DEF SettleRollback

\* Every step of a process has one of the five shapes.
LEMMA StepShape ==
  ASSUME TypeOK, SnapshotCurrent, NEW p \in Processes, Step(p)
  PROVE  Quiet(p) \/ Locks(p) \/ Claims(p) \/ Records(p) \/ Pays(p)
  BY LookupShape, BeginShape, LockWalletShape, TryCreateShape, AnswerRacedShape,
     ProcessBetShape, ProcessWinShape, ProcessLossShape, FindReferenceShape,
     FindReversalShape, MarkPendingReferenceShape, RefuseReversalShape,
     SettleRefundShape, SettleRollbackShape DEF Step

(***************************************************************************)
(* Type correctness.                                                        *)
(***************************************************************************)
LEMMA InitTypeOK == Init => TypeOK
<1> SUFFICES ASSUME Init PROVE TypeOK
  OBVIOUS
<1>1. \A w \in Wallets : Opened(InitialBalance[w]) \in Seq(Entry)
  <2>1. ASSUME NEW w \in Wallets, InitialBalance[w] # 0
        PROVE  LedgerEntry(NoTx, "CREDIT", InitialBalance[w], 0) \in Entry
    BY <2>1 DEF LedgerEntry, Moved, Entry, Directions, NoTx
  <2> QED  BY <2>1 DEF Opened
<1>2. DbTypeOK
  BY <1>1 DEF Init, DbTypeOK, WalletRow
<1>3. ProcessTypeOK
  BY DEF Init, ProcessTypeOK, Phases, NoTx, Verdicts
<1>4. PhaseOK
  BY DEF Init, PhaseOK, LockHeld, Inserted
<1> QED  BY <1>2, <1>3, <1>4 DEF TypeOK

\* p's own variables keep their types when the new values have them.
LEMMA OwnType ==
  ASSUME TypeOK, NEW p \in Processes, Own(p),
         pc'[p] \in Phases, snap'[p] \in WalletRow \cup {Null},
         Len(txs') \in Nat, Len(txs') >= Len(txs),
         ref'[p] \in 0..Len(txs'), verdict'[p] \in Verdicts,
         out'[p] \in AnswerRow \cup {Null}
  PROVE  ProcessTypeOK'
<1>1. /\ pc' \in [Processes -> Phases] /\ snap' \in [Processes -> WalletRow \cup {Null}]
      /\ verdict' \in [Processes -> Verdicts]
      /\ out' \in [Processes -> AnswerRow \cup {Null}]
      /\ req' \in [Processes -> Requests \cup {Null}]
  BY DEF Own, TypeOK, ProcessTypeOK
<1>2. ref' \in [Processes -> 0..Len(txs')]
  <2>1. \A q \in Processes : ref[q] \in 0..Len(txs')
    BY DEF TypeOK, DbTypeOK, ProcessTypeOK
  <2> QED  BY <2>1 DEF Own, TypeOK, ProcessTypeOK
<1> QED  BY <1>1, <1>2 DEF ProcessTypeOK

\* The phases of the others are as before; the table of transactions only grows.
LEMMA OthersPhase ==
  ASSUME TypeOK, NEW p \in Processes, Own(p),
         \A i \in DOMAIN txs : i \in DOMAIN txs' /\ txs'[i] = txs[i],
         pc'[p] # "idle" => req[p] \in Requests,
         pc'[p] = "answered" => out'[p] \in AnswerRow,
         pc'[p] \in LockHeld =>
           /\ req[p].wallet \in Wallets /\ snap'[p] \in WalletRow
           /\ WellFormed(req[p].kind, req[p].amount, req[p].ref # NoRef),
         pc'[p] = "raced" => \E i \in DOMAIN txs : txs[i].req.key = req[p].key,
         pc'[p] = "reversal" \/ verdict'[p] = "move" => ref'[p] \in DOMAIN txs'
  PROVE  PhaseOK'
<1> SUFFICES ASSUME NEW q \in Processes
             PROVE  /\ pc'[q] # "idle" => req'[q] \in Requests
                    /\ pc'[q] = "answered" => out'[q] \in AnswerRow
                    /\ pc'[q] \in LockHeld =>
                         /\ req'[q].wallet \in Wallets /\ snap'[q] \in WalletRow
                         /\ WellFormed(req'[q].kind, req'[q].amount, req'[q].ref # NoRef)
                    /\ pc'[q] = "raced" => \E i \in DOMAIN txs' : txs'[i].req.key = req'[q].key
                    /\ pc'[q] = "reversal" \/ verdict'[q] = "move" => ref'[q] \in DOMAIN txs'
  BY DEF PhaseOK, LockHeld, Inserted, WalletRow, AnswerRow, Errors
<1>1. CASE q = p
  BY <1>1 DEF Own
<1>2. CASE q # p
  <2>1. /\ pc'[q] = pc[q] /\ snap'[q] = snap[q] /\ ref'[q] = ref[q]
        /\ verdict'[q] = verdict[q] /\ out'[q] = out[q] /\ req'[q] = req[q]
    BY <1>2 DEF Own, TypeOK, ProcessTypeOK
  <2> QED  BY <2>1 DEF TypeOK, PhaseOK
<1> QED  BY <1>1, <1>2

\* Receiving a request and losing an execution.
LEMMA ReceiveTypeOK ==
  ASSUME TypeOK, NEW p \in Processes, NEW r \in Requests, Receive(p, r)
  PROVE  TypeOK'
<1>1. /\ pc' = [pc EXCEPT ![p] = "lookup"] /\ req' = [req EXCEPT ![p] = r]
      /\ out' = [out EXCEPT ![p] = Null] /\ UNCHANGED <<db, snap, ref, verdict>>
      /\ pc[p] \in {"idle", "answered"}
  BY DEF Receive, Goto
<1>2. DbTypeOK'
  BY <1>1 DEF TypeOK, DbTypeOK, db, WalletRow, Row, Entry, EventRow
<1>3. ProcessTypeOK'
  BY <1>1 DEF TypeOK, DbTypeOK, ProcessTypeOK, db, Phases, WalletRow, AnswerRow, Verdicts, Refusals
<1>4. PhaseOK'
  <2>1. "lookup" \notin LockHeld
    BY DEF LockHeld, Inserted
  <2>2. ASSUME NEW q \in Processes, q # p
        PROVE  /\ pc'[q] = pc[q] /\ req'[q] = req[q] /\ out'[q] = out[q]
    BY <1>1, <2>2 DEF TypeOK, ProcessTypeOK
  <2>3. pc'[p] = "lookup" /\ req'[p] = r
    BY <1>1 DEF TypeOK, ProcessTypeOK
  <2>4. verdict[p] = "move" => ref[p] \in DOMAIN txs
    BY DEF TypeOK, PhaseOK
  <2> QED  BY <1>1, <2>1, <2>2, <2>3, <2>4 DEF TypeOK, PhaseOK, db
<1> QED  BY <1>2, <1>3, <1>4 DEF TypeOK

\* A failure keeps the types.
LEMMA FailTypeOK ==
  ASSUME TypeOK, NEW p \in Processes, Fail(p)
  PROVE  TypeOK'
<1>1. /\ pc' = [pc EXCEPT ![p] = "idle"] /\ req' = [req EXCEPT ![p] = Null]
      /\ snap' = [snap EXCEPT ![p] = Null] /\ ref' = [ref EXCEPT ![p] = NoTx]
      /\ verdict' = [verdict EXCEPT ![p] = "none"]
      /\ out' = [out EXCEPT ![p] = Null] /\ UNCHANGED db
  BY DEF Fail, Goto
<1>2. DbTypeOK'
  BY <1>1 DEF TypeOK, DbTypeOK, db, WalletRow, Row, Entry, EventRow
<1>3. ProcessTypeOK'
  BY <1>1 DEF TypeOK, DbTypeOK, ProcessTypeOK, db, Phases, Verdicts, NoTx
<1>4. PhaseOK'
  <2>1. "idle" \notin LockHeld /\ "none" # "move"
    BY DEF LockHeld, Inserted
  <2>2. ASSUME NEW q \in Processes, q # p
        PROVE  /\ pc'[q] = pc[q] /\ req'[q] = req[q] /\ snap'[q] = snap[q]
               /\ ref'[q] = ref[q] /\ verdict'[q] = verdict[q] /\ out'[q] = out[q]
    BY <1>1, <2>2 DEF TypeOK, ProcessTypeOK
  <2>3. pc'[p] = "idle" /\ verdict'[p] = "none"
    BY <1>1 DEF TypeOK, ProcessTypeOK
  <2> QED  BY <1>1, <2>1, <2>2, <2>3 DEF TypeOK, PhaseOK, db
<1> QED  BY <1>2, <1>3, <1>4 DEF TypeOK

\* A quiet step keeps the types.
LEMMA QuietTypeOK ==
  ASSUME TypeOK, NEW p \in Processes, Quiet(p)
  PROVE  TypeOK'
<1>1. Own(p) /\ txs' = txs /\ wallets' = wallets /\ ledger' = ledger /\ outbox' = outbox
  BY DEF Quiet, db
<1>2. DbTypeOK'
  BY <1>1 DEF TypeOK, DbTypeOK, WalletRow, Row, Entry, EventRow
<1>3. ProcessTypeOK'
  <2>1. snap'[p] \in WalletRow \cup {Null} /\ out'[p] \in AnswerRow \cup {Null}
    BY DEF Quiet, TypeOK, ProcessTypeOK
  <2>2. Len(txs') \in Nat /\ Len(txs') >= Len(txs)
    BY <1>1 DEF TypeOK, DbTypeOK
  <2> QED  BY <1>1, <2>1, <2>2, OwnType DEF Quiet
<1>4. PhaseOK'
  <2>1. req[p] \in Requests
    BY DEF Quiet, TypeOK, PhaseOK
  <2>2. pc'[p] \in LockHeld =>
          /\ req[p].wallet \in Wallets /\ snap'[p] \in WalletRow
          /\ WellFormed(req[p].kind, req[p].amount, req[p].ref # NoRef)
    BY DEF Quiet, TypeOK, PhaseOK
  <2> QED  BY <1>1, <2>1, <2>2, OthersPhase DEF Quiet
<1> QED  BY <1>2, <1>3, <1>4 DEF TypeOK

\* Taking the row lock keeps the types.
LEMMA LocksTypeOK ==
  ASSUME TypeOK, NEW p \in Processes, Locks(p)
  PROVE  TypeOK'
<1>1. /\ Own(p) /\ txs' = txs /\ wallets' = wallets /\ ledger' = ledger /\ outbox' = outbox
      /\ ref' = ref /\ verdict' = verdict /\ out' = out
  BY DEF Locks, db
<1>2. DbTypeOK'
  BY <1>1 DEF TypeOK, DbTypeOK, WalletRow, Row, Entry, EventRow
<1>3. snap'[p] \in WalletRow /\ pc'[p] \in Phases
  BY DEF Locks, TypeOK, DbTypeOK, Phases, InTx, LockHeld
<1>4. ProcessTypeOK'
  <2>1. Len(txs') \in Nat /\ Len(txs') >= Len(txs)
    BY <1>1 DEF TypeOK, DbTypeOK
  <2>2. ref'[p] \in 0..Len(txs') /\ verdict'[p] \in Verdicts /\ out'[p] \in AnswerRow \cup {Null}
    BY <1>1 DEF TypeOK, ProcessTypeOK
  <2> QED  BY <1>1, <1>3, <2>1, <2>2, OwnType
<1>5. PhaseOK'
  <2>1. req[p] \in Requests
    BY DEF Locks, TypeOK, PhaseOK
  <2>2. verdict'[p] = "move" => ref'[p] \in DOMAIN txs'
    BY <1>1 DEF TypeOK, PhaseOK
  <2> QED  BY <1>1, <1>3, <2>1, <2>2, OthersPhase DEF Locks
<1> QED  BY <1>2, <1>4, <1>5 DEF TypeOK

\* A claim keeps the types.
LEMMA ClaimsTypeOK ==
  ASSUME TypeOK, NEW p \in Processes, Claims(p)
  PROVE  TypeOK'
<1>1. /\ Own(p) /\ txs' = txs /\ wallets' = wallets /\ ledger' = ledger /\ outbox' = outbox
      /\ ref' = ref /\ verdict' = verdict /\ out' = out /\ snap' = snap
      /\ pc[p] = "claim" /\ pc'[p] = "apply"
  BY DEF Claims, db
<1>2. DbTypeOK'
  BY <1>1 DEF TypeOK, DbTypeOK, WalletRow, Row, Entry, EventRow
<1>3. pc[p] \in LockHeld /\ pc'[p] \in Phases
  BY <1>1 DEF Phases, InTx, LockHeld, Inserted
<1>4. ProcessTypeOK'
  <2>1. Len(txs') \in Nat /\ Len(txs') >= Len(txs)
    BY <1>1 DEF TypeOK, DbTypeOK
  <2>2. /\ ref'[p] \in 0..Len(txs') /\ verdict'[p] \in Verdicts
        /\ out'[p] \in AnswerRow \cup {Null} /\ snap'[p] \in WalletRow \cup {Null}
    BY <1>1 DEF TypeOK, ProcessTypeOK
  <2> QED  BY <1>1, <1>3, <2>1, <2>2, OwnType
<1>5. PhaseOK'
  <2>1. /\ req[p] \in Requests /\ req[p].wallet \in Wallets /\ snap'[p] \in WalletRow
        /\ WellFormed(req[p].kind, req[p].amount, req[p].ref # NoRef)
        /\ (verdict'[p] = "move" => ref'[p] \in DOMAIN txs')
    BY <1>1, <1>3 DEF TypeOK, PhaseOK
  <2> QED  BY <1>1, <2>1, OthersPhase
<1> QED  BY <1>2, <1>4, <1>5 DEF TypeOK

\* A commit that keeps the types of the wallets and the ledger keeps them all.
LEMMA CommitsTypeOK ==
  ASSUME TypeOK, NEW p \in Processes, NEW row \in Row, Commits(p, row),
         wallets' \in [Wallets -> WalletRow], ledger' \in [Wallets -> Seq(Entry)]
  PROVE  TypeOK'
<1>1. txs' \in Seq(Row) /\ Len(txs') = Len(txs) + 1 /\ Len(txs) \in Nat
      /\ \A i \in DOMAIN txs : i \in DOMAIN txs' /\ txs'[i] = txs[i]
  BY DEF Commits, TypeOK, DbTypeOK
<1>2. DbTypeOK'
  <2>1. outbox' \in Seq(EventRow)
    BY DEF Commits
  <2> QED  BY <1>1, <2>1 DEF DbTypeOK, WalletRow, Row, Entry, EventRow
<1>3. pc'[p] = "answered" /\ pc'[p] \in Phases /\ pc'[p] \notin LockHeld
  BY DEF Commits, Phases, InTx, LockHeld, Inserted
<1>4. ProcessTypeOK'
  <2>1. ref'[p] \in 0..Len(txs') /\ verdict'[p] \in Verdicts
    BY <1>1 DEF Commits, NoTx, Verdicts
  <2>2. Own(p) /\ snap'[p] = Null /\ out'[p] \in AnswerRow
    BY DEF Commits
  <2> QED  BY <1>1, <1>3, <2>1, <2>2, OwnType
<1>5. PhaseOK'
  <2>1. pc[p] # "idle"
    BY DEF Commits, Inserted
  <2>2. req[p] \in Requests
    BY <2>1 DEF TypeOK, PhaseOK
  <2> QED  BY <1>1, <1>3, <2>2, OthersPhase DEF Commits
<1> QED  BY <1>2, <1>4, <1>5 DEF TypeOK

\* A commit without a movement keeps the types.
LEMMA RecordsTypeOK ==
  ASSUME TypeOK, NEW p \in Processes, Records(p)
  PROVE  TypeOK'
<1>1. PICK row \in Row : Commits(p, row) /\ UNCHANGED <<wallets, ledger>>
  BY DEF Records
<1>2. wallets' \in [Wallets -> WalletRow] /\ ledger' \in [Wallets -> Seq(Entry)]
  BY <1>1 DEF TypeOK, DbTypeOK
<1> QED  BY <1>1, <1>2, CommitsTypeOK

\* A commit with a movement keeps the types.
LEMMA PaysTypeOK ==
  ASSUME TypeOK, NEW p \in Processes, Pays(p)
  PROVE  TypeOK'
<1>1. PICK row \in Row, entry \in Entry : PaysEntry(p, row, entry)
  BY DEF Pays
<1>2. pc[p] \in Inserted
  BY <1>1 DEF PaysEntry, Commits
<1>3. [balance |-> entry.after, version |-> snap[p].version + 1] \in WalletRow
  BY <1>2, Settling DEF WalletRow, Entry
<1>4. wallets' \in [Wallets -> WalletRow]
  BY <1>1, <1>3 DEF PaysEntry, TypeOK, DbTypeOK
<1>5. ledger' \in [Wallets -> Seq(Entry)]
  <2>1. \A w \in Wallets : ledger[w] \in Seq(Entry) /\ Append(ledger[w], entry) \in Seq(Entry)
    BY DEF TypeOK, DbTypeOK
  <2>2. /\ ledger' = [ledger EXCEPT ![req[p].wallet] = Append(@, entry)]
        /\ ledger \in [Wallets -> Seq(Entry)]
    BY <1>1 DEF PaysEntry, TypeOK, DbTypeOK
  <2> QED  BY <2>1, <2>2
<1> QED  BY <1>1, <1>4, <1>5, CommitsTypeOK DEF PaysEntry

(***************************************************************************)
(* The row lock.                                                            *)
(***************************************************************************)
\* The inductive invariant: one lock holder per wallet, whose copy of the wallet
\* is current, so that the optimistic version check and the CHECK constraints
\* have nothing to refuse.
LockInv == TypeOK /\ LockExclusive /\ SnapshotCurrent /\ DefencesNeverTrip

\* The lock invariant holds when nothing has been sent.
LEMMA InitLockInv == Init => LockInv
<1> SUFFICES ASSUME Init PROVE LockInv
  OBVIOUS
<1>1. \A p \in Processes : pc[p] = "idle" /\ out[p] = Null
  BY DEF Init
<1>2. "idle" \notin LockHeld
  BY DEF LockHeld, Inserted
<1> QED
  BY <1>1, <1>2, InitTypeOK
     DEF LockInv, LockExclusive, SnapshotCurrent, DefencesNeverTrip

\* A step of p's own that takes no lock and moves no wallet.
LEMMA KeepsLocks ==
  ASSUME LockInv, NEW p \in Processes, Own(p), wallets' = wallets, TypeOK',
         pc'[p] \in LockHeld => pc[p] \in LockHeld /\ snap'[p] = snap[p],
         out'[p] = out[p] \/ out'[p].error \notin {"LOST_UPDATE", "CHECK_VIOLATION"}
  PROVE  LockInv'
<1>1. \A q \in Processes : q # p => pc'[q] = pc[q] /\ snap'[q] = snap[q] /\ out'[q] = out[q]
  BY DEF Own, LockInv, TypeOK, ProcessTypeOK
<1>2. \A q \in Processes : req'[q] = req[q]
  BY DEF Own
<1>3. LockExclusive'
  BY <1>1, <1>2 DEF LockInv, LockExclusive
<1>4. SnapshotCurrent'
  BY <1>1, <1>2 DEF LockInv, SnapshotCurrent
<1>5. DefencesNeverTrip'
  BY <1>1 DEF LockInv, DefencesNeverTrip
<1> QED  BY <1>3, <1>4, <1>5 DEF LockInv

\* Taking a free row lock keeps the lock invariant.
LEMMA LocksLockInv ==
  ASSUME LockInv, NEW p \in Processes, Locks(p)
  PROVE  LockInv'
<1>1. \A q \in Processes : q # p => pc'[q] = pc[q] /\ snap'[q] = snap[q]
  BY DEF Locks, Own, LockInv, TypeOK, ProcessTypeOK
<1>2. /\ req' = req /\ wallets' = wallets /\ out' = out
      /\ snap'[p] = wallets[req[p].wallet] /\ ~Locked(req[p].wallet)
  BY DEF Locks, Own, db
<1>3. LockExclusive'
  BY <1>1, <1>2 DEF LockInv, LockExclusive, Locked
<1>4. SnapshotCurrent'
  BY <1>1, <1>2 DEF LockInv, SnapshotCurrent
<1>5. DefencesNeverTrip'
  BY <1>2 DEF LockInv, DefencesNeverTrip
<1> QED  BY <1>3, <1>4, <1>5, LocksTypeOK DEF LockInv

\* A movement by the lock's holder keeps the lock invariant.
LEMMA PaysLockInv ==
  ASSUME LockInv, NEW p \in Processes, Pays(p)
  PROVE  LockInv'
<1>1. PICK row \in Row, entry \in Entry : PaysEntry(p, row, entry)
  BY DEF Pays
<1>2. \A q \in Processes : q # p => pc'[q] = pc[q] /\ snap'[q] = snap[q] /\ out'[q] = out[q]
  BY <1>1 DEF PaysEntry, Commits, Own, LockInv, TypeOK, ProcessTypeOK
<1>3. req' = req /\ pc'[p] \notin LockHeld /\ pc[p] \in LockHeld
      /\ out'[p].error = "none"
  BY <1>1 DEF PaysEntry, Commits, AnswersNewRow, Own, LockHeld, Inserted
<1>4. LockExclusive'
  BY <1>2, <1>3 DEF LockInv, LockExclusive
<1>5. SnapshotCurrent'
  <2> SUFFICES ASSUME NEW q \in Processes, pc'[q] \in LockHeld
               PROVE  snap'[q] = wallets'[req'[q].wallet]
    BY DEF SnapshotCurrent, LockHeld, Inserted
  <2>1. q # p /\ pc[q] \in LockHeld
    BY <1>2, <1>3
  <2>2. req[q].wallet # req[p].wallet /\ req[q].wallet \in Wallets
    BY <1>3, <2>1 DEF LockInv, LockExclusive, TypeOK, PhaseOK
  <2>3. wallets'[req[q].wallet] = wallets[req[q].wallet]
    BY <1>1, <2>2 DEF PaysEntry, LockInv, TypeOK, DbTypeOK
  <2> QED  BY <1>2, <1>3, <2>1, <2>3 DEF LockInv, SnapshotCurrent
<1>6. DefencesNeverTrip'
  BY <1>2, <1>3 DEF LockInv, DefencesNeverTrip
<1> QED  BY <1>4, <1>5, <1>6, PaysTypeOK DEF LockInv

\* The lock invariant is inductive.
LEMMA NextLockInv == LockInv /\ [Next]_vars => LockInv'
<1> SUFFICES ASSUME LockInv, [Next]_vars PROVE LockInv'
  OBVIOUS
<1> USE DEF LockInv
<1>1. ASSUME NEW p \in Processes, NEW r \in Requests, Receive(p, r)
      PROVE  LockInv'
  <2>1. /\ pc' = [pc EXCEPT ![p] = "lookup"] /\ req' = [req EXCEPT ![p] = r]
        /\ out' = [out EXCEPT ![p] = Null] /\ snap' = snap /\ wallets' = wallets
    BY <1>1 DEF Receive, Goto, db
  <2>2. pc'[p] \notin LockHeld
    BY <2>1 DEF LockHeld, Inserted, TypeOK, ProcessTypeOK
  <2>3. \A q \in Processes : q # p => pc'[q] = pc[q] /\ req'[q] = req[q] /\ out'[q] = out[q]
    BY <2>1 DEF TypeOK, ProcessTypeOK
  <2>4. out'[p] = Null
    BY <2>1 DEF TypeOK, ProcessTypeOK
  <2>5. LockExclusive' /\ SnapshotCurrent' /\ DefencesNeverTrip'
    BY <2>1, <2>2, <2>3, <2>4 DEF LockExclusive, SnapshotCurrent, DefencesNeverTrip
  <2> QED  BY <1>1, <2>5, ReceiveTypeOK
<1>2. ASSUME NEW p \in Processes, Step(p)
      PROVE  LockInv'
  <2>1. CASE Quiet(p)
    <3>1. Own(p) /\ wallets' = wallets /\ TypeOK'
      BY <2>1, QuietTypeOK DEF Quiet, db
    <3> QED  BY <2>1, <3>1, KeepsLocks DEF Quiet
  <2>2. CASE Locks(p)
    BY <2>2, LocksLockInv
  <2>3. CASE Claims(p)
    <3>1. Own(p) /\ wallets' = wallets /\ TypeOK'
      BY <2>3, ClaimsTypeOK DEF Claims, db
    <3> QED  BY <2>3, <3>1, KeepsLocks DEF Claims, LockHeld
  <2>4. CASE Records(p)
    <3>1. PICK row \in Row : Commits(p, row) /\ UNCHANGED <<wallets, ledger>>
      BY <2>4 DEF Records
    <3>2. Own(p) /\ pc'[p] \notin LockHeld /\ out'[p].error = "none"
      BY <3>1 DEF Commits, AnswersNewRow, LockHeld, Inserted
    <3>3. TypeOK'
      BY <2>4, RecordsTypeOK
    <3> QED  BY <3>1, <3>2, <3>3, KeepsLocks
  <2>5. CASE Pays(p)
    BY <2>5, PaysLockInv
  <2> QED  BY <1>2, <2>1, <2>2, <2>3, <2>4, <2>5, StepShape
<1>3. ASSUME NEW p \in Processes, Fail(p)
      PROVE  LockInv'
  <2>1. /\ pc' = [pc EXCEPT ![p] = "idle"] /\ req' = [req EXCEPT ![p] = Null]
        /\ snap' = [snap EXCEPT ![p] = Null] /\ out' = [out EXCEPT ![p] = Null]
        /\ wallets' = wallets
    BY <1>3 DEF Fail, Goto, db
  <2>2. pc'[p] \notin LockHeld
    BY <2>1 DEF LockHeld, Inserted, TypeOK, ProcessTypeOK
  <2>3. \A q \in Processes : q # p => pc'[q] = pc[q] /\ req'[q] = req[q] /\ snap'[q] = snap[q]
    BY <2>1 DEF TypeOK, ProcessTypeOK
  <2>4. out'[p] = Null /\ \A q \in Processes : q # p => out'[q] = out[q]
    BY <2>1 DEF TypeOK, ProcessTypeOK
  <2>5. LockExclusive' /\ SnapshotCurrent' /\ DefencesNeverTrip'
    BY <2>1, <2>2, <2>3, <2>4 DEF LockExclusive, SnapshotCurrent, DefencesNeverTrip
  <2> QED  BY <1>3, <2>5, FailTypeOK
<1>4. CASE UNCHANGED vars
  BY <1>4 DEF vars, TypeOK, DbTypeOK, ProcessTypeOK, PhaseOK, LockExclusive,
              SnapshotCurrent, DefencesNeverTrip, WalletRow, Row, Entry, EventRow,
              AnswerRow, Phases, LockHeld, Inserted
<1> QED  BY <1>1, <1>2, <1>3, <1>4 DEF Next

\* The lock invariant always holds.
LEMMA AlwaysLockInv == Spec => []LockInv
  BY InitLockInv, NextLockInv, PTL DEF Spec

\* Whatever callers send, retry, lose or race for: every row keeps its column
\* types (no balance below zero or beyond int64), and every process finds what
\* its next statement needs.
THEOREM AlwaysTypeOK == Spec => []TypeOK
<1>1. LockInv => TypeOK
  BY DEF LockInv
<1> QED  BY <1>1, AlwaysLockInv, PTL

\* The row lock alone keeps wallets consistent: the version check of UPDATE
\* wallets and the CHECK constraints never refuse a commit.
THEOREM AlwaysDefencesNeverTrip == Spec => []DefencesNeverTrip
<1>1. LockInv => DefencesNeverTrip
  BY DEF LockInv
<1> QED  BY <1>1, AlwaysLockInv, PTL

\* One lock holder per wallet, with a current copy of it: what every decision of
\* the use case relies on.
THEOREM AlwaysLockProtectsWallet == Spec => []LockProtectsWallet
<1>1. LockInv => LockProtectsWallet
  BY DEF LockInv, LockProtectsWallet
<1> QED  BY <1>1, AlwaysLockInv, PTL
=============================================================================
