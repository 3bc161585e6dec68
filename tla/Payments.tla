------------------------------ MODULE Payments ------------------------------
(***************************************************************************)
(* The payments service (services/payments): the collect and payout calls, *)
(* the provider webhooks, the SQLite database they share, the in-memory    *)
(* event queue, and the crash of the process.                              *)
(*                                                                         *)
(* A handler is cut wherever another thread can run: each SQL statement,   *)
(* the provider call, the publication and the COMMIT are steps.  SQLite    *)
(* takes no write lock for the SELECT that opens a transaction, takes it   *)
(* at the first INSERT or UPDATE, and keeps it until COMMIT or ROLLBACK:   *)
(* writer is its holder, txn the tables as the holder sees them, and db    *)
(* the committed tables everybody else reads.                              *)
(*                                                                         *)
(* A uuid or provider reference is fresh, so a row is named by the call    *)
(* that inserts it.  Amounts, currencies, links and timestamps are left    *)
(* out: no branch of the service depends on them.                          *)
(*                                                                         *)
(* A definition followed by another of the same shape that no action uses  *)
(* (Unconstrained, AlwaysRecorded, FailSilently, AutocommitBy, ...) is a   *)
(* plausible mistake; the README says which property finds it.             *)
(***************************************************************************)
EXTENDS Naturals, Sequences

CONSTANTS
  Collects,     \* calls of post_collect_create; also the payment ids
  PayoutCalls,  \* calls of post_payout_create; also the payout ids
  Webhooks,     \* webhook notifications of the providers
  Keys,         \* values of the Idempotency-Key header
  None,         \* no key, no id, nobody
  MaxFaults     \* bound on failed statements, busy timeouts and crashes

Calls   == Collects \cup PayoutCalls
Threads == Calls \cup Webhooks

ASSUME ConstantsAssumption ==
  /\ Collects \cap PayoutCalls = {}
  /\ Calls \cap Webhooks = {}
  /\ None \notin Threads \cup Keys
  /\ MaxFaults \in Nat

VARIABLES
  pc,         \* where each call or webhook is in its handler
  key,        \* the Idempotency-Key of each call
  hook,       \* what each webhook is about
  result,     \* the id a finished handler returned with status 200
  db,         \* the committed tables
  txn,        \* the tables the holder of the write lock sees
  writer,     \* the holder of SQLite's write lock
  intents,    \* what the providers have created
  queue,      \* EventQueue._events
  draining,   \* TRUE while get_events holds EventQueue._lock
  batch,      \* the events get_events has popped so far
  received,   \* every event some answer of get_events carried
  published,  \* every event ever published, in order
  faults,     \* faults so far
  crashed     \* the process has crashed at least once

requestVars == <<key, hook, result>>
dbVars      == <<db, txn, writer>>
queueVars   == <<queue, draining, batch, received, published>>
faultVars   == <<faults, crashed>>
vars == <<pc, requestVars, dbVars, intents, queueVars, faultVars>>

-----------------------------------------------------------------------------
(* The tables.                                                             *)

PaymentStatus == {"pending", "succeeded", "settled"}
PayoutStatus  == {"processing", "paid"}
Status == PaymentStatus \cup PayoutStatus \cup {"absent", "stored"}

Row    == [key : Keys \cup {None}, status : Status]
Absent == [key |-> None, status |-> "absent"]

Tables == [payments      : [Collects -> Row],
           fees          : SUBSET Collects,
           beneficiaries : [PayoutCalls -> Row],
           payouts       : [PayoutCalls -> Row]]

EmptyTables == [payments      |-> [c \in Collects |-> Absent],
                fees          |-> {},
                beneficiaries |-> [c \in PayoutCalls |-> Absent],
                payouts       |-> [c \in PayoutCalls |-> Absent]]

Has(table, id) == table[id].status # "absent"

\* INSERT a row, and UPDATE the status of one.
Insert(table, id, k, s) == [table EXCEPT ![id] = [key |-> k, status |-> s]]
SetStatus(table, id, s) == Insert(table, id, table[id].key, s)

\* The tables with one of them replaced.
WithPayments(T, p) == [payments |-> p, fees |-> T.fees,
                       beneficiaries |-> T.beneficiaries, payouts |-> T.payouts]
WithFees(T, f)     == [payments |-> T.payments, fees |-> f,
                       beneficiaries |-> T.beneficiaries, payouts |-> T.payouts]
WithBeneficiaries(T, b) == [payments |-> T.payments, fees |-> T.fees,
                            beneficiaries |-> b, payouts |-> T.payouts]
WithPayouts(T, p)  == [payments |-> T.payments, fees |-> T.fees,
                       beneficiaries |-> T.beneficiaries, payouts |-> p]

\* The SELECT by idempotency key finds a row.
KeyTaken(table, ids, k) == k # None /\ \E id \in ids : table[id].key = k

\* The UNIQUE constraint on idempotency_key; SQL lets NULL repeat.
Unconstrained(table, ids, k)  == FALSE
ViolatesUnique(table, ids, k) == k # None /\ \E id \in ids : table[id].key = k

\* The row a webhook is about is in the tables.
AlwaysRecorded(tables, ref) == TRUE
Recorded(tables, ref) == IF ref \in Collects THEN Has(tables.payments, ref)
                                             ELSE Has(tables.payouts, ref)

InHandler == {"lookup", "provider", "insert", "insert2", "mark", "publish",
              "settle", "commit"}
HoldsLock == {"insert2", "publish", "settle", "commit"}
PC == InHandler \cup {"idle", "done", "failed"}

Hook == [ref : Calls \cup {None}, byId : BOOLEAN, recorded : BOOLEAN]

Goto(t, label)  == pc' = [pc EXCEPT ![t] = label]
Answer(t, id)   == result' = [result EXCEPT ![t] = id]

\* The exception leaves the handler, so the caller gets no 200.
FailSilently(t) == Goto(t, "done")
Fail(t)         == Goto(t, "failed")

\* The first write of a transaction takes the lock; later writes keep it.
AutocommitBy(t, tables) == writer' = t /\ txn' = tables /\ db' = tables
WriteBy(t, tables)      == writer' = t /\ txn' = tables /\ UNCHANGED db

\* The ids and the table that the SELECT of a call looks at.
Ids(c) == IF c \in Collects THEN Collects ELSE PayoutCalls
MainTable(tables, c) == IF c \in Collects THEN tables.payments ELSE tables.payouts

\* The payment or payout a thread is about.
SubjectIsThread(t) == t
Subject(t) == IF t \in Webhooks THEN hook[t].ref ELSE t

\* What can fail does so at most MaxFaults times.
Fault == faults < MaxFaults /\ faults' = faults + 1

-----------------------------------------------------------------------------
Init ==
  /\ pc = [t \in Threads |-> "idle"]
  /\ key = [c \in Calls |-> None]
  /\ hook = [w \in Webhooks |-> [ref |-> None, byId |-> FALSE, recorded |-> FALSE]]
  /\ result = [t \in Threads |-> None]
  /\ db = EmptyTables /\ txn = EmptyTables /\ writer = None
  /\ intents = {}
  /\ queue = <<>> /\ draining = FALSE /\ batch = <<>>
  /\ received = <<>> /\ published = <<>>
  /\ faults = 0 /\ crashed = FALSE

-----------------------------------------------------------------------------
(* create_collect and create_payout.                                       *)

\* A client calls, with or without an Idempotency-Key.
Begin(c) ==
  /\ pc[c] = "idle"
  /\ \E k \in Keys \cup {None} : key' = [key EXCEPT ![c] = k]
  /\ Goto(c, "lookup")
  /\ UNCHANGED <<hook, result, dbVars, intents, queueVars, faultVars>>

\* The key is known: the stored payment or payout is the answer.
Replay(c) ==
  /\ pc[c] = "lookup"
  /\ key[c] # None
  /\ \E id \in Ids(c) : MainTable(db, c)[id].key = key[c] /\ Answer(c, id)
  /\ Goto(c, "done")
  /\ UNCHANGED <<key, hook, dbVars, intents, queueVars, faultVars>>

Miss(c) ==
  /\ pc[c] = "lookup"
  /\ ~KeyTaken(MainTable(db, c), Ids(c), key[c])
  /\ Goto(c, "provider")
  /\ UNCHANGED <<requestVars, dbVars, intents, queueVars, faultVars>>

\* The provider answers, after at most three attempts, with a new reference.
ProviderCreates(c) ==
  /\ pc[c] = "provider"
  /\ intents' = intents \cup {c}
  /\ Goto(c, "insert")
  /\ UNCHANGED <<requestVars, dbVars, queueVars, faultVars>>

InsertPayment(c) ==
  /\ pc[c] = "insert" /\ c \in Collects
  /\ writer = None
  /\ ~ViolatesUnique(db.payments, Collects, key[c])
  /\ WriteBy(c, WithPayments(db, Insert(db.payments, c, key[c], "pending")))
  /\ Goto(c, "insert2")
  /\ UNCHANGED <<requestVars, intents, queueVars, faultVars>>

InsertFee(c) ==
  /\ pc[c] = "insert2" /\ c \in Collects
  /\ WriteBy(c, WithFees(txn, txn.fees \cup {c}))
  /\ Goto(c, "commit")
  /\ UNCHANGED <<requestVars, intents, queueVars, faultVars>>

InsertBeneficiary(c) ==
  /\ pc[c] = "insert" /\ c \in PayoutCalls
  /\ writer = None
  /\ ~ViolatesUnique(db.beneficiaries, PayoutCalls, key[c])
  /\ WriteBy(c, WithBeneficiaries(db, Insert(db.beneficiaries, c, key[c], "stored")))
  /\ Goto(c, "insert2")
  /\ UNCHANGED <<requestVars, intents, queueVars, faultVars>>

InsertPayout(c) ==
  /\ pc[c] = "insert2" /\ c \in PayoutCalls
  /\ WriteBy(c, WithPayouts(txn, Insert(txn.payouts, c, key[c], "processing")))
  /\ Goto(c, "commit")
  /\ UNCHANGED <<requestVars, intents, queueVars, faultVars>>

FirstTable(tables, c) == IF c \in Collects THEN tables.payments ELSE tables.beneficiaries

\* IntegrityError: a call with the same key committed after our SELECT.  What
\* the provider created stays behind.

ConflictAnswers(c) ==
  /\ pc[c] = "insert" /\ writer = None
  /\ ViolatesUnique(FirstTable(db, c), Ids(c), key[c])
  /\ Answer(c, c) /\ Goto(c, "done")
  /\ UNCHANGED <<key, hook, dbVars, intents, queueVars, faultVars>>

Conflict(c) ==
  /\ pc[c] = "insert"
  /\ writer = None
  /\ ViolatesUnique(FirstTable(db, c), Ids(c), key[c])
  /\ Fail(c)
  /\ UNCHANGED <<requestVars, dbVars, intents, queueVars, faultVars>>

(* The webhooks.                                                           *)

\* A provider reports one of its intents or transfers, any number of times and
\* at any moment; the metadata may name the payment id once it is recorded.
Receive(w) ==
  /\ pc[w] = "idle"
  /\ \E ref \in intents, byId \in BOOLEAN :
       /\ byId => ref \in Collects /\ Recorded(db, ref)
       /\ hook' = [hook EXCEPT ![w] = [ref |-> ref, byId |-> byId,
                                       recorded |-> Recorded(db, ref)]]
  /\ Goto(w, "lookup")
  /\ UNCHANGED <<key, result, dbVars, intents, queueVars, faultVars>>

\* A bad signature (400), an unknown provider (404) or another event type (200).
Refuse(w) ==
  /\ pc[w] = "idle"
  /\ Goto(w, "done")
  /\ UNCHANGED <<requestVars, dbVars, intents, queueVars, faultVars>>

FindRow(w) ==
  /\ pc[w] = "lookup"
  /\ IF Recorded(db, hook[w].ref) THEN Goto(w, "mark") ELSE Goto(w, "done")
  /\ UNCHANGED <<requestVars, dbVars, intents, queueVars, faultVars>>

\* mark_payment_succeeded: the first UPDATE.
MarkSucceeded(w) ==
  /\ pc[w] = "mark" /\ hook[w].ref \in Collects /\ ~hook[w].byId
  /\ writer = None
  /\ WriteBy(w, WithPayments(db, SetStatus(db.payments, hook[w].ref, "succeeded")))
  /\ Goto(w, "publish")
  /\ UNCHANGED <<requestVars, intents, queueVars, faultVars>>

\* settle_payment_by_id: its only UPDATE.
SettleById(w) ==
  /\ pc[w] = "mark" /\ hook[w].byId
  /\ writer = None
  /\ WriteBy(w, WithPayments(db, SetStatus(db.payments, hook[w].ref, "settled")))
  /\ Goto(w, "publish")
  /\ UNCHANGED <<requestVars, intents, queueVars, faultVars>>

AfterPublishCommit(w) == "commit"
AfterPublish(w)       == IF hook[w].byId THEN "commit" ELSE "settle"

\* publish_payment_settled, inside the transaction; it waits for the queue.
Publish(w) ==
  /\ pc[w] = "publish"
  /\ ~draining
  /\ queue' = Append(queue, Subject(w))
  /\ published' = Append(published, Subject(w))
  /\ Goto(w, AfterPublish(w))
  /\ UNCHANGED <<requestVars, dbVars, intents, draining, batch, received, faultVars>>

\* mark_payment_succeeded: the last UPDATE.
MarkSettled(w) ==
  /\ pc[w] = "settle"
  /\ WriteBy(w, WithPayments(txn, SetStatus(txn.payments, hook[w].ref, "settled")))
  /\ Goto(w, "commit")
  /\ UNCHANGED <<requestVars, intents, queueVars, faultVars>>

\* mark_payout_paid.
MarkPaid(w) ==
  /\ pc[w] = "mark" /\ hook[w].ref \in PayoutCalls
  /\ writer = None
  /\ WriteBy(w, WithPayouts(db, SetStatus(db.payouts, hook[w].ref, "paid")))
  /\ Goto(w, "commit")
  /\ UNCHANGED <<requestVars, intents, queueVars, faultVars>>

\* The handler raised, so the provider got no 200 and delivers again.
Redeliver(w) ==
  /\ pc[w] = "failed"
  /\ hook' = [hook EXCEPT ![w] = [ref |-> hook[w].ref, byId |-> hook[w].byId,
                                  recorded |-> Recorded(db, hook[w].ref)]]
  /\ Goto(w, "lookup")
  /\ UNCHANGED <<key, result, dbVars, intents, queueVars, faultVars>>

(* The end of a transaction, and what can go wrong.                        *)

\* db_transaction commits and the handler answers 200.
Commit(t) ==
  /\ pc[t] = "commit"
  /\ db' = txn /\ writer' = None
  /\ Answer(t, Subject(t))
  /\ Goto(t, "done")
  /\ UNCHANGED <<key, hook, txn, intents, queueVars, faultVars>>

\* A statement or the COMMIT itself raises: db_transaction rolls back.
Rollback(t) ==
  /\ pc[t] \in HoldsLock
  /\ Fault
  /\ txn' = db /\ writer' = None
  /\ Fail(t)
  /\ UNCHANGED <<requestVars, db, intents, queueVars, crashed>>

\* Before any write: the provider's last attempt raised, or the write lock was
\* not free within SQLite's busy timeout.
GiveUp(t) ==
  /\ \/ pc[t] = "provider"
     \/ pc[t] \in {"insert", "mark"} /\ writer # None
  /\ Fault
  /\ Fail(t)
  /\ UNCHANGED <<requestVars, dbVars, intents, queueVars, crashed>>

\* The process dies and restarts: handlers, queue and locks are gone, SQLite
\* drops the open transaction.
Crash ==
  /\ Fault
  /\ pc' = [t \in Threads |-> IF pc[t] \in InHandler THEN "failed" ELSE pc[t]]
  /\ txn' = db /\ writer' = None
  /\ queue' = <<>> /\ batch' = <<>> /\ draining' = FALSE
  /\ crashed' = TRUE
  /\ UNCHANGED <<requestVars, db, intents, received, published>>

(* get_events: the generator drain() holds the lock until it is exhausted. *)
(* On an empty queue the call changes nothing.                             *)

DrainBegin ==
  /\ ~draining /\ queue # <<>>
  /\ draining' = TRUE
  /\ UNCHANGED <<pc, requestVars, dbVars, intents, queue, batch, received, published, faultVars>>

DrainPopLast ==
  /\ draining /\ queue # <<>>
  /\ batch' = Append(batch, queue[Len(queue)])
  /\ queue' = SubSeq(queue, 1, Len(queue) - 1)
  /\ UNCHANGED <<pc, requestVars, dbVars, intents, draining, received, published, faultVars>>

DrainPop ==
  /\ draining /\ queue # <<>>
  /\ batch' = Append(batch, Head(queue))
  /\ queue' = Tail(queue)
  /\ UNCHANGED <<pc, requestVars, dbVars, intents, draining, received, published, faultVars>>

DrainEndKeepsLock ==
  /\ draining /\ queue = <<>>
  /\ received' = received \o batch
  /\ batch' = <<>>
  /\ UNCHANGED <<pc, requestVars, dbVars, intents, queue, draining, published, faultVars>>

DrainEnd ==
  /\ draining /\ queue = <<>>
  /\ draining' = FALSE
  /\ received' = received \o batch
  /\ batch' = <<>>
  /\ UNCHANGED <<pc, requestVars, dbVars, intents, queue, published, faultVars>>

-----------------------------------------------------------------------------
CallStep(c) ==
  \/ Replay(c) \/ Miss(c) \/ ProviderCreates(c) \/ Conflict(c)
  \/ InsertPayment(c) \/ InsertFee(c) \/ InsertBeneficiary(c) \/ InsertPayout(c)
  \/ Commit(c)

WebhookStep(w) ==
  \/ FindRow(w) \/ MarkSucceeded(w) \/ SettleById(w) \/ Publish(w)
  \/ MarkSettled(w) \/ MarkPaid(w) \/ Commit(w)

Next ==
  \/ \E c \in Calls : Begin(c) \/ CallStep(c)
  \/ \E w \in Webhooks : Receive(w) \/ Refuse(w) \/ Redeliver(w) \/ WebhookStep(w)
  \/ \E t \in Threads : Rollback(t) \/ GiveUp(t)
  \/ Crash
  \/ DrainBegin \/ DrainPop \/ DrainEnd

Spec == Init /\ [][Next]_vars

\* Threads of the server are scheduled, get_events runs to its end, and a
\* provider repeats a webhook that was not answered with 200.
Fairness ==
  /\ \A c \in Calls : WF_vars(CallStep(c))
  /\ \A w \in Webhooks : WF_vars(WebhookStep(w)) /\ WF_vars(Redeliver(w))
  /\ WF_vars(DrainPop \/ DrainEnd)

FairSpec == Spec /\ Fairness

-----------------------------------------------------------------------------
(* Properties.                                                             *)

\* Every variable has its type.
TypeOK ==
  /\ pc \in [Threads -> PC]
  /\ key \in [Calls -> Keys \cup {None}]
  /\ hook \in [Webhooks -> Hook]
  /\ result \in [Threads -> Calls \cup {None}]
  /\ db \in Tables /\ txn \in Tables
  /\ writer \in Threads \cup {None}
  /\ intents \subseteq Calls
  /\ queue \in Seq(Calls) /\ batch \in Seq(Calls)
  /\ received \in Seq(Calls) /\ published \in Seq(Calls)
  /\ draining \in BOOLEAN /\ crashed \in BOOLEAN
  /\ faults \in Nat

KeysUnique(table, ids) ==
  \A id1, id2 \in ids :
    table[id1].key # None /\ table[id1].key = table[id2].key => id1 = id2

\* However calls with one Idempotency-Key interleave between SELECT and
\* INSERT, each table keeps at most one row for the key.
OneRowPerKey ==
  /\ KeysUnique(db.payments, Collects)
  /\ KeysUnique(db.beneficiaries, PayoutCalls)
  /\ KeysUnique(db.payouts, PayoutCalls)

\* Two collects, or two payouts, that carried the same key and were both
\* answered with 200 were answered with the same id.
SameKeySameAnswer ==
  \A c1, c2 \in Calls :
    /\ Ids(c1) = Ids(c2)
    /\ key[c1] # None /\ key[c1] = key[c2]
    /\ result[c1] # None /\ result[c2] # None
    => result[c1] = result[c2]

Concluded(ref) == IF ref \in Collects THEN db.payments[ref].status = "settled"
                                      ELSE db.payouts[ref].status = "paid"

\* What was answered with 200 is in the database, whatever fails or crashes
\* afterwards: a call's id names a committed row with its key that the provider
\* knows of; a webhook sent when its row was committed has settled or paid it.
AnswerIsDurable ==
  /\ \A c \in Calls : result[c] # None =>
       LET id == result[c] IN
       /\ id \in Ids(c) \cap intents
       /\ Has(MainTable(db, c), id)
       /\ key[c] # None => MainTable(db, c)[id].key = key[c]
  /\ \A w \in Webhooks : pc[w] = "done" /\ hook[w].recorded => Concluded(hook[w].ref)

\* The two INSERTs of a handler are committed together: no payment without its
\* fee, no payout without its beneficiary, nor the other way round.
BothInsertsOrNone ==
  /\ \A c \in Collects : Has(db.payments, c) <=> c \in db.fees
  /\ \A c \in PayoutCalls :
       /\ Has(db.payouts, c) <=> Has(db.beneficiaries, c)
       /\ db.payouts[c].key = db.beneficiaries[c].key

Occurs(s, e) == \E i \in 1..Len(s) : s[i] = e

\* As long as the process lives, get_events hands out every event once and in
\* the order of publication.
EventsInOrder == ~crashed => published = received \o batch \o queue

Rank == [s \in Status |->
           CASE s = "absent" -> 0
             [] s \in {"pending", "processing", "stored"} -> 1
             [] s = "succeeded" -> 2
             [] s \in {"settled", "paid"} -> 3]

\* A committed row never disappears, never changes its key and never goes back
\* to an earlier status, although webhooks are repeated and come in any order.
NeverBack == [][
  /\ \A p \in Collects :
       /\ Rank[db.payments[p].status] <= Rank[db'.payments[p].status]
       /\ Has(db.payments, p) => db'.payments[p].key = db.payments[p].key
  /\ \A p \in PayoutCalls :
       /\ Rank[db.payouts[p].status] <= Rank[db'.payouts[p].status]
       /\ Has(db.payouts, p) => db'.payouts[p].key = db.payouts[p].key]_vars

\* The lock of the database and the lock of the queue never block a handler for
\* ever: every call is answered or fails, every webhook is answered.
HandlersEnd ==
  /\ \A c \in Calls : pc[c] = "lookup" ~> pc[c] \in {"done", "failed"}
  /\ \A w \in Webhooks : pc[w] = "lookup" ~> pc[w] = "done"

\* A webhook for a committed row settles it in the end, through failures and
\* crashes, because a failed webhook is not answered and comes again.
RecordedSettles ==
  \A w \in Webhooks :
    (pc[w] = "lookup" /\ hook[w].recorded) ~> (hook[w].recorded /\ Concluded(hook[w].ref))

\* The committed payments and the published events are the abstract ledger.
Ledger == INSTANCE PaymentLedger WITH
  Payments  <- Collects,
  keyOf     <- [p \in Collects |-> db.payments[p].key],
  state     <- [p \in Collects |-> db.payments[p].status],
  announced <- {p \in Collects : Occurs(published, p)}

LedgerSpec == Ledger!Spec
=============================================================================
