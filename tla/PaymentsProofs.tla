--------------------------- MODULE PaymentsProofs ---------------------------
(***************************************************************************)
(* Theorems about Payments for every set of calls, webhooks and keys and   *)
(* every number of faults.                                                 *)
(***************************************************************************)
EXTENDS Payments, TLAPS, SequenceTheorems

\* A webhook that is being handled, or that will come again, is about
\* something a provider created; only a payment is published or settled.
HookInv ==
  \A w \in Webhooks :
    /\ pc[w] \in InHandler \cup {"failed"} => hook[w].ref \in Calls
    /\ pc[w] \in {"publish", "settle"} => hook[w].ref \in Collects
    /\ hook[w].byId => hook[w].ref \in Collects

\* A write lock without a holder leaves nothing uncommitted, and its holder is
\* the one thread between its first write and its COMMIT.
LockInv ==
  /\ writer = None => txn = db
  /\ \A t \in Threads : pc[t] \in HoldsLock <=> writer = t

USE DEF Threads, Calls

(* Typing of the tables.                                                   *)

LEMMA EmptyTablesType == EmptyTables \in Tables
BY DEF Absent, Row, EmptyTables, Tables, Status

LEMMA InsertType ==
  ASSUME NEW ids, NEW table \in [ids -> Row], NEW id,
         NEW k \in Keys \cup {None}, NEW s \in Status
  PROVE  /\ Insert(table, id, k, s) \in [ids -> Row]
         /\ \A i \in ids : i # id => Insert(table, id, k, s)[i] = table[i]
         /\ id \in ids => /\ Insert(table, id, k, s)[id].key = k
                         /\ Insert(table, id, k, s)[id].status = s
BY DEF Insert, Row

LEMMA SetStatusType ==
  ASSUME NEW ids, NEW table \in [ids -> Row], NEW id \in ids, NEW s \in Status
  PROVE  /\ SetStatus(table, id, s) \in [ids -> Row]
         /\ \A i \in ids : i # id => SetStatus(table, id, s)[i] = table[i]
         /\ \A i \in ids : SetStatus(table, id, s)[i].key = table[i].key
         /\ SetStatus(table, id, s)[id].status = s
BY DEF SetStatus, Insert, Row

LEMMA WithType ==
  ASSUME NEW T \in Tables
  PROVE  /\ \A p \in [Collects -> Row] : WithPayments(T, p) \in Tables
         /\ \A f \in SUBSET Collects : WithFees(T, f) \in Tables
         /\ \A b \in [PayoutCalls -> Row] : WithBeneficiaries(T, b) \in Tables
         /\ \A p \in [PayoutCalls -> Row] : WithPayouts(T, p) \in Tables
         /\ T.payments \in [Collects -> Row] /\ T.fees \subseteq Collects
         /\ T.beneficiaries \in [PayoutCalls -> Row] /\ T.payouts \in [PayoutCalls -> Row]
BY DEF Tables, WithPayments, WithFees, WithBeneficiaries, WithPayouts

LEMMA TypeInit == Init => TypeOK /\ HookInv
<1> SUFFICES ASSUME Init PROVE TypeOK /\ HookInv
  OBVIOUS
<1>1. HookInv
  BY DEF Init, HookInv, InHandler
<1>2. queue \in Seq(Calls) /\ batch \in Seq(Calls) /\ received \in Seq(Calls)
        /\ published \in Seq(Calls)
  BY EmptySeq DEF Init
<1>3. /\ pc \in [Threads -> PC] /\ key \in [Calls -> Keys \cup {None}]
      /\ hook \in [Webhooks -> Hook] /\ result \in [Threads -> Calls \cup {None}]
  BY DEF Init, PC, Hook
<1>4. /\ db \in Tables /\ txn \in Tables /\ writer \in Threads \cup {None}
      /\ intents \subseteq Calls /\ draining \in BOOLEAN /\ crashed \in BOOLEAN
      /\ faults \in Nat
  BY EmptyTablesType DEF Init
<1> QED BY <1>1, <1>2, <1>3, <1>4 DEF TypeOK

\* What the calls insert is what their tables hold.
LEMMA InsertedRows ==
  ASSUME TypeOK, NEW c \in Calls
  PROVE  /\ Insert(db.payments, c, key[c], "pending") \in [Collects -> Row]
         /\ Insert(db.beneficiaries, c, key[c], "stored") \in [PayoutCalls -> Row]
         /\ Insert(txn.payouts, c, key[c], "processing") \in [PayoutCalls -> Row]
<1>1. db.payments \in [Collects -> Row] /\ db.beneficiaries \in [PayoutCalls -> Row]
  BY WithType DEF TypeOK
<1>2. txn.payouts \in [PayoutCalls -> Row]
  BY WithType DEF TypeOK
<1>3. key[c] \in Keys \cup {None}
  BY DEF TypeOK
<1>4. "pending" \in Status /\ "stored" \in Status /\ "processing" \in Status
  BY DEF Status, PaymentStatus, PayoutStatus
<1> QED BY <1>1, <1>2, <1>3, <1>4, InsertType

LEMMA TypeStep == TypeOK /\ HookInv /\ [Next]_vars => (TypeOK /\ HookInv)'
<1> SUFFICES ASSUME TypeOK, HookInv, [Next]_vars PROVE (TypeOK /\ HookInv)'
  OBVIOUS
<1> USE ConstantsAssumption DEF TypeOK, HookInv, PC, InHandler, Goto, Answer, Fail,
        requestVars, dbVars, queueVars, faultVars
<1>1. ASSUME NEW c \in Calls, Begin(c) PROVE (TypeOK /\ HookInv)'
  BY <1>1 DEF Begin
<1>2. ASSUME NEW c \in Calls, Replay(c) PROVE (TypeOK /\ HookInv)'
  BY <1>2 DEF Replay, Ids
<1>3. ASSUME NEW c \in Calls, Miss(c) PROVE (TypeOK /\ HookInv)'
  BY <1>3 DEF Miss
<1>4. ASSUME NEW c \in Calls, ProviderCreates(c) PROVE (TypeOK /\ HookInv)'
  BY <1>4 DEF ProviderCreates
<1>5. ASSUME NEW c \in Calls, InsertPayment(c) PROVE (TypeOK /\ HookInv)'
  <2>1. txn' \in Tables
    <3>1. Insert(db.payments, c, key[c], "pending") \in [Collects -> Row]
      BY InsertedRows
    <3> QED BY <1>5, <3>1, WithType DEF InsertPayment, WriteBy
  <2> QED BY <1>5, <2>1 DEF InsertPayment, WriteBy
<1>6. ASSUME NEW c \in Calls, InsertFee(c) PROVE (TypeOK /\ HookInv)'
  <2>1. txn' \in Tables
    BY <1>6, WithType DEF InsertFee, WriteBy
  <2> QED BY <1>6, <2>1 DEF InsertFee, WriteBy
<1>7. ASSUME NEW c \in Calls, InsertBeneficiary(c) PROVE (TypeOK /\ HookInv)'
  <2>1. txn' \in Tables
    <3>1. Insert(db.beneficiaries, c, key[c], "stored") \in [PayoutCalls -> Row]
      BY InsertedRows
    <3> QED BY <1>7, <3>1, WithType DEF InsertBeneficiary, WriteBy
  <2> QED BY <1>7, <2>1 DEF InsertBeneficiary, WriteBy
<1>8. ASSUME NEW c \in Calls, InsertPayout(c) PROVE (TypeOK /\ HookInv)'
  <2>1. txn' \in Tables
    <3>1. Insert(txn.payouts, c, key[c], "processing") \in [PayoutCalls -> Row]
      BY InsertedRows
    <3> QED BY <1>8, <3>1, WithType DEF InsertPayout, WriteBy
  <2> QED BY <1>8, <2>1 DEF InsertPayout, WriteBy
<1>9. ASSUME NEW c \in Calls, Conflict(c) PROVE (TypeOK /\ HookInv)'
  BY <1>9 DEF Conflict
<1>10. ASSUME NEW w \in Webhooks, Receive(w) PROVE (TypeOK /\ HookInv)'
  <2>1. PICK ref \in intents, byId \in BOOLEAN :
          /\ byId => ref \in Collects
          /\ hook' = [hook EXCEPT ![w] = [ref |-> ref, byId |-> byId,
                                          recorded |-> Recorded(db, ref)]]
    BY <1>10 DEF Receive
  <2>2. Recorded(db, ref) \in BOOLEAN
    BY DEF Recorded, Has
  <2>3. [ref |-> ref, byId |-> byId, recorded |-> Recorded(db, ref)] \in Hook
    BY <2>2 DEF Hook
  <2>4. /\ hook'[w].ref = ref /\ hook'[w].byId = byId
        /\ \A v \in Webhooks : v # w => hook'[v] = hook[v]
        /\ hook' \in [Webhooks -> Hook]
    BY <2>1, <2>3
  <2>5. HookInv'
    BY <1>10, <2>1, <2>4 DEF Receive
  <2> QED BY <1>10, <2>4, <2>5 DEF Receive
<1>11. ASSUME NEW w \in Webhooks, Refuse(w) PROVE (TypeOK /\ HookInv)'
  BY <1>11 DEF Refuse
<1>12. ASSUME NEW w \in Webhooks, FindRow(w) PROVE (TypeOK /\ HookInv)'
  <2>1. pc' = [pc EXCEPT ![w] = "mark"] \/ pc' = [pc EXCEPT ![w] = "done"]
    BY <1>12 DEF FindRow
  <2>2. pc[w] = "lookup" /\ UNCHANGED <<requestVars, dbVars, intents, queueVars, faultVars>>
    BY <1>12 DEF FindRow
  <2> QED BY <2>1, <2>2
<1>13. ASSUME NEW w \in Webhooks, MarkSucceeded(w) PROVE (TypeOK /\ HookInv)'
  <2>1. txn' \in Tables
    BY <1>13, SetStatusType, WithType DEF MarkSucceeded, WriteBy, Status, PaymentStatus
  <2> QED BY <1>13, <2>1 DEF MarkSucceeded, WriteBy
<1>14. ASSUME NEW w \in Webhooks, SettleById(w) PROVE (TypeOK /\ HookInv)'
  <2>1. txn' \in Tables
    BY <1>14, SetStatusType, WithType DEF SettleById, WriteBy, Status, PaymentStatus
  <2> QED BY <1>14, <2>1 DEF SettleById, WriteBy
<1>15. ASSUME NEW w \in Webhooks, Publish(w) PROVE (TypeOK /\ HookInv)'
  <2>1. queue' \in Seq(Calls) /\ published' \in Seq(Calls)
    BY <1>15, AppendProperties DEF Publish, Subject
  <2> QED BY <1>15, <2>1 DEF Publish, AfterPublish
<1>16. ASSUME NEW w \in Webhooks, MarkSettled(w) PROVE (TypeOK /\ HookInv)'
  <2>1. txn' \in Tables
    BY <1>16, SetStatusType, WithType DEF MarkSettled, WriteBy, Status, PaymentStatus
  <2> QED BY <1>16, <2>1 DEF MarkSettled, WriteBy
<1>17. ASSUME NEW w \in Webhooks, MarkPaid(w) PROVE (TypeOK /\ HookInv)'
  <2>1. txn' \in Tables
    BY <1>17, SetStatusType, WithType DEF MarkPaid, WriteBy, Status, PayoutStatus
  <2> QED BY <1>17, <2>1 DEF MarkPaid, WriteBy
<1>18. ASSUME NEW w \in Webhooks, Redeliver(w) PROVE (TypeOK /\ HookInv)'
  BY <1>18 DEF Redeliver, Recorded, Hook, Has
<1>19. ASSUME NEW t \in Threads, Commit(t) PROVE (TypeOK /\ HookInv)'
  BY <1>19 DEF Commit, Subject, Hook
<1>20. ASSUME NEW t \in Threads, Rollback(t) PROVE (TypeOK /\ HookInv)'
  BY <1>20 DEF Rollback, Fault, HoldsLock
<1>21. ASSUME NEW t \in Threads, GiveUp(t) PROVE (TypeOK /\ HookInv)'
  BY <1>21 DEF GiveUp, Fault
<1>22. CASE Crash
  <2>1. queue' \in Seq(Calls) /\ batch' \in Seq(Calls)
    BY <1>22, EmptySeq DEF Crash
  <2>2. pc' \in [Threads -> PC] /\ faults' \in Nat
    BY <1>22 DEF Crash, Fault
  <2>3. HookInv'
    BY <1>22 DEF Crash
  <2> QED BY <1>22, <2>1, <2>2, <2>3 DEF Crash
<1>23. CASE DrainBegin
  BY <1>23 DEF DrainBegin
<1>24. CASE DrainPop
  <2>1. queue' \in Seq(Calls) /\ batch' \in Seq(Calls)
    BY <1>24, AppendProperties, HeadTailProperties DEF DrainPop
  <2> QED BY <1>24, <2>1 DEF DrainPop
<1>25. CASE DrainEnd
  <2>1. received' \in Seq(Calls) /\ batch' \in Seq(Calls)
    BY <1>25, ConcatProperties, EmptySeq DEF DrainEnd
  <2> QED BY <1>25, <2>1 DEF DrainEnd
<1>26. CASE UNCHANGED vars
  BY <1>26 DEF vars
<1> QED
  BY <1>1, <1>2, <1>3, <1>4, <1>5, <1>6, <1>7, <1>8, <1>9, <1>10, <1>11, <1>12,
     <1>13, <1>14, <1>15, <1>16, <1>17, <1>18, <1>19, <1>20, <1>21, <1>22, <1>23,
     <1>24, <1>25, <1>26 DEF Next, CallStep, WebhookStep

\* Every variable has its type in every reachable state.
THEOREM TypeCorrect == Spec => []TypeOK
<1>1. Init => TypeOK /\ HookInv
  BY TypeInit
<1>2. TypeOK /\ HookInv /\ [Next]_vars => (TypeOK /\ HookInv)'
  BY TypeStep
<1> QED BY <1>1, <1>2, PTL DEF Spec
-----------------------------------------------------------------------------
(* One row per Idempotency-Key.                                            *)
(*                                                                         *)
(* UNIQUE is checked for payments and beneficiaries.  The payouts table    *)
(* needs no check of its own: a payout is inserted after, and carries the  *)
(* key of, the beneficiary its transaction has inserted (PairInv), and its *)
(* row is new (FreshInv).                                                  *)

KeyInv(T) ==
  /\ KeysUnique(T.payments, Collects)
  /\ KeysUnique(T.beneficiaries, PayoutCalls)
  /\ \A c \in PayoutCalls :
       T.payouts[c].key # None => T.beneficiaries[c].key = T.payouts[c].key

FreshInv ==
  \A c \in PayoutCalls :
    pc[c] \in {"idle", "lookup", "provider", "insert", "insert2"} =>
      db.payouts[c].key = None /\ txn.payouts[c].key = None

PairInv ==
  \A c \in PayoutCalls : pc[c] = "insert2" => txn.beneficiaries[c].key = key[c]

IInv == /\ TypeOK /\ HookInv /\ LockInv
        /\ KeyInv(db) /\ KeyInv(txn) /\ FreshInv /\ PairInv

LEMMA InsertUnique ==
  ASSUME NEW ids, NEW table \in [ids -> Row], KeysUnique(table, ids),
         NEW id \in ids, NEW k \in Keys \cup {None}, NEW s \in Status,
         ~ViolatesUnique(table, ids, k)
  PROVE  KeysUnique(Insert(table, id, k, s), ids)
<1> DEFINE N == Insert(table, id, k, s)
<1>1. N[id].key = k /\ \A i \in ids : i # id => N[i] = table[i]
  BY DEF Insert
<1>2. \A i \in ids : k # None => table[i].key # k
  BY DEF ViolatesUnique
<1> HIDE DEF N
<1>3. \A i, j \in ids : N[i].key # None /\ N[i].key = N[j].key => i = j
  BY <1>1, <1>2 DEF KeysUnique
<1> QED BY <1>3 DEF KeysUnique, N

LEMMA SetStatusUnique ==
  ASSUME NEW ids, NEW table \in [ids -> Row], KeysUnique(table, ids),
         NEW id \in ids, NEW s \in Status
  PROVE  KeysUnique(SetStatus(table, id, s), ids)
BY SetStatusType DEF KeysUnique

LEMMA LockInit == Init => LockInv
BY ConstantsAssumption DEF Init, LockInv, HoldsLock

LEMMA LockStep == TypeOK /\ LockInv /\ [Next]_vars => LockInv'
<1> SUFFICES ASSUME TypeOK, LockInv, [Next]_vars PROVE LockInv'
  OBVIOUS
<1> USE ConstantsAssumption DEF LockInv, HoldsLock, Goto, Fail, requestVars, dbVars,
        queueVars, faultVars, WriteBy
<1> pc \in [Threads -> PC]
  BY DEF TypeOK
<1>1. ASSUME NEW c \in Calls,
             Begin(c) \/ Replay(c) \/ Miss(c) \/ ProviderCreates(c) \/ Conflict(c)
      PROVE  LockInv'
  BY <1>1 DEF Begin, Replay, Miss, ProviderCreates, Conflict
<1>2. ASSUME NEW c \in Calls, InsertPayment(c) \/ InsertBeneficiary(c)
      PROVE  LockInv'
  BY <1>2 DEF InsertPayment, InsertBeneficiary
<1>3. ASSUME NEW c \in Calls, InsertFee(c) \/ InsertPayout(c) PROVE LockInv'
  BY <1>3 DEF InsertFee, InsertPayout
<1>4. ASSUME NEW w \in Webhooks,
             Receive(w) \/ Refuse(w) \/ Redeliver(w) \/ FindRow(w)
      PROVE  LockInv'
  BY <1>4 DEF Receive, Refuse, Redeliver, FindRow
<1>5. ASSUME NEW w \in Webhooks, MarkSucceeded(w) \/ SettleById(w) \/ MarkPaid(w)
      PROVE  LockInv'
  BY <1>5 DEF MarkSucceeded, SettleById, MarkPaid
<1>6. ASSUME NEW w \in Webhooks, Publish(w) PROVE LockInv'
  BY <1>6 DEF Publish, AfterPublish
<1>7. ASSUME NEW w \in Webhooks, MarkSettled(w) PROVE LockInv'
  BY <1>7 DEF MarkSettled
<1>8. ASSUME NEW t \in Threads, Commit(t) PROVE LockInv'
  BY <1>8 DEF Commit
<1>9. ASSUME NEW t \in Threads, Rollback(t) PROVE LockInv'
  BY <1>9 DEF Rollback
<1>10. ASSUME NEW t \in Threads, GiveUp(t) PROVE LockInv'
  BY <1>10 DEF GiveUp
<1>11. CASE Crash
  BY <1>11 DEF Crash, InHandler
<1>12. CASE DrainBegin \/ DrainPop \/ DrainEnd \/ UNCHANGED vars
  BY <1>12 DEF DrainBegin, DrainPop, DrainEnd, vars
<1> QED
  BY <1>1, <1>2, <1>3, <1>4, <1>5, <1>6, <1>7, <1>8, <1>9, <1>10, <1>11, <1>12
     DEF Next, CallStep, WebhookStep

LEMMA KeyInit == Init => IInv
<1> SUFFICES ASSUME Init PROVE IInv
  OBVIOUS
<1>1. KeyInv(EmptyTables) /\ \A c \in PayoutCalls : EmptyTables.payouts[c].key = None
  BY DEF KeyInv, KeysUnique, EmptyTables, Absent
<1>2. FreshInv /\ PairInv
  BY <1>1, ConstantsAssumption DEF Init, FreshInv, PairInv
<1> QED BY <1>1, <1>2, TypeInit, LockInit DEF Init, IInv

LEMMA KeyStep == IInv /\ [Next]_vars => IInv'
<1> SUFFICES ASSUME IInv, [Next]_vars PROVE IInv'
  OBVIOUS
<1> DEFINE Goal == (KeyInv(db) /\ KeyInv(txn) /\ FreshInv /\ PairInv)'
<1> USE ConstantsAssumption DEF Goto, Fail, requestVars, dbVars, queueVars, faultVars
<1>0. /\ TypeOK /\ LockInv /\ KeyInv(db) /\ KeyInv(txn) /\ FreshInv /\ PairInv
      /\ pc \in [Threads -> PC] /\ key \in [Calls -> Keys \cup {None}]
      /\ db \in Tables /\ txn \in Tables
      /\ (TypeOK /\ HookInv /\ LockInv)'
  BY TypeStep, LockStep DEF IInv, TypeOK
<1>1. ASSUME NEW c \in Calls, Begin(c) PROVE Goal
  BY <1>0, <1>1 DEF Begin, KeyInv, FreshInv, PairInv
<1>2. ASSUME NEW c \in Calls,
             Replay(c) \/ Miss(c) \/ ProviderCreates(c) \/ Conflict(c)
      PROVE  Goal
  BY <1>0, <1>2 DEF Replay, Miss, ProviderCreates, Conflict, KeyInv, FreshInv, PairInv
<1>3. ASSUME NEW c \in Calls, InsertPayment(c) PROVE Goal
  <2>1. KeysUnique(Insert(db.payments, c, key[c], "pending"), Collects)
    BY <1>0, <1>3, InsertUnique, WithType DEF InsertPayment, KeyInv, Status, PaymentStatus
  <2>2. KeyInv(txn')
    BY <1>0, <1>3, <2>1 DEF InsertPayment, WriteBy, WithPayments, KeyInv
  <2>3. FreshInv' /\ PairInv'
    BY <1>0, <1>3 DEF InsertPayment, WriteBy, WithPayments, FreshInv, PairInv, LockInv
  <2> QED BY <1>0, <1>3, <2>2, <2>3 DEF InsertPayment, WriteBy
<1>4. ASSUME NEW c \in Calls, InsertFee(c) PROVE Goal
  BY <1>0, <1>4 DEF InsertFee, WriteBy, WithFees, KeyInv, FreshInv, PairInv
<1>5. ASSUME NEW c \in Calls, InsertBeneficiary(c) PROVE Goal
  <2> DEFINE B == Insert(db.beneficiaries, c, key[c], "stored")
  <2>1. /\ KeysUnique(B, PayoutCalls) /\ B[c].key = key[c]
        /\ \A d \in PayoutCalls : d # c => B[d] = db.beneficiaries[d]
    <3>1. /\ db.beneficiaries \in [PayoutCalls -> Row]
          /\ c \in PayoutCalls /\ key[c] \in Keys \cup {None} /\ "stored" \in Status
          /\ ~ViolatesUnique(db.beneficiaries, PayoutCalls, key[c])
          /\ KeysUnique(db.beneficiaries, PayoutCalls)
      BY <1>0, <1>5, WithType DEF InsertBeneficiary, KeyInv, Status
    <3>2. KeysUnique(B, PayoutCalls)
      BY <3>1, InsertUnique
    <3> QED BY <3>1, <3>2, InsertType
  <2>2. txn' = WithBeneficiaries(db, B) /\ db' = db /\ key' = key
    BY <1>5 DEF InsertBeneficiary, WriteBy
  <2>3. db.payouts[c].key = None
    BY <1>0, <1>5 DEF InsertBeneficiary, FreshInv
  <2>4. KeyInv(txn')
    BY <1>0, <2>1, <2>2, <2>3 DEF WithBeneficiaries, KeyInv
  <2>5. FreshInv'
    BY <1>0, <1>5, <2>2 DEF InsertBeneficiary, WithBeneficiaries, FreshInv
  <2>6. PairInv'
    <3>1. \A d \in PayoutCalls : d # c => pc'[d] = pc[d] /\ pc[d] # "insert2"
      BY <1>0, <1>5 DEF InsertBeneficiary, LockInv, HoldsLock
    <3> QED BY <2>1, <2>2, <3>1 DEF PairInv, WithBeneficiaries
  <2> QED BY <1>0, <2>2, <2>4, <2>5, <2>6
<1>6. ASSUME NEW c \in Calls, InsertPayout(c) PROVE Goal
  <2> DEFINE P == Insert(txn.payouts, c, key[c], "processing")
  <2>1. P[c].key = key[c] /\ \A d \in PayoutCalls : d # c => P[d] = txn.payouts[d]
    <3>1. /\ txn.payouts \in [PayoutCalls -> Row] /\ "processing" \in Status
          /\ c \in PayoutCalls /\ key[c] \in Keys \cup {None}
      BY <1>0, <1>6, WithType DEF InsertPayout, Status, PayoutStatus
    <3> QED BY <3>1, InsertType
  <2>2. txn' = WithPayouts(txn, P) /\ db' = db /\ key' = key
    BY <1>6 DEF InsertPayout, WriteBy
  <2>3. txn.beneficiaries[c].key = key[c]
    BY <1>0, <1>6 DEF InsertPayout, PairInv
  <2>4. KeyInv(txn')
    BY <1>0, <2>1, <2>2, <2>3 DEF WithPayouts, KeyInv
  <2>5. FreshInv' /\ PairInv'
    BY <1>0, <1>6, <2>1, <2>2 DEF InsertPayout, WithPayouts, FreshInv, PairInv
  <2> QED BY <1>0, <2>2, <2>4, <2>5
<1>7. ASSUME NEW w \in Webhooks,
             Receive(w) \/ Refuse(w) \/ FindRow(w) \/ Redeliver(w) \/ Publish(w)
      PROVE  Goal
  BY <1>0, <1>7 DEF Receive, Refuse, FindRow, Redeliver, Publish, KeyInv, FreshInv, PairInv
<1>8. ASSUME NEW T \in {db, txn}, NEW id \in Collects, NEW s \in Status
      PROVE  LET U == WithPayments(T, SetStatus(T.payments, id, s)) IN
             KeyInv(U) /\ U.payouts = T.payouts /\ U.beneficiaries = T.beneficiaries
  <2>1. KeysUnique(SetStatus(T.payments, id, s), Collects)
    BY <1>0, SetStatusUnique, WithType DEF KeyInv
  <2> QED BY <1>0, <2>1 DEF WithPayments, KeyInv
<1>9. ASSUME NEW w \in Webhooks, MarkSucceeded(w) \/ SettleById(w) PROVE Goal
  <2>1. hook[w].ref \in Collects
    BY <1>0, <1>9 DEF MarkSucceeded, SettleById, IInv, HookInv
  <2>2. PICK s \in {"succeeded", "settled"} :
          txn' = WithPayments(db, SetStatus(db.payments, hook[w].ref, s))
    BY <1>9 DEF MarkSucceeded, SettleById, WriteBy
  <2>3. KeyInv(txn') /\ txn'.payouts = db.payouts /\ txn'.beneficiaries = db.beneficiaries
    BY <1>8, <2>1, <2>2 DEF Status, PaymentStatus
  <2> QED
    BY <1>0, <1>9, <2>3
       DEF MarkSucceeded, SettleById, WriteBy, FreshInv, PairInv, LockInv
<1>10. ASSUME NEW w \in Webhooks, MarkSettled(w) PROVE Goal
  <2>1. hook[w].ref \in Collects
    BY <1>0, <1>10 DEF MarkSettled, IInv, HookInv
  <2>2. KeyInv(txn') /\ txn'.payouts = txn.payouts /\ txn'.beneficiaries = txn.beneficiaries
    BY <1>8, <1>10, <2>1 DEF MarkSettled, WriteBy, Status, PaymentStatus
  <2> QED BY <1>0, <1>10, <2>2 DEF MarkSettled, WriteBy, FreshInv, PairInv
<1>11. ASSUME NEW w \in Webhooks, MarkPaid(w) PROVE Goal
  <2> DEFINE P == SetStatus(db.payouts, hook[w].ref, "paid")
  <2>1. \A d \in PayoutCalls : P[d].key = db.payouts[d].key
    <3>1. hook[w].ref \in PayoutCalls /\ db.payouts \in [PayoutCalls -> Row]
      BY <1>0, <1>11, WithType DEF MarkPaid
    <3> QED BY <3>1, SetStatusType DEF Status, PayoutStatus
  <2>2. txn' = WithPayouts(db, P) /\ db' = db /\ key' = key
    BY <1>11 DEF MarkPaid, WriteBy
  <2>3. KeyInv(txn')
    BY <1>0, <2>1, <2>2 DEF WithPayouts, KeyInv
  <2>4. FreshInv' /\ PairInv'
    BY <1>0, <1>11, <2>1, <2>2 DEF MarkPaid, WithPayouts, FreshInv, PairInv, LockInv
  <2> QED BY <1>0, <2>2, <2>3, <2>4
<1>12. ASSUME NEW t \in Threads, Commit(t) PROVE Goal
  BY <1>0, <1>12 DEF Commit, FreshInv, PairInv, KeyInv
<1>13. ASSUME NEW t \in Threads, Rollback(t) PROVE Goal
  <2>1. \A d \in PayoutCalls : pc'[d] # "insert2"
    BY <1>0, <1>13 DEF Rollback, LockInv, HoldsLock
  <2> QED BY <1>0, <1>13, <2>1 DEF Rollback, FreshInv, PairInv, KeyInv
<1>14. ASSUME NEW t \in Threads, GiveUp(t) PROVE Goal
  BY <1>0, <1>14 DEF GiveUp, FreshInv, PairInv, KeyInv
<1>15. ASSUME Crash PROVE Goal
  <2>1. db' = db /\ txn' = db
    BY <1>15 DEF Crash
  <2>2. \A c \in PayoutCalls : pc'[c] # "insert2" /\ (pc'[c] = pc[c] \/ pc'[c] = "failed")
    BY <1>0, <1>15 DEF Crash, InHandler
  <2>3. KeyInv(db)' /\ KeyInv(txn)'
    BY <1>0, <2>1
  <2> QED BY <1>0, <2>1, <2>2, <2>3 DEF FreshInv, PairInv, KeyInv
<1>16. ASSUME DrainBegin \/ DrainPop \/ DrainEnd \/ UNCHANGED vars PROVE Goal
  <2>1. UNCHANGED <<pc, key, db, txn>>
    BY <1>16 DEF DrainBegin, DrainPop, DrainEnd, vars
  <2>2. KeyInv(db)' /\ KeyInv(txn)'
    BY <1>0, <2>1
  <2> QED BY <1>0, <2>1, <2>2 DEF FreshInv, PairInv, KeyInv
<1> HIDE DEF Goal
<1>17. Goal
  BY <1>1, <1>2, <1>3, <1>4, <1>5, <1>6, <1>7, <1>9, <1>10, <1>11, <1>12, <1>13,
     <1>14, <1>15, <1>16 DEF Next, CallStep, WebhookStep
<1> QED BY <1>0, <1>17 DEF IInv, Goal

\* Whatever the calls, keys and faults, no table has two rows with one key.
THEOREM UniqueKeys == Spec => []OneRowPerKey
<1>1. IInv => OneRowPerKey
  BY DEF IInv, KeyInv, KeysUnique, OneRowPerKey
<1> QED BY <1>1, KeyInit, KeyStep, PTL DEF Spec

-----------------------------------------------------------------------------
(***************************************************************************)
(* What the committed tables keep: an answer is durable, the rows of one   *)
(* handler come together, no row goes back, and the tables with the        *)
(* published events implement PaymentLedger.                               *)
(*                                                                         *)
(* The committed tables change only at a COMMIT, which installs txn; so    *)
(* the inductive invariant says what txn may differ in from db at each     *)
(* place its holder can be.                                                *)
(***************************************************************************)

\* A committed payment has its fee and its provider intent, was published
\* before it was settled, and is never left "succeeded"; a committed payout has
\* its beneficiary and its transfer.
PaymentRow(p) ==
  /\ db.payments[p] = Absent \/ db.payments[p].status \in {"pending", "settled"}
  /\ Has(db.payments, p) <=> p \in db.fees
  /\ Has(db.payments, p) => p \in intents
  /\ db.payments[p].status = "settled" => Occurs(published, p)

PayoutRow(p) ==
  /\ db.payouts[p] = Absent \/ db.payouts[p].status \in {"processing", "paid"}
  /\ Has(db.payouts, p) <=> Has(db.beneficiaries, p)
  /\ db.payouts[p].key = db.beneficiaries[p].key
  /\ Has(db.payouts, p) => p \in intents

StoredInv == /\ \A p \in Collects : PaymentRow(p)
             /\ \A p \in PayoutCalls : PayoutRow(p)

\* What AnswerIsDurable says of one call.
Durable(c) ==
  LET id == result[c] IN
  /\ id \in Ids(c) \cap intents
  /\ Has(MainTable(db, c), id)
  /\ key[c] # None => MainTable(db, c)[id].key = key[c]

\* Until a call is done it has neither row nor answer, and what it inserts is
\* already created at the provider.
CallInv ==
  \A c \in Calls :
    /\ pc[c] # "done" => result[c] = None /\ ~Recorded(db, c)
    /\ pc[c] \in {"insert", "insert2", "commit"} => c \in intents
    /\ result[c] # None => Durable(c)

\* A webhook works on a row that is committed.
HookRow(w) ==
  LET ref == hook[w].ref IN
  /\ hook[w].recorded => ref \in Calls /\ Recorded(db, ref)
  /\ pc[w] = "idle" => ~hook[w].recorded
  /\ pc[w] \in {"mark", "publish", "settle", "commit"} => Recorded(db, ref)
  /\ pc[w] \in {"settle", "commit"} /\ ref \in Collects => Occurs(published, ref)
  /\ pc[w] = "settle" => ~hook[w].byId
  /\ pc[w] = "done" /\ hook[w].recorded => Concluded(ref)

WebhookInv == \A w \in Webhooks : HookRow(w)

\* txn and db agree on a payment and its fee, or on a payout and its beneficiary.
SameRow(c) ==
  IF c \in Collects
  THEN txn.payments[c] = db.payments[c] /\ (c \in txn.fees <=> c \in db.fees)
  ELSE /\ txn.payouts[c] = db.payouts[c]
       /\ txn.beneficiaries[c] = db.beneficiaries[c]

\* A call that has inserted its first row, and its second.
FirstInserted(c) ==
  IF c \in Collects
  THEN txn.payments[c] = [key |-> key[c], status |-> "pending"] /\ c \notin txn.fees
  ELSE /\ txn.beneficiaries[c] = [key |-> key[c], status |-> "stored"]
       /\ txn.payouts[c] = Absent

BothInserted(c) ==
  IF c \in Collects
  THEN txn.payments[c] = [key |-> key[c], status |-> "pending"] /\ c \in txn.fees
  ELSE /\ txn.beneficiaries[c] = [key |-> key[c], status |-> "stored"]
       /\ txn.payouts[c] = [key |-> key[c], status |-> "processing"]

\* A webhook has changed nothing but the status of its row.
Marked(ref, s) ==
  IF ref \in Collects
  THEN /\ txn.payments[ref] = [key |-> db.payments[ref].key, status |-> s]
       /\ ref \in txn.fees <=> ref \in db.fees
  ELSE /\ txn.payouts[ref] = [key |-> db.payouts[ref].key, status |-> s]
       /\ txn.beneficiaries[ref] = db.beneficiaries[ref]

\* What the transaction has changed, at each place its holder can be.
TxnInv ==
  /\ writer # None => \A c \in Calls \ {Subject(writer)} : SameRow(c)
  /\ \A c \in Calls : /\ pc[c] = "insert2" => FirstInserted(c)
                      /\ pc[c] = "commit" => BothInserted(c)
  /\ \A w \in Webhooks :
       /\ pc[w] = "publish" =>
            Marked(hook[w].ref, IF hook[w].byId THEN "settled" ELSE "succeeded")
       /\ pc[w] = "settle" => Marked(hook[w].ref, "succeeded")
       /\ pc[w] = "commit" =>
            Marked(hook[w].ref, IF hook[w].ref \in Collects THEN "settled" ELSE "paid")

LInv == IInv /\ StoredInv /\ CallInv /\ WebhookInv /\ TxnInv

LEMMA TablesTyped ==
  ASSUME TypeOK
  PROVE  /\ db.payments \in [Collects -> Row] /\ txn.payments \in [Collects -> Row]
         /\ db.payouts \in [PayoutCalls -> Row] /\ txn.payouts \in [PayoutCalls -> Row]
         /\ db.beneficiaries \in [PayoutCalls -> Row]
         /\ txn.beneficiaries \in [PayoutCalls -> Row]
         /\ db.fees \subseteq Collects /\ txn.fees \subseteq Collects
BY DEF TypeOK, Tables

LEMMA OccursAppend ==
  ASSUME NEW s \in Seq(Calls), NEW e \in Calls
  PROVE  /\ Occurs(Append(s, e), e)
         /\ \A d : Occurs(s, d) => Occurs(Append(s, e), d)
         /\ \A d : Occurs(Append(s, e), d) => d = e \/ Occurs(s, d)
<1>1. /\ Len(Append(s, e)) = Len(s) + 1 /\ Len(s) \in Nat
      /\ \A i \in 1..Len(s) : Append(s, e)[i] = s[i]
      /\ Append(s, e)[Len(s) + 1] = e
  BY AppendProperties, LenProperties
<1> QED BY <1>1 DEF Occurs

LEMMA LedgerInit == Init => LInv
<1> SUFFICES ASSUME Init PROVE LInv
  OBVIOUS
<1> USE ConstantsAssumption
<1>1. db.payments = [c \in Collects |-> Absent] /\ db.fees = {}
      /\ db.payouts = [c \in PayoutCalls |-> Absent]
      /\ db.beneficiaries = [c \in PayoutCalls |-> Absent]
  BY DEF Init, EmptyTables
<1>2. StoredInv
  BY <1>1 DEF StoredInv, PaymentRow, PayoutRow, Has, Absent
<1>3. CallInv
  <2>1. ASSUME NEW c \in Calls PROVE ~Recorded(db, c)
    <3>1. c \in Collects => db.payments[c].status = "absent"
      BY <1>1 DEF Absent
    <3>2. c \in PayoutCalls => db.payouts[c].status = "absent"
      BY <1>1 DEF Absent
    <3> QED BY <3>1, <3>2 DEF Recorded, Has
  <2>2. \A c \in Calls : pc[c] = "idle" /\ result[c] = None
    BY DEF Init
  <2> QED BY <2>1, <2>2 DEF CallInv
<1>4. WebhookInv /\ TxnInv
  BY DEF Init, WebhookInv, HookRow, TxnInv
<1> QED BY <1>2, <1>3, <1>4, KeyInit DEF LInv

(* Steps that commit nothing.                                              *)

LEMMA StoredKept ==
  ASSUME StoredInv, db' = db, intents \subseteq intents',
         \A p \in Collects : Occurs(published, p) => Occurs(published', p)
  PROVE  StoredInv'
BY DEF StoredInv, PaymentRow, PayoutRow, Has

LEMMA CallKept ==
  ASSUME CallInv, db' = db, result' = result, intents \subseteq intents',
         \A c \in Calls :
           /\ key'[c] = key[c] \/ pc[c] # "done"
           /\ pc'[c] # "done" => pc[c] # "done"
           /\ pc'[c] \in {"insert", "insert2", "commit"} => c \in intents'
  PROVE  CallInv'
<1> SUFFICES ASSUME NEW c \in Calls
             PROVE  /\ pc'[c] # "done" => result'[c] = None /\ ~Recorded(db', c)
                    /\ pc'[c] \in {"insert", "insert2", "commit"} => c \in intents'
                    /\ result'[c] # None => Durable(c)'
  BY DEF CallInv
<1>1. pc'[c] # "done" => result'[c] = None /\ ~Recorded(db', c)
  BY DEF CallInv
<1>2. ASSUME result'[c] # None PROVE Durable(c)'
  <2>1. Durable(c) /\ key'[c] = key[c]
    BY <1>2 DEF CallInv
  <2> QED BY <2>1 DEF Durable, Has, MainTable, Ids
<1> QED BY <1>1, <1>2

LEMMA NobodyInside ==
  ASSUME LockInv', writer' = None
  PROVE  TxnInv'
BY ConstantsAssumption DEF LockInv, HoldsLock, TxnInv

LEMMA TxnKept ==
  ASSUME TxnInv, LockInv', UNCHANGED <<db, txn, writer>>,
         \A t \in Threads : pc'[t] = pc[t] \/ pc'[t] \notin HoldsLock,
         \A c \in Calls : key'[c] = key[c] \/ pc'[c] \notin HoldsLock,
         \A w \in Webhooks : hook'[w] = hook[w] \/ pc'[w] \notin HoldsLock
  PROVE  TxnInv'
<1>1. ASSUME writer' # None PROVE \A c \in (Calls \ {Subject(writer)})' : SameRow(c)'
  <2>1. writer' \in Webhooks => hook'[writer] = hook[writer]
    BY <1>1 DEF LockInv
  <2> QED BY <1>1, <2>1 DEF TxnInv, Subject, SameRow
<1>2. \A c \in Calls : /\ pc'[c] = "insert2" => FirstInserted(c)'
                       /\ pc'[c] = "commit" => BothInserted(c)'
  BY DEF TxnInv, HoldsLock, FirstInserted, BothInserted
<1>3. \A w \in Webhooks :
        /\ pc'[w] = "publish" =>
             Marked(hook[w].ref, IF hook[w].byId THEN "settled" ELSE "succeeded")'
        /\ pc'[w] = "settle" => Marked(hook[w].ref, "succeeded")'
        /\ pc'[w] = "commit" =>
             Marked(hook[w].ref, IF hook[w].ref \in Collects THEN "settled" ELSE "paid")'
  <2> SUFFICES ASSUME NEW w \in Webhooks, pc'[w] \in {"publish", "settle", "commit"}
               PROVE  /\ pc'[w] = "publish" =>
                           Marked(hook[w].ref, IF hook[w].byId THEN "settled"
                                               ELSE "succeeded")'
                      /\ pc'[w] = "settle" => Marked(hook[w].ref, "succeeded")'
                      /\ pc'[w] = "commit" =>
                           Marked(hook[w].ref, IF hook[w].ref \in Collects
                                               THEN "settled" ELSE "paid")'
    OBVIOUS
  <2>1. pc'[w] = pc[w] /\ hook'[w] = hook[w]
    BY DEF HoldsLock
  <2> QED BY <2>1 DEF TxnInv, Marked
<1> QED BY <1>1, <1>2, <1>3 DEF TxnInv

(* Steps that write.  Only the holder of the lock is inside a transaction. *)

LEMMA CallInside ==
  ASSUME LockInv', NEW c \in Calls, writer' = c,
         \A d \in Calls \ {c} : SameRow(d)',
         pc'[c] = "insert2" => FirstInserted(c)',
         pc'[c] = "commit" => BothInserted(c)'
  PROVE  TxnInv'
<1>1. \A t \in Threads \ {c} : pc'[t] \notin HoldsLock
  BY DEF LockInv
<1> QED BY <1>1, ConstantsAssumption DEF TxnInv, HoldsLock, Subject

LEMMA WebhookInside ==
  ASSUME LockInv', NEW w \in Webhooks, writer' = w,
         \A d \in Calls \ {hook'[w].ref} : SameRow(d)',
         pc'[w] = "publish" =>
           Marked(hook[w].ref, IF hook[w].byId THEN "settled" ELSE "succeeded")',
         pc'[w] = "settle" => Marked(hook[w].ref, "succeeded")',
         pc'[w] = "commit" =>
           Marked(hook[w].ref, IF hook[w].ref \in Collects THEN "settled" ELSE "paid")'
  PROVE  TxnInv'
<1>1. \A t \in Threads \ {w} : pc'[t] \notin HoldsLock
  BY DEF LockInv
<1> QED BY <1>1, ConstantsAssumption DEF TxnInv, HoldsLock, Subject

LEMMA TxnStep == LInv /\ [Next]_vars => TxnInv'
<1> SUFFICES ASSUME LInv, [Next]_vars PROVE TxnInv'
  OBVIOUS
<1> USE ConstantsAssumption DEF Goto, Fail, Answer, requestVars, dbVars, queueVars, faultVars
<1>0. /\ TypeOK /\ HookInv /\ LockInv /\ TxnInv /\ StoredInv /\ CallInv
      /\ LockInv'
      /\ pc \in [Threads -> PC] /\ key \in [Calls -> Keys \cup {None}]
      /\ hook \in [Webhooks -> Hook]
  BY LockStep DEF LInv, IInv, TypeOK
<1>1. ASSUME NEW c \in Calls,
             Begin(c) \/ Replay(c) \/ Miss(c) \/ ProviderCreates(c) \/ Conflict(c)
      PROVE  TxnInv'
  <2>1. /\ UNCHANGED <<db, txn, writer, hook>>
        /\ \A t \in Threads : pc'[t] = pc[t] \/ pc'[t] \notin HoldsLock
        /\ \A d \in Calls : key'[d] = key[d] \/ pc'[d] \notin HoldsLock
    BY <1>0, <1>1 DEF Begin, Replay, Miss, ProviderCreates, Conflict, HoldsLock
  <2> QED BY <1>0, <2>1, TxnKept
<1>2. ASSUME NEW c \in Calls, InsertPayment(c) PROVE TxnInv'
  <2> DEFINE P == Insert(db.payments, c, key[c], "pending")
  <2>1. /\ txn' = WithPayments(db, P) /\ db' = db /\ writer' = c
        /\ c \in Collects /\ pc'[c] = "insert2" /\ key' = key
    BY <1>0, <1>2 DEF InsertPayment, WriteBy
  <2>2. /\ P[c] = [key |-> key[c], status |-> "pending"]
        /\ \A d \in Collects \ {c} : P[d] = db.payments[d]
    BY <1>0, <2>1, TablesTyped DEF Insert
  <2>3. c \notin db.fees
    BY <1>0, <1>2, <2>1 DEF InsertPayment, CallInv, Recorded, StoredInv, PaymentRow
  <2> HIDE DEF P
  <2>4. FirstInserted(c)' /\ \A d \in Calls \ {c} : SameRow(d)'
    BY <2>1, <2>2, <2>3 DEF WithPayments, FirstInserted, SameRow
  <2> QED BY <1>0, <2>1, <2>4, CallInside
<1>3. ASSUME NEW c \in Calls, InsertFee(c) PROVE TxnInv'
  <2>1. /\ txn' = WithFees(txn, txn.fees \cup {c}) /\ db' = db /\ writer' = c
        /\ c \in Collects /\ pc'[c] = "commit" /\ key' = key /\ writer = c
    BY <1>0, <1>3 DEF InsertFee, WriteBy, LockInv, HoldsLock
  <2>2. FirstInserted(c) /\ \A d \in Calls \ {c} : SameRow(d)
    BY <1>0, <1>3, <2>1 DEF InsertFee, TxnInv, Subject
  <2>3. BothInserted(c)' /\ \A d \in Calls \ {c} : SameRow(d)'
    BY <2>1, <2>2 DEF WithFees, FirstInserted, BothInserted, SameRow
  <2> QED BY <1>0, <2>1, <2>3, CallInside
<1>4. ASSUME NEW c \in Calls, InsertBeneficiary(c) PROVE TxnInv'
  <2> DEFINE B == Insert(db.beneficiaries, c, key[c], "stored")
  <2>1. /\ txn' = WithBeneficiaries(db, B) /\ db' = db /\ writer' = c
        /\ c \in PayoutCalls /\ pc'[c] = "insert2" /\ key' = key
    BY <1>0, <1>4 DEF InsertBeneficiary, WriteBy
  <2>2. /\ B[c] = [key |-> key[c], status |-> "stored"]
        /\ \A d \in PayoutCalls \ {c} : B[d] = db.beneficiaries[d]
    BY <1>0, <2>1, TablesTyped DEF Insert
  <2>3. db.payouts[c] = Absent
    BY <1>0, <1>4, <2>1
       DEF InsertBeneficiary, CallInv, Recorded, Has, StoredInv, PayoutRow
  <2> HIDE DEF B
  <2>4. FirstInserted(c)' /\ \A d \in Calls \ {c} : SameRow(d)'
    BY <2>1, <2>2, <2>3 DEF WithBeneficiaries, FirstInserted, SameRow
  <2> QED BY <1>0, <2>1, <2>4, CallInside
<1>5. ASSUME NEW c \in Calls, InsertPayout(c) PROVE TxnInv'
  <2> DEFINE P == Insert(txn.payouts, c, key[c], "processing")
  <2>1. /\ txn' = WithPayouts(txn, P) /\ db' = db /\ writer' = c
        /\ c \in PayoutCalls /\ pc'[c] = "commit" /\ key' = key /\ writer = c
    BY <1>0, <1>5 DEF InsertPayout, WriteBy, LockInv, HoldsLock
  <2>2. /\ P[c] = [key |-> key[c], status |-> "processing"]
        /\ \A d \in PayoutCalls \ {c} : P[d] = txn.payouts[d]
    BY <1>0, <2>1, TablesTyped DEF Insert
  <2> HIDE DEF P
  <2>3. FirstInserted(c) /\ \A d \in Calls \ {c} : SameRow(d)
    BY <1>0, <1>5, <2>1 DEF InsertPayout, TxnInv, Subject
  <2>4. BothInserted(c)' /\ \A d \in Calls \ {c} : SameRow(d)'
    BY <2>1, <2>2, <2>3 DEF WithPayouts, FirstInserted, BothInserted, SameRow
  <2> QED BY <1>0, <2>1, <2>4, CallInside
<1>6. ASSUME NEW w \in Webhooks, Receive(w) \/ Refuse(w) \/ Redeliver(w) \/ FindRow(w)
      PROVE  TxnInv'
  <2>1. /\ UNCHANGED <<db, txn, writer, key>>
        /\ \A t \in Threads : pc'[t] = pc[t] \/ pc'[t] \notin HoldsLock
        /\ \A v \in Webhooks : hook'[v] = hook[v] \/ pc'[v] \notin HoldsLock
    BY <1>0, <1>6 DEF Receive, Refuse, Redeliver, FindRow, HoldsLock
  <2> QED BY <1>0, <2>1, TxnKept
<1>7. ASSUME NEW w \in Webhooks, MarkSucceeded(w) \/ SettleById(w) PROVE TxnInv'
  <2> DEFINE s == IF hook[w].byId THEN "settled" ELSE "succeeded"
             P == SetStatus(db.payments, hook[w].ref, s)
  <2>1. /\ txn' = WithPayments(db, P) /\ db' = db /\ writer' = w
        /\ hook[w].ref \in Collects /\ pc'[w] = "publish" /\ hook' = hook
    BY <1>0, <1>7 DEF MarkSucceeded, SettleById, WriteBy, HookInv
  <2>2. /\ P[hook[w].ref] = [key |-> db.payments[hook[w].ref].key, status |-> s]
        /\ \A d \in Collects \ {hook[w].ref} : P[d] = db.payments[d]
    BY <1>0, <2>1, TablesTyped DEF SetStatus, Insert
  <2> HIDE DEF P
  <2>3. Marked(hook[w].ref, s)' /\ \A d \in Calls \ {hook[w].ref} : SameRow(d)'
    BY <2>1, <2>2 DEF WithPayments, Marked, SameRow
  <2> QED BY <1>0, <2>1, <2>3, WebhookInside
<1>8. ASSUME NEW w \in Webhooks, MarkPaid(w) PROVE TxnInv'
  <2> DEFINE P == SetStatus(db.payouts, hook[w].ref, "paid")
  <2>1. /\ txn' = WithPayouts(db, P) /\ db' = db /\ writer' = w
        /\ hook[w].ref \in PayoutCalls /\ pc'[w] = "commit" /\ hook' = hook
    BY <1>0, <1>8 DEF MarkPaid, WriteBy
  <2>2. /\ P[hook[w].ref] = [key |-> db.payouts[hook[w].ref].key, status |-> "paid"]
        /\ \A d \in PayoutCalls \ {hook[w].ref} : P[d] = db.payouts[d]
    BY <1>0, <2>1, TablesTyped DEF SetStatus, Insert
  <2> HIDE DEF P
  <2>3. Marked(hook[w].ref, "paid")' /\ \A d \in Calls \ {hook[w].ref} : SameRow(d)'
    BY <2>1, <2>2 DEF WithPayouts, Marked, SameRow
  <2> QED BY <1>0, <2>1, <2>3, WebhookInside
<1>9. ASSUME NEW w \in Webhooks, Publish(w) PROVE TxnInv'
  <2>1. /\ UNCHANGED <<db, txn, writer, hook>> /\ writer = w
        /\ pc'[w] = IF hook[w].byId THEN "commit" ELSE "settle"
        /\ hook[w].ref \in Collects
    BY <1>0, <1>9 DEF Publish, AfterPublish, LockInv, HoldsLock, HookInv
  <2>2. /\ Marked(hook[w].ref, IF hook[w].byId THEN "settled" ELSE "succeeded")
        /\ \A d \in Calls \ {hook[w].ref} : SameRow(d)
    BY <1>0, <1>9, <2>1 DEF Publish, TxnInv, Subject
  <2>3. /\ Marked(hook[w].ref, IF hook[w].byId THEN "settled" ELSE "succeeded")'
        /\ \A d \in Calls \ {hook[w].ref} : SameRow(d)'
    BY <2>1, <2>2 DEF Marked, SameRow
  <2> QED BY <1>0, <2>1, <2>3, WebhookInside
<1>10. ASSUME NEW w \in Webhooks, MarkSettled(w) PROVE TxnInv'
  <2> DEFINE P == SetStatus(txn.payments, hook[w].ref, "settled")
  <2>1. /\ txn' = WithPayments(txn, P) /\ db' = db /\ writer' = w /\ writer = w
        /\ hook[w].ref \in Collects /\ pc'[w] = "commit" /\ hook' = hook
    BY <1>0, <1>10 DEF MarkSettled, WriteBy, LockInv, HoldsLock, HookInv
  <2>2. /\ P[hook[w].ref] = [key |-> txn.payments[hook[w].ref].key, status |-> "settled"]
        /\ \A d \in Collects \ {hook[w].ref} : P[d] = txn.payments[d]
    BY <1>0, <2>1, TablesTyped DEF SetStatus, Insert
  <2> HIDE DEF P
  <2>3. Marked(hook[w].ref, "succeeded") /\ \A d \in Calls \ {hook[w].ref} : SameRow(d)
    BY <1>0, <1>10, <2>1 DEF MarkSettled, TxnInv, Subject
  <2>4. Marked(hook[w].ref, "settled")' /\ \A d \in Calls \ {hook[w].ref} : SameRow(d)'
    BY <2>1, <2>2, <2>3 DEF WithPayments, Marked, SameRow
  <2> QED BY <1>0, <2>1, <2>4, WebhookInside
<1>11. ASSUME NEW t \in Threads, Commit(t) \/ Rollback(t) PROVE TxnInv'
  BY <1>0, <1>11, NobodyInside DEF Commit, Rollback
<1>12. CASE Crash
  BY <1>0, <1>12, NobodyInside DEF Crash
<1>13. ASSUME NEW t \in Threads, GiveUp(t) PROVE TxnInv'
  <2>1. /\ UNCHANGED <<db, txn, writer, key, hook>>
        /\ \A u \in Threads : pc'[u] = pc[u] \/ pc'[u] \notin HoldsLock
    BY <1>0, <1>13 DEF GiveUp, HoldsLock
  <2> QED BY <1>0, <2>1, TxnKept
<1>14. CASE DrainBegin \/ DrainPop \/ DrainEnd \/ UNCHANGED vars
  <2>1. UNCHANGED <<db, txn, writer, key, hook, pc>>
    BY <1>14 DEF DrainBegin, DrainPop, DrainEnd, vars
  <2> QED BY <1>0, <2>1, TxnKept
<1> QED
  BY <1>1, <1>2, <1>3, <1>4, <1>5, <1>6, <1>7, <1>8, <1>9, <1>10, <1>11, <1>12,
     <1>13, <1>14 DEF Next, CallStep, WebhookStep

(* The COMMIT.                                                             *)

\* A call's COMMIT adds its two rows and changes no other.
LEMMA CommitOfCall ==
  ASSUME LInv, NEW c \in Calls, Commit(c)
  PROVE  /\ ~Recorded(db, c) /\ c \in intents
         /\ \A p \in Collects \ {c} : /\ db'.payments[p] = db.payments[p]
                                      /\ p \in db'.fees <=> p \in db.fees
         /\ \A p \in PayoutCalls \ {c} : /\ db'.payouts[p] = db.payouts[p]
                                         /\ db'.beneficiaries[p] = db.beneficiaries[p]
         /\ c \in Collects =>
              db'.payments[c] = [key |-> key[c], status |-> "pending"] /\ c \in db'.fees
         /\ c \in PayoutCalls =>
              /\ db'.payouts[c] = [key |-> key[c], status |-> "processing"]
              /\ db'.beneficiaries[c] = [key |-> key[c], status |-> "stored"]
<1> USE ConstantsAssumption
<1>1. /\ pc[c] = "commit" /\ db' = txn /\ writer = c /\ Subject(writer) = c
  BY DEF Commit, LInv, IInv, LockInv, HoldsLock, Subject
<1>2. BothInserted(c) /\ \A d \in Calls \ {c} : SameRow(d)
  BY <1>1 DEF LInv, TxnInv
<1>3. ~Recorded(db, c) /\ c \in intents
  BY <1>1 DEF LInv, CallInv
<1> QED BY <1>1, <1>2, <1>3 DEF BothInserted, SameRow

\* A webhook's COMMIT settles or pays its row and changes no other.
LEMMA CommitOfWebhook ==
  ASSUME LInv, NEW w \in Webhooks, Commit(w)
  PROVE  LET ref == hook[w].ref IN
         /\ ref \in Calls /\ Recorded(db, ref)
         /\ \A p \in Collects \ {ref} : db'.payments[p] = db.payments[p]
         /\ \A p \in PayoutCalls \ {ref} : db'.payouts[p] = db.payouts[p]
         /\ \A p \in Collects : p \in db'.fees <=> p \in db.fees
         /\ \A p \in PayoutCalls : db'.beneficiaries[p] = db.beneficiaries[p]
         /\ ref \in Collects =>
              /\ db'.payments[ref] = [key |-> db.payments[ref].key, status |-> "settled"]
              /\ Occurs(published, ref)
         /\ ref \in PayoutCalls =>
              db'.payouts[ref] = [key |-> db.payouts[ref].key, status |-> "paid"]
<1> USE ConstantsAssumption
<1> DEFINE ref == hook[w].ref
<1>1. /\ pc[w] = "commit" /\ db' = txn /\ writer = w /\ Subject(writer) = ref
  BY DEF Commit, LInv, IInv, LockInv, HoldsLock, Subject
<1>2. /\ Marked(ref, IF ref \in Collects THEN "settled" ELSE "paid")
      /\ \A d \in Calls \ {ref} : SameRow(d)
  BY <1>1 DEF LInv, TxnInv
<1>3. /\ ref \in Calls /\ Recorded(db, ref)
      /\ ref \in Collects => Occurs(published, ref)
  BY <1>1 DEF LInv, IInv, HookInv, InHandler, WebhookInv, HookRow
<1> QED BY <1>1, <1>2, <1>3 DEF Marked, SameRow

\* What a step does to a committed row: nothing, the INSERT, or the settlement.
PaymentKept(p) ==
  \/ db'.payments[p] = db.payments[p]
  \/ ~Has(db.payments, p) /\ db'.payments[p].status = "pending"
  \/ /\ Has(db.payments, p)
     /\ db'.payments[p] = [key |-> db.payments[p].key, status |-> "settled"]

PayoutKept(p) ==
  \/ db'.payouts[p] = db.payouts[p]
  \/ ~Has(db.payouts, p) /\ db'.payouts[p].status = "processing"
  \/ /\ Has(db.payouts, p)
     /\ db'.payouts[p] = [key |-> db.payouts[p].key, status |-> "paid"]

RowsKept == /\ \A p \in Collects : PaymentKept(p)
            /\ \A p \in PayoutCalls : PayoutKept(p)

LEMMA OnlyCommit == [Next]_vars => db' = db \/ \E t \in Threads : Commit(t)
BY DEF Next, CallStep, WebhookStep, Begin, Replay, Miss, ProviderCreates, Conflict,
       InsertPayment, InsertFee, InsertBeneficiary, InsertPayout, Receive, Refuse,
       Redeliver, FindRow, MarkSucceeded, SettleById, Publish, MarkSettled, MarkPaid,
       Rollback, GiveUp, Crash, DrainBegin, DrainPop, DrainEnd, WriteBy, vars, dbVars

LEMMA RowsStep == LInv /\ [Next]_vars => RowsKept
<1> SUFFICES ASSUME LInv, [Next]_vars PROVE RowsKept
  OBVIOUS
<1>1. CASE db' = db
  BY <1>1 DEF RowsKept, PaymentKept, PayoutKept
<1>2. ASSUME NEW c \in Calls, Commit(c) PROVE RowsKept
  <2>1. /\ \A p \in Collects \ {c} : db'.payments[p] = db.payments[p]
        /\ \A p \in PayoutCalls \ {c} : db'.payouts[p] = db.payouts[p]
        /\ c \in Collects =>
             ~Has(db.payments, c) /\ db'.payments[c] = [key |-> key[c], status |-> "pending"]
        /\ c \in PayoutCalls =>
             ~Has(db.payouts, c) /\ db'.payouts[c] = [key |-> key[c], status |-> "processing"]
    BY <1>2, CommitOfCall, ConstantsAssumption DEF Recorded
  <2>2. \A p \in Collects : PaymentKept(p)
    BY <2>1 DEF PaymentKept
  <2>3. \A p \in PayoutCalls : PayoutKept(p)
    BY <2>1 DEF PayoutKept
  <2> QED BY <2>2, <2>3 DEF RowsKept
<1>3. ASSUME NEW w \in Webhooks, Commit(w) PROVE RowsKept
  <2> DEFINE ref == hook[w].ref
  <2>1. /\ \A p \in Collects \ {ref} : db'.payments[p] = db.payments[p]
        /\ \A p \in PayoutCalls \ {ref} : db'.payouts[p] = db.payouts[p]
        /\ ref \in Collects =>
             /\ Has(db.payments, ref)
             /\ db'.payments[ref] = [key |-> db.payments[ref].key, status |-> "settled"]
        /\ ref \in PayoutCalls =>
             /\ Has(db.payouts, ref)
             /\ db'.payouts[ref] = [key |-> db.payouts[ref].key, status |-> "paid"]
    BY <1>3, CommitOfWebhook, ConstantsAssumption DEF Recorded
  <2> HIDE DEF ref
  <2>2. \A p \in Collects : PaymentKept(p)
    BY <2>1 DEF PaymentKept
  <2>3. \A p \in PayoutCalls : PayoutKept(p)
    BY <2>1 DEF PayoutKept
  <2> QED BY <2>2, <2>3 DEF RowsKept
<1> QED BY <1>1, <1>2, <1>3, OnlyCommit

LEMMA HasKept ==
  ASSUME RowsKept
  PROVE  /\ \A p \in Collects : Has(db.payments, p) =>
              Has(db'.payments, p) /\ db'.payments[p].key = db.payments[p].key
         /\ \A p \in PayoutCalls : Has(db.payouts, p) =>
              Has(db'.payouts, p) /\ db'.payouts[p].key = db.payouts[p].key
         /\ \A c \in Calls : Recorded(db, c) => Recorded(db', c)
         /\ \A p \in Collects :
              db.payments[p].status = "settled" => db'.payments[p].status = "settled"
         /\ \A p \in PayoutCalls :
              db.payouts[p].status = "paid" => db'.payouts[p].status = "paid"
<1>1. ASSUME NEW p \in Collects, Has(db.payments, p)
      PROVE  /\ Has(db'.payments, p) /\ db'.payments[p].key = db.payments[p].key
             /\ db.payments[p].status = "settled" => db'.payments[p].status = "settled"
  <2>1. \/ db'.payments[p] = db.payments[p]
        \/ db'.payments[p] = [key |-> db.payments[p].key, status |-> "settled"]
    BY <1>1 DEF RowsKept, PaymentKept
  <2> QED BY <1>1, <2>1 DEF Has
<1>2. ASSUME NEW p \in PayoutCalls, Has(db.payouts, p)
      PROVE  /\ Has(db'.payouts, p) /\ db'.payouts[p].key = db.payouts[p].key
             /\ db.payouts[p].status = "paid" => db'.payouts[p].status = "paid"
  <2>1. \/ db'.payouts[p] = db.payouts[p]
        \/ db'.payouts[p] = [key |-> db.payouts[p].key, status |-> "paid"]
    BY <1>2 DEF RowsKept, PayoutKept
  <2> QED BY <1>2, <2>1 DEF Has
<1>3. /\ \A p \in Collects : db.payments[p].status = "settled" => Has(db.payments, p)
      /\ \A p \in PayoutCalls : db.payouts[p].status = "paid" => Has(db.payouts, p)
  BY DEF Has
<1> QED BY <1>1, <1>2, <1>3 DEF Recorded

\* Intents and published events are never taken back.
LEMMA Grows ==
  ASSUME TypeOK, HookInv, [Next]_vars
  PROVE  /\ intents \subseteq intents'
         /\ \A p : Occurs(published, p) => Occurs(published', p)
<1>1. CASE \E w \in Webhooks : Publish(w)
  <2>1. PICK w \in Webhooks : Publish(w)
    BY <1>1
  <2>2. /\ published' = Append(published, hook[w].ref) /\ intents' = intents
        /\ hook[w].ref \in Calls /\ published \in Seq(Calls)
    BY <2>1 DEF Publish, Subject, HookInv, TypeOK, InHandler
  <2> QED BY <2>2, OccursAppend
<1>2. CASE published' = published /\ intents \subseteq intents'
  BY <1>2
<1> QED
  BY <1>1, <1>2
     DEF Next, CallStep, WebhookStep, Begin, Replay, Miss, ProviderCreates, Conflict,
         InsertPayment, InsertFee, InsertBeneficiary, InsertPayout, Receive, Refuse,
         Redeliver, FindRow, MarkSucceeded, SettleById, MarkSettled, MarkPaid, Commit,
         Rollback, GiveUp, Crash, DrainBegin, DrainPop, DrainEnd, vars, queueVars

LEMMA StoredStep == LInv /\ [Next]_vars => StoredInv'
<1> SUFFICES ASSUME LInv, [Next]_vars PROVE StoredInv'
  OBVIOUS
<1>0. /\ StoredInv /\ TypeOK /\ HookInv
      /\ intents \subseteq intents'
      /\ \A p : Occurs(published, p) => Occurs(published', p)
  BY Grows DEF LInv, IInv
<1>1. CASE db' = db
  BY <1>0, <1>1, StoredKept
<1>2. ASSUME NEW p \in Collects, PaymentRow(p),
             db'.payments[p] = db.payments[p], p \in db'.fees <=> p \in db.fees
      PROVE  PaymentRow(p)'
  BY <1>0, <1>2 DEF PaymentRow, Has
<1>3. ASSUME NEW p \in PayoutCalls, PayoutRow(p),
             db'.payouts[p] = db.payouts[p], db'.beneficiaries[p] = db.beneficiaries[p]
      PROVE  PayoutRow(p)'
  BY <1>0, <1>3 DEF PayoutRow, Has
<1>4. ASSUME NEW c \in Calls, Commit(c) PROVE StoredInv'
  <2>1. ASSUME c \in Collects PROVE PaymentRow(c)'
    <3>1. /\ db'.payments[c] = [key |-> key[c], status |-> "pending"]
          /\ c \in db'.fees /\ c \in intents'
      BY <1>0, <1>4, <2>1, CommitOfCall
    <3> QED BY <3>1 DEF PaymentRow, Has
  <2>2. ASSUME c \in PayoutCalls PROVE PayoutRow(c)'
    <3>1. /\ db'.payouts[c] = [key |-> key[c], status |-> "processing"]
          /\ db'.beneficiaries[c] = [key |-> key[c], status |-> "stored"]
          /\ c \in intents'
      BY <1>0, <1>4, <2>2, CommitOfCall
    <3> QED BY <3>1 DEF PayoutRow, Has
  <2>3. \A p \in Collects \ {c} : PaymentRow(p)'
    BY <1>0, <1>2, <1>4, CommitOfCall DEF StoredInv
  <2>4. \A p \in PayoutCalls \ {c} : PayoutRow(p)'
    BY <1>0, <1>3, <1>4, CommitOfCall DEF StoredInv
  <2> QED BY <2>1, <2>2, <2>3, <2>4 DEF StoredInv
<1>5. ASSUME NEW w \in Webhooks, Commit(w) PROVE StoredInv'
  <2>0. PICK r \in Calls : r = hook[w].ref
    BY <1>5, CommitOfWebhook
  <2>1. ASSUME r \in Collects PROVE PaymentRow(r)'
    <3>1. /\ db'.payments[r] = [key |-> db.payments[r].key, status |-> "settled"]
          /\ Has(db.payments, r) /\ Occurs(published', r)
          /\ r \in db'.fees <=> r \in db.fees
      BY <1>0, <1>5, <2>0, <2>1, CommitOfWebhook DEF Recorded
    <3>2. PaymentRow(r)
      BY <1>0, <2>1 DEF StoredInv
    <3> QED BY <1>0, <3>1, <3>2 DEF PaymentRow, Has
  <2>2. ASSUME r \in PayoutCalls PROVE PayoutRow(r)'
    <3>1. /\ db'.payouts[r] = [key |-> db.payouts[r].key, status |-> "paid"]
          /\ Has(db.payouts, r)
          /\ db'.beneficiaries[r] = db.beneficiaries[r]
      BY <1>5, <2>0, <2>2, CommitOfWebhook, ConstantsAssumption DEF Recorded
    <3>2. PayoutRow(r)
      BY <1>0, <2>2 DEF StoredInv
    <3> QED BY <1>0, <3>1, <3>2 DEF PayoutRow, Has
  <2>3. \A p \in Collects \ {r} : PaymentRow(p)'
    BY <1>0, <1>2, <1>5, <2>0, CommitOfWebhook DEF StoredInv
  <2>4. \A p \in PayoutCalls \ {r} : PayoutRow(p)'
    BY <1>0, <1>3, <1>5, <2>0, CommitOfWebhook DEF StoredInv
  <2> QED BY <2>1, <2>2, <2>3, <2>4 DEF StoredInv
<1> QED BY <1>1, <1>4, <1>5, OnlyCommit

LEMMA DurableKept ==
  ASSUME RowsKept, intents \subseteq intents', NEW c \in Calls, Durable(c),
         key'[c] = key[c], result'[c] = result[c]
  PROVE  Durable(c)'
<1>1. ASSUME c \in Collects PROVE Durable(c)'
  BY <1>1, HasKept DEF Durable, MainTable, Ids
<1>2. ASSUME c \notin Collects PROVE Durable(c)'
  BY <1>2, HasKept DEF Durable, MainTable, Ids
<1> QED BY <1>1, <1>2

LEMMA CallsStep == LInv /\ [Next]_vars => CallInv'
<1> SUFFICES ASSUME LInv, [Next]_vars PROVE CallInv'
  OBVIOUS
<1> USE ConstantsAssumption DEF Goto, Fail, Answer, requestVars, dbVars, queueVars, faultVars
<1>0. /\ TypeOK /\ HookInv /\ LockInv /\ StoredInv /\ CallInv /\ RowsKept
      /\ intents \subseteq intents'
      /\ pc \in [Threads -> PC] /\ key \in [Calls -> Keys \cup {None}]
      /\ result \in [Threads -> Calls \cup {None}]
  BY Grows, RowsStep DEF LInv, IInv, TypeOK
<1>1. ASSUME NEW c \in Calls,
             Begin(c) \/ Miss(c) \/ ProviderCreates(c) \/ Conflict(c)
             \/ InsertPayment(c) \/ InsertFee(c) \/ InsertBeneficiary(c) \/ InsertPayout(c)
      PROVE  CallInv'
  <2>1. /\ db' = db /\ result' = result
        /\ \A d \in Calls :
             /\ key'[d] = key[d] \/ pc[d] # "done"
             /\ pc'[d] # "done" => pc[d] # "done"
             /\ pc'[d] \in {"insert", "insert2", "commit"} => d \in intents'
    <3>1. c \in Calls /\ pc[c] # "done"
      BY <1>1 DEF Begin, Miss, ProviderCreates, Conflict, InsertPayment, InsertFee,
                  InsertBeneficiary, InsertPayout
    <3>2. /\ db' = db /\ result' = result
          /\ \A d \in Calls \ {c} : pc'[d] = pc[d] /\ key'[d] = key[d]
          /\ pc'[c] \in {"lookup", "provider", "failed"} \/ c \in intents'
      BY <1>0, <1>1 DEF Begin, Miss, ProviderCreates, Conflict, InsertPayment, InsertFee,
                  InsertBeneficiary, InsertPayout, CallInv, WriteBy
    <3> QED BY <1>0, <3>1, <3>2 DEF CallInv
  <2> QED BY <1>0, <2>1, CallKept
<1>2. ASSUME NEW c \in Calls, Replay(c) PROVE CallInv'
  <2>1. PICK id \in Ids(c) : MainTable(db, c)[id].key = key[c] /\ Answer(c, id)
    BY <1>2 DEF Replay
  <2>2. /\ db' = db /\ key' = key /\ intents' = intents /\ key[c] # None
        /\ pc'[c] = "done" /\ \A d \in Calls \ {c} : pc'[d] = pc[d]
        /\ result'[c] = id /\ \A d \in Calls \ {c} : result'[d] = result[d]
        /\ id \in Ids(c) /\ id \in Calls
    BY <1>0, <1>2, <2>1 DEF Replay, Ids
  <2>3. Has(MainTable(db, c), id) /\ id \in intents
    <3>1. ASSUME c \in Collects PROVE Has(MainTable(db, c), id) /\ id \in intents
      <4>1. /\ PaymentRow(id) /\ db.payments[id].key # None
            /\ MainTable(db, c) = db.payments
        BY <1>0, <2>1, <2>2, <3>1 DEF Ids, MainTable, StoredInv
      <4> QED BY <4>1 DEF PaymentRow, Has, Absent
    <3>2. ASSUME c \notin Collects PROVE Has(MainTable(db, c), id) /\ id \in intents
      <4>1. /\ PayoutRow(id) /\ db.payouts[id].key # None
            /\ MainTable(db, c) = db.payouts
        BY <1>0, <2>1, <2>2, <3>2 DEF Ids, MainTable, StoredInv
      <4> QED BY <4>1 DEF PayoutRow, Has, Absent
    <3> QED BY <3>1, <3>2
  <2>4. Durable(c)'
    BY <2>1, <2>2, <2>3 DEF Durable, MainTable, Ids
  <2>5. \A d \in Calls \ {c} : Durable(d) => Durable(d)'
    BY <1>0, <2>2, DurableKept
  <2> QED BY <1>0, <2>2, <2>4, <2>5 DEF CallInv
<1>3. ASSUME NEW c \in Calls, Commit(c) PROVE CallInv'
  <2>1. /\ key' = key /\ intents' = intents /\ result'[c] = c
        /\ \A d \in Calls \ {c} : result'[d] = result[d] /\ pc'[d] = pc[d]
        /\ pc'[c] = "done"
    BY <1>0, <1>3 DEF Commit, Subject
  <2>2. Durable(c)'
    <3>1. ASSUME c \in Collects PROVE Durable(c)'
      <4>1. /\ db'.payments[c] = [key |-> key'[c], status |-> "pending"]
            /\ Ids(c) = Collects /\ c \in intents' /\ MainTable(db, c)' = db'.payments
        BY <1>3, <2>1, <3>1, CommitOfCall DEF Ids, MainTable
      <4> QED BY <2>1, <3>1, <4>1 DEF Durable, Has
    <3>2. ASSUME c \notin Collects PROVE Durable(c)'
      <4>1. /\ db'.payouts[c] = [key |-> key'[c], status |-> "processing"]
            /\ Ids(c) = PayoutCalls /\ c \in intents' /\ MainTable(db, c)' = db'.payouts
        BY <1>3, <2>1, <3>2, CommitOfCall DEF Ids, MainTable
      <4> QED BY <2>1, <3>2, <4>1 DEF Durable, Has
    <3> QED BY <3>1, <3>2
  <2>3. \A d \in Calls \ {c} : Durable(d) => Durable(d)'
    BY <1>0, <2>1, DurableKept
  <2>4. \A d \in Calls \ {c} : ~Recorded(db, d) => ~Recorded(db', d)
    BY <1>3, CommitOfCall DEF Recorded, Has
  <2> QED BY <1>0, <2>1, <2>2, <2>3, <2>4 DEF CallInv
<1>4. ASSUME NEW w \in Webhooks, Commit(w) PROVE CallInv'
  <2>1. /\ key' = key /\ intents' = intents
        /\ \A d \in Calls : result'[d] = result[d] /\ pc'[d] = pc[d]
    BY <1>0, <1>4 DEF Commit
  <2>2. \A d \in Calls : Durable(d) => Durable(d)'
    BY <1>0, <2>1, DurableKept
  <2>3. ASSUME NEW d \in Calls, ~Recorded(db, d) PROVE ~Recorded(db', d)
    <3>1. d # hook[w].ref
      <4>1. Recorded(db, hook[w].ref)
        BY <1>4, CommitOfWebhook, Zenon
      <4> QED BY <2>3, <4>1
    <3>2. /\ d \in Collects => db'.payments[d] = db.payments[d]
          /\ d \in PayoutCalls => db'.payouts[d] = db.payouts[d]
      <4>1. /\ \A p \in Collects \ {hook[w].ref} : db'.payments[p] = db.payments[p]
            /\ \A p \in PayoutCalls \ {hook[w].ref} : db'.payouts[p] = db.payouts[p]
        BY <1>4, CommitOfWebhook, Zenon
      <4> QED BY <3>1, <4>1
    <3> QED BY <2>3, <3>2 DEF Recorded, Has
  <2> QED BY <1>0, <2>1, <2>2, <2>3 DEF CallInv
<1>5. ASSUME NEW w \in Webhooks,
             Receive(w) \/ Refuse(w) \/ Redeliver(w) \/ FindRow(w) \/ MarkSucceeded(w)
             \/ SettleById(w) \/ Publish(w) \/ MarkSettled(w) \/ MarkPaid(w)
      PROVE  CallInv'
  <2>1. /\ db' = db /\ result' = result /\ key' = key
        /\ \A d \in Calls : pc'[d] = pc[d]
    BY <1>0, <1>5 DEF Receive, Refuse, Redeliver, FindRow, MarkSucceeded, SettleById,
                Publish, MarkSettled, MarkPaid, WriteBy
  <2>2. \A d \in Calls : pc'[d] \in {"insert", "insert2", "commit"} => d \in intents'
    BY <1>0, <2>1 DEF CallInv
  <2> QED BY <1>0, <2>1, <2>2, CallKept
<1>6. ASSUME NEW t \in Threads, Rollback(t) \/ GiveUp(t) PROVE CallInv'
  <2>1. /\ db' = db /\ result' = result /\ key' = key /\ pc[t] # "done"
        /\ pc'[t] = "failed" /\ \A d \in Threads \ {t} : pc'[d] = pc[d]
    BY <1>0, <1>6 DEF Rollback, GiveUp, HoldsLock
  <2>2. \A d \in Calls : /\ pc'[d] # "done" => pc[d] # "done"
                         /\ pc'[d] \in {"insert", "insert2", "commit"} => d \in intents'
    BY <1>0, <2>1 DEF CallInv
  <2> QED BY <1>0, <2>1, <2>2, CallKept
<1>7. CASE Crash
  <2>1. /\ db' = db /\ result' = result /\ key' = key
        /\ \A d \in Calls : pc'[d] = pc[d] \/ (pc[d] # "done" /\ pc'[d] = "failed")
    BY <1>0, <1>7 DEF Crash, InHandler
  <2>2. \A d \in Calls : pc'[d] \in {"insert", "insert2", "commit"} => d \in intents'
    BY <1>0, <2>1 DEF CallInv
  <2> QED BY <1>0, <2>1, <2>2, CallKept
<1>8. CASE DrainBegin \/ DrainPop \/ DrainEnd \/ UNCHANGED vars
  <2>1. UNCHANGED <<db, result, key, pc, intents>>
    BY <1>8 DEF DrainBegin, DrainPop, DrainEnd, vars
  <2>2. \A d \in Calls : pc'[d] \in {"insert", "insert2", "commit"} => d \in intents'
    BY <1>0, <2>1 DEF CallInv
  <2> QED BY <1>0, <2>1, <2>2, CallKept
<1> QED
  BY <1>1, <1>2, <1>3, <1>4, <1>5, <1>6, <1>7, <1>8 DEF Next, CallStep, WebhookStep

LEMMA HookRowKept ==
  ASSUME RowsKept, HookInv, NEW w \in Webhooks, HookRow(w), hook'[w] = hook[w],
         pc'[w] = pc[w] \/ pc'[w] = "failed",
         \A p : Occurs(published, p) => Occurs(published', p)
  PROVE  HookRow(w)'
<1>0. PICK ref : ref = hook[w].ref /\ ref = hook'[w].ref
  OBVIOUS
<1>1. pc[w] \in {"mark", "publish", "settle", "commit"} => ref \in Calls
  BY <1>0 DEF HookInv, InHandler
<1>2. ref \in Calls => /\ Recorded(db, ref) => Recorded(db', ref)
                       /\ Concluded(ref) => Concluded(ref)'
  <2>1. ref \in Calls => (Recorded(db, ref) => Recorded(db', ref))
    BY HasKept
  <2>2. ref \in Collects => (Concluded(ref) => Concluded(ref)')
    BY HasKept DEF Concluded
  <2>3. ref \in Calls /\ ref \notin Collects => (Concluded(ref) => Concluded(ref)')
    BY HasKept DEF Concluded
  <2> QED BY <2>1, <2>2, <2>3
<1>3. hook[w].recorded => ref \in Calls
  BY <1>0 DEF HookRow
<1>4. /\ hook[w].recorded => Recorded(db, ref)
      /\ pc[w] \in {"mark", "publish", "settle", "commit"} => Recorded(db, ref)
      /\ pc[w] \in {"settle", "commit"} /\ ref \in Collects => Occurs(published, ref)
  BY <1>0 DEF HookRow
<1>5. pc[w] = "done" /\ hook[w].recorded => Concluded(ref)
  BY <1>0 DEF HookRow, Concluded
<1>6. Concluded(ref)' => Concluded(hook[w].ref)'
  BY <1>0 DEF Concluded
<1>7. pc[w] = "done" /\ hook[w].recorded => Concluded(hook[w].ref)'
  BY <1>2, <1>3, <1>5, <1>6
<1> QED BY <1>0, <1>1, <1>2, <1>3, <1>4, <1>7 DEF HookRow

LEMMA HooksStep == LInv /\ [Next]_vars => WebhookInv'
<1> SUFFICES ASSUME LInv, [Next]_vars PROVE WebhookInv'
  OBVIOUS
<1> USE ConstantsAssumption DEF Goto, Fail, Answer, requestVars, dbVars, queueVars, faultVars
<1>0. /\ TypeOK /\ HookInv /\ LockInv /\ StoredInv /\ WebhookInv /\ RowsKept
      /\ \A p : Occurs(published, p) => Occurs(published', p)
      /\ pc \in [Threads -> PC] /\ hook \in [Webhooks -> Hook]
  BY Grows, RowsStep DEF LInv, IInv, TypeOK
<1>1. ASSUME \A w \in Webhooks : /\ hook'[w] = hook[w]
                                 /\ pc'[w] = pc[w] \/ pc'[w] = "failed"
      PROVE  WebhookInv'
  BY <1>0, <1>1, HookRowKept DEF WebhookInv
<1>2. ASSUME NEW w \in Webhooks, HookRow(w)',
             \A v \in Webhooks \ {w} : hook'[v] = hook[v] /\ pc'[v] = pc[v]
      PROVE  WebhookInv'
  BY <1>0, <1>2, HookRowKept DEF WebhookInv
<1>3. ASSUME NEW c \in Calls, Begin(c) \/ CallStep(c) PROVE WebhookInv'
  <2>1. \A w \in Webhooks : hook'[w] = hook[w] /\ pc'[w] = pc[w]
    BY <1>0, <1>3
       DEF CallStep, Begin, Replay, Miss, ProviderCreates, Conflict, InsertPayment,
           InsertFee, InsertBeneficiary, InsertPayout, Commit
  <2> QED BY <1>1, <2>1
<1>4. ASSUME NEW w \in Webhooks, Receive(w) PROVE WebhookInv'
  <2>1. PICK ref \in intents, byId \in BOOLEAN :
          hook' = [hook EXCEPT ![w] = [ref |-> ref, byId |-> byId,
                                       recorded |-> Recorded(db, ref)]]
    BY <1>4 DEF Receive
  <2>2. /\ hook'[w].ref = ref /\ hook'[w].recorded = Recorded(db, ref)
        /\ db' = db /\ pc'[w] = "lookup" /\ ref \in Calls
        /\ \A v \in Webhooks \ {w} : hook'[v] = hook[v] /\ pc'[v] = pc[v]
    BY <1>0, <1>4, <2>1 DEF Receive, TypeOK
  <2>3. HookRow(w)'
    BY <2>2 DEF HookRow
  <2> QED BY <1>2, <2>2, <2>3
<1>5. ASSUME NEW w \in Webhooks, Refuse(w) PROVE WebhookInv'
  <2>1. /\ hook' = hook /\ db' = db /\ pc[w] = "idle" /\ pc'[w] = "done"
        /\ \A v \in Webhooks \ {w} : pc'[v] = pc[v]
    BY <1>0, <1>5 DEF Refuse
  <2>2. ~hook[w].recorded
    BY <1>0, <2>1 DEF WebhookInv, HookRow
  <2>3. HookRow(w)'
    BY <2>1, <2>2 DEF HookRow
  <2> QED BY <1>2, <2>1, <2>3
<1>6. ASSUME NEW w \in Webhooks, Redeliver(w) PROVE WebhookInv'
  <2>1. /\ hook'[w].ref = hook[w].ref
        /\ hook'[w].recorded = Recorded(db, hook[w].ref)
        /\ db' = db /\ pc'[w] = "lookup" /\ hook[w].ref \in Calls
        /\ \A v \in Webhooks \ {w} : hook'[v] = hook[v] /\ pc'[v] = pc[v]
    BY <1>0, <1>6 DEF Redeliver, HookInv
  <2>2. HookRow(w)'
    BY <2>1 DEF HookRow
  <2> QED BY <1>2, <2>1, <2>2
<1>7. ASSUME NEW w \in Webhooks, FindRow(w) PROVE WebhookInv'
  <2>1. /\ hook' = hook /\ db' = db
        /\ \A v \in Webhooks \ {w} : pc'[v] = pc[v]
        /\ pc'[w] = IF Recorded(db, hook[w].ref) THEN "mark" ELSE "done"
    BY <1>0, <1>7 DEF FindRow
  <2>2. hook[w].recorded => hook[w].ref \in Calls /\ Recorded(db, hook[w].ref)
    BY <1>0 DEF WebhookInv, HookRow
  <2>3. HookRow(w)'
    BY <2>1, <2>2 DEF HookRow
  <2> QED BY <1>2, <2>1, <2>3
<1>8. ASSUME NEW w \in Webhooks, MarkSucceeded(w) \/ SettleById(w) \/ MarkPaid(w)
      PROVE  WebhookInv'
  <2>1. /\ hook' = hook /\ db' = db /\ pc[w] = "mark"
        /\ \A v \in Webhooks \ {w} : pc'[v] = pc[v]
        /\ pc'[w] = "publish" \/ (pc'[w] = "commit" /\ hook[w].ref \notin Collects)
    BY <1>0, <1>8 DEF MarkSucceeded, SettleById, MarkPaid, WriteBy
  <2>2. HookRow(w)'
    BY <1>0, <2>1 DEF WebhookInv, HookRow
  <2> QED BY <1>2, <2>1, <2>2
<1>9. ASSUME NEW w \in Webhooks, Publish(w) PROVE WebhookInv'
  <2>1. /\ hook' = hook /\ db' = db /\ pc[w] = "publish"
        /\ \A v \in Webhooks \ {w} : pc'[v] = pc[v]
        /\ pc'[w] = IF hook[w].byId THEN "commit" ELSE "settle"
        /\ published' = Append(published, hook[w].ref)
        /\ hook[w].ref \in Calls /\ published \in Seq(Calls)
    BY <1>0, <1>9 DEF Publish, AfterPublish, Subject, HookInv, TypeOK
  <2>2. Occurs(published', hook[w].ref)
    BY <2>1, OccursAppend
  <2>3. HookRow(w)'
    BY <1>0, <2>1, <2>2 DEF WebhookInv, HookRow
  <2> QED BY <1>2, <2>1, <2>3
<1>10. ASSUME NEW w \in Webhooks, MarkSettled(w) PROVE WebhookInv'
  <2>1. /\ hook' = hook /\ db' = db /\ pc[w] = "settle" /\ pc'[w] = "commit"
        /\ \A v \in Webhooks \ {w} : pc'[v] = pc[v]
        /\ published' = published
    BY <1>0, <1>10 DEF MarkSettled, WriteBy
  <2>2. HookRow(w)'
    BY <1>0, <2>1 DEF WebhookInv, HookRow
  <2> QED BY <1>2, <2>1, <2>2
<1>11. ASSUME NEW w \in Webhooks, Commit(w) PROVE WebhookInv'
  <2>1. /\ hook' = hook /\ pc'[w] = "done"
        /\ \A v \in Webhooks \ {w} : pc'[v] = pc[v]
    BY <1>0, <1>11 DEF Commit
  <2>2. PICK ref \in Calls : ref = hook[w].ref
    BY <1>11, CommitOfWebhook
  <2>3. Recorded(db', ref)
    BY <1>0, <1>11, <2>2, CommitOfWebhook, HasKept
  <2>4. Concluded(ref)'
    <3>1. /\ ref \in Collects =>
               db'.payments[ref] = [key |-> db.payments[ref].key, status |-> "settled"]
          /\ ref \in PayoutCalls =>
               db'.payouts[ref] = [key |-> db.payouts[ref].key, status |-> "paid"]
      BY <1>11, <2>2, CommitOfWebhook
    <3>2. /\ ref \in Collects => db'.payments[ref].status = "settled"
          /\ ref \in PayoutCalls => db'.payouts[ref].status = "paid"
      BY <3>1
    <3> QED BY <3>2 DEF Concluded
  <2>5. Concluded(hook[w].ref)'
    BY <2>1, <2>2, <2>4 DEF Concluded
  <2>6. HookRow(w)'
    BY <2>1, <2>2, <2>3, <2>5 DEF HookRow
  <2> QED BY <1>2, <2>1, <2>6
<1>12. ASSUME NEW t \in Threads, Rollback(t) \/ GiveUp(t) PROVE WebhookInv'
  BY <1>0, <1>1, <1>12 DEF Rollback, GiveUp
<1>13. CASE Crash
  BY <1>0, <1>1, <1>13 DEF Crash
<1>14. CASE DrainBegin \/ DrainPop \/ DrainEnd \/ UNCHANGED vars
  BY <1>1, <1>14 DEF DrainBegin, DrainPop, DrainEnd, vars
<1> QED
  BY <1>3, <1>4, <1>5, <1>6, <1>7, <1>8, <1>9, <1>10, <1>11, <1>12, <1>13, <1>14
     DEF Next, WebhookStep

LEMMA LedgerStep == LInv /\ [Next]_vars => LInv'
BY KeyStep, StoredStep, CallsStep, HooksStep, TxnStep DEF LInv

LEMMA LedgerInvariant == Spec => []LInv
BY LedgerInit, LedgerStep, PTL DEF Spec

(* The theorems.                                                           *)

\* A call's 200 names a committed row with its key, a webhook's 200 a settled
\* or paid one, after any failures and crashes.
THEOREM AnswersDurable == Spec => []AnswerIsDurable
<1>1. LInv => AnswerIsDurable
  BY DEF LInv, CallInv, Durable, WebhookInv, HookRow, AnswerIsDurable
<1> QED BY <1>1, LedgerInvariant, PTL

\* Calls answered for one key were answered with one id.
THEOREM OneAnswerPerKey == Spec => []SameKeySameAnswer
<1>1. LInv => SameKeySameAnswer
  <2> SUFFICES ASSUME LInv, NEW c1 \in Calls, NEW c2 \in Calls, Ids(c1) = Ids(c2),
                      key[c1] # None, key[c1] = key[c2],
                      result[c1] # None, result[c2] # None
               PROVE  result[c1] = result[c2]
    BY DEF SameKeySameAnswer
  <2>1. Durable(c1) /\ Durable(c2)
    BY DEF LInv, CallInv
  <2>2. /\ KeysUnique(db.payments, Collects)
        /\ KeysUnique(db.payouts, PayoutCalls)
    BY DEF LInv, IInv, KeyInv, KeysUnique
  <2>3. CASE c1 \in Collects /\ c2 \in Collects
    BY <2>1, <2>2, <2>3 DEF Durable, Ids, MainTable, KeysUnique
  <2>4. CASE c1 \notin Collects /\ c2 \notin Collects
    BY <2>1, <2>2, <2>4 DEF Durable, Ids, MainTable, KeysUnique
  <2>5. CASE c1 \in Collects /\ c2 \notin Collects
    BY <2>5, ConstantsAssumption DEF Ids
  <2>6. CASE c1 \notin Collects /\ c2 \in Collects
    BY <2>6, ConstantsAssumption DEF Ids
  <2> QED BY <2>3, <2>4, <2>5, <2>6
<1> QED BY <1>1, LedgerInvariant, PTL

\* A payment and its fee, a payout and its beneficiary, are committed together.
THEOREM InsertsTogether == Spec => []BothInsertsOrNone
<1>1. LInv => BothInsertsOrNone
  BY DEF LInv, StoredInv, PaymentRow, PayoutRow, BothInsertsOrNone
<1> QED BY <1>1, LedgerInvariant, PTL

LEMMA RankValues ==
  /\ Rank["absent"] = 0 /\ Rank["pending"] = 1 /\ Rank["processing"] = 1
  /\ Rank["succeeded"] = 2 /\ Rank["settled"] = 3 /\ Rank["paid"] = 3
BY DEF Rank, Status, PaymentStatus, PayoutStatus

\* No step takes a committed row away, changes its key or lets its status go back.
THEOREM StatusNeverBack == Spec => NeverBack
<1>1. ASSUME LInv, [Next]_vars
      PROVE  /\ \A p \in Collects :
                  /\ Rank[db.payments[p].status] <= Rank[db'.payments[p].status]
                  /\ Has(db.payments, p) => db'.payments[p].key = db.payments[p].key
             /\ \A p \in PayoutCalls :
                  /\ Rank[db.payouts[p].status] <= Rank[db'.payouts[p].status]
                  /\ Has(db.payouts, p) => db'.payouts[p].key = db.payouts[p].key
  <2>0. RowsKept
    BY <1>1, RowsStep
  <2>1. ASSUME NEW p \in Collects
        PROVE  Rank[db.payments[p].status] <= Rank[db'.payments[p].status]
    <3>1. /\ db.payments[p].status \in {"absent", "pending", "settled"}
          /\ \/ db'.payments[p] = db.payments[p]
             \/ db.payments[p].status = "absent" /\ db'.payments[p].status = "pending"
             \/ db'.payments[p].status = "settled"
      <4>1. PaymentRow(p) /\ PaymentKept(p)
        BY <1>1, <2>0 DEF LInv, StoredInv, RowsKept
      <4>2. db.payments[p].status \in {"absent", "pending", "settled"}
        BY <4>1 DEF PaymentRow, Absent
      <4>3. \/ db'.payments[p] = db.payments[p]
            \/ db.payments[p].status = "absent" /\ db'.payments[p].status = "pending"
            \/ db'.payments[p].status = "settled"
        BY <4>1 DEF PaymentKept, Has
      <4> QED BY <4>2, <4>3
    <3> QED BY <3>1, RankValues
  <2>2. ASSUME NEW p \in PayoutCalls
        PROVE  Rank[db.payouts[p].status] <= Rank[db'.payouts[p].status]
    <3>1. /\ db.payouts[p].status \in {"absent", "processing", "paid"}
          /\ \/ db'.payouts[p] = db.payouts[p]
             \/ db.payouts[p].status = "absent" /\ db'.payouts[p].status = "processing"
             \/ db'.payouts[p].status = "paid"
      <4>1. PayoutRow(p) /\ PayoutKept(p)
        BY <1>1, <2>0 DEF LInv, StoredInv, RowsKept
      <4>2. db.payouts[p].status \in {"absent", "processing", "paid"}
        BY <4>1 DEF PayoutRow, Absent
      <4>3. \/ db'.payouts[p] = db.payouts[p]
            \/ db.payouts[p].status = "absent" /\ db'.payouts[p].status = "processing"
            \/ db'.payouts[p].status = "paid"
        BY <4>1 DEF PayoutKept, Has
      <4> QED BY <4>2, <4>3
    <3> QED BY <3>1, RankValues
  <2> QED BY <2>0, <2>1, <2>2, HasKept
<1>2. LInv /\ [Next]_vars => 
        [/\ \A p \in Collects :
              /\ Rank[db.payments[p].status] <= Rank[db'.payments[p].status]
              /\ Has(db.payments, p) => db'.payments[p].key = db.payments[p].key
         /\ \A p \in PayoutCalls :
              /\ Rank[db.payouts[p].status] <= Rank[db'.payouts[p].status]
              /\ Has(db.payouts, p) => db'.payouts[p].key = db.payouts[p].key]_vars
  BY <1>1
<1> QED BY <1>2, LedgerInvariant, PTL DEF Spec, NeverBack

\* While the process lives, the events handed out, popped and queued are those
\* published, in order.
THEOREM EventOrder == Spec => []EventsInOrder
<1> DEFINE Inv == TypeOK /\ HookInv /\ EventsInOrder
<1>1. Init => Inv
  <2>1. <<>> = <<>> \o <<>> \o <<>>
    BY EmptySeq, ConcatEmptySeq
  <2> QED BY <2>1, TypeInit DEF Init, EventsInOrder
<1>2. Inv /\ [Next]_vars => Inv'
  <2> SUFFICES ASSUME TypeOK, HookInv, EventsInOrder, [Next]_vars PROVE EventsInOrder'
    BY TypeStep
  <2>0. /\ queue \in Seq(Calls) /\ batch \in Seq(Calls)
        /\ received \in Seq(Calls) /\ published \in Seq(Calls)
    BY DEF TypeOK
  <2>1. ASSUME NEW w \in Webhooks, Publish(w) PROVE EventsInOrder'
    <3>1. PICK e \in Calls : /\ queue' = Append(queue, e)
                             /\ published' = Append(published, e)
      BY <2>1 DEF Publish, Subject, HookInv
    <3>2. /\ UNCHANGED <<batch, received, crashed>>
      BY <2>1 DEF Publish, faultVars
    <3>3. /\ received \o batch \in Seq(Calls) /\ received \o batch \o queue \in Seq(Calls)
          /\ <<e>> \in Seq(Calls)
      BY <2>0, ConcatProperties
    <3>4. Append(received \o batch \o queue, e) = (received \o batch \o queue) \o <<e>>
      BY <3>3, AppendIsConcat
    <3>5. (received \o batch \o queue) \o <<e>> = (received \o batch) \o (queue \o <<e>>)
      <4>1. received \o batch \in Seq(Calls) /\ queue \in Seq(Calls) /\ <<e>> \in Seq(Calls)
        BY <2>0, <3>3
      <4> QED BY <4>1, ConcatAssociative, SMTT(20)
    <3>6. queue \o <<e>> = Append(queue, e)
      BY <2>0, AppendIsConcat
    <3> QED BY <3>1, <3>2, <3>4, <3>5, <3>6 DEF EventsInOrder
  <2>2. CASE DrainPop
    <3>1. /\ queue # <<>> /\ batch' = Append(batch, Head(queue)) /\ queue' = Tail(queue)
          /\ UNCHANGED <<received, published, crashed>>
      BY <2>2 DEF DrainPop, faultVars
    <3> DEFINE h == Head(queue)
               rest == Tail(queue)
    <3>2. /\ h \in Calls /\ rest \in Seq(Calls) /\ <<h>> \in Seq(Calls)
          /\ queue = <<h>> \o rest
      BY <2>0, <3>1, HeadTailProperties
    <3> HIDE DEF h, rest
    <3>3. /\ Append(batch, h) = batch \o <<h>>
          /\ received \o batch \in Seq(Calls)
      BY <2>0, <3>2, AppendIsConcat, ConcatProperties
    <3>4. received \o (batch \o <<h>>) = (received \o batch) \o <<h>>
      BY <2>0, <3>2, ConcatAssociative
    <3>5. ((received \o batch) \o <<h>>) \o rest = (received \o batch) \o (<<h>> \o rest)
      BY <3>2, <3>3, ConcatAssociative
    <3> QED BY <3>1, <3>2, <3>3, <3>4, <3>5 DEF EventsInOrder, h, rest
  <2>3. CASE DrainEnd
    <3>1. /\ queue = <<>> /\ queue' = <<>> /\ batch' = <<>> /\ received' = received \o batch
          /\ UNCHANGED <<published, crashed>>
      BY <2>3 DEF DrainEnd, faultVars
    <3>2. /\ received \o batch \in Seq(Calls)
          /\ (received \o batch) \o <<>> = received \o batch
      BY <2>0, ConcatProperties, ConcatEmptySeq
    <3> QED BY <3>1, <3>2 DEF EventsInOrder
  <2>4. CASE Crash
    BY <2>4 DEF Crash, EventsInOrder
  <2>5. CASE UNCHANGED <<queue, batch, received, published, crashed>>
    BY <2>5 DEF EventsInOrder
  <2> QED
    BY <2>1, <2>2, <2>3, <2>4, <2>5
       DEF Next, CallStep, WebhookStep, Begin, Replay, Miss, ProviderCreates, Conflict,
           InsertPayment, InsertFee, InsertBeneficiary, InsertPayout, Receive, Refuse,
           Redeliver, FindRow, MarkSucceeded, SettleById, MarkSettled, MarkPaid, Commit,
           Rollback, GiveUp, DrainBegin, vars, queueVars, faultVars
<1>3. Inv => EventsInOrder
  OBVIOUS
<1> QED BY <1>1, <1>2, <1>3, PTL DEF Spec

(* The refinement of PaymentLedger.                                        *)

\* A step that neither commits a payment nor publishes one.
LEMMA LedgerStutter ==
  ASSUME \A p \in Collects : db'.payments[p] = db.payments[p],
         published' = published
  PROVE  UNCHANGED Ledger!vars
BY DEF Ledger!vars, Occurs

\* The COMMIT of a collect is Accept, that of a payout's call changes nothing.
LEMMA CallRefines ==
  ASSUME LInv, NEW c \in Calls, Commit(c)
  PROVE  [Ledger!Next]_(Ledger!vars)
<1>0. published' = published /\ pc[c] = "commit" /\ db' = txn
  BY DEF Commit, queueVars
<1>1. CASE c \notin Collects
  BY <1>0, <1>1, CommitOfCall, LedgerStutter
<1>2. CASE c \in Collects
  <2>1. /\ db.payments[c] = Absent
        /\ db'.payments[c] = [key |-> key[c], status |-> "pending"]
        /\ \A p \in Collects \ {c} : db'.payments[p] = db.payments[p]
        /\ key[c] \in Keys \cup {None}
    BY <1>2, CommitOfCall
       DEF Recorded, Has, LInv, IInv, TypeOK, StoredInv, PaymentRow
  <2>2. KeysUnique(db'.payments, Collects)
    BY <1>0 DEF LInv, IInv, KeyInv
  <2>3. key[c] # None => \A q \in Collects : db.payments[q].key # key[c]
    <3>1. db.payments[c].key = None /\ db'.payments[c].key = key[c]
      BY <2>1 DEF Absent
    <3> QED BY <1>2, <2>1, <2>2, <3>1 DEF KeysUnique
  <2>4. Ledger!Accept(c, key[c])
    <3>0. /\ db'.payments[c].status = "pending" /\ db'.payments[c].key = key[c]
          /\ \A p \in Collects \ {c} : /\ db'.payments[p].status = db.payments[p].status
                                       /\ db'.payments[p].key = db.payments[p].key
      BY <2>1
    <3>1. [p \in Collects |-> db'.payments[p].status] =
            [[p \in Collects |-> db.payments[p].status] EXCEPT ![c] = "pending"]
      BY <1>2, <3>0
    <3>2. [p \in Collects |-> db'.payments[p].key] =
            [[p \in Collects |-> db.payments[p].key] EXCEPT ![c] = key[c]]
      BY <1>2, <3>0
    <3>3. db.payments[c].status = "absent"
      BY <2>1 DEF Absent
    <3>4. UNCHANGED {p \in Collects : Occurs(published, p)}
      BY <1>0 DEF Occurs
    <3> QED BY <1>2, <2>3, <3>1, <3>2, <3>3, <3>4 DEF Ledger!Accept
  <2>5. PICK k \in Keys \cup {None} : k = key[c]
    BY <2>1
  <2>6. Ledger!Accept(c, k)
    BY <2>4, <2>5 DEF Ledger!Accept
  <2> QED BY <1>2, <2>6 DEF Ledger!Next
<1> QED BY <1>1, <1>2

\* The COMMIT of a webhook is Settle, or changes nothing that is not settled.
LEMMA WebhookRefines ==
  ASSUME LInv, NEW w \in Webhooks, Commit(w)
  PROVE  [Ledger!Next]_(Ledger!vars)
<1>0. published' = published
  BY DEF Commit, queueVars
<1>1. PICK r \in Calls : r = hook[w].ref
  BY CommitOfWebhook
<1>2. CASE r \notin Collects
  BY <1>0, <1>1, <1>2, CommitOfWebhook, LedgerStutter
<1>3. CASE r \in Collects
  <2>1. /\ db'.payments[r] = [key |-> db.payments[r].key, status |-> "settled"]
        /\ \A p \in Collects \ {r} : db'.payments[p] = db.payments[p]
        /\ Occurs(published, r) /\ Has(db.payments, r)
    BY <1>1, <1>3, CommitOfWebhook DEF Recorded
  <2>2. db.payments[r] \in Row
    BY <1>3, TablesTyped DEF LInv, IInv
  <2>3. PaymentRow(r)
    BY <1>3 DEF LInv, StoredInv
  <2>4. db.payments[r].status \in {"pending", "settled"}
    BY <2>1, <2>3 DEF PaymentRow, Has, Absent
  <2>5. CASE db.payments[r].status = "settled"
    <3>1. db'.payments[r] = db.payments[r]
      BY <2>1, <2>2, <2>5 DEF Row
    <3> QED BY <1>0, <2>1, <3>1, LedgerStutter
  <2>6. CASE db.payments[r].status = "pending"
    <3>0. /\ db'.payments[r].status = "settled" /\ db'.payments[r].key = db.payments[r].key
          /\ \A p \in Collects \ {r} : /\ db'.payments[p].status = db.payments[p].status
                                       /\ db'.payments[p].key = db.payments[p].key
      BY <2>1
    <3>1. [p \in Collects |-> db'.payments[p].status] =
            [[p \in Collects |-> db.payments[p].status] EXCEPT ![r] = "settled"]
      BY <1>3, <3>0
    <3>2. [p \in Collects |-> db'.payments[p].key] = [p \in Collects |-> db.payments[p].key]
      BY <1>3, <3>0
    <3>3. UNCHANGED {p \in Collects : Occurs(published, p)}
      BY <1>0 DEF Occurs
    <3>4. Ledger!Settle(r)
      BY <1>3, <2>1, <2>6, <3>1, <3>2, <3>3 DEF Ledger!Settle
    <3> QED BY <1>3, <3>4 DEF Ledger!Next
  <2> QED BY <2>4, <2>5, <2>6
<1> QED BY <1>2, <1>3

\* A publication is Announce.
LEMMA PublishRefines ==
  ASSUME LInv, NEW w \in Webhooks, Publish(w)
  PROVE  [Ledger!Next]_(Ledger!vars)
<1>1. PICK r \in Collects :
        r = hook[w].ref /\ published' = Append(published, r) /\ db' = db
  BY DEF Publish, Subject, dbVars, LInv, IInv, HookInv
<1>2. Has(db.payments, r)
  BY <1>1 DEF Publish, LInv, WebhookInv, HookRow, Recorded
<1>3. published \in Seq(Calls)
  BY DEF LInv, IInv, TypeOK
<1>4. {p \in Collects : Occurs(published', p)} =
        {p \in Collects : Occurs(published, p)} \cup {r}
  BY <1>1, <1>3, OccursAppend
<1>5. Ledger!Announce(r)
  BY <1>1, <1>2, <1>4 DEF Ledger!Announce, Has
<1> QED BY <1>5 DEF Ledger!Next

\* The committed payments and the published events implement PaymentLedger.
THEOREM LedgerRefinement == Spec => LedgerSpec
<1>1. Init => Ledger!Init
  BY DEF Init, Ledger!Init, EmptyTables, Absent, Occurs
<1>2. LInv /\ [Next]_vars => [Ledger!Next]_(Ledger!vars)
  <2> SUFFICES ASSUME LInv, [Next]_vars PROVE [Ledger!Next]_(Ledger!vars)
    OBVIOUS
  <2>1. CASE \E t \in Threads : Commit(t)
    BY <2>1, CallRefines, WebhookRefines
  <2>2. CASE \E w \in Webhooks : Publish(w)
    BY <2>2, PublishRefines
  <2>3. CASE db' = db /\ published' = published
    BY <2>3, LedgerStutter
  <2> QED
    BY <2>1, <2>2, <2>3
       DEF Next, CallStep, WebhookStep, Begin, Replay, Miss, ProviderCreates, Conflict,
           InsertPayment, InsertFee, InsertBeneficiary, InsertPayout, Receive, Refuse,
           Redeliver, FindRow, MarkSucceeded, SettleById, MarkSettled, MarkPaid,
           Rollback, GiveUp, Crash, DrainBegin, DrainPop, DrainEnd, WriteBy, vars,
           dbVars, queueVars
<1> QED BY <1>1, <1>2, LedgerInvariant, PTL DEF Spec, LedgerSpec, Ledger!Spec
=============================================================================
