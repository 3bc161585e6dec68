---------------------------- MODULE ExecutionSync ----------------------------
(***************************************************************************)
(* POST /api/execution/orders: the gateway's handler (services/gateway/    *)
(* app.py), the synchronous execution service it calls (services/          *)
(* execution_sync/service.py), the IBKR client behind it and OrderStorage. *)
(*                                                                         *)
(* FastAPI runs the handler in a pool of threads over one service, one     *)
(* storage and one event emitter.  A step ends wherever another thread can *)
(* run: at every call that leaves the handler.                             *)
(*                                                                         *)
(* _dump opens the file for writing, which empties it, and then writes:    *)
(* until the write ends the file is torn, and stays so if the process dies *)
(* or the write raises.  Prices, strikes and dates are in Ladder; the ids  *)
(* of orders, which nothing looks up, are left out.                        *)
(*                                                                         *)
(* A definition followed by another of the same shape that nothing uses    *)
(* (LockIgnored, LoadForgives, ...) is a plausible mistake; the README     *)
(* says which property finds it.                                           *)
(***************************************************************************)
EXTENDS Naturals, Sequences

CONSTANTS
  Requests,   \* calls of execution_orders
  Orders,     \* how many orders _build_orders makes for a request
  None,       \* no event, nobody
  MaxFaults   \* bound on failed writes and crashes

ASSUME SizeAssumption ==
  /\ Orders \in Nat \ {0} /\ MaxFaults \in Nat
  /\ None \notin Requests

VARIABLES
  dryRun,    \* GATEWAY_DRY_RUN, as the process was started
  pc,        \* where each request is
  k,         \* the order it is working on
  lock,      \* the holder of OrderStorage._lock
  loaded,    \* the rows the lock's holder has read
  orders,    \* orders.json: [torn, rows]
  fills,     \* fills.json
  placed,    \* orders the broker has
  filled,    \* those that came back with fills
  events,    \* InMemoryEventEmitter.events, by request
  before,    \* previous_events of each request
  answer,    \* the request whose event an answer carries
  faults

diskVars  == <<lock, loaded, orders, fills>>
brokerVars == <<dryRun, placed, filled>>
eventVars == <<events, before, answer>>
vars == <<pc, k, diskVars, brokerVars, eventVars, faults>>

AllOrders == Requests \X (1..Orders)
Current(r) == <<r, k[r]>>

Empty == [torn |-> FALSE, rows |-> {}]
Torn  == [torn |-> TRUE, rows |-> {}]

Finished == {"idle", "done", "failed"}
PC == Finished \cup {"connect", "execute", "orders", "dumpOrders", "fills",
                     "dumpFills", "emit", "respond"}

Goto(r, label) == pc' = [pc EXCEPT ![r] = label]

Fault == faults < MaxFaults /\ faults' = faults + 1

-----------------------------------------------------------------------------
Init ==
  /\ dryRun \in BOOLEAN
  /\ pc = [r \in Requests |-> "idle"] /\ k = [r \in Requests |-> 1]
  /\ lock = None /\ loaded = {}
  /\ orders = Empty /\ fills = Empty
  /\ placed = {} /\ filled = {}
  /\ events = <<>> /\ before = [r \in Requests |-> 0]
  /\ answer = [r \in Requests |-> None]
  /\ faults = 0

\* The handler notes how many events there are and builds the orders.
Start(r) ==
  /\ pc[r] = "idle"
  /\ before' = [before EXCEPT ![r] = Len(events)]
  /\ Goto(r, "connect")
  /\ UNCHANGED <<k, diskVars, brokerVars, events, answer, faults>>

\* ensure_connected; the dry-run client has nothing to do.
Connect(r) ==
  /\ pc[r] = "connect"
  /\ Goto(r, "execute")
  /\ UNCHANGED <<k, diskVars, brokerVars, eventVars, faults>>

\* max_retries + 1 attempts to connect failed, or placeOrder raised.
BrokerRaises(r) ==
  /\ ~dryRun
  /\ pc[r] \in {"connect", "execute"}
  /\ Goto(r, "failed")
  /\ UNCHANGED <<k, diskVars, brokerVars, eventVars, faults>>

\* The dry-run client fills every order at once, IBKR may answer with a trade that
\* has no fills yet.
MayBeFilled == {TRUE, dryRun}

\* execute_order
Execute(r) ==
  /\ pc[r] = "execute"
  /\ placed' = placed \cup {Current(r)}
  /\ \E full \in MayBeFilled : filled' = IF full THEN filled \cup {Current(r)} ELSE filled
  /\ Goto(r, "orders")
  /\ UNCHANGED <<dryRun, k, diskVars, eventVars, faults>>

\* The lock that record_order and record_fills take.
LockIgnored(r) == TRUE
LockFree(r)    == lock = None

\* What _load makes of a torn file: json.load raises.
LoadForgives(file) == TRUE
Loads(file)        == ~file.torn

\* record_order and record_fills up to the moment the file is emptied.
LoadOrders(r) ==
  /\ pc[r] = "orders" /\ LockFree(r)
  /\ Loads(orders)
  /\ lock' = r /\ loaded' = orders.rows
  /\ orders' = Torn
  /\ Goto(r, "dumpOrders")
  /\ UNCHANGED <<k, fills, brokerVars, eventVars, faults>>

LoadFills(r) ==
  /\ pc[r] = "fills" /\ LockFree(r)
  /\ Loads(fills)
  /\ lock' = r /\ loaded' = fills.rows
  /\ fills' = Torn
  /\ Goto(r, "dumpFills")
  /\ UNCHANGED <<k, orders, brokerVars, eventVars, faults>>

LoadRaises(r) ==
  /\ LockFree(r)
  /\ \/ pc[r] = "orders" /\ ~Loads(orders)
     \/ pc[r] = "fills" /\ ~Loads(fills)
  /\ Goto(r, "failed")
  /\ UNCHANGED <<k, diskVars, brokerVars, eventVars, faults>>

\* The next order, or the event when there is none.
NextOrder(r) ==
  IF k[r] < Orders THEN k' = [k EXCEPT ![r] = k[r] + 1] /\ Goto(r, "execute")
                   ELSE k' = k /\ Goto(r, "emit")

DumpOrders(r) ==
  /\ pc[r] = "dumpOrders"
  /\ orders' = [torn |-> FALSE, rows |-> loaded \cup {Current(r)}]
  /\ lock' = None /\ loaded' = {}
  /\ IF Current(r) \in filled THEN Goto(r, "fills") /\ k' = k ELSE NextOrder(r)
  /\ UNCHANGED <<fills, brokerVars, eventVars, faults>>

DumpFills(r) ==
  /\ pc[r] = "dumpFills"
  /\ fills' = [torn |-> FALSE, rows |-> loaded \cup {Current(r)}]
  /\ lock' = None /\ loaded' = {}
  /\ NextOrder(r)
  /\ UNCHANGED <<orders, brokerVars, eventVars, faults>>

\* The write raises; the with statement still frees the lock.
DumpRaisesKeepsLock(r) ==
  /\ pc[r] \in {"dumpOrders", "dumpFills"}
  /\ Fault
  /\ Goto(r, "failed")
  /\ UNCHANGED <<k, lock, loaded, orders, fills, brokerVars, eventVars>>

DumpRaises(r) ==
  /\ pc[r] \in {"dumpOrders", "dumpFills"}
  /\ Fault
  /\ lock' = None /\ loaded' = {}
  /\ Goto(r, "failed")
  /\ UNCHANGED <<k, orders, fills, brokerVars, eventVars>>

Emit(r) ==
  /\ pc[r] = "emit"
  /\ events' = Append(events, r)
  /\ Goto(r, "respond")
  /\ UNCHANGED <<k, diskVars, brokerVars, before, answer, faults>>

\* The handler takes the last of the events that came since it started.
LastEventSkipsOne(r) ==
  IF Len(events) > before[r] + 1 THEN events[Len(events)] ELSE None
LastEvent(r) ==
  IF Len(events) > before[r] THEN events[Len(events)] ELSE None

Respond(r) ==
  /\ pc[r] = "respond"
  /\ answer' = [answer EXCEPT ![r] = LastEvent(r)]
  /\ Goto(r, "done")
  /\ UNCHANGED <<k, diskVars, brokerVars, events, before, faults>>

\* The process dies and restarts.
Crash ==
  /\ Fault
  /\ pc' = [r \in Requests |-> IF pc[r] \in Finished THEN pc[r] ELSE "failed"]
  /\ lock' = None /\ loaded' = {}
  /\ events' = <<>>
  /\ UNCHANGED <<dryRun, k, orders, fills, placed, filled, before, answer>>

Step(r) ==
  \/ Connect(r) \/ BrokerRaises(r) \/ Execute(r)
  \/ LoadOrders(r) \/ LoadFills(r) \/ LoadRaises(r)
  \/ DumpOrders(r) \/ DumpFills(r) \/ DumpRaises(r)
  \/ Emit(r) \/ Respond(r)

Next == Crash \/ \E r \in Requests : Start(r) \/ Step(r)

Spec == Init /\ [][Next]_vars

\* The pool's threads are scheduled.
FairSpec == Spec /\ \A r \in Requests : WF_vars(Step(r))

-----------------------------------------------------------------------------
(* Properties.                                                             *)

File == [torn : BOOLEAN, rows : SUBSET AllOrders]

\* Every variable has its type.
TypeOK ==
  /\ dryRun \in BOOLEAN
  /\ pc \in [Requests -> PC] /\ k \in [Requests -> 1..Orders]
  /\ lock \in Requests \cup {None} /\ loaded \subseteq AllOrders
  /\ orders \in File /\ fills \in File
  /\ placed \subseteq AllOrders /\ filled \subseteq placed
  /\ events \in Seq(Requests) /\ before \in [Requests -> Nat]
  /\ answer \in [Requests -> Requests \cup {None}]
  /\ faults \in 0..MaxFaults

\* When a request was answered with 201, the answer carries a hedge event, each of
\* its orders is at the broker and in orders.json, and each filled one in
\* fills.json, whatever other requests wrote since; only a torn file loses them.
AnsweredIsRecorded ==
  \A r \in Requests : pc[r] = "done" =>
    /\ answer[r] # None
    /\ \A i \in 1..Orders :
         /\ <<r, i>> \in placed
         /\ orders.torn \/ <<r, i>> \in orders.rows
         /\ <<r, i>> \in filled => fills.torn \/ <<r, i>> \in fills.rows

\* After any failure the broker has at most one order of a request that was not
\* recorded: the one the request stopped at.
OneUnrecorded ==
  ~orders.torn => \A o \in placed \ orders.rows :
    pc[o[1]] \in {"orders", "failed"} /\ k[o[1]] = o[2]

\* A file torn by a crash or a failed write stays so through every later request:
\* none writes it again, and the rows that may be salvaged from it survive.
TornStays ==
  /\ [](orders.torn /\ lock = None => []orders.torn)
  /\ [](fills.torn /\ lock = None => []fills.torn)

\* No request waits for ever on the storage lock, torn files and failed writes
\* included.
RequestsEnd == \A r \in Requests : pc[r] = "connect" ~> pc[r] \in {"done", "failed"}

\* test_execution_endpoint_returns_orders: the hedge event of an answer is that
\* of its own request.
AnswerHasOwnEvent == \A r \in Requests : pc[r] = "done" => answer[r] = r
=============================================================================
