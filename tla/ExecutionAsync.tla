--------------------------- MODULE ExecutionAsync ---------------------------
(***************************************************************************)
(* The asynchronous execution service (services/execution): service.py,    *)
(* ibkr.py and repository.py on one event loop.                            *)
(*                                                                         *)
(* A step runs from one suspended await to the next.  ensure_connection    *)
(* does not suspend when the client is connected, and neither do           *)
(* placeOrder and the appends, so what follows an answer runs in the step  *)
(* of that answer.  The calls of place_hedge run at once as tasks and have *)
(* all returned when the async with block of the service is left.          *)
(*                                                                         *)
(* ib_insync is external: a connection may be lost, connectAsync raises    *)
(* and leaves the client disconnected, a call that raises may or may not   *)
(* have reached the broker, and a trade changes while the client is        *)
(* connected.  Prices and the choice of expiries are in Ladder; the event  *)
(* HedgePlaced follows each order's record and is not kept apart from it.  *)
(*                                                                         *)
(* A definition followed by another of the same shape that nothing uses    *)
(* (RegisterFailsOn, CloseAtOnce, ...) is a plausible mistake; the README     *)
(* says which property finds it.                                           *)
(***************************************************************************)
EXTENDS Naturals, Sequences

CONSTANTS
  Hedges,   \* calls of place_hedge
  Legs,     \* how many expiries each call covers
  Lot,      \* contracts of each of its legs
  MaxFaults \* bound on lost connections and calls that raise

ASSUME SizeAssumption ==
  Legs \in [Hedges -> Nat \ {0}] /\ Lot \in [Hedges -> Nat \ {0}] /\ MaxFaults \in Nat

VARIABLES
  service, \* the async with block
  hpc, leg, \* where each place_hedge is, and its leg
  flag,    \* IBKRClient._connected
  up,      \* ib.isConnected()
  sent,    \* how often each leg reached the broker
  trade,   \* the Trade of each leg
  orders,  \* legs in orders.jsonl
  watcher, \* the task _watch_trade of each leg
  fills,   \* the lines of fills.jsonl about each leg
  faults

linkVars == <<flag, up>>
legVars  == <<sent, trade, orders>>
fileVars == <<watcher, fills>>
vars == <<service, hpc, leg, linkVars, legVars, fileVars, faults>>

Trades == UNION {{h} \X (1..Legs[h]) : h \in Hedges}
Current(h) == <<h, leg[h]>>

Report == [status : {"none", "Submitted", "Filled", "Cancelled"}, filled : Nat]
NoTrade  == [status |-> "none", filled |-> 0]
NewTrade == [status |-> "Submitted", filled |-> 0]

\* Trade.isDone
Done(t) == trade[t].status \in {"Filled", "Cancelled"}

Connecting == {"connect", "reconnect", "connectPlace", "reconnectPlace"}
HedgePC == {"idle", "qualify", "requalify", "done", "failed"} \cup Connecting

Goto(h, label) == hpc' = [hpc EXCEPT ![h] = label]

Fault == faults < MaxFaults /\ faults' = faults + 1

-----------------------------------------------------------------------------
Init ==
  /\ service = "out"
  /\ hpc = [h \in Hedges |-> "idle"] /\ leg = [h \in Hedges |-> 1]
  /\ flag = FALSE /\ up = FALSE
  /\ sent = [t \in Trades |-> 0] /\ trade = [t \in Trades |-> NoTrade] /\ orders = {}
  /\ watcher = [t \in Trades |-> "none"] /\ fills = [t \in Trades |-> <<>>]
  /\ faults = 0

\* __aenter__ connects, or raises and the block is never entered.
Enter ==
  /\ service = "out"
  /\ \/ service' = "in" /\ flag' = TRUE /\ up' = TRUE /\ faults' = faults
     \/ service' = "closed" /\ UNCHANGED linkVars /\ Fault
  /\ UNCHANGED <<hpc, leg, legVars, fileVars>>

\* The connection is lost; nobody tells the flag.
Drop ==
  /\ up /\ Fault
  /\ up' = FALSE
  /\ UNCHANGED <<service, hpc, leg, flag, legVars, fileVars>>

\* place_hedge up to the first await: qualify_contract asks IBKR, or
\* ensure_connection has to connect first.
Begin(h) ==
  /\ service = "in" /\ hpc[h] = "idle"
  /\ IF flag /\ up THEN Goto(h, "qualify") /\ flag' = flag
                   ELSE Goto(h, "connect") /\ flag' = FALSE
  /\ UNCHANGED <<service, leg, up, legVars, fileVars, faults>>

\* The order is recorded and its watcher created; the next leg asks at once, since
\* the client is connected.
Register(h) ==
  /\ orders' = orders \cup {Current(h)}
  /\ watcher' = [watcher EXCEPT ![Current(h)] = "start"]
  /\ IF leg[h] < Legs[h] THEN Goto(h, "qualify") /\ leg' = [leg EXCEPT ![h] = @ + 1]
                      ELSE Goto(h, "done") /\ leg' = leg
  /\ faults' = faults

RegisterFailsWatched(h) ==
  /\ Fault
  /\ Goto(h, "failed")
  /\ watcher' = [watcher EXCEPT ![Current(h)] = "start"]
  /\ UNCHANGED <<leg, orders>>

RegisterFailsOn(h) ==
  /\ Fault
  /\ IF leg[h] < Legs[h] THEN Goto(h, "qualify") /\ leg' = [leg EXCEPT ![h] = @ + 1]
                      ELSE Goto(h, "done") /\ leg' = leg
  /\ UNCHANGED <<orders, watcher>>

\* orders_repo.append raises.
RegisterFails(h) ==
  /\ Fault
  /\ Goto(h, "failed")
  /\ UNCHANGED <<leg, orders, watcher>>

\* connectAsync has returned and connect sets the flag.
ConnectedUnmarked == flag' = flag /\ up' = TRUE
Connected == flag' = TRUE /\ up' = TRUE

PlaceReturns(h) ==
  /\ Connected
  /\ sent' = [sent EXCEPT ![Current(h)] = @ + 1]
  /\ trade' = [trade EXCEPT ![Current(h)] = NewTrade]
  /\ Register(h) \/ RegisterFails(h)

\* ConnectionError: place_trade connects and tries until it works.
PlaceRaisesAgain(h, retried) ==
  /\ Fault
  /\ sent' \in {sent, [sent EXCEPT ![Current(h)] = @ + 1]}
  /\ flag' = FALSE /\ up' \in BOOLEAN
  /\ Goto(h, "reconnectPlace")
  /\ UNCHANGED <<leg, trade, orders, watcher>>

\* After a ConnectionError place_trade connects and tries once more; any other error, and
\* any of the second attempt, ends the call.
PlaceRaises(h, retried) ==
  /\ Fault
  /\ sent' \in {sent, [sent EXCEPT ![Current(h)] = @ + 1]}
  /\ \E final \in {TRUE, retried} :
       /\ flag' = final
       /\ Goto(h, IF final THEN "failed" ELSE "reconnectPlace")
  /\ up' \in BOOLEAN
  /\ UNCHANGED <<leg, trade, orders, watcher>>

Place(h, retried) == PlaceReturns(h) \/ PlaceRaises(h, retried)

\* The task goes on to what it connected for.
ConnectReturns(h) ==
  /\ \/ /\ \/ hpc[h] = "connect" /\ Goto(h, "qualify")
           \/ hpc[h] = "reconnect" /\ Goto(h, "requalify")
        /\ Connected
        /\ UNCHANGED <<leg, legVars, watcher, faults>>
     \/ hpc[h] = "connectPlace" /\ Place(h, FALSE)
     \/ hpc[h] = "reconnectPlace" /\ Place(h, TRUE)
  /\ UNCHANGED <<service, fills>>

ConnectRaises(h) ==
  /\ hpc[h] \in Connecting /\ Fault
  /\ up' = FALSE
  /\ Goto(h, "failed")
  /\ UNCHANGED <<service, leg, flag, legVars, fileVars>>

\* The contract is qualified; place_trade places the order, or has to connect first.
QualifyReturns(h) ==
  /\ hpc[h] \in {"qualify", "requalify"}
  /\ \/ flag /\ up /\ Place(h, FALSE)
     \/ /\ ~(flag /\ up)
        /\ flag' = FALSE /\ Goto(h, "connectPlace")
        /\ UNCHANGED <<leg, up, legVars, watcher, faults>>
  /\ UNCHANGED <<service, fills>>

\* No contract is found, or the call raises; ConnectionError is tried once more.
QualifyRaises(h) ==
  /\ hpc[h] \in {"qualify", "requalify"} /\ Fault
  /\ \/ hpc[h] = "qualify" /\ flag' = FALSE /\ up' \in BOOLEAN /\ Goto(h, "reconnect")
     \/ Goto(h, "failed") /\ UNCHANGED linkVars
  /\ UNCHANGED <<service, leg, legVars, fileVars>>

-----------------------------------------------------------------------------
\* The broker reports a fill or a cancellation; it wakes the watcher if that waits.
Update(t) ==
  /\ up /\ trade[t] # NoTrade /\ ~Done(t)
  /\ \E more \in {0, 1} :
       LET filled == trade[t].filled + more
       IN trade' = [trade EXCEPT ![t] =
            [filled |-> filled,
             status |-> IF filled = Lot[t[1]] THEN "Filled"
                        ELSE IF more = 1 THEN "Submitted" ELSE "Cancelled"]]
  /\ watcher' = [watcher EXCEPT ![t] = IF @ = "waiting" THEN "woken" ELSE @]
  /\ UNCHANGED <<service, hpc, leg, linkVars, sent, orders, fills, faults>>

\* Where the loop of _watch_trade goes after a turn, and how many lines it writes:
\* one if it was woken, and another one at the end.
WaitOn(t) == "waiting"
Resume(t) == IF Done(t) THEN "done" ELSE "waiting"

Lines(t) == (IF watcher[t] = "woken" THEN 1 ELSE 0) + (IF Done(t) THEN 1 ELSE 0)

Write(t, n) == fills' = [fills EXCEPT ![t] = @ \o [i \in 1..n |-> trade[t]]]

WatchTurn(t) ==
  /\ watcher[t] \in {"start", "woken"}
  /\ Write(t, Lines(t))
  /\ watcher' = [watcher EXCEPT ![t] = Resume(t)]
  /\ UNCHANGED <<service, hpc, leg, linkVars, legVars, faults>>

\* fills_repo.append raises; the watcher logs the exception and ends.
WatchFails(t) ==
  /\ watcher[t] \in {"start", "woken"} /\ Lines(t) > 0 /\ Fault
  /\ \E n \in 0..(Lines(t) - 1) : Write(t, n)
  /\ watcher' = [watcher EXCEPT ![t] = "failed"]
  /\ UNCHANGED <<service, hpc, leg, linkVars, legVars>>

-----------------------------------------------------------------------------
\* __aexit__ gathers the watchers and then disconnects if the flag says so.
Leave ==
  /\ service = "in" /\ \A h \in Hedges : hpc[h] \in {"idle", "done", "failed"}
  /\ service' = "leaving"
  /\ UNCHANGED <<hpc, leg, linkVars, legVars, fileVars, faults>>

CloseAtOnce ==
  /\ service = "leaving"
  /\ service' = "closed"
  /\ flag' = FALSE /\ up' = (up /\ ~flag)
  /\ UNCHANGED <<hpc, leg, legVars, fileVars, faults>>

Close ==
  /\ service = "leaving"
  /\ \A t \in Trades : watcher[t] \in {"none", "done", "failed"}
  /\ service' = "closed"
  /\ flag' = FALSE /\ up' = (up /\ ~flag)
  /\ UNCHANGED <<hpc, leg, legVars, fileVars, faults>>

HedgeStep(h) ==
  ConnectReturns(h) \/ ConnectRaises(h) \/ QualifyReturns(h) \/ QualifyRaises(h)
WatchStep(t) == WatchTurn(t) \/ WatchFails(t)

Next ==
  \/ Enter \/ Drop \/ Leave \/ Close
  \/ \E h \in Hedges : Begin(h) \/ HedgeStep(h)
  \/ \E t \in Trades : Update(t) \/ WatchStep(t)

Spec == Init /\ [][Next]_vars

\* The event loop runs every task that is ready.
FairSpec ==
  /\ Spec /\ WF_vars(Close)
  /\ \A h \in Hedges : WF_vars(HedgeStep(h))
  /\ \A t \in Trades : WF_vars(WatchStep(t))

-----------------------------------------------------------------------------
(* Properties.                                                             *)

\* Every variable has its type.
TypeOK ==
  /\ service \in {"out", "in", "leaving", "closed"}
  /\ hpc \in [Hedges -> HedgePC] /\ leg \in [Hedges -> Nat]
  /\ \A h \in Hedges : leg[h] \in 1..Legs[h]
  /\ flag \in BOOLEAN /\ up \in BOOLEAN
  /\ sent \in [Trades -> Nat] /\ trade \in [Trades -> Report]
  /\ \A t \in Trades : trade[t].filled <= Lot[t[1]]
  /\ orders \subseteq Trades
  /\ watcher \in [Trades -> {"none", "start", "waiting", "woken", "done", "failed"}]
  /\ fills \in [Trades -> Seq(Report)]
  /\ faults \in 0..MaxFaults

\* Whatever place_hedge met, its legs before the current one are all recorded, and
\* a leg after it never reached the broker: what may be live and unrecorded is one leg,
\* which a retry may have sent twice and no more.
OneUnrecorded ==
  \A h \in Hedges : \A i \in 1..Legs[h] :
    /\ i < leg[h] \/ hpc[h] = "done" => <<h, i>> \in orders
    /\ sent[<<h, i>>] <= IF i > leg[h] THEN 0 ELSE 2

\* No update is lost on a watcher: when it waits, its trade is not finished and the
\* last line it wrote is what the trade says.
NoLostUpdate ==
  \A t \in Trades : watcher[t] = "waiting" =>
    /\ ~Done(t)
    /\ fills[t] # <<>> => fills[t][Len(fills[t])] = trade[t]

\* When the block has been left, every recorded order has its final state as the last
\* line of fills.jsonl, unless a write of its watcher failed.
ClosedIsComplete ==
  service = "closed" => \A t \in orders :
    watcher[t] # "failed" =>
      fills[t] # <<>> /\ Done(t) /\ fills[t][Len(fills[t])] = trade[t]

\* The connection is not left open behind the service, however the reconnections of
\* several tasks overlapped.
ClosedIsDisconnected == service = "closed" => ~up

\* Leaving the block ends once every trade is finished.
ShutdownEnds ==
  (service = "leaving" /\ \A t \in Trades : trade[t] # NoTrade => Done(t))
    ~> service = "closed"

\* The two files implement the log that a reader relies on.
Log == INSTANCE HedgeLog WITH
  Lot <- [t \in Trades |-> Lot[t[1]]],
  listed <- orders,
  report <- [t \in Trades |-> IF fills[t] = <<>> THEN NoTrade ELSE fills[t][Len(fills[t])]]
LogSpec == Log!Spec
=============================================================================
