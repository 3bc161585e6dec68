------------------------- MODULE ExecutionSyncProofs -------------------------
(***************************************************************************)
(* Theorems about ExecutionSync for any set of requests, any number of     *)
(* orders in a request and any number of failed writes and crashes.        *)
(***************************************************************************)
EXTENDS ExecutionSync, TLAPS, SequenceTheorems

\* The holder of the storage lock is the thread between the emptying of a file
\* and the end of the write, and that file is torn meanwhile.
LockInv ==
  \A r \in Requests : /\ pc[r] \in {"dumpOrders", "dumpFills"} <=> lock = r
                      /\ pc[r] = "dumpOrders" => orders.torn
                      /\ pc[r] = "dumpFills" => fills.torn

\* No event is taken back while a request is under way.
Working == PC \ Finished
EventInv ==
  \A r \in Requests : /\ pc[r] \in Working => before[r] <= Len(events)
                      /\ pc[r] = "respond" => before[r] < Len(events)
                      /\ pc[r] = "done" => answer[r] # None

\* A row is safe: it will be in the file when the present write ends, or the file
\* is torn for good.
OrderSafe(o) == IF \E s \in Requests : pc[s] = "dumpOrders"
                THEN o \in loaded ELSE orders.torn \/ o \in orders.rows
FillSafe(o) == IF \E s \in Requests : pc[s] = "dumpFills"
               THEN o \in loaded ELSE fills.torn \/ o \in fills.rows

\* The i-th order of a request has been recorded; has been followed by its fills.
Recorded(r, i) == i < k[r] \/ (i = k[r] /\ pc[r] \in {"fills", "dumpFills", "emit",
                                                      "respond", "done"})
Reported(r, i) == i < k[r] \/ (i = k[r] /\ pc[r] \in {"emit", "respond", "done"})

\* A placed order is recorded, or is the one its request is at; what is recorded
\* is safe, and so are the fills of what is reported.
OrderInv ==
  \A r \in Requests, i \in 1..Orders :
    /\ Recorded(r, i) => <<r, i>> \in placed /\ OrderSafe(<<r, i>>)
    /\ Reported(r, i) /\ <<r, i>> \in filled => FillSafe(<<r, i>>)
    /\ i = k[r] /\ pc[r] \in {"orders", "dumpOrders"} => <<r, i>> \in placed
    /\ <<r, i>> \in placed =>
         i < k[r] \/ (i = k[r] /\ pc[r] \notin {"idle", "connect", "execute"})

LastInv == \A r \in Requests : pc[r] \in {"emit", "respond", "done"} => k[r] = Orders

IInv == TypeOK /\ LockInv /\ EventInv /\ OrderInv /\ LastInv

USE DEF Goto, diskVars, brokerVars, eventVars

LEMMA TypeStep == TypeOK /\ [Next]_vars => TypeOK'
<1> SUFFICES ASSUME TypeOK, [Next]_vars PROVE TypeOK'
  OBVIOUS
<1> USE SizeAssumption DEF TypeOK, PC, Finished
<1>0. /\ Empty \in File /\ Torn \in File
      /\ \A r \in Requests : Current(r) \in AllOrders
      /\ Len(events) \in Nat
  BY LenProperties DEF Empty, Torn, File, Current, AllOrders
<1>1. ASSUME NEW r \in Requests, Start(r) PROVE TypeOK'
  BY <1>0, <1>1 DEF Start
<1>2. ASSUME NEW r \in Requests, Connect(r) \/ BrokerRaises(r) \/ LoadRaises(r)
      PROVE  TypeOK'
  BY <1>2 DEF Connect, BrokerRaises, LoadRaises
<1>3. ASSUME NEW r \in Requests, Execute(r) PROVE TypeOK'
  BY <1>0, <1>3 DEF Execute
<1>4. ASSUME NEW r \in Requests, LoadOrders(r) \/ LoadFills(r) PROVE TypeOK'
  <2>1. loaded' \subseteq AllOrders
    BY <1>4 DEF LoadOrders, LoadFills, File
  <2> QED BY <1>0, <1>4, <2>1 DEF LoadOrders, LoadFills
<1>5. ASSUME NEW r \in Requests, NextOrder(r)
      PROVE  k' \in [Requests -> 1..Orders] /\ pc' \in [Requests -> PC]
  <2>1. CASE k[r] < Orders
    <3>1. k[r] + 1 \in 1..Orders
      BY <2>1
    <3>2. k' = [k EXCEPT ![r] = k[r] + 1] /\ pc' = [pc EXCEPT ![r] = "execute"]
      BY <1>5, <2>1 DEF NextOrder
    <3> QED BY <3>1, <3>2
  <2>2. CASE ~(k[r] < Orders)
    BY <1>5, <2>2 DEF NextOrder
  <2> QED BY <2>1, <2>2
<1>6. ASSUME NEW r \in Requests, DumpOrders(r) PROVE TypeOK'
  <2>1. orders' \in File
    BY <1>0, <1>6 DEF DumpOrders, File
  <2>2. k' \in [Requests -> 1..Orders] /\ pc' \in [Requests -> PC]
    BY <1>5, <1>6 DEF DumpOrders
  <2> QED BY <1>6, <2>1, <2>2 DEF DumpOrders
<1>7. ASSUME NEW r \in Requests, DumpFills(r) PROVE TypeOK'
  <2>1. fills' \in File
    BY <1>0, <1>7 DEF DumpFills, File
  <2>2. k' \in [Requests -> 1..Orders] /\ pc' \in [Requests -> PC]
    BY <1>5, <1>7 DEF DumpFills
  <2> QED BY <1>7, <2>1, <2>2 DEF DumpFills
<1>8. ASSUME NEW r \in Requests, DumpRaises(r) PROVE TypeOK'
  BY <1>8 DEF DumpRaises, Fault
<1>9. ASSUME NEW r \in Requests, Emit(r) PROVE TypeOK'
  <2>1. events' \in Seq(Requests)
    BY <1>9, AppendProperties DEF Emit
  <2> QED BY <1>9, <2>1 DEF Emit
<1>10. ASSUME NEW r \in Requests, Respond(r) PROVE TypeOK'
  <2>1. LastEvent(r) \in Requests \cup {None}
    BY <1>0, ElementOfSeq DEF LastEvent
  <2> QED BY <1>10, <2>1 DEF Respond
<1>11. CASE Crash
  BY <1>11, EmptySeq DEF Crash, Fault
<1>12. CASE UNCHANGED vars
  BY <1>12 DEF vars
<1> QED
  BY <1>1, <1>2, <1>3, <1>4, <1>6, <1>7, <1>8, <1>9, <1>10, <1>11, <1>12 DEF Next, Step

LEMMA LockStep == TypeOK /\ LockInv /\ [Next]_vars => LockInv'
<1> SUFFICES ASSUME TypeOK, LockInv, [Next]_vars PROVE LockInv'
  OBVIOUS
<1> pc \in [Requests -> PC] /\ lock \in Requests \cup {None}
  BY DEF TypeOK
<1> USE SizeAssumption DEF LockInv
<1>1. ASSUME NEW r \in Requests,
             Start(r) \/ Connect(r) \/ BrokerRaises(r) \/ Execute(r) \/ LoadRaises(r)
             \/ Emit(r) \/ Respond(r)
      PROVE  LockInv'
  BY <1>1 DEF Start, Connect, BrokerRaises, Execute, LoadRaises, Emit, Respond
<1>2. ASSUME NEW r \in Requests, LoadOrders(r) \/ LoadFills(r) PROVE LockInv'
  BY <1>2 DEF LoadOrders, LoadFills, LockFree, Torn
<1>3. ASSUME NEW r \in Requests, DumpOrders(r) \/ DumpFills(r) PROVE LockInv'
  BY <1>3 DEF DumpOrders, DumpFills, NextOrder
<1>4. ASSUME NEW r \in Requests, DumpRaises(r) PROVE LockInv'
  BY <1>4 DEF DumpRaises
<1>5. CASE Crash
  BY <1>5 DEF Crash, Finished
<1>6. CASE UNCHANGED vars
  BY <1>6 DEF vars
<1> QED BY <1>1, <1>2, <1>3, <1>4, <1>5, <1>6 DEF Next, Step

LEMMA EventStep == TypeOK /\ EventInv /\ [Next]_vars => EventInv'
<1> SUFFICES ASSUME TypeOK, EventInv, [Next]_vars PROVE EventInv'
  OBVIOUS
<1> /\ pc \in [Requests -> PC] /\ events \in Seq(Requests) /\ Len(events) \in Nat
    /\ before \in [Requests -> Nat] /\ answer \in [Requests -> Requests \cup {None}]
  BY LenProperties DEF TypeOK
<1> USE SizeAssumption DEF EventInv, Working, PC, Finished
<1>1. ASSUME NEW r \in Requests, Start(r) PROVE EventInv'
  BY <1>1 DEF Start
<1>2. ASSUME UNCHANGED <<events, before, answer>>,
             \A s \in Requests : pc'[s] = pc[s]
               \/ (pc'[s] \notin {"respond", "done"} /\ pc[s] \in Working)
      PROVE  EventInv'
  BY <1>2
<1>3. ASSUME NEW r \in Requests,
             Connect(r) \/ BrokerRaises(r) \/ Execute(r) \/ LoadOrders(r) \/ LoadFills(r)
             \/ LoadRaises(r) \/ DumpOrders(r) \/ DumpFills(r) \/ DumpRaises(r)
      PROVE  EventInv'
  BY <1>2, <1>3 DEF Connect, BrokerRaises, Execute, LoadOrders, LoadFills, LoadRaises,
               DumpOrders, DumpFills, DumpRaises, NextOrder
<1>4. ASSUME NEW r \in Requests, Emit(r) PROVE EventInv'
  <2>1. Len(events') = Len(events) + 1
    BY <1>4, AppendProperties DEF Emit
  <2> QED BY <1>4, <2>1 DEF Emit
<1>5. ASSUME NEW r \in Requests, Respond(r) PROVE EventInv'
  <2>1. LastEvent(r) \in Requests
    BY <1>5, ElementOfSeq DEF Respond, LastEvent
  <2> QED BY <1>5, <2>1 DEF Respond
<1>6. CASE Crash
  BY <1>6 DEF Crash
<1>7. CASE UNCHANGED vars
  BY <1>7 DEF vars
<1> QED BY <1>1, <1>3, <1>4, <1>5, <1>6, <1>7 DEF Next, Step

\* No step loses a row that is safe.
LEMMA SafeKept ==
  TypeOK /\ LockInv /\ [Next]_vars =>
    \A o : (OrderSafe(o) => OrderSafe(o)') /\ (FillSafe(o) => FillSafe(o)')
<1> DEFINE Kept == \A o : (OrderSafe(o) => OrderSafe(o)') /\ (FillSafe(o) => FillSafe(o)')
<1> SUFFICES ASSUME TypeOK, LockInv, [Next]_vars PROVE Kept
  OBVIOUS
<1> pc \in [Requests -> PC] /\ lock \in Requests \cup {None}
  BY DEF TypeOK
<1> USE SizeAssumption DEF OrderSafe, FillSafe
<1>1. ASSUME UNCHANGED <<loaded, orders, fills>>,
             \A s \in Requests : /\ pc[s] = "dumpOrders" <=> pc'[s] = "dumpOrders"
                                 /\ pc[s] = "dumpFills" <=> pc'[s] = "dumpFills"
      PROVE  Kept
  BY <1>1
<1>2. ASSUME NEW r \in Requests,
             Start(r) \/ Connect(r) \/ BrokerRaises(r) \/ Execute(r) \/ LoadRaises(r)
             \/ Emit(r) \/ Respond(r)
      PROVE  Kept
  BY <1>1, <1>2 DEF Start, Connect, BrokerRaises, Execute, LoadRaises, Emit, Respond
<1>3. ASSUME NEW r \in Requests, LoadOrders(r) PROVE Kept
  <2>1. /\ \A s \in Requests : pc[s] \notin {"dumpOrders", "dumpFills"}
        /\ ~orders.torn /\ loaded' = orders.rows /\ fills' = fills
        /\ pc' = [pc EXCEPT ![r] = "dumpOrders"]
    BY <1>3 DEF LoadOrders, LockFree, Loads, LockInv
  <2> QED BY <2>1
<1>4. ASSUME NEW r \in Requests, LoadFills(r) PROVE Kept
  <2>1. /\ \A s \in Requests : pc[s] \notin {"dumpOrders", "dumpFills"}
        /\ ~fills.torn /\ loaded' = fills.rows /\ orders' = orders
        /\ pc' = [pc EXCEPT ![r] = "dumpFills"]
    BY <1>4 DEF LoadFills, LockFree, Loads, LockInv
  <2> QED BY <2>1
<1>5. ASSUME NEW r \in Requests, DumpOrders(r) PROVE Kept
  <2>1. /\ pc[r] = "dumpOrders"
        /\ \A s \in Requests : pc[s] # "dumpFills"
        /\ \A s \in Requests : pc'[s] \notin {"dumpOrders", "dumpFills"}
        /\ orders' = [torn |-> FALSE, rows |-> loaded \cup {Current(r)}]
        /\ fills' = fills
    BY <1>5 DEF DumpOrders, NextOrder, LockInv
  <2> QED BY <2>1
<1>6. ASSUME NEW r \in Requests, DumpFills(r) PROVE Kept
  <2>1. /\ pc[r] = "dumpFills"
        /\ \A s \in Requests : pc[s] # "dumpOrders"
        /\ \A s \in Requests : pc'[s] \notin {"dumpOrders", "dumpFills"}
        /\ fills' = [torn |-> FALSE, rows |-> loaded \cup {Current(r)}]
        /\ orders' = orders
    BY <1>6 DEF DumpFills, NextOrder, LockInv
  <2> QED BY <2>1
<1>7. ASSUME orders' = orders, fills' = fills,
             \A s \in Requests : pc'[s] \notin {"dumpOrders", "dumpFills"}
      PROVE  Kept
  BY <1>7 DEF LockInv
<1>8. ASSUME NEW r \in Requests, DumpRaises(r) PROVE Kept
  <2>1. /\ orders' = orders /\ fills' = fills
        /\ \A s \in Requests : pc'[s] \notin {"dumpOrders", "dumpFills"}
    BY <1>8 DEF DumpRaises, LockInv
  <2> QED BY <1>7, <2>1
<1>9. CASE Crash
  BY <1>7, <1>9 DEF Crash, Finished
<1>10. CASE UNCHANGED vars
  BY <1>1, <1>10 DEF vars
<1> QED
  BY <1>2, <1>3, <1>4, <1>5, <1>6, <1>8, <1>9, <1>10 DEF Next, Step

LEMMA OrderStep == TypeOK /\ LockInv /\ OrderInv /\ [Next]_vars => OrderInv'
<1> DEFINE Ok(r, i) ==
      /\ Recorded(r, i) => <<r, i>> \in placed /\ OrderSafe(<<r, i>>)
      /\ Reported(r, i) /\ <<r, i>> \in filled => FillSafe(<<r, i>>)
      /\ i = k[r] /\ pc[r] \in {"orders", "dumpOrders"} => <<r, i>> \in placed
      /\ <<r, i>> \in placed =>
           i < k[r] \/ (i = k[r] /\ pc[r] \notin {"idle", "connect", "execute"})
<1> SUFFICES ASSUME TypeOK, LockInv, OrderInv, [Next]_vars,
                    NEW s \in Requests, NEW i \in 1..Orders
             PROVE  Ok(s, i)'
  BY DEF OrderInv
<1>1. /\ Ok(s, i)
      /\ OrderSafe(<<s, i>>) => OrderSafe(<<s, i>>)'
      /\ FillSafe(<<s, i>>) => FillSafe(<<s, i>>)'
  BY SafeKept DEF OrderInv
<1>2. /\ pc \in [Requests -> PC] /\ k \in [Requests -> 1..Orders]
      /\ \A r \in Requests : k[r] \in Nat
  BY SizeAssumption DEF TypeOK
<1> HIDE DEF Goto, diskVars, brokerVars, eventVars
\* The request itself goes on without placing an order or ending a write.
<1>3. ASSUME <<s, i>> \in placed' <=> <<s, i>> \in placed,
             <<s, i>> \in filled' <=> <<s, i>> \in filled,
             k'[s] = k[s],
             \/ pc'[s] = pc[s]
             \/ pc'[s] = "failed" /\ pc[s] \notin Finished
             \/ <<pc[s], pc'[s]>> \in
                  {<<"idle", "connect">>, <<"connect", "execute">>,
                   <<"orders", "dumpOrders">>, <<"fills", "dumpFills">>,
                   <<"emit", "respond">>, <<"respond", "done">>}
      PROVE  Ok(s, i)'
  BY <1>1, <1>2, <1>3 DEF Recorded, Reported, Finished
<1>4. ASSUME NEW r \in Requests,
             Start(r) \/ Connect(r) \/ BrokerRaises(r) \/ LoadOrders(r) \/ LoadFills(r)
             \/ LoadRaises(r) \/ DumpRaises(r) \/ Emit(r) \/ Respond(r)
      PROVE  Ok(s, i)'
  <2>1. placed' = placed /\ filled' = filled /\ k' = k
    BY <1>4 DEF Start, Connect, BrokerRaises, LoadOrders, LoadFills, LoadRaises, DumpRaises,
                Emit, Respond, brokerVars
  <2>2. \/ pc'[s] = pc[s]
        \/ pc'[s] = "failed" /\ pc[s] \notin Finished
        \/ <<pc[s], pc'[s]>> \in
             {<<"idle", "connect">>, <<"connect", "execute">>,
              <<"orders", "dumpOrders">>, <<"fills", "dumpFills">>,
              <<"emit", "respond">>, <<"respond", "done">>}
    BY <1>2, <1>4 DEF Start, Connect, BrokerRaises, LoadOrders, LoadFills, LoadRaises,
                      DumpRaises, Emit, Respond, Goto, Finished
  <2> QED BY <1>3, <2>1, <2>2
<1>5. ASSUME NEW r \in Requests, Execute(r) PROVE Ok(s, i)'
  <2>1. /\ pc[r] = "execute" /\ pc' = [pc EXCEPT ![r] = "orders"] /\ k' = k
        /\ placed' = placed \cup {<<r, k[r]>>}
        /\ filled' = filled \/ filled' = filled \cup {<<r, k[r]>>}
    BY <1>5 DEF Execute, Goto, Current
  <2>2. CASE r = s
    BY <1>1, <1>2, <2>1, <2>2 DEF Recorded, Reported
  <2>3. CASE r # s
    BY <1>2, <1>3, <2>1, <2>3
  <2> QED BY <2>2, <2>3
\* The request ends a write, or another one does.
<1>6. ASSUME NEW r \in Requests, NextOrder(r), r = s
      PROVE  /\ pc'[s] \in {"execute", "emit"}
             /\ k'[s] \in {k[s], k[s] + 1}
             /\ pc'[s] = "execute" => k'[s] = k[s] + 1
             /\ pc'[s] = "emit" => k'[s] = k[s]
  BY <1>2, <1>6 DEF NextOrder, Goto
<1>7. ASSUME NEW r \in Requests, r # s, DumpOrders(r) \/ DumpFills(r) PROVE Ok(s, i)'
  BY <1>2, <1>3, <1>7 DEF DumpOrders, DumpFills, NextOrder, Goto, brokerVars
<1>8. ASSUME DumpOrders(s) PROVE Ok(s, i)'
  <2>1. /\ pc[s] = "dumpOrders" /\ placed' = placed /\ filled' = filled
        /\ i = k[s] => /\ OrderSafe(<<s, i>>)'
    <3>1. \A t \in Requests : pc'[t] # "dumpOrders"
      BY <1>2, <1>8 DEF DumpOrders, NextOrder, Goto, LockInv
    <3> QED BY <1>8, <3>1 DEF DumpOrders, Current, OrderSafe, brokerVars
  <2>2. CASE <<s, k[s]>> \in filled
    <3>1. k' = k /\ pc' = [pc EXCEPT ![s] = "fills"]
      BY <1>8, <2>2 DEF DumpOrders, Current, Goto
    <3> QED BY <1>1, <1>2, <2>1, <3>1 DEF Recorded, Reported
  <2>3. CASE <<s, k[s]>> \notin filled
    <3>1. NextOrder(s)
      BY <1>8, <2>3 DEF DumpOrders, Current
    <3> QED BY <1>1, <1>2, <1>6, <2>1, <2>3, <3>1 DEF Recorded, Reported
  <2> QED BY <2>2, <2>3
<1>9. ASSUME DumpFills(s) PROVE Ok(s, i)'
  <2>1. /\ pc[s] = "dumpFills" /\ placed' = placed /\ filled' = filled /\ NextOrder(s)
        /\ i = k[s] => FillSafe(<<s, i>>)'
    <3>1. \A t \in Requests : pc'[t] # "dumpFills"
      BY <1>2, <1>9 DEF DumpFills, NextOrder, Goto, LockInv
    <3> QED BY <1>9, <3>1 DEF DumpFills, Current, FillSafe, brokerVars
  <2> QED BY <1>1, <1>2, <1>6, <2>1 DEF Recorded, Reported
<1>10. CASE Crash
  BY <1>3, <1>2, <1>10 DEF Crash
<1>11. CASE UNCHANGED vars
  BY <1>3, <1>11 DEF vars, brokerVars
<1> QED
  BY <1>4, <1>5, <1>7, <1>8, <1>9, <1>10, <1>11 DEF Next, Step

LEMMA LastStep == TypeOK /\ LastInv /\ [Next]_vars => LastInv'
<1> SUFFICES ASSUME TypeOK, LastInv, [Next]_vars PROVE LastInv'
  OBVIOUS
<1> /\ pc \in [Requests -> PC] /\ k \in [Requests -> 1..Orders]
    /\ \A r \in Requests : k[r] \in Nat /\ k[r] <= Orders
  BY SizeAssumption DEF TypeOK
<1> USE SizeAssumption DEF LastInv
<1>1. ASSUME NEW r \in Requests,
             Start(r) \/ Connect(r) \/ BrokerRaises(r) \/ Execute(r) \/ LoadOrders(r)
             \/ LoadFills(r) \/ LoadRaises(r) \/ DumpRaises(r) \/ Emit(r) \/ Respond(r)
      PROVE  LastInv'
  BY <1>1 DEF Start, Connect, BrokerRaises, Execute, LoadOrders, LoadFills, LoadRaises,
              DumpRaises, Emit, Respond
<1>2. ASSUME NEW r \in Requests, NextOrder(r) PROVE LastInv'
  BY <1>2 DEF NextOrder
<1>3. ASSUME NEW r \in Requests, DumpOrders(r) \/ DumpFills(r) PROVE LastInv'
  BY <1>2, <1>3 DEF DumpOrders, DumpFills
<1>4. CASE Crash
  BY <1>4 DEF Crash, Finished
<1>5. CASE UNCHANGED vars
  BY <1>5 DEF vars
<1> QED BY <1>1, <1>3, <1>4, <1>5 DEF Next, Step

-----------------------------------------------------------------------------
LEMMA SyncInit == Init => IInv
<1> SUFFICES ASSUME Init PROVE IInv
  OBVIOUS
<1> USE SizeAssumption
<1>1. TypeOK
  BY EmptySeq DEF Init, TypeOK, PC, Finished, File, Empty
<1>2. LockInv /\ EventInv /\ LastInv
  BY DEF Init, LockInv, EventInv, LastInv, Working, Finished
<1>3. OrderInv
  BY DEF Init, OrderInv, Recorded, Reported
<1> QED BY <1>1, <1>2, <1>3 DEF IInv

LEMMA SyncInvariant == Spec => []IInv
<1>1. IInv /\ [Next]_vars => IInv'
  BY TypeStep, LockStep, EventStep, OrderStep, LastStep DEF IInv
<1> QED BY <1>1, SyncInit, PTL DEF Spec

\* execution_sync/service.py with any number of threads, failed writes and crashes:
\* what was answered with 201 is at the broker and in both files, unless a file is
\* torn.
THEOREM AnswersRecorded == Spec => []AnsweredIsRecorded
<1>1. IInv => AnsweredIsRecorded
  <2> SUFFICES ASSUME IInv, NEW r \in Requests, pc[r] = "done"
               PROVE  /\ answer[r] # None
                      /\ \A i \in 1..Orders :
                           /\ <<r, i>> \in placed
                           /\ orders.torn \/ <<r, i>> \in orders.rows
                           /\ <<r, i>> \in filled => fills.torn \/ <<r, i>> \in fills.rows
    BY DEF AnsweredIsRecorded
  <2>1. answer[r] # None /\ k[r] = Orders
    BY DEF IInv, EventInv, LastInv
  <2> SUFFICES ASSUME NEW i \in 1..Orders
               PROVE  /\ <<r, i>> \in placed
                      /\ orders.torn \/ <<r, i>> \in orders.rows
                      /\ <<r, i>> \in filled => fills.torn \/ <<r, i>> \in fills.rows
    BY <2>1
  <2>2. Recorded(r, i) /\ Reported(r, i)
    BY <2>1, SizeAssumption DEF Recorded, Reported
  <2>3. /\ <<r, i>> \in placed /\ OrderSafe(<<r, i>>)
        /\ <<r, i>> \in filled => FillSafe(<<r, i>>)
    BY <2>2 DEF IInv, OrderInv
  <2> QED BY <2>3 DEF OrderSafe, FillSafe, IInv, LockInv
<1> QED BY <1>1, SyncInvariant, PTL

\* record_order comes right after execute_order: whatever fails, the broker has at
\* most one order of a request that the file does not.
THEOREM AtMostOneUnrecorded == Spec => []OneUnrecorded
<1>1. IInv => OneUnrecorded
  <2> SUFFICES ASSUME IInv, ~orders.torn, NEW o \in placed \ orders.rows
               PROVE  pc[o[1]] \in {"orders", "failed"} /\ k[o[1]] = o[2]
    BY DEF OneUnrecorded
  <2>1. PICK r \in Requests, i \in 1..Orders : o = <<r, i>>
    BY DEF IInv, TypeOK, AllOrders
  <2>2. /\ o[1] = r /\ o[2] = i /\ pc[r] # "dumpOrders" /\ pc[r] \in PC
        /\ ~OrderSafe(<<r, i>>)
    BY <2>1 DEF OrderSafe, IInv, LockInv, TypeOK
  <2>3. ~Recorded(r, i)
    BY <2>2 DEF IInv, OrderInv
  <2>4. i < k[r] \/ (i = k[r] /\ pc[r] \notin {"idle", "connect", "execute"})
    BY <2>1 DEF IInv, OrderInv
  <2> QED BY <2>2, <2>3, <2>4 DEF Recorded, PC, Finished
<1> QED BY <1>1, SyncInvariant, PTL

\* _load raises on a torn file and nothing else writes it: once the writer is gone,
\* a torn file stays as it is.
THEOREM TornForEver == Spec => TornStays
<1>1. /\ IInv /\ orders.torn /\ lock = None => orders.torn /\ \A r \in Requests : pc[r] # "dumpOrders"
      /\ IInv /\ fills.torn /\ lock = None => fills.torn /\ \A r \in Requests : pc[r] # "dumpFills"
  BY SizeAssumption DEF IInv, LockInv
<1>2. IInv /\ (orders.torn /\ \A r \in Requests : pc[r] # "dumpOrders") /\ [Next]_vars
      => (orders.torn /\ \A r \in Requests : pc[r] # "dumpOrders")'
  BY DEF IInv, TypeOK, Next, Step, vars, Start, Connect, BrokerRaises, Execute, LoadOrders,
         LoadFills, LoadRaises, DumpOrders, DumpFills, DumpRaises, NextOrder, Emit, Respond,
         Crash, Loads, Finished
<1>3. IInv /\ (fills.torn /\ \A r \in Requests : pc[r] # "dumpFills") /\ [Next]_vars
      => (fills.torn /\ \A r \in Requests : pc[r] # "dumpFills")'
  BY DEF IInv, TypeOK, Next, Step, vars, Start, Connect, BrokerRaises, Execute, LoadOrders,
         LoadFills, LoadRaises, DumpOrders, DumpFills, DumpRaises, NextOrder, Emit, Respond,
         Crash, Loads, Finished
<1> QED BY <1>1, <1>2, <1>3, SyncInvariant, PTL DEF Spec, TornStays
=============================================================================
