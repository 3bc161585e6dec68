------------------------ MODULE ExecutionAsyncProofs ------------------------
(***************************************************************************)
(* Theorems about ExecutionAsync for any set of calls of place_hedge, any  *)
(* number of legs and contracts in each, and any number of faults.         *)
(***************************************************************************)
EXTENDS ExecutionAsync, TLAPS, SequenceTheorems

Settled == {"idle", "done", "failed"}

\* Outside the block nothing is under way, and behind it nothing is left to be.
ServiceInv ==
  /\ service # "in" => \A h \in Hedges : hpc[h] \in Settled
  /\ service = "out" => ~up /\ \A t \in Trades : watcher[t] = "none"
  /\ service = "closed" => ~up /\ \A t \in Trades : watcher[t] \in {"none", "done", "failed"}

\* A connection that the flag does not speak of has a task that is about to connect.
LinkInv == up /\ ~flag => \E h \in Hedges : hpc[h] \in Connecting

\* How often a leg may have been sent.
MaxSent(h, i) ==
  IF i < leg[h] THEN 2
  ELSE IF i > leg[h] THEN 0
  ELSE IF hpc[h] \in {"done", "failed"} THEN 2
  ELSE IF hpc[h] = "reconnectPlace" THEN 1 ELSE 0

\* The legs of a call are placed and recorded in their order.
LegInv ==
  \A h \in Hedges :
    /\ hpc[h] = "done" => leg[h] = Legs[h]
    /\ \A i \in 1..Legs[h] :
         /\ sent[<<h, i>>] <= MaxSent(h, i)
         /\ i < leg[h] \/ hpc[h] = "done" => <<h, i>> \in orders
         /\ i > leg[h] \/ (i = leg[h] /\ hpc[h] \notin {"done", "failed"})
              => <<h, i>> \notin orders

\* What a reader of fills.jsonl takes for the state of an order.
Told(t) == IF fills[t] = <<>> THEN NoTrade ELSE fills[t][Len(fills[t])]

\* A trade is filled when all its contracts are.
TradeInv ==
  \A t \in Trades :
    /\ trade[t].status = "Filled" <=> trade[t].filled = Lot[t[1]]
    /\ trade[t].status = "none" => trade[t] = NoTrade

\* A watcher is created with the order's record; it has told less than the trade
\* says, or the same, and it waits only when it has told everything.
WatchInv ==
  \A t \in Trades :
    /\ watcher[t] = "none" <=> t \notin orders
    /\ t \in orders => trade[t] # NoTrade
    /\ watcher[t] \in {"none", "start"} => fills[t] = <<>>
    /\ watcher[t] \in {"waiting", "woken"} =>
         Told(t).status \in {"none", "Submitted"} /\ Told(t).filled <= trade[t].filled
    /\ watcher[t] = "waiting" => ~Done(t) /\ (fills[t] # <<>> => Told(t) = trade[t])
    /\ watcher[t] = "done" => Done(t) /\ fills[t] # <<>> /\ Told(t) = trade[t]

IInv == TypeOK /\ ServiceInv /\ LinkInv /\ LegInv /\ TradeInv /\ WatchInv

-----------------------------------------------------------------------------
LEMMA TradesAre ==
  /\ \A h \in Hedges : \A i \in 1..Legs[h] : <<h, i>> \in Trades
  /\ \A t \in Trades : \E h \in Hedges : \E i \in 1..Legs[h] : t = <<h, i>>
<1>1. ASSUME NEW h \in Hedges, NEW i \in 1..Legs[h] PROVE <<h, i>> \in Trades
  BY <1>1 DEF Trades
<1>2. ASSUME NEW t \in Trades PROVE \E h \in Hedges : \E i \in 1..Legs[h] : t = <<h, i>>
  BY <1>2 DEF Trades
<1> QED BY <1>1, <1>2

\* n copies of what the trade says at the end of its lines leave it as the last one.
LEMMA WriteTells ==
  ASSUME TypeOK, NEW t \in Trades, NEW n \in Nat, Write(t, n)
  PROVE  /\ fills' \in [Trades -> Seq(Report)]
         /\ n = 0 => fills'[t] = fills[t]
         /\ n > 0 => fills'[t] # <<>> /\ fills'[t][Len(fills'[t])] = trade[t]
         /\ \A u \in Trades : u # t => fills'[u] = fills[u]
<1> DEFINE s == fills[t]
           c == [i \in 1..n |-> trade[t]]
           w == s \o c
<1>1. fills \in [Trades -> Seq(Report)] /\ s \in Seq(Report) /\ trade[t] \in Report
  BY DEF TypeOK
<1>2. fills' = [fills EXCEPT ![t] = w]
  BY DEF Write
<1>3. c \in Seq(Report) /\ Len(c) = n
  BY <1>1, IsASeq
<1>4. /\ w \in Seq(Report) /\ Len(w) = Len(s) + n /\ Len(s) \in Nat
      /\ \A i \in 1..Len(w) : w[i] = IF i <= Len(s) THEN s[i] ELSE c[i - Len(s)]
  BY <1>1, <1>3, ConcatProperties, LenProperties
<1>5. n = 0 => w = s
  <2> SUFFICES ASSUME n = 0 PROVE w = s
    OBVIOUS
  <2>1. c = <<>>
    BY <1>3, EmptySeq
  <2> QED BY <1>1, <2>1, ConcatEmptySeq
<1>6. ASSUME n > 0 PROVE w # <<>> /\ w[Len(w)] = trade[t]
  <2>1. /\ Len(w) \in 1..Len(w) /\ Len(w) - Len(s) = n /\ n \in 1..n
        /\ ~(Len(w) <= Len(s)) /\ Len(w) # 0
    BY <1>4, <1>6
  <2>2. w[Len(w)] = c[n]
    BY <1>4, <2>1
  <2> QED BY <2>1, <2>2, <1>4, EmptySeq
<1> HIDE DEF w
<1>7. fills'[t] = w /\ \A u \in Trades : u # t => fills'[u] = fills[u]
  BY <1>1, <1>2
<1> QED BY <1>1, <1>2, <1>4, <1>5, <1>6, <1>7

\* What a step of place_hedge does: it goes on without an order, the order is
\* placed, or the call that places it raises.
Active == {"qualify", "requalify"} \cup Connecting

Travels(h) ==
  /\ hpc[h] \in Active \cup {"idle"} /\ (hpc[h] = "idle" => service = "in")
  /\ \E l \in Active \cup {"failed"} :
       /\ Goto(h, l)
       /\ l # "reconnectPlace" /\ (hpc[h] = "reconnectPlace" => l = "failed")
       /\ \/ l \in Connecting \/ flag' \/ ~up'
          \/ hpc[h] \notin Connecting /\ UNCHANGED linkVars
  /\ flag' \in BOOLEAN /\ up' \in BOOLEAN
  /\ faults' \in 0..MaxFaults
  /\ UNCHANGED <<service, leg, legVars, fileVars>>

Placed(h) == hpc[h] \in Active /\ PlaceReturns(h) /\ UNCHANGED <<service, fills>>

Refused(h) ==
  /\ hpc[h] \in Active
  /\ PlaceRaises(h, hpc[h] = "reconnectPlace")
  /\ UNCHANGED <<service, fills>>

LEMMA HedgeMoves ==
  ASSUME TypeOK, NEW h \in Hedges, Begin(h) \/ HedgeStep(h)
  PROVE  Travels(h) \/ Placed(h) \/ Refused(h)
<1> USE SizeAssumption
<1>0. /\ hpc \in [Hedges -> HedgePC] /\ flag \in BOOLEAN /\ up \in BOOLEAN
      /\ faults \in 0..MaxFaults /\ MaxFaults \in Nat
  BY DEF TypeOK
<1>1. CASE Begin(h)
  BY <1>0, <1>1 DEF Begin, Travels, Active, Connecting, legVars, fileVars, linkVars
<1>2. CASE ConnectReturns(h)
  <2>1. CASE hpc[h] \in {"connect", "reconnect"}
    BY <1>0, <1>2, <2>1 DEF ConnectReturns, Connected, Travels, Active, Connecting, legVars,
                       fileVars, linkVars
  <2>2. CASE hpc[h] \in {"connectPlace", "reconnectPlace"}
    BY <1>2, <2>2 DEF ConnectReturns, Place, Placed, Refused, Active, Connecting
  <2> QED BY <1>2, <2>1, <2>2 DEF ConnectReturns
<1>3. CASE ConnectRaises(h)
  <2>1. /\ hpc[h] \in Connecting /\ up' = FALSE /\ flag' = flag /\ Goto(h, "failed")
        /\ faults' = faults + 1 /\ faults < MaxFaults
        /\ UNCHANGED <<service, leg, legVars, fileVars>>
    BY <1>3 DEF ConnectRaises, Fault
  <2>2. faults' \in 0..MaxFaults
    BY <1>0, <2>1
  <2>3. flag' \in BOOLEAN /\ up' \in BOOLEAN
    BY <1>0, <2>1
  <2> QED BY <2>1, <2>2, <2>3 DEF Travels, Active, Connecting
<1>4. CASE QualifyReturns(h)
  <2>1. CASE flag /\ up
    BY <1>4, <2>1 DEF QualifyReturns, Place, Placed, Refused, Active
  <2>2. CASE ~(flag /\ up)
    BY <1>0, <1>4, <2>2 DEF QualifyReturns, Travels, Active, Connecting, legVars, fileVars
  <2> QED BY <2>1, <2>2
<1>5. CASE QualifyRaises(h)
  <2>1. /\ hpc[h] \in {"qualify", "requalify"}
        /\ \/ hpc[h] = "qualify" /\ flag' = FALSE /\ up' \in BOOLEAN /\ Goto(h, "reconnect")
           \/ Goto(h, "failed") /\ UNCHANGED linkVars
        /\ faults' = faults + 1 /\ faults < MaxFaults
        /\ UNCHANGED <<service, leg, legVars, fileVars>>
    BY <1>5 DEF QualifyRaises, Fault
  <2>2. faults' \in 0..MaxFaults
    BY <1>0, <2>1
  <2>3. flag' \in BOOLEAN /\ up' \in BOOLEAN
    BY <1>0, <2>1 DEF linkVars
  <2> QED BY <2>1, <2>2, <2>3 DEF Travels, Active, Connecting
<1> QED BY <1>1, <1>2, <1>3, <1>4, <1>5 DEF HedgeStep

LEMMA TypeStep == TypeOK /\ TradeInv /\ [Next]_vars => TypeOK'
<1> SUFFICES ASSUME TypeOK, TradeInv, [Next]_vars PROVE TypeOK'
  OBVIOUS
<1> USE SizeAssumption, TradesAre DEF TypeOK
<1>0. /\ NoTrade \in Report /\ NewTrade \in Report
      /\ \A h \in Hedges : /\ Current(h) \in Trades /\ Current(h)[1] = h
                           /\ Lot[h] \in Nat \ {0} /\ Legs[h] \in Nat
      /\ \A t \in Trades : t[1] \in Hedges
  BY DEF NoTrade, NewTrade, Report, Current
<1>1. CASE Enter \/ Drop \/ Leave \/ Close
  <2>1. service' \in {"out", "in", "leaving", "closed"} /\ faults' \in 0..MaxFaults
    BY <1>1 DEF Enter, Drop, Leave, Close, Fault
  <2>2. flag' \in BOOLEAN /\ up' \in BOOLEAN
    BY <1>1 DEF Enter, Drop, Leave, Close, linkVars
  <2>3. UNCHANGED <<hpc, leg, legVars, fileVars>>
    BY <1>1 DEF Enter, Drop, Leave, Close
  <2> QED BY <2>1, <2>2, <2>3 DEF legVars, fileVars
<1>2. ASSUME NEW h \in Hedges, Travels(h) PROVE TypeOK'
  BY <1>2 DEF Travels, Active, Connecting, HedgePC, Goto, legVars, fileVars
<1>3. ASSUME NEW h \in Hedges, Placed(h) PROVE TypeOK'
  <2>1. /\ sent' \in [Trades -> Nat] /\ flag' \in BOOLEAN /\ up' \in BOOLEAN
        /\ UNCHANGED <<service, fills>>
    BY <1>0, <1>3 DEF Placed, PlaceReturns, Connected
  <2>2. trade' \in [Trades -> Report] /\ \A t \in Trades : trade'[t].filled <= Lot[t[1]]
    <3>1. trade' = [trade EXCEPT ![Current(h)] = NewTrade] /\ Current(h) \in Trades
      BY <1>0, <1>3 DEF Placed, PlaceReturns
    <3>2. NewTrade \in Report /\ \A t \in Trades : NewTrade.filled <= Lot[t[1]]
      BY <1>0 DEF NewTrade, Report
    <3> QED BY <3>1, <3>2
  <2>3. CASE Register(h)
    <3>1. /\ faults' \in 0..MaxFaults /\ orders' \subseteq Trades
          /\ watcher' \in [Trades -> {"none", "start", "waiting", "woken", "done", "failed"}]
      BY <1>0, <2>3 DEF Register
    <3>2. hpc' \in [Hedges -> HedgePC]
      BY <2>3 DEF Register, Goto, HedgePC
    <3>3. leg' \in [Hedges -> Nat] /\ \A g \in Hedges : leg'[g] \in 1..Legs[g]
      <4>1. CASE leg[h] < Legs[h]
        <5>1. leg' = [leg EXCEPT ![h] = leg[h] + 1] /\ leg[h] + 1 \in 1..Legs[h]
          BY <1>0, <2>3, <4>1 DEF Register
        <5> QED BY <5>1
      <4>2. CASE ~(leg[h] < Legs[h])
        BY <2>3, <4>2 DEF Register
      <4> QED BY <4>1, <4>2
    <3> QED BY <2>1, <2>2, <3>1, <3>2, <3>3
  <2>4. CASE RegisterFails(h)
    BY <2>1, <2>2, <2>4 DEF RegisterFails, Fault, Goto, HedgePC
  <2> QED BY <1>3, <2>3, <2>4 DEF Placed, PlaceReturns
<1>4. ASSUME NEW h \in Hedges, Refused(h) PROVE TypeOK'
  <2>1. sent' \in [Trades -> Nat]
    <3>1. \/ sent' = sent
          \/ sent' = [sent EXCEPT ![Current(h)] = sent[Current(h)] + 1]
      BY <1>4 DEF Refused, PlaceRaises
    <3>2. Current(h) \in Trades /\ sent[Current(h)] + 1 \in Nat
      BY <1>0
    <3> HIDE DEF Current
    <3> QED BY <3>1, <3>2
  <2>2. PICK final \in BOOLEAN :
          /\ flag' = final
          /\ hpc' = [hpc EXCEPT ![h] = IF final THEN "failed" ELSE "reconnectPlace"]
    BY <1>4 DEF Refused, PlaceRaises, Goto
  <2>3. flag' \in BOOLEAN /\ hpc' \in [Hedges -> HedgePC]
    BY <2>2 DEF HedgePC, Connecting
  <2> QED BY <1>4, <2>1, <2>3 DEF Refused, PlaceRaises, Fault
<1>5. ASSUME NEW t \in Trades, Update(t) PROVE TypeOK'
  <2>1. PICK more \in {0, 1} :
          LET filled == trade[t].filled + more
          IN trade' = [trade EXCEPT ![t] =
               [filled |-> filled,
                status |-> IF filled = Lot[t[1]] THEN "Filled"
                           ELSE IF more = 1 THEN "Submitted" ELSE "Cancelled"]]
    BY <1>5 DEF Update
  <2>2. trade[t].filled \in Nat /\ trade[t].filled < Lot[t[1]] /\ Lot[t[1]] \in Nat
    BY <1>0, <1>5 DEF Update, TradeInv, Done, Report
  <2>3. trade' \in [Trades -> Report] /\ \A u \in Trades : trade'[u].filled <= Lot[u[1]]
    <3> DEFINE rep == [filled |-> trade[t].filled + more,
                       status |-> IF trade[t].filled + more = Lot[t[1]] THEN "Filled"
                                  ELSE IF more = 1 THEN "Submitted" ELSE "Cancelled"]
    <3>1. rep \in Report /\ rep.filled <= Lot[t[1]]
      BY <2>2 DEF Report
    <3>2. trade' = [trade EXCEPT ![t] = rep]
      BY <2>1
    <3> HIDE DEF rep
    <3> QED BY <3>1, <3>2
  <2>4. watcher' \in [Trades -> {"none", "start", "waiting", "woken", "done", "failed"}]
    BY <1>5 DEF Update
  <2> QED BY <1>5, <2>3, <2>4 DEF Update, linkVars
<1>6. ASSUME NEW t \in Trades, WatchStep(t) PROVE TypeOK'
  <2>1. ASSUME NEW n \in Nat, Write(t, n) PROVE fills' \in [Trades -> Seq(Report)]
    BY <2>1, WriteTells
  <2>2. Lines(t) \in Nat /\ \A n \in 0..(Lines(t) - 1) : n \in Nat
    BY DEF Lines
  <2>3. CASE WatchTurn(t)
    BY <2>1, <2>2, <2>3 DEF WatchTurn, Resume, linkVars, legVars
  <2>4. CASE WatchFails(t)
    BY <2>1, <2>2, <2>4 DEF WatchFails, Fault, linkVars, legVars
  <2> QED BY <1>6, <2>3, <2>4 DEF WatchStep
<1>7. CASE UNCHANGED vars
  BY <1>7 DEF vars, linkVars, legVars, fileVars
<1> QED
  BY <1>1, <1>2, <1>3, <1>4, <1>5, <1>6, <1>7, HedgeMoves DEF Next

-----------------------------------------------------------------------------
LEMMA ServiceStep == TypeOK /\ ServiceInv /\ LinkInv /\ [Next]_vars => ServiceInv'
<1> SUFFICES ASSUME TypeOK, ServiceInv, LinkInv, [Next]_vars PROVE ServiceInv'
  OBVIOUS
<1>0. hpc \in [Hedges -> HedgePC] /\ watcher \in [Trades ->
             {"none", "start", "waiting", "woken", "done", "failed"}]
  BY DEF TypeOK
<1>1. ASSUME NEW h \in Hedges, Travels(h) \/ Placed(h) \/ Refused(h) PROVE ServiceInv'
  <2>1. service = "in" /\ service' = service
    BY <1>1 DEF ServiceInv, Travels, Placed, Refused, Settled, Active, Connecting
  <2> QED BY <2>1 DEF ServiceInv
<1>2. CASE Enter
  <2>1. /\ service = "out" /\ service' \in {"in", "closed"}
        /\ service' = "closed" => up' = up
        /\ hpc' = hpc /\ watcher' = watcher
    BY <1>2 DEF Enter, linkVars, fileVars
  <2> QED BY <2>1 DEF ServiceInv
<1>3. CASE Drop
  BY <1>3 DEF Drop, ServiceInv, fileVars
<1>4. CASE Leave
  BY <1>4 DEF Leave, ServiceInv, Settled
<1>5. CASE Close
  <2>1. /\ service = "leaving" /\ service' = "closed" /\ up' = (up /\ ~flag)
        /\ hpc' = hpc /\ watcher' = watcher
        /\ \A t \in Trades : watcher[t] \in {"none", "done", "failed"}
    BY <1>5 DEF Close, fileVars
  <2>2. \A h \in Hedges : hpc[h] \in Settled /\ hpc[h] \notin Connecting
    BY <2>1 DEF ServiceInv, Settled, Connecting
  <2>3. ~up'
    BY <2>1, <2>2 DEF LinkInv
  <2> QED BY <2>1, <2>2, <2>3 DEF ServiceInv
<1>6. ASSUME NEW t \in Trades, Update(t) \/ WatchStep(t) PROVE ServiceInv'
  <2>1. service \notin {"out", "closed"} /\ service' = service /\ hpc' = hpc
    BY <1>6 DEF Update, WatchStep, WatchTurn, WatchFails, ServiceInv
  <2> QED BY <2>1 DEF ServiceInv
<1>7. CASE UNCHANGED vars
  BY <1>7 DEF vars, linkVars, fileVars, ServiceInv
<1> QED
  BY <1>1, <1>2, <1>3, <1>4, <1>5, <1>6, <1>7, HedgeMoves DEF Next

LEMMA LinkStep == TypeOK /\ ServiceInv /\ LinkInv /\ [Next]_vars => LinkInv'
<1> SUFFICES ASSUME TypeOK, ServiceInv, LinkInv, [Next]_vars PROVE LinkInv'
  OBVIOUS
<1>0. hpc \in [Hedges -> HedgePC]
  BY DEF TypeOK
<1>1. ASSUME NEW h \in Hedges, Travels(h) PROVE LinkInv'
  <2>1. PICK l \in Active \cup {"failed"} :
          /\ hpc' = [hpc EXCEPT ![h] = l]
          /\ \/ l \in Connecting \/ flag' \/ ~up'
             \/ hpc[h] \notin Connecting /\ UNCHANGED linkVars
    BY <1>1, Zenon DEF Travels, Goto
  <2>2. CASE l \in Connecting \/ flag' \/ ~up'
    BY <1>0, <2>1, <2>2 DEF LinkInv
  <2>3. CASE hpc[h] \notin Connecting /\ UNCHANGED linkVars
    BY <1>0, <2>1, <2>3 DEF LinkInv, linkVars
  <2> QED BY <2>1, <2>2, <2>3
<1>2. ASSUME NEW h \in Hedges, Placed(h) PROVE LinkInv'
  BY <1>2 DEF Placed, PlaceReturns, Connected, LinkInv
<1>3. ASSUME NEW h \in Hedges, Refused(h) PROVE LinkInv'
  BY <1>0, <1>3 DEF Refused, PlaceRaises, LinkInv, Goto, Connecting
<1>4. CASE Enter
  BY <1>4 DEF Enter, LinkInv, linkVars
<1>5. CASE Drop
  BY <1>5 DEF Drop, LinkInv
<1>6. CASE Close
  BY <1>6 DEF Close, LinkInv, ServiceInv, Settled, Connecting
<1>7. CASE hpc' = hpc /\ UNCHANGED linkVars
  BY <1>7 DEF LinkInv, linkVars
<1>8. CASE Leave \/ \E t \in Trades : Update(t) \/ WatchStep(t)
  BY <1>7, <1>8 DEF Leave, Update, WatchStep, WatchTurn, WatchFails
<1>9. CASE UNCHANGED vars
  BY <1>7, <1>9 DEF vars
<1> QED
  BY <1>1, <1>2, <1>3, <1>4, <1>5, <1>6, <1>8, <1>9, HedgeMoves DEF Next

LEMMA LegStep == TypeOK /\ LegInv /\ [Next]_vars => LegInv'
<1> SUFFICES ASSUME TypeOK, LegInv, [Next]_vars PROVE LegInv'
  OBVIOUS
<1> USE SizeAssumption
<1>0. /\ hpc \in [Hedges -> HedgePC] /\ leg \in [Hedges -> Nat] /\ sent \in [Trades -> Nat]
      /\ \A g \in Hedges : leg[g] \in 1..Legs[g] /\ Legs[g] \in Nat
      /\ \A g \in Hedges : \A i \in 1..Legs[g] : <<g, i>> \in Trades
  BY TradesAre DEF TypeOK
<1>1. CASE UNCHANGED <<hpc, leg, sent, orders>>
  BY <1>1 DEF LegInv, MaxSent
<1>2. CASE \/ Enter \/ Drop \/ Leave \/ Close \/ UNCHANGED vars
           \/ \E t \in Trades : Update(t) \/ WatchStep(t)
  <2>1. UNCHANGED <<hpc, leg, sent, orders>>
    BY <1>2 DEF Enter, Drop, Leave, Close, Update, WatchStep, WatchTurn, WatchFails, vars,
                legVars
  <2> QED BY <1>1, <2>1
<1> DEFINE Ok(g, i) ==
      /\ sent[<<g, i>>] <= MaxSent(g, i)
      /\ i < leg[g] \/ hpc[g] = "done" => <<g, i>> \in orders
      /\ i > leg[g] \/ (i = leg[g] /\ hpc[g] \notin {"done", "failed"})
           => <<g, i>> \notin orders
\* The other calls are not touched by a step of this one.
<1>3. ASSUME NEW h \in Hedges,
             \A g \in Hedges : g # h => hpc'[g] = hpc[g] /\ leg'[g] = leg[g],
             \A g \in Hedges : \A i \in 1..Legs[g] : g # h =>
               /\ sent'[<<g, i>>] = sent[<<g, i>>]
               /\ <<g, i>> \in orders' <=> <<g, i>> \in orders,
             hpc'[h] = "done" => leg'[h] = Legs[h],
             \A i \in 1..Legs[h] : Ok(h, i)'
      PROVE  LegInv'
  <2> SUFFICES ASSUME NEW g \in Hedges
               PROVE  /\ hpc'[g] = "done" => leg'[g] = Legs[g]
                      /\ \A i \in 1..Legs[g] : Ok(g, i)'
    BY DEF LegInv
  <2>1. CASE g = h
    BY <1>3, <2>1
  <2>2. CASE g # h
    BY <1>3, <2>2 DEF LegInv, MaxSent
  <2> QED BY <2>1, <2>2
<1>4. ASSUME NEW h \in Hedges, Travels(h) PROVE LegInv'
  <2>1. PICK l \in Active \cup {"failed"} :
          /\ hpc' = [hpc EXCEPT ![h] = l]
          /\ l # "reconnectPlace" /\ (hpc[h] = "reconnectPlace" => l = "failed")
    BY <1>4, Zenon DEF Travels, Goto
  <2>2. UNCHANGED <<leg, sent, orders>> /\ hpc[h] \in Active \cup {"idle"}
    BY <1>4 DEF Travels, legVars
  <2>3. \A i \in 1..Legs[h] : Ok(h, i)'
    BY <1>0, <2>1, <2>2 DEF LegInv, MaxSent, Active, Connecting
  <2> QED BY <1>0, <1>3, <2>1, <2>2, <2>3 DEF Active, Connecting
<1>5. ASSUME NEW h \in Hedges, Placed(h) \/ Refused(h)
      PROVE  /\ \A i \in 1..Legs[h] :
                  /\ sent'[<<h, i>>] \in Nat
                  /\ sent'[<<h, i>>] <= IF i < leg[h] THEN 2
                                        ELSE IF i > leg[h] THEN 0
                                        ELSE IF hpc[h] = "reconnectPlace" THEN 2 ELSE 1
                  /\ i < leg[h] <=> <<h, i>> \in orders
             /\ \A g \in Hedges : \A i \in 1..Legs[g] :
                  g # h => sent'[<<g, i>>] = sent[<<g, i>>]
  <2>1. hpc[h] \in Active /\ \A i \in 1..Legs[h] : Ok(h, i)
    BY <1>5 DEF Placed, Refused, LegInv
  <2>2. sent' = sent \/ sent' = [sent EXCEPT ![<<h, leg[h]>>] = sent[<<h, leg[h]>>] + 1]
    BY <1>5 DEF Placed, Refused, PlaceReturns, PlaceRaises, Current
  <2>3. \A g \in Hedges : \A i \in 1..Legs[g] :
          /\ g # h => sent'[<<g, i>>] = sent[<<g, i>>]
          /\ i # leg[h] => sent'[<<g, i>>] = sent[<<g, i>>]
    BY <1>0, <2>2
  <2>4. sent'[<<h, leg[h]>>] <= sent[<<h, leg[h]>>] + 1 /\ sent[<<h, leg[h]>>] \in Nat
    BY <1>0, <2>2
  <2> SUFFICES ASSUME NEW i \in 1..Legs[h]
               PROVE  /\ sent'[<<h, i>>] \in Nat
                      /\ sent'[<<h, i>>] <= IF i < leg[h] THEN 2
                                            ELSE IF i > leg[h] THEN 0
                                            ELSE IF hpc[h] = "reconnectPlace" THEN 2 ELSE 1
                      /\ i < leg[h] <=> <<h, i>> \in orders
    BY <2>3
  <2>5. i < leg[h] <=> <<h, i>> \in orders
    BY <1>0, <2>1 DEF Active, Connecting
  <2>6. sent'[<<h, i>>] <= IF i = leg[h] THEN sent[<<h, i>>] + 1 ELSE sent[<<h, i>>]
    BY <1>0, <2>3, <2>4
  <2>7. sent[<<h, i>>] <= (IF i < leg[h] THEN 2
                           ELSE IF i > leg[h] THEN 0
                           ELSE IF hpc[h] = "reconnectPlace" THEN 1 ELSE 0)
    BY <2>1 DEF MaxSent, Active, Connecting
  <2>8. sent'[<<h, i>>] \in Nat /\ sent[<<h, i>>] \in Nat /\ leg[h] \in Nat
    <3>1. <<h, i>> \in Trades
      BY <1>0
    <3>2. sent' \in [Trades -> Nat]
      BY <1>0, <2>2
    <3> QED BY <1>0, <3>1, <3>2
  <2> QED BY <2>5, <2>6, <2>7, <2>8
<1>6. ASSUME NEW h \in Hedges, Placed(h), Register(h) PROVE LegInv'
  <2>0. /\ \A i \in 1..Legs[h] :
             /\ sent'[<<h, i>>] \in Nat
             /\ sent'[<<h, i>>] <= IF i < leg[h] THEN 2
                                   ELSE IF i > leg[h] THEN 0
                                   ELSE IF hpc[h] = "reconnectPlace" THEN 2 ELSE 1
             /\ i < leg[h] <=> <<h, i>> \in orders
        /\ \A g \in Hedges : \A i \in 1..Legs[g] :
             g # h => sent'[<<g, i>>] = sent[<<g, i>>]
    BY <1>5, <1>6
  <2>1. /\ orders' = orders \cup {<<h, leg[h]>>}
        /\ \/ /\ leg[h] < Legs[h]
              /\ hpc' = [hpc EXCEPT ![h] = "qualify"] /\ leg' = [leg EXCEPT ![h] = leg[h] + 1]
           \/ /\ ~(leg[h] < Legs[h])
              /\ hpc' = [hpc EXCEPT ![h] = "done"] /\ leg' = leg
    BY <1>6 DEF Register, Goto, Current
  <2>2. \A i \in 1..Legs[h] : /\ sent'[<<h, i>>] \in Nat
                              /\ sent'[<<h, i>>] <= IF i <= leg[h] THEN 2 ELSE 0
    BY <1>0, <2>0
  <2>3. \A i \in 1..Legs[h] : <<h, i>> \in orders' <=> i <= leg[h]
    <3> SUFFICES ASSUME NEW i \in 1..Legs[h] PROVE <<h, i>> \in orders' <=> i <= leg[h]
      OBVIOUS
    <3>1. <<h, i>> \in orders' <=> <<h, i>> \in orders \/ i = leg[h]
      BY <2>1
    <3>2. i \in Nat /\ leg[h] \in Nat /\ (i < leg[h] <=> <<h, i>> \in orders)
      BY <1>0, <2>0
    <3> QED BY <3>1, <3>2
  <2>4. hpc'[h] = "done" => leg'[h] = Legs[h]
    BY <1>0, <2>1
  <2>5. \A i \in 1..Legs[h] : Ok(h, i)'
    BY <1>0, <2>1, <2>2, <2>3 DEF MaxSent
  <2>6. \A g \in Hedges : g # h => hpc'[g] = hpc[g] /\ leg'[g] = leg[g]
    BY <1>0, <2>1
  <2>7. \A g \in Hedges : \A i \in 1..Legs[g] : g # h =>
          (<<g, i>> \in orders' <=> <<g, i>> \in orders)
    BY <2>1
  <2> QED BY <1>3, <2>0, <2>4, <2>5, <2>6, <2>7
<1>7. ASSUME NEW h \in Hedges, Placed(h), RegisterFails(h) PROVE LegInv'
  <2>0. /\ \A i \in 1..Legs[h] :
             /\ sent'[<<h, i>>] \in Nat
             /\ sent'[<<h, i>>] <= IF i < leg[h] THEN 2
                                   ELSE IF i > leg[h] THEN 0
                                   ELSE IF hpc[h] = "reconnectPlace" THEN 2 ELSE 1
             /\ i < leg[h] <=> <<h, i>> \in orders
        /\ \A g \in Hedges : \A i \in 1..Legs[g] :
             g # h => sent'[<<g, i>>] = sent[<<g, i>>]
    BY <1>5, <1>7
  <2>1. orders' = orders /\ leg' = leg /\ hpc' = [hpc EXCEPT ![h] = "failed"]
    BY <1>7 DEF RegisterFails, Goto
  <2>2. \A i \in 1..Legs[h] : Ok(h, i)'
    BY <1>0, <2>0, <2>1 DEF MaxSent
  <2>3. \A g \in Hedges : g # h => hpc'[g] = hpc[g] /\ leg'[g] = leg[g]
    BY <2>1
  <2>4. hpc'[h] # "done"
    BY <1>0, <2>1
  <2> QED BY <1>3, <2>0, <2>1, <2>2, <2>3, <2>4
<1>8. ASSUME NEW h \in Hedges, Refused(h) PROVE LegInv'
  <2>0. PICK next \in {"failed", "reconnectPlace"} :
          /\ hpc' = [hpc EXCEPT ![h] = next]
          /\ hpc[h] = "reconnectPlace" => next = "failed"
    BY <1>8 DEF Refused, PlaceRaises, Goto
  <2>1. orders' = orders /\ leg' = leg /\ hpc' = [hpc EXCEPT ![h] = next]
    BY <1>8, <2>0 DEF Refused, PlaceRaises
  <2>2. \A i \in 1..Legs[h] : Ok(h, i)'
    BY <1>0, <1>5, <1>8, <2>0, <2>1 DEF MaxSent
  <2>3. \A g \in Hedges : g # h => hpc'[g] = hpc[g] /\ leg'[g] = leg[g]
    BY <2>1
  <2>4. hpc'[h] # "done"
    BY <1>0, <2>1
  <2>5. \A g \in Hedges : \A i \in 1..Legs[g] : g # h =>
          /\ sent'[<<g, i>>] = sent[<<g, i>>]
          /\ <<g, i>> \in orders' <=> <<g, i>> \in orders
    BY <1>5, <1>8, <2>1
  <2> QED BY <1>3, <2>2, <2>3, <2>4, <2>5
<1>9. ASSUME NEW h \in Hedges, Placed(h) PROVE LegInv'
  BY <1>6, <1>7, <1>9 DEF Placed, PlaceReturns
<1> QED
  BY <1>2, <1>4, <1>8, <1>9, HedgeMoves DEF Next

LEMMA TradeStep == TypeOK /\ TradeInv /\ [Next]_vars => TradeInv'
<1> SUFFICES ASSUME TypeOK, TradeInv, [Next]_vars PROVE TradeInv'
  OBVIOUS
<1> USE SizeAssumption, TradesAre
<1>0. /\ trade \in [Trades -> Report]
      /\ \A t \in Trades : t[1] \in Hedges /\ trade[t].filled <= Lot[t[1]]
      /\ \A h \in Hedges : /\ Current(h) \in Trades /\ Lot[h] \in Nat \ {0}
  BY DEF TypeOK, Current
<1>1. CASE UNCHANGED trade
  BY <1>1 DEF TradeInv
<1>2. ASSUME NEW h \in Hedges, Placed(h) PROVE TradeInv'
  BY <1>0, <1>2 DEF Placed, PlaceReturns, TradeInv, NewTrade
<1>3. ASSUME NEW t \in Trades, Update(t) PROVE TradeInv'
  <2>1. PICK more \in {0, 1} :
          trade' = [trade EXCEPT ![t] =
             [filled |-> trade[t].filled + more,
              status |-> IF trade[t].filled + more = Lot[t[1]] THEN "Filled"
                         ELSE IF more = 1 THEN "Submitted" ELSE "Cancelled"]]
    BY <1>3 DEF Update
  <2>2. trade[t].filled \in Nat /\ trade[t].filled # Lot[t[1]] /\ Lot[t[1]] \in Nat
    BY <1>0, <1>3 DEF Update, TradeInv, Done, Report
  <2>3. trade'[t].status \in {"Filled", "Submitted", "Cancelled"}
        /\ (trade'[t].status = "Filled" <=> trade'[t].filled = Lot[t[1]])
    BY <1>0, <2>1
  <2>4. \A u \in Trades : u # t => trade'[u] = trade[u]
    BY <1>0, <2>1
  <2> QED BY <2>3, <2>4 DEF TradeInv
<1>4. CASE \/ Enter \/ Drop \/ Leave \/ Close \/ UNCHANGED vars
           \/ \E t \in Trades : WatchStep(t)
           \/ \E h \in Hedges : Travels(h) \/ Refused(h)
  BY <1>1, <1>4 DEF Enter, Drop, Leave, Close, WatchStep, WatchTurn, WatchFails, vars,
                    legVars, Travels, Refused, PlaceRaises
<1> QED BY <1>2, <1>3, <1>4, HedgeMoves DEF Next

LEMMA WatchedStep ==
  TypeOK /\ LegInv /\ TradeInv /\ WatchInv /\ [Next]_vars => WatchInv'
<1> SUFFICES ASSUME TypeOK, LegInv, TradeInv, WatchInv, [Next]_vars PROVE WatchInv'
  OBVIOUS
<1> DEFINE Ok(t) ==
      /\ watcher[t] = "none" <=> t \notin orders
      /\ t \in orders => trade[t] # NoTrade
      /\ watcher[t] \in {"none", "start"} => fills[t] = <<>>
      /\ watcher[t] \in {"waiting", "woken"} =>
           Told(t).status \in {"none", "Submitted"} /\ Told(t).filled <= trade[t].filled
      /\ watcher[t] = "waiting" => ~Done(t) /\ (fills[t] # <<>> => Told(t) = trade[t])
      /\ watcher[t] = "done" => Done(t) /\ fills[t] # <<>> /\ Told(t) = trade[t]
<1>0. /\ trade \in [Trades -> Report] /\ \A t \in Trades : trade[t].filled \in Nat
      /\ watcher \in [Trades -> {"none", "start", "waiting", "woken", "done", "failed"}]
      /\ \A h \in Hedges : Current(h) \in Trades
      /\ \A t \in Trades : Ok(t)
  BY TradesAre DEF TypeOK, Current, Report, WatchInv
<1>1. ASSUME NEW t \in Trades, trade'[t] = trade[t], watcher'[t] = watcher[t],
             fills'[t] = fills[t], t \in orders' <=> t \in orders
      PROVE  Ok(t)'
  BY <1>0, <1>1 DEF Told, Done
<1>2. CASE \/ Enter \/ Drop \/ Leave \/ Close \/ UNCHANGED vars
           \/ \E h \in Hedges : Travels(h) \/ Refused(h)
  <2>1. UNCHANGED <<trade, watcher, fills, orders>>
    BY <1>2 DEF Enter, Drop, Leave, Close, Travels, Refused, PlaceRaises, vars, legVars,
                fileVars
  <2> QED BY <1>1, <2>1 DEF WatchInv
<1>3. ASSUME NEW h \in Hedges, Placed(h) PROVE WatchInv'
  <2> PICK c \in Trades : c = Current(h)
    BY <1>0
  <2>1. /\ c \in Trades /\ c \notin orders
        /\ trade' = [trade EXCEPT ![c] = NewTrade] /\ fills' = fills
    BY <1>0, <1>3 DEF Placed, PlaceReturns, LegInv, Active, Connecting, Current, TypeOK
  <2>2. \/ orders' = orders \cup {c} /\ watcher' = [watcher EXCEPT ![c] = "start"]
        \/ orders' = orders /\ watcher' = watcher
    BY <1>3 DEF Placed, PlaceReturns, Register, RegisterFails
  <2>3. watcher[c] = "none" /\ fills[c] = <<>>
    BY <1>0, <2>1
  <2>4. Ok(c)'
    <3>1. trade'[c] = NewTrade /\ NewTrade # NoTrade /\ fills'[c] = <<>>
      BY <1>0, <2>1, <2>3 DEF NewTrade, NoTrade
    <3>2. \/ c \in orders' /\ watcher'[c] = "start"
          \/ c \notin orders' /\ watcher'[c] = "none"
      BY <1>0, <2>1, <2>2, <2>3
    <3> QED BY <3>1, <3>2
  <2>5. ASSUME NEW t \in Trades, t # c PROVE Ok(t)'
    BY <1>0, <1>1, <2>1, <2>2, <2>5
  <2> QED BY <2>4, <2>5 DEF WatchInv
<1>4. ASSUME NEW t \in Trades, Update(t) PROVE WatchInv'
  <2>1. /\ trade'[t].filled >= trade[t].filled /\ trade'[t].filled \in Nat
        /\ trade'[t].status \in {"Filled", "Submitted", "Cancelled"}
        /\ \A u \in Trades : u # t => trade'[u] = trade[u]
    <3>1. PICK more \in {0, 1} :
            trade' = [trade EXCEPT ![t] =
               [filled |-> trade[t].filled + more,
                status |-> IF trade[t].filled + more = Lot[t[1]] THEN "Filled"
                           ELSE IF more = 1 THEN "Submitted" ELSE "Cancelled"]]
      BY <1>4 DEF Update
    <3> QED BY <1>0, <3>1
  <2>2. /\ watcher' = [watcher EXCEPT ![t] = IF @ = "waiting" THEN "woken" ELSE @]
        /\ orders' = orders /\ fills' = fills /\ ~Done(t)
    BY <1>4 DEF Update
  <2>3. Told(t).filled <= trade[t].filled /\ Told(t).filled \in Nat
           => Told(t).filled <= trade'[t].filled
    BY <1>0, <2>1
  <2>4. Told(t)' = Told(t) /\ Told(t).filled \in Nat
    <3>1. fills[t] # <<>> => fills[t][Len(fills[t])] \in Report
      BY ElementOfSeq, EmptySeq, LenProperties DEF TypeOK
    <3> QED BY <2>2, <3>1 DEF Told, NoTrade, Report
  <2>5. Ok(t)'
    BY <1>0, <2>1, <2>2, <2>3, <2>4 DEF NoTrade
  <2> QED BY <1>0, <1>1, <2>1, <2>2, <2>5 DEF WatchInv
<1>5. ASSUME NEW t \in Trades, WatchStep(t) PROVE WatchInv'
  <2>0. /\ watcher[t] \in {"start", "woken"} /\ UNCHANGED <<trade, orders>>
        /\ Lines(t) \in Nat /\ (Lines(t) = 0 => watcher[t] = "start" /\ ~Done(t))
    BY <1>5 DEF WatchStep, WatchTurn, WatchFails, Lines, legVars
  <2>1. t \in orders /\ trade[t] # NoTrade /\ Done(t)' = Done(t)
    BY <1>0, <2>0 DEF Done
  <2>2. CASE WatchTurn(t)
    <3>1. Write(t, Lines(t)) /\ watcher' = [watcher EXCEPT ![t] = Resume(t)]
      BY <2>2 DEF WatchTurn
    <3>2. CASE Lines(t) = 0
      <4>1. /\ fills'[t] = fills[t] /\ fills[t] = <<>> /\ watcher'[t] = "waiting"
            /\ \A u \in Trades : u # t => fills'[u] = fills[u] /\ watcher'[u] = watcher[u]
        BY <1>0, <2>0, <3>1, <3>2, WriteTells DEF Resume
      <4>2. Ok(t)'
        <5>1. Told(t)' = NoTrade /\ NoTrade.status = "none" /\ NoTrade.filled = 0
          BY <4>1 DEF Told, NoTrade
        <5>2. 0 <= trade'[t].filled /\ t \in orders' /\ trade'[t] # NoTrade /\ ~Done(t)'
          BY <1>0, <2>0, <2>1, <3>2
        <5> QED BY <4>1, <5>1, <5>2
      <4> QED BY <1>1, <2>0, <4>1, <4>2 DEF WatchInv
    <3>3. CASE Lines(t) > 0
      <4>1. /\ fills'[t] # <<>> /\ Told(t)' = trade[t]
            /\ watcher'[t] = IF Done(t) THEN "done" ELSE "waiting"
            /\ \A u \in Trades : u # t => fills'[u] = fills[u] /\ watcher'[u] = watcher[u]
        BY <1>0, <2>0, <3>1, <3>3, WriteTells DEF Resume, Told
      <4>2. ~Done(t) => trade[t].status \in {"none", "Submitted"}
        BY <1>0 DEF Done, Report
      <4>3. Ok(t)'
        BY <1>0, <2>0, <2>1, <4>1, <4>2
      <4> QED BY <1>1, <2>0, <4>1, <4>3 DEF WatchInv
    <3> QED BY <2>0, <3>2, <3>3
  <2>3. CASE WatchFails(t)
    <3>1. PICK n \in 0..(Lines(t) - 1) : Write(t, n)
      BY <2>3 DEF WatchFails
    <3>2. /\ watcher'[t] = "failed"
          /\ \A u \in Trades : u # t => fills'[u] = fills[u] /\ watcher'[u] = watcher[u]
      BY <1>0, <2>0, <2>3, <3>1, WriteTells DEF WatchFails
    <3>3. Ok(t)'
      BY <2>0, <2>1, <3>2
    <3> QED BY <1>1, <2>0, <3>2, <3>3 DEF WatchInv
  <2> QED BY <1>5, <2>2, <2>3 DEF WatchStep
<1> QED BY <1>2, <1>3, <1>4, <1>5, HedgeMoves DEF Next

-----------------------------------------------------------------------------
LEMMA HedgeInit == Init => IInv
<1> SUFFICES ASSUME Init PROVE IInv
  OBVIOUS
<1> USE SizeAssumption, TradesAre DEF Init
<1>0. \A h \in Hedges : 1 \in 1..Legs[h] /\ Lot[h] \in Nat \ {0}
  <2> SUFFICES ASSUME NEW h \in Hedges PROVE 1 \in 1..Legs[h] /\ Lot[h] \in Nat \ {0}
    OBVIOUS
  <2>1. Legs[h] \in Nat \ {0} /\ Lot[h] \in Nat \ {0}
    OBVIOUS
  <2> QED BY ONLY <2>1
<1>1. TypeOK
  <2>1. NoTrade \in Report /\ \A t \in Trades : t[1] \in Hedges
    BY DEF NoTrade, Report
  <2>2. /\ trade \in [Trades -> Report] /\ \A t \in Trades : trade[t].filled <= Lot[t[1]]
    BY <1>0, <2>1 DEF NoTrade
  <2>3. fills \in [Trades -> Seq(Report)]
    BY EmptySeq
  <2>4. /\ service \in {"out", "in", "leaving", "closed"}
        /\ hpc \in [Hedges -> HedgePC] /\ leg \in [Hedges -> Nat]
        /\ \A h \in Hedges : leg[h] \in 1..Legs[h]
    BY <1>0 DEF HedgePC
  <2>5. /\ flag \in BOOLEAN /\ up \in BOOLEAN /\ sent \in [Trades -> Nat]
        /\ orders \subseteq Trades /\ faults \in 0..MaxFaults
        /\ watcher \in [Trades -> {"none", "start", "waiting", "woken", "done", "failed"}]
    <3>1. 0 \in 0..MaxFaults /\ 0 \in Nat
      OBVIOUS
    <3> QED BY <3>1
  <2> QED BY <2>2, <2>3, <2>4, <2>5 DEF TypeOK
<1>2. ServiceInv /\ LinkInv
  BY DEF ServiceInv, LinkInv, Settled
<1>3. LegInv
  <2>1. \A h \in Hedges : leg[h] = 1 /\ hpc[h] = "idle" /\ orders = {}
    OBVIOUS
  <2>2. \A h \in Hedges : \A i \in 1..Legs[h] : sent[<<h, i>>] = 0 /\ ~(i < 1)
    <3>1. \A h \in Hedges : \A i \in 1..Legs[h] : ~(i < 1)
      <4> SUFFICES ASSUME NEW h \in Hedges, NEW i \in 1..Legs[h] PROVE ~(i < 1)
        OBVIOUS
      <4>1. Legs[h] \in Nat
        OBVIOUS
      <4> QED BY ONLY <4>1, i \in 1..Legs[h]
    <3> QED BY <3>1
  <2> HIDE SizeAssumption, TradesAre DEF Init
  <2>3. ASSUME NEW h \in Hedges, NEW i \in 1..Legs[h] PROVE sent[<<h, i>>] <= MaxSent(h, i)
    <3>1. MaxSent(h, i) = 0
      BY <2>1, <2>2 DEF MaxSent
    <3> QED BY <2>2, <3>1
  <2> QED BY <2>1, <2>2, <2>3 DEF LegInv
<1>4. TradeInv
  BY <1>0 DEF TradeInv, NoTrade
<1>5. WatchInv
  BY DEF WatchInv
<1> QED BY <1>1, <1>2, <1>3, <1>4, <1>5 DEF IInv

LEMMA HedgeInvariant == Spec => []IInv
<1>1. IInv /\ [Next]_vars => IInv'
  BY TypeStep, ServiceStep, LinkStep, LegStep, TradeStep, WatchedStep DEF IInv
<1> QED BY <1>1, HedgeInit, PTL DEF Spec

\* service.py, ibkr.py: every variable keeps its type, and no trade has more filled
\* than its lot.
THEOREM TypeCorrect == Spec => []TypeOK
<1> QED BY HedgeInvariant, PTL DEF IInv

\* __aexit__ and ensure_connection: whatever the reconnections of the tasks did to
\* IBKRClient._connected, the connection is closed behind the block.
THEOREM NoConnectionLeft == Spec => []ClosedIsDisconnected
<1>1. IInv => ClosedIsDisconnected
  BY DEF IInv, ServiceInv, ClosedIsDisconnected
<1> QED BY <1>1, HedgeInvariant, PTL

\* place_hedge and place_trade: one leg at most is live and unrecorded, and a retry
\* sends none more than twice.
THEOREM LegsInOrder == Spec => []OneUnrecorded
<1>1. IInv => OneUnrecorded
  <2> SUFFICES ASSUME IInv, NEW h \in Hedges, NEW i \in 1..Legs[h]
               PROVE  /\ i < leg[h] \/ hpc[h] = "done" => <<h, i>> \in orders
                      /\ sent[<<h, i>>] <= IF i > leg[h] THEN 0 ELSE 2
    BY DEF OneUnrecorded
  <2>1. sent[<<h, i>>] \in Nat /\ leg[h] \in Nat /\ i \in Int
    BY TradesAre, SizeAssumption DEF IInv, TypeOK
  <2>2. /\ i < leg[h] \/ hpc[h] = "done" => <<h, i>> \in orders
        /\ sent[<<h, i>>] <= MaxSent(h, i)
    BY DEF IInv, LegInv
  <2> QED BY <2>1, <2>2 DEF MaxSent
<1> QED BY <1>1, HedgeInvariant, PTL

\* _watch_trade: a watcher that waits has told what the trade says.
THEOREM NothingMissed == Spec => []NoLostUpdate
<1>1. IInv => NoLostUpdate
  BY DEF IInv, WatchInv, NoLostUpdate, Told
<1> QED BY <1>1, HedgeInvariant, PTL

\* __aexit__ gathers the watchers before it leaves: behind the block fills.jsonl ends
\* with the final state of every recorded order whose watcher could write.
THEOREM FilesComplete == Spec => []ClosedIsComplete
<1>1. IInv => ClosedIsComplete
  <2> SUFFICES ASSUME IInv, service = "closed", NEW t \in orders, watcher[t] # "failed"
               PROVE  fills[t] # <<>> /\ Done(t) /\ fills[t][Len(fills[t])] = trade[t]
    BY DEF ClosedIsComplete
  <2>1. t \in Trades /\ watcher[t] \in {"none", "done", "failed"} /\ watcher[t] # "none"
    BY DEF IInv, TypeOK, ServiceInv, WatchInv
  <2> QED BY <2>1 DEF IInv, WatchInv, Told
<1> QED BY <1>1, HedgeInvariant, PTL

-----------------------------------------------------------------------------
\* A step that writes neither file is a stutter of the log.
LEMMA LogStutter == UNCHANGED <<orders, fills>> => UNCHANGED Log!vars
BY DEF Log!vars

\* The record of an order is a new entry.
LEMMA OrderListed ==
  ASSUME TypeOK, LegInv, NEW h \in Hedges, Placed(h)
  PROVE  [Log!Next]_Log!vars
<1>1. CASE Register(h)
  <2>1. /\ Current(h) \in Trades /\ Current(h) \notin orders
        /\ orders' = orders \cup {Current(h)} /\ fills' = fills
    BY <1>1, TradesAre DEF Placed, Register, LegInv, Active, Connecting, Current, TypeOK
  <2>2. Log!Place(Current(h))
    BY <2>1 DEF Log!Place
  <2> QED BY <2>1, <2>2 DEF Log!Next
<1>2. CASE RegisterFails(h)
  <2>1. UNCHANGED <<orders, fills>>
    BY <1>2 DEF Placed, RegisterFails
  <2> QED BY <2>1, LogStutter
<1> QED BY <1>1, <1>2 DEF Placed, PlaceReturns

\* The lines of a turn of a watcher are one report.
LEMMA TurnReported ==
  ASSUME TypeOK, TradeInv, WatchInv, NEW t \in Trades, WatchStep(t)
  PROVE  [Log!Next]_Log!vars
<1>1. /\ watcher[t] \in {"start", "woken"} /\ orders' = orders
      /\ \E n \in Nat : Write(t, n)
  <2>1. Lines(t) \in Nat /\ \A n \in 0..(Lines(t) - 1) : n \in Nat
    BY DEF Lines
  <2> QED BY <2>1 DEF WatchStep, WatchTurn, WatchFails, legVars
<1>2. PICK n \in Nat : Write(t, n)
  BY <1>1
<1>3. CASE n = 0
  <2>1. fills' = fills
    BY <1>2, <1>3, WriteTells DEF TypeOK
  <2> QED BY <1>1, <2>1, LogStutter
<1>4. CASE n > 0
  <2>1. /\ Told(t)' = trade[t] /\ \A u \in Trades : u # t => Told(u)' = Told(u)
    BY <1>2, <1>4, WriteTells DEF Told
  <2>2. [u \in Trades |-> Told(u)]' = [[u \in Trades |-> Told(u)] EXCEPT ![t] = trade[t]]
    BY <2>1
  <2>3. t \in orders /\ trade[t] # NoTrade /\ trade[t] \in Report
    BY <1>1 DEF WatchInv, TypeOK
  <2>4. /\ Told(t).status \in {"none", "Submitted"} /\ Told(t).filled <= trade[t].filled
    <3>1. CASE watcher[t] = "start"
      <4>1. Told(t) = NoTrade /\ trade[t].filled \in Nat
        BY <2>3, <3>1 DEF Told, WatchInv, Report
      <4> QED BY <4>1 DEF NoTrade
    <3>2. CASE watcher[t] = "woken"
      BY <3>2 DEF WatchInv
    <3> QED BY <1>1, <3>1, <3>2
  <2>5. /\ trade[t].status # "none"
        /\ trade[t].status = "Filled" <=> trade[t].filled = Lot[t[1]]
    BY <2>3 DEF TradeInv
  <2>6. trade[t] \in [status : {"none", "Submitted", "Filled", "Cancelled"},
                      filled : 0..Lot[t[1]]]
    <3>1. t[1] \in Hedges /\ Lot[t[1]] \in Nat /\ trade[t].filled <= Lot[t[1]]
      BY TradesAre, SizeAssumption DEF TypeOK
    <3>2. trade[t].filled \in 0..Lot[t[1]]
      BY <2>3, <3>1 DEF Report
    <3> QED BY <2>3, <3>2 DEF Report
  <2>7. trade[t].filled >= Told(t).filled
    BY <2>3, <2>4 DEF Report
  <2>8. Log!Tell(t)
    BY <1>1, <2>2, <2>3, <2>4, <2>5, <2>6, <2>7 DEF Log!Tell, Log!Final, Log!Report, Told
  <2> QED BY <2>8 DEF Log!Next
<1> QED BY <1>3, <1>4

\* orders.jsonl and fills.jsonl, read by the newest line of each order, behave as the
\* log of HedgeLog: no order twice, no report before its order, none that goes back
\* and none but the same after a final one.
THEOREM FilesImplementLog == Spec => LogSpec
<1>1. Init => Log!Init
  BY DEF Init, Log!Init, Log!NoReport, NoTrade
<1>2. ASSUME IInv, [Next]_vars PROVE [Log!Next]_Log!vars
  <2>1. CASE \/ Enter \/ Drop \/ Leave \/ Close \/ UNCHANGED vars
             \/ \E h \in Hedges : Travels(h) \/ Refused(h)
             \/ \E t \in Trades : Update(t)
    <3>1. UNCHANGED <<orders, fills>>
      BY <2>1 DEF Enter, Drop, Leave, Close, Travels, Refused, PlaceRaises, Update, vars,
                  legVars, fileVars
    <3> QED BY <3>1, LogStutter
  <2>2. TypeOK /\ LegInv /\ TradeInv /\ WatchInv
    BY <1>2 DEF IInv
  <2> QED BY <1>2, <2>1, <2>2, OrderListed, TurnReported, HedgeMoves DEF Next
<1> QED BY <1>1, <1>2, HedgeInvariant, PTL DEF Spec, LogSpec, Log!Spec
=============================================================================
