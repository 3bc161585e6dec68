-------------------------- MODULE QboInvoicesProofs --------------------------
(***************************************************************************)
(* Theorems about QboInvoices for any webhooks, invoices, changes and      *)
(* faults, with and without tokens in the store.  That the bound on the    *)
(* changes holds (a sum over the invoices) is left to TLC.                 *)
(***************************************************************************)
EXTENDS QboInvoices, TLAPS, SequenceTheorems

Typed ==
  /\ history \in [Invoices -> Seq(Kinds)] /\ told \in [Invoices -> Nat]
  /\ hook \in [Hooks -> {"none", "refused", "ignored", "accepted"}]
  /\ currency \in [Hooks -> BOOLEAN]
  /\ pc \in [Tasks -> PC] /\ seen \in [Tasks -> Nat]
  /\ emitted \in [Invoices -> SUBSET Nat]

\* What was named, fetched or emitted was a version in QuickBooks; a webhook that has
\* not come has no tasks.
VersionInv ==
  /\ \A i \in Invoices : told[i] <= Version(i) /\ emitted[i] \subseteq 1..Version(i)
  /\ \A w \in Hooks, i \in Invoices :
       /\ seen[<<w, i>>] <= Version(i)
       /\ pc[<<w, i>>] # "none" => hook[w] # "none" /\ Version(i) > 0
       /\ pc[<<w, i>>] \in {"refreshInfo", "info"} => seen[<<w, i>>] > 0

\* A task that may still emit the newest version of its invoice, or has failed.
Owes(w, i) ==
  \/ pc[<<w, i>>] \in {"token", "refresh", "get", "logged", "raised", "lost"}
  \/ pc[<<w, i>>] \in {"refreshInfo", "info"} /\ seen[<<w, i>>] = Version(i)

\* The newest version, once a webhook spoke of it, is emitted or some task owes it.
OweInv ==
  \A i \in Invoices :
    told[i] = Version(i) /\ Is(i, "foreign") =>
      told[i] \in emitted[i] \/ \E w \in Hooks : Owes(w, i)

IInv == Typed /\ VersionInv /\ OnlyForeignEmitted /\ OweInv

-----------------------------------------------------------------------------
LEMMA TasksAre ==
  /\ \A w \in Hooks, i \in Invoices : <<w, i>> \in Tasks
  /\ \A t \in Tasks : \E w \in Hooks, i \in Invoices : t = <<w, i>>
BY DEF Tasks

LEMMA VersionTyped == Typed => \A i \in Invoices : Version(i) \in Nat
BY LenProperties DEF Typed, Version

\* What is decided about a fetched version.
LEMMA Decided ==
  ASSUME Typed, NEW w \in Hooks, NEW i \in Invoices, NEW v \in Nat, Decide(<<w, i>>, v)
  PROVE  /\ pc' \in [Tasks -> PC] /\ pc'[<<w, i>>] \in {"emitted", "skipped"}
         /\ \A t \in Tasks : t # <<w, i>> => pc'[t] = pc[t]
         /\ emitted' \in [Invoices -> SUBSET Nat]
         /\ emitted'[i] = IF history[i][v] = "foreign" THEN emitted[i] \cup {v} ELSE emitted[i]
         /\ \A j \in Invoices : j # i => emitted'[j] = emitted[j]
<1>1. <<w, i>> \in Tasks /\ pc \in [Tasks -> PC] /\ emitted \in [Invoices -> SUBSET Nat]
  BY TasksAre DEF Typed
<1>2. CASE history[i][v] = "foreign"
  BY <1>1, <1>2 DEF Decide, Goto, PC, Ended
<1>3. CASE history[i][v] # "foreign"
  BY <1>1, <1>3 DEF Decide, Goto, PC, Ended
<1> QED BY <1>2, <1>3

\* A step of a task: it goes on or fails, or finds its invoice deleted, or fetches the
\* newest version, or decides about the one it fetched.
Advances(w, i) ==
  /\ pc' = [pc EXCEPT ![<<w, i>>] = pc'[<<w, i>>]]
  /\ pc[<<w, i>>] # "none" /\ pc'[<<w, i>>] \in PC
  /\ \/ pc'[<<w, i>>] \in {"refresh", "get", "logged", "raised"}
        /\ pc[<<w, i>>] \in {"token", "refresh", "get", "refreshInfo", "info"}
     \/ pc'[<<w, i>>] = "info" /\ pc[<<w, i>>] = "refreshInfo"
     \/ pc'[<<w, i>>] = "skipped" /\ Is(i, "deleted")
  /\ UNCHANGED <<currency, seen, emitted>>

Fetches(w, i) ==
  /\ pc[<<w, i>>] = "get"
  /\ pc' = [pc EXCEPT ![<<w, i>>] = pc'[<<w, i>>]]
  /\ pc'[<<w, i>>] \in {"refreshInfo", "info"}
  /\ seen' = [seen EXCEPT ![<<w, i>>] = Version(i)]
  /\ UNCHANGED <<currency, emitted>>

Decides(w, i, v) ==
  /\ pc[<<w, i>>] # "none" /\ currency' \in [Hooks -> BOOLEAN]
  /\ Decide(<<w, i>>, v)
  /\ \/ v = Version(i) /\ pc[<<w, i>>] = "get" /\ seen' = [seen EXCEPT ![<<w, i>>] = v]
     \/ v = seen[<<w, i>>] /\ pc[<<w, i>>] = "info" /\ seen' = seen

LEMMA TaskMoves ==
  ASSUME Typed, NEW w \in Hooks, NEW i \in Invoices, TaskStep(<<w, i>>)
  PROVE  /\ UNCHANGED <<history, told, hook>>
         /\ Advances(w, i) \/ Fetches(w, i) \/ \E v \in Nat : Decides(w, i, v)
<1>0. /\ <<w, i>> \in Tasks /\ pc \in [Tasks -> PC] /\ seen \in [Tasks -> Nat]
      /\ currency \in [Hooks -> BOOLEAN] /\ Version(i) \in Nat
      /\ <<w, i>>[1] = w /\ <<w, i>>[2] = i
  BY TasksAre, VersionTyped DEF Typed
<1>1. CASE Ask(<<w, i>>) \/ Refreshed(<<w, i>>) \/ Gone(<<w, i>>) \/ GetRaises(<<w, i>>)
           \/ InfoRaises(<<w, i>>)
  BY <1>0, <1>1 DEF Ask, Refreshed, Gone, GetRaises, InfoRaises, Advances, Goto, clientVars,
                    PC, Ended
<1>2. CASE Got(<<w, i>>)
  <2>1. CASE currency[w]
    BY <1>0, <1>2, <2>1 DEF Got, Fetch, Decides, clientVars
  <2>2. CASE ~currency[w]
    BY <1>0, <1>2, <2>2 DEF Got, Fetch, Fetches, Goto, clientVars
  <2> QED BY <1>2, <2>1, <2>2 DEF Got
<1>3. CASE InfoReturns(<<w, i>>)
  <2>1. Decides(w, i, seen[<<w, i>>])
    BY <1>0, <1>3 DEF InfoReturns, Decides
  <2> QED BY <1>0, <1>3, <2>1 DEF InfoReturns
<1> QED BY <1>1, <1>2, <1>3 DEF TaskStep

\* QuickBooks forgets no version.
LEMMA HistoryGrows ==
  ASSUME Typed, NEW i \in Invoices, Change(i)
  PROVE  /\ history' \in [Invoices -> Seq(Kinds)]
         /\ \A j \in Invoices : j # i => history'[j] = history[j]
         /\ Len(history'[i]) = Version(i) + 1
         /\ \A v \in 1..Version(i) : history'[i][v] = history[i][v]
<1>1. PICK kind \in Kinds : history' = [history EXCEPT ![i] = Append(history[i], kind)]
  BY DEF Change
<1>2. history \in [Invoices -> Seq(Kinds)] /\ history[i] \in Seq(Kinds)
  BY DEF Typed
<1>3. history'[i] = Append(history[i], kind)
  BY <1>1, <1>2
<1> QED BY <1>1, <1>2, <1>3, AppendProperties DEF Version

\* An accepted webhook starts the tasks of the invoices it keeps.
LEMMA Accepted ==
  ASSUME Typed, NEW w \in Hooks, Accept(w)
  PROVE  \E kept \in SUBSET {i \in Invoices : Version(i) > 0} :
           /\ hook[w] = "none" /\ UNCHANGED <<history, currency, seen, emitted>>
           /\ hook' \in [Hooks -> {"none", "refused", "ignored", "accepted"}]
           /\ \A u \in Hooks : hook'[u] = "none" <=> hook[u] = "none" /\ u # w
           /\ pc' \in [Tasks -> PC] /\ told' \in [Invoices -> Nat]
           /\ \A u \in Hooks, i \in Invoices :
                pc'[<<u, i>>] = IF u = w /\ i \in kept THEN "token" ELSE pc[<<u, i>>]
           /\ \A i \in Invoices : told'[i] = IF i \in kept THEN Version(i) ELSE told[i]
<1>0. /\ hook \in [Hooks -> {"none", "refused", "ignored", "accepted"}]
      /\ pc \in [Tasks -> PC] /\ told \in [Invoices -> Nat]
      /\ \A i \in Invoices : Version(i) \in Nat
  BY VersionTyped DEF Typed
<1>1. PICK named \in SUBSET {i \in Invoices : Version(i) > 0} :
        LET kept == {i \in named : ~Is(i, "deleted")}
        IN /\ hook' = [hook EXCEPT ![w] = IF kept = {} THEN "ignored" ELSE "accepted"]
           /\ pc' = [t \in Tasks |-> IF t[1] = w /\ t[2] \in kept THEN "token" ELSE pc[t]]
           /\ told' = [i \in Invoices |-> IF i \in kept THEN Version(i) ELSE told[i]]
  BY DEF Accept
<1> DEFINE kept == {i \in named : ~Is(i, "deleted")}
<1>2. kept \in SUBSET {i \in Invoices : Version(i) > 0}
  OBVIOUS
<1>3. /\ hook' = [hook EXCEPT ![w] = IF kept = {} THEN "ignored" ELSE "accepted"]
      /\ pc' = [t \in Tasks |-> IF t[1] = w /\ t[2] \in kept THEN "token" ELSE pc[t]]
      /\ told' = [i \in Invoices |-> IF i \in kept THEN Version(i) ELSE told[i]]
  BY <1>1
<1> HIDE DEF kept
<1>4. /\ hook' \in [Hooks -> {"none", "refused", "ignored", "accepted"}]
      /\ \A u \in Hooks : hook'[u] = "none" <=> hook[u] = "none" /\ u # w
  BY <1>0, <1>3
<1>5. /\ pc' \in [Tasks -> PC]
      /\ \A u \in Hooks, i \in Invoices :
           pc'[<<u, i>>] = IF u = w /\ i \in kept THEN "token" ELSE pc[<<u, i>>]
  BY <1>0, <1>3, TasksAre DEF PC
<1>6. /\ told' \in [Invoices -> Nat]
      /\ \A i \in Invoices : told'[i] = IF i \in kept THEN Version(i) ELSE told[i]
  BY <1>0, <1>3
<1>7. hook[w] = "none" /\ UNCHANGED <<history, currency, seen, emitted>>
  BY DEF Accept, clientVars
<1> QED BY <1>2, <1>4, <1>5, <1>6, <1>7

LEMMA TypeStep == Typed /\ [Next]_vars => Typed'
<1> SUFFICES ASSUME Typed, [Next]_vars PROVE Typed'
  OBVIOUS
<1> USE DEF Typed
<1>1. CASE Crash
  BY <1>1 DEF Crash, clientVars, PC, Ended
<1>2. ASSUME NEW i \in Invoices, Change(i) PROVE Typed'
  BY <1>2, HistoryGrows DEF Change, clientVars
<1>3. ASSUME NEW w \in Hooks, Refuse(w) \/ Expire(w) PROVE Typed'
  BY <1>3 DEF Refuse, Expire, clientVars
<1>4. ASSUME NEW w \in Hooks, Accept(w) PROVE Typed'
  BY <1>4, Accepted
<1>5. ASSUME NEW w \in Hooks, NEW i \in Invoices, TaskStep(<<w, i>>) PROVE Typed'
  <2>1. CASE Advances(w, i)
    BY <1>5, <2>1, TaskMoves, TasksAre DEF Advances
  <2>2. CASE Fetches(w, i)
    BY <1>5, <2>2, TaskMoves, TasksAre, VersionTyped DEF Fetches, PC
  <2>3. ASSUME NEW v \in Nat, Decides(w, i, v) PROVE Typed'
    <3>1. pc' \in [Tasks -> PC] /\ emitted' \in [Invoices -> SUBSET Nat]
      BY <2>3, Decided DEF Decides
    <3>2. seen' \in [Tasks -> Nat] /\ currency' \in [Hooks -> BOOLEAN]
      BY <2>3, TasksAre DEF Decides
    <3>3. UNCHANGED <<history, told, hook>>
      BY <1>5, TaskMoves
    <3> QED BY <3>1, <3>2, <3>3
  <2> QED BY <1>5, <2>1, <2>2, <2>3, TaskMoves
<1>6. CASE UNCHANGED vars
  BY <1>6 DEF vars, clientVars
<1> QED BY <1>1, <1>2, <1>3, <1>4, <1>5, <1>6, TasksAre DEF Next

-----------------------------------------------------------------------------
LEMMA VersionStep == Typed /\ VersionInv /\ [Next]_vars => VersionInv'
<1> SUFFICES ASSUME Typed, VersionInv, [Next]_vars PROVE VersionInv'
  OBVIOUS
<1>0. /\ \A i \in Invoices : /\ Version(i) \in Nat /\ told[i] \in Nat
                             /\ emitted[i] \subseteq 1..Version(i) /\ told[i] <= Version(i)
      /\ \A w \in Hooks, i \in Invoices : <<w, i>> \in Tasks /\ seen[<<w, i>>] \in Nat
      /\ pc \in [Tasks -> PC] /\ seen \in [Tasks -> Nat] /\ emitted \in [Invoices -> SUBSET Nat]
  BY VersionTyped, TasksAre DEF Typed, VersionInv
<1>1. CASE Crash
  <2>1. \A t \in Tasks : pc'[t] = pc[t] \/ (pc'[t] = "lost" /\ pc[t] # "none")
    BY <1>1 DEF Crash, Ended
  <2>2. UNCHANGED <<history, told, hook, seen, emitted>>
    BY <1>1 DEF Crash
  <2> QED BY <1>0, <2>1, <2>2 DEF VersionInv, Version
<1>2. ASSUME NEW i \in Invoices, Change(i) PROVE VersionInv'
  <2>1. ASSUME NEW j \in Invoices PROVE Version(j) <= Version(j)' /\ Version(j)' \in Nat
    <3>1. CASE j = i
      <4>1. Version(j)' = Version(i) + 1
        BY <1>2, <3>1, HistoryGrows DEF Version
      <4> QED BY <1>0, <3>1, <4>1
    <3>2. CASE j # i
      <4>1. Version(j)' = Version(j)
        BY <1>2, <3>2, HistoryGrows DEF Version
      <4> QED BY <1>0, <4>1
    <3> QED BY <3>1, <3>2
  <2>2. UNCHANGED <<told, hook, pc, seen, emitted>>
    BY <1>2 DEF Change
  <2>3. \A j \in Invoices : told'[j] <= Version(j)' /\ emitted'[j] \subseteq 1..Version(j)'
    BY <1>0, <2>1, <2>2
  <2>4. \A w \in Hooks, j \in Invoices : /\ seen'[<<w, j>>] <= Version(j)'
                                         /\ Version(j) > 0 => Version(j)' > 0
    <3> SUFFICES ASSUME NEW w \in Hooks, NEW j \in Invoices
                 PROVE  /\ seen'[<<w, j>>] <= Version(j)'
                        /\ Version(j) > 0 => Version(j)' > 0
      OBVIOUS
    <3>1. seen'[<<w, j>>] = seen[<<w, j>>] /\ seen[<<w, j>>] <= Version(j)
      BY <2>2 DEF VersionInv
    <3>2. /\ seen[<<w, j>>] \in Nat /\ Version(j) \in Nat /\ Version(j)' \in Nat
          /\ Version(j) <= Version(j)'
      BY <1>0, <2>1
    <3> QED BY <3>1, <3>2
  <2> QED BY <2>2, <2>3, <2>4 DEF VersionInv
<1>3. ASSUME NEW w \in Hooks, Refuse(w) \/ Expire(w) PROVE VersionInv'
  <2>1. \A u \in Hooks : hook[u] # "none" => hook'[u] # "none"
    BY <1>3 DEF Refuse, Expire, Typed
  <2>2. UNCHANGED <<history, told, pc, seen, emitted>>
    BY <1>3 DEF Refuse, Expire
  <2> QED BY <2>1, <2>2 DEF VersionInv, Version
<1>4. ASSUME NEW w \in Hooks, Accept(w) PROVE VersionInv'
  <2>1. PICK kept \in SUBSET {i \in Invoices : Version(i) > 0} :
           /\ hook[w] = "none" /\ UNCHANGED <<history, currency, seen, emitted>>
           /\ hook' \in [Hooks -> {"none", "refused", "ignored", "accepted"}]
           /\ \A u \in Hooks : hook'[u] = "none" <=> hook[u] = "none" /\ u # w
           /\ pc' \in [Tasks -> PC] /\ told' \in [Invoices -> Nat]
           /\ \A u \in Hooks, i \in Invoices :
                pc'[<<u, i>>] = IF u = w /\ i \in kept THEN "token" ELSE pc[<<u, i>>]
           /\ \A i \in Invoices : told'[i] = IF i \in kept THEN Version(i) ELSE told[i]
    BY <1>4, Accepted
  <2>2. \A i \in Invoices : Version(i)' = Version(i)
    BY <2>1 DEF Version
  <2>3. \A i \in Invoices : told'[i] <= Version(i)' /\ emitted'[i] \subseteq 1..Version(i)'
    BY <1>0, <2>1, <2>2
  <2> QED BY <2>1, <2>2, <2>3 DEF VersionInv
<1>5. ASSUME NEW w \in Hooks, NEW i \in Invoices, TaskStep(<<w, i>>) PROVE VersionInv'
  <2>0. UNCHANGED <<history, told, hook>> /\ \A j \in Invoices : Version(j)' = Version(j)
    BY <1>5, TaskMoves DEF Version
  <2>1. CASE Advances(w, i)
    BY <1>0, <2>0, <2>1 DEF Advances, VersionInv
  <2>2. CASE Fetches(w, i)
    <3>1. Version(i) > 0 /\ Version(i) <= Version(i)
      BY <1>0, <2>2 DEF Fetches, VersionInv
    <3> QED BY <1>0, <2>0, <2>2, <3>1 DEF Fetches, VersionInv
  <2>3. ASSUME NEW v \in Nat, Decides(w, i, v) PROVE VersionInv'
    <3>1. v \in 1..Version(i) /\ pc[<<w, i>>] # "none"
      BY <1>0, <2>3 DEF Decides, VersionInv
    <3>2. /\ pc'[<<w, i>>] \in {"emitted", "skipped"}
          /\ \A t \in Tasks : t # <<w, i>> => pc'[t] = pc[t]
          /\ emitted'[i] \subseteq emitted[i] \cup {v}
          /\ \A j \in Invoices : j # i => emitted'[j] = emitted[j]
      BY <2>3, Decided DEF Decides
    <3>3. seen' = seen \/ seen' = [seen EXCEPT ![<<w, i>>] = v]
      BY <2>3 DEF Decides
    <3>4. \A j \in Invoices : told'[j] <= Version(j)' /\ emitted'[j] \subseteq 1..Version(j)'
      BY <1>0, <2>0, <3>1, <3>2
    <3>5. \A u \in Hooks, j \in Invoices : seen'[<<u, j>>] <= Version(j)'
      <4> SUFFICES ASSUME NEW u \in Hooks, NEW j \in Invoices
                   PROVE  seen'[<<u, j>>] <= Version(j)'
        OBVIOUS
      <4>1. seen[<<u, j>>] <= Version(j) /\ Version(j)' = Version(j)
        BY <2>0 DEF VersionInv
      <4>2. CASE <<u, j>> = <<w, i>>
        <5>1. j = i /\ seen'[<<u, j>>] \in {seen[<<u, j>>], v}
          BY <1>0, <3>3, <4>2
        <5> QED BY <3>1, <4>1, <5>1
      <4>3. CASE <<u, j>> # <<w, i>>
        BY <1>0, <3>3, <4>1, <4>3
      <4> QED BY <4>2, <4>3
    <3>6. \A u \in Hooks, j \in Invoices : <<u, j>> # <<w, i>> => seen'[<<u, j>>] = seen[<<u, j>>]
      BY <1>0, <3>3
    <3> QED BY <1>0, <2>0, <3>1, <3>2, <3>4, <3>5, <3>6 DEF VersionInv
  <2> QED BY <1>5, <2>1, <2>2, <2>3, TaskMoves
<1>6. CASE UNCHANGED vars
  BY <1>6 DEF vars, VersionInv, Version
<1> QED BY <1>1, <1>2, <1>3, <1>4, <1>5, <1>6, TasksAre DEF Next

LEMMA ForeignStep ==
  Typed /\ VersionInv /\ OnlyForeignEmitted /\ [Next]_vars => OnlyForeignEmitted'
<1> SUFFICES ASSUME Typed, VersionInv, OnlyForeignEmitted, [Next]_vars
             PROVE  OnlyForeignEmitted'
  OBVIOUS
<1>1. CASE UNCHANGED <<history, emitted>>
  BY <1>1 DEF OnlyForeignEmitted
<1>2. CASE Crash \/ UNCHANGED vars \/ \E w \in Hooks : Refuse(w) \/ Accept(w) \/ Expire(w)
  BY <1>1, <1>2 DEF Crash, Refuse, Accept, Expire, vars
<1>3. ASSUME NEW i \in Invoices, Change(i) PROVE OnlyForeignEmitted'
  <2>1. emitted' = emitted /\ \A j \in Invoices : emitted[j] \subseteq 1..Version(j)
    BY <1>3 DEF Change, VersionInv
  <2> QED BY <1>3, <2>1, HistoryGrows DEF OnlyForeignEmitted
<1>4. ASSUME NEW w \in Hooks, NEW i \in Invoices, TaskStep(<<w, i>>) PROVE OnlyForeignEmitted'
  <2>1. history' = history
    BY <1>4, TaskMoves
  <2>2. CASE Advances(w, i) \/ Fetches(w, i)
    BY <1>1, <2>1, <2>2 DEF Advances, Fetches
  <2>3. ASSUME NEW v \in Nat, Decides(w, i, v) PROVE OnlyForeignEmitted'
    <3>1. /\ emitted'[i] = IF history[i][v] = "foreign" THEN emitted[i] \cup {v} ELSE emitted[i]
          /\ \A j \in Invoices : j # i => emitted'[j] = emitted[j]
      BY <2>3, Decided DEF Decides
    <3> QED BY <2>1, <3>1 DEF OnlyForeignEmitted
  <2> QED BY <1>4, <2>2, <2>3, TaskMoves
<1> QED BY <1>2, <1>3, <1>4, TasksAre DEF Next

LEMMA OweStep == Typed /\ VersionInv /\ OweInv /\ [Next]_vars => OweInv'
<1> DEFINE Ok(j) == told[j] = Version(j) /\ Is(j, "foreign") =>
                      told[j] \in emitted[j] \/ \E w \in Hooks : Owes(w, j)
<1> SUFFICES ASSUME Typed, VersionInv, OweInv, [Next]_vars, NEW j \in Invoices PROVE Ok(j)'
  BY DEF OweInv
<1>0. /\ Ok(j) /\ Version(j) \in Nat /\ told[j] \in Nat /\ told[j] <= Version(j)
      /\ \A w \in Hooks, i \in Invoices : <<w, i>> \in Tasks
      /\ pc \in [Tasks -> PC] /\ seen \in [Tasks -> Nat] /\ emitted \in [Invoices -> SUBSET Nat]
  BY VersionTyped, TasksAre DEF Typed, VersionInv, OweInv
\* Nothing about the invoice changes but for its tasks, which owe what they owed.
<1>1. ASSUME history'[j] = history[j], told'[j] = told[j], emitted[j] \subseteq emitted'[j],
             \A w \in Hooks : Owes(w, j) => Owes(w, j)'
      PROVE  Ok(j)'
  BY <1>0, <1>1 DEF Version, Is
<1>2. CASE Crash
  <2>1. \A w \in Hooks : \/ pc'[<<w, j>>] = pc[<<w, j>>]
                         \/ pc'[<<w, j>>] = "lost"
    BY <1>0, <1>2 DEF Crash
  <2> QED BY <1>1, <1>2, <2>1 DEF Crash, Owes, Version
<1>3. ASSUME NEW i \in Invoices, Change(i) PROVE Ok(j)'
  <2>1. told' = told /\ emitted' = emitted /\ pc' = pc /\ seen' = seen
    BY <1>3 DEF Change
  <2>2. CASE i = j
    <3>1. told'[j] # Version(j)'
      BY <1>0, <1>3, <2>1, <2>2, HistoryGrows DEF Version
    <3> QED BY <3>1
  <2>3. CASE i # j
    BY <1>1, <1>3, <2>1, <2>3, HistoryGrows DEF Owes, Version
  <2> QED BY <2>2, <2>3
<1>4. CASE (\E w \in Hooks : Refuse(w) \/ Expire(w)) \/ UNCHANGED vars
  BY <1>1, <1>4 DEF Refuse, Expire, vars, Owes, Version
<1>5. ASSUME NEW w \in Hooks, Accept(w) PROVE Ok(j)'
  <2>1. PICK kept \in SUBSET {i \in Invoices : Version(i) > 0} :
           /\ hook[w] = "none" /\ UNCHANGED <<history, currency, seen, emitted>>
           /\ hook' \in [Hooks -> {"none", "refused", "ignored", "accepted"}]
           /\ \A u \in Hooks : hook'[u] = "none" <=> hook[u] = "none" /\ u # w
           /\ pc' \in [Tasks -> PC] /\ told' \in [Invoices -> Nat]
           /\ \A u \in Hooks, i \in Invoices :
                pc'[<<u, i>>] = IF u = w /\ i \in kept THEN "token" ELSE pc[<<u, i>>]
           /\ \A i \in Invoices : told'[i] = IF i \in kept THEN Version(i) ELSE told[i]
    BY <1>5, Accepted
  <2>2. CASE j \in kept
    <3>1. pc'[<<w, j>>] = "token"
      BY <2>1, <2>2
    <3> QED BY <3>1 DEF Owes
  <2>3. CASE j \notin kept
    BY <1>1, <2>1, <2>3 DEF Owes, Version
  <2> QED BY <2>2, <2>3
<1>6. ASSUME NEW w \in Hooks, NEW i \in Invoices, TaskStep(<<w, i>>) PROVE Ok(j)'
  <2>0. UNCHANGED <<history, told>> /\ Version(j)' = Version(j) /\ Version(i)' = Version(i)
    BY <1>6, TaskMoves DEF Version
  <2>1. CASE Advances(w, i)
    <3>1. /\ \A u \in Hooks : <<u, j>> # <<w, i>> => pc'[<<u, j>>] = pc[<<u, j>>]
          /\ seen' = seen /\ emitted' = emitted
      BY <1>0, <2>1 DEF Advances
    <3>2. CASE pc'[<<w, i>>] = "skipped" /\ Is(i, "deleted") /\ i = j
      BY <2>0, <3>2 DEF Is
    <3>3. CASE ~(pc'[<<w, i>>] = "skipped" /\ Is(i, "deleted") /\ i = j)
      <4>1. i = j => (Owes(w, i) => Owes(w, i)')
        BY <2>0, <2>1, <3>1, <3>3 DEF Advances, Owes
      <4>2. \A u \in Hooks : <<u, j>> # <<w, i>> => (Owes(u, j) => Owes(u, j)')
        BY <2>0, <3>1 DEF Owes
      <4> QED BY <1>1, <2>0, <3>1, <4>1, <4>2
    <3> QED BY <3>2, <3>3
  <2>2. CASE Fetches(w, i)
    <3>1. /\ \A u \in Hooks : <<u, j>> # <<w, i>> =>
               pc'[<<u, j>>] = pc[<<u, j>>] /\ seen'[<<u, j>>] = seen[<<u, j>>]
          /\ seen'[<<w, i>>] = Version(i) /\ pc'[<<w, i>>] \in {"refreshInfo", "info"}
          /\ emitted' = emitted
      BY <1>0, <2>2 DEF Fetches
    <3>2. i = j => Owes(w, i)'
      BY <2>0, <3>1 DEF Owes
    <3>3. \A u \in Hooks : <<u, j>> # <<w, i>> => (Owes(u, j) => Owes(u, j)')
      BY <2>0, <3>1 DEF Owes
    <3> QED BY <1>1, <2>0, <3>1, <3>2, <3>3
  <2>3. ASSUME NEW v \in Nat, Decides(w, i, v) PROVE Ok(j)'
    <3>1. /\ \A t \in Tasks : t # <<w, i>> => pc'[t] = pc[t]
          /\ emitted'[i] = IF history[i][v] = "foreign" THEN emitted[i] \cup {v} ELSE emitted[i]
          /\ j # i => emitted'[j] = emitted[j]
      BY <2>3, Decided DEF Decides
    <3>2. \A u \in Hooks : <<u, j>> # <<w, i>> => seen'[<<u, j>>] = seen[<<u, j>>]
      BY <1>0, <2>3 DEF Decides
    <3>3. \A u \in Hooks : <<u, j>> # <<w, i>> => (Owes(u, j) => Owes(u, j)')
      BY <1>0, <2>0, <3>1, <3>2 DEF Owes
    <3>4. CASE i # j
      <4>1. \A u \in Hooks : <<u, j>> # <<w, i>>
        BY <3>4
      <4> QED BY <1>1, <2>0, <3>1, <3>3, <3>4, <4>1
    <3>5. CASE i = j /\ v = Version(i)
      BY <2>0, <3>1, <3>5 DEF Is
    <3>6. CASE i = j /\ v # Version(i)
      <4>1. ~Owes(w, i)
        BY <2>3, <3>6 DEF Decides, Owes
      <4> QED BY <1>1, <2>0, <3>1, <3>3, <3>6, <4>1
    <3> QED BY <3>4, <3>5, <3>6
  <2> QED BY <1>6, <2>1, <2>2, <2>3, TaskMoves
<1> QED BY <1>2, <1>3, <1>4, <1>5, <1>6, TasksAre DEF Next

-----------------------------------------------------------------------------
LEMMA InvoicesInvariant == Spec => []IInv
<1>1. Init => IInv
  <2> SUFFICES ASSUME Init PROVE IInv
    OBVIOUS
  <2> USE DEF Init
  <2>1. Typed
    BY EmptySeq DEF Typed, PC
  <2>2. \A i \in Invoices : Version(i) = 0
    BY EmptySeq DEF Version
  <2>3. VersionInv
    BY <2>2, TasksAre DEF VersionInv
  <2>4. OnlyForeignEmitted /\ OweInv
    BY <2>2 DEF OnlyForeignEmitted, OweInv, Is
  <2> QED BY <2>1, <2>3, <2>4 DEF IInv
<1>2. IInv /\ [Next]_vars => IInv'
  BY TypeStep, VersionStep, ForeignStep, OweStep DEF IInv
<1> QED BY <1>1, <1>2, PTL DEF Spec

\* _process_invoice emits only what it found foreign and dated, also when the home
\* currency cannot be had.
THEOREM NothingElseEmitted == Spec => []OnlyForeignEmitted
<1> QED BY InvoicesInvariant, PTL DEF IInv

\* _process_invoice fetches the invoice after its webhook: once the tasks of an invoice
\* have ended well, its newest version is among the emitted ones.
THEOREM NewestAmongEmitted == Spec => []NewestEmitted
<1>1. IInv => NewestEmitted
  BY DEF IInv, OweInv, Owes, NewestEmitted
<1> QED BY <1>1, InvoicesInvariant, PTL
=============================================================================
