---------------------------- MODULE AuditLogProofs ----------------------------
(***************************************************************************)
(* Theorems about AuditLog for any writers, auditors and contents, and any *)
(* number of appends and edits.                                            *)
(***************************************************************************)
EXTENDS AuditLog, TLAPS, SequenceTheorems

Record == [content : Contents, prev : Seq(Contents), this : Seq(Contents)]

\* The hash of an entry covers what the entry says it follows.
OwnHash(rec) == rec.this = ComputeHash(rec.prev, rec.content)

\* h is the hash of one of the first n entries, or the genesis.
HashOf(rows, h, n) == \E j \in 0..n : h = IF j = 0 THEN Genesis ELSE rows[j].this

\* Without edits, an append that has read the head will extend an entry of the log.
HeadInv ==
  edits = 0 => \A w \in Writers : wpc[w] = "insert" => HashOf(log, entry[w].head, Len(log))

\* After one edit some entry no longer has the hash of what it says.
EditInv == edits = 1 => \E i \in 1..Len(log) : ~OwnHash(log[i])

\* Until an append overlaps another or an entry is edited, no audit fails, and the
\* log has at least the entries an audit went through.
AuditInv ==
  edits = 0 /\ ~stale =>
    \A a \in Auditors : /\ apc[a] # "broken"
                        /\ apc[a] = "count" => checked[a] <= Len(log)
                        /\ apc[a] = "ok" => checked[a] <= count[a]

ForkInv == edits = 0 => \A i \in 1..Len(log) : /\ OwnHash(log[i])
                                               /\ HashOf(log, log[i].prev, i - 1)
ChainInv == edits = 0 /\ ~stale => Verifies(log)

IInv == TypeOK /\ HeadInv /\ ForkInv /\ EditInv /\ AuditInv /\ ChainInv

(* Hashes, and the log with one more row.                                  *)

LEMMA HashType ==
  ASSUME NEW h \in Seq(Contents), NEW c \in Contents
  PROVE  /\ ComputeHash(h, c) \in Seq(Contents)
         /\ Len(ComputeHash(h, c)) = Len(h) + 1
BY AppendProperties DEF ComputeHash

LEMMA HashInjective ==
  ASSUME NEW g \in Seq(Contents), NEW h \in Seq(Contents), NEW c \in Contents,
         NEW d \in Contents, ComputeHash(g, c) = ComputeHash(h, d)
  PROVE  g = h /\ c = d
BY AppendInjective DEF ComputeHash

LEMMA PreviousHashIs ==
  ASSUME NEW rows \in Seq(Record)
  PROVE  /\ PreviousHash(rows) \in Seq(Contents)
         /\ HashOf(rows, PreviousHash(rows), Len(rows))
         /\ PreviousHash(rows) = IF Len(rows) = 0 THEN Genesis ELSE rows[Len(rows)].this
<1>1. CASE rows = <<>>
  BY <1>1, EmptySeq DEF PreviousHash, Genesis, HashOf
<1>2. CASE rows # <<>>
  <2>1. Len(rows) \in Nat \ {0}
    BY <1>2, EmptySeq
  <2>2. rows[Len(rows)] \in Record
    BY <2>1, ElementOfSeq
  <2> QED BY <1>2, <2>1, <2>2 DEF PreviousHash, Record, HashOf
<1> QED BY <1>1, <1>2

LEMMA LogAppend ==
  ASSUME NEW rows \in Seq(Record), NEW rec \in Record
  PROVE  /\ Append(rows, rec) \in Seq(Record)
         /\ Len(Append(rows, rec)) = Len(rows) + 1 /\ Len(rows) \in Nat
         /\ \A i \in 1..Len(rows) : Append(rows, rec)[i] = rows[i]
         /\ Append(rows, rec)[Len(rows) + 1] = rec
BY AppendProperties, LenProperties

LEMMA HashOfAppend ==
  ASSUME NEW rows \in Seq(Record), NEW rec \in Record, NEW h,
         NEW n \in 0..Len(rows), HashOf(rows, h, n)
  PROVE  /\ HashOf(Append(rows, rec), h, n)
         /\ HashOf(Append(rows, rec), h, Len(rows) + 1)
BY LogAppend DEF HashOf

LEMMA TypeInit == Init => TypeOK
<1> SUFFICES ASSUME Init PROVE TypeOK
  OBVIOUS
<1>1. (CHOOSE c \in Contents : TRUE) \in Contents
  BY BoundsAssumption
<1>2. <<>> \in Seq(Record) /\ <<>> \in Seq(Contents)
  BY EmptySeq
<1>3. /\ log \in Seq(Record) /\ wpc \in [Writers -> {"idle", "insert"}]
      /\ entry \in [Writers -> [content : Contents, head : Seq(Contents)]]
  BY <1>1, <1>2 DEF Init, Genesis
<1>4. /\ apc \in [Auditors -> {"idle", "count", "ok", "broken"}]
      /\ checked \in [Auditors -> Nat] /\ count \in [Auditors -> Nat]
  BY DEF Init
<1>5. started \in 0..MaxRecords /\ edits \in 0..MaxEdits
  <2>1. started = 0 /\ edits = 0
    BY DEF Init
  <2>2. MaxRecords \in Nat /\ MaxEdits \in Nat
    BY BoundsAssumption
  <2> QED BY <2>1, <2>2
<1>6. stale \in BOOLEAN
  BY DEF Init
<1> QED BY <1>3, <1>4, <1>5, <1>6 DEF TypeOK, Record

LEMMA TypeStep == TypeOK /\ [Next]_vars => TypeOK'
<1> SUFFICES ASSUME TypeOK, [Next]_vars PROVE TypeOK'
  OBVIOUS
<1> USE BoundsAssumption DEF TypeOK, auditVars
<1>0. log \in Seq(Record) /\ Len(log) \in Nat
  BY LenProperties DEF Record
<1>1. ASSUME NEW w \in Writers, ReadHead(w) PROVE TypeOK'
  BY <1>0, <1>1, PreviousHashIs DEF ReadHead
<1>2. ASSUME NEW w \in Writers, Insert(w) PROVE TypeOK'
  <2>1. [content |-> entry[w].content, prev |-> entry[w].head,
         this |-> ComputeHash(entry[w].head, entry[w].content)] \in Record
    BY HashType DEF Record
  <2>2. log' \in Seq(Record)
    BY <1>0, <1>2, <2>1, AppendProperties DEF Insert
  <2> QED BY <1>2, <2>2 DEF Insert, Record
<1>3. ASSUME NEW w \in Writers, InsertFails(w) PROVE TypeOK'
  BY <1>3 DEF InsertFails
<1>4. ASSUME NEW a \in Auditors, Verify(a) PROVE TypeOK'
  BY <1>0, <1>4 DEF Verify
<1>5. ASSUME NEW a \in Auditors, Count(a) PROVE TypeOK'
  BY <1>0, <1>5 DEF Count
<1>6. CASE Edit
  <2>1. PICK i \in 1..Len(log), rec \in Record : log' = [log EXCEPT ![i] = rec]
    <3>1. PICK i \in 1..Len(log), content \in Contents :
            \/ log' = [log EXCEPT ![i].content = content]
            \/ log' = [log EXCEPT ![i].prev = Append(@, content)]
            \/ log' = [log EXCEPT ![i].this = Append(@, content)]
      BY <1>6 DEF Edit
    <3>2. log[i] \in Record
      BY <1>0, ElementOfSeq
    <3>3. /\ Append(log[i].prev, content) \in Seq(Contents)
          /\ Append(log[i].this, content) \in Seq(Contents)
      BY <3>2, AppendProperties DEF Record
    <3> QED BY <3>1, <3>2, <3>3 DEF Record
  <2>2. log' \in Seq(Record)
    BY <1>0, <2>1, ExceptSeq
  <2>3. /\ edits < MaxEdits /\ edits' = edits + 1
        /\ UNCHANGED <<wpc, entry, started, apc, checked, count, stale>>
    BY <1>6, Zenon DEF Edit
  <2> QED BY <2>2, <2>3 DEF Record
<1>7. CASE UNCHANGED vars
  BY <1>7 DEF vars
<1> QED BY <1>1, <1>2, <1>3, <1>4, <1>5, <1>6, <1>7 DEF Next

LEMMA InvInit == Init => IInv
<1> SUFFICES ASSUME Init PROVE IInv
  OBVIOUS
<1>1. /\ log = <<>> /\ edits = 0 /\ Len(log) = 0
      /\ \A w \in Writers : wpc[w] = "idle"
      /\ \A a \in Auditors : apc[a] = "idle"
  BY EmptySeq DEF Init
<1> QED
  BY <1>1, TypeInit DEF IInv, HeadInv, ForkInv, EditInv, AuditInv, ChainInv, Verifies

LEMMA EditedRecord ==
  ASSUME NEW rec \in Record, NEW x
  PROVE  /\ [rec EXCEPT !.content = x] = [content |-> x, prev |-> rec.prev, this |-> rec.this]
         /\ [rec EXCEPT !.prev = x] = [content |-> rec.content, prev |-> x, this |-> rec.this]
         /\ [rec EXCEPT !.this = x] = [content |-> rec.content, prev |-> rec.prev, this |-> x]
BY DEF Record

\* One changed column of an entry that had its own hash leaves it without.
LEMMA EditBreaksHash ==
  ASSUME NEW rec \in Record, OwnHash(rec), NEW c \in Contents, NEW changed \in Record,
         \/ c # rec.content /\ changed = [content |-> c, prev |-> rec.prev, this |-> rec.this]
         \/ changed = [content |-> rec.content, prev |-> Append(rec.prev, c), this |-> rec.this]
         \/ changed = [content |-> rec.content, prev |-> rec.prev, this |-> Append(rec.this, c)]
  PROVE  ~OwnHash(changed)
<1>1. /\ rec.content \in Contents /\ rec.prev \in Seq(Contents) /\ rec.this \in Seq(Contents)
      /\ rec.this = ComputeHash(rec.prev, rec.content)
      /\ Len(rec.this) = Len(rec.prev) + 1 /\ Len(rec.prev) \in Nat
  BY HashType, LenProperties DEF Record, OwnHash
<1>2. CASE c # rec.content
             /\ changed = [content |-> c, prev |-> rec.prev, this |-> rec.this]
  BY <1>1, <1>2, HashInjective DEF OwnHash
<1>3. CASE changed = [content |-> rec.content, prev |-> Append(rec.prev, c), this |-> rec.this]
  <2>1. Append(rec.prev, c) \in Seq(Contents) /\ Len(Append(rec.prev, c)) = Len(rec.prev) + 1
    BY <1>1, AppendProperties
  <2>2. Len(ComputeHash(Append(rec.prev, c), rec.content)) = Len(Append(rec.prev, c)) + 1
    BY <1>1, <2>1, HashType
  <2>3. changed.this = rec.this /\ changed.prev = Append(rec.prev, c)
        /\ changed.content = rec.content
    BY <1>3
  <2>4. OwnHash(changed) => Len(rec.this) = Len(Append(rec.prev, c)) + 1
    BY <2>2, <2>3 DEF OwnHash
  <2> QED BY <1>1, <2>1, <2>4
<1>4. CASE changed = [content |-> rec.content, prev |-> rec.prev, this |-> Append(rec.this, c)]
  <2>1. Len(Append(rec.this, c)) = Len(rec.this) + 1
    BY <1>1, AppendProperties
  <2> QED BY <1>1, <1>4, <2>1 DEF OwnHash
<1> QED BY <1>2, <1>3, <1>4

LEMMA InsertKeeps ==
  ASSUME IInv, NEW w \in Writers, Insert(w)
  PROVE  (HeadInv /\ ForkInv /\ EditInv /\ AuditInv /\ ChainInv)'
<1> DEFINE rec == [content |-> entry[w].content, prev |-> entry[w].head,
                   this |-> ComputeHash(entry[w].head, entry[w].content)]
<1>0. /\ log \in Seq(Record) /\ rec \in Record /\ wpc[w] = "insert"
      /\ rec.prev = entry[w].head /\ OwnHash(rec)
  BY HashType DEF IInv, TypeOK, Record, Insert, OwnHash
<1>1. /\ log' = Append(log, rec) /\ UNCHANGED <<entry, edits, apc, checked, count>>
      /\ stale' = (stale \/ rec.prev # PreviousHash(log))
      /\ \A v \in Writers : wpc'[v] = "insert" => wpc[v] = "insert"
  BY DEF Insert, auditVars, IInv, TypeOK
<1> HIDE DEF rec
<1>2. /\ log' \in Seq(Record) /\ Len(log') = Len(log) + 1 /\ Len(log) \in Nat
      /\ \A i \in 1..Len(log) : log'[i] = log[i]
      /\ log'[Len(log) + 1] = rec
  BY <1>0, <1>1, LogAppend
<1>3. \A h, n : n \in 0..Len(log) /\ HashOf(log, h, n) =>
                  HashOf(log', h, n) /\ HashOf(log', h, Len(log'))
  BY <1>0, <1>1, <1>2, HashOfAppend
<1>4. HeadInv'
  BY <1>1, <1>2, <1>3 DEF IInv, HeadInv
<1>5. ForkInv'
  <2> SUFFICES ASSUME edits = 0, NEW i \in 1..(Len(log) + 1)
               PROVE  OwnHash(log'[i]) /\ HashOf(log', log'[i].prev, i - 1)
    BY <1>1, <1>2 DEF ForkInv
  <2>1. CASE i \in 1..Len(log)
    <3>1. OwnHash(log[i]) /\ HashOf(log, log[i].prev, i - 1) /\ i - 1 \in 0..Len(log)
      BY <2>1 DEF IInv, ForkInv
    <3> QED BY <1>2, <1>3, <2>1, <3>1
  <2>2. CASE i = Len(log) + 1
    <3>1. HashOf(log, rec.prev, Len(log))
      BY <1>0 DEF IInv, HeadInv
    <3> QED BY <1>0, <1>2, <1>3, <2>2, <3>1
  <2> QED BY <1>2, <2>1, <2>2
<1>6. EditInv'
  BY <1>1, <1>2 DEF IInv, EditInv
<1>7. AuditInv'
  <2>1. \A a \in Auditors : checked[a] \in Nat
    BY DEF IInv, TypeOK
  <2>2. edits' = 0 /\ ~stale' => AuditInv /\ edits = 0 /\ ~stale
    BY <1>1 DEF IInv
  <2>3. \A a \in Auditors : checked[a] <= Len(log) => checked[a] <= Len(log')
    BY <1>2, <2>1
  <2> QED BY <1>1, <2>2, <2>3 DEF AuditInv
<1>8. ChainInv'
  <2> SUFFICES ASSUME edits = 0, ~stale, rec.prev = PreviousHash(log) PROVE Verifies(log')
    BY <1>1 DEF ChainInv
  <2>1. Verifies(log)
    BY DEF IInv, ChainInv
  <2>2. rec.prev = IF Len(log) = 0 THEN Genesis ELSE log[Len(log)].this
    BY <1>0, PreviousHashIs
  <2>3. ASSUME NEW i \in 1..(Len(log) + 1)
        PROVE  LET prev == IF i = 1 THEN Genesis ELSE log'[i - 1].this IN
               log'[i].prev = prev /\ log'[i].this = ComputeHash(prev, log'[i].content)
    <3>1. CASE i \in 1..Len(log)
      <4>1. log'[i] = log[i] /\ (i # 1 => log'[i - 1] = log[i - 1])
        <5>1. i # 1 => i - 1 \in 1..Len(log)
          BY <1>0, <3>1
        <5> QED BY <1>2, <3>1, <5>1
      <4>2. LET prev == IF i = 1 THEN Genesis ELSE log[i - 1].this IN
            log[i].prev = prev /\ log[i].this = ComputeHash(prev, log[i].content)
        BY <2>1, <3>1 DEF Verifies
      <4> QED BY <4>1, <4>2
    <3>2. CASE i = Len(log) + 1
      <4>1. rec.prev = IF i = 1 THEN Genesis ELSE log'[i - 1].this
        BY <1>2, <2>2, <3>2
      <4> QED BY <1>0, <1>2, <3>2, <4>1 DEF OwnHash
    <3> QED BY <1>2, <3>1, <3>2
  <2> QED BY <1>2, <2>3 DEF Verifies
<1> QED BY <1>4, <1>5, <1>6, <1>7, <1>8

LEMMA InvStep == IInv /\ [Next]_vars => IInv'
<1> SUFFICES ASSUME IInv, [Next]_vars PROVE IInv'
  OBVIOUS
<1> DEFINE Goal == (HeadInv /\ ForkInv /\ EditInv /\ AuditInv /\ ChainInv)'
<1>0. TypeOK /\ log \in Seq(Record) /\ Len(log) \in Nat /\ edits \in Nat
  BY BoundsAssumption, LenProperties DEF IInv, TypeOK, Record
<1>1. ASSUME NEW w \in Writers, ReadHead(w) PROVE Goal
  <2>1. /\ UNCHANGED <<log, edits, apc, checked, count, stale>>
        /\ entry'[w].head = PreviousHash(log)
        /\ \A v \in Writers \ {w} : entry'[v] = entry[v] /\ wpc'[v] = wpc[v]
    BY <1>0, <1>1 DEF ReadHead, auditVars, TypeOK
  <2>2. HashOf(log, PreviousHash(log), Len(log))
    BY <1>0, PreviousHashIs
  <2>3. HeadInv'
    BY <2>1, <2>2 DEF IInv, HeadInv, HashOf
  <2>4. ForkInv' /\ EditInv' /\ AuditInv' /\ ChainInv'
    BY <2>1 DEF IInv, ForkInv, EditInv, AuditInv, ChainInv, HashOf, OwnHash, Verifies
  <2> QED BY <2>3, <2>4
<1>2. ASSUME NEW w \in Writers, Insert(w) PROVE Goal
  BY <1>2, InsertKeeps
<1>3. ASSUME NEW w \in Writers, InsertFails(w) PROVE Goal
  <2>1. /\ UNCHANGED <<log, edits, entry, apc, checked, count, stale>>
        /\ \A v \in Writers : wpc'[v] = "insert" => wpc[v] = "insert"
    BY <1>0, <1>3 DEF InsertFails, auditVars, TypeOK
  <2> QED BY <2>1 DEF IInv, HeadInv, ForkInv, EditInv, AuditInv, ChainInv, HashOf,
                      OwnHash, Verifies
<1>4. ASSUME NEW a \in Auditors, Verify(a) \/ Count(a) PROVE Goal
  <2>1. UNCHANGED <<log, edits, entry, wpc, stale>>
    BY <1>4 DEF Verify, Count
  <2>2. HeadInv' /\ ForkInv' /\ EditInv' /\ ChainInv'
    BY <2>1 DEF IInv, HeadInv, ForkInv, EditInv, ChainInv, HashOf, OwnHash, Verifies
  <2>3. AuditInv'
    <3>1. CASE Verify(a)
      <4>1. /\ apc'[a] = IF Verifies(log) THEN "count" ELSE "broken"
            /\ checked'[a] = Len(log) /\ count' = count
            /\ \A b \in Auditors \ {a} : apc'[b] = apc[b] /\ checked'[b] = checked[b]
        BY <1>0, <3>1 DEF Verify, TypeOK
      <4> QED BY <1>0, <2>1, <4>1 DEF IInv, AuditInv, ChainInv
    <3>2. CASE Count(a)
      <4>1. /\ apc[a] = "count" /\ apc'[a] = "ok" /\ count'[a] = Len(log)
            /\ checked' = checked
            /\ \A b \in Auditors \ {a} : apc'[b] = apc[b] /\ count'[b] = count[b]
        BY <1>0, <3>2 DEF Count, TypeOK
      <4> QED BY <1>0, <2>1, <4>1 DEF IInv, AuditInv
    <3> QED BY <1>4, <3>1, <3>2
  <2> QED BY <2>2, <2>3
<1>5. ASSUME Edit PROVE Goal
  <2>0. edits' = edits + 1
    BY <1>5, Zenon DEF Edit
  <2>1. HeadInv' /\ ForkInv' /\ AuditInv' /\ ChainInv'
    BY <1>0, <2>0 DEF HeadInv, ForkInv, AuditInv, ChainInv
  <2>2. EditInv'
    <3> SUFFICES ASSUME edits = 0 PROVE \E i \in 1..Len(log') : ~OwnHash(log'[i])
      BY <1>0, <2>0 DEF EditInv
    <3>1. PICK i \in 1..Len(log), c \in Contents, rec \in Record :
            /\ log' = [log EXCEPT ![i] = rec]
            /\ \/ c # log[i].content
                  /\ rec = [content |-> c, prev |-> log[i].prev, this |-> log[i].this]
               \/ rec = [content |-> log[i].content, prev |-> Append(log[i].prev, c),
                         this |-> log[i].this]
               \/ rec = [content |-> log[i].content, prev |-> log[i].prev,
                         this |-> Append(log[i].this, c)]
      <4>1. PICK i \in 1..Len(log), c \in Contents :
              \/ c # log[i].content /\ log' = [log EXCEPT ![i].content = c]
              \/ log' = [log EXCEPT ![i].prev = Append(@, c)]
              \/ log' = [log EXCEPT ![i].this = Append(@, c)]
        BY <1>5 DEF Edit
      <4>2. log[i] \in Record
        BY <1>0, ElementOfSeq
      <4>3. /\ Append(log[i].prev, c) \in Seq(Contents)
            /\ Append(log[i].this, c) \in Seq(Contents)
        BY <4>2, AppendProperties DEF Record
      <4>4. /\ [content |-> c, prev |-> log[i].prev, this |-> log[i].this] \in Record
            /\ [content |-> log[i].content, prev |-> Append(log[i].prev, c),
                this |-> log[i].this] \in Record
            /\ [content |-> log[i].content, prev |-> log[i].prev,
                this |-> Append(log[i].this, c)] \in Record
        BY <4>2, <4>3 DEF Record
      <4>5. \/ log' = [log EXCEPT ![i] = [log[i] EXCEPT !.content = c]] /\ c # log[i].content
            \/ log' = [log EXCEPT ![i] = [log[i] EXCEPT !.prev = Append(log[i].prev, c)]]
            \/ log' = [log EXCEPT ![i] = [log[i] EXCEPT !.this = Append(log[i].this, c)]]
        BY <4>1
      <4> DEFINE r1 == [content |-> c, prev |-> log[i].prev, this |-> log[i].this]
                 r2 == [content |-> log[i].content, prev |-> Append(log[i].prev, c),
                        this |-> log[i].this]
                 r3 == [content |-> log[i].content, prev |-> log[i].prev,
                        this |-> Append(log[i].this, c)]
      <4>6. \/ log' = [log EXCEPT ![i] = r1] /\ c # log[i].content
            \/ log' = [log EXCEPT ![i] = r2]
            \/ log' = [log EXCEPT ![i] = r3]
        BY <4>2, <4>5, EditedRecord
      <4>7. r1 \in Record /\ r2 \in Record /\ r3 \in Record
        BY <4>4
      <4> QED BY <4>6, <4>7, Zenon
    <3>2. log[i] \in Record /\ OwnHash(log[i])
      BY <1>0, ElementOfSeq DEF IInv, ForkInv
    <3>3. ~OwnHash(rec)
      BY <3>1, <3>2, EditBreaksHash
    <3>4. Len(log') = Len(log) /\ log'[i] = rec
      BY <1>0, <3>1, ExceptSeq
    <3> QED BY <3>3, <3>4
  <2> QED BY <2>1, <2>2
<1>6. ASSUME UNCHANGED vars PROVE Goal
  BY <1>6 DEF vars, auditVars, IInv, HeadInv, ForkInv, EditInv, AuditInv, ChainInv, HashOf,
              OwnHash, Verifies
<1> HIDE DEF Goal
<1>7. Goal
  BY <1>1, <1>2, <1>3, <1>4, <1>5, <1>6 DEF Next
<1> QED BY <1>7, TypeStep DEF Goal, IInv

LEMMA Invariant == Spec => []IInv
BY InvInit, InvStep, PTL DEF Spec

(* The theorems.                                                           *)

\* Overlapping appends never lose an entry: each extends an earlier one.
THEOREM ForksKeepEntries == Spec => []ForkKeepsEntries
<1>1. IInv => ForkKeepsEntries
  BY DEF IInv, ForkInv, OwnHash, HashOf, ForkKeepsEntries
<1> QED BY <1>1, Invariant, PTL

\* Appends that do not overlap verify, in every audit too.
THEOREM SequentialVerify == Spec => []SequentialAppendsVerify
<1>1. IInv => SequentialAppendsVerify
  BY DEF IInv, AuditInv, ChainInv, SequentialAppendsVerify
<1> QED BY <1>1, Invariant, PTL

\* One changed column is found by every later verification.
THEOREM EditFound == Spec => []EditDetected
<1>1. IInv => EditDetected
  <2> SUFFICES ASSUME EditInv, edits = 1, Verifies(log) PROVE FALSE
    BY DEF IInv, EditDetected
  <2>1. PICK i \in 1..Len(log) : ~OwnHash(log[i])
    BY DEF EditInv
  <2> QED BY <2>1 DEF Verifies, OwnHash
<1> QED BY <1>1, Invariant, PTL
=============================================================================
