------------------------------ MODULE AuditLog ------------------------------
(***************************************************************************)
(* The hash-chained audit log: AuditLogRepository.append and verify        *)
(* (services/audit/db.py), AuditChain (chain.py), the audit_verify command *)
(* (cli.py) and AuditClient.log, which opens a connection per call, so     *)
(* that several processes append to one SQLite file.                       *)
(*                                                                         *)
(* append reads the last hash and inserts in two statements without a      *)
(* transaction around them: another append can commit in between.  The     *)
(* INSERT and its COMMIT are one step, since SQLite lets no other writer   *)
(* in and shows readers the old rows until the COMMIT.                     *)
(*                                                                         *)
(* A hash is the list of the contents it covers, which is what a hash      *)
(* without collisions stands for; the timestamp, actor, action and payload *)
(* of an entry, made canonical by the code, are one content.               *)
(*                                                                         *)
(* A definition followed by another of the same shape that nothing uses    *)
(* (PreviousHashFirst, InsertOver, VerifiesLinksOnly, ...) is a            *)
(* plausible mistake; the README says which property finds it.             *)
(***************************************************************************)
EXTENDS Naturals, Sequences

CONSTANTS
  Writers,    \* processes that append
  Auditors,   \* processes that run audit_verify
  Contents,   \* what an entry can say
  MaxRecords, \* bound on the appends started
  MaxEdits    \* bound on rows changed behind the repository's back

ASSUME BoundsAssumption ==
  /\ MaxRecords \in Nat /\ MaxEdits \in Nat
  /\ Contents # {}

VARIABLES
  log,      \* the rows of audit_log, in the order of their ids
  wpc,      \* "idle" | "insert"
  entry,    \* the content a writer is appending and the hash it read
  started,  \* appends started
  apc,      \* "idle" | "count" | "ok" | "broken"
  checked,  \* how many rows an auditor's verification covered
  count,    \* how many rows the auditor's message speaks of
  edits,    \* rows changed by somebody else
  stale     \* some append inserted after another had moved the head

auditVars == <<apc, checked, count>>
vars == <<log, wpc, entry, started, auditVars, edits, stale>>

-----------------------------------------------------------------------------
Genesis == <<>>
ComputeHash(prev, content) == Append(prev, content)

\* _previous_hash: the hash of the row with the greatest id.
PreviousHashFirst(rows) == IF rows = <<>> THEN Genesis ELSE rows[1].this
PreviousHash(rows)      == IF rows = <<>> THEN Genesis ELSE rows[Len(rows)].this

\* AuditChain.verify.
VerifiesLinksOnly(rows) ==
  \A i \in 1..Len(rows) : rows[i].prev = IF i = 1 THEN Genesis ELSE rows[i - 1].this
Verifies(rows) ==
  \A i \in 1..Len(rows) :
    LET prev == IF i = 1 THEN Genesis ELSE rows[i - 1].this IN
    /\ rows[i].prev = prev
    /\ rows[i].this = ComputeHash(prev, rows[i].content)

Init ==
  /\ log = <<>>
  /\ wpc = [w \in Writers |-> "idle"]
  /\ entry = [w \in Writers |-> [content |-> CHOOSE c \in Contents : TRUE, head |-> Genesis]]
  /\ started = 0
  /\ apc = [a \in Auditors |-> "idle"]
  /\ checked = [a \in Auditors |-> 0] /\ count = [a \in Auditors |-> 0]
  /\ edits = 0 /\ stale = FALSE

\* append up to the SELECT of the last hash.
ReadHead(w) ==
  /\ wpc[w] = "idle" /\ started < MaxRecords
  /\ \E content \in Contents :
       entry' = [entry EXCEPT ![w] = [content |-> content, head |-> PreviousHash(log)]]
  /\ wpc' = [wpc EXCEPT ![w] = "insert"]
  /\ started' = started + 1
  /\ UNCHANGED <<log, auditVars, edits, stale>>

\* The INSERT and its COMMIT.
InsertOver(w) ==
  /\ wpc[w] = "insert"
  /\ log' = Append(log, [content |-> entry[w].content, prev |-> PreviousHash(log),
                         this |-> ComputeHash(entry[w].head, entry[w].content)])
  /\ stale' = (stale \/ entry[w].head # PreviousHash(log))
  /\ wpc' = [wpc EXCEPT ![w] = "idle"]
  /\ UNCHANGED <<entry, started, auditVars, edits>>

Insert(w) ==
  /\ wpc[w] = "insert"
  /\ log' = Append(log, [content |-> entry[w].content, prev |-> entry[w].head,
                         this |-> ComputeHash(entry[w].head, entry[w].content)])
  /\ stale' = (stale \/ entry[w].head # PreviousHash(log))
  /\ wpc' = [wpc EXCEPT ![w] = "idle"]
  /\ UNCHANGED <<entry, started, auditVars, edits>>

\* The INSERT or COMMIT raises (disk, busy timeout): nothing is stored.
InsertFails(w) ==
  /\ wpc[w] = "insert"
  /\ wpc' = [wpc EXCEPT ![w] = "idle"]
  /\ UNCHANGED <<log, entry, started, auditVars, edits, stale>>

\* audit_verify: fetch all rows and verify them, then count in a query of its
\* own, then print.
Verify(a) ==
  /\ apc[a] = "idle"
  /\ checked' = [checked EXCEPT ![a] = Len(log)]
  /\ apc' = [apc EXCEPT ![a] = IF Verifies(log) THEN "count" ELSE "broken"]
  /\ UNCHANGED <<log, wpc, entry, started, count, edits, stale>>

Count(a) ==
  /\ apc[a] = "count"
  /\ count' = [count EXCEPT ![a] = Len(log)]
  /\ apc' = [apc EXCEPT ![a] = "ok"]
  /\ UNCHANGED <<log, wpc, entry, started, checked, edits, stale>>

\* Somebody changes one column of one row with SQL, as the tests do.
Edit ==
  /\ edits < MaxEdits
  /\ \E i \in 1..Len(log), content \in Contents :
       \/ /\ content # log[i].content
          /\ log' = [log EXCEPT ![i].content = content]
       \/ log' = [log EXCEPT ![i].prev = Append(@, content)]
       \/ log' = [log EXCEPT ![i].this = Append(@, content)]
  /\ edits' = edits + 1
  /\ UNCHANGED <<wpc, entry, started, auditVars, stale>>

Next ==
  \/ \E w \in Writers : ReadHead(w) \/ Insert(w) \/ InsertFails(w)
  \/ \E a \in Auditors : Verify(a) \/ Count(a)
  \/ Edit

Spec == Init /\ [][Next]_vars

-----------------------------------------------------------------------------
(* Properties.                                                             *)

\* Every variable has its type.
TypeOK ==
  /\ log \in Seq([content : Contents, prev : Seq(Contents), this : Seq(Contents)])
  /\ wpc \in [Writers -> {"idle", "insert"}]
  /\ entry \in [Writers -> [content : Contents, head : Seq(Contents)]]
  /\ apc \in [Auditors -> {"idle", "count", "ok", "broken"}]
  /\ checked \in [Auditors -> Nat] /\ count \in [Auditors -> Nat]
  /\ started \in 0..MaxRecords /\ edits \in 0..MaxEdits /\ stale \in BOOLEAN

\* Entries that reached the log through append one after the other verify, in every
\* audit that has run too, and its message counts at least the rows it verified; only
\* an append that overlapped another's, or an edit, can make verify raise.
SequentialAppendsVerify ==
  edits = 0 /\ ~stale =>
    /\ Verifies(log)
    /\ \A a \in Auditors : apc[a] # "broken" /\ (apc[a] = "ok" => checked[a] <= count[a])

\* Without edits, overlapping appends fork the chain but lose nothing: each
\* entry extends an earlier one (or the genesis) and its own hash is right.
ForkKeepsEntries ==
  edits = 0 =>
    \A i \in 1..Len(log) :
      /\ log[i].this = ComputeHash(log[i].prev, log[i].content)
      /\ \E j \in 0..(i - 1) :
           log[i].prev = IF j = 0 THEN Genesis ELSE log[j].this

\* One changed column of one row is found, however many appends follow it, and
\* whether or not the chain had forked before.
EditDetected == edits = 1 => ~Verifies(log)

\* test_repository_append_and_verify: a log that only append has written
\* verifies.
AppendedLogVerifies == edits = 0 => Verifies(log)
=============================================================================
