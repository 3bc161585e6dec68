---------------------------- MODULE QboInvoices ----------------------------
(***************************************************************************)
(* The QuickBooks connector (services/connectors/qbo): the webhook, its    *)
(* background tasks, QBOClient and QBOOAuthClient on one event loop.       *)
(*                                                                         *)
(* Every webhook makes a client, an OAuth client and a token store of its  *)
(* own, which the tasks of its invoices share.  A step runs from one       *)
(* answered HTTP call to the next call.                                    *)
(*                                                                         *)
(* QuickBooks is external: an invoice changes, a webhook names a set of    *)
(* changed invoices, a call fails.  handle_webhook always starts with an   *)
(* empty token store; Authorized says that it holds tokens, as it would    *)
(* after exchange_code.  Amounts, names and formats are left out.          *)
(*                                                                         *)
(* A definition followed by another of the same shape that nothing uses    *)
(* (FetchCached, InfoIgnored, ...) is a plausible mistake; the README says *)
(* which property finds it.                                                *)
(***************************************************************************)
EXTENDS Naturals, Sequences, Functions

CONSTANTS
  Hooks, Invoices,
  Authorized, \* the token store of a webhook holds tokens
  MaxChanges, \* bound on the versions of all invoices together
  MaxFaults   \* bound on failed calls, expired tokens and crashes

ASSUME BoundAssumption ==
  Authorized \in BOOLEAN /\ MaxChanges \in Nat /\ MaxFaults \in Nat

VARIABLES
  history,  \* the kinds of invoice the versions of each invoice were, in QuickBooks
  told,     \* the newest version a delivered webhook speaks of
  hook,     \* what each webhook was answered
  token,    \* the token in its store
  currency, \* QBOClient._company_currency
  pc,       \* where the task of each webhook and invoice is
  seen,     \* the version it fetched
  emitted,  \* the versions emitted as ExposureCreated
  faults

clientVars == <<token, currency>>
vars == <<history, told, hook, clientVars, pc, seen, emitted, faults>>

Tasks == Hooks \X Invoices
Kinds == {"foreign", "home", "undated", "deleted"}

Version(i) == Len(history[i])
Is(i, kind) == Version(i) > 0 /\ history[i][Version(i)] = kind

Ended == {"skipped", "emitted", "logged", "raised", "lost"}
PC == Ended \cup {"none", "token", "refresh", "get", "refreshInfo", "info"}

Goto(t, label) == pc' = [pc EXCEPT ![t] = label]

Fault == faults < MaxFaults /\ faults' = faults + 1

-----------------------------------------------------------------------------
Init ==
  /\ history = [i \in Invoices |-> <<>>] /\ told = [i \in Invoices |-> 0]
  /\ hook = [w \in Hooks |-> "none"]
  /\ token = [w \in Hooks |-> IF Authorized THEN "fresh" ELSE "none"]
  /\ currency = [w \in Hooks |-> FALSE]
  /\ pc = [t \in Tasks |-> "none"] /\ seen = [t \in Tasks |-> 0]
  /\ emitted = [i \in Invoices |-> {}]
  /\ faults = 0

\* An invoice is created, updated or deleted in QuickBooks.
Change(i) ==
  /\ FoldFunction(+, 0, [j \in Invoices |-> Version(j)]) < MaxChanges
  /\ \E kind \in Kinds : history' = [history EXCEPT ![i] = Append(@, kind)]
  /\ UNCHANGED <<told, hook, clientVars, pc, seen, emitted, faults>>

\* The signature is wrong, or the body is not JSON.
Refuse(w) ==
  /\ hook[w] = "none"
  /\ hook' = [hook EXCEPT ![w] = "refused"]
  /\ UNCHANGED <<history, told, clientVars, pc, seen, emitted, faults>>

\* _iter_invoice_events keeps what was created or updated; the tasks start when the
\* answer is on its way.
Accept(w) ==
  /\ hook[w] = "none"
  /\ \E named \in SUBSET {i \in Invoices : Version(i) > 0} :
       LET kept == {i \in named : ~Is(i, "deleted")}
       IN /\ hook' = [hook EXCEPT ![w] = IF kept = {} THEN "ignored" ELSE "accepted"]
          /\ pc' = [t \in Tasks |-> IF t[1] = w /\ t[2] \in kept THEN "token" ELSE pc[t]]
          /\ told' = [i \in Invoices |-> IF i \in kept THEN Version(i) ELSE told[i]]
  /\ UNCHANGED <<history, clientVars, seen, emitted, faults>>

\* Tokens come within a minute of their expiry.
Expire(w) ==
  /\ token[w] = "fresh" /\ Fault
  /\ token' = [token EXCEPT ![w] = "old"]
  /\ UNCHANGED <<history, told, hook, currency, pc, seen, emitted>>

\* get_access_token: nothing stored, refresh first, or call at once.
NeedsRefresh(w) == token[w] = "old"

\* get_invoice catches what goes wrong with the token.
Ask(t) ==
  /\ pc[t] = "token"
  /\ Goto(t, IF token[t[1]] = "none" THEN "logged"
             ELSE IF NeedsRefresh(t[1]) THEN "refresh" ELSE "get")
  /\ UNCHANGED <<history, told, hook, clientVars, seen, emitted, faults>>

Refreshed(t) ==
  /\ pc[t] \in {"refresh", "refreshInfo"}
  /\ token' = [token EXCEPT ![t[1]] = "fresh"]
  /\ Goto(t, IF pc[t] = "refresh" THEN "get" ELSE "info")
  /\ UNCHANGED <<history, told, hook, currency, seen, emitted, faults>>

\* The version of the invoice that QuickBooks answers with.
FetchCached(t) ==
  IF \E w \in Hooks : seen[<<w, t[2]>>] > 0
  THEN seen[<<CHOOSE w \in Hooks : seen[<<w, t[2]>>] > 0, t[2]>>]
  ELSE Version(t[2])
Fetch(t) == Version(t[2])

\* What becomes of a fetched version once the home currency is known.
DecideOnce(t, v) ==
  IF history[t[2]][v] = "foreign" /\ emitted[t[2]] = {}
  THEN /\ emitted' = [emitted EXCEPT ![t[2]] = {v}]
       /\ Goto(t, "emitted")
  ELSE emitted' = emitted /\ Goto(t, "skipped")

Decide(t, v) ==
  IF history[t[2]][v] = "foreign"
  THEN /\ emitted' = [emitted EXCEPT ![t[2]] = @ \cup {v}]
       /\ Goto(t, "emitted")
  ELSE emitted' = emitted /\ Goto(t, "skipped")

\* get_invoice returns and get_company_currency follows: cached, or a call of its own.
Got(t) ==
  /\ pc[t] = "get" /\ ~Is(t[2], "deleted")
  /\ seen' = [seen EXCEPT ![t] = Fetch(t)]
  /\ IF currency[t[1]]
     THEN Decide(t, Fetch(t))
     ELSE /\ Goto(t, IF NeedsRefresh(t[1]) THEN "refreshInfo" ELSE "info")
          /\ UNCHANGED emitted
  /\ UNCHANGED <<history, told, hook, clientVars, faults>>

\* 404
Gone(t) ==
  /\ pc[t] = "get" /\ Is(t[2], "deleted")
  /\ Goto(t, "skipped")
  /\ UNCHANGED <<history, told, hook, clientVars, seen, emitted, faults>>

\* Any other failure up to here is logged and ends the task.
GetRaises(t) ==
  /\ pc[t] \in {"refresh", "get"} /\ Fault
  /\ Goto(t, "logged")
  /\ UNCHANGED <<history, told, hook, clientVars, seen, emitted>>

InfoReturns(t) ==
  /\ pc[t] = "info"
  /\ currency' = [currency EXCEPT ![t[1]] = TRUE]
  /\ Decide(t, seen[t])
  /\ UNCHANGED <<history, told, hook, token, seen, faults>>

\* get_company_currency raises and the home currency is taken for unknown.
InfoIgnored(t) ==
  /\ pc[t] \in {"refreshInfo", "info"} /\ Fault
  /\ IF history[t[2]][seen[t]] = "undated"
     THEN emitted' = emitted /\ Goto(t, "skipped")
     ELSE emitted' = [emitted EXCEPT ![t[2]] = @ \cup {seen[t]}] /\ Goto(t, "emitted")
  /\ UNCHANGED <<history, told, hook, clientVars, seen>>

\* get_company_currency raises; gather passes the exception on; the other tasks of the webhook keep running.
InfoRaises(t) ==
  /\ pc[t] \in {"refreshInfo", "info"} /\ Fault
  /\ Goto(t, "raised")
  /\ UNCHANGED <<history, told, hook, clientVars, seen, emitted>>

\* The process dies; nothing remembers the webhooks it accepted.
Crash ==
  /\ Fault
  /\ pc' = [t \in Tasks |-> IF pc[t] \in Ended \cup {"none"} THEN pc[t] ELSE "lost"]
  /\ UNCHANGED <<history, told, hook, clientVars, seen, emitted>>

TaskStep(t) ==
  \/ Ask(t) \/ Refreshed(t) \/ Got(t) \/ Gone(t) \/ GetRaises(t)
  \/ InfoReturns(t) \/ InfoRaises(t)

Next ==
  \/ Crash
  \/ \E i \in Invoices : Change(i)
  \/ \E w \in Hooks : Refuse(w) \/ Accept(w) \/ Expire(w)
  \/ \E t \in Tasks : TaskStep(t)

Spec == Init /\ [][Next]_vars

\* The event loop runs the tasks, and every HTTP call ends within http_timeout.
FairSpec == Spec /\ \A t \in Tasks : WF_vars(TaskStep(t))

-----------------------------------------------------------------------------
(* Properties.                                                             *)

\* Every variable has its type; what was fetched or emitted was once in QuickBooks.
TypeOK ==
  /\ \A i \in Invoices :
       /\ history[i] \in Seq(Kinds) /\ Version(i) <= MaxChanges
       /\ told[i] \in 0..Version(i)
       /\ emitted[i] \subseteq 1..Version(i)
  /\ hook \in [Hooks -> {"none", "refused", "ignored", "accepted"}]
  /\ token \in [Hooks -> {"none", "fresh", "old"}] /\ currency \in [Hooks -> BOOLEAN]
  /\ pc \in [Tasks -> PC]
  /\ \A t \in Tasks : seen[t] \in 0..Version(t[2])
  /\ faults \in 0..MaxFaults

\* Whatever order the tasks of several webhooks run in, and whatever happens to other
\* invoices of the same webhook: when every task of an invoice has ended and none
\* failed, the newest version a webhook spoke of has been emitted if it is one to
\* emit, unless the invoice has changed since.
NewestEmitted ==
  \A i \in Invoices :
    (/\ \A w \in Hooks : pc[<<w, i>>] \in {"none", "skipped", "emitted"}
     /\ told[i] = Version(i) /\ Is(i, "foreign"))
    => told[i] \in emitted[i]

\* Only versions in a foreign currency with a due date are emitted, also when the home
\* currency cannot be had.
OnlyForeignEmitted ==
  \A i \in Invoices : \A v \in emitted[i] : history[i][v] = "foreign"

\* docs/connectors/QBO.md: an ExposureCreated event for every foreign-currency invoice
\* with a due date that an accepted webhook names, in that version or a later one, when
\* no call fails, no token expires and the invoice stays one to emit.
EveryForeignEmitted ==
  \A w \in Hooks, i \in Invoices, v \in 1..MaxChanges :
    (pc[<<w, i>>] = "token" /\ Is(i, "foreign") /\ Version(i) = v)
      ~> (faults > 0 \/ ~Is(i, "foreign") \/ \E u \in emitted[i] : u >= v)
=============================================================================
