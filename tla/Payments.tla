------------------------------ MODULE Payments ------------------------------
(***************************************************************************)
(* What paying an invoice promises to clients, without saying how invoices *)
(* are asked for, waited for and tried path by path: a call holds at most  *)
(* one invoice, an invoice is paid at most once whoever tries, a call that *)
(* reports a payment has one, and a call that reports a failure has moved  *)
(* no money and never will.                                                *)
(***************************************************************************)
CONSTANTS Calls, Invoices, NoInvoice, Nobody

VARIABLES
    held,    \* the invoice of a call
    ledger,  \* the state of an invoice's payment
    by,      \* the call that made the last attempt to pay it
    report   \* what a call has told its client: open, paid, unpaid or unknown

vars == <<held, ledger, by, report>>

Init ==
    /\ held = [c \in Calls |-> NoInvoice]
    /\ ledger = [i \in Invoices |-> "none"]
    /\ by = [i \in Invoices |-> Nobody]
    /\ report = [c \in Calls |-> "open"]

Hold(c, i) ==
    /\ report[c] = "open"
    /\ held[c] = NoInvoice
    /\ held' = [held EXCEPT ![c] = i]
    /\ UNCHANGED <<ledger, by, report>>

\* Only a call that is under way pays, and only what is not being paid or paid.
Attempt(c, i) ==
    /\ report[c] = "open"
    /\ held[c] = i
    /\ ledger[i] \in {"none", "failed"}
    /\ ledger' = [ledger EXCEPT ![i] = "inflight"]
    /\ by' = [by EXCEPT ![i] = c]
    /\ UNCHANGED <<held, report>>

Resolve(i, outcome) ==
    /\ ledger[i] = "inflight"
    /\ ledger' = [ledger EXCEPT ![i] = outcome]
    /\ UNCHANGED <<held, by, report>>

ReportPaid(c, i) ==
    /\ report[c] = "open"
    /\ held[c] = i
    /\ ledger[i] = "succeeded"
    /\ report' = [report EXCEPT ![c] = "paid"]
    /\ UNCHANGED <<held, ledger, by>>

\* Has c paid for i, or may it still turn out to have?
Owes(c, i) == by[i] = c /\ ledger[i] \in {"inflight", "succeeded"}

ReportUnpaid(c) ==
    /\ report[c] = "open"
    /\ \A i \in Invoices : ~Owes(c, i)
    /\ report' = [report EXCEPT ![c] = "unpaid"]
    /\ UNCHANGED <<held, ledger, by>>

\* The clients of S learn nothing they can rely on: the process or the client has
\* gone away, or the connection to LND was lost while a payment was under way.
LoseTouch(S) ==
    /\ \A c \in S : report[c] = "open"
    /\ report' = [c \in Calls |-> IF c \in S THEN "unknown" ELSE report[c]]
    /\ UNCHANGED <<held, ledger, by>>

Next ==
    \/ \E c \in Calls, i \in Invoices : Hold(c, i) \/ Attempt(c, i) \/ ReportPaid(c, i)
    \/ \E c \in Calls : ReportUnpaid(c)
    \/ \E i \in Invoices, o \in {"succeeded", "failed"} : Resolve(i, o)
    \/ \E S \in SUBSET Calls : LoseTouch(S)

Spec == Init /\ [][Next]_vars
=============================================================================
