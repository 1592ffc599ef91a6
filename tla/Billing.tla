------------------------------ MODULE Billing ------------------------------
(***************************************************************************)
(* UsageLedger of services/billing/src/ledger.ts: usage, price plans,      *)
(* invoices and adjustments.  Every method runs without an await; what is  *)
(* hard is the order of the calls: usage that is sent twice or comes late, *)
(* plans that change, invoices that are voided, corrections sent again.    *)
(*                                                                         *)
(* An account is a tenant and a month, of one metric.  Quantities are in   *)
(* halves of a unit, so that amounts are rounded.                          *)
(***************************************************************************)
EXTENDS Integers, Sequences, FiniteSets, FiniteSetsExt

CONSTANTS
    UsageIds,        \* usageRecordId
    UsageKeys,       \* dedupeKey of usage
    Accounts,
    Halves,          \* quantities
    Prices,          \* overage prices, in fen
    Plans,
    Months,          \* effectiveFrom
    ProviderTotals,  \* what a provider says an invoice should come to
    CorrectionKeys   \* dedupeKey of adjustments

ASSUME BillingAssumption ==
    /\ Halves \subseteq Nat /\ Prices \subseteq Nat /\ ProviderTotals \subseteq Nat
    /\ IsFiniteSet(UsageKeys) /\ IsFiniteSet(Accounts)

VARIABLES
    records,         \* what is stored under each usageRecordId
    recordedKeys,    \* the dedupe keys that were seen
    plans,           \* the plans, by id
    invoices,        \* in the order in which they were made
    adjustments,     \* by dedupe key
    usage,           \* history: what was recorded under each dedupe key
    excused          \* history: keys whose usage came after its invoice, or was
                     \* replaced under its id before: the invoice may lack it

billingVars == <<records, recordedKeys, plans, invoices, adjustments, usage, excused>>

Missing == {}        \* nothing is stored: a set, where there would be a record
UsageRecord == [key : UsageKeys, account : Accounts, halves : Halves]
InvoiceStatuses == {"draft", "issued", "paid", "void"}

BillingInit ==
    /\ records = [u \in UsageIds |-> Missing]
    /\ recordedKeys = {}
    /\ plans = [p \in Plans |-> Missing]
    /\ invoices = <<>>
    /\ adjustments = {}
    /\ usage = {}
    /\ excused = {}

-----------------------------------------------------------------------------
(* Plans and usage. *)

\* A plan may be replaced by one with other prices that is as old.
AddPlan(p, month, price) ==
    /\ plans[p] = Missing \/ \E old \in plans[p] : old.from = month
    /\ plans' = [plans EXCEPT ![p] = {[from |-> month, price |-> price]}]
    /\ UNCHANGED <<records, recordedKeys, invoices, adjustments, usage, excused>>

\* The invoice of a tenant and a month, in whatever status.
InvoicesOf(account) == {n \in 1 .. Len(invoices) : invoices[n].account = account}

\* Mutation: usage is known by its id.
FirstOfId(id, key) == records[id] = Missing

\* Usage with a key that was seen is answered with what was stored then.
FirstOfKey(id, key) == key \notin recordedKeys

RecordUsage(id, r) ==
    /\ FirstOfKey(id, r.key)
    /\ records' = [records EXCEPT ![id] = {r}]
    /\ recordedKeys' = recordedKeys \cup {r.key}
    /\ usage' = usage \cup {r}
    /\ excused' = excused
        \cup {old.key : old \in {o \in records[id] : InvoicesOf(o.account) = {}}}
        \cup {k \in {r.key} : InvoicesOf(r.account) # {}}
    /\ UNCHANGED <<plans, invoices, adjustments>>

-----------------------------------------------------------------------------
(* Invoices. *)

\* Math.round of quantity * price; a metric without a price costs nothing.
Amount(halves, price) == (halves * price + 1) \div 2

\* A line for each record that is stored; id and key say which it is made from.
Line(id, r, price) == [id |-> id, key |-> r.key, amount |-> Amount(r.halves, price)]

Lines(account, price) ==
    UNION {{Line(id, r, price) : r \in {o \in records[id] : o.account = account}} : id \in UsageIds}

Total(lines) == MapThenSumSet(LAMBDA line : line.amount, lines)

\* The account's invoice is returned if there is one, void or not; or one is
\* made from what is recorded now.
IssueInvoice(account, p) ==
    /\ InvoicesOf(account) = {}
    /\ \E plan \in plans[p] :
        LET lines == Lines(account, plan.price)
        IN  invoices' = Append(invoices, [account |-> account, status |-> "draft",
                                          lines |-> lines, total |-> Total(lines)])
    /\ UNCHANGED <<records, recordedKeys, plans, adjustments, usage, excused>>

TransitionInvoice(n, from, to) ==
    /\ invoices[n].status \in from
    /\ invoices' = [invoices EXCEPT ![n].status = to]
    /\ UNCHANGED <<records, recordedKeys, plans, adjustments, usage, excused>>

Issue(n) == TransitionInvoice(n, {"draft"}, "issued")
MarkPaid(n) == TransitionInvoice(n, {"issued"}, "paid")
Void(n) == TransitionInvoice(n, {"draft", "issued"}, "void")

\* reconcile and createAdjustment, of an invoice in whatever status.  A key
\* that was used is answered with its adjustment, whichever invoice that is of.
CreateAdjustment(n, providerTotal, key) ==
    LET delta == providerTotal - invoices[n].total
    IN  /\ delta # 0
        /\ \A a \in adjustments : a.key # key
        /\ adjustments' = adjustments \cup
            {[key |-> key, invoice |-> n, kind |-> IF delta > 0 THEN "debit" ELSE "credit",
              amount |-> IF delta > 0 THEN delta ELSE 0 - delta, correctsTo |-> providerTotal]}
        /\ UNCHANGED <<records, recordedKeys, plans, invoices, usage, excused>>

BillingNext ==
    \/ \E p \in Plans, month \in Months, price \in Prices : AddPlan(p, month, price)
    \/ \E id \in UsageIds, r \in UsageRecord : RecordUsage(id, r)
    \/ \E account \in Accounts, p \in Plans : IssueInvoice(account, p)
    \/ \E n \in 1 .. Len(invoices) :
        \/ Issue(n) \/ MarkPaid(n) \/ Void(n)
        \/ \E total \in ProviderTotals, key \in CorrectionKeys : CreateAdjustment(n, total, key)

BillingSpec == BillingInit /\ [][BillingNext]_billingVars

-----------------------------------------------------------------------------
(* Properties. *)

BillingTypeOK ==
    /\ \A u \in UsageIds : records[u] \subseteq UsageRecord /\ Cardinality(records[u]) <= 1
    /\ recordedKeys \subseteq UsageKeys
    /\ usage \subseteq UsageRecord /\ excused \subseteq UsageKeys
    /\ \A n \in 1 .. Len(invoices) :
        invoices[n].account \in Accounts /\ invoices[n].status \in InvoiceStatuses

\* What is asked to be paid: a voided invoice asks for nothing.
Standing == {n \in 1 .. Len(invoices) : invoices[n].status # "void"}

\* The lines that charge this usage, wherever they stand.
ChargedBy(r) ==
    UNION {{n} \X {line \in invoices[n].lines : line.key = r.key} : n \in Standing}

\* However often a usage was sent, and under whichever ids, it is charged once
\* at most, and only to its account, which has one standing invoice at most;
\* that one has a line for all the account's usage, unless the usage came after
\* it or its record was replaced before.  Nothing is charged that was not
\* recorded, and a correction is still what its invoice lacks (ledger.ts:51-127).
BilledOnce ==
    /\ BillingTypeOK
    /\ \A account \in Accounts : Cardinality(InvoicesOf(account) \cap Standing) <= 1
    /\ \A r \in usage :
        /\ Cardinality(ChargedBy(r)) <= 1
        /\ r.key \notin excused =>
            \A n \in InvoicesOf(r.account) \cap Standing : \E charge \in ChargedBy(r) : charge[1] = n
    /\ \A n \in 1 .. Len(invoices) : \A line \in invoices[n].lines :
        \E r \in usage : r.key = line.key /\ r.account = invoices[n].account
    /\ \A a, b \in adjustments : a.key = b.key => a = b
    /\ \A a \in adjustments :
        LET difference == a.correctsTo - invoices[a.invoice].total
        IN  a.amount = IF a.kind = "debit" THEN difference ELSE 0 - difference
=============================================================================
