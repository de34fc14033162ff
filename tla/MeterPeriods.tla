---------------------------- MODULE MeterPeriods ----------------------------
(***************************************************************************)
(* Usage metering: how one closed billing period of an account is reported  *)
(* to Stripe and signed off.  cmd/stoaramactl/recorder_metering.go and the  *)
(* calls of internal/billing/stripe.go it makes.                            *)
(*                                                                          *)
(* The bounds of the period are stored while it is open.  From 70 minutes   *)
(* after its end a sweep counts the usage, reserves a report per meter in   *)
(* an outbox table, sends one meter event for it, and on later sweeps       *)
(* compares Stripe's aggregate and the lines of the finalized invoice with  *)
(* the usage before the period is completed.  Requests fail, their answers  *)
(* are lost, the process dies, and during a deploy two control processes    *)
(* sweep at once.                                                           *)
(*                                                                          *)
(* Stripe is external: it aggregates events later than it accepts them,     *)
(* forgets the identifiers of old events, and finalizes the invoice when it *)
(* pleases.  Money is abstract: one unit of usage is one unit of charge.    *)
(***************************************************************************)
EXTENDS Naturals

CONSTANTS
  Procs,      \* control processes that sweep, more than one while a deploy overlaps
  Last,       \* the meters are 1..Last, in the order they are reported
  Stored,     \* the meter of stored footage, whose daily facts are frozen
  MaxUsage,   \* bound on the usage counted per meter
  MaxEdits,   \* bound on changes of the usage
  MaxFaults   \* bound on crashes and failed calls

Meters == 1..Last

ASSUME MeterAssumption ==
  /\ Last \in Nat
  /\ Stored \in Meters
  /\ MaxUsage \in Nat /\ MaxEdits \in Nat /\ MaxFaults \in Nat

NoUsage == [m \in Meters |-> 0]
Idle    == [at |-> "idle", meter |-> 0, value |-> NoUsage, lines |-> NoUsage]

VARIABLES
  clock,      \* where now is: period "open", "closed", "due" (+70 min), "late" (+34 days)
  row,        \* billing_meter_periods: "none", "seen" or "metered"
  amounts,    \* the amounts recorded on completion
  usage,      \* what counting the ledger returns now
  frozen,     \* the daily storage facts of the period are written
  report,     \* billing_meter_reports: status and expected value per meter
  accepted,   \* usage Stripe accepted per meter
  visible,    \* usage Stripe's aggregate shows per meter
  remembered, \* meters whose event identifier Stripe still refuses to take twice
  invoice,    \* state and lines of the invoice of the period
  proc,       \* progress of each control process
  edits,      \* changes of the usage so far
  faults      \* crashes and failed calls so far

stripeVars == <<accepted, visible, remembered, invoice>>
dbVars     == <<row, amounts, frozen, report>>
vars == <<clock, dbVars, usage, stripeVars, proc, edits, faults>>

Usage == [Meters -> Nat]

TypeOK ==
  /\ clock \in {"open", "closed", "due", "late"}
  /\ row \in {"none", "seen", "metered"}
  /\ amounts \in Usage /\ usage \in Usage /\ accepted \in Usage /\ visible \in Usage
  /\ frozen \in BOOLEAN
  /\ report \in [Meters -> [status : {"none", "pending", "reported"}, value : Nat]]
  /\ remembered \subseteq Meters
  /\ invoice \in [state : {"none", "draft", "closing", "final", "withdrawn"}, lines : Usage]
  /\ proc \in [Procs -> [at : {"idle", "counted", "reserve", "send", "verify"},
                         meter : Nat, value : Usage, lines : Usage]]
  /\ edits \in 0..MaxEdits /\ faults \in 0..MaxFaults

Init ==
  /\ clock = "open" /\ row = "none" /\ frozen = FALSE
  /\ amounts = NoUsage
  /\ usage \in [Meters -> 0..MaxUsage]
  /\ report = [m \in Meters |-> [status |-> "none", value |-> 0]]
  /\ accepted = NoUsage /\ visible = NoUsage
  /\ remembered = {}
  /\ invoice = [state |-> "none", lines |-> NoUsage]
  /\ proc = [p \in Procs |-> Idle]
  /\ edits = 0 /\ faults = 0

-----------------------------------------------------------------------------
(* Time, usage and Stripe *)

Advance(from, to) ==
  /\ clock = from
  /\ clock' = to
  /\ UNCHANGED <<dbVars, usage, stripeVars, proc, edits, faults>>

Close  == Advance("open", "closed")
Settle == Advance("closed", "due")
Lapse  == Advance("due", "late")

\* A clip delivered late, or an edited schedule (the view counts the hours inside
\* the recording's bounds of today), changes the count, of a closed period too.
\* Stored footage is counted from the daily facts once they are written.
EditUsage(m) ==
  /\ edits < MaxEdits
  /\ m = Stored => ~frozen
  /\ usage' = [usage EXCEPT ![m] = (@ + 1) % (MaxUsage + 1)]
  /\ edits' = edits + 1
  /\ UNCHANGED <<clock, dbVars, stripeVars, proc, faults>>

\* Aggregation is asynchronous.
Aggregate(m) ==
  /\ visible[m] # accepted[m]
  /\ visible' = [visible EXCEPT ![m] = accepted[m]]
  /\ UNCHANGED <<clock, dbVars, usage, accepted, remembered, invoice, proc, edits, faults>>

\* The deduplication window of an identifier is over.
Forget(m) ==
  /\ m \in remembered
  /\ remembered' = remembered \ {m}
  /\ UNCHANGED <<clock, dbVars, usage, accepted, visible, invoice, proc, edits, faults>>

\* A draft from the end of the period on; "closing" when less than 30 minutes of
\* draft are left; finalized with what is aggregated; withdrawn by hand.
InvoiceStep ==
  /\ clock # "open"
  /\ \/ invoice.state = "none" /\ invoice' = [invoice EXCEPT !.state = "draft"]
     \/ invoice.state = "draft" /\ invoice' = [invoice EXCEPT !.state = "closing"]
     \/ invoice.state = "closing" /\ invoice' = [state |-> "final", lines |-> visible]
     \/ invoice.state \in {"draft", "closing", "final"} /\ invoice' = [invoice EXCEPT !.state = "withdrawn"]
  /\ UNCHANGED <<clock, dbVars, usage, accepted, visible, remembered, proc, edits, faults>>

-----------------------------------------------------------------------------
(* The control process *)

\* discoverBillingPeriods: Stripe names the current period only.
Discover(p) ==
  /\ proc[p].at = "idle" /\ clock = "open" /\ row = "none"
  /\ row' = "seen"
  /\ UNCHANGED <<clock, amounts, frozen, report, usage, stripeVars, proc, edits, faults>>

\* The daily facts of stored footage are written where they are missing, and stay.
ReconstructDailyFacts == frozen' = TRUE

\* The sweep takes a due period up: it counts the hours, writes the missing daily
\* facts and reads them.
Count(p) ==
  /\ proc[p].at = "idle" /\ clock = "due" /\ row = "seen"
  /\ ReconstructDailyFacts
  /\ proc' = [proc EXCEPT ![p] = [Idle EXCEPT !.at = "counted", !.value = usage]]
  /\ UNCHANGED <<clock, row, amounts, report, usage, stripeVars, edits, faults>>

\* The only steps that change proc alone.
Local(p, state) ==
  /\ proc' = [proc EXCEPT ![p] = state]
  /\ UNCHANGED <<clock, dbVars, usage, stripeVars, edits, faults>>

\* What the invoice charges; only a finalized one has its lines summed.
InvoiceLines == IF invoice.state = "final" THEN invoice.lines ELSE NoUsage

\* The invoice decides: report while the draft has time left, verify once it is
\* finalized, else give up until the next sweep.
LookAtInvoice(p) ==
  /\ proc[p].at = "counted"
  /\ CASE invoice.state = "draft" -> Local(p, [proc[p] EXCEPT !.at = "reserve", !.meter = 1])
       [] invoice.state = "final" -> Local(p, [proc[p] EXCEPT !.at = "verify", !.meter = 1,
                                                              !.lines = InvoiceLines])
       [] OTHER -> Local(p, Idle)

\* The process after it is done with the current meter.
NextMeter(p) == IF proc[p].meter + 1 \in Meters THEN [proc[p] EXCEPT !.at = "reserve", !.meter = @ + 1]
                ELSE Idle

Value(p)  == proc[p].value[proc[p].meter]
Report(p) == report[proc[p].meter]

\* reconcilePendingMeterReport: the aggregate equals what this sweep counted.
Reconciles(p) == Report(p).status = "pending" /\ visible[proc[p].meter] = Value(p)

\* The report is marked reported, and the process goes on as given.
MarkReported(p, state) ==
  /\ report' = [report EXCEPT ![proc[p].meter].status = "reported"]
  /\ proc' = [proc EXCEPT ![p] = state]
  /\ UNCHANGED <<clock, row, amounts, frozen, usage, stripeVars, edits, faults>>

\* Mutant: a pending row is sent again.
SendsResend(p) == Report(p).status # "reported"

\* reserveMeterReport: only the process that inserted the row may send.
Sends(p) == Report(p).status = "none"

Reserve(p) ==
  LET m == proc[p].meter IN
  /\ proc[p].at = "reserve" /\ Value(p) > 0
  /\ Sends(p)
  /\ report' = [report EXCEPT ![m] = IF @.status = "none" THEN [status |-> "pending", value |-> Value(p)] ELSE @]
  /\ proc' = [proc EXCEPT ![p].at = "send"]
  /\ UNCHANGED <<clock, row, amounts, frozen, usage, stripeVars, edits, faults>>

\* The row exists: reported is left alone, pending is reconciled or given up.
Reserved(p) ==
  /\ proc[p].at = "reserve" /\ Value(p) > 0
  /\ ~Sends(p)
  /\ CASE Report(p).status = "reported" -> Local(p, NextMeter(p))
       [] Report(p).value = Value(p) /\ Reconciles(p) -> MarkReported(p, NextMeter(p))
       [] OTHER -> Local(p, Idle)

\* A meter without usage is not reported.
SkipMeter(p) ==
  /\ proc[p].at = "reserve" /\ Value(p) = 0
  /\ Local(p, NextMeter(p))

\* The meter event reaches Stripe, which ignores an identifier it remembers.  The
\* answer comes back, or is lost and the sweep gives up.
Send(p) ==
  LET m == proc[p].meter IN
  /\ proc[p].at = "send"
  /\ accepted' = IF m \in remembered THEN accepted ELSE [accepted EXCEPT ![m] = @ + Value(p)]
  /\ remembered' = remembered \cup {m}
  /\ \/ proc' = [proc EXCEPT ![p] = NextMeter(p)] /\ UNCHANGED faults
     \/ /\ faults < MaxFaults
        /\ faults' = faults + 1
        /\ proc' = [proc EXCEPT ![p] = Idle]
  /\ UNCHANGED <<clock, dbVars, usage, visible, invoice, edits>>

\* A call fails before it has an effect, or the process dies.
GiveUp(p) ==
  /\ proc[p].at # "idle" /\ faults < MaxFaults
  /\ proc' = [proc EXCEPT ![p] = Idle]
  /\ faults' = faults + 1
  /\ UNCHANGED <<clock, dbVars, usage, stripeVars, edits>>

-----------------------------------------------------------------------------
(* verifyFinalizedPeriod *)

\* The process after it verified the report of the current meter.
NextVerified(p) == [proc[p] EXCEPT !.meter = @ + 1]

\* Mutant: a report left pending by a lost answer is not reconciled any more.
SettlesReported(p) == Value(p) = 0 \/ Report(p).status = "reported"

\* requireVerifiedMeterReport: nothing to report, reported, or reconciled now.
Settles(p) == Value(p) = 0 \/ Report(p).status = "reported" \/ Reconciles(p)

VerifyReport(p) ==
  /\ proc[p].at = "verify" /\ proc[p].meter \in Meters
  /\ IF ~Settles(p) THEN Local(p, Idle)
     ELSE IF Value(p) > 0 /\ Report(p).status = "pending" THEN MarkReported(p, NextVerified(p))
     ELSE Local(p, NextVerified(p))

\* Mutant: verified aggregates are taken for the invoice.
InvoiceMatchesAggregate(p) == \A m \in Meters : visible[m] = proc[p].value[m]

\* The finalized lines charge exactly what this sweep counted.
InvoiceMatches(p) == proc[p].lines = proc[p].value

\* The transaction completes the period unless another process did.
Complete(p) ==
  /\ proc[p].at = "verify" /\ proc[p].meter \notin Meters
  /\ IF InvoiceMatches(p) /\ row = "seen"
     THEN row' = "metered" /\ amounts' = proc[p].value
     ELSE UNCHANGED <<row, amounts>>
  /\ proc' = [proc EXCEPT ![p] = Idle]
  /\ UNCHANGED <<clock, frozen, report, usage, stripeVars, edits, faults>>

-----------------------------------------------------------------------------
Sweep(p) ==
  \/ LookAtInvoice(p) \/ Reserve(p) \/ Reserved(p) \/ SkipMeter(p) \/ Send(p)
  \/ VerifyReport(p) \/ Complete(p)

Next ==
  \/ Close \/ Settle \/ Lapse \/ InvoiceStep
  \/ \E m \in Meters : EditUsage(m) \/ Aggregate(m) \/ Forget(m)
  \/ \E p \in Procs : Discover(p) \/ Count(p) \/ Sweep(p) \/ GiveUp(p)

Spec == Init /\ [][Next]_vars

\* The sweep runs every five minutes and its calls end; Stripe aggregates; 70
\* minutes pass.  Nothing makes the period lapse, the invoice move or a process fail.
FairSpec ==
  /\ Spec
  /\ WF_vars(Settle)
  /\ \A m \in Meters : WF_vars(Aggregate(m))
  /\ \A p \in Procs : WF_vars(Count(p)) /\ WF_vars(Sweep(p))

-----------------------------------------------------------------------------
(* Properties *)

\* No meter is billed twice: Stripe accepted nothing, or the one reserved value,
\* over retries, crashes, two sweeping processes and forgotten identifiers.
BilledOnce == \A m \in Meters : accepted[m] \in {0, report[m].value}

\* A completed period is signed off against its finalized invoice: what is recorded
\* is what the invoice charges, and every charged meter has a confirmed report.
CompletedAsInvoiced ==
  row = "metered" =>
    /\ amounts = invoice.lines
    /\ \A m \in Meters : amounts[m] > 0 => report[m].status = "reported" /\ accepted[m] = amounts[m]

\* The finalized invoice charges the usage that is counted today.
Billable == invoice.state = "final" /\ invoice.lines = usage

\* A stored period whose invoice charges its usage is completed without help, also
\* when the answer of a report was lost or the process died after sending, unless
\* 34 days pass, the usage changes or the invoice is withdrawn.
PeriodSettles == (row = "seen" /\ Billable) ~> (row = "metered" \/ clock = "late" \/ ~Billable)
=============================================================================
