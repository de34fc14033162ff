------------------------- MODULE MeterPeriodsProofs -------------------------
(***************************************************************************)
(* What a metered period charges, for any number of control processes and  *)
(* meters and any bounds.                                                  *)
(*                                                                         *)
(* Neither BilledOnce nor CompletedAsInvoiced is inductive.  The first     *)
(* rests on the outbox: the process about to send a meter is the one that  *)
(* reserved its row, alone, and Stripe accepted nothing of that meter yet. *)
(* The second rests on every amount somebody compares having come from     *)
(* what Stripe accepted: the aggregate shows it or nothing, the invoice    *)
(* charges what the aggregate showed once, and its lines are settled when  *)
(* a process compares them.                                                *)
(***************************************************************************)
EXTENDS MeterPeriods, TLAPS

\* The lines of an invoice that was finalized do not change any more.
Settled == invoice.state \in {"final", "withdrawn"}

\* Where a process can be in the list of meters.
ProcOK(p) ==
  /\ proc[p].at \in {"reserve", "send"} => proc[p].meter \in Meters
  /\ proc[p].at = "verify" => proc[p].meter \in 1..(Last + 1)

\* The aggregate and the invoice show what Stripe accepted, or nothing, and Stripe
\* accepted what the outbox row says, or nothing.
Ledger(m) ==
  /\ report[m].status = "none" => report[m].value = 0
  /\ accepted[m] \in {0, report[m].value}
  /\ visible[m] \in {0, accepted[m]}
  /\ invoice.lines[m] \in {0, accepted[m]}
  /\ report[m].status = "reported" => accepted[m] = report[m].value

\* The sender of a meter reserved it, and none of it is accepted yet.
Sender(p) ==
  proc[p].at = "send" =>
    /\ Report(p) = [status |-> "pending", value |-> Value(p)]
    /\ accepted[proc[p].meter] = 0

SendersApart ==
  \A p, q \in Procs : proc[p].at = "send" /\ proc[q].at = "send" /\ proc[p].meter = proc[q].meter => p = q

\* A verifying process holds the lines of the invoice, and the reports of the meters
\* behind it are confirmed.
Verifier(p) ==
  proc[p].at = "verify" =>
    /\ Settled
    /\ proc[p].lines = invoice.lines
    /\ \A m \in Meters : m < proc[p].meter /\ proc[p].value[m] > 0 => report[m].status = "reported"

Completed ==
  row = "metered" =>
    /\ Settled
    /\ amounts = invoice.lines
    /\ \A m \in Meters : amounts[m] > 0 => report[m].status = "reported"

MeterInv ==
  /\ TypeOK
  /\ \A p \in Procs : ProcOK(p) /\ Sender(p) /\ Verifier(p)
  /\ \A m \in Meters : Ledger(m)
  /\ SendersApart
  /\ Completed

ProcState == [at : {"idle", "counted", "reserve", "send", "verify"}, meter : Nat, value : Usage, lines : Usage]

\* What a process may become without a change of anything else.
Fits(state) ==
  /\ state \in ProcState /\ state.at # "send"
  /\ state.at = "reserve" => state.meter \in Meters
  /\ state.at = "verify" =>
       /\ state.meter \in 1..(Last + 1)
       /\ Settled
       /\ state.lines = invoice.lines

-----------------------------------------------------------------------------
(* Facts about the states a process goes through.                          *)

\* Nothing is counted as usage, too.
LEMMA IdleTyped == NoUsage \in Usage /\ Idle \in ProcState
BY MeterAssumption DEF NoUsage, Usage, Idle, ProcState, Meters

\* The state of the process after a meter, and what it holds of the current one.
LEMMA NextMeterTyped ==
    ASSUME MeterInv, NEW p \in Procs, proc[p].at \in {"reserve", "send"}
    PROVE  /\ Fits(NextMeter(p)) /\ NextMeter(p).at \in {"idle", "reserve"}
           /\ proc[p].meter \in Meters /\ proc[p] \in ProcState /\ Value(p) \in Nat
<1>1. proc[p] \in ProcState /\ proc[p].meter \in Meters /\ proc[p].value \in Usage
  BY DEF MeterInv, TypeOK, ProcState, ProcOK
<1>2. Value(p) \in Nat  BY <1>1 DEF Value, Usage
<1>3. CASE proc[p].meter + 1 \in Meters
  <2>1. NextMeter(p) = [proc[p] EXCEPT !.at = "reserve", !.meter = @ + 1]  BY <1>3 DEF NextMeter
  <2>2. proc[p].meter + 1 \in Nat  BY <1>1, MeterAssumption DEF Meters
  <2> QED  BY <1>1, <1>2, <1>3, <2>1, <2>2 DEF Fits, ProcState
<1>4. CASE proc[p].meter + 1 \notin Meters
  <2>1. NextMeter(p) = Idle  BY <1>4 DEF NextMeter
  <2> QED  BY <1>1, <1>2, <2>1, IdleTyped DEF Fits, Idle
<1> QED  BY <1>3, <1>4

\* A process alone steps to a state that fits.
LEMMA LocalStep ==
    ASSUME MeterInv, NEW p \in Procs, NEW state, Fits(state), Local(p, state),
           state.at = "verify" =>
             \A m \in Meters : m < state.meter /\ state.value[m] > 0 => report[m].status = "reported"
    PROVE  MeterInv'
<1> USE DEF Local, dbVars, stripeVars
<1>0. proc \in [Procs -> ProcState] /\ state \in ProcState  BY DEF MeterInv, TypeOK, ProcState, Fits
<1>1. proc' \in [Procs -> ProcState]  BY <1>0
<1>2. TypeOK'  BY <1>1 DEF MeterInv, TypeOK, ProcState
<1>3. ASSUME NEW q \in Procs PROVE (ProcOK(q) /\ Sender(q) /\ Verifier(q))'
  <2>1. CASE q = p
    <3>1. proc'[q] = state  BY <1>0, <2>1
    <3> QED  BY <3>1 DEF Fits, ProcOK, Sender, Verifier, Settled
  <2>2. CASE q # p
    <3>1. proc'[q] = proc[q]  BY <1>0, <2>2
    <3>2. ProcOK(q) /\ Sender(q) /\ Verifier(q)  BY DEF MeterInv
    <3> QED  BY <3>1, <3>2 DEF ProcOK, Sender, Verifier, Settled, Report, Value
  <2> QED  BY <2>1, <2>2
<1>4. (\A m \in Meters : Ledger(m))'  BY DEF MeterInv, Ledger
<1>5. SendersApart'
  <2> SUFFICES ASSUME NEW q \in Procs, NEW r \in Procs, proc'[q].at = "send", proc'[r].at = "send",
                      proc'[q].meter = proc'[r].meter
               PROVE  q = r
    BY DEF SendersApart
  <2>1. q # p /\ r # p  BY <1>0 DEF Fits
  <2>2. proc'[q] = proc[q] /\ proc'[r] = proc[r]  BY <1>0, <2>1
  <2> QED  BY <2>2 DEF MeterInv, SendersApart
<1>6. Completed'  BY DEF MeterInv, Completed, Settled
<1> QED  BY <1>2, <1>3, <1>4, <1>5, <1>6 DEF MeterInv

\* Steps that leave processes, the outbox and what Stripe charges alone.
LEMMA OutsideStep ==
    ASSUME MeterInv, TypeOK', row' = row \/ row' # "metered",
           UNCHANGED <<proc, report, amounts, accepted, visible, invoice>>
    PROVE  MeterInv'
<1>1. \A p \in Procs : (ProcOK(p) /\ Sender(p) /\ Verifier(p))'
  BY DEF MeterInv, ProcOK, Sender, Verifier, Settled, Report, Value
<1>2. (\A m \in Meters : Ledger(m))'  BY DEF MeterInv, Ledger
<1>3. SendersApart'  BY DEF MeterInv, SendersApart
<1>4. Completed'  BY DEF MeterInv, Completed, Settled
<1> QED  BY <1>1, <1>2, <1>3, <1>4 DEF MeterInv

-----------------------------------------------------------------------------
(* Time, usage and Stripe                                                  *)

LEMMA InitInv == Init => MeterInv
<1> SUFFICES ASSUME Init PROVE MeterInv  OBVIOUS
<1> USE DEF Init
<1>1. NoUsage \in Usage /\ Idle \in ProcState  BY IdleTyped
<1>2. TypeOK
  <2>1. usage \in Usage  BY MeterAssumption DEF Usage
  <2>2. proc \in [Procs -> ProcState]  BY <1>1
  <2>3. report \in [Meters -> [status : {"none", "pending", "reported"}, value : Nat]]  OBVIOUS
  <2>4. edits \in 0..MaxEdits /\ faults \in 0..MaxFaults  BY MeterAssumption
  <2>5. invoice \in [state : {"none", "draft", "closing", "final", "withdrawn"}, lines : Usage]  BY <1>1
  <2> QED  BY <1>1, <2>1, <2>2, <2>3, <2>4, <2>5 DEF TypeOK, ProcState
<1>3. \A p \in Procs : ProcOK(p) /\ Sender(p) /\ Verifier(p)  BY DEF Idle, ProcOK, Sender, Verifier
<1>4. \A m \in Meters : Ledger(m)  BY DEF Ledger, NoUsage
<1> QED  BY <1>2, <1>3, <1>4 DEF MeterInv, SendersApart, Completed, Idle

LEMMA ClockStep == ASSUME MeterInv, Close \/ Settle \/ Lapse PROVE MeterInv'
<1>1. clock' \in {"closed", "due", "late"} /\ UNCHANGED <<dbVars, usage, stripeVars, proc, edits, faults>>
  BY DEF Close, Settle, Lapse, Advance
<1>2. TypeOK'  BY <1>1 DEF MeterInv, TypeOK, dbVars, stripeVars
<1> QED  BY <1>1, <1>2, OutsideStep DEF dbVars, stripeVars

LEMMA EditUsageStep == ASSUME MeterInv, NEW m \in Meters, EditUsage(m) PROVE MeterInv'
<1> USE DEF EditUsage, dbVars, stripeVars
<1>1. usage \in Usage  BY DEF MeterInv, TypeOK
<1>2. (usage[m] + 1) % (MaxUsage + 1) \in Nat  BY <1>1, MeterAssumption DEF Usage
<1>3. usage' \in Usage  BY <1>1, <1>2 DEF Usage
<1>4. edits' \in 0..MaxEdits  BY MeterAssumption DEF MeterInv, TypeOK
<1>5. TypeOK'  BY <1>3, <1>4 DEF MeterInv, TypeOK
<1> QED  BY <1>5, OutsideStep

LEMMA ForgetStep == ASSUME MeterInv, NEW m \in Meters, Forget(m) PROVE MeterInv'
<1> USE DEF Forget, dbVars
<1>1. TypeOK'  BY DEF MeterInv, TypeOK
<1> QED  BY <1>1, OutsideStep

\* The aggregate moves to what was accepted.
LEMMA AggregateStep == ASSUME MeterInv, NEW m \in Meters, Aggregate(m) PROVE MeterInv'
<1> USE DEF Aggregate, dbVars
<1>0. visible \in Usage /\ accepted \in Usage  BY DEF MeterInv, TypeOK
<1>1. visible' \in Usage  BY <1>0 DEF Usage
<1>2. TypeOK'  BY <1>1 DEF MeterInv, TypeOK
<1>3. \A p \in Procs : (ProcOK(p) /\ Sender(p) /\ Verifier(p))'
  BY DEF MeterInv, ProcOK, Sender, Verifier, Settled, Report, Value
<1>4. ASSUME NEW n \in Meters PROVE Ledger(n)'
  <2>1. visible'[n] \in {visible[n], accepted[n]}  BY <1>0 DEF Usage
  <2> QED  BY <2>1 DEF MeterInv, Ledger
<1>5. SendersApart' /\ Completed'  BY DEF MeterInv, SendersApart, Completed, Settled
<1> QED  BY <1>2, <1>3, <1>4, <1>5 DEF MeterInv

\* The lines are set when the invoice is finalized, and nobody looked at them before.
LEMMA InvoiceStepStep == ASSUME MeterInv, InvoiceStep PROVE MeterInv'
<1> USE DEF InvoiceStep, dbVars
<1>0. /\ invoice \in [state : {"none", "draft", "closing", "final", "withdrawn"}, lines : Usage]
      /\ visible \in Usage
  BY DEF MeterInv, TypeOK
<1>1. /\ invoice' \in [state : {"none", "draft", "closing", "final", "withdrawn"}, lines : Usage]
      /\ Settled => Settled' /\ invoice'.lines = invoice.lines
      /\ invoice'.lines = invoice.lines \/ invoice'.lines = visible
  BY <1>0 DEF Settled
<1>2. TypeOK'  BY <1>1 DEF MeterInv, TypeOK
<1>3. \A p \in Procs : (ProcOK(p) /\ Sender(p))'  BY DEF MeterInv, ProcOK, Sender, Report, Value
<1>4. \A p \in Procs : Verifier(p)'  BY <1>1 DEF MeterInv, Verifier
<1>5. \A m \in Meters : Ledger(m)'  BY <1>0, <1>1 DEF MeterInv, Ledger
<1>6. SendersApart' /\ Completed'  BY <1>1 DEF MeterInv, SendersApart, Completed
<1> QED  BY <1>2, <1>3, <1>4, <1>5, <1>6 DEF MeterInv

-----------------------------------------------------------------------------
(* The control process                                                     *)

LEMMA DiscoverStep == ASSUME MeterInv, NEW p \in Procs, Discover(p) PROVE MeterInv'
<1> USE DEF Discover, stripeVars
<1>1. TypeOK'  BY DEF MeterInv, TypeOK
<1> QED  BY <1>1, OutsideStep

\* Writing the daily facts changes nothing else.
LEMMA CountStep == ASSUME MeterInv, NEW p \in Procs, Count(p) PROVE MeterInv'
<1> DEFINE state == [Idle EXCEPT !.at = "counted", !.value = usage]
<1> USE DEF Count, ReconstructDailyFacts, stripeVars
<1>0. proc \in [Procs -> ProcState] /\ usage \in Usage  BY DEF MeterInv, TypeOK, ProcState
<1>1. state \in ProcState /\ state.at = "counted"  BY <1>0, IdleTyped DEF Idle, ProcState
<1>2. proc' = [proc EXCEPT ![p] = state] /\ proc' \in [Procs -> ProcState]  BY <1>0, <1>1
<1>3. TypeOK'  BY <1>2 DEF MeterInv, TypeOK, ProcState
<1> HIDE DEF state
<1>4. ASSUME NEW q \in Procs PROVE (ProcOK(q) /\ Sender(q) /\ Verifier(q))'
  <2>1. CASE q = p  BY <1>0, <1>1, <1>2, <2>1 DEF ProcOK, Sender, Verifier
  <2>2. CASE q # p
    <3>1. proc'[q] = proc[q]  BY <1>0, <2>2
    <3> QED  BY <3>1 DEF MeterInv, ProcOK, Sender, Verifier, Settled, Report, Value
  <2> QED  BY <2>1, <2>2
<1>5. SendersApart'
  <2>1. \A q \in Procs : proc'[q].at = "send" => proc'[q] = proc[q]  BY <1>0, <1>1, <1>2
  <2> QED  BY <2>1 DEF MeterInv, SendersApart
<1>6. (\A m \in Meters : Ledger(m))' /\ Completed'  BY DEF MeterInv, Ledger, Completed, Settled
<1> QED  BY <1>3, <1>4, <1>5, <1>6 DEF MeterInv

LEMMA LookAtInvoiceStep == ASSUME MeterInv, NEW p \in Procs, LookAtInvoice(p) PROVE MeterInv'
<1>0. proc[p] \in ProcState /\ invoice.lines \in Usage /\ Idle \in ProcState /\ 1 \in Meters
  BY IdleTyped, MeterAssumption DEF MeterInv, TypeOK, ProcState, Meters
<1>1. CASE invoice.state = "draft"
  <2>1. Local(p, [proc[p] EXCEPT !.at = "reserve", !.meter = 1])  BY <1>1 DEF LookAtInvoice
  <2>2. Fits([proc[p] EXCEPT !.at = "reserve", !.meter = 1])  BY <1>0 DEF Fits, ProcState
  <2> QED  BY <1>0, <2>1, <2>2, LocalStep DEF ProcState
<1>2. CASE invoice.state = "final"
  <2> DEFINE state == [proc[p] EXCEPT !.at = "verify", !.meter = 1, !.lines = InvoiceLines]
  <2>1. Local(p, state)  BY <1>2 DEF LookAtInvoice
  <2>2. InvoiceLines = invoice.lines  BY <1>2 DEF InvoiceLines
  <2>3. /\ state \in ProcState /\ state.at = "verify" /\ state.meter = 1
        /\ state.lines = invoice.lines
    BY <1>0, <2>2 DEF ProcState
  <2> HIDE DEF state
  <2>5. Fits(state)
    BY <1>2, <2>3, MeterAssumption DEF Fits, Settled
  <2>4. \A m \in Meters : ~(m < state.meter)  BY <2>3 DEF Meters
  <2> QED  BY <2>1, <2>4, <2>5, LocalStep
<1>3. CASE invoice.state \notin {"draft", "final"}
  <2>1. Local(p, Idle)  BY <1>3 DEF LookAtInvoice
  <2>2. Fits(Idle) /\ Idle.at = "idle"  BY <1>0 DEF Fits, Idle
  <2> QED  BY <2>1, <2>2, LocalStep
<1> QED  BY <1>1, <1>2, <1>3

\* The row goes in as pending, with the value that will be sent; nothing of the meter
\* is accepted, since nobody reserved it before.
LEMMA ReserveStep == ASSUME MeterInv, NEW p \in Procs, Reserve(p) PROVE MeterInv'
<1> DEFINE m == proc[p].meter
           entry == [status |-> "pending", value |-> Value(p)]
<1> USE DEF Reserve, Sends, stripeVars
<1>0. /\ proc \in [Procs -> ProcState] /\ accepted \in Usage
      /\ report \in [Meters -> [status : {"none", "pending", "reported"}, value : Nat]]
  BY DEF MeterInv, TypeOK, ProcState
<1>1. m \in Meters /\ Value(p) \in Nat  BY NextMeterTyped
<1>2. report' = [report EXCEPT ![m] = entry] /\ report[m].status = "none"  BY <1>0, <1>1 DEF Report
<1>3. accepted[m] = 0  BY <1>1, <1>2 DEF MeterInv, Ledger
<1>4. proc' \in [Procs -> ProcState]  BY <1>0 DEF ProcState
<1>5. report' \in [Meters -> [status : {"none", "pending", "reported"}, value : Nat]]  BY <1>0, <1>1, <1>2
<1>6. TypeOK'  BY <1>4, <1>5 DEF MeterInv, TypeOK, ProcState
<1>7. proc'[p] = [proc[p] EXCEPT !.at = "send"] /\ \A q \in Procs \ {p} : proc'[q] = proc[q]  BY <1>0
<1>8. report'[m] = entry /\ \A n \in Meters \ {m} : report'[n] = report[n]  BY <1>0, <1>1, <1>2
<1>9. proc'[p].at = "send" /\ proc'[p].meter = m /\ proc'[p].value = proc[p].value  BY <1>0, <1>7 DEF ProcState
<1>10. \A q \in Procs : proc[q].at = "send" => proc[q].meter # m
  <2> SUFFICES ASSUME NEW q \in Procs, proc[q].at = "send" PROVE proc[q].meter # m  OBVIOUS
  <2>1. Sender(q)  BY DEF MeterInv
  <2>2. report[proc[q].meter].status = "pending"  BY <2>1 DEF Sender, Report
  <2> QED  BY <1>2, <2>2
<1> HIDE DEF m, entry
<1>11. ASSUME NEW q \in Procs PROVE (ProcOK(q) /\ Sender(q) /\ Verifier(q))'
  <2>1. CASE q = p
    <3>1. (Report(p) = entry /\ Value(p) = proc[p].value[m])' /\ Value(p) = proc[p].value[m]
      BY <1>8, <1>9 DEF Report, Value, m, entry
    <3>2. (Report(p) = [status |-> "pending", value |-> Value(p)])'
      BY <1>8, <1>9 DEF Report, Value, m, entry
    <3> QED  BY <1>1, <1>3, <1>9, <2>1, <3>2 DEF ProcOK, Sender, Verifier
  <2>2. CASE q # p
    <3>1. proc'[q] = proc[q]  BY <1>7, <2>2
    <3>2. ProcOK(q) /\ Sender(q) /\ Verifier(q)  BY DEF MeterInv
    <3>3. ProcOK(q)'  BY <3>1, <3>2 DEF ProcOK
    <3>4. Sender(q)'
      <4>1. proc[q].at = "send" => report'[proc[q].meter] = report[proc[q].meter]
        BY <1>8, <1>10, <3>2 DEF ProcOK
      <4> QED  BY <3>1, <3>2, <4>1 DEF Sender, Report, Value
    <3>5. Verifier(q)'
      <4>1. \A n \in Meters : report[n].status = "reported" => report'[n] = report[n]  BY <1>2, <1>8
      <4> QED  BY <3>1, <3>2, <4>1 DEF Verifier, Settled
    <3> QED  BY <3>3, <3>4, <3>5
  <2> QED  BY <2>1, <2>2
<1>12. ASSUME NEW n \in Meters PROVE Ledger(n)'
  <2>1. CASE n = m  BY <1>1, <1>3, <1>8, <2>1 DEF MeterInv, Ledger, entry
  <2>2. CASE n # m  BY <1>8, <2>2 DEF MeterInv, Ledger
  <2> QED  BY <2>1, <2>2
<1>13. SendersApart'
  <2> SUFFICES ASSUME NEW q \in Procs, NEW r \in Procs, proc'[q].at = "send", proc'[r].at = "send",
                      proc'[q].meter = proc'[r].meter
               PROVE  q = r
    BY DEF SendersApart
  <2>1. CASE q = p \/ r = p  BY <1>7, <1>9, <1>10, <2>1
  <2>2. CASE q # p /\ r # p  BY <1>7, <2>2 DEF MeterInv, SendersApart
  <2> QED  BY <2>1, <2>2
<1>14. Completed'
  <2>1. \A n \in Meters : report[n].status = "reported" => report'[n] = report[n]  BY <1>2, <1>8
  <2> QED  BY <2>1 DEF MeterInv, Completed, Settled
<1> QED  BY <1>6, <1>11, <1>12, <1>13, <1>14 DEF MeterInv

\* A pending report is confirmed when the aggregate shows what this sweep counted, more
\* than nothing: then Stripe accepted the reserved value, and nobody is about to send it.
LEMMA MarkReportedStep ==
    ASSUME MeterInv, NEW p \in Procs, NEW state, Fits(state), MarkReported(p, state),
           proc[p].meter \in Meters, Value(p) \in Nat, Value(p) > 0, Reconciles(p),
           state.at = "verify" =>
             \A n \in Meters : n < state.meter /\ state.value[n] > 0 =>
                                 n = proc[p].meter \/ report[n].status = "reported"
    PROVE  MeterInv'
<1> DEFINE m == proc[p].meter
<1> USE DEF MarkReported, stripeVars
<1>0. /\ proc \in [Procs -> ProcState] /\ state \in ProcState /\ state.at # "send"
      /\ report \in [Meters -> [status : {"none", "pending", "reported"}, value : Nat]]
  BY DEF MeterInv, TypeOK, ProcState, Fits
<1>1. m \in Meters /\ report[m].status = "pending" /\ visible[m] > 0  BY DEF Reconciles, Report
<1>2. accepted[m] = report[m].value /\ accepted[m] # 0  BY <1>1 DEF MeterInv, Ledger
<1>3. \A q \in Procs : proc[q].at = "send" => proc[q].meter # m
  <2> SUFFICES ASSUME NEW q \in Procs, proc[q].at = "send" PROVE proc[q].meter # m  OBVIOUS
  <2>1. Sender(q)  BY DEF MeterInv
  <2> QED  BY <1>2, <2>1 DEF Sender
<1>4. proc'[p] = state /\ proc' \in [Procs -> ProcState] /\ \A q \in Procs \ {p} : proc'[q] = proc[q]
  BY <1>0
<1>5. /\ report' \in [Meters -> [status : {"none", "pending", "reported"}, value : Nat]]
      /\ report'[m].status = "reported" /\ report'[m].value = report[m].value
      /\ \A n \in Meters \ {m} : report'[n] = report[n]
  BY <1>0, <1>1
<1>6. TypeOK'  BY <1>4, <1>5 DEF MeterInv, TypeOK, ProcState
<1> HIDE DEF m
<1>7. \A n \in Meters : report[n].status = "reported" => report'[n].status = "reported"  BY <1>5
<1>8. ASSUME NEW q \in Procs PROVE (ProcOK(q) /\ Sender(q) /\ Verifier(q))'
  <2>1. CASE q = p
    <3>1. ProcOK(q)' /\ Sender(q)'  BY <1>0, <1>4, <2>1 DEF Fits, ProcOK, Sender
    <3>2. Verifier(q)'  BY <1>4, <1>5, <1>7, <2>1 DEF Fits, Verifier, Settled, m
    <3> QED  BY <3>1, <3>2
  <2>2. CASE q # p
    <3>1. proc'[q] = proc[q]  BY <1>4, <2>2
    <3>2. ProcOK(q) /\ Sender(q) /\ Verifier(q)  BY DEF MeterInv
    <3>3. ProcOK(q)'  BY <3>1, <3>2 DEF ProcOK
    <3>4. Sender(q)'
      <4>1. proc[q].at = "send" => report'[proc[q].meter] = report[proc[q].meter]
        BY <1>3, <1>5, <3>2 DEF ProcOK
      <4> QED  BY <3>1, <3>2, <4>1 DEF Sender, Report, Value
    <3>5. Verifier(q)'  BY <1>7, <3>1, <3>2 DEF Verifier, Settled
    <3> QED  BY <3>3, <3>4, <3>5
  <2> QED  BY <2>1, <2>2
<1>9. ASSUME NEW n \in Meters PROVE Ledger(n)'
  <2>1. CASE n = m  BY <1>2, <1>5, <2>1 DEF MeterInv, Ledger
  <2>2. CASE n # m  BY <1>5, <2>2 DEF MeterInv, Ledger
  <2> QED  BY <2>1, <2>2
<1>10. SendersApart'
  <2>1. \A q \in Procs : proc'[q].at = "send" => proc'[q] = proc[q]  BY <1>0, <1>4
  <2> QED  BY <2>1 DEF MeterInv, SendersApart
<1>11. Completed'  BY <1>7 DEF MeterInv, Completed, Settled
<1> QED  BY <1>6, <1>8, <1>9, <1>10, <1>11 DEF MeterInv

LEMMA ReservedStep == ASSUME MeterInv, NEW p \in Procs, Reserved(p) PROVE MeterInv'
<1>1. /\ Fits(NextMeter(p)) /\ NextMeter(p).at # "verify"
      /\ proc[p].meter \in Meters /\ Value(p) \in Nat /\ Value(p) > 0
  BY NextMeterTyped DEF Reserved
<1>2. Fits(Idle) /\ Idle.at # "verify"  BY IdleTyped DEF Fits, Idle
<1>3. CASE Report(p).status = "reported"
  <2>1. Local(p, NextMeter(p))  BY <1>3 DEF Reserved, Reconciles
  <2> QED  BY <1>1, <2>1, LocalStep
<1>4. CASE Report(p).status # "reported" /\ Report(p).value = Value(p) /\ Reconciles(p)
  <2>1. MarkReported(p, NextMeter(p))  BY <1>4 DEF Reserved
  <2> QED  BY <1>1, <1>4, <2>1, MarkReportedStep
<1>5. CASE Report(p).status # "reported" /\ ~(Report(p).value = Value(p) /\ Reconciles(p))
  <2>1. Local(p, Idle)  BY <1>5 DEF Reserved
  <2> QED  BY <1>2, <2>1, LocalStep
<1> QED  BY <1>3, <1>4, <1>5

LEMMA SkipMeterStep == ASSUME MeterInv, NEW p \in Procs, SkipMeter(p) PROVE MeterInv'
<1>1. Fits(NextMeter(p)) /\ NextMeter(p).at # "verify"  BY NextMeterTyped DEF SkipMeter
<1> QED  BY <1>1, LocalStep DEF SkipMeter

\* The first and only event of the meter: what is accepted becomes the reserved value.
LEMMA SendStep == ASSUME MeterInv, NEW p \in Procs, Send(p) PROVE MeterInv'
<1> DEFINE m == proc[p].meter
<1> USE DEF Send, dbVars
<1>0. proc \in [Procs -> ProcState] /\ accepted \in Usage  BY DEF MeterInv, TypeOK, ProcState
<1>1. /\ m \in Meters /\ Value(p) \in Nat
      /\ Fits(NextMeter(p)) /\ NextMeter(p).at \in {"idle", "reserve"}
  BY NextMeterTyped
<1>2. Sender(p)  BY DEF MeterInv
<1>3. /\ report[m].status = "pending" /\ report[m].value = Value(p) /\ accepted[m] = 0
  BY <1>2 DEF Sender, Report
<1>4. PICK state \in {NextMeter(p), Idle} : proc' = [proc EXCEPT ![p] = state]  OBVIOUS
<1>5. state \in ProcState /\ Fits(state) /\ state.at \in {"idle", "reserve"}
  BY <1>1, <1>4, IdleTyped DEF Fits, Idle
<1>6. proc' \in [Procs -> ProcState] /\ proc'[p] = state /\ \A q \in Procs \ {p} : proc'[q] = proc[q]
  BY <1>0, <1>4, <1>5
<1>7. /\ accepted' \in Usage
      /\ accepted'[m] = 0 \/ accepted'[m] = report[m].value
      /\ \A n \in Meters \ {m} : accepted'[n] = accepted[n]
  <2>1. CASE m \in remembered  BY <1>0, <1>3, <2>1
  <2>2. CASE m \notin remembered
    <3>1. accepted' = [accepted EXCEPT ![m] = accepted[m] + Value(p)]  BY <2>2
    <3>2. accepted[m] + Value(p) = report[m].value /\ accepted[m] + Value(p) \in Nat  BY <1>1, <1>3
    <3> QED  BY <1>0, <1>1, <3>1, <3>2 DEF Usage
  <2> QED  BY <2>1, <2>2
<1>8. TypeOK'
  <2>1. faults' \in 0..MaxFaults  BY MeterAssumption DEF MeterInv, TypeOK
  <2>2. remembered' \subseteq Meters  BY <1>1 DEF MeterInv, TypeOK
  <2> QED  BY <1>6, <1>7, <2>1, <2>2 DEF MeterInv, TypeOK, ProcState
<1> HIDE DEF m
<1>9. ASSUME NEW q \in Procs PROVE (ProcOK(q) /\ Sender(q) /\ Verifier(q))'
  <2>1. CASE q = p  BY <1>5, <1>6, <2>1 DEF Fits, ProcOK, Sender, Verifier
  <2>2. CASE q # p
    <3>1. proc'[q] = proc[q]  BY <1>6, <2>2
    <3>2. ProcOK(q) /\ Sender(q) /\ Verifier(q)  BY DEF MeterInv
    <3>3. Sender(q)'
      <4>1. proc[q].at = "send" => proc[q].meter \in Meters \ {m}
        BY <2>2, <3>2 DEF MeterInv, SendersApart, ProcOK, m
      <4> QED  BY <1>7, <3>1, <3>2, <4>1 DEF Sender, Report, Value
    <3> QED  BY <3>1, <3>2, <3>3 DEF ProcOK, Verifier, Settled
  <2> QED  BY <2>1, <2>2
<1>10. ASSUME NEW n \in Meters PROVE Ledger(n)'
  <2>1. CASE n = m  BY <1>3, <1>7, <2>1 DEF MeterInv, Ledger
  <2>2. CASE n # m  BY <1>7, <2>2 DEF MeterInv, Ledger
  <2> QED  BY <2>1, <2>2
<1>11. SendersApart'
  <2>1. \A q \in Procs : proc'[q].at = "send" => proc'[q] = proc[q]  BY <1>5, <1>6
  <2> QED  BY <2>1 DEF MeterInv, SendersApart
<1>12. Completed'  BY DEF MeterInv, Completed, Settled
<1> QED  BY <1>8, <1>9, <1>10, <1>11, <1>12 DEF MeterInv

\* Whatever a process was doing, it can stop without a change of anything else.
LEMMA Stopped ==
    ASSUME MeterInv, NEW p \in Procs, proc' = [proc EXCEPT ![p] = Idle], TypeOK',
           UNCHANGED <<report, accepted, visible, invoice>>,
           Completed'
    PROVE  MeterInv'
<1>0. proc \in [Procs -> ProcState] /\ Idle.at = "idle"  BY DEF MeterInv, TypeOK, ProcState, Idle
<1>1. ASSUME NEW q \in Procs PROVE (ProcOK(q) /\ Sender(q) /\ Verifier(q))'
  <2>1. CASE q = p  BY <1>0, <2>1 DEF ProcOK, Sender, Verifier
  <2>2. CASE q # p
    <3>1. proc'[q] = proc[q]  BY <1>0, <2>2
    <3> QED  BY <3>1 DEF MeterInv, ProcOK, Sender, Verifier, Settled, Report, Value
  <2> QED  BY <2>1, <2>2
<1>2. SendersApart'
  <2>1. \A q \in Procs : proc'[q].at = "send" => proc'[q] = proc[q]  BY <1>0
  <2> QED  BY <2>1 DEF MeterInv, SendersApart
<1>3. (\A m \in Meters : Ledger(m))'  BY DEF MeterInv, Ledger
<1> QED  BY <1>1, <1>2, <1>3 DEF MeterInv

LEMMA GiveUpStep == ASSUME MeterInv, NEW p \in Procs, GiveUp(p) PROVE MeterInv'
<1> USE DEF GiveUp, dbVars, stripeVars
<1>1. proc' \in [Procs -> ProcState] /\ faults' \in 0..MaxFaults
  BY IdleTyped, MeterAssumption DEF MeterInv, TypeOK, ProcState
<1>2. TypeOK'  BY <1>1 DEF MeterInv, TypeOK, ProcState
<1>3. Completed'  BY DEF MeterInv, Completed, Settled
<1> QED  BY <1>2, <1>3, Stopped

\* verifyFinalizedPeriod goes from meter to meter while their reports are settled.
LEMMA VerifyReportStep == ASSUME MeterInv, NEW p \in Procs, VerifyReport(p) PROVE MeterInv'
<1> DEFINE m == proc[p].meter
           state == NextVerified(p)
<1>0. /\ proc[p] \in ProcState /\ proc[p].at = "verify" /\ m \in Meters
      /\ report \in [Meters -> [status : {"none", "pending", "reported"}, value : Nat]]
  BY DEF MeterInv, TypeOK, ProcState, VerifyReport
<1>1. Value(p) \in Nat  BY <1>0 DEF Value, ProcState, Usage
<1>2. Verifier(p)  BY DEF MeterInv
<1>3. /\ state \in ProcState /\ state.at = "verify" /\ state.meter = m + 1
      /\ state.value = proc[p].value /\ state.lines = proc[p].lines
  BY <1>0, MeterAssumption DEF NextVerified, ProcState, Meters
<1>4. Fits(state)  BY <1>0, <1>2, <1>3, MeterAssumption DEF Fits, Verifier, Meters
<1>5. \A n \in Meters : n < state.meter /\ state.value[n] > 0 => n = m \/ report[n].status = "reported"
  BY <1>0, <1>2, <1>3, MeterAssumption DEF Verifier, Meters
<1>6. CASE ~Settles(p)
  <2>1. Local(p, Idle)  BY <1>6 DEF VerifyReport
  <2>2. Fits(Idle) /\ Idle.at # "verify"  BY IdleTyped DEF Fits, Idle
  <2> QED  BY <2>1, <2>2, LocalStep
<1>7. CASE Settles(p) /\ Value(p) > 0 /\ Report(p).status = "pending"
  <2>1. MarkReported(p, state) /\ Reconciles(p)  BY <1>7 DEF VerifyReport, Settles
  <2> HIDE DEF state
  <2> QED  BY <1>0, <1>1, <1>4, <1>5, <1>7, <2>1, MarkReportedStep
<1>8. CASE Settles(p) /\ ~(Value(p) > 0 /\ Report(p).status = "pending")
  <2>1. Local(p, state)  BY <1>8 DEF VerifyReport
  <2>2. Value(p) > 0 => report[m].status = "reported"  BY <1>1, <1>8 DEF Settles, Reconciles, Report
  <2>3. \A n \in Meters : n < state.meter /\ state.value[n] > 0 => report[n].status = "reported"
    BY <1>3, <1>5, <2>2 DEF Value
  <2> HIDE DEF state
  <2> QED  BY <1>4, <2>1, <2>3, LocalStep
<1> QED  BY <1>6, <1>7, <1>8

\* What is recorded is what was counted, which is what the settled invoice charges, and
\* the verifier passed every meter.
LEMMA CompleteStep == ASSUME MeterInv, NEW p \in Procs, Complete(p) PROVE MeterInv'
<1> USE DEF Complete, stripeVars
<1>0. proc \in [Procs -> ProcState] /\ proc[p].at = "verify"  BY DEF MeterInv, TypeOK, ProcState
<1>1. ProcOK(p) /\ Verifier(p)  BY DEF MeterInv
<1>2. proc' \in [Procs -> ProcState]  BY <1>0, IdleTyped
<1>3. CASE InvoiceMatches(p) /\ row = "seen"
  <2>1. row' = "metered" /\ amounts' = proc[p].value /\ proc[p].value \in Usage
    BY <1>0, <1>3 DEF ProcState
  <2>2. TypeOK'  BY <1>2, <2>1 DEF MeterInv, TypeOK, ProcState
  <2>3. Settled /\ amounts' = invoice.lines  BY <1>0, <1>1, <1>3, <2>1 DEF Verifier, InvoiceMatches
  <2>4. \A m \in Meters : m < proc[p].meter
    BY <1>0, <1>1, MeterAssumption DEF ProcOK, Meters
  <2>5. \A m \in Meters : amounts'[m] > 0 => report[m].status = "reported"
    BY <1>0, <1>1, <2>1, <2>4 DEF Verifier
  <2>6. Completed'  BY <2>3, <2>5 DEF Completed, Settled
  <2> QED  BY <2>2, <2>6, Stopped
<1>4. CASE ~(InvoiceMatches(p) /\ row = "seen")
  <2>1. TypeOK'  BY <1>2, <1>4 DEF MeterInv, TypeOK, ProcState
  <2>2. Completed'  BY <1>4 DEF MeterInv, Completed, Settled
  <2> QED  BY <2>1, <2>2, Stopped
<1> QED  BY <1>3, <1>4

-----------------------------------------------------------------------------
(* The theorems                                                            *)

LEMMA StutterStep == ASSUME MeterInv, UNCHANGED vars PROVE MeterInv'
<1> USE DEF vars, dbVars, stripeVars
<1>1. TypeOK'  BY DEF MeterInv, TypeOK
<1> QED  BY <1>1, OutsideStep

LEMMA MeterInvStep == MeterInv /\ [Next]_vars => MeterInv'
<1> SUFFICES ASSUME MeterInv, [Next]_vars PROVE MeterInv'  OBVIOUS
<1>1. CASE Close \/ Settle \/ Lapse  BY <1>1, ClockStep
<1>2. CASE InvoiceStep  BY <1>2, InvoiceStepStep
<1>3. CASE \E m \in Meters : EditUsage(m) \/ Aggregate(m) \/ Forget(m)
  BY <1>3, EditUsageStep, AggregateStep, ForgetStep
<1>4. CASE \E p \in Procs : Discover(p)  BY <1>4, DiscoverStep
<1>5. CASE \E p \in Procs : Count(p)  BY <1>5, CountStep
<1>6. CASE \E p \in Procs : GiveUp(p)  BY <1>6, GiveUpStep
<1>7. ASSUME NEW p \in Procs, Sweep(p) PROVE MeterInv'
  <2>1. CASE LookAtInvoice(p)  BY <2>1, LookAtInvoiceStep
  <2>2. CASE Reserve(p)  BY <2>2, ReserveStep
  <2>3. CASE Reserved(p)  BY <2>3, ReservedStep
  <2>4. CASE SkipMeter(p)  BY <2>4, SkipMeterStep
  <2>5. CASE Send(p)  BY <2>5, SendStep
  <2>6. CASE VerifyReport(p)  BY <2>6, VerifyReportStep
  <2>7. CASE Complete(p)  BY <2>7, CompleteStep
  <2> QED  BY <1>7, <2>1, <2>2, <2>3, <2>4, <2>5, <2>6, <2>7 DEF Sweep
<1>8. CASE UNCHANGED vars  BY <1>8, StutterStep
<1> QED  BY <1>1, <1>2, <1>3, <1>4, <1>5, <1>6, <1>7, <1>8 DEF Next

\* The inductive invariant holds of every behaviour of the metering sweeps.
THEOREM MeterInvariant == Spec => []MeterInv
BY InitInv, MeterInvStep, PTL DEF Spec

\* Every variable keeps its type, the position of each sweeping process included.
THEOREM MeterTypes == Spec => []TypeOK
<1>1. MeterInv => TypeOK  BY DEF MeterInv
<1> QED  BY <1>1, MeterInvariant, PTL

\* A meter is billed at most once, for any number of sweeping processes, retries,
\* crashes, lost answers and forgotten event identifiers: reserveMeterReport lets one
\* process send, and reconcilePendingMeterReport confirms and never sends again.
THEOREM BillingSafety == Spec => []BilledOnce
<1>1. MeterInv => BilledOnce  BY DEF MeterInv, Ledger, BilledOnce
<1> QED  BY <1>1, MeterInvariant, PTL

\* A period is completed with the amounts its finalized invoice charges, and each of
\* them was reported, confirmed and accepted in that amount (verifyFinalizedPeriod).
THEOREM SignOffSafety == Spec => []CompletedAsInvoiced
<1>1. MeterInv => CompletedAsInvoiced
  <2> SUFFICES ASSUME MeterInv, row = "metered" PROVE
        /\ amounts = invoice.lines
        /\ \A m \in Meters : amounts[m] > 0 => report[m].status = "reported" /\ accepted[m] = amounts[m]
    BY DEF CompletedAsInvoiced
  <2>1. amounts = invoice.lines /\ \A m \in Meters : amounts[m] > 0 => report[m].status = "reported"
    BY DEF MeterInv, Completed
  <2>2. \A m \in Meters : amounts[m] > 0 => accepted[m] = amounts[m]
    BY <2>1 DEF MeterInv, Ledger
  <2> QED  BY <2>1, <2>2
<1> QED  BY <1>1, MeterInvariant, PTL
=============================================================================
