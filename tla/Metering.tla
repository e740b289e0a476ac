------------------------------- MODULE Metering -------------------------------
(***************************************************************************)
(* Metered billing (service/metered_sync.go, store/metered.go): calls of   *)
(* RecordUsage queue a row each, and sync passes of several replicas push  *)
(* the queue to Stripe, one pass at a time by an advisory lock whose       *)
(* connection may drop.  Stripe counts an identifier once, for as long as  *)
(* it remembers it; answers are lost, and replicas stop between a push and *)
(* its record.                                                             *)
(***************************************************************************)
EXTENDS Integers, Sequences, FiniteSets, FiniteSetsExt

CONSTANTS
  MaxCalls,          \* bound: accepted calls of RecordUsage on a metered feature
  Passes,            \* sync loops of the replicas, and an admin's "run now"
  Batch,             \* rows a pass reads at a time
  MaxAttempts,       \* defaultMeteredMaxAttempts
  FailuresEndPass,   \* meteredFailuresEndPass
  MaxFaults          \* bound: crashes, dropped locks, writes that failed

MeteringAssumption ==
  /\ MaxCalls \in Nat /\ MaxAttempts \in Nat /\ MaxFaults \in Nat
  /\ Batch \in Nat \ {0} /\ FailuresEndPass \in Nat \ {0}

VARIABLES
  metered,      \* the plan's entitlement names a Stripe meter
  rows,         \* metered_billing, in (created_at, id) order; a row's place is its identifier
  passes,       \* pass -> where it stands
  lock,         \* the passes that hold the sync lock
  billed,       \* identifier -> how often Stripe counted it, up to Twice
  late,         \* history: forgotten by Stripe before Keygate recorded them
  faults

vars == <<metered, rows, passes, lock, billed, late, faults>>

Calls == 1..MaxCalls
Twice == 2

RowType == [attempts : 0..MaxAttempts, synced : {"no", "sent", "drained"}]
PassType == [pc : {"idle", "list", "push", "mark", "failed"}, batch : SUBSET Calls, last : 0..MaxCalls,
             more : BOOLEAN, row : {"refused", "down"}, inARow : 0..FailuresEndPass]

TypeOK ==
  /\ metered \in BOOLEAN
  /\ rows \in Seq(RowType) /\ Len(rows) <= MaxCalls
  /\ passes \in [Passes -> PassType] /\ \A p \in Passes : passes[p].batch \subseteq DOMAIN rows
  /\ lock \in SUBSET Passes
  /\ billed \in [Calls -> 0..Twice] /\ late \subseteq Calls /\ faults \in 0..MaxFaults

IdlePass == [pc |-> "idle", batch |-> {}, last |-> 0, more |-> FALSE, row |-> "down", inARow |-> 0]

Init ==
  /\ metered = TRUE
  /\ rows = <<>> /\ passes = [p \in Passes |-> IdlePass] /\ lock = {}
  /\ billed = [i \in Calls |-> 0] /\ late = {} /\ faults = 0

-----------------------------------------------------------------------------
\* One row for each call, with what it added; the row's id is the identifier
\* Stripe knows the event by.  A row that cannot be written is not billed.
InsertMeteredEvent ==
  /\ metered /\ Len(rows) < MaxCalls
  /\ rows' = Append(rows, [attempts |-> 0, synced |-> "no"])
  /\ UNCHANGED <<metered, passes, lock, billed, late, faults>>

\* An operator takes the meter off the entitlement.
ClearMeter ==
  /\ metered
  /\ metered' = FALSE
  /\ UNCHANGED <<rows, passes, lock, billed, late, faults>>

-----------------------------------------------------------------------------
(* A sync pass.                                                            *)

At(p, pc) == passes[p].pc = pc
PassTo(p, pc) == passes' = [passes EXCEPT ![p].pc = pc]
EndPass(p) == passes' = [passes EXCEPT ![p] = IdlePass] /\ lock' = lock \ {p}

TryMeteredSyncLock(p) ==
  /\ At(p, "idle") /\ lock = {}
  /\ PassTo(p, "list") /\ lock' = {p}
  /\ UNCHANGED <<metered, billed, late, rows, faults>>

\* Rows after the last one tried that are pending and have attempts left.
ListUnsyncedMeteredAfter(last) ==
  {k \in DOMAIN rows : k > last /\ rows[k].synced = "no" /\ rows[k].attempts < MaxAttempts}

ListBatch(p) ==
  LET found == ListUnsyncedMeteredAfter(passes[p].last)
      batch == {k \in found : Cardinality({j \in found : j < k}) < Batch}
  IN
  /\ At(p, "list")
  /\ \/ batch = {} /\ EndPass(p)
     \/ /\ batch # {} /\ UNCHANGED lock
        /\ passes' = [passes EXCEPT ![p].pc = "push", ![p].batch = batch, ![p].more = Cardinality(found) >= Batch,
                                    ![p].last = Max(batch)]
  /\ UNCHANGED <<metered, billed, late, rows, faults>>

\* The rows of a batch are tried in order.
Row(p) == Min(passes[p].batch)

\* The row is done with, and n pushes failed in a row: on to the next, to the
\* next batch, or to the end of the pass.
Onward(p, n) ==
  LET rest == passes[p].batch \ {Row(p)} IN
  IF n >= FailuresEndPass \/ (rest = {} /\ ~passes[p].more) THEN EndPass(p)
  ELSE /\ passes' = [passes EXCEPT ![p].pc = IF rest = {} THEN "list" ELSE "push",
                                   ![p].batch = rest, ![p].row = "down", ![p].inARow = n]
       /\ UNCHANGED lock

MarkMeteredSynced(k, how) == rows' = [rows EXCEPT ![k].synced = how]

\* A licence without a meter any more: nothing to bill, the row drains.
DrainRow(p) ==
  /\ At(p, "push") /\ ~metered
  /\ MarkMeteredSynced(Row(p), "drained") /\ Onward(p, passes[p].inARow)
  /\ UNCHANGED <<metered, billed, late, faults>>

\* MUTANT: each try is an event of its own.
Recognised_Never(i) == FALSE

\* Stripe knows an event by the row's identifier (external).
Recognised(i) == billed[i] > 0 /\ i \notin late

StripeCounts(i) ==
  /\ billed' = IF Recognised(i) THEN billed ELSE [billed EXCEPT ![i] = Min({@ + 1, Twice})]
  /\ UNCHANGED late

\* stripeMeterEventDispatch: taken and answered, taken with the answer lost,
\* refused for this row, or no answer from Stripe at all.
PushEvent(p) ==
  LET i == Row(p) IN
  /\ At(p, "push") /\ metered
  /\ \/ StripeCounts(i) /\ PassTo(p, "mark")
     \/ StripeCounts(i) /\ passes' = [passes EXCEPT ![p].pc = "failed", ![p].row = "down"]
     \/ /\ \E why \in {"refused", "down"} : passes' = [passes EXCEPT ![p].pc = "failed", ![p].row = why]
        /\ UNCHANGED <<billed, late>>
  /\ UNCHANGED <<metered, rows, lock, faults>>

RecordSynced(p) ==
  /\ At(p, "mark")
  /\ MarkMeteredSynced(Row(p), "sent") /\ Onward(p, 0)
  /\ UNCHANGED <<metered, billed, late, faults>>

\* MarkMeteredSynced failed: the push is retried by a later pass.
NotMarked(p) ==
  /\ At(p, "mark") /\ faults < MaxFaults
  /\ passes' = [passes EXCEPT ![p].pc = "failed", ![p].row = "down"]
  /\ faults' = faults + 1
  /\ UNCHANGED <<metered, billed, late, rows, lock>>

\* MUTANT: a failure spends none of the row's attempts.
Attempted_Free(k) == rows

Attempted(k) == [rows EXCEPT ![k].attempts = Min({@ + 1, MaxAttempts})]

\* A row Stripe refused says nothing of the rows after it.
RecordMeteredSyncFailure(p) ==
  /\ At(p, "failed")
  /\ \/ rows' = Attempted(Row(p)) /\ UNCHANGED faults
     \/ faults < MaxFaults /\ faults' = faults + 1 /\ UNCHANGED rows      \* not written
  /\ Onward(p, passes[p].inARow + (IF passes[p].row = "down" THEN 1 ELSE 0))
  /\ UNCHANGED <<metered, billed, late>>

\* The replica stops: the lock goes with its connection.
Crash(p) ==
  /\ ~At(p, "idle") /\ faults < MaxFaults
  /\ EndPass(p) /\ faults' = faults + 1
  /\ UNCHANGED <<metered, billed, late, rows>>

\* The lock's connection drops under a pass that goes on.
LockDrops(p) ==
  /\ p \in lock /\ faults < MaxFaults
  /\ lock' = lock \ {p} /\ faults' = faults + 1
  /\ UNCHANGED <<metered, billed, late, rows, passes>>

\* Stripe forgets an identifier after a day (external); of one that is not
\* pushed again nothing shows.
Settled(k) == rows[k].synced # "no" \/ rows[k].attempts = MaxAttempts
StripeForgets(i) ==
  /\ billed[i] > 0 /\ i \notin late
  /\ i \in DOMAIN rows /\ ~Settled(i)
  /\ late' = late \cup {i}
  /\ UNCHANGED <<metered, rows, passes, lock, billed, faults>>

-----------------------------------------------------------------------------
PassStep(p) ==
  \/ ListBatch(p) \/ DrainRow(p) \/ PushEvent(p) \/ RecordSynced(p) \/ RecordMeteredSyncFailure(p)

Next ==
  \/ InsertMeteredEvent \/ ClearMeter
  \/ \E i \in Calls : StripeForgets(i)
  \/ \E p \in Passes : TryMeteredSyncLock(p) \/ PassStep(p) \/ NotMarked(p) \/ Crash(p) \/ LockDrops(p)

\* The sync loop's ticker starts passes, and a pass runs to its end.
Fairness ==
  /\ \A p \in Passes : WF_vars(PassStep(p))
  /\ WF_vars(\E p \in Passes : TryMeteredSyncLock(p))

Spec == Init /\ [][Next]_vars /\ Fairness

-----------------------------------------------------------------------------
\* What Keygate records as sent, Stripe bills, and bills once: through lost
\* answers, crashes between the push and its record, and two passes at once
\* (syncOne's identifier), while Stripe remembers the event.
BilledOnce ==
  /\ TypeOK
  /\ \A k \in DOMAIN rows :
       /\ rows[k].synced = "sent" => billed[k] >= 1
       /\ k \notin late => billed[k] <= 1

\* Every queued row is sent, drained, or out of attempts in the end: rows
\* that keep failing at the head of the queue do not hold back those behind
\* them (TryRunOnce, ListUnsyncedMeteredAfter).
UsageSettles == \A n \in Calls : Len(rows) >= n ~> (Len(rows) >= n /\ Settled(n))
=============================================================================
