-------------------------------- MODULE Usage --------------------------------
(***************************************************************************)
(* Usage quotas (service/usage.go, store/usage.go) of one licence and      *)
(* feature.  A request reads the quota and the period's key, counts        *)
(* against them in one transaction, and warns from what that returned;     *)
(* operators edit the quota and reset counters meanwhile.  What a metered  *)
(* feature queues for Stripe is in Metering.                               *)
(***************************************************************************)
EXTENDS Naturals, FiniteSetsExt

CONSTANTS
  Requests,     \* calls of RecordUsage
  Quantities,   \* what a call reports
  Limits,       \* quotas an operator sets; 0 is no limit
  MaxCount,     \* the counter's width: the largest value it holds
  MaxPeriod,    \* bound: quota periods
  WarnAt,       \* the warning threshold, in percent
  MaxEdits      \* bound: operators' actions

UsageAssumption ==
  /\ Quantities \subseteq Nat /\ Quantities # {} /\ Limits \subseteq Nat
  /\ MaxCount \in Nat /\ MaxPeriod \in Nat \ {0} /\ WarnAt \in Nat \ {0} /\ MaxEdits \in Nat

VARIABLES
  period,       \* the period the clock is in
  limit,        \* the quota in force
  used,         \* usage_counters: period -> used
  reqs,         \* request -> where it stands and what it read
  offered,      \* history: limits that were in force
  warned,       \* history: period -> warnings sent
  edits         \* history: operators' actions so far

vars == <<period, limit, used, reqs, offered, warned, edits>>

Periods == 1..MaxPeriod
ReqType == [pc : {"new", "count", "warn", "done"}, period : Periods, limit : Limits,
            quantity : Quantities, used : 0..MaxCount]

TypeOK ==
  /\ period \in Periods /\ limit \in Limits
  /\ used \in [Periods -> 0..MaxCount]
  /\ reqs \in [Requests -> ReqType]
  /\ offered \subseteq Limits /\ warned \in [Periods -> Nat] /\ edits \in 0..MaxEdits

Init ==
  /\ period = 1 /\ limit \in Limits
  /\ used = [p \in Periods |-> 0]
  /\ reqs = [r \in Requests |-> [pc |-> "new", period |-> 1, limit |-> limit, quantity |-> CHOOSE q \in Quantities : TRUE, used |-> 0]]
  /\ offered = {limit} /\ warned = [p \in Periods |-> 0] /\ edits = 0

-----------------------------------------------------------------------------
\* The licence's quota (quotaFor) and the current period are read first.
RecordUsage(r, q) ==
  /\ reqs[r].pc = "new"
  /\ reqs' = [reqs EXCEPT ![r] = [pc |-> "count", period |-> period, limit |-> limit, quantity |-> q, used |-> 0]]
  /\ UNCHANGED <<period, limit, used, offered, warned, edits>>

\* MUTANT: only a quota already used up refuses.
Fits_Open(count, q, lim) == q <= MaxCount - count /\ (lim > 0 => count < lim)

\* IncrementUsageCounterWithLimit's check, under the counter's row lock.
Fits(count, q, lim) == q <= MaxCount - count /\ (lim > 0 => count + q <= lim)

IncrementUsageCounterWithLimit(r) ==
  LET req == reqs[r] IN
  /\ req.pc = "count"
  /\ \/ /\ Fits(used[req.period], req.quantity, req.limit)
        /\ used' = [used EXCEPT ![req.period] = @ + req.quantity]
        /\ reqs' = [reqs EXCEPT ![r].pc = "warn", ![r].used = used'[req.period]]
     \/ /\ ~Fits(used[req.period], req.quantity, req.limit)        \* QUOTA_EXCEEDED, or too large
        /\ reqs' = [reqs EXCEPT ![r].pc = "done"]
        /\ UNCHANGED used
  /\ UNCHANGED <<period, limit, offered, warned, edits>>

\* Under the threshold before this call, not after it.
Crosses(now, q, lim) == lim > 0 /\ now * 100 >= lim * WarnAt /\ (now - q) * 100 < lim * WarnAt

WarnQuota(r) ==
  LET req == reqs[r] IN
  /\ req.pc = "warn"
  /\ warned' = IF Crosses(req.used, req.quantity, req.limit) THEN [warned EXCEPT ![req.period] = @ + 1] ELSE warned
  /\ reqs' = [reqs EXCEPT ![r].pc = "done"]
  /\ UNCHANGED <<period, limit, used, offered, edits>>

-----------------------------------------------------------------------------
(* Operators and the clock.                                                *)

NextPeriod ==
  /\ period < MaxPeriod
  /\ period' = period + 1
  /\ UNCHANGED <<limit, used, reqs, offered, warned, edits>>

UpdateEntitlement(lim) ==
  /\ edits < MaxEdits /\ lim # limit
  /\ limit' = lim
  /\ offered' = offered \cup {lim} /\ edits' = edits + 1
  /\ UNCHANGED <<period, used, reqs, warned>>

ResetUsageCounter(p) ==
  /\ edits < MaxEdits
  /\ used' = [used EXCEPT ![p] = 0]
  /\ edits' = edits + 1
  /\ UNCHANGED <<period, limit, reqs, offered, warned>>

Next ==
  \/ \E r \in Requests : \/ \E q \in Quantities : RecordUsage(r, q)
                         \/ IncrementUsageCounterWithLimit(r) \/ WarnQuota(r)
  \/ NextPeriod
  \/ \E lim \in Limits : UpdateEntitlement(lim)
  \/ \E p \in Periods : ResetUsageCounter(p)

Spec == Init /\ [][Next]_vars

-----------------------------------------------------------------------------
\* However many requests count at once, at a period's end and beside an
\* operator's edits, no period's counter passes the highest limit that was in
\* force, nor wraps (IncrementUsageCounterWithLimit).
QuotaHolds ==
  \A p \in Periods : used[p] <= MaxCount /\ (0 \notin offered => used[p] <= Max(offered))

\* While nobody edits the quota or resets its counter, calls that cross the
\* threshold together warn once between them, and one does (RecordUsage's
\* "Fire warning ONCE per crossing").
WarnsOnce ==
  edits = 0 =>
    \A p \in Periods :
      /\ warned[p] <= 1
      /\ limit > 0 /\ used[p] * 100 >= limit * WarnAt /\ (\A r \in Requests : reqs[r].pc # "warn") => warned[p] = 1

-----------------------------------------------------------------------------
\* Every limit read was in force, and one of those is the highest.
Offered ==
  /\ limit \in offered /\ \A r \in Requests : reqs[r].limit \in offered
  /\ \E m \in offered : \A l \in offered : l <= m

\* r counted over the threshold of p and has its warning still to send.
Owes(r, p) == /\ reqs[r].pc = "warn" /\ reqs[r].period = p
              /\ Crosses(reqs[r].used, reqs[r].quantity, reqs[r].limit)
Reached(p) == limit > 0 /\ used[p] * 100 >= limit * WarnAt

\* While nobody edits: once a counter has reached the threshold, the call that
\* took it there has warned or still owes the warning.
CrossedAt(p) ==
  /\ \A r, s \in Requests : Owes(r, p) /\ Owes(s, p) => r = s
  /\ \A r \in Requests : Owes(r, p) => Reached(p) /\ warned[p] = 0
  /\ warned[p] # 0 => warned[p] = 1 /\ Reached(p)
  /\ Reached(p) => warned[p] = 1 \/ \E r \in Requests : Owes(r, p)
Crossed ==
  edits = 0 =>
    /\ \A r \in Requests :
         reqs[r].limit = limit /\ (reqs[r].pc = "warn" => reqs[r].used <= used[reqs[r].period])
    /\ \A p \in Periods : CrossedAt(p)

UsageInv == TypeOK /\ QuotaHolds /\ Offered /\ Crossed
=============================================================================
