----------------------------- MODULE Accounts -----------------------------
(***************************************************************************)
(* What requests of one account contend for: floating sessions,            *)
(* idempotency keys, quotas, sign-in codes, refresh tokens, the owners of   *)
(* an install and free licences.  They share no state, so a behaviour is    *)
(* one of them, the part chosen at the start.  The parts use the same nine  *)
(* variables; those a part has no use for are Off.                          *)
(***************************************************************************)
EXTENDS Integers, FiniteSets

CONSTANTS
  Clients, Calls,                   \* clients, and calls of theirs, of any part
  \* Floating
  Seats, SessionLimits, Timeout, MaxClock, MaxKey,
  \* Idempotency
  Answers, TTL, Patience,
  \* Usage
  Reports, Quantities, Quotas, MaxCount, MaxPeriod, WarnAt, MaxQuotaEdits,
  \* Codes
  Guesses, MaxOTPAttempts, MaxRecent,
  \* Tokens
  Grace, Delay, MaxLosses, MaxTime, MaxTokens,
  \* Owners
  Users, Listed, First, MaxBoots,
  \* Signup
  Claims, Caps, MaxDay, MaxPlanEdits

VARIABLES part, v1, v2, v3, v4, v5, v6, v7, v8, v9
vars == <<part, v1, v2, v3, v4, v5, v6, v7, v8, v9>>

Floating == INSTANCE Floating WITH
  Machines <- Clients, Requests <- Calls, Limits <- SessionLimits,
  clock <- v1, stopped <- v2, limit <- v3, keys <- v4, sessions <- v5, reqs <- v6
Idempotency == INSTANCE Idempotency WITH
  Requests <- Calls, Bodies <- Clients,
  row <- v1, reqs <- v2, given <- v3, doneAge <- v4, rowless <- v5
Usage == INSTANCE Usage WITH
  Requests <- Reports, Limits <- Quotas, MaxEdits <- MaxQuotaEdits,
  period <- v1, limit <- v2, used <- v3, reqs <- v4, offered <- v5, warned <- v6, edits <- v7
Codes == INSTANCE Codes WITH
  Sends <- Calls,
  codes <- v1, sends <- v2, guesses <- v3, open <- v4
Tokens == INSTANCE Tokens WITH
  Tabs <- Clients,
  now <- v1, tokens <- v2, jar <- v3, tabs <- v4, alarm <- v5, losses <- v6, closed <- v7
Owners == INSTANCE Owners WITH
  Changes <- Calls, Setups <- Clients,
  roles <- v1, changes <- v2, setups <- v3, logins <- v4, boot <- v5, installed <- v6,
  boots <- v7, owned <- v8, done <- v9
Signup == INSTANCE Signup WITH
  Emails <- Clients, MaxEdits <- MaxPlanEdits,
  day <- v1, plan <- v2, claims <- v3, licences <- v4, accounts <- v5, caps <- v6, edits <- v7

ASSUME AccountsAssumption ==
  /\ Floating!FloatingAssumption /\ Idempotency!IdempotencyAssumption
  /\ Usage!UsageAssumption /\ Codes!CodesAssumption
  /\ Tokens!TokensAssumption /\ Owners!OwnersAssumption /\ Signup!SignupAssumption

-----------------------------------------------------------------------------
Off == "off"

Init ==
  \/ part = "floating" /\ Floating!Init /\ v7 = Off /\ v8 = Off /\ v9 = Off
  \/ part = "idempotency" /\ Idempotency!Init /\ v6 = Off /\ v7 = Off /\ v8 = Off /\ v9 = Off
  \/ part = "usage" /\ Usage!Init /\ v8 = Off /\ v9 = Off
  \/ part = "codes" /\ Codes!Init /\ v5 = Off /\ v6 = Off /\ v7 = Off /\ v8 = Off /\ v9 = Off
  \/ part = "tokens" /\ Tokens!Init /\ v8 = Off /\ v9 = Off
  \/ part = "owners" /\ Owners!Init
  \/ part = "signup" /\ Signup!Init /\ v8 = Off /\ v9 = Off

Next ==
  \/ part = "floating" /\ Floating!Next /\ UNCHANGED <<part, v7, v8, v9>>
  \/ part = "idempotency" /\ Idempotency!Next /\ UNCHANGED <<part, v6, v7, v8, v9>>
  \/ part = "usage" /\ Usage!Next /\ UNCHANGED <<part, v8, v9>>
  \/ part = "codes" /\ Codes!Next /\ UNCHANGED <<part, v5, v6, v7, v8, v9>>
  \/ part = "tokens" /\ Tokens!Next /\ UNCHANGED <<part, v8, v9>>
  \/ part = "owners" /\ Owners!Next /\ UNCHANGED part
  \/ part = "signup" /\ Signup!Next /\ UNCHANGED <<part, v8, v9>>

Spec == Init /\ [][Next]_vars

-----------------------------------------------------------------------------
\* A floating session is on a working licence and a key its holder still has:
\* a stop, a rotation or a removal ends it for good (Floating).
SessionsOnWorkingKeys == part = "floating" => Floating!TypeOK /\ Floating!SessionsOnWorkingKeys

\* Checkouts and heartbeats that race never bring the running sessions over
\* the limit, nor hand a running session to another holder (Floating).
SessionsWithinCap == [][part = "floating" => Floating!StaysWithinCap]_vars

\* One request with an idempotency key runs the handler at a time, and a slot
\* in flight has its request, short of a crash (Idempotency).
OneClaimantRuns == part = "idempotency" => Idempotency!TypeOK /\ Idempotency!OneClaimantRuns

\* An answered handler does not run again while the slot lives, and a replay
\* is the answer it gave to that body (Idempotency).
RunsOncePerLifetime == [][part = "idempotency" => Idempotency!RunsOncePerLifetime]_vars

\* Calls that count at once keep a period's counter within the quota and its
\* width, and warn of the threshold once (Usage).
QuotaHolds == part = "usage" => Usage!TypeOK /\ Usage!QuotaHolds /\ Usage!WarnsOnce

\* A one-time code is compared with no more guesses than it allows, and signs
\* in one (Codes).
CodesAreSpent == part = "codes" => Codes!TypeOK /\ Codes!CodesAreSpent

\* Tabs, lost answers and retries never look like theft, nor leave the
\* browser with a cookie that no longer renews (Tokens).
RidesOutLosses == part = "tokens" => Tokens!TypeOK /\ Tokens!RidesOutLosses

\* An install keeps an owner and is set up once (Owners).
OwnedForGood == part = "owners" => Owners!TypeOK /\ Owners!OwnedForGood

\* Free licences stay within one per address and the cap of the day (Signup).
ClaimsAreLimited == part = "signup" => Signup!TypeOK /\ Signup!ClaimsAreLimited
=============================================================================
