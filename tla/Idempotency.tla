---------------------------- MODULE Idempotency ----------------------------
(***************************************************************************)
(* One Idempotency-Key on one endpoint: the slot its requests share        *)
(* (internal/store/idempotency.go) and the middleware around the handler   *)
(* (internal/middleware/idempotency.go).  Keys do not affect each other.   *)
(*                                                                         *)
(* Claiming a slot is two statements, an INSERT and, when a row is there,  *)
(* a SELECT; completing or abandoning it follows the handler, after the    *)
(* client has its answer.  Other requests run between any two of them.     *)
(* Times are ages in ticks, counted up to one past the TTL.                *)
(***************************************************************************)
EXTENDS Integers, FiniteSets

CONSTANTS
  Requests,     \* requests with the key in flight at once
  Bodies,       \* bodies the client may send with it
  Answers,      \* 2xx and 4xx responses the handler may give
  TTL,          \* ticks until a slot expires (24 hours)
  Patience      \* ticks a request lasts at most

None == "none"
Failed == "failed"      \* a 5xx, or no response at all

IdempotencyAssumption ==
  /\ TTL \in Nat
  /\ Patience \in 0 .. TTL
  /\ {None, Failed} \cap (Answers \cup Bodies) = {}

VARIABLES
  row,          \* the idempotency_keys row
  reqs,         \* requests in flight
  given,        \* history: the last answer the handler gave each body
  doneAge,      \* history: age of the claim last answered
  rowless       \* history: a request has run the handler with no row of its own

vars == <<row, reqs, given, doneAge, rowless>>

Ages == 0 .. TTL + 1
Older(a) == IF a > TTL THEN a ELSE a + 1

\* response is None until response_complete.  orphan is history: the
\* request that made the row is gone without completing or abandoning it.
RowType == [body : Bodies \cup {None}, response : Answers \cup {None}, age : Ages, orphan : BOOLEAN]
NoRow == [body |-> None, response |-> None, age |-> 0, orphan |-> FALSE]

ReqType == [pc : {"idle", "reading", "running", "answered", "replayed"},
            body : Bodies \cup {None}, response : Answers \cup {None, Failed}, age : Ages]
Idle == [pc |-> "idle", body |-> None, response |-> None, age |-> 0]

TypeOK ==
  /\ row \in RowType
  /\ reqs \in [Requests -> ReqType]
  /\ given \in [Bodies -> Answers \cup {None}]
  /\ doneAge \in Ages
  /\ rowless \in BOOLEAN

Init ==
  /\ row = NoRow
  /\ reqs = [r \in Requests |-> Idle]
  /\ given = [b \in Bodies |-> None]
  /\ doneAge = TTL + 1
  /\ rowless = FALSE

Ends(r) == reqs' = [reqs EXCEPT ![r] = Idle]
History == <<given, doneAge, rowless>>

-----------------------------------------------------------------------------
(***************************************************************************)
(* Claiming the slot                                                       *)
(***************************************************************************)

FreshRow(b) == [NoRow EXCEPT !.body = b]

\* expires_at < now()
Expired == row # NoRow /\ row.age > TTL

\* MUTANT: a slot still in flight is taken over as well.
Claimable_InFlightToo == row = NoRow \/ Expired \/ row.response = None

\* The INSERT takes the slot: there is no row, or it takes over an expired one.
Claimable == row = NoRow \/ Expired

Claim(r, b) ==
  /\ reqs[r].pc = "idle"
  /\ Claimable
  /\ row' = FreshRow(b)
  /\ reqs' = [reqs EXCEPT ![r] = [Idle EXCEPT !.pc = "running", !.body = b]]
  /\ UNCHANGED History

\* The INSERT commits and the connection fails: the client gets a 500, and
\* nobody owns the row.
ClaimLost(r, b) ==
  /\ reqs[r].pc = "idle"
  /\ Claimable
  /\ row' = [FreshRow(b) EXCEPT !.orphan = TRUE]
  /\ UNCHANGED <<reqs, given, doneAge, rowless>>

\* The INSERT conflicts with a row that is still good.
Conflict(r, b) ==
  /\ reqs[r].pc = "idle"
  /\ ~Claimable
  /\ reqs' = [reqs EXCEPT ![r] = [Idle EXCEPT !.pc = "reading", !.body = b]]
  /\ UNCHANGED <<row, given, doneAge, rowless>>

\* The row is gone by the SELECT: "Treat as fresh", with no row.
ReadNothing(r) ==
  /\ reqs[r].pc = "reading"
  /\ row = NoRow
  /\ reqs' = [reqs EXCEPT ![r].pc = "running"]
  /\ rowless' = TRUE
  /\ UNCHANGED <<row, given, doneAge>>

SameBody(r) == row.body = reqs[r].body

\* 422 for another body, 409 while the first request is being processed.
Refuse(r) ==
  /\ reqs[r].pc = "reading"
  /\ row # NoRow
  /\ ~SameBody(r) \/ row.response = None
  /\ Ends(r)
  /\ UNCHANGED <<row, given, doneAge, rowless>>

Replay(r) ==
  /\ reqs[r].pc = "reading"
  /\ row # NoRow
  /\ SameBody(r)
  /\ row.response # None
  /\ reqs' = [reqs EXCEPT ![r].pc = "replayed", ![r].response = row.response]
  /\ UNCHANGED <<row, given, doneAge, rowless>>

Leave(r) ==
  /\ reqs[r].pc = "replayed"
  /\ Ends(r)
  /\ UNCHANGED <<row, given, doneAge, rowless>>

-----------------------------------------------------------------------------
(***************************************************************************)
(* Running the handler, then settling the slot                             *)
(***************************************************************************)

\* The handler writes a response, or panics before it has.
Handle(r, a) ==
  /\ reqs[r].pc = "running"
  /\ reqs' = [reqs EXCEPT ![r].pc = "answered", ![r].response = a]
  /\ IF a = Failed
     THEN UNCHANGED History
     ELSE /\ given' = [given EXCEPT ![reqs[r].body] = a]
          /\ doneAge' = reqs[r].age
          /\ UNCHANGED rowless
  /\ UNCHANGED row

\* MUTANT: only one kind of response is kept, 2xx say; the other is abandoned.
Cacheable_SuccessOnly(a) == a = CHOOSE b \in Answers : TRUE

\* Which responses are kept for later requests.
Cacheable(a) == a # Failed

\* IdempotencyComplete names the slot, not its claim.
Complete(r) ==
  /\ reqs[r].pc = "answered"
  /\ Cacheable(reqs[r].response)
  /\ row' = IF row = NoRow THEN NoRow ELSE [row EXCEPT !.response = reqs[r].response]
  /\ Ends(r)
  /\ UNCHANGED History

Abandon(r) ==
  /\ reqs[r].pc = "answered"
  /\ ~Cacheable(reqs[r].response)
  /\ row' = IF row # NoRow /\ row.response = None THEN NoRow ELSE row
  /\ Ends(r)
  /\ UNCHANGED History

\* The server stops, or the write that settles the slot fails: both leave the
\* row as it is.
Orphaned == IF row = NoRow THEN NoRow ELSE [row EXCEPT !.orphan = TRUE]

Crash(r) ==
  /\ reqs[r].pc \in {"running", "answered"}
  /\ row' = Orphaned
  /\ Ends(r)
  /\ UNCHANGED History

CrashReading(r) ==
  /\ reqs[r].pc = "reading"
  /\ Ends(r)
  /\ UNCHANGED <<row, given, doneAge, rowless>>

PruneExpired ==
  /\ Expired
  /\ row' = NoRow
  /\ UNCHANGED <<reqs, given, doneAge, rowless>>

\* No request outlasts Patience.
Tick ==
  /\ \A r \in Requests : reqs[r].pc # "idle" => reqs[r].age < Patience
  /\ row' = IF row = NoRow THEN NoRow ELSE [row EXCEPT !.age = Older(row.age)]
  /\ reqs' = [r \in Requests |->
       IF reqs[r].pc = "idle" THEN reqs[r] ELSE [reqs[r] EXCEPT !.age = Older(@)]]
  /\ doneAge' = Older(doneAge)
  /\ UNCHANGED <<given, rowless>>

Next ==
  \/ \E r \in Requests, b \in Bodies : Claim(r, b) \/ ClaimLost(r, b) \/ Conflict(r, b)
  \/ \E r \in Requests : ReadNothing(r) \/ Refuse(r) \/ Replay(r) \/ Leave(r)
  \/ \E r \in Requests, a \in Answers \cup {Failed} : Handle(r, a)
  \/ \E r \in Requests : Complete(r) \/ Abandon(r) \/ Crash(r) \/ CrashReading(r)
  \/ PruneExpired
  \/ Tick

Spec == Init /\ [][Next]_vars

-----------------------------------------------------------------------------
(***************************************************************************)
(* Properties                                                              *)
(***************************************************************************)

Running(r) == reqs[r].pc \in {"running", "answered"}

\* The handler runs for one request with the key at a time, whatever other
\* requests claim, crash or expire, as long as no request met a row at its
\* INSERT that was gone by its SELECT; and a slot in flight belongs to a
\* request that is still being handled, unless a server stopped or a write
\* failed: a panic or a 5xx always frees it.
OneClaimantRuns ==
  /\ ~rowless => \A r, s \in Requests : Running(r) /\ Running(s) => r = s
  /\ row # NoRow /\ row.response = None /\ ~row.orphan => \E r \in Requests : Running(r)

\* Once the handler has answered a request 2xx or 4xx, it does not run again
\* for that key until the claim's TTL is over: not after a crash between
\* the answer and the write that records it, and not for another body.  A
\* replayed response is the one the handler gave to the same body.
RunsOncePerLifetime ==
  \A r \in Requests :
    /\ reqs[r].pc # "running" /\ reqs'[r].pc = "running" /\ ~rowless' => doneAge > TTL
    /\ reqs[r].pc # "replayed" /\ reqs'[r].pc = "replayed" /\ ~rowless
         => reqs'[r].response = given[reqs[r].body]

-----------------------------------------------------------------------------
\* What keeps the row and the requests together.  While no request has run
\* without a row of its own: who runs holds the row, made with its body and as
\* old as its claim, and not answered yet; the last answer is as old as the
\* row; and what a row or a request remembers is what was last given.
Held ==
  /\ row # NoRow => row.body # None
  /\ \A r \in Requests :
       /\ reqs[r].pc # "idle" => reqs[r].body # None /\ reqs[r].age <= Patience
       /\ reqs[r].pc = "answered" => reqs[r].response # None
RowIsRunners(r) ==
  /\ row # NoRow /\ row.body = reqs[r].body /\ row.age = reqs[r].age /\ row.response = None
  /\ doneAge <= TTL => reqs[r].pc = "answered" /\ reqs[r].response # Failed
  /\ reqs[r].pc = "answered" /\ reqs[r].response # Failed => given[reqs[r].body] = reqs[r].response
Remembers ==
  ~rowless =>
    /\ \A r \in Requests : Running(r) => RowIsRunners(r)
    /\ doneAge <= TTL => row # NoRow /\ row.age = doneAge
    /\ row # NoRow /\ row.response # None => given[row.body] = row.response

IdempotencyInv == TypeOK /\ Held /\ Remembers /\ OneClaimantRuns
=============================================================================
