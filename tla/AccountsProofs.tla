--------------------------- MODULE AccountsProofs ---------------------------
(***************************************************************************)
(* The parts of Accounts, one at a time: each keeps its inductive          *)
(* invariant, from which the properties of the runs follow.  A behaviour   *)
(* is one part's, so the last section puts the parts together.             *)
(***************************************************************************)
EXTENDS Accounts, FiniteSetTheorems, NaturalsInduction, WellFoundedInduction, SequenceTheorems, TLAPS

-----------------------------------------------------------------------------
(***************************************************************************)
(* Idempotency keys                                                        *)
(***************************************************************************)

\* No key is claimed yet.
LEMMA IdempotencyInit == Idempotency!Init => Idempotency!IdempotencyInv
<1> SUFFICES ASSUME Idempotency!Init PROVE Idempotency!IdempotencyInv
  OBVIOUS
<1> USE AccountsAssumption DEF Idempotency!IdempotencyAssumption, Idempotency!Init,
      Idempotency!Idle, Idempotency!NoRow, Idempotency!None, Idempotency!Failed, Idempotency!Ages
<1>0. TTL + 1 \in 0 .. TTL + 1 /\ 0 \in 0 .. TTL + 1
  OBVIOUS
<1>1. Idempotency!TypeOK
  BY <1>0 DEF Idempotency!TypeOK, Idempotency!RowType, Idempotency!ReqType
<1>2. Idempotency!Held /\ Idempotency!Remembers /\ Idempotency!OneClaimantRuns
  BY DEF Idempotency!Held, Idempotency!Remembers, Idempotency!OneClaimantRuns,
     Idempotency!RowIsRunners, Idempotency!Running
<1> QED BY <1>1, <1>2 DEF Idempotency!IdempotencyInv

\* Every step of a claim, of its handler and of its expiry keeps who holds the
\* slot and what it remembers; the handler runs once in the lifetime of a slot.
LEMMA IdempotencyStep ==
  ASSUME Idempotency!IdempotencyInv, [Idempotency!Next]_(Idempotency!vars)
  PROVE  Idempotency!IdempotencyInv' /\ Idempotency!RunsOncePerLifetime
<1> DEFINE row == v1  reqs == v2  given == v3  doneAge == v4  rowless == v5
<1> USE AccountsAssumption DEF Idempotency!IdempotencyAssumption,
      Idempotency!Idle, Idempotency!NoRow, Idempotency!None, Idempotency!Failed,
      Idempotency!RowType, Idempotency!ReqType, Idempotency!History, Idempotency!Ends
<1>t. Idempotency!TypeOK /\ Idempotency!Held /\ Idempotency!Remembers /\ Idempotency!OneClaimantRuns
  BY DEF Idempotency!IdempotencyInv
<1>a. 0 \in Idempotency!Ages /\ Idempotency!Ages \subseteq Int
  BY DEF Idempotency!Ages
<1> USE <1>a
\* Claim
<1>1. ASSUME NEW r \in Calls, NEW b \in Clients, Idempotency!Claim(r, b)
      PROVE  Idempotency!IdempotencyInv' /\ Idempotency!RunsOncePerLifetime
  <2> USE <1>1, <1>t DEF Idempotency!Claim, Idempotency!FreshRow, Idempotency!Claimable, Idempotency!Expired
  <2>1. Idempotency!TypeOK'
    BY DEF Idempotency!TypeOK
  <2>2. Idempotency!Held'
    BY DEF Idempotency!Held, Idempotency!TypeOK
  <2>3. Idempotency!Remembers'
    BY DEF Idempotency!Remembers, Idempotency!TypeOK, Idempotency!RowIsRunners, Idempotency!Running, Idempotency!Held
  <2>4. Idempotency!OneClaimantRuns'
    BY DEF Idempotency!Remembers, Idempotency!TypeOK, Idempotency!RowIsRunners, Idempotency!Running, Idempotency!Held, Idempotency!OneClaimantRuns
  <2>5. Idempotency!RunsOncePerLifetime
    BY DEF Idempotency!Remembers, Idempotency!TypeOK, Idempotency!RunsOncePerLifetime, Idempotency!Running
  <2> QED BY <2>1, <2>2, <2>3, <2>4, <2>5 DEF Idempotency!IdempotencyInv
\* ClaimLost
<1>2. ASSUME NEW r \in Calls, NEW b \in Clients, Idempotency!ClaimLost(r, b)
      PROVE  Idempotency!IdempotencyInv' /\ Idempotency!RunsOncePerLifetime
  <2> USE <1>2, <1>t DEF Idempotency!ClaimLost, Idempotency!FreshRow, Idempotency!Claimable, Idempotency!Expired
  <2>1. Idempotency!TypeOK'
    BY DEF Idempotency!TypeOK
  <2>2. Idempotency!Held'
    BY DEF Idempotency!Held, Idempotency!TypeOK
  <2>3. Idempotency!Remembers'
    BY DEF Idempotency!Remembers, Idempotency!TypeOK, Idempotency!RowIsRunners, Idempotency!Running, Idempotency!Held
  <2>4. Idempotency!OneClaimantRuns'
    BY DEF Idempotency!Remembers, Idempotency!TypeOK, Idempotency!RowIsRunners, Idempotency!Running, Idempotency!Held, Idempotency!OneClaimantRuns
  <2>5. Idempotency!RunsOncePerLifetime
    BY DEF Idempotency!Remembers, Idempotency!TypeOK, Idempotency!RunsOncePerLifetime, Idempotency!Running
  <2> QED BY <2>1, <2>2, <2>3, <2>4, <2>5 DEF Idempotency!IdempotencyInv
\* Conflict
<1>3. ASSUME NEW r \in Calls, NEW b \in Clients, Idempotency!Conflict(r, b)
      PROVE  Idempotency!IdempotencyInv' /\ Idempotency!RunsOncePerLifetime
  <2> USE <1>3, <1>t DEF Idempotency!Conflict, Idempotency!Claimable, Idempotency!Expired
  <2>1. Idempotency!TypeOK'
    BY DEF Idempotency!TypeOK
  <2>2. Idempotency!Held'
    BY DEF Idempotency!Held, Idempotency!TypeOK
  <2>3. Idempotency!Remembers'
    BY DEF Idempotency!Remembers, Idempotency!TypeOK, Idempotency!RowIsRunners, Idempotency!Running, Idempotency!Held
  <2>4. Idempotency!OneClaimantRuns'
    BY DEF Idempotency!Remembers, Idempotency!TypeOK, Idempotency!RowIsRunners, Idempotency!Running, Idempotency!Held, Idempotency!OneClaimantRuns
  <2>5. Idempotency!RunsOncePerLifetime
    BY DEF Idempotency!Remembers, Idempotency!TypeOK, Idempotency!RunsOncePerLifetime, Idempotency!Running
  <2> QED BY <2>1, <2>2, <2>3, <2>4, <2>5 DEF Idempotency!IdempotencyInv
\* ReadNothing
<1>4. ASSUME NEW r \in Calls, Idempotency!ReadNothing(r)
      PROVE  Idempotency!IdempotencyInv' /\ Idempotency!RunsOncePerLifetime
  <2> USE <1>4, <1>t DEF Idempotency!ReadNothing
  <2>1. Idempotency!TypeOK'
    BY DEF Idempotency!TypeOK
  <2>2. Idempotency!Held'
    BY DEF Idempotency!Held, Idempotency!TypeOK
  <2>3. Idempotency!Remembers'
    BY DEF Idempotency!Remembers, Idempotency!TypeOK, Idempotency!RowIsRunners, Idempotency!Running, Idempotency!Held
  <2>4. Idempotency!OneClaimantRuns'
    BY DEF Idempotency!Remembers, Idempotency!TypeOK, Idempotency!RowIsRunners, Idempotency!Running, Idempotency!Held, Idempotency!OneClaimantRuns
  <2>5. Idempotency!RunsOncePerLifetime
    BY DEF Idempotency!Remembers, Idempotency!TypeOK, Idempotency!RunsOncePerLifetime, Idempotency!Running
  <2> QED BY <2>1, <2>2, <2>3, <2>4, <2>5 DEF Idempotency!IdempotencyInv
\* Refuse
<1>5. ASSUME NEW r \in Calls, Idempotency!Refuse(r)
      PROVE  Idempotency!IdempotencyInv' /\ Idempotency!RunsOncePerLifetime
  <2> USE <1>5, <1>t DEF Idempotency!Refuse
  <2>1. Idempotency!TypeOK'
    BY DEF Idempotency!TypeOK
  <2>2. Idempotency!Held'
    BY DEF Idempotency!Held, Idempotency!TypeOK
  <2>3. Idempotency!Remembers'
    BY DEF Idempotency!Remembers, Idempotency!TypeOK, Idempotency!RowIsRunners, Idempotency!Running, Idempotency!Held
  <2>4. Idempotency!OneClaimantRuns'
    BY DEF Idempotency!Remembers, Idempotency!TypeOK, Idempotency!RowIsRunners, Idempotency!Running, Idempotency!Held, Idempotency!OneClaimantRuns
  <2>5. Idempotency!RunsOncePerLifetime
    BY DEF Idempotency!Remembers, Idempotency!TypeOK, Idempotency!RunsOncePerLifetime, Idempotency!Running
  <2> QED BY <2>1, <2>2, <2>3, <2>4, <2>5 DEF Idempotency!IdempotencyInv
\* Replay
<1>6. ASSUME NEW r \in Calls, Idempotency!Replay(r)
      PROVE  Idempotency!IdempotencyInv' /\ Idempotency!RunsOncePerLifetime
  <2> USE <1>6, <1>t DEF Idempotency!Replay, Idempotency!SameBody
  <2>1. Idempotency!TypeOK'
    <3> DEFINE p == [reqs[r] EXCEPT !.pc = "replayed", !.response = row.response]
    <3>1. p \in Idempotency!ReqType
      BY DEF Idempotency!TypeOK
    <3>2. v2' = [v2 EXCEPT ![r] = p]
      BY DEF Idempotency!TypeOK
    <3> QED BY <3>1, <3>2 DEF Idempotency!TypeOK
  <2>2. Idempotency!Held'
    BY DEF Idempotency!Held, Idempotency!TypeOK
  <2>3. Idempotency!Remembers'
    BY DEF Idempotency!Remembers, Idempotency!TypeOK, Idempotency!RowIsRunners, Idempotency!Running, Idempotency!Held
  <2>4. Idempotency!OneClaimantRuns'
    BY DEF Idempotency!Remembers, Idempotency!TypeOK, Idempotency!RowIsRunners, Idempotency!Running, Idempotency!Held, Idempotency!OneClaimantRuns
  <2>5. Idempotency!RunsOncePerLifetime
    BY DEF Idempotency!Remembers, Idempotency!TypeOK, Idempotency!RunsOncePerLifetime, Idempotency!Running
  <2> QED BY <2>1, <2>2, <2>3, <2>4, <2>5 DEF Idempotency!IdempotencyInv
\* Leave
<1>7. ASSUME NEW r \in Calls, Idempotency!Leave(r)
      PROVE  Idempotency!IdempotencyInv' /\ Idempotency!RunsOncePerLifetime
  <2> USE <1>7, <1>t DEF Idempotency!Leave
  <2>1. Idempotency!TypeOK'
    BY DEF Idempotency!TypeOK
  <2>2. Idempotency!Held'
    BY DEF Idempotency!Held, Idempotency!TypeOK
  <2>3. Idempotency!Remembers'
    BY DEF Idempotency!Remembers, Idempotency!TypeOK, Idempotency!RowIsRunners, Idempotency!Running, Idempotency!Held
  <2>4. Idempotency!OneClaimantRuns'
    BY DEF Idempotency!Remembers, Idempotency!TypeOK, Idempotency!RowIsRunners, Idempotency!Running, Idempotency!Held, Idempotency!OneClaimantRuns
  <2>5. Idempotency!RunsOncePerLifetime
    BY DEF Idempotency!Remembers, Idempotency!TypeOK, Idempotency!RunsOncePerLifetime, Idempotency!Running
  <2> QED BY <2>1, <2>2, <2>3, <2>4, <2>5 DEF Idempotency!IdempotencyInv
\* Handle
<1>8. ASSUME NEW r \in Calls, NEW a \in Answers \cup {Idempotency!Failed}, Idempotency!Handle(r, a)
      PROVE  Idempotency!IdempotencyInv' /\ Idempotency!RunsOncePerLifetime
  <2> USE <1>8, <1>t DEF Idempotency!Handle
  <2>1. Idempotency!TypeOK'
    <3> DEFINE p == [reqs[r] EXCEPT !.pc = "answered", !.response = a]
    <3>1. p \in Idempotency!ReqType
      BY DEF Idempotency!TypeOK
    <3>2. v2' = [v2 EXCEPT ![r] = p]
      BY DEF Idempotency!TypeOK
    <3>3. reqs[r].body \in Clients /\ reqs[r].age \in Idempotency!Ages
      BY DEF Idempotency!TypeOK, Idempotency!Held
    <3> QED BY <3>1, <3>2, <3>3 DEF Idempotency!TypeOK
  <2>2. Idempotency!Held'
    BY DEF Idempotency!Held, Idempotency!TypeOK
  <2>3. Idempotency!Remembers'
    <3> SUFFICES ASSUME ~rowless PROVE Idempotency!Remembers'
      BY DEF Idempotency!Remembers
    <3>1. Idempotency!RowIsRunners(r) /\ Idempotency!Running(r) /\ reqs[r].body \in Clients
      BY DEF Idempotency!Remembers, Idempotency!Running, Idempotency!TypeOK, Idempotency!Held
    <3>2. reqs'[r].pc = "answered" /\ reqs'[r].response = a /\ reqs'[r].body = reqs[r].body /\ reqs'[r].age = reqs[r].age
      BY DEF Idempotency!TypeOK
    <3>3. \A q \in Calls : q # r => reqs'[q] = reqs[q] /\ ~Idempotency!Running(q)
      BY <3>1 DEF Idempotency!TypeOK, Idempotency!OneClaimantRuns
    <3>4. CASE a = Idempotency!Failed
      BY <3>1, <3>2, <3>3, <3>4 DEF Idempotency!Remembers, Idempotency!RowIsRunners, Idempotency!Running
    <3>5. CASE a # Idempotency!Failed
      <4>1. row' = row /\ doneAge' = reqs[r].age /\ given' = [given EXCEPT ![reqs[r].body] = a]
        BY <3>5
      <4>2. given'[reqs[r].body] = a
        BY <4>1, <3>1 DEF Idempotency!TypeOK
      <4> QED BY <4>1, <4>2, <3>1, <3>2, <3>3, <3>5 DEF Idempotency!Remembers, Idempotency!RowIsRunners, Idempotency!Running
    <3> QED BY <3>4, <3>5
  <2>4. Idempotency!OneClaimantRuns'
    BY DEF Idempotency!Remembers, Idempotency!TypeOK, Idempotency!RowIsRunners, Idempotency!Running, Idempotency!Held, Idempotency!OneClaimantRuns
  <2>5. Idempotency!RunsOncePerLifetime
    BY DEF Idempotency!Remembers, Idempotency!TypeOK, Idempotency!RunsOncePerLifetime, Idempotency!Running
  <2> QED BY <2>1, <2>2, <2>3, <2>4, <2>5 DEF Idempotency!IdempotencyInv
\* Complete
<1>9. ASSUME NEW r \in Calls, Idempotency!Complete(r)
      PROVE  Idempotency!IdempotencyInv' /\ Idempotency!RunsOncePerLifetime
  <2> USE <1>9, <1>t DEF Idempotency!Complete, Idempotency!Cacheable
  <2>1. Idempotency!TypeOK'
    BY DEF Idempotency!TypeOK
  <2>2. Idempotency!Held'
    BY DEF Idempotency!Held, Idempotency!TypeOK
  <2>3. Idempotency!Remembers'
    <3> SUFFICES ASSUME ~rowless PROVE Idempotency!Remembers'
      BY DEF Idempotency!Remembers
    <3>1. Idempotency!RowIsRunners(r) /\ Idempotency!Running(r)
      BY DEF Idempotency!Remembers, Idempotency!Running
    <3>2. \A q \in Calls : ~Idempotency!Running(q)'
      BY <3>1 DEF Idempotency!TypeOK, Idempotency!OneClaimantRuns, Idempotency!Running
    <3>3. row # Idempotency!NoRow /\ row.response = Idempotency!None /\ row.body = reqs[r].body /\ reqs[r].pc = "answered"
      BY <3>1 DEF Idempotency!RowIsRunners
    <3>4. row'.response = reqs[r].response /\ row'.body = row.body /\ row'.age = row.age /\ row' # Idempotency!NoRow
      BY <3>3 DEF Idempotency!TypeOK, Idempotency!Held
    <3>5. given[reqs[r].body] = reqs[r].response
      BY <3>1, <3>3 DEF Idempotency!RowIsRunners
    <3> QED BY <3>2, <3>3, <3>4, <3>5 DEF Idempotency!Remembers
  <2>4. Idempotency!OneClaimantRuns'
    BY DEF Idempotency!Remembers, Idempotency!TypeOK, Idempotency!RowIsRunners, Idempotency!Running, Idempotency!Held, Idempotency!OneClaimantRuns
  <2>5. Idempotency!RunsOncePerLifetime
    BY DEF Idempotency!Remembers, Idempotency!TypeOK, Idempotency!RunsOncePerLifetime, Idempotency!Running
  <2> QED BY <2>1, <2>2, <2>3, <2>4, <2>5 DEF Idempotency!IdempotencyInv
\* Abandon
<1>10. ASSUME NEW r \in Calls, Idempotency!Abandon(r)
      PROVE  Idempotency!IdempotencyInv' /\ Idempotency!RunsOncePerLifetime
  <2> USE <1>10, <1>t DEF Idempotency!Abandon, Idempotency!Cacheable
  <2>1. Idempotency!TypeOK'
    BY DEF Idempotency!TypeOK
  <2>2. Idempotency!Held'
    BY DEF Idempotency!Held, Idempotency!TypeOK
  <2>3. Idempotency!Remembers'
    <3> SUFFICES ASSUME ~rowless PROVE Idempotency!Remembers'
      BY DEF Idempotency!Remembers
    <3>1. Idempotency!RowIsRunners(r) /\ Idempotency!Running(r)
      BY DEF Idempotency!Remembers, Idempotency!Running
    <3>2. \A q \in Calls : ~Idempotency!Running(q)'
      BY <3>1 DEF Idempotency!TypeOK, Idempotency!OneClaimantRuns, Idempotency!Running
    <3>3. row # Idempotency!NoRow /\ row.response = Idempotency!None /\ row.body = reqs[r].body /\ reqs[r].pc = "answered"
      BY <3>1 DEF Idempotency!RowIsRunners
    <3>4. row' = Idempotency!NoRow /\ ~(doneAge <= TTL)
      BY <3>1, <3>3 DEF Idempotency!RowIsRunners
    <3> QED BY <3>2, <3>4 DEF Idempotency!Remembers
  <2>4. Idempotency!OneClaimantRuns'
    BY DEF Idempotency!Remembers, Idempotency!TypeOK, Idempotency!RowIsRunners, Idempotency!Running, Idempotency!Held, Idempotency!OneClaimantRuns
  <2>5. Idempotency!RunsOncePerLifetime
    BY DEF Idempotency!Remembers, Idempotency!TypeOK, Idempotency!RunsOncePerLifetime, Idempotency!Running
  <2> QED BY <2>1, <2>2, <2>3, <2>4, <2>5 DEF Idempotency!IdempotencyInv
\* Crash
<1>11. ASSUME NEW r \in Calls, Idempotency!Crash(r)
      PROVE  Idempotency!IdempotencyInv' /\ Idempotency!RunsOncePerLifetime
  <2> USE <1>11, <1>t DEF Idempotency!Crash, Idempotency!Orphaned
  <2>1. Idempotency!TypeOK'
    BY DEF Idempotency!TypeOK
  <2>2. Idempotency!Held'
    BY DEF Idempotency!Held, Idempotency!TypeOK
  <2>3. Idempotency!Remembers'
    BY DEF Idempotency!Remembers, Idempotency!TypeOK, Idempotency!RowIsRunners, Idempotency!Running, Idempotency!Held
  <2>4. Idempotency!OneClaimantRuns'
    BY DEF Idempotency!Remembers, Idempotency!TypeOK, Idempotency!RowIsRunners, Idempotency!Running, Idempotency!Held, Idempotency!OneClaimantRuns
  <2>5. Idempotency!RunsOncePerLifetime
    BY DEF Idempotency!Remembers, Idempotency!TypeOK, Idempotency!RunsOncePerLifetime, Idempotency!Running
  <2> QED BY <2>1, <2>2, <2>3, <2>4, <2>5 DEF Idempotency!IdempotencyInv
\* CrashReading
<1>12. ASSUME NEW r \in Calls, Idempotency!CrashReading(r)
      PROVE  Idempotency!IdempotencyInv' /\ Idempotency!RunsOncePerLifetime
  <2> USE <1>12, <1>t DEF Idempotency!CrashReading
  <2>1. Idempotency!TypeOK'
    BY DEF Idempotency!TypeOK
  <2>2. Idempotency!Held'
    BY DEF Idempotency!Held, Idempotency!TypeOK
  <2>3. Idempotency!Remembers'
    BY DEF Idempotency!Remembers, Idempotency!TypeOK, Idempotency!RowIsRunners, Idempotency!Running, Idempotency!Held
  <2>4. Idempotency!OneClaimantRuns'
    BY DEF Idempotency!Remembers, Idempotency!TypeOK, Idempotency!RowIsRunners, Idempotency!Running, Idempotency!Held, Idempotency!OneClaimantRuns
  <2>5. Idempotency!RunsOncePerLifetime
    BY DEF Idempotency!Remembers, Idempotency!TypeOK, Idempotency!RunsOncePerLifetime, Idempotency!Running
  <2> QED BY <2>1, <2>2, <2>3, <2>4, <2>5 DEF Idempotency!IdempotencyInv
\* PruneExpired
<1>13. ASSUME Idempotency!PruneExpired
      PROVE  Idempotency!IdempotencyInv' /\ Idempotency!RunsOncePerLifetime
  <2> USE <1>13, <1>t DEF Idempotency!PruneExpired, Idempotency!Expired
  <2>1. Idempotency!TypeOK'
    BY DEF Idempotency!TypeOK
  <2>2. Idempotency!Held'
    BY DEF Idempotency!Held, Idempotency!TypeOK
  <2>3. Idempotency!Remembers'
    <3> SUFFICES ASSUME ~rowless PROVE Idempotency!Remembers'
      BY DEF Idempotency!Remembers
    <3>1. ASSUME NEW r \in Calls, Idempotency!Running(r) PROVE FALSE
      <4>1. row.age = reqs[r].age
        BY <3>1 DEF Idempotency!Remembers, Idempotency!RowIsRunners
      <4>2. reqs[r].age <= Patience
        BY <3>1 DEF Idempotency!Held, Idempotency!Running
      <4>3. row.age \in Int
        BY DEF Idempotency!TypeOK
      <4>4. ~(row.age <= TTL)
        BY <4>3
      <4> QED BY <4>1, <4>2, <4>3, <4>4
    <3>2. ~(doneAge <= TTL)
      BY DEF Idempotency!Remembers, Idempotency!TypeOK
    <3> QED BY <3>1, <3>2 DEF Idempotency!Remembers, Idempotency!Running
  <2>4. Idempotency!OneClaimantRuns'
    BY DEF Idempotency!Remembers, Idempotency!TypeOK, Idempotency!RowIsRunners, Idempotency!Running, Idempotency!Held, Idempotency!OneClaimantRuns
  <2>5. Idempotency!RunsOncePerLifetime
    BY DEF Idempotency!Remembers, Idempotency!TypeOK, Idempotency!RunsOncePerLifetime, Idempotency!Running
  <2> QED BY <2>1, <2>2, <2>3, <2>4, <2>5 DEF Idempotency!IdempotencyInv
\* Tick
<1>14. ASSUME Idempotency!Tick
      PROVE  Idempotency!IdempotencyInv' /\ Idempotency!RunsOncePerLifetime
  <2> USE <1>14, <1>t DEF Idempotency!Tick, Idempotency!Older, Idempotency!Ages
  <2>1. Idempotency!TypeOK'
    BY DEF Idempotency!TypeOK
  <2>2. Idempotency!Held'
    BY DEF Idempotency!Held, Idempotency!TypeOK
  <2>3. Idempotency!Remembers'
    <3> HIDE DEF Idempotency!Older
    <3>1. \A n \in Idempotency!Ages : Idempotency!Older(n) <= TTL => n <= TTL
      BY DEF Idempotency!Older
    <3>2. \A r \in Calls : Idempotency!Running(r) =>
            reqs'[r] = [reqs[r] EXCEPT !.age = Idempotency!Older(reqs[r].age)]
      BY DEF Idempotency!Running
    <3>3. row # Idempotency!NoRow => /\ row' = [row EXCEPT !.age = Idempotency!Older(row.age)]
                                     /\ row' # Idempotency!NoRow
      BY DEF Idempotency!Held, Idempotency!TypeOK
    <3>4. doneAge' = Idempotency!Older(doneAge) /\ doneAge \in Idempotency!Ages
          /\ given' = given /\ rowless' = rowless
      BY DEF Idempotency!TypeOK
    <3> SUFFICES ASSUME ~rowless PROVE Idempotency!Remembers'
      BY <3>4 DEF Idempotency!Remembers
    <3>5. doneAge' <= TTL => row' # Idempotency!NoRow /\ row'.age = doneAge'
      <4>1. doneAge' <= TTL => doneAge <= TTL
        BY <3>1, <3>4
      <4>2. doneAge <= TTL => row # Idempotency!NoRow /\ row.age = doneAge
        BY DEF Idempotency!Remembers
      <4> QED BY <4>1, <4>2, <3>3, <3>4 DEF Idempotency!TypeOK
    <3>6. ASSUME NEW r \in Calls, Idempotency!Running(r)'
          PROVE  Idempotency!RowIsRunners(r)'
      <4>1. Idempotency!Running(r) /\ Idempotency!RowIsRunners(r)
        BY <3>6 DEF Idempotency!Remembers, Idempotency!Running, Idempotency!TypeOK
      <4>2. doneAge' <= TTL => doneAge <= TTL
        BY <3>1, <3>4
      <4>3. /\ row'.body = row.body /\ row'.response = row.response
            /\ row'.age = Idempotency!Older(row.age) /\ row' # Idempotency!NoRow
        BY <4>1, <3>3 DEF Idempotency!TypeOK, Idempotency!RowIsRunners
      <4>4. /\ reqs'[r].pc = reqs[r].pc /\ reqs'[r].body = reqs[r].body
            /\ reqs'[r].response = reqs[r].response /\ reqs'[r].age = Idempotency!Older(reqs[r].age)
        <5>1. reqs[r] \in Idempotency!ReqType
          BY DEF Idempotency!TypeOK
        <5>2. reqs'[r] = [reqs[r] EXCEPT !.age = Idempotency!Older(reqs[r].age)]
          BY <4>1, <3>2
        <5> QED BY <5>1, <5>2
      <4>5. CASE doneAge' <= TTL
        BY <4>5, <4>1, <4>2, <4>3, <4>4, <3>4 DEF Idempotency!RowIsRunners
      <4>6. CASE ~(doneAge' <= TTL)
        BY <4>6, <4>1, <4>3, <4>4, <3>4 DEF Idempotency!RowIsRunners
      <4> QED BY <4>5, <4>6
    <3>7. row' # Idempotency!NoRow /\ row'.response # Idempotency!None => given'[row'.body] = row'.response
      BY <3>3, <3>4 DEF Idempotency!Remembers, Idempotency!TypeOK
    <3> QED BY <3>5, <3>6, <3>7 DEF Idempotency!Remembers
  <2>4. Idempotency!OneClaimantRuns'
    BY DEF Idempotency!Remembers, Idempotency!TypeOK, Idempotency!RowIsRunners, Idempotency!Running, Idempotency!Held, Idempotency!OneClaimantRuns
  <2>5. Idempotency!RunsOncePerLifetime
    BY DEF Idempotency!Remembers, Idempotency!TypeOK, Idempotency!RunsOncePerLifetime, Idempotency!Running
  <2> QED BY <2>1, <2>2, <2>3, <2>4, <2>5 DEF Idempotency!IdempotencyInv
\* Stutter
<1>15. ASSUME UNCHANGED Idempotency!vars
      PROVE  Idempotency!IdempotencyInv' /\ Idempotency!RunsOncePerLifetime
  <2> USE <1>15, <1>t DEF Idempotency!vars
  <2>1. Idempotency!TypeOK'
    BY DEF Idempotency!TypeOK
  <2>2. Idempotency!Held'
    BY DEF Idempotency!Held, Idempotency!TypeOK
  <2>3. Idempotency!Remembers'
    BY DEF Idempotency!Remembers, Idempotency!TypeOK, Idempotency!RowIsRunners, Idempotency!Running, Idempotency!Held
  <2>4. Idempotency!OneClaimantRuns'
    BY DEF Idempotency!Remembers, Idempotency!TypeOK, Idempotency!RowIsRunners, Idempotency!Running, Idempotency!Held, Idempotency!OneClaimantRuns
  <2>5. Idempotency!RunsOncePerLifetime
    BY DEF Idempotency!Remembers, Idempotency!TypeOK, Idempotency!RunsOncePerLifetime, Idempotency!Running
  <2> QED BY <2>1, <2>2, <2>3, <2>4, <2>5 DEF Idempotency!IdempotencyInv
<1> QED
  BY <1>1, <1>2, <1>3, <1>4, <1>5, <1>6, <1>7, <1>8, <1>9, <1>10, <1>11, <1>12, <1>13, <1>14, <1>15 DEF Idempotency!Next

-----------------------------------------------------------------------------
(***************************************************************************)
(* Floating sessions                                                       *)
(***************************************************************************)

\* The copies of the library operators in Floating are the operators.
LEMMA FloatingCardinality == \A S : Floating!Cardinality(S) = Cardinality(S)
  BY DEF Floating!Cardinality, Cardinality

\* The same for finite sets.
LEMMA FloatingFinite == \A S : Floating!IsFiniteSet(S) = IsFiniteSet(S)
  BY DEF Floating!IsFiniteSet, IsFiniteSet

InUse == {m \in Clients : Floating!RunningAt(m, v1)}

\* Machines are counted.
LEMMA CountsInUse == ASSUME NEW S \in SUBSET Clients PROVE IsFiniteSet(S) /\ Cardinality(S) \in Nat
<1>1. IsFiniteSet(Clients)
  BY AccountsAssumption, FloatingFinite DEF Floating!FloatingAssumption
<1> QED BY <1>1, FS_Subset, FS_CardinalityType

\* Running counts the machines in use.
LEMMA RunningIsInUse ==
  /\ Floating!Running = Cardinality(InUse) /\ InUse \subseteq Clients
  /\ Floating!Running' = Cardinality(InUse') /\ InUse' \subseteq Clients
BY FloatingCardinality DEF Floating!Running, Floating!CountAt, InUse

\* The count does not go up when no machine starts.
LEMMA NoneStarts ==
  ASSUME InUse' \subseteq InUse
  PROVE  ~(Floating!Running' > Floating!Running)
<1>1. Cardinality(InUse') \in Nat /\ Cardinality(InUse) \in Nat
  BY RunningIsInUse, CountsInUse
<1>2. Cardinality(InUse') <= Cardinality(InUse)
  BY RunningIsInUse, CountsInUse, FS_Subset
<1> QED BY <1>1, <1>2, RunningIsInUse

\* The count goes up by one at most when one machine starts.
LEMMA OneStarts ==
  ASSUME NEW m, InUse' \subseteq InUse \cup {m}
  PROVE  Floating!Running' <= Floating!Running + 1
<1>1. IsFiniteSet(InUse) /\ Cardinality(InUse') \in Nat /\ Cardinality(InUse) \in Nat
  BY RunningIsInUse, CountsInUse
<1>2. IsFiniteSet(InUse \cup {m}) /\ Cardinality(InUse \cup {m}) \in Nat
  BY <1>1, FS_AddElement, FS_CardinalityType
<1>3. Cardinality(InUse \cup {m}) <= Cardinality(InUse) + 1
  <2>1. CASE m \in InUse
    <3>1. InUse \cup {m} = InUse
      BY <2>1
    <3> QED BY <1>1, <3>1
  <2>2. CASE m \notin InUse
    BY <1>1, <2>2, FS_AddElement
  <2> QED BY <2>1, <2>2
<1>4. Cardinality(InUse') <= Cardinality(InUse \cup {m})
  BY <1>2, FS_Subset
<1> QED BY <1>1, <1>2, <1>3, <1>4, RunningIsInUse

\* A count as of a time gone by is no less than the count now.
LEMMA CountedAsOfBegin ==
  ASSUME Floating!TypeOK, NEW t \in Nat, t <= v1
  PROVE  Floating!CountAt(t) \in Nat /\ Floating!Running <= Floating!CountAt(t)
<1> DEFINE then == {m \in Clients : Floating!RunningAt(m, t)}
<1>1. InUse \subseteq then
  BY DEF InUse, Floating!RunningAt, Floating!TypeOK, Floating!SessionType
<1>2. IsFiniteSet(Clients)
  BY CountsInUse
<1>3. IsFiniteSet(then) /\ Cardinality(then) \in Nat
  BY <1>2, FS_Subset, FS_CardinalityType
<1>4. Cardinality(InUse) <= Cardinality(then)
  BY <1>1, <1>3, FS_Subset
<1>5. Floating!CountAt(t) = Cardinality(then)
  BY <1>3, FloatingCardinality DEF Floating!CountAt
<1> QED BY <1>3, <1>4, <1>5, RunningIsInUse

\* No session runs yet.
LEMMA FloatingInit == Floating!Init => Floating!FloatingInv
<1> SUFFICES ASSUME Floating!Init PROVE Floating!FloatingInv
  OBVIOUS
<1> USE AccountsAssumption DEF Floating!FloatingAssumption, Floating!Init,
      Floating!Idle, Floating!NoSession, Floating!Owner, Floating!NoKey, Floating!Holders
<1>1. Floating!TypeOK
  BY DEF Floating!TypeOK, Floating!SessionType, Floating!ReqType
<1>2. Floating!SessionsOnWorkingKeys /\ Floating!CountsFromBegin
  BY DEF Floating!SessionsOnWorkingKeys, Floating!CountsFromBegin
<1> QED BY <1>1, <1>2 DEF Floating!FloatingInv

FloatingKeeps == /\ Floating!FloatingInv' 
                 /\ Floating!StaysWithinCap

\* Every checkout, heartbeat, checkin, stop, rotation and removal keeps a session on
\* a working key, and within the cap.
LEMMA FloatingStep ==
  ASSUME Floating!FloatingInv, [Floating!Next]_(Floating!vars)
  PROVE  FloatingKeeps
<1> DEFINE clock == v1  stopped == v2  limit == v3  keys == v4  sessions == v5  reqs == v6
<1> USE AccountsAssumption DEF Floating!FloatingAssumption,
      Floating!Idle, Floating!NoSession, Floating!Owner, Floating!NoKey, Floating!Holders
<1>t. Floating!TypeOK /\ Floating!SessionsOnWorkingKeys /\ Floating!CountsFromBegin
  BY DEF Floating!FloatingInv
<1>1. ASSUME NEW r \in Calls, NEW s \in Floating!Holders, NEW m \in Clients, Floating!LoadCheckOut(r, s, m)
      PROVE  FloatingKeeps
  <2> USE <1>1, <1>t DEF Floating!LoadCheckOut, Floating!Opens
  <2>1. Floating!TypeOK'
    <3> DEFINE p == [Floating!Idle EXCEPT !.op = "checkout", !.seat = s,
                      !.key = keys[s], !.machine = m, !.max = limit, !.until = clock + Timeout]
    <3>1. clock + Timeout \in Nat /\ limit \in Nat
      BY DEF Floating!TypeOK
    <3>2. p \in Floating!ReqType
      BY <3>1 DEF Floating!TypeOK, Floating!ReqType
    <3>3. reqs' = [reqs EXCEPT ![r] = p]
      OBVIOUS
    <3> QED BY <3>2, <3>3 DEF Floating!TypeOK
  <2>2. Floating!SessionsOnWorkingKeys'
    BY DEF Floating!TypeOK, Floating!SessionType, Floating!SessionsOnWorkingKeys
  <2>3. Floating!CountsFromBegin'
    BY DEF Floating!TypeOK, Floating!CountsFromBegin
  <2>4. InUse' \subseteq InUse /\ \A n \in Clients : sessions'[n].held /\ Floating!RunningAt(n, clock) => sessions'[n].seat = sessions[n].seat
    BY DEF InUse, Floating!RunningAt, Floating!TypeOK, Floating!SessionType
  <2> QED BY <2>1, <2>2, <2>3, <2>4, NoneStarts DEF Floating!FloatingInv, FloatingKeeps, Floating!StaysWithinCap
<1>2. ASSUME NEW r \in Calls, Floating!BeginCheckOut(r)
      PROVE  FloatingKeeps
  <2> USE <1>2, <1>t DEF Floating!BeginCheckOut
  <2>1. Floating!TypeOK'
    BY DEF Floating!TypeOK, Floating!SessionType, Floating!ReqType
  <2>2. Floating!SessionsOnWorkingKeys'
    BY DEF Floating!TypeOK, Floating!SessionType, Floating!SessionsOnWorkingKeys
  <2>3. Floating!CountsFromBegin'
    BY DEF Floating!TypeOK, Floating!CountsFromBegin
  <2>4. InUse' \subseteq InUse /\ \A n \in Clients : sessions'[n].held /\ Floating!RunningAt(n, clock) => sessions'[n].seat = sessions[n].seat
    BY DEF InUse, Floating!RunningAt, Floating!TypeOK, Floating!SessionType
  <2> QED BY <2>1, <2>2, <2>3, <2>4, NoneStarts DEF Floating!FloatingInv, FloatingKeeps, Floating!StaysWithinCap
<1>3. ASSUME NEW r \in Calls, Floating!CommitCheckOut(r)
      PROVE  FloatingKeeps
  <2> USE <1>3, <1>t DEF Floating!CommitCheckOut, Floating!CheckedOut, Floating!KeyHeld, Floating!RunningAt
  <2>1. Floating!TypeOK'
    <3>1. /\ reqs[r].until \in Nat /\ reqs[r].key \in Nat /\ reqs[r].seat \in Floating!Holders
          /\ Floating!Idle \in Floating!ReqType
      BY DEF Floating!TypeOK, Floating!ReqType
    <3>2. reqs' \in [Calls -> Floating!ReqType]
      BY <3>1 DEF Floating!TypeOK
    <3>3. ASSUME reqs[r].machine \in Clients
          PROVE  Floating!CheckedOut(reqs[r]) \in Floating!SessionType
      BY <3>1, <3>3 DEF Floating!TypeOK, Floating!SessionType
    <3>4. sessions' \in [Clients -> Floating!SessionType]
      BY <3>3 DEF Floating!TypeOK
    <3> QED BY <3>2, <3>4 DEF Floating!TypeOK
  <2>2. Floating!SessionsOnWorkingKeys'
    BY DEF Floating!TypeOK, Floating!SessionType, Floating!SessionsOnWorkingKeys
  <2>3. Floating!CountsFromBegin'
    BY DEF Floating!TypeOK, Floating!CountsFromBegin
  <2>4. Floating!StaysWithinCap
    <3> DEFINE q == reqs[r]
    <3>1. /\ q.now \in Nat /\ clock \in Nat /\ q.now <= clock
          /\ q.machine \in Clients \cup {Floating!Owner}
      BY DEF Floating!CountsFromBegin, Floating!TypeOK, Floating!ReqType
    <3>2. \A n \in Clients : n # q.machine => sessions'[n] = sessions[n]
      BY DEF Floating!TypeOK
    <3>3. CASE ~Floating!KeyHeld(q) \/ q.machine \notin Clients
      <4>1. sessions' = sessions /\ clock' = clock
        BY <3>3 DEF Floating!TypeOK
      <4>2. InUse' \subseteq InUse
        BY <4>1 DEF InUse
      <4> QED BY <4>1, <4>2, NoneStarts DEF Floating!StaysWithinCap
    <3>4. CASE Floating!KeyHeld(q) /\ q.machine \in Clients
      <4> DEFINE old == sessions[q.machine]
      <4>1. sessions'[q.machine] = Floating!CheckedOut(q)
        BY <3>4 DEF Floating!TypeOK
      <4>2. old \in Floating!SessionType
        BY <3>4 DEF Floating!TypeOK
      <4>3. CASE Floating!RunningAt(q.machine, clock)
        <5>1. Floating!RunningAt(q.machine, q.now)
          BY <4>2, <4>3, <3>1 DEF Floating!SessionType
        <5>2. sessions'[q.machine].seat = old.seat
          BY <4>1, <4>2, <5>1 DEF Floating!SessionType
        <5>3. InUse' \subseteq InUse
          BY <3>2, <4>3 DEF InUse
        <5> QED BY <3>2, <5>2, <5>3, NoneStarts DEF Floating!StaysWithinCap
      <4>4. CASE ~Floating!RunningAt(q.machine, q.now) /\ Floating!CountAt(q.now) < Floating!MinOf(q.max, limit)
        <5>1. InUse' \subseteq InUse \cup {q.machine}
          BY <3>2 DEF InUse
        <5>2. Floating!Running \in Nat /\ q.max \in Nat /\ limit \in Nat /\ Floating!Running' \in Nat
          BY RunningIsInUse, CountsInUse DEF Floating!TypeOK, Floating!ReqType
        <5>3. Floating!CountAt(q.now) \in Nat /\ Floating!Running <= Floating!CountAt(q.now)
          BY <3>1, CountedAsOfBegin
        <5>4. Floating!Running + 1 <= limit
          BY <4>4, <5>2, <5>3 DEF Floating!MinOf
        <5>5. Floating!Running' <= limit
          <6>1. Floating!Running' <= Floating!Running + 1
            BY <5>1, OneStarts
          <6> QED BY <5>2, <5>4, <6>1
        <5>6. ~Floating!RunningAt(q.machine, clock)
          BY <4>2, <4>4, <3>1 DEF Floating!SessionType
        <5> QED BY <3>2, <5>5, <5>6 DEF Floating!StaysWithinCap
      <4>5. CASE ~Floating!RunningAt(q.machine, q.now) /\ ~(Floating!CountAt(q.now) < Floating!MinOf(q.max, limit))
        <5>1. sessions'[q.machine] = old
          BY <4>1, <4>5
        <5>2. InUse' \subseteq InUse
          BY <3>2, <5>1 DEF InUse
        <5> QED BY <3>2, <5>1, <5>2, NoneStarts DEF Floating!StaysWithinCap
      <4>6. CASE Floating!RunningAt(q.machine, q.now) /\ ~Floating!RunningAt(q.machine, clock)
        <5>1. Floating!RevivesLease(r)
          BY <4>6 DEF Floating!RevivesLease, Floating!TypeOK
        <5> QED BY <3>2, <4>6, <5>1 DEF Floating!StaysWithinCap
      <4> QED BY <4>3, <4>4, <4>5, <4>6
    <3> QED BY <3>3, <3>4
  <2> QED BY <2>1, <2>2, <2>3, <2>4 DEF Floating!FloatingInv, FloatingKeeps
<1>4. ASSUME NEW r \in Calls, NEW s \in Floating!Holders, NEW m \in Clients, Floating!LoadHeartbeat(r, s, m)
      PROVE  FloatingKeeps
  <2> USE <1>4, <1>t DEF Floating!LoadHeartbeat, Floating!Opens
  <2>1. Floating!TypeOK'
    <3> DEFINE p == [Floating!Idle EXCEPT !.op = "heartbeat", !.seat = s,
                      !.machine = m, !.until = clock + Timeout]
    <3>1. clock + Timeout \in Nat
      BY DEF Floating!TypeOK
    <3>2. p \in Floating!ReqType
      BY <3>1 DEF Floating!TypeOK, Floating!ReqType
    <3>3. reqs' = [reqs EXCEPT ![r] = p]
      OBVIOUS
    <3> QED BY <3>2, <3>3 DEF Floating!TypeOK
  <2>2. Floating!SessionsOnWorkingKeys'
    BY DEF Floating!TypeOK, Floating!SessionType, Floating!SessionsOnWorkingKeys
  <2>3. Floating!CountsFromBegin'
    BY DEF Floating!TypeOK, Floating!CountsFromBegin
  <2>4. InUse' \subseteq InUse /\ \A n \in Clients : sessions'[n].held /\ Floating!RunningAt(n, clock) => sessions'[n].seat = sessions[n].seat
    BY DEF InUse, Floating!RunningAt, Floating!TypeOK, Floating!SessionType
  <2> QED BY <2>1, <2>2, <2>3, <2>4, NoneStarts DEF Floating!FloatingInv, FloatingKeeps, Floating!StaysWithinCap
<1>5. ASSUME NEW r \in Calls, Floating!CommitHeartbeat(r)
      PROVE  FloatingKeeps
  <2> USE <1>5, <1>t DEF Floating!CommitHeartbeat, Floating!Renewable, Floating!RunningAt
  <2>1. Floating!TypeOK'
    <3>1. reqs[r].until \in Nat /\ Floating!Idle \in Floating!ReqType
      BY DEF Floating!TypeOK, Floating!ReqType
    <3>2. reqs' \in [Calls -> Floating!ReqType]
      BY <3>1 DEF Floating!TypeOK
    <3>3. \A m \in Clients : [sessions[m] EXCEPT !.until = reqs[r].until] \in Floating!SessionType
      BY <3>1 DEF Floating!TypeOK, Floating!SessionType
    <3>4. sessions' \in [Clients -> Floating!SessionType]
      BY <3>3 DEF Floating!TypeOK
    <3> QED BY <3>2, <3>4 DEF Floating!TypeOK
  <2>2. Floating!SessionsOnWorkingKeys'
    BY DEF Floating!TypeOK, Floating!SessionType, Floating!SessionsOnWorkingKeys
  <2>3. Floating!CountsFromBegin'
    BY DEF Floating!TypeOK, Floating!CountsFromBegin
  <2>4. InUse' \subseteq InUse /\ \A n \in Clients : sessions'[n].held /\ Floating!RunningAt(n, clock) => sessions'[n].seat = sessions[n].seat
    BY DEF InUse, Floating!RunningAt, Floating!TypeOK, Floating!SessionType
  <2> QED BY <2>1, <2>2, <2>3, <2>4, NoneStarts DEF Floating!FloatingInv, FloatingKeeps, Floating!StaysWithinCap
<1>6. ASSUME NEW s \in Floating!Holders, NEW m \in Clients, Floating!CheckIn(s, m)
      PROVE  FloatingKeeps
  <2> USE <1>6, <1>t DEF Floating!CheckIn, Floating!Opens
  <2>1. Floating!TypeOK'
    BY DEF Floating!TypeOK, Floating!SessionType, Floating!ReqType
  <2>2. Floating!SessionsOnWorkingKeys'
    BY DEF Floating!TypeOK, Floating!SessionType, Floating!SessionsOnWorkingKeys
  <2>3. Floating!CountsFromBegin'
    BY DEF Floating!TypeOK, Floating!CountsFromBegin
  <2>4. InUse' \subseteq InUse /\ \A n \in Clients : sessions'[n].held /\ Floating!RunningAt(n, clock) => sessions'[n].seat = sessions[n].seat
    BY DEF InUse, Floating!RunningAt, Floating!TypeOK, Floating!SessionType
  <2> QED BY <2>1, <2>2, <2>3, <2>4, NoneStarts DEF Floating!FloatingInv, FloatingKeeps, Floating!StaysWithinCap
<1>7. ASSUME Floating!CleanExpired
      PROVE  FloatingKeeps
  <2> USE <1>7, <1>t DEF Floating!CleanExpired
  <2>1. Floating!TypeOK'
    BY DEF Floating!TypeOK, Floating!SessionType, Floating!ReqType
  <2>2. Floating!SessionsOnWorkingKeys'
    BY DEF Floating!TypeOK, Floating!SessionType, Floating!SessionsOnWorkingKeys
  <2>3. Floating!CountsFromBegin'
    BY DEF Floating!TypeOK, Floating!CountsFromBegin
  <2>4. InUse' \subseteq InUse /\ \A n \in Clients : sessions'[n].held /\ Floating!RunningAt(n, clock) => sessions'[n].seat = sessions[n].seat
    BY DEF InUse, Floating!RunningAt, Floating!TypeOK, Floating!SessionType
  <2> QED BY <2>1, <2>2, <2>3, <2>4, NoneStarts DEF Floating!FloatingInv, FloatingKeeps, Floating!StaysWithinCap
<1>8. ASSUME NEW n \in SessionLimits, Floating!SetTerms(n)
      PROVE  FloatingKeeps
  <2> USE <1>8, <1>t DEF Floating!SetTerms
  <2>1. Floating!TypeOK'
    BY DEF Floating!TypeOK, Floating!SessionType, Floating!ReqType
  <2>2. Floating!SessionsOnWorkingKeys'
    BY DEF Floating!TypeOK, Floating!SessionType, Floating!SessionsOnWorkingKeys
  <2>3. Floating!CountsFromBegin'
    BY DEF Floating!TypeOK, Floating!CountsFromBegin
  <2>4. InUse' \subseteq InUse /\ \A m \in Clients : sessions'[m].held /\ Floating!RunningAt(m, clock) => sessions'[m].seat = sessions[m].seat
    BY DEF InUse, Floating!RunningAt, Floating!TypeOK, Floating!SessionType
  <2> QED BY <2>1, <2>2, <2>3, <2>4, NoneStarts DEF Floating!FloatingInv, FloatingKeeps, Floating!StaysWithinCap
<1>9. ASSUME Floating!StopLicense
      PROVE  FloatingKeeps
  <2> USE <1>9, <1>t DEF Floating!StopLicense
  <2>1. Floating!TypeOK'
    BY DEF Floating!TypeOK, Floating!SessionType, Floating!ReqType
  <2>2. Floating!SessionsOnWorkingKeys'
    BY DEF Floating!TypeOK, Floating!SessionType, Floating!SessionsOnWorkingKeys
  <2>3. Floating!CountsFromBegin'
    BY DEF Floating!TypeOK, Floating!CountsFromBegin
  <2>4. InUse' \subseteq InUse /\ \A n \in Clients : sessions'[n].held /\ Floating!RunningAt(n, clock) => sessions'[n].seat = sessions[n].seat
    BY DEF InUse, Floating!RunningAt, Floating!TypeOK, Floating!SessionType
  <2> QED BY <2>1, <2>2, <2>3, <2>4, NoneStarts DEF Floating!FloatingInv, FloatingKeeps, Floating!StaysWithinCap
<1>10. ASSUME Floating!ReinstateLicense
      PROVE  FloatingKeeps
  <2> USE <1>10, <1>t DEF Floating!ReinstateLicense
  <2>1. Floating!TypeOK'
    BY DEF Floating!TypeOK, Floating!SessionType, Floating!ReqType
  <2>2. Floating!SessionsOnWorkingKeys'
    BY DEF Floating!TypeOK, Floating!SessionType, Floating!SessionsOnWorkingKeys
  <2>3. Floating!CountsFromBegin'
    BY DEF Floating!TypeOK, Floating!CountsFromBegin
  <2>4. InUse' \subseteq InUse /\ \A n \in Clients : sessions'[n].held /\ Floating!RunningAt(n, clock) => sessions'[n].seat = sessions[n].seat
    BY DEF InUse, Floating!RunningAt, Floating!TypeOK, Floating!SessionType
  <2> QED BY <2>1, <2>2, <2>3, <2>4, NoneStarts DEF Floating!FloatingInv, FloatingKeeps, Floating!StaysWithinCap
<1>11. ASSUME NEW s \in Floating!Holders, Floating!RotateKey(s)
      PROVE  FloatingKeeps
  <2> USE <1>11, <1>t DEF Floating!RotateKey, Floating!WithoutSessionsOf
  <2>1. Floating!TypeOK'
    BY DEF Floating!TypeOK, Floating!SessionType, Floating!ReqType
  <2>2. Floating!SessionsOnWorkingKeys'
    BY DEF Floating!TypeOK, Floating!SessionType, Floating!SessionsOnWorkingKeys
  <2>3. Floating!CountsFromBegin'
    BY DEF Floating!TypeOK, Floating!CountsFromBegin
  <2>4. InUse' \subseteq InUse /\ \A n \in Clients : sessions'[n].held /\ Floating!RunningAt(n, clock) => sessions'[n].seat = sessions[n].seat
    BY DEF InUse, Floating!RunningAt, Floating!TypeOK, Floating!SessionType
  <2> QED BY <2>1, <2>2, <2>3, <2>4, NoneStarts DEF Floating!FloatingInv, FloatingKeeps, Floating!StaysWithinCap
<1>12. ASSUME NEW s \in Seats, Floating!RemoveSeat(s)
      PROVE  FloatingKeeps
  <2> USE <1>12, <1>t DEF Floating!RemoveSeat, Floating!WithoutSessionsOf
  <2>1. Floating!TypeOK'
    BY DEF Floating!TypeOK, Floating!SessionType, Floating!ReqType
  <2>2. Floating!SessionsOnWorkingKeys'
    BY DEF Floating!TypeOK, Floating!SessionType, Floating!SessionsOnWorkingKeys
  <2>3. Floating!CountsFromBegin'
    BY DEF Floating!TypeOK, Floating!CountsFromBegin
  <2>4. InUse' \subseteq InUse /\ \A n \in Clients : sessions'[n].held /\ Floating!RunningAt(n, clock) => sessions'[n].seat = sessions[n].seat
    BY DEF InUse, Floating!RunningAt, Floating!TypeOK, Floating!SessionType
  <2> QED BY <2>1, <2>2, <2>3, <2>4, NoneStarts DEF Floating!FloatingInv, FloatingKeeps, Floating!StaysWithinCap
<1>13. ASSUME NEW r \in Calls, Floating!Crash(r)
      PROVE  FloatingKeeps
  <2> USE <1>13, <1>t DEF Floating!Crash
  <2>1. Floating!TypeOK'
    BY DEF Floating!TypeOK, Floating!SessionType, Floating!ReqType
  <2>2. Floating!SessionsOnWorkingKeys'
    BY DEF Floating!TypeOK, Floating!SessionType, Floating!SessionsOnWorkingKeys
  <2>3. Floating!CountsFromBegin'
    BY DEF Floating!TypeOK, Floating!CountsFromBegin
  <2>4. InUse' \subseteq InUse /\ \A n \in Clients : sessions'[n].held /\ Floating!RunningAt(n, clock) => sessions'[n].seat = sessions[n].seat
    BY DEF InUse, Floating!RunningAt, Floating!TypeOK, Floating!SessionType
  <2> QED BY <2>1, <2>2, <2>3, <2>4, NoneStarts DEF Floating!FloatingInv, FloatingKeeps, Floating!StaysWithinCap
<1>14. ASSUME Floating!Tick
      PROVE  FloatingKeeps
  <2> USE <1>14, <1>t DEF Floating!Tick
  <2>1. Floating!TypeOK'
    BY DEF Floating!TypeOK, Floating!SessionType, Floating!ReqType
  <2>2. Floating!SessionsOnWorkingKeys'
    BY DEF Floating!TypeOK, Floating!SessionType, Floating!SessionsOnWorkingKeys
  <2>3. Floating!CountsFromBegin'
    BY DEF Floating!TypeOK, Floating!ReqType, Floating!CountsFromBegin
  <2>4. InUse' \subseteq InUse /\ \A n \in Clients : sessions'[n].held /\ Floating!RunningAt(n, clock) => sessions'[n].seat = sessions[n].seat
    BY DEF InUse, Floating!RunningAt, Floating!TypeOK, Floating!SessionType
  <2> QED BY <2>1, <2>2, <2>3, <2>4, NoneStarts DEF Floating!FloatingInv, FloatingKeeps, Floating!StaysWithinCap
<1>15. ASSUME UNCHANGED Floating!vars
      PROVE  FloatingKeeps
  <2> USE <1>15, <1>t DEF Floating!vars
  <2>1. Floating!TypeOK'
    BY DEF Floating!TypeOK, Floating!SessionType, Floating!ReqType
  <2>2. Floating!SessionsOnWorkingKeys'
    BY DEF Floating!TypeOK, Floating!SessionType, Floating!SessionsOnWorkingKeys
  <2>3. Floating!CountsFromBegin'
    BY DEF Floating!TypeOK, Floating!CountsFromBegin
  <2>4. InUse' \subseteq InUse /\ \A n \in Clients : sessions'[n].held /\ Floating!RunningAt(n, clock) => sessions'[n].seat = sessions[n].seat
    BY DEF InUse, Floating!RunningAt, Floating!TypeOK, Floating!SessionType
  <2> QED BY <2>1, <2>2, <2>3, <2>4, NoneStarts DEF Floating!FloatingInv, FloatingKeeps, Floating!StaysWithinCap
<1> QED
  BY <1>1, <1>2, <1>3, <1>4, <1>5, <1>6, <1>7, <1>8, <1>9, <1>10, <1>11, <1>12, <1>13, <1>14, <1>15 DEF Floating!Next

-----------------------------------------------------------------------------
(***************************************************************************)
(* Quotas                                                                  *)
(***************************************************************************)

\* A set with an upper bound of its own has a maximum.
LEMMA UsageMax == ASSUME NEW S, NEW m \in S, \A x \in S : m >= x
                  PROVE  Usage!Max(S) \in S /\ \A x \in S : Usage!Max(S) >= x
  BY DEF Usage!Max

\* The quantities, quotas and periods are numbers.
LEMMA UsageConstants ==
  /\ Quantities \subseteq Nat /\ Quotas \subseteq Nat /\ MaxCount \in Nat /\ MaxQuotaEdits \in Nat
  /\ (CHOOSE q \in Quantities : TRUE) \in Quantities /\ 1 \in Usage!Periods
  /\ \A l \in Quotas : l * WarnAt \in Nat /\ (l > 0 => l * WarnAt > 0)
<1>1. WarnAt \in Nat /\ WarnAt > 0 /\ Quotas \subseteq Nat
  BY AccountsAssumption DEF Usage!UsageAssumption
<1>2. \A l \in Nat : l * WarnAt \in Nat /\ (l > 0 => l * WarnAt > 0)
  BY <1>1
<1>3. 1 \in Usage!Periods
  BY AccountsAssumption DEF Usage!UsageAssumption, Usage!Periods
<1> QED BY <1>1, <1>2, <1>3, AccountsAssumption DEF Usage!UsageAssumption

\* The warning of a period is owed as long as its counter and its calls stay.
LEMMA CrossedStays ==
  ASSUME NEW p, Usage!CrossedAt(p), v6'[p] = v6[p],
         Usage!Reached(p)' <=> Usage!Reached(p),
         \A s \in Reports : Usage!Owes(s, p)' <=> Usage!Owes(s, p)
  PROVE  Usage!CrossedAt(p)'
  BY DEF Usage!CrossedAt

\* Nothing was used yet.
LEMMA UsageInit == Usage!Init => Usage!UsageInv
<1> SUFFICES ASSUME Usage!Init PROVE Usage!UsageInv
  OBVIOUS
<1> USE UsageConstants DEF Usage!Init
<1>1. Usage!TypeOK
  <2>1. v3 \in [Usage!Periods -> 0 .. MaxCount] /\ v6 \in [Usage!Periods -> Nat] /\ v7 \in 0 .. MaxQuotaEdits
    OBVIOUS
  <2>2. 0 \in 0 .. MaxCount
    OBVIOUS
  <2>3. v4 \in [Reports -> Usage!ReqType]
    BY <2>2 DEF Usage!ReqType
  <2> QED BY <2>1, <2>3 DEF Usage!TypeOK
<1>2. v2 \in Nat /\ v5 = {v2}
  OBVIOUS
<1>3. Usage!Offered
  BY <1>2 DEF Usage!Offered
<1>4. Usage!QuotaHolds
  <2>1. v2 \in v5 /\ \A x \in v5 : v2 >= x
    BY <1>2
  <2>2. Usage!Max(v5) \in v5
    BY <2>1, UsageMax
  <2>3. Usage!Max(v5) \in Nat
    BY <2>2, <1>2
  <2> QED BY <2>3 DEF Usage!QuotaHolds
<1>5. Usage!Crossed
  <2>1. \A p \in Usage!Periods : ~Usage!Reached(p)
    BY <1>2 DEF Usage!Reached
  <2> QED BY <2>1 DEF Usage!Crossed, Usage!CrossedAt, Usage!Owes
<1> QED BY <1>1, <1>3, <1>4, <1>5 DEF Usage!UsageInv

\* Every call, warning, edit, reset and new period keeps the counter under the
\* highest quota read, and the crossing with the call that made it.
LEMMA UsageStep ==
  ASSUME Usage!UsageInv, [Usage!Next]_(Usage!vars)
  PROVE  Usage!UsageInv'
<1> DEFINE period == v1  limit == v2  used == v3  reqs == v4  offered == v5  warned == v6  edits == v7
<1>t. Usage!TypeOK /\ Usage!QuotaHolds /\ Usage!Offered /\ Usage!Crossed
  BY DEF Usage!UsageInv
<1>r. \A r \in Reports : /\ reqs[r] \in Usage!ReqType /\ reqs[r].period \in Usage!Periods
                         /\ reqs[r].limit \in Quotas /\ reqs[r].quantity \in Quantities
                         /\ reqs[r].used \in 0 .. MaxCount
  BY <1>t DEF Usage!TypeOK, Usage!ReqType
<1>u. \A p \in Usage!Periods : used[p] \in 0 .. MaxCount /\ used[p] \in Nat
  BY <1>t, UsageConstants DEF Usage!TypeOK
<1>m. /\ offered \subseteq Quotas /\ offered \subseteq Nat /\ Usage!Max(offered) \in offered
      /\ \A x \in offered : Usage!Max(offered) >= x
  <2>1. offered \subseteq Quotas /\ offered \subseteq Nat
    BY <1>t, UsageConstants DEF Usage!TypeOK
  <2>2. PICK m \in offered : \A x \in offered : x <= m
    BY <1>t DEF Usage!Offered
  <2>3. \A x \in offered : m >= x
    BY <2>1, <2>2
  <2> QED BY <2>1, <2>3, UsageMax
<1>1. ASSUME NEW r \in Reports, NEW q \in Quantities, Usage!RecordUsage(r, q)
      PROVE  Usage!UsageInv'
  <2> DEFINE p == [pc |-> "count", period |-> period, limit |-> limit, quantity |-> q, used |-> 0]
  <2>1. /\ reqs[r].pc = "new" /\ reqs' = [reqs EXCEPT ![r] = p] /\ period' = period /\ limit' = limit
        /\ used' = used /\ offered' = offered /\ warned' = warned /\ edits' = edits
    BY <1>1 DEF Usage!RecordUsage
  <2>2. p \in Usage!ReqType /\ p.pc = "count" /\ p.limit = limit
    BY <1>t, UsageConstants DEF Usage!TypeOK, Usage!ReqType
  <2> HIDE DEF p
  <2>3. \A s \in Reports : reqs'[s] = IF s = r THEN p ELSE reqs[s]
    BY <2>1, <1>t DEF Usage!TypeOK
  <2>4. Usage!TypeOK'
    BY <2>1, <2>2, <1>t DEF Usage!TypeOK
  <2>5. Usage!QuotaHolds' /\ Usage!Offered'
    BY <2>1, <2>2, <2>3, <1>t DEF Usage!QuotaHolds, Usage!Offered
  <2>6. Usage!Crossed'
    <3> SUFFICES ASSUME edits = 0 PROVE Usage!Crossed'
      BY <2>1 DEF Usage!Crossed
    <3>1. \A s \in Reports : reqs'[s].limit = limit /\ (reqs'[s].pc = "warn" => reqs'[s].used <= used[reqs'[s].period])
      BY <2>2, <2>3, <1>t DEF Usage!Crossed
    <3>2. \A x \in Usage!Periods : Usage!CrossedAt(x)'
      BY <2>1, <2>2, <2>3, <1>t, CrossedStays DEF Usage!Crossed, Usage!Owes, Usage!Reached
    <3> QED BY <2>1, <3>1, <3>2 DEF Usage!Crossed
  <2> QED BY <2>4, <2>5, <2>6 DEF Usage!UsageInv
<1>2. ASSUME NEW r \in Reports, Usage!IncrementUsageCounterWithLimit(r)
      PROVE  Usage!UsageInv'
  <2>0. PICK x \in Usage!Periods : x = reqs[r].period
    BY <1>r
  <2> DEFINE total == used[x] + reqs[r].quantity
             p == [reqs[r] EXCEPT !.pc = "warn", !.used = total]
             p2 == [reqs[r] EXCEPT !.pc = "done"]
  <2>1. /\ reqs[r].pc = "count" /\ period' = period /\ limit' = limit
        /\ offered' = offered /\ warned' = warned /\ edits' = edits
    BY <1>2 DEF Usage!IncrementUsageCounterWithLimit
  <2>2. CASE used' = used /\ reqs' = [reqs EXCEPT ![r] = p2]
    <3>1. p2 \in Usage!ReqType /\ p2.pc = "done" /\ p2.limit = reqs[r].limit
      BY <1>r DEF Usage!ReqType
    <3> HIDE DEF p2
    <3>2. \A s \in Reports : reqs'[s] = IF s = r THEN p2 ELSE reqs[s]
      BY <2>2, <1>t DEF Usage!TypeOK
    <3>3. Usage!TypeOK'
      BY <2>1, <2>2, <3>1, <1>t DEF Usage!TypeOK
    <3>4. Usage!QuotaHolds' /\ Usage!Offered'
      BY <2>1, <2>2, <3>1, <3>2, <1>t DEF Usage!QuotaHolds, Usage!Offered
    <3>5. Usage!Crossed'
      <4> SUFFICES ASSUME edits = 0 PROVE Usage!Crossed'
        BY <2>1 DEF Usage!Crossed
      <4>1. \A s \in Reports : reqs'[s].limit = limit /\ (reqs'[s].pc = "warn" => reqs'[s].used <= used[reqs'[s].period])
        BY <3>1, <3>2, <1>t DEF Usage!Crossed
      <4>2. \A y \in Usage!Periods : Usage!CrossedAt(y)'
        BY <2>1, <2>2, <3>1, <3>2, <1>t, CrossedStays DEF Usage!Crossed, Usage!Owes, Usage!Reached
      <4> QED BY <2>1, <2>2, <4>1, <4>2 DEF Usage!Crossed
    <3> QED BY <3>3, <3>4, <3>5 DEF Usage!UsageInv
  <2>3. CASE /\ Usage!Fits(used[x], reqs[r].quantity, reqs[r].limit)
             /\ used' = [used EXCEPT ![x] = total] /\ reqs' = [reqs EXCEPT ![r] = p]
    <3>n. reqs[r].quantity \in Nat /\ used[x] \in Nat /\ MaxCount \in Nat /\ reqs[r].limit \in Nat
      BY <1>r, <1>u, UsageConstants
    <3>1. total \in 0 .. MaxCount /\ total >= used[x] /\ total - reqs[r].quantity = used[x]
      BY <2>3, <3>n DEF Usage!Fits
    <3>l. reqs[r].limit > 0 => total <= reqs[r].limit
      BY <2>3 DEF Usage!Fits
    <3>2. /\ p \in Usage!ReqType /\ p.pc = "warn" /\ p.limit = reqs[r].limit /\ p.used = total
          /\ p.period = x /\ p.quantity = reqs[r].quantity
      <4> HIDE DEF total
      <4> QED BY <3>1, <2>0, <1>r DEF Usage!ReqType
    <3> HIDE DEF p, total
    <3>3. \A s \in Reports : reqs'[s] = IF s = r THEN p ELSE reqs[s]
      BY <2>3, <1>t DEF Usage!TypeOK
    <3>4. \A y \in Usage!Periods : used'[y] = IF y = x THEN total ELSE used[y]
      BY <2>3, <1>t DEF Usage!TypeOK
    <3>5. Usage!TypeOK'
      BY <2>1, <2>3, <3>1, <3>2, <1>t DEF Usage!TypeOK
    <3>6. Usage!Offered'
      BY <2>1, <3>2, <3>3, <1>t DEF Usage!Offered
    <3>7. Usage!QuotaHolds'
      <4>1. total <= MaxCount /\ (0 \notin offered => total <= Usage!Max(offered))
        <5>1. reqs[r].limit \in offered
          BY <1>t DEF Usage!Offered
        <5>2. total \in Nat /\ total <= MaxCount
          BY <3>1, <3>n
        <5>4. Usage!Max(offered) \in Nat /\ Usage!Max(offered) >= reqs[r].limit
          BY <5>1, <1>m
        <5>3. 0 \notin offered => reqs[r].limit > 0
          BY <5>1, <3>n
        <5> QED BY <5>2, <5>3, <5>4, <3>l, <3>n
      <4>2. \A y \in Usage!Periods : used[y] <= MaxCount /\ (0 \notin offered => used[y] <= Usage!Max(offered))
        BY <1>t DEF Usage!QuotaHolds
      <4>3. \A y \in Usage!Periods : used'[y] <= MaxCount /\ (0 \notin offered => used'[y] <= Usage!Max(offered))
        BY <4>1, <4>2, <3>4
      <4> QED BY <4>3, <2>1 DEF Usage!QuotaHolds
    <3>8. Usage!Crossed'
      <4> SUFFICES ASSUME edits = 0 PROVE Usage!Crossed'
        BY <2>1 DEF Usage!Crossed
      <4>0. reqs[r].limit = limit /\ \A y \in Usage!Periods : Usage!CrossedAt(y)
        BY <1>t DEF Usage!Crossed
      <4>1. \A s \in Reports : reqs'[s].limit = limit /\ (reqs'[s].pc = "warn" => reqs'[s].used <= used'[reqs'[s].period])
        <5>1. \A s \in Reports : reqs[s].limit = limit /\ (reqs[s].pc = "warn" => reqs[s].used <= used[reqs[s].period])
          BY <1>t DEF Usage!Crossed
        <5>2. \A s \in Reports : reqs[s].period = x => used[reqs[s].period] <= total
          BY <3>1, <3>n
        <5>3. total <= total
          BY <3>1
        <5>4. ASSUME NEW s \in Reports
              PROVE  reqs'[s].limit = limit /\ (reqs'[s].pc = "warn" => reqs'[s].used <= used'[reqs'[s].period])
          <6>1. CASE s = r
            BY <6>1, <3>2, <3>3, <3>4, <5>3, <4>0
          <6>2. CASE s # r /\ reqs[s].period # x
            BY <6>2, <3>3, <3>4, <5>1, <1>r
          <6>3. CASE s # r /\ reqs[s].period = x
            <7>1. reqs'[s] = reqs[s] /\ used'[x] = total
              BY <6>3, <3>3, <3>4
            <7>2. reqs[s].used \in Nat /\ total \in Nat /\ used[x] \in Nat
              BY <1>r, <3>1, <3>n
            <7> QED BY <7>1, <7>2, <6>3, <5>1, <3>1
          <6> QED BY <6>1, <6>2, <6>3
        <5> QED BY <5>4
      <4>2. \A s \in Reports, y \in Usage!Periods : s # r => (Usage!Owes(s, y)' <=> Usage!Owes(s, y))
        BY <3>3 DEF Usage!Owes
      <4>3. \A y \in Usage!Periods : ~Usage!Owes(r, y) /\ (y # x => ~Usage!Owes(r, y)')
        BY <2>1, <3>2, <3>3 DEF Usage!Owes
      <4>4. PICK k \in Nat : k = limit * WarnAt
        BY <1>t, UsageConstants DEF Usage!TypeOK
      <4>5. Usage!Reached(x) <=> limit > 0 /\ used[x] * 100 >= k
        BY <4>4 DEF Usage!Reached
      <4>6. Usage!Reached(x)' <=> limit > 0 /\ total * 100 >= k
        BY <4>4, <2>1, <3>4 DEF Usage!Reached
      <4>7. Usage!Owes(r, x)' <=> limit > 0 /\ total * 100 >= k /\ used[x] * 100 < k
        <5>1. Usage!Owes(r, x)' <=> Usage!Crosses(total, reqs[r].quantity, limit)
          BY <3>2, <3>3, <4>0 DEF Usage!Owes
        <5> QED BY <5>1, <4>4, <3>1 DEF Usage!Crosses
      <4>8. Usage!Owes(r, x)' <=> Usage!Reached(x)' /\ ~Usage!Reached(x)
        BY <4>5, <4>6, <4>7, <3>n
      <4>9. Usage!Reached(x) => Usage!Reached(x)'
        BY <4>5, <4>6, <3>1, <3>n
      <4>10. \A y \in Usage!Periods : y # x => Usage!CrossedAt(y)'
        <5>1. \A y \in Usage!Periods : y # x => (Usage!Reached(y)' <=> Usage!Reached(y))
          BY <2>1, <3>4 DEF Usage!Reached
        <5>2. \A y \in Usage!Periods, s \in Reports : y # x => (Usage!Owes(s, y)' <=> Usage!Owes(s, y))
          BY <4>2, <4>3
        <5> QED BY <5>1, <5>2, <4>0, <2>1, CrossedStays
      <4>11. Usage!CrossedAt(x)'
        <5>1. CASE Usage!Reached(x)
          <6>1. \A s \in Reports : Usage!Owes(s, x)' <=> Usage!Owes(s, x)
            BY <4>2, <4>3, <4>8, <5>1
          <6> QED BY <6>1, <5>1, <4>9, <4>0, <2>1, CrossedStays
        <5>2. CASE ~Usage!Reached(x)
          <6>1. warned[x] = 0 /\ \A s \in Reports : ~Usage!Owes(s, x)
            BY <5>2, <4>0 DEF Usage!CrossedAt
          <6>2. warned'[x] = 0 /\ \A s \in Reports : Usage!Owes(s, x)' => s = r
            BY <6>1, <4>2, <2>1
          <6>3. Usage!Owes(r, x)' <=> Usage!Reached(x)'
            BY <4>8, <5>2
          <6> QED BY <6>2, <6>3 DEF Usage!CrossedAt
        <5> QED BY <5>1, <5>2
      <4> QED BY <2>1, <4>1, <4>10, <4>11 DEF Usage!Crossed
    <3> QED BY <3>5, <3>6, <3>7, <3>8 DEF Usage!UsageInv
  <2>4. Usage!Fits(used[x], reqs[r].quantity, reqs[r].limit) /\ used' = [used EXCEPT ![x] = total]
          => used'[x] = total
    BY <1>t DEF Usage!TypeOK
  <2>5. \A y : [reqs EXCEPT ![r].pc = "warn", ![r].used = y] = [reqs EXCEPT ![r] = [reqs[r] EXCEPT !.pc = "warn", !.used = y]]
    BY <1>t DEF Usage!TypeOK
  <2> QED
    BY <2>0, <2>2, <2>3, <2>4, <2>5, <1>2 DEF Usage!IncrementUsageCounterWithLimit
<1>3. ASSUME NEW r \in Reports, Usage!WarnQuota(r)
      PROVE  Usage!UsageInv'
  <2>0. PICK x \in Usage!Periods : x = reqs[r].period
    BY <1>r
  <2> DEFINE p == [reqs[r] EXCEPT !.pc = "done"]
  <2>1. /\ reqs[r].pc = "warn" /\ period' = period /\ limit' = limit /\ used' = used
        /\ offered' = offered /\ edits' = edits /\ reqs' = [reqs EXCEPT ![r] = p]
    BY <1>3 DEF Usage!WarnQuota
  <2>2. p \in Usage!ReqType /\ p.pc = "done" /\ p.limit = reqs[r].limit
    BY <1>r DEF Usage!ReqType
  <2> HIDE DEF p
  <2>3. \A s \in Reports : reqs'[s] = IF s = r THEN p ELSE reqs[s]
    BY <2>1, <1>t DEF Usage!TypeOK
  <2>4. \/ Usage!Owes(r, x) /\ warned' = [warned EXCEPT ![x] = warned[x] + 1]
        \/ ~Usage!Owes(r, x) /\ warned' = warned
    BY <2>0, <2>1, <1>3 DEF Usage!WarnQuota, Usage!Owes
  <2>5. Usage!TypeOK'
    <3>1. warned' \in [Usage!Periods -> Nat]
      BY <2>4, <1>t DEF Usage!TypeOK
    <3> QED BY <2>1, <2>2, <3>1, <1>t DEF Usage!TypeOK
  <2>6. Usage!QuotaHolds' /\ Usage!Offered'
    BY <2>1, <2>2, <2>3, <1>t DEF Usage!QuotaHolds, Usage!Offered
  <2>7. Usage!Crossed'
    <3> SUFFICES ASSUME edits = 0 PROVE Usage!Crossed'
      BY <2>1 DEF Usage!Crossed
    <3>0. \A y \in Usage!Periods : Usage!CrossedAt(y)
      BY <1>t DEF Usage!Crossed
    <3>1. \A s \in Reports : reqs'[s].limit = limit /\ (reqs'[s].pc = "warn" => reqs'[s].used <= used[reqs'[s].period])
      BY <2>2, <2>3, <1>t DEF Usage!Crossed
    <3>2. \A y \in Usage!Periods : Usage!Reached(y)' <=> Usage!Reached(y)
      BY <2>1 DEF Usage!Reached
    <3>3. /\ \A s \in Reports, y \in Usage!Periods : s # r => (Usage!Owes(s, y)' <=> Usage!Owes(s, y))
          /\ \A y \in Usage!Periods : ~Usage!Owes(r, y)' /\ (y # x => ~Usage!Owes(r, y))
      BY <2>0, <2>2, <2>3 DEF Usage!Owes
    <3>4. ASSUME NEW y \in Usage!Periods, y # x \/ ~Usage!Owes(r, x)
          PROVE  Usage!CrossedAt(y)'
      <4>1. warned'[y] = warned[y]
        BY <2>4, <3>4, <1>t DEF Usage!TypeOK
      <4>2. \A s \in Reports : Usage!Owes(s, y)' <=> Usage!Owes(s, y)
        BY <3>3, <3>4
      <4> QED BY <4>1, <4>2, <3>0, <3>2, CrossedStays
    <3>5. ASSUME Usage!Owes(r, x) PROVE Usage!CrossedAt(x)'
      <4>1. warned[x] = 0 /\ Usage!Reached(x) /\ \A s \in Reports : Usage!Owes(s, x) => s = r
        BY <3>0, <3>5 DEF Usage!CrossedAt
      <4>2. warned'[x] = 1
        BY <4>1, <2>4, <3>5, <1>t DEF Usage!TypeOK
      <4>3. \A s \in Reports : ~Usage!Owes(s, x)'
        BY <4>1, <3>3
      <4> QED BY <4>1, <4>2, <4>3, <3>2 DEF Usage!CrossedAt
    <3>6. \A y \in Usage!Periods : Usage!CrossedAt(y)'
      BY <3>4, <3>5
    <3> QED BY <2>1, <3>1, <3>6 DEF Usage!Crossed
  <2> QED BY <2>5, <2>6, <2>7 DEF Usage!UsageInv
<1>4. ASSUME Usage!NextPeriod
      PROVE  Usage!UsageInv'
  <2>1. /\ limit' = limit /\ used' = used /\ reqs' = reqs /\ offered' = offered /\ warned' = warned /\ edits' = edits
        /\ period' = period + 1 /\ period < MaxPeriod
    BY <1>4 DEF Usage!NextPeriod
  <2>2. period' \in Usage!Periods
    <3>1. MaxPeriod \in Nat
      BY AccountsAssumption DEF Usage!UsageAssumption
    <3>2. period \in 1 .. MaxPeriod
      BY <1>t DEF Usage!TypeOK, Usage!Periods
    <3>3. period + 1 \in 1 .. MaxPeriod
      BY <3>1, <3>2, <2>1
    <3> QED BY <3>3, <2>1 DEF Usage!Periods
  <2>3. Usage!TypeOK' /\ Usage!QuotaHolds' /\ Usage!Offered'
    BY <2>1, <2>2, <1>t DEF Usage!TypeOK, Usage!QuotaHolds, Usage!Offered
  <2>4. \A y \in Usage!Periods : Usage!CrossedAt(y) => Usage!CrossedAt(y)'
    BY <2>1, CrossedStays DEF Usage!Owes, Usage!Reached
  <2>5. Usage!Crossed'
    BY <2>1, <2>4, <1>t DEF Usage!Crossed
  <2> QED BY <2>3, <2>5 DEF Usage!UsageInv
<1>5. ASSUME NEW lim \in Quotas, Usage!UpdateEntitlement(lim)
      PROVE  Usage!UsageInv'
  <2>1. /\ period' = period /\ used' = used /\ reqs' = reqs /\ warned' = warned /\ limit' = lim
        /\ offered' = offered \cup {lim} /\ edits' = edits + 1 /\ edits < MaxQuotaEdits
    BY <1>5 DEF Usage!UpdateEntitlement
  <2>2. edits' \in 0 .. MaxQuotaEdits /\ edits' # 0
    BY <2>1, <1>t, UsageConstants DEF Usage!TypeOK
  <2>3. Usage!TypeOK'
    BY <2>1, <2>2, <1>t DEF Usage!TypeOK
  <2>4. PICK m \in offered' : \A y \in offered' : m >= y
    <3>1. lim \in Nat /\ Usage!Max(offered) \in Nat
      BY <1>m, UsageConstants
    <3>2. CASE Usage!Max(offered) >= lim
      BY <3>2, <2>1, <1>m
    <3>3. CASE ~(Usage!Max(offered) >= lim)
      <4>1. \A y \in offered' : lim >= y
        BY <3>1, <3>3, <2>1, <1>m
      <4> QED BY <4>1, <2>1
    <3> QED BY <3>2, <3>3
  <2>5. /\ Usage!Max(offered') \in offered' /\ \A y \in offered' : Usage!Max(offered') >= y
        /\ offered' \subseteq Nat
    BY <2>1, <2>4, <1>m, UsageMax, UsageConstants
  <2>6. Usage!Offered'
    <3>1. \A y \in offered' : y <= m
      BY <2>4, <2>5
    <3> QED BY <3>1, <2>1, <2>4, <1>t DEF Usage!Offered
  <2>7. Usage!QuotaHolds'
    <3>1. Usage!Max(offered') >= Usage!Max(offered) /\ Usage!Max(offered') \in Nat /\ Usage!Max(offered) \in Nat
      BY <2>1, <2>5, <1>m
    <3>2. \A y \in Usage!Periods : used[y] <= MaxCount /\ (0 \notin offered => used[y] <= Usage!Max(offered))
      BY <1>t DEF Usage!QuotaHolds
    <3>3. 0 \notin offered' => 0 \notin offered
      BY <2>1
    <3>4. \A y \in Usage!Periods : used[y] <= MaxCount /\ (0 \notin offered' => used[y] <= Usage!Max(offered'))
      BY <3>1, <3>2, <3>3, <1>u
    <3> QED BY <3>4, <2>1 DEF Usage!QuotaHolds
  <2>8. Usage!Crossed'
    BY <2>2 DEF Usage!Crossed
  <2> QED BY <2>3, <2>6, <2>7, <2>8 DEF Usage!UsageInv
<1>6. ASSUME NEW p \in Usage!Periods, Usage!ResetUsageCounter(p)
      PROVE  Usage!UsageInv'
  <2>1. /\ period' = period /\ reqs' = reqs /\ warned' = warned /\ limit' = limit /\ offered' = offered
        /\ used' = [used EXCEPT ![p] = 0] /\ edits' = edits + 1 /\ edits < MaxQuotaEdits
    BY <1>6 DEF Usage!ResetUsageCounter
  <2>2. edits' \in 0 .. MaxQuotaEdits /\ edits' # 0 /\ 0 \in 0 .. MaxCount
    BY <2>1, <1>t, UsageConstants DEF Usage!TypeOK
  <2>3. Usage!TypeOK' /\ Usage!Offered'
    BY <2>1, <2>2, <1>t DEF Usage!TypeOK, Usage!Offered
  <2>4. Usage!QuotaHolds'
    <3>0. Usage!Max(offered) \in Nat
      BY <1>m
    <3>1. 0 <= MaxCount /\ 0 <= Usage!Max(offered)
      BY <3>0, UsageConstants
    <3>2. \A y \in Usage!Periods : used'[y] = IF y = p THEN 0 ELSE used[y]
      BY <2>1, <1>t DEF Usage!TypeOK
    <3> QED BY <3>1, <3>2, <2>1, <1>t DEF Usage!QuotaHolds
  <2>5. Usage!Crossed'
    BY <2>2 DEF Usage!Crossed
  <2> QED BY <2>3, <2>4, <2>5 DEF Usage!UsageInv
<1>7. ASSUME UNCHANGED Usage!vars
      PROVE  Usage!UsageInv'
  <2>1. /\ period' = period /\ reqs' = reqs /\ warned' = warned /\ limit' = limit /\ offered' = offered
        /\ used' = used /\ edits' = edits
    BY <1>7 DEF Usage!vars
  <2>2. Usage!TypeOK' /\ Usage!Offered' /\ Usage!QuotaHolds'
    BY <2>1, <1>t DEF Usage!TypeOK, Usage!Offered, Usage!QuotaHolds
  <2>3. \A y \in Usage!Periods : Usage!CrossedAt(y) => Usage!CrossedAt(y)'
    BY <2>1, CrossedStays DEF Usage!Owes, Usage!Reached
  <2>4. Usage!Crossed'
    BY <2>1, <2>3, <1>t DEF Usage!Crossed
  <2> QED BY <2>2, <2>4 DEF Usage!UsageInv
<1> QED
  BY <1>1, <1>2, <1>3, <1>4, <1>5, <1>6, <1>7 DEF Usage!Next

-----------------------------------------------------------------------------
(***************************************************************************)
(* Sign-in codes                                                           *)
(***************************************************************************)

\* The copies of the library operators in Codes are the operators.
LEMMA CodesCardinality == \A S : Codes!Cardinality(S) = Cardinality(S)
  BY DEF Codes!Cardinality, Cardinality

\* The same for finite sets.
LEMMA CodesFinite == \A S : Codes!IsFiniteSet(S) = IsFiniteSet(S)
  BY DEF Codes!IsFiniteSet, IsFiniteSet

\* The order of the naturals is well-founded.
LEMMA NatLess == IsWellFoundedOn({p \in Nat \X Nat : p[1] < p[2]}, Nat)
<1>1. OpToRel(<, Nat) = {p \in Nat \X Nat : p[1] < p[2]}
  BY DEF OpToRel
<1> QED BY <1>1, NatLessThanWellFounded

\* A set of codes that is not empty has a latest one.
LEMMA HasLatest ==
  ASSUME NEW n \in Nat, NEW S \in SUBSET (1 .. n), S # {}
  PROVE  Codes!Max(S) \in S
<1> DEFINE R == {p \in Nat \X Nat : p[1] < p[2]}
           T == {n - k : k \in S}
<1>1. T \subseteq Nat /\ T # {}
  <2>1. PICK k \in S : TRUE
    OBVIOUS
  <2>2. \A j \in S : j \in 1 .. n /\ n - j \in Nat
    OBVIOUS
  <2>3. n - k \in T
    BY <2>1
  <2> QED BY <2>2, <2>3
<1>2. PICK x \in T : \A y \in T : ~(<<y, x>> \in R)
  BY <1>1, NatLess, WFMin
<1>3. PICK k \in S : x = n - k
  OBVIOUS
<1>4. \A j \in S : k >= j
  <2> SUFFICES ASSUME NEW j \in S PROVE k >= j
    OBVIOUS
  <2>1. n - j \in T /\ n - j \in Nat /\ x \in Nat
    BY <1>1
  <2>2. ~(n - j < x)
    BY <1>2, <2>1
  <2> QED BY <2>2, <1>3
<1> QED BY <1>3, <1>4 DEF Codes!Max

\* A change of one code is a change of that code only.
LEMMA CodeChanges ==
  ASSUME NEW s \in Seq(Codes!CodeType), NEW k \in DOMAIN s, NEW c \in Codes!CodeType, NEW t,
         t = [s EXCEPT ![k] = c]
  PROVE  /\ t \in Seq(Codes!CodeType) /\ DOMAIN t = DOMAIN s
         /\ t[k] = c /\ \A j \in DOMAIN s : j # k => t[j] = s[j]
<1>1. DOMAIN s = 1 .. Len(s)
  OBVIOUS
<1> QED BY <1>1, ExceptSeq

\* What is spent of a code changes only with the code and the guesses at it.
LEMMA SpentStays ==
  ASSUME NEW k, Codes!SpentAt(k),
         v1'[k].compared = v1[k].compared, v1'[k].attempts = v1[k].attempts,
         v1'[k].used = v1[k].used, v1'[k].sessions = v1[k].sessions,
         \A g \in Guesses : /\ Codes!At(g, "compare", k)' <=> Codes!At(g, "compare", k)
                            /\ Codes!At(g, "gate", k)' <=> Codes!At(g, "gate", k)
  PROVE  Codes!SpentAt(k)'
<1>1. Codes!Comparing(k)' = Codes!Comparing(k)
  BY DEF Codes!Comparing
<1>2. Codes!Cardinality(Codes!Comparing(k)') = Codes!Cardinality(Codes!Comparing(k))
  BY <1>1
<1> HIDE DEF Codes!Comparing
<1> QED BY <1>2 DEF Codes!SpentAt

\* No code was sent yet.
LEMMA CodesInit == Codes!Init => Codes!CodesInv
<1> SUFFICES ASSUME Codes!Init PROVE Codes!CodesInv
  OBVIOUS
<1> USE DEF Codes!Init, Codes!NoCode
<1>1. Codes!TypeOK
  BY DEF Codes!TypeOK, Codes!GuessType
<1>2. Codes!Spent
  BY DEF Codes!Spent
<1> QED BY <1>1, <1>2 DEF Codes!CodesInv

\* Every send, guess, comparison and sign-in keeps the attempts ahead of the
\* comparisons.
LEMMA CodesStep ==
  ASSUME Codes!CodesInv, [Codes!Next]_(Codes!vars)
  PROVE  Codes!CodesInv'
<1> DEFINE codes == v1  sends == v2  guesses == v3  open == v4
<1> USE DEF Codes!NoCode
<1>t. Codes!TypeOK /\ Codes!Spent
  BY DEF Codes!CodesInv
<1>m. MaxOTPAttempts \in Nat
  BY AccountsAssumption DEF Codes!CodesAssumption
<1>d. codes \in Seq(Codes!CodeType) /\ DOMAIN codes = 1 .. Len(codes) /\ Len(codes) \in Nat
  BY <1>t DEF Codes!TypeOK
<1>g. /\ guesses \in [Guesses -> Codes!GuessType]
      /\ \A g \in Guesses : guesses[g].code \in {0} \cup DOMAIN codes /\ guesses[g].digits \in {0} \cup DOMAIN codes
  BY <1>t DEF Codes!TypeOK
<1>f. \A k : IsFiniteSet(Codes!Comparing(k)) /\ Cardinality(Codes!Comparing(k)) \in Nat
  <2>1. IsFiniteSet(Guesses)
    BY AccountsAssumption, CodesFinite DEF Codes!CodesAssumption
  <2>2. \A k : Codes!Comparing(k) \in SUBSET Guesses
    BY DEF Codes!Comparing
  <2> QED BY <2>1, <2>2, FS_Subset, FS_CardinalityType
<1>s. \A k \in DOMAIN codes : Codes!SpentAt(k)
  BY <1>t DEF Codes!Spent
<1>n. \A g \in Guesses : guesses[g].pc \notin {"new", "done"} => guesses[g].code \in DOMAIN codes
  BY <1>t, <1>g DEF Codes!Spent
<1>1. ASSUME NEW s \in Calls, Codes!CountRecentOTPCodes(s)
      PROVE  Codes!CodesInv'
  <2>1. Codes!TypeOK'
    BY <1>1, <1>t DEF Codes!TypeOK, Codes!CountRecentOTPCodes
  <2>2. codes' = codes /\ guesses' = guesses
    BY <1>1 DEF Codes!CountRecentOTPCodes
  <2>3. \A k \in DOMAIN codes : Codes!SpentAt(k)'
    BY <2>2, <1>s, SpentStays DEF Codes!At
  <2>4. Codes!Spent'
    BY <2>2, <2>3, <1>t DEF Codes!Spent
  <2> QED BY <2>1, <2>4 DEF Codes!CodesInv
<1>2. ASSUME NEW s \in Calls, Codes!SignupAllowed(s)
      PROVE  Codes!CodesInv'
  <2>1. Codes!TypeOK'
    BY <1>2, <1>t DEF Codes!TypeOK, Codes!SignupAllowed
  <2>2. codes' = codes /\ guesses' = guesses
    BY <1>2 DEF Codes!SignupAllowed
  <2>3. \A k \in DOMAIN codes : Codes!SpentAt(k)'
    BY <2>2, <1>s, SpentStays DEF Codes!At
  <2>4. Codes!Spent'
    BY <2>2, <2>3, <1>t DEF Codes!Spent
  <2> QED BY <2>1, <2>4 DEF Codes!CodesInv
<1>3. ASSUME Codes!SwitchSignupMode
      PROVE  Codes!CodesInv'
  <2>1. Codes!TypeOK'
    BY <1>3, <1>t DEF Codes!TypeOK, Codes!SwitchSignupMode
  <2>2. codes' = codes /\ guesses' = guesses
    BY <1>3 DEF Codes!SwitchSignupMode
  <2>3. \A k \in DOMAIN codes : Codes!SpentAt(k)'
    BY <2>2, <1>s, SpentStays DEF Codes!At
  <2>4. Codes!Spent'
    BY <2>2, <2>3, <1>t DEF Codes!Spent
  <2> QED BY <2>1, <2>4 DEF Codes!CodesInv
<1>4. ASSUME UNCHANGED Codes!vars
      PROVE  Codes!CodesInv'
  <2>1. Codes!TypeOK'
    BY <1>4, <1>t DEF Codes!TypeOK, Codes!vars
  <2>2. codes' = codes /\ guesses' = guesses
    BY <1>4 DEF Codes!vars
  <2>3. \A k \in DOMAIN codes : Codes!SpentAt(k)'
    BY <2>2, <1>s, SpentStays DEF Codes!At
  <2>4. Codes!Spent'
    BY <2>2, <2>3, <1>t DEF Codes!Spent
  <2> QED BY <2>1, <2>4 DEF Codes!CodesInv
<1>5. ASSUME NEW s \in Calls, Codes!CreateOTPCode(s)
      PROVE  Codes!CodesInv'
  <2> DEFINE new == [real |-> sends[s] = "real", used |-> FALSE, expired |-> FALSE,
                     attempts |-> 0, compared |-> 0, sessions |-> 0]
  <2>0. PICK last \in Nat : last = Len(codes) + 1
    BY <1>d
  <2>1. new \in Codes!CodeType
    BY <1>m DEF Codes!CodeType
  <2>2. codes' = Append(codes, new) /\ guesses' = guesses /\ open' = open
    BY <1>5 DEF Codes!CreateOTPCode
  <2>3. /\ codes' \in Seq(Codes!CodeType) /\ DOMAIN codes' = DOMAIN codes \cup {last}
        /\ codes'[last] = new /\ \A k \in DOMAIN codes : codes'[k] = codes[k]
    <3> HIDE DEF new
    <3> QED BY <2>0, <2>1, <2>2, <1>d, AppendProperties
  <2>4. Codes!TypeOK'
    <3>1. sends' \in [Calls -> {"new", "gate", "real", "blocked", "done"}]
      BY <1>5, <1>t DEF Codes!TypeOK, Codes!CreateOTPCode
    <3> QED BY <2>2, <2>3, <3>1, <1>t DEF Codes!TypeOK
  <2>5. \A g \in Guesses : guesses'[g].code # last
    BY <2>0, <1>g, <1>d, <2>2
  <2>6. Codes!SpentAt(last)'
    <3>1. Codes!Comparing(last)' = {}
      BY <2>5 DEF Codes!Comparing, Codes!At
    <3>2. Codes!Cardinality(Codes!Comparing(last)') = 0
      BY <3>1, CodesCardinality, FS_EmptySet
    <3> HIDE DEF Codes!Comparing
    <3> QED BY <2>3, <2>5, <3>2 DEF Codes!SpentAt, Codes!At
  <2>7. ASSUME NEW k \in DOMAIN codes PROVE Codes!SpentAt(k)'
    BY <2>2, <2>3, <1>s, SpentStays DEF Codes!At
  <2>8. Codes!Spent'
    <3>1. \A k \in DOMAIN codes' : Codes!SpentAt(k)'
      BY <2>3, <2>6, <2>7
    <3>2. \A g \in Guesses : guesses'[g].pc \notin {"new", "done"} => guesses'[g].code # 0
      BY <2>2, <1>t DEF Codes!Spent
    <3> QED BY <3>1, <3>2 DEF Codes!Spent
  <2> QED BY <2>4, <2>8 DEF Codes!CodesInv
<1>6. ASSUME NEW g \in Guesses, NEW digits \in {0} \cup DOMAIN codes, Codes!FindLatestValidOTPCode(g, digits)
      PROVE  Codes!CodesInv'
  <2> DEFINE valid == {k \in DOMAIN codes : Codes!Valid(codes[k])}
             p == [pc |-> IF valid = {} THEN "done" ELSE "claim",
                   code |-> IF valid = {} THEN 0 ELSE Codes!Max(valid), digits |-> digits]
  <2>1. valid # {} => Codes!Max(valid) \in DOMAIN codes
    BY <1>d, HasLatest
  <2>2. codes' = codes /\ sends' = sends /\ open' = open /\ guesses' = [guesses EXCEPT ![g] = p]
    BY <1>6 DEF Codes!FindLatestValidOTPCode
  <2>3. /\ p \in Codes!GuessType /\ p.code \in {0} \cup DOMAIN codes /\ p.digits \in {0} \cup DOMAIN codes
        /\ p.pc \in {"done", "claim"} /\ (p.pc = "claim" => p.code # 0)
    <3> HIDE DEF valid
    <3> QED BY <2>1, <1>d DEF Codes!GuessType
  <2> HIDE DEF p
  <2>4. \A h \in Guesses : guesses'[h] = IF h = g THEN p ELSE guesses[h]
    BY <2>2, <1>g
  <2>5. Codes!TypeOK'
    BY <2>2, <2>3, <1>t DEF Codes!TypeOK
  <2>6. guesses[g].pc = "new"
    BY <1>6 DEF Codes!FindLatestValidOTPCode
  <2>7. \A k \in DOMAIN codes : Codes!SpentAt(k)'
    BY <2>2, <2>3, <2>4, <2>6, <1>s, SpentStays DEF Codes!At
  <2>8. Codes!Spent'
    BY <2>2, <2>3, <2>4, <2>7, <1>n, <1>d DEF Codes!Spent
  <2> QED BY <2>5, <2>8 DEF Codes!CodesInv
<1>7. ASSUME NEW g \in Guesses, Codes!ClaimOTPAttempt(g)
      PROVE  Codes!CodesInv'
  <2>1. PICK k \in DOMAIN codes : k = guesses[g].code
    BY <1>7, <1>n DEF Codes!ClaimOTPAttempt
  <2> DEFINE c == [codes[k] EXCEPT !.attempts = codes[k].attempts + 1]
             p == [guesses[g] EXCEPT !.pc = "compare"]
             p2 == [guesses[g] EXCEPT !.pc = "done"]
  <2>2. codes[k] \in Codes!CodeType /\ guesses[g] \in Codes!GuessType
    BY <1>d, <1>g
  <2>3. guesses[g].pc = "claim" /\ sends' = sends /\ open' = open
    BY <1>7 DEF Codes!ClaimOTPAttempt
  <2>4. CASE codes' = codes /\ guesses' = [guesses EXCEPT ![g] = p2]
    <3>1. p2 \in Codes!GuessType /\ p2.code = guesses[g].code /\ p2.digits = guesses[g].digits /\ p2.pc = "done"
      BY <2>2 DEF Codes!GuessType
    <3> HIDE DEF p2
    <3>2. \A h \in Guesses : guesses'[h] = IF h = g THEN p2 ELSE guesses[h]
      BY <2>4, <1>g
    <3>3. Codes!TypeOK'
      BY <2>3, <2>4, <3>1, <3>2, <1>t DEF Codes!TypeOK
    <3>4. \A j \in DOMAIN codes : Codes!SpentAt(j)'
      BY <2>3, <2>4, <3>1, <3>2, <1>s, SpentStays DEF Codes!At
    <3>5. Codes!Spent'
      BY <2>4, <3>1, <3>2, <3>4, <1>t DEF Codes!Spent
    <3> QED BY <3>3, <3>5 DEF Codes!CodesInv
  <2>5. CASE /\ codes[k].attempts < MaxOTPAttempts
             /\ codes' = [codes EXCEPT ![k] = c] /\ guesses' = [guesses EXCEPT ![g] = p]
    <3>1. p \in Codes!GuessType /\ p.code = guesses[g].code /\ p.digits = guesses[g].digits /\ p.pc = "compare"
      BY <2>2 DEF Codes!GuessType
    <3>2. /\ c \in Codes!CodeType /\ c.attempts = codes[k].attempts + 1 /\ c.compared = codes[k].compared
          /\ c.used = codes[k].used /\ c.sessions = codes[k].sessions
      <4>1. codes[k].attempts + 1 \in 0 .. MaxOTPAttempts
        BY <2>2, <2>5, <1>m DEF Codes!CodeType
      <4> QED BY <4>1, <2>2 DEF Codes!CodeType
    <3> HIDE DEF p, c
    <3>3. \A h \in Guesses : guesses'[h] = IF h = g THEN p ELSE guesses[h]
      BY <2>5, <1>g
    <3>4. /\ codes' \in Seq(Codes!CodeType) /\ DOMAIN codes' = DOMAIN codes
          /\ codes'[k] = c /\ \A j \in DOMAIN codes : j # k => codes'[j] = codes[j]
      BY <2>5, <3>2, <1>d, CodeChanges
    <3>5. Codes!TypeOK'
      BY <2>3, <2>5, <3>1, <3>3, <3>4, <1>t DEF Codes!TypeOK
    <3>6. ASSUME NEW j \in DOMAIN codes, j # k PROVE Codes!SpentAt(j)'
      BY <2>1, <2>3, <3>1, <3>3, <3>4, <3>6, <1>s, SpentStays DEF Codes!At
    <3>7. Codes!SpentAt(k)'
      <4>1. Codes!Comparing(k)' = Codes!Comparing(k) \cup {g} /\ g \notin Codes!Comparing(k)
        BY <2>1, <2>3, <3>1, <3>3 DEF Codes!Comparing, Codes!At
      <4>2. Codes!Cardinality(Codes!Comparing(k)') = Codes!Cardinality(Codes!Comparing(k)) + 1
        BY <4>1, <1>f, FS_AddElement, CodesCardinality
      <4>3. codes'[k].compared + Codes!Cardinality(Codes!Comparing(k)') <= codes'[k].attempts
        <5>1. codes[k].compared + Codes!Cardinality(Codes!Comparing(k)) <= codes[k].attempts
          BY <1>s DEF Codes!SpentAt
        <5>2. codes[k].compared \in Nat /\ codes[k].attempts \in Nat /\ Codes!Cardinality(Codes!Comparing(k)) \in Nat
          BY <2>2, <1>f, <1>m, CodesCardinality DEF Codes!CodeType
        <5> HIDE DEF Codes!Comparing
        <5> QED BY <5>1, <5>2, <4>2, <3>2, <3>4
      <4>4. \A h \in Guesses : Codes!At(h, "gate", k)' <=> Codes!At(h, "gate", k)
        BY <2>3, <3>1, <3>3 DEF Codes!At
      <4> QED BY <4>3, <4>4, <3>2, <3>4, <1>s DEF Codes!SpentAt
    <3>8. Codes!Spent'
      BY <2>1, <3>1, <3>3, <3>4, <3>6, <3>7, <1>t, <1>d DEF Codes!Spent
    <3> QED BY <3>5, <3>8 DEF Codes!CodesInv
  <2>6. Codes!Claimable(codes[k]) =>
          codes[k].attempts < MaxOTPAttempts /\ Codes!Min({codes[k].attempts + 1, MaxOTPAttempts}) = codes[k].attempts + 1
    <3>1. codes[k].attempts \in Nat
      BY <2>2, <1>m DEF Codes!CodeType
    <3> QED BY <3>1, <1>m DEF Codes!Claimable, Codes!Valid, Codes!Min
  <2> QED BY <2>1, <2>4, <2>5, <2>6, <1>7 DEF Codes!ClaimOTPAttempt
<1>8. ASSUME NEW g \in Guesses, Codes!CompareCode(g)
      PROVE  Codes!CodesInv'
  <2>1. PICK k \in DOMAIN codes : k = guesses[g].code
    BY <1>8, <1>n DEF Codes!CompareCode
  <2> DEFINE c == [codes[k] EXCEPT !.compared = codes[k].compared + 1]
             p == [guesses[g] EXCEPT !.pc = IF codes[k].real /\ guesses[g].digits = k THEN "consume" ELSE "done"]
  <2>2. codes[k] \in Codes!CodeType /\ guesses[g] \in Codes!GuessType
    BY <1>d, <1>g
  <2>3. /\ guesses[g].pc = "compare" /\ sends' = sends /\ open' = open
        /\ codes' = [codes EXCEPT ![k] = c] /\ guesses' = [guesses EXCEPT ![g] = p]
    BY <1>8, <2>1 DEF Codes!CompareCode
  <2>4. p \in Codes!GuessType /\ p.code = guesses[g].code /\ p.digits = guesses[g].digits /\ p.pc \in {"consume", "done"}
    BY <2>2 DEF Codes!GuessType
  <2>5. /\ c \in Codes!CodeType /\ c.attempts = codes[k].attempts /\ c.compared = codes[k].compared + 1
        /\ c.used = codes[k].used /\ c.sessions = codes[k].sessions
    BY <2>2 DEF Codes!CodeType
  <2> HIDE DEF p, c
  <2>6. \A h \in Guesses : guesses'[h] = IF h = g THEN p ELSE guesses[h]
    BY <2>3, <1>g
  <2>7. /\ codes' \in Seq(Codes!CodeType) /\ DOMAIN codes' = DOMAIN codes
        /\ codes'[k] = c /\ \A j \in DOMAIN codes : j # k => codes'[j] = codes[j]
    BY <2>3, <2>5, <1>d, CodeChanges
  <2>8. Codes!TypeOK'
    BY <2>3, <2>4, <2>6, <2>7, <1>t DEF Codes!TypeOK
  <2>9. ASSUME NEW j \in DOMAIN codes, j # k PROVE Codes!SpentAt(j)'
    BY <2>1, <2>3, <2>4, <2>6, <2>7, <2>9, <1>s, SpentStays DEF Codes!At
  <2>10. Codes!SpentAt(k)'
    <3>1. Codes!Comparing(k)' = Codes!Comparing(k) \ {g} /\ g \in Codes!Comparing(k)
      BY <2>1, <2>3, <2>4, <2>6 DEF Codes!Comparing, Codes!At
    <3>2. Codes!Cardinality(Codes!Comparing(k)') = Codes!Cardinality(Codes!Comparing(k)) - 1
      BY <3>1, <1>f, FS_RemoveElement, CodesCardinality
    <3>3. codes'[k].compared + Codes!Cardinality(Codes!Comparing(k)') <= codes'[k].attempts
      <4>1. codes[k].compared + Codes!Cardinality(Codes!Comparing(k)) <= codes[k].attempts
        BY <1>s DEF Codes!SpentAt
      <4>2. codes[k].compared \in Nat /\ codes[k].attempts \in Nat /\ Codes!Cardinality(Codes!Comparing(k)) \in Nat
        BY <2>2, <1>f, <1>m, CodesCardinality DEF Codes!CodeType
      <4> HIDE DEF Codes!Comparing
      <4> QED BY <4>1, <4>2, <3>2, <2>5, <2>7
    <3>4. \A h \in Guesses : Codes!At(h, "gate", k)' <=> Codes!At(h, "gate", k)
      BY <2>3, <2>4, <2>6 DEF Codes!At
    <3> QED BY <3>3, <3>4, <2>5, <2>7, <1>s DEF Codes!SpentAt
  <2>11. Codes!Spent'
    BY <2>1, <2>4, <2>6, <2>7, <2>9, <2>10, <1>t, <1>d DEF Codes!Spent
  <2> QED BY <2>8, <2>11 DEF Codes!CodesInv
<1>9. ASSUME NEW g \in Guesses, Codes!ConsumeOTPCode(g)
      PROVE  Codes!CodesInv'
  <2>1. PICK k \in DOMAIN codes : k = guesses[g].code
    BY <1>9, <1>n DEF Codes!ConsumeOTPCode
  <2> DEFINE c == [codes[k] EXCEPT !.used = TRUE]
             p == [guesses[g] EXCEPT !.pc = IF codes[k].used THEN "done" ELSE "gate"]
  <2>2. codes[k] \in Codes!CodeType /\ guesses[g] \in Codes!GuessType
    BY <1>d, <1>g
  <2>3. /\ guesses[g].pc = "consume" /\ sends' = sends /\ open' = open
        /\ codes' = [codes EXCEPT ![k] = c] /\ guesses' = [guesses EXCEPT ![g] = p]
    BY <1>9, <2>1 DEF Codes!ConsumeOTPCode
  <2>4. /\ p \in Codes!GuessType /\ p.code = guesses[g].code /\ p.digits = guesses[g].digits
        /\ p.pc \in {"gate", "done"} /\ (p.pc = "gate" <=> ~codes[k].used)
    BY <2>2 DEF Codes!GuessType
  <2>5. /\ c \in Codes!CodeType /\ c.attempts = codes[k].attempts /\ c.compared = codes[k].compared
        /\ c.used = TRUE /\ c.sessions = codes[k].sessions
    BY <2>2 DEF Codes!CodeType
  <2> HIDE DEF p, c
  <2>6. \A h \in Guesses : guesses'[h] = IF h = g THEN p ELSE guesses[h]
    BY <2>3, <1>g
  <2>7. /\ codes' \in Seq(Codes!CodeType) /\ DOMAIN codes' = DOMAIN codes
        /\ codes'[k] = c /\ \A j \in DOMAIN codes : j # k => codes'[j] = codes[j]
    BY <2>3, <2>5, <1>d, CodeChanges
  <2>8. Codes!TypeOK'
    BY <2>3, <2>4, <2>6, <2>7, <1>t DEF Codes!TypeOK
  <2>9. ASSUME NEW j \in DOMAIN codes, j # k PROVE Codes!SpentAt(j)'
    BY <2>1, <2>3, <2>4, <2>6, <2>7, <2>9, <1>s, SpentStays DEF Codes!At
  <2>10. Codes!SpentAt(k)'
    <3>1. Codes!Comparing(k)' = Codes!Comparing(k)
      BY <2>3, <2>4, <2>6 DEF Codes!Comparing, Codes!At
    <3>2. Codes!Cardinality(Codes!Comparing(k)') = Codes!Cardinality(Codes!Comparing(k))
      BY <3>1
    <3>3. codes'[k].compared + Codes!Cardinality(Codes!Comparing(k)') <= codes'[k].attempts /\ codes'[k].sessions <= 1
      <4> HIDE DEF Codes!Comparing
      <4> QED BY <3>2, <2>5, <2>7, <1>s DEF Codes!SpentAt
    <3>4. \A h \in Guesses : Codes!At(h, "gate", k)' => Codes!At(h, "gate", k) \/ (h = g /\ ~codes[k].used)
      BY <2>4, <2>6 DEF Codes!At
    <3>5. ~codes[k].used => codes[k].sessions = 0 /\ \A h \in Guesses : ~Codes!At(h, "gate", k)
      BY <1>s DEF Codes!SpentAt
    <3>6. /\ \A h \in Guesses : Codes!At(h, "gate", k) => codes[k].sessions = 0
          /\ \A h, i \in Guesses : Codes!At(h, "gate", k) /\ Codes!At(i, "gate", k) => h = i
      BY <1>s DEF Codes!SpentAt
    <3>7. codes'[k].used = TRUE /\ codes'[k].sessions = codes[k].sessions
      BY <2>5, <2>7
    <3> QED BY <3>3, <3>4, <3>5, <3>6, <3>7 DEF Codes!SpentAt
  <2>11. Codes!Spent'
    BY <2>1, <2>4, <2>6, <2>7, <2>9, <2>10, <1>t, <1>d DEF Codes!Spent
  <2> QED BY <2>8, <2>11 DEF Codes!CodesInv
<1>10. ASSUME NEW g \in Guesses, Codes!StartSession(g)
      PROVE  Codes!CodesInv'
  <2>1. PICK k \in DOMAIN codes : k = guesses[g].code
    BY <1>10, <1>n DEF Codes!StartSession
  <2> DEFINE c == IF open THEN [codes[k] EXCEPT !.sessions = codes[k].sessions + 1] ELSE codes[k]
             p == [guesses[g] EXCEPT !.pc = "done"]
  <2>2. codes[k] \in Codes!CodeType /\ guesses[g] \in Codes!GuessType
    BY <1>d, <1>g
  <2>3. /\ guesses[g].pc = "gate" /\ sends' = sends /\ open' = open
        /\ codes' = [codes EXCEPT ![k] = c] /\ guesses' = [guesses EXCEPT ![g] = p]
    <3>1. [codes EXCEPT ![k] = codes[k]] = codes
      BY <1>d
    <3> QED BY <1>10, <2>1, <3>1 DEF Codes!StartSession
  <2>4. p \in Codes!GuessType /\ p.code = guesses[g].code /\ p.digits = guesses[g].digits /\ p.pc = "done"
    BY <2>2 DEF Codes!GuessType
  <2>5. /\ c \in Codes!CodeType /\ c.attempts = codes[k].attempts /\ c.compared = codes[k].compared
        /\ c.used = codes[k].used /\ (c.sessions = codes[k].sessions + 1 \/ c.sessions = codes[k].sessions)
    BY <2>2 DEF Codes!CodeType
  <2> HIDE DEF p, c
  <2>6. \A h \in Guesses : guesses'[h] = IF h = g THEN p ELSE guesses[h]
    BY <2>3, <1>g
  <2>7. /\ codes' \in Seq(Codes!CodeType) /\ DOMAIN codes' = DOMAIN codes
        /\ codes'[k] = c /\ \A j \in DOMAIN codes : j # k => codes'[j] = codes[j]
    BY <2>3, <2>5, <1>d, CodeChanges
  <2>8. Codes!TypeOK'
    BY <2>3, <2>4, <2>6, <2>7, <1>t DEF Codes!TypeOK
  <2>9. ASSUME NEW j \in DOMAIN codes, j # k PROVE Codes!SpentAt(j)'
    BY <2>1, <2>3, <2>4, <2>6, <2>7, <2>9, <1>s, SpentStays DEF Codes!At
  <2>10. Codes!SpentAt(k)'
    <3>1. Codes!Comparing(k)' = Codes!Comparing(k)
      BY <2>3, <2>4, <2>6 DEF Codes!Comparing, Codes!At
    <3>2. Codes!Cardinality(Codes!Comparing(k)') = Codes!Cardinality(Codes!Comparing(k))
      BY <3>1
    <3>3. codes'[k].compared + Codes!Cardinality(Codes!Comparing(k)') <= codes'[k].attempts
      <4> HIDE DEF Codes!Comparing
      <4> QED BY <3>2, <2>5, <2>7, <1>s DEF Codes!SpentAt
    <3>4. Codes!At(g, "gate", k)
      BY <2>1, <2>3 DEF Codes!At
    <3>5. codes[k].used /\ codes[k].sessions = 0
      BY <3>4, <1>s DEF Codes!SpentAt
    <3>6. \A h \in Guesses : Codes!At(h, "gate", k) => h = g
      BY <3>4, <1>s DEF Codes!SpentAt
    <3>7. \A h \in Guesses : ~Codes!At(h, "gate", k)'
      BY <3>6, <2>4, <2>6 DEF Codes!At
    <3>8. codes'[k].used
      BY <3>5, <2>5, <2>7
    <3>9. codes'[k].sessions <= 1
      <4>1. codes[k].sessions = 0
        BY <3>5
      <4>2. c.sessions = 1 \/ c.sessions = 0
        BY <4>1, <2>5
      <4> QED BY <4>2, <2>7
    <3> QED BY <3>3, <3>7, <3>8, <3>9 DEF Codes!SpentAt
  <2>11. Codes!Spent'
    BY <2>1, <2>4, <2>6, <2>7, <2>9, <2>10, <1>t, <1>d DEF Codes!Spent
  <2> QED BY <2>8, <2>11 DEF Codes!CodesInv
<1>11. ASSUME NEW k \in DOMAIN codes, Codes!Expires(k)
      PROVE  Codes!CodesInv'
  <2> DEFINE c == [codes[k] EXCEPT !.expired = TRUE]
  <2>1. codes[k] \in Codes!CodeType
    BY <1>d
  <2>2. codes' = [codes EXCEPT ![k] = c] /\ guesses' = guesses /\ sends' = sends /\ open' = open
    BY <1>11 DEF Codes!Expires
  <2>3. /\ c \in Codes!CodeType /\ c.attempts = codes[k].attempts /\ c.compared = codes[k].compared
        /\ c.used = codes[k].used /\ c.sessions = codes[k].sessions
    BY <2>1 DEF Codes!CodeType
  <2> HIDE DEF c
  <2>4. /\ codes' \in Seq(Codes!CodeType) /\ DOMAIN codes' = DOMAIN codes
        /\ codes'[k] = c /\ \A j \in DOMAIN codes : j # k => codes'[j] = codes[j]
    BY <2>2, <2>3, <1>d, CodeChanges
  <2>5. Codes!TypeOK'
    BY <2>2, <2>4, <1>t DEF Codes!TypeOK
  <2>6. ASSUME NEW j \in DOMAIN codes PROVE Codes!SpentAt(j)'
    BY <2>2, <2>3, <2>4, <1>s, SpentStays DEF Codes!At
  <2>7. Codes!Spent'
    BY <2>2, <2>4, <2>6, <1>t DEF Codes!Spent
  <2> QED BY <2>5, <2>7 DEF Codes!CodesInv
<1> QED
  BY <1>1, <1>2, <1>3, <1>4, <1>5, <1>6, <1>7, <1>8, <1>9, <1>10, <1>11 DEF Codes!Next

-----------------------------------------------------------------------------
(***************************************************************************)
(* Refresh tokens                                                          *)
(***************************************************************************)

\* The grace covers every loss there may be.
LEMMA TokenConstants ==
  /\ Delay \in Nat /\ MaxLosses \in Nat /\ MaxTime \in Nat /\ Grace \in Nat
  /\ \A l \in 0 .. MaxLosses : 3 * Delay * l \in Nat /\ 3 * Delay * l + 2 * Delay < Grace
  /\ \A l \in Nat : 3 * Delay * (l + 1) = 3 * Delay * l + 3 * Delay
<1>1. Delay \in Nat /\ MaxLosses \in Nat /\ MaxTime \in Nat /\ Grace \in Nat /\ (3 * MaxLosses + 2) * Delay < Grace
  BY AccountsAssumption DEF Tokens!TokensAssumption
<1>2. ASSUME NEW l \in 0 .. MaxLosses
      PROVE  3 * Delay * l \in Nat /\ 3 * Delay * l + 2 * Delay < Grace
  <2>1. Delay * l \in Nat /\ Delay * l <= Delay * MaxLosses
    BY <1>1
  <2>2. (3 * MaxLosses + 2) * Delay = 3 * (Delay * MaxLosses) + 2 * Delay
    BY <1>1
  <2>3. 3 * Delay * l = 3 * (Delay * l) /\ Delay * MaxLosses \in Nat
    BY <1>1
  <2> QED BY <1>1, <2>1, <2>2, <2>3
<1>3. \A l \in Nat : 3 * Delay * (l + 1) = 3 * Delay * l + 3 * Delay
  BY <1>1
<1> QED BY <1>1, <1>2, <1>3

\* What losses have cost, and what one more costs.
LEMMA LostIs ==
  ASSUME Tokens!TypeOK
  PROVE  /\ Tokens!Lost \in Nat /\ Tokens!Lost + 2 * Delay < Grace
         /\ v6' = v6 => Tokens!Lost' = Tokens!Lost
         /\ v6' = v6 + 1 => Tokens!Lost' = Tokens!Lost + 3 * Delay
<1>1. v6 \in 0 .. MaxLosses /\ v6 \in Nat
  BY TokenConstants DEF Tokens!TypeOK
<1> QED BY <1>1, TokenConstants DEF Tokens!Lost

\* The browser holds the token of its sign-in, and no tab renews.
LEMMA TokensInit == Tokens!Init => Tokens!TokensInv
<1> SUFFICES ASSUME Tokens!Init PROVE Tokens!TokensInv
  OBVIOUS
<1> DEFINE first == [deleted |-> FALSE, rotatedAt |-> MaxTime + 1]
<1> USE TokenConstants DEF Tokens!Init, Tokens!None, Tokens!Never, Tokens!IdleTab
<1>1. first \in Tokens!TokenType
  <2>1. MaxTime + 1 \in 0 .. MaxTime + 1
    OBVIOUS
  <2> QED BY <2>1 DEF Tokens!TokenType
<1>2. v2 = <<first>>
  OBVIOUS
<1>3. v2 \in Seq(Tokens!TokenType) /\ DOMAIN v2 = {1} /\ v2[1] = first
  <2> HIDE DEF first
  <2>1. <<first>> \in Seq(Tokens!TokenType)
    BY ONLY <1>1
  <2>2. DOMAIN <<first>> = {1} /\ <<first>>[1] = first
    BY ONLY <1>1
  <2> QED BY <1>2, <2>1, <2>2
<1>4. Tokens!TypeOK
  <2>1. v4 \in [Clients -> Tokens!TabType] /\ v1 \in 0 .. MaxTime /\ v6 \in 0 .. MaxLosses
    BY DEF Tokens!TabType
  <2> QED BY <2>1, <1>3 DEF Tokens!TypeOK
<1>5. Tokens!Riding
  BY <1>3 DEF Tokens!Riding, Tokens!At, Tokens!Timely, Tokens!Rotated
<1> QED BY <1>4, <1>5 DEF Tokens!TokensInv

\* The tokens and the tabs have their types.
LEMMA TokenTypes ==
  ASSUME Tokens!TypeOK
  PROVE  /\ v1 \in 0 .. MaxTime /\ v1 \in Nat /\ v2 \in Seq(Tokens!TokenType)
         /\ DOMAIN v2 = 1 .. Len(v2) /\ Len(v2) \in Nat
         /\ \A k \in DOMAIN v2 : v2[k] \in Tokens!TokenType /\ v2[k].rotatedAt \in Nat
         /\ \A t \in Clients : /\ v4[t] \in Tokens!TabType /\ v4[t].since \in Nat
                               /\ v4[t].token \in {0} \cup DOMAIN v2 /\ v4[t].answer \in {0} \cup DOMAIN v2
                               /\ Tokens!At(t, "sent") => v4[t].token \in DOMAIN v2
<1>1. v1 \in 0 .. MaxTime /\ v1 \in Nat /\ v2 \in Seq(Tokens!TokenType)
  BY TokenConstants DEF Tokens!TypeOK
<1>2. DOMAIN v2 = 1 .. Len(v2) /\ Len(v2) \in Nat
  BY <1>1
<1>3. \A k \in DOMAIN v2 : v2[k] \in Tokens!TokenType
  BY <1>1
<1>4. \A c \in Tokens!TokenType : c.rotatedAt \in Nat
  BY TokenConstants DEF Tokens!TokenType, Tokens!Never
<1>5. \A c \in Tokens!TabType : c.since \in Nat
  BY TokenConstants DEF Tokens!TabType
<1>6. \A t \in Clients : v4[t] \in Tokens!TabType /\ v4[t].token \in {0} \cup DOMAIN v2 /\ v4[t].answer \in {0} \cup DOMAIN v2
  BY DEF Tokens!TypeOK, Tokens!None
<1>7. \A t \in Clients : Tokens!At(t, "sent") => v4[t].token \in DOMAIN v2
  BY <1>6 DEF Tokens!TypeOK, Tokens!None, Tokens!At
<1> QED BY <1>1, <1>2, <1>3, <1>4, <1>5, <1>6, <1>7

\* While the cookie is a rotated one, it was rotated not long ago.
LEMMA RotatedLately ==
  ASSUME Tokens!TypeOK, Tokens!Riding, v3 # 0, Tokens!Rotated(v3)
  PROVE  v1 <= v2[v3].rotatedAt + Tokens!Lost + Delay
<1>1. PICK t \in Clients : Tokens!Replaces(t)
  BY DEF Tokens!Riding, Tokens!None
<1>2. v4[t].since \in Nat /\ v1 \in Nat /\ Tokens!Lost \in Nat /\ Delay \in Nat
  BY TokenTypes, LostIs, TokenConstants
<1>3. v2[v3].rotatedAt \in Nat
  BY TokenTypes DEF Tokens!TypeOK, Tokens!None
<1>4. ~Tokens!At(t, "idle") => v1 <= v4[t].since + Delay
  BY DEF Tokens!Riding, Tokens!Timely
<1>5. ~Tokens!At(t, "idle")
  BY <1>1 DEF Tokens!Replaces, Tokens!At
<1>6. v4[t].since <= v2[v3].rotatedAt + Tokens!Lost
  BY <1>1, <1>2, <1>3 DEF Tokens!Replaces
<1> QED BY <1>2, <1>3, <1>4, <1>5, <1>6

\* A tab that goes quiet, waits to retry or presents the cookie.
LEMMA TabMoves ==
  ASSUME Tokens!TypeOK, Tokens!Riding, NEW t \in Clients, NEW p,
         v4' = [v4 EXCEPT ![t] = p], v1' = v1, v2' = v2, v3' = v3, v5' = v5,
         v6' = v6 \/ v6' = v6 + 1,
         p.pc \in {"idle", "retry", "sent"},
         p.pc # "idle" => p.since = v1,
         p.pc = "sent" => p.token = v3 /\ v3 # 0,
         v3 # 0 /\ Tokens!Rotated(v3) /\ Tokens!Replaces(t) => Tokens!Replaces(t)'
  PROVE  Tokens!Riding'
<1>n. Tokens!Lost \in Nat /\ Tokens!Lost' \in Nat /\ Tokens!Lost' >= Tokens!Lost /\ Delay \in Nat /\ v1 \in Nat
  BY LostIs, TokenConstants, TokenTypes
<1>1. \A s \in Clients : v4'[s] = IF s = t THEN p ELSE v4[s]
  BY DEF Tokens!TypeOK
<1>2. ASSUME NEW s \in Clients, Tokens!At(s, "sent")' PROVE Tokens!Fresh(s)'
  <2>1. CASE s = t
    <3>1. p.token = v3 /\ v3 # 0 /\ p.since = v1 /\ v4'[s] = p
      BY <1>1, <1>2, <2>1 DEF Tokens!At
    <3>2. Tokens!Rotated(v3) => v1 <= v2[v3].rotatedAt + Tokens!Lost' + Delay
      <4>1. v2[v3].rotatedAt \in Nat
        BY <3>1, TokenTypes DEF Tokens!TypeOK, Tokens!None
      <4> QED BY <4>1, <3>1, <1>n, RotatedLately
    <3> QED BY <3>1, <3>2 DEF Tokens!Fresh, Tokens!Rotated, Tokens!None
  <2>2. CASE s # t
    <3>1. v4'[s] = v4[s] /\ Tokens!Fresh(s) /\ Tokens!At(s, "sent")
      BY <1>1, <1>2, <2>2 DEF Tokens!At, Tokens!Riding
    <3>2. v4[s].token \in DOMAIN v2 /\ v4[s].since \in Nat
      BY <3>1, TokenTypes
    <3>3. v2[v4[s].token].rotatedAt \in Nat
      BY <3>2, TokenTypes
    <3>4. Tokens!Rotated(v4[s].token) => v4[s].since <= v2[v4[s].token].rotatedAt + Tokens!Lost' + Delay
      BY <3>1, <3>2, <3>3, <1>n DEF Tokens!Fresh
    <3> QED BY <3>1, <3>4 DEF Tokens!Fresh, Tokens!Rotated
  <2> QED BY <2>1, <2>2
<1>3. ASSUME NEW s \in Clients, Tokens!At(s, "answered")' PROVE Tokens!Unseen(s)'
  <2>1. s # t /\ v4'[s] = v4[s] /\ Tokens!Unseen(s)
    BY <1>1, <1>3 DEF Tokens!At, Tokens!Riding
  <2>2. \A r \in Clients : Tokens!At(r, "sent")' => v4'[r].token # v4[s].answer
    BY <1>1, <2>1 DEF Tokens!At, Tokens!Unseen
  <2>3. \A r \in Clients : r # s /\ Tokens!At(r, "answered")' => v4'[r].answer # v4[s].answer
    BY <1>1, <2>1 DEF Tokens!At, Tokens!Unseen
  <2> QED BY <2>1, <2>2, <2>3 DEF Tokens!Unseen, Tokens!Rotated
<1>4. \A s \in Clients : ~Tokens!At(s, "reuse")' /\ Tokens!Timely(s)'
  <2>1. v1 <= v1 + Delay /\ v1 <= v1
    BY <1>n
  <2> QED BY <1>1, <2>1 DEF Tokens!Riding, Tokens!At, Tokens!Timely
<1>5. v3' # 0 /\ Tokens!Rotated(v3)' => ~v2'[v3'].deleted /\ \E s \in Clients : Tokens!Replaces(s)'
  <2> SUFFICES ASSUME v3 # 0, Tokens!Rotated(v3)
               PROVE  ~v2[v3].deleted /\ \E s \in Clients : Tokens!Replaces(s)'
    BY DEF Tokens!Rotated
  <2>1. ~v2[v3].deleted /\ \E s \in Clients : Tokens!Replaces(s)
    BY DEF Tokens!Riding, Tokens!None
  <2>2. PICK s \in Clients : Tokens!Replaces(s)
    BY <2>1
  <2>3. CASE s = t
    BY <2>1, <2>2, <2>3
  <2>4. CASE s # t
    <3>1. v4'[s] = v4[s] /\ v4[s].since \in Nat /\ v2[v3].rotatedAt \in Nat
      BY <1>1, <2>4, TokenTypes DEF Tokens!TypeOK, Tokens!None
    <3>2. Tokens!Replaces(s)'
      BY <3>1, <2>2, <1>n DEF Tokens!Replaces, Tokens!At
    <3> QED BY <2>1, <3>2
  <2> QED BY <2>3, <2>4
<1>6. ~v5'
  BY DEF Tokens!Riding
<1> QED BY <1>2, <1>3, <1>4, <1>5, <1>6 DEF Tokens!Riding, Tokens!None

\* The record of one tab changes and tokens are only added: the types hold.
LEMMA TabTyped ==
  ASSUME Tokens!TypeOK, NEW t \in Clients, NEW p \in Tokens!TabType,
         v4' = [v4 EXCEPT ![t] = p],
         DOMAIN v2 \subseteq DOMAIN v2',
         p.token \in {0} \cup DOMAIN v2', p.answer \in {0} \cup DOMAIN v2', p.pc = "sent" => p.token # 0
  PROVE  /\ v4' \in [Clients -> Tokens!TabType]
         /\ \A s \in Clients : /\ {v4'[s].token, v4'[s].answer} \subseteq {Tokens!None} \cup DOMAIN v2'
                               /\ v4'[s].pc = "sent" => v4'[s].token # Tokens!None
<1>1. v4 \in [Clients -> Tokens!TabType]
  BY DEF Tokens!TypeOK
<1>2. \A s \in Clients : v4'[s] = IF s = t THEN p ELSE v4[s]
  BY <1>1
<1>3. \A s \in Clients : v4[s].token \in {0} \cup DOMAIN v2 /\ v4[s].answer \in {0} \cup DOMAIN v2
  BY TokenTypes
<1>4. v4' \in [Clients -> Tokens!TabType]
  BY <1>1
<1>5. \A s \in Clients : v4[s].pc = "sent" => v4[s].token # 0
  BY DEF Tokens!TypeOK, Tokens!None
<1> QED BY <1>2, <1>3, <1>4, <1>5 DEF Tokens!None

\* What a renewal leaves of the tokens.
LEMMA IssuedIs ==
  ASSUME Tokens!TypeOK, NEW k \in DOMAIN v2
  PROVE  /\ Tokens!Issued(k) \in Seq(Tokens!TokenType)
         /\ DOMAIN Tokens!Issued(k) = DOMAIN v2 \cup {Len(v2) + 1}
         /\ Len(Tokens!Issued(k)) = Len(v2) + 1
         /\ Tokens!Issued(k)[Len(v2) + 1] = [deleted |-> FALSE, rotatedAt |-> Tokens!Never]
         /\ \A j \in DOMAIN v2 : Tokens!Issued(k)[j].deleted = v2[j].deleted
         /\ \A j \in DOMAIN v2 : j # k \/ Tokens!Rotated(k) => Tokens!Issued(k)[j] = v2[j]
         /\ ~Tokens!Rotated(k) => Tokens!Issued(k)[k].rotatedAt = v1
<1> DEFINE c == [v2[k] EXCEPT !.rotatedAt = v1]
           new == [deleted |-> FALSE, rotatedAt |-> Tokens!Never]
           base == IF Tokens!Rotated(k) THEN v2 ELSE [v2 EXCEPT ![k] = c]
<1>0. /\ v2 \in Seq(Tokens!TokenType) /\ DOMAIN v2 = 1 .. Len(v2) /\ Len(v2) \in Nat
      /\ v1 \in 0 .. Tokens!Never /\ Tokens!Never \in 0 .. Tokens!Never /\ v2[k] \in Tokens!TokenType
  BY TokenTypes, TokenConstants DEF Tokens!Never
<1>1. c \in Tokens!TokenType /\ c.rotatedAt = v1 /\ c.deleted = v2[k].deleted
  BY <1>0 DEF Tokens!TokenType
<1>2. new \in Tokens!TokenType
  BY <1>0 DEF Tokens!TokenType
<1>3. Tokens!Issued(k) = Append(base, new)
  BY DEF Tokens!Issued
<1> HIDE DEF c, new
<1>4. /\ base \in Seq(Tokens!TokenType) /\ Len(base) = Len(v2)
      /\ \A j \in DOMAIN v2 : base[j] = IF j = k /\ ~Tokens!Rotated(k) THEN c ELSE v2[j]
  <2>1. CASE Tokens!Rotated(k)
    BY <2>1, <1>0
  <2>2. CASE ~Tokens!Rotated(k)
    <3>1. base = [v2 EXCEPT ![k] = c] /\ k \in 1 .. Len(v2)
      BY <2>2, <1>0
    <3>2. base \in Seq(Tokens!TokenType) /\ Len(base) = Len(v2) /\ \A j \in 1 .. Len(v2) : base[j] = IF j = k THEN c ELSE v2[j]
      BY <3>1, <1>0, <1>1, ExceptSeq
    <3> QED BY <3>2, <2>2, <1>0
  <2> QED BY <2>1, <2>2
<1> HIDE DEF base
<1>5. /\ Append(base, new) \in Seq(Tokens!TokenType) /\ Len(Append(base, new)) = Len(v2) + 1
      /\ \A j \in 1 .. Len(v2) : Append(base, new)[j] = base[j]
      /\ Append(base, new)[Len(v2) + 1] = new
  BY <1>0, <1>2, <1>4, AppendProperties
<1>6. DOMAIN Append(base, new) = 1 .. (Len(v2) + 1)
  BY <1>5
<1>7. DOMAIN Append(base, new) = DOMAIN v2 \cup {Len(v2) + 1}
  BY <1>6, <1>0
<1>8. \A j \in DOMAIN v2 : Append(base, new)[j] = IF j = k /\ ~Tokens!Rotated(k) THEN c ELSE v2[j]
  BY <1>0, <1>4, <1>5
<1> QED BY <1>1, <1>3, <1>5, <1>7, <1>8 DEF new

\* A sign-out, or a reuse, deletes what there is and rotates nothing.
LEMMA AllDeleted ==
  ASSUME Tokens!TypeOK, v2' = [k \in DOMAIN v2 |-> [v2[k] EXCEPT !.deleted = TRUE]]
  PROVE  /\ v2' \in Seq(Tokens!TokenType) /\ DOMAIN v2' = DOMAIN v2
         /\ \A k \in DOMAIN v2 : v2'[k].rotatedAt = v2[k].rotatedAt
<1>1. v2 \in Seq(Tokens!TokenType) /\ DOMAIN v2 = 1 .. Len(v2) /\ Len(v2) \in Nat
  BY TokenTypes
<1>2. \A k \in DOMAIN v2 : v2[k] \in Tokens!TokenType
  BY TokenTypes
<1>3. \A c \in Tokens!TokenType : [c EXCEPT !.deleted = TRUE] \in Tokens!TokenType /\ [c EXCEPT !.deleted = TRUE].rotatedAt = c.rotatedAt
  BY DEF Tokens!TokenType
<1>4. \A k \in 1 .. Len(v2) : [v2[k] EXCEPT !.deleted = TRUE] \in Tokens!TokenType
  BY <1>1, <1>2, <1>3
<1>5. v2' = [k \in 1 .. Len(v2) |-> [v2[k] EXCEPT !.deleted = TRUE]]
  BY <1>1
<1>6. v2' \in Seq(Tokens!TokenType)
  BY <1>1, <1>4, <1>5, SeqDef
<1> QED BY <1>1, <1>2, <1>3, <1>6

\* Every request, answer, loss, retry, sign-out and tick leaves a rotated cookie
\* with a renewal about to replace it.
LEMMA TokensStep ==
  ASSUME Tokens!TokensInv, [Tokens!Next]_(Tokens!vars)
  PROVE  Tokens!TokensInv'
<1> DEFINE now == v1  tokens == v2  jar == v3  tabs == v4  alarm == v5  losses == v6  closed == v7
<1> USE DEF Tokens!None
<1>t. Tokens!TypeOK
  BY DEF Tokens!TokensInv
<1>r. ~closed => Tokens!Riding
  BY DEF Tokens!TokensInv
<1>d. /\ now \in 0 .. MaxTime /\ now \in Nat /\ Delay \in Nat /\ tokens \in Seq(Tokens!TokenType)
      /\ DOMAIN tokens = 1 .. Len(tokens) /\ Len(tokens) \in Nat /\ jar \in {0} \cup DOMAIN tokens
      /\ losses \in 0 .. MaxLosses /\ MaxLosses \in Nat /\ closed \in BOOLEAN /\ alarm \in BOOLEAN
      /\ Grace \in Nat /\ MaxTime \in Nat
  BY <1>t, TokenTypes, TokenConstants DEF Tokens!TypeOK
<1>k. \A k \in DOMAIN tokens : tokens[k].rotatedAt \in Nat
  BY <1>t, TokenTypes
<1>s. /\ tabs \in [Clients -> Tokens!TabType]
      /\ \A t \in Clients : /\ tabs[t] \in Tokens!TabType /\ tabs[t].since \in Nat
                            /\ tabs[t].token \in {0} \cup DOMAIN tokens /\ tabs[t].answer \in {0} \cup DOMAIN tokens
  BY <1>t, TokenTypes DEF Tokens!TypeOK
<1>l. Tokens!Lost \in Nat /\ Tokens!Lost + 2 * Delay < Grace
  BY <1>t, LostIs
<1>i. Tokens!IdleTab \in Tokens!TabType /\ Tokens!IdleTab.token = 0 /\ Tokens!IdleTab.answer = 0 /\ Tokens!IdleTab.pc = "idle"
  BY <1>d DEF Tokens!IdleTab, Tokens!TabType
<1>p. \A pc \in {"idle", "sent", "reuse", "answered", "retry"}, k, a \in Nat :
        [pc |-> pc, token |-> k, answer |-> a, since |-> now] \in Tokens!TabType
  BY <1>d DEF Tokens!TabType
\* A tab waits at most Delay for each step.
<1>w. \A t \in Clients : ~closed /\ ~Tokens!At(t, "idle") => tabs[t].since <= now /\ now <= tabs[t].since + Delay
  BY <1>r DEF Tokens!Riding, Tokens!Timely
<1>1. ASSUME NEW t \in Clients, Tokens!Send(t)
      PROVE  Tokens!TokensInv'
  <2> DEFINE p == [pc |-> "sent", token |-> jar, answer |-> 0, since |-> now]
  <2>1. /\ tabs' = [tabs EXCEPT ![t] = p] /\ now' = now /\ tokens' = tokens /\ jar' = jar
        /\ alarm' = alarm /\ losses' = losses /\ closed' = closed /\ jar # 0 /\ Tokens!At(t, "idle")
    BY <1>1 DEF Tokens!Send, Tokens!TabTo
  <2>2. p \in Tokens!TabType /\ p.pc = "sent" /\ p.token = jar /\ p.answer = 0 /\ p.since = now
    BY <1>p, <1>d
  <2> HIDE DEF p
  <2>3. Tokens!TypeOK'
    BY <2>1, <2>2, <1>t, <1>d, TabTyped DEF Tokens!TypeOK
  <2>4. ~Tokens!Replaces(t)
    BY <2>1 DEF Tokens!Replaces, Tokens!At
  <2>5. ~closed' => Tokens!Riding'
    BY <2>1, <2>2, <2>4, <1>t, <1>r, TabMoves
  <2> QED BY <2>3, <2>5 DEF Tokens!TokensInv
<1>2. ASSUME NEW t \in Clients, Tokens!Retry(t)
      PROVE  Tokens!TokensInv'
  <2>0. /\ now' = now /\ tokens' = tokens /\ jar' = jar
        /\ alarm' = alarm /\ losses' = losses /\ closed' = closed /\ Tokens!At(t, "retry")
    BY <1>2 DEF Tokens!Retry
  <2>1. CASE jar = 0
    <3>1. tabs' = [tabs EXCEPT ![t] = Tokens!IdleTab]
      BY <1>2, <2>1 DEF Tokens!Retry
    <3>2. Tokens!TypeOK'
      <4>1. /\ tabs' \in [Clients -> Tokens!TabType]
            /\ \A s \in Clients : /\ {tabs'[s].token, tabs'[s].answer} \subseteq {Tokens!None} \cup DOMAIN tokens'
                                  /\ tabs'[s].pc = "sent" => tabs'[s].token # Tokens!None
        BY <3>1, <2>0, <1>i, <1>t, TabTyped
      <4> QED BY <4>1, <2>0, <1>t DEF Tokens!TypeOK
    <3>3. ~closed' => Tokens!Riding'
      BY <2>0, <2>1, <3>1, <1>i, <1>t, <1>r, TabMoves
    <3> QED BY <3>2, <3>3 DEF Tokens!TokensInv
  <2>2. CASE jar # 0
    <3> DEFINE p == [pc |-> "sent", token |-> jar, answer |-> 0, since |-> now]
    <3>1. tabs' = [tabs EXCEPT ![t] = p]
      BY <1>2, <2>2 DEF Tokens!Retry, Tokens!TabTo
    <3>2. p \in Tokens!TabType /\ p.pc = "sent" /\ p.token = jar /\ p.answer = 0 /\ p.since = now
      BY <1>p, <1>d
    <3> HIDE DEF p
    <3>3. Tokens!TypeOK'
      BY <3>1, <3>2, <2>0, <2>2, <1>t, <1>d, TabTyped DEF Tokens!TypeOK
    <3>4. ASSUME ~closed, Tokens!Rotated(jar), Tokens!Replaces(t) PROVE Tokens!Replaces(t)'
      <4>1. tabs[t].since + 2 * Delay <= tokens[jar].rotatedAt + Tokens!Lost
        BY <3>4, <2>0 DEF Tokens!Replaces, Tokens!At
      <4>2. now <= tabs[t].since + Delay
        BY <1>w, <3>4, <2>0 DEF Tokens!At
      <4>3. tokens[jar].rotatedAt \in Nat
        BY <1>k, <1>d, <2>2
      <4>4. now + Delay <= tokens[jar].rotatedAt + Tokens!Lost
        <5>1. tabs[t].since \in Nat /\ now \in Nat /\ Delay \in Nat /\ Tokens!Lost \in Nat
          BY <1>s, <1>d, <1>l
        <5> QED BY <4>1, <4>2, <4>3, <5>1
      <4>5. tabs'[t] = p /\ Tokens!Lost' = Tokens!Lost
        BY <3>1, <2>0, <1>s DEF Tokens!Lost
      <4> QED BY <4>4, <4>5, <3>2, <2>0 DEF Tokens!Replaces, Tokens!At
    <3>5. ~closed' => Tokens!Riding'
      BY <3>1, <3>2, <3>4, <2>0, <2>2, <1>t, <1>r, TabMoves
    <3> QED BY <3>3, <3>5 DEF Tokens!TokensInv
  <2> QED BY <2>1, <2>2
\* An answer lost, or a retry that failed, costs three delays.
<1>3. ASSUME NEW t \in Clients, Tokens!RenewalFails(t)
      PROVE  Tokens!TokensInv'
  <2> DEFINE p == [pc |-> "retry", token |-> 0, answer |-> 0, since |-> now]
  <2>1. /\ tabs' = [tabs EXCEPT ![t] = p] /\ now' = now /\ tokens' = tokens /\ jar' = jar
        /\ alarm' = alarm /\ closed' = closed /\ Tokens!At(t, "sent")
    BY <1>3 DEF Tokens!RenewalFails, Tokens!TabTo
  <2>2. p \in Tokens!TabType /\ p.pc = "retry" /\ p.token = 0 /\ p.answer = 0 /\ p.since = now
    BY <1>p, <1>d
  <2>3. \/ ~Tokens!Rotated(tabs[t].token) /\ losses' = losses
        \/ losses < MaxLosses /\ losses' = losses + 1
    BY <1>3 DEF Tokens!RenewalFails
  <2>4. losses' \in 0 .. MaxLosses
    BY <2>3, <1>d
  <2> HIDE DEF p
  <2>5. Tokens!TypeOK'
    BY <2>1, <2>2, <2>4, <1>t, <1>d, TabTyped DEF Tokens!TypeOK
  <2>6. ASSUME ~closed, jar # 0, Tokens!Rotated(jar), Tokens!Replaces(t) PROVE Tokens!Replaces(t)'
    <3>1. tabs[t].token = jar /\ tabs[t].since + Delay <= tokens[jar].rotatedAt + Tokens!Lost
      BY <2>6, <2>1 DEF Tokens!Replaces, Tokens!At
    <3>2. losses' = losses + 1
      BY <3>1, <2>3, <2>6
    <3>3. now <= tabs[t].since + Delay
      BY <1>w, <2>6, <2>1 DEF Tokens!At
    <3>4. tokens[jar].rotatedAt \in Nat
      BY <1>k, <1>d, <2>6
    <3>5. Tokens!Lost' = Tokens!Lost + 3 * Delay
      BY <3>2, <1>t, LostIs
    <3>6. now + 2 * Delay <= tokens[jar].rotatedAt + Tokens!Lost'
      <4>1. tabs[t].since \in Nat /\ now \in Nat /\ Delay \in Nat /\ Tokens!Lost \in Nat
        BY <1>s, <1>d, <1>l
      <4> QED BY <3>1, <3>3, <3>4, <3>5, <4>1
    <3>7. tabs'[t] = p
      BY <2>1, <1>s
    <3> QED BY <3>6, <3>7, <2>1, <2>2 DEF Tokens!Replaces, Tokens!At
  <2>7. ~closed' => Tokens!Riding'
    <3>1. losses' = losses \/ losses' = losses + 1
      BY <2>3
    <3> QED BY <3>1, <2>1, <2>2, <2>6, <1>t, <1>r, TabMoves
  <2> QED BY <2>5, <2>7 DEF Tokens!TokensInv
<1>4. ASSUME NEW t \in Clients, Tokens!AnswerLost(t)
      PROVE  Tokens!TokensInv'
  <2> DEFINE p == [pc |-> "retry", token |-> 0, answer |-> 0, since |-> now]
  <2>1. /\ tabs' = [tabs EXCEPT ![t] = p] /\ now' = now /\ tokens' = tokens /\ jar' = jar
        /\ alarm' = alarm /\ closed' = closed /\ Tokens!At(t, "answered")
        /\ losses < MaxLosses /\ losses' = losses + 1
    BY <1>4 DEF Tokens!AnswerLost, Tokens!TabTo
  <2>2. p \in Tokens!TabType /\ p.pc = "retry" /\ p.token = 0 /\ p.answer = 0 /\ p.since = now
    BY <1>p, <1>d
  <2>4. losses' \in 0 .. MaxLosses
    BY <2>1, <1>d
  <2> HIDE DEF p
  <2>5. Tokens!TypeOK'
    BY <2>1, <2>2, <2>4, <1>t, <1>d, TabTyped DEF Tokens!TypeOK
  <2>6. ASSUME ~closed, jar # 0, Tokens!Rotated(jar), Tokens!Replaces(t) PROVE Tokens!Replaces(t)'
    <3>1. tabs[t].since <= tokens[jar].rotatedAt + Tokens!Lost
      BY <2>6, <2>1 DEF Tokens!Replaces, Tokens!At
    <3>3. now <= tabs[t].since + Delay
      BY <1>w, <2>6, <2>1 DEF Tokens!At
    <3>4. tokens[jar].rotatedAt \in Nat
      BY <1>k, <1>d, <2>6
    <3>5. Tokens!Lost' = Tokens!Lost + 3 * Delay
      BY <2>1, <1>t, LostIs
    <3>6. now + 2 * Delay <= tokens[jar].rotatedAt + Tokens!Lost'
      <4>1. tabs[t].since \in Nat /\ now \in Nat /\ Delay \in Nat /\ Tokens!Lost \in Nat
        BY <1>s, <1>d, <1>l
      <4> QED BY <3>1, <3>3, <3>4, <3>5, <4>1
    <3>7. tabs'[t] = p
      BY <2>1, <1>s
    <3> QED BY <3>6, <3>7, <2>1, <2>2 DEF Tokens!Replaces, Tokens!At
  <2>7. ~closed' => Tokens!Riding'
    BY <2>1, <2>2, <2>6, <1>t, <1>r, TabMoves
  <2> QED BY <2>5, <2>7 DEF Tokens!TokensInv
<1>5. ASSUME NEW t \in Clients, Tokens!DeleteUserRefreshTokens(t)
      PROVE  Tokens!TokensInv'
  <2> DEFINE p == [pc |-> "answered", token |-> 0, answer |-> 0, since |-> now]
  <2>1. /\ tabs' = [tabs EXCEPT ![t] = p] /\ now' = now /\ jar' = jar
        /\ alarm' = alarm /\ losses' = losses /\ closed' = closed /\ Tokens!At(t, "reuse")
        /\ tokens' = [k \in DOMAIN tokens |-> [tokens[k] EXCEPT !.deleted = TRUE]]
    BY <1>5 DEF Tokens!DeleteUserRefreshTokens, Tokens!TabTo
  <2>2. p \in Tokens!TabType /\ p.token = 0 /\ p.answer = 0 /\ p.pc = "answered"
    BY <1>p
  <2>3. tokens' \in Seq(Tokens!TokenType) /\ DOMAIN tokens' = DOMAIN tokens
    BY <2>1, <1>t, AllDeleted
  <2> HIDE DEF p
  <2>4. Tokens!TypeOK'
    BY <2>1, <2>2, <2>3, <1>t, <1>d, TabTyped DEF Tokens!TypeOK
  <2>5. closed'
    BY <2>1, <1>r, <1>d DEF Tokens!Riding
  <2> QED BY <2>4, <2>5 DEF Tokens!TokensInv
<1>6. ASSUME NEW t \in Clients, Tokens!Answered(t)
      PROVE  Tokens!TokensInv'
  <2>1. /\ tabs' = [tabs EXCEPT ![t] = Tokens!IdleTab] /\ now' = now /\ tokens' = tokens /\ jar' = tabs[t].answer
        /\ alarm' = alarm /\ losses' = losses /\ closed' = closed /\ Tokens!At(t, "answered")
    BY <1>6 DEF Tokens!Answered
  <2>2. Tokens!TypeOK'
    BY <2>1, <1>i, <1>t, <1>d, <1>s, TabTyped DEF Tokens!TypeOK
  <2>3. \A s \in Clients : tabs'[s] = IF s = t THEN Tokens!IdleTab ELSE tabs[s]
    BY <2>1, <1>s
  <2>4. ASSUME ~closed PROVE Tokens!Riding'
    <3>0. Tokens!Riding /\ Tokens!Unseen(t)
      BY <2>4, <1>r, <2>1 DEF Tokens!Riding
    <3>1. \A s \in Clients : Tokens!At(s, "sent")' => Tokens!Fresh(s)'
      BY <2>1, <2>3, <3>0, <1>i DEF Tokens!Riding, Tokens!At, Tokens!Fresh, Tokens!Rotated, Tokens!Lost
    <3>2. ASSUME NEW s \in Clients, Tokens!At(s, "answered")' PROVE Tokens!Unseen(s)'
      <4>1. s # t /\ tabs'[s] = tabs[s] /\ Tokens!At(s, "answered") /\ Tokens!Unseen(s)
        BY <2>3, <3>0, <3>2, <1>i DEF Tokens!Riding, Tokens!At
      <4>2. tabs[t].answer # tabs[s].answer
        BY <4>1, <3>0 DEF Tokens!Unseen
      <4>3. \A r \in Clients : /\ Tokens!At(r, "sent")' => tabs'[r].token # tabs[s].answer
                               /\ r # s /\ Tokens!At(r, "answered")' => tabs'[r].answer # tabs[s].answer
        BY <4>1, <2>3, <1>i DEF Tokens!Unseen, Tokens!At
      <4> QED BY <4>1, <4>2, <4>3, <2>1 DEF Tokens!Unseen, Tokens!Rotated
    <3>3. \A s \in Clients : ~Tokens!At(s, "reuse")' /\ Tokens!Timely(s)'
      BY <2>1, <2>3, <3>0, <1>i DEF Tokens!Riding, Tokens!At, Tokens!Timely
    <3>4. ~Tokens!Rotated(jar)' /\ ~alarm'
      BY <2>1, <3>0 DEF Tokens!Unseen, Tokens!Rotated, Tokens!Riding
    <3> QED BY <3>1, <3>2, <3>3, <3>4 DEF Tokens!Riding
  <2> QED BY <2>1, <2>2, <2>4 DEF Tokens!TokensInv
<1>7. ASSUME NEW t \in Clients, Tokens!Close(t)
      PROVE  Tokens!TokensInv'
  <2>1. /\ tabs' = [tabs EXCEPT ![t] = Tokens!IdleTab] /\ now' = now /\ tokens' = tokens /\ jar' = jar
        /\ alarm' = alarm /\ losses' = losses /\ closed'
    BY <1>7 DEF Tokens!Close
  <2>2. closed' \in BOOLEAN
    BY <1>7 DEF Tokens!Close
  <2>3. Tokens!TypeOK'
    BY <2>1, <2>2, <1>i, <1>t, <1>d, TabTyped DEF Tokens!TypeOK
  <2> QED BY <2>1, <2>3 DEF Tokens!TokensInv
<1>8. ASSUME Tokens!Tick
      PROVE  Tokens!TokensInv'
  <2>1. /\ tabs' = tabs /\ now' = now + 1 /\ tokens' = tokens /\ jar' = jar
        /\ alarm' = alarm /\ losses' = losses /\ closed' = closed /\ now < MaxTime
        /\ \A t \in Clients : Tokens!At(t, "idle") \/ now < tabs[t].since + Delay
    BY <1>8 DEF Tokens!Tick
  <2>2. now' \in 0 .. MaxTime
    BY <2>1, <1>d
  <2>3. Tokens!TypeOK'
    BY <2>1, <2>2, <1>t DEF Tokens!TypeOK
  <2>4. ASSUME ~closed PROVE Tokens!Riding'
    <3>1. \A s \in Clients : Tokens!Timely(s)'
      <4>1. \A s \in Clients : Tokens!At(s, "idle") \/ (tabs[s].since <= now + 1 /\ now + 1 <= tabs[s].since + Delay)
        BY <2>1, <2>4, <1>w, <1>d, <1>s
      <4> QED BY <4>1, <2>1 DEF Tokens!Timely, Tokens!At
    <3>2. \A s \in Clients : /\ ~Tokens!At(s, "reuse")'
                             /\ Tokens!At(s, "sent")' => Tokens!Fresh(s)'
                             /\ Tokens!At(s, "answered")' => Tokens!Unseen(s)'
      BY <2>1, <2>4, <1>r DEF Tokens!Riding, Tokens!At, Tokens!Fresh, Tokens!Unseen, Tokens!Rotated, Tokens!Lost
    <3>3. jar' # 0 /\ Tokens!Rotated(jar)' => ~tokens'[jar'].deleted /\ \E s \in Clients : Tokens!Replaces(s)'
      BY <2>1, <2>4, <1>r DEF Tokens!Riding, Tokens!At, Tokens!Replaces, Tokens!Rotated, Tokens!Lost
    <3>4. ~alarm'
      BY <2>1, <2>4, <1>r DEF Tokens!Riding
    <3> QED BY <3>1, <3>2, <3>3, <3>4 DEF Tokens!Riding
  <2> QED BY <2>1, <2>3, <2>4 DEF Tokens!TokensInv
<1>9. ASSUME Tokens!Logout
      PROVE  Tokens!TokensInv'
  <2>1. /\ tabs' = tabs /\ now' = now /\ jar' = 0
        /\ alarm' = alarm /\ losses' = losses /\ closed' = closed
        /\ tokens' = [k \in DOMAIN tokens |-> [tokens[k] EXCEPT !.deleted = TRUE]]
    BY <1>9 DEF Tokens!Logout
  <2>2. /\ tokens' \in Seq(Tokens!TokenType) /\ DOMAIN tokens' = DOMAIN tokens
        /\ \A k \in DOMAIN tokens : tokens'[k].rotatedAt = tokens[k].rotatedAt
    BY <2>1, <1>t, AllDeleted
  <2>3. Tokens!TypeOK'
    BY <2>1, <2>2, <1>t DEF Tokens!TypeOK
  <2>4. ASSUME ~closed PROVE Tokens!Riding'
    <3>1. \A s \in Clients : Tokens!At(s, "sent") => Tokens!Fresh(s)'
      <4> SUFFICES ASSUME NEW s \in Clients, Tokens!At(s, "sent") PROVE Tokens!Fresh(s)'
        OBVIOUS
      <4>1. Tokens!Fresh(s)
        BY <2>4, <1>r DEF Tokens!Riding
      <4>2. tabs[s].token \in DOMAIN tokens
        BY <1>t, TokenTypes
      <4> QED BY <4>1, <4>2, <2>1, <2>2 DEF Tokens!Fresh, Tokens!Rotated, Tokens!Lost
    <3>2. \A s \in Clients : Tokens!At(s, "answered") => Tokens!Unseen(s)'
      <4> SUFFICES ASSUME NEW s \in Clients, Tokens!At(s, "answered") PROVE Tokens!Unseen(s)'
        OBVIOUS
      <4>1. Tokens!Unseen(s)
        BY <2>4, <1>r DEF Tokens!Riding
      <4>2. tabs[s].answer \in DOMAIN tokens
        BY <4>1, <1>s DEF Tokens!Unseen
      <4> QED BY <4>1, <4>2, <2>1, <2>2 DEF Tokens!Unseen, Tokens!Rotated, Tokens!At
    <3>3. ~alarm' /\ \A s \in Clients : ~Tokens!At(s, "reuse")' /\ Tokens!Timely(s)'
      BY <2>1, <2>4, <1>r DEF Tokens!Riding, Tokens!At, Tokens!Timely
    <3> QED BY <3>1, <3>2, <3>3, <2>1 DEF Tokens!Riding, Tokens!At
  <2> QED BY <2>1, <2>3, <2>4 DEF Tokens!TokensInv
<1>10. ASSUME UNCHANGED Tokens!vars
      PROVE  Tokens!TokensInv'
  <2> USE <1>10 DEF Tokens!vars
  <2>1. Tokens!TypeOK'
    BY <1>t DEF Tokens!TypeOK
  <2>2. Tokens!Riding' = Tokens!Riding
    BY DEF Tokens!Riding, Tokens!At, Tokens!Timely, Tokens!Fresh, Tokens!Unseen, Tokens!Rotated, Tokens!Lost, Tokens!Replaces
  <2> QED BY <2>1, <2>2, <1>r DEF Tokens!TokensInv
\* RenewRefreshToken: the token is renewed, taken for stolen, or gone.
<1>11. ASSUME NEW t \in Clients, Tokens!RenewRefreshToken(t)
      PROVE  Tokens!TokensInv'
  <2> DEFINE k == tabs[t].token
             granted == [pc |-> "answered", token |-> 0, answer |-> Len(tokens) + 1, since |-> now]
             stolen == [pc |-> "reuse", token |-> 0, answer |-> 0, since |-> now]
  <2>0. now' = now /\ jar' = jar /\ losses' = losses /\ closed' = closed /\ Tokens!At(t, "sent")
    BY <1>11 DEF Tokens!RenewRefreshToken
  <2>a. \/ /\ ~tokens[k].deleted /\ tokens' = Tokens!Issued(k) /\ alarm' = alarm
           /\ tabs' = [tabs EXCEPT ![t] = [pc |-> "answered", token |-> 0,
                answer |-> IF Len(tokens') > Len(tokens) THEN Len(tokens') ELSE k, since |-> now]]
        \/ /\ Tokens!Rotated(k) /\ ~Tokens!InGrace(k) /\ alarm' = TRUE /\ tokens' = tokens
           /\ tabs' = [tabs EXCEPT ![t] = stolen]
        \/ tokens[k].deleted /\ tokens' = tokens /\ alarm' = alarm /\ tabs' = [tabs EXCEPT ![t] = Tokens!IdleTab]
    BY <1>11 DEF Tokens!RenewRefreshToken, Tokens!TabTo
  <2>1. CASE /\ ~tokens[k].deleted /\ tokens' = Tokens!Issued(k) /\ alarm' = alarm
             /\ tabs' = [tabs EXCEPT ![t] = [pc |-> "answered", token |-> 0,
                  answer |-> IF Len(tokens') > Len(tokens) THEN Len(tokens') ELSE k, since |-> now]]
    <3>n. PICK new \in Nat : new = Len(tokens) + 1
      BY <1>d
    <3>q. PICK q \in {0} \cup DOMAIN tokens : q = k
      BY <1>s
    <3>0. q \in DOMAIN tokens
      BY <2>0, <3>q, <1>t, TokenTypes
    <3>i. tokens' = Tokens!Issued(q)
      BY <2>1, <3>q
    <3>1. /\ tokens' \in Seq(Tokens!TokenType) /\ DOMAIN tokens' = DOMAIN tokens \cup {new} /\ Len(tokens') = new
          /\ tokens'[new].rotatedAt = Tokens!Never
          /\ \A j \in DOMAIN tokens : tokens'[j].deleted = tokens[j].deleted
          /\ \A j \in DOMAIN tokens : j # q \/ Tokens!Rotated(q) => tokens'[j] = tokens[j]
          /\ ~Tokens!Rotated(q) => tokens'[q].rotatedAt = now
      <4>1. /\ Tokens!Issued(q) \in Seq(Tokens!TokenType)
            /\ DOMAIN Tokens!Issued(q) = DOMAIN tokens \cup {Len(tokens) + 1}
            /\ Len(Tokens!Issued(q)) = Len(tokens) + 1
            /\ Tokens!Issued(q)[Len(tokens) + 1] = [deleted |-> FALSE, rotatedAt |-> Tokens!Never]
            /\ \A j \in DOMAIN tokens : Tokens!Issued(q)[j].deleted = tokens[j].deleted
            /\ \A j \in DOMAIN tokens : j # q \/ Tokens!Rotated(q) => Tokens!Issued(q)[j] = tokens[j]
            /\ ~Tokens!Rotated(q) => Tokens!Issued(q)[q].rotatedAt = now
        BY <3>0, <1>t, IssuedIs
      <4> QED BY <4>1, <3>i, <3>n
    <3>2. tabs' = [tabs EXCEPT ![t] = granted]
      <4>1. Len(tokens') > Len(tokens) /\ Len(tokens') = Len(tokens) + 1
        BY <3>1, <3>n, <1>d
      <4> QED BY <2>1, <4>1
    <3>3. /\ granted \in Tokens!TabType /\ granted.pc = "answered" /\ granted.token = 0
          /\ granted.answer = new /\ granted.since = now
      BY <1>p, <1>d, <3>n
    <3>4. new \notin DOMAIN tokens /\ new # 0 /\ now # Tokens!Never
      BY <1>d, <3>n DEF Tokens!Never
    <3> HIDE DEF granted
    <3>5. Tokens!TypeOK'
      <4>1. jar' \in {0} \cup DOMAIN tokens'
        BY <2>0, <3>1, <1>d
      <4> QED BY <4>1, <2>0, <2>1, <3>1, <3>2, <3>3, <1>t, <1>d, TabTyped DEF Tokens!TypeOK
    <3>6. \A s \in Clients : tabs'[s] = IF s = t THEN granted ELSE tabs[s]
      BY <3>2, <1>s
    <3>7. \A j \in DOMAIN tokens : ~Tokens!Rotated(j)' => ~Tokens!Rotated(j)
      BY <3>0, <3>1 DEF Tokens!Rotated
    <3>8. \A j \in DOMAIN tokens : j # q /\ ~Tokens!Rotated(j) => ~Tokens!Rotated(j)'
      BY <3>0, <3>1 DEF Tokens!Rotated
    <3>9. ASSUME ~closed PROVE Tokens!Riding'
      <4>r. Tokens!Riding /\ Tokens!Lost' = Tokens!Lost
        BY <3>9, <1>r, <2>0 DEF Tokens!Lost
      <4>1. ASSUME NEW s \in Clients, Tokens!At(s, "sent")' PROVE Tokens!Fresh(s)'
        <5>1. s # t /\ tabs'[s] = tabs[s] /\ Tokens!At(s, "sent") /\ Tokens!Fresh(s)
          BY <4>1, <4>r, <3>6, <3>3 DEF Tokens!Riding, Tokens!At
        <5>2. PICK j \in DOMAIN tokens : j = tabs[s].token
          BY <5>1, <1>t, TokenTypes
        <5>3. CASE j = q /\ ~Tokens!Rotated(q)
          <6>1. tabs[s].since <= now
            BY <1>w, <5>1, <3>9 DEF Tokens!At
          <6>2. tokens'[j].rotatedAt = now
            BY <5>3, <3>1
          <6>3. tabs[s].since <= now + Tokens!Lost + Delay
            BY <6>1, <1>d, <1>l, <1>s
          <6> QED BY <6>2, <6>3, <5>1, <5>2, <4>r DEF Tokens!Fresh
        <5>4. CASE ~(j = q /\ ~Tokens!Rotated(q))
          <6>1. tokens'[j] = tokens[j]
            BY <5>4, <3>1
          <6> QED BY <6>1, <5>1, <5>2, <4>r DEF Tokens!Fresh, Tokens!Rotated
        <5> QED BY <5>3, <5>4
      <4>2. ASSUME NEW s \in Clients, Tokens!At(s, "answered")' PROVE Tokens!Unseen(s)'
        <5>1. CASE s = t
          <6>1. tabs'[s].answer = new
            BY <5>1, <3>6, <3>3
          <6>2. ~Tokens!Rotated(new)' /\ new # jar'
            BY <3>1, <3>4, <2>0, <1>d DEF Tokens!Rotated
          <6>3. \A r \in Clients : Tokens!At(r, "sent")' => tabs'[r].token # new
            BY <3>3, <3>4, <3>6, <1>t, TokenTypes DEF Tokens!At
          <6>4. \A r \in Clients : r # t => tabs'[r].answer # new
            BY <3>4, <3>6, <1>s
          <6> QED BY <6>1, <6>2, <6>3, <6>4, <5>1, <3>4 DEF Tokens!Unseen
        <5>2. CASE s # t
          <6>1. tabs'[s] = tabs[s] /\ Tokens!At(s, "answered") /\ Tokens!Unseen(s)
            BY <4>2, <4>r, <5>2, <3>6 DEF Tokens!Riding, Tokens!At
          <6>2. PICK j \in DOMAIN tokens : j = tabs[s].answer
            BY <6>1, <1>s DEF Tokens!Unseen
          <6>3. j # q /\ j # jar /\ ~Tokens!Rotated(j)
            BY <6>1, <6>2, <2>0, <3>q DEF Tokens!Unseen
          <6>4. ~Tokens!Rotated(j)' /\ j # new /\ j # 0
            BY <6>3, <3>8, <3>4, <6>2, <1>d
          <6>5. \A r \in Clients : Tokens!At(r, "sent")' => tabs'[r].token # j
            BY <6>1, <6>2, <3>6, <3>3 DEF Tokens!Unseen, Tokens!At
          <6>6. \A r \in Clients : r # s /\ Tokens!At(r, "answered")' => tabs'[r].answer # j
            BY <6>1, <6>2, <6>4, <3>6, <3>3 DEF Tokens!Unseen, Tokens!At
          <6> QED BY <6>1, <6>2, <6>3, <6>4, <6>5, <6>6, <2>0 DEF Tokens!Unseen
        <5> QED BY <5>1, <5>2
      <4>3. \A s \in Clients : ~Tokens!At(s, "reuse")' /\ Tokens!Timely(s)'
        <5>1. now <= now /\ now <= now + Delay
          BY <1>d
        <5> QED BY <5>1, <4>r, <3>6, <3>3, <2>0 DEF Tokens!Riding, Tokens!At, Tokens!Timely
      <4>4. ASSUME jar # 0, Tokens!Rotated(jar)'
            PROVE  ~tokens'[jar].deleted /\ \E s \in Clients : Tokens!Replaces(s)'
        <5>0. jar \in DOMAIN tokens /\ tokens[jar].rotatedAt \in Nat /\ jar' = jar
          BY <4>4, <1>d, <1>k, <2>0
        <5>1. CASE Tokens!Rotated(jar)
          <6>1. ~tokens[jar].deleted /\ (\E s \in Clients : Tokens!Replaces(s)) /\ tokens'[jar] = tokens[jar]
            BY <5>0, <5>1, <4>4, <4>r, <3>1 DEF Tokens!Riding
          <6>2. PICK s \in Clients : Tokens!Replaces(s)
            BY <6>1
          <6>3. CASE s = t
            <7>1. q = jar /\ tabs[t].since + Delay <= tokens[jar].rotatedAt + Tokens!Lost
              BY <6>2, <6>3, <2>0, <3>q DEF Tokens!Replaces, Tokens!At
            <7>2. now <= tabs[t].since + Delay
              BY <1>w, <3>9, <2>0 DEF Tokens!At
            <7>3. now <= tokens[jar].rotatedAt + Tokens!Lost
              BY <7>1, <7>2, <5>0, <1>d, <1>s, <1>l
            <7>4. Tokens!Replaces(t)'
              BY <7>3, <6>1, <5>0, <4>r, <3>3, <3>6 DEF Tokens!Replaces, Tokens!At
            <7> QED BY <6>1, <7>4
          <6>4. CASE s # t
            <7>1. Tokens!Replaces(s)'
              BY <6>1, <6>2, <6>4, <5>0, <4>r, <3>6 DEF Tokens!Replaces, Tokens!At
            <7> QED BY <6>1, <7>1
          <6> QED BY <6>3, <6>4
        <5>2. CASE ~Tokens!Rotated(jar)
          <6>1. jar = q
            BY <5>0, <5>2, <4>4, <3>8, <2>0 DEF Tokens!Rotated
          <6>2. tokens'[jar].rotatedAt = now /\ ~tokens'[jar].deleted
            BY <6>1, <5>2, <3>1, <3>0, <3>q, <2>1
          <6>3. now <= now + Tokens!Lost
            BY <1>d, <1>l
          <6>4. Tokens!Replaces(t)'
            BY <6>2, <6>3, <5>0, <4>r, <3>3, <3>6 DEF Tokens!Replaces, Tokens!At
          <6> QED BY <6>2, <6>4
        <5> QED BY <5>1, <5>2
      <4>5. ~alarm'
        BY <4>r, <2>1 DEF Tokens!Riding
      <4> QED BY <4>1, <4>2, <4>3, <4>4, <4>5, <2>0 DEF Tokens!Riding
    <3> QED BY <3>5, <3>9, <2>0 DEF Tokens!TokensInv
  <2>2. CASE /\ Tokens!Rotated(k) /\ ~Tokens!InGrace(k) /\ alarm' = TRUE /\ tokens' = tokens
             /\ tabs' = [tabs EXCEPT ![t] = stolen]
    <3>1. stolen \in Tokens!TabType /\ stolen.token = 0 /\ stolen.answer = 0 /\ stolen.pc = "reuse"
      BY <1>p
    <3> HIDE DEF stolen
    <3>2. Tokens!TypeOK'
      BY <2>0, <2>2, <3>1, <1>t, <1>d, TabTyped DEF Tokens!TypeOK
    <3>3. ASSUME ~closed PROVE FALSE
      <4>1. Tokens!Fresh(t)
        BY <3>3, <2>0, <1>r DEF Tokens!Riding
      <4>2. k \in DOMAIN tokens /\ tabs[t].since <= tokens[k].rotatedAt + Tokens!Lost + Delay
        BY <4>1, <2>0, <2>2, <1>t, TokenTypes DEF Tokens!Fresh
      <4>3. now <= tabs[t].since + Delay
        BY <1>w, <3>3, <2>0 DEF Tokens!At
      <4>4. tokens[k].rotatedAt \in Nat
        BY <4>2, <1>k
      <4>5. now - tokens[k].rotatedAt < Grace
        <5>1. tabs[t].since \in Nat /\ now \in Nat /\ Delay \in Nat /\ Grace \in Nat
          BY <1>s, <1>d
        <5> QED BY <4>2, <4>3, <4>4, <5>1, <1>l
      <4> QED BY <4>5, <2>2 DEF Tokens!InGrace
    <3> QED BY <3>2, <3>3, <2>0, <1>d DEF Tokens!TokensInv
  <2>3. CASE tokens[k].deleted /\ tokens' = tokens /\ alarm' = alarm /\ tabs' = [tabs EXCEPT ![t] = Tokens!IdleTab]
    <3>1. Tokens!TypeOK'
      BY <2>0, <2>3, <1>i, <1>t, <1>d, TabTyped DEF Tokens!TypeOK
    <3>2. ASSUME ~closed, jar # 0, Tokens!Rotated(jar) PROVE ~Tokens!Replaces(t)
      <4>1. ~tokens[jar].deleted
        BY <3>2, <1>r DEF Tokens!Riding
      <4>2. k # jar
        BY <4>1, <2>3
      <4> QED BY <4>2, <2>0 DEF Tokens!Replaces, Tokens!At
    <3>3. ~closed' => Tokens!Riding'
      BY <2>0, <2>3, <3>2, <1>i, <1>t, <1>r, TabMoves
    <3> QED BY <3>1, <3>3 DEF Tokens!TokensInv
  <2> QED BY <2>a, <2>1, <2>2, <2>3
<1> QED BY <1>1, <1>2, <1>3, <1>4, <1>5, <1>6, <1>7, <1>8, <1>9, <1>10, <1>11 DEF Tokens!Next

-----------------------------------------------------------------------------
(***************************************************************************)
(* Owners of an install                                                    *)
(***************************************************************************)

\* The copy of Cardinality in Owners is Cardinality.
LEMMA OwnersCardinality == \A S : Owners!Cardinality(S) = Cardinality(S)
  BY DEF Owners!Cardinality, Cardinality

\* Of more than one owner, one is not the one who leaves.
LEMMA AnotherOne == ASSUME NEW S, NEW x, Owners!Cardinality(S) > 1 PROVE \E y \in S : y # x
<1> SUFFICES ASSUME \A y \in S : y = x PROVE FALSE
  OBVIOUS
<1>1. Cardinality({x}) = 1 /\ Cardinality({}) = 0
  BY FS_Singleton, FS_EmptySet
<1>2. S = {x} \/ S = {}
  OBVIOUS
<1> QED BY <1>1, <1>2, OwnersCardinality

\* No setup went through yet.
LEMMA OwnersInit == Owners!Init => Owners!OwnersInv
<1> SUFFICES ASSUME Owners!Init PROVE Owners!OwnersInv
  OBVIOUS
<1> USE AccountsAssumption DEF Owners!OwnersAssumption, Owners!Init, Owners!Idle
<1>1. Owners!TypeOK
  <2>1. v1 \in [Users -> Owners!Roles] /\ v4 \in [Users -> Owners!Seen] /\ v5 \in Owners!Seen
    BY DEF Owners!Roles, Owners!Seen
  <2>2. v2 \in [Calls -> Owners!ChangeType]
    BY DEF Owners!ChangeType
  <2>3. v7 \in 0 .. MaxBoots /\ v9 \in Nat
    OBVIOUS
  <2> QED BY <2>1, <2>2, <2>3 DEF Owners!TypeOK
<1>2. Owners!OwnedForGood /\ (v9 = 1 => v6)
  BY DEF Owners!OwnedForGood
<1> QED BY <1>1, <1>2 DEF Owners!OwnersInv

\* Every change of a role, setup, sign-in and boot leaves an owner where there was
\* one, and a setup that goes through leaves the install set up.
LEMMA OwnersStep ==
  ASSUME Owners!OwnersInv, [Owners!Next]_(Owners!vars)
  PROVE  Owners!OwnersInv'
<1> DEFINE roles == v1  changes == v2  setups == v3  logins == v4  boot == v5
           installed == v6  boots == v7  owned == v8  done == v9
<1> USE AccountsAssumption DEF Owners!OwnersAssumption, Owners!Idle, Owners!Roles
<1>t. Owners!TypeOK /\ Owners!OwnedForGood /\ (done = 1 => installed)
  BY DEF Owners!OwnersInv
<1>1. ASSUME NEW s \in Clients, Owners!CheckSetup(s)
      PROVE  Owners!OwnersInv'
  <2> USE <1>1, <1>t DEF Owners!CheckSetup
  <2>1. Owners!TypeOK'
    BY DEF Owners!TypeOK, Owners!Seen, Owners!ChangeType
  <2>2. owned' => Owners!HasOwner'
    BY DEF Owners!TypeOK, Owners!OwnedForGood, Owners!HasOwner, Owners!Is
  <2>3. done' <= 1 /\ (done' = 1 => installed')
    BY DEF Owners!TypeOK, Owners!OwnedForGood
  <2> QED BY <2>1, <2>2, <2>3 DEF Owners!OwnersInv, Owners!OwnedForGood
<1>2. ASSUME NEW s \in Clients, NEW u \in Users, Owners!Initialize(s, u)
      PROVE  Owners!OwnersInv'
  <2> USE <1>2, <1>t DEF Owners!Initialize, Owners!SetRoles, Owners!SetupNeeded
  <2>1. Owners!TypeOK'
    <3>1. roles' \in [Users -> Owners!Roles] /\ setups' \in [Clients -> {"new", "tx", "done"}]
          /\ owned' \in BOOLEAN /\ installed' \in BOOLEAN
      BY DEF Owners!TypeOK
    <3>2. done' \in Nat
      BY DEF Owners!TypeOK
    <3> QED BY <3>1, <3>2 DEF Owners!TypeOK
  <2>2. owned' => Owners!HasOwner'
    BY DEF Owners!TypeOK, Owners!OwnedForGood, Owners!HasOwner, Owners!Is
  <2>3. done' <= 1 /\ (done' = 1 => installed')
    BY DEF Owners!TypeOK, Owners!OwnedForGood
  <2> QED BY <2>1, <2>2, <2>3 DEF Owners!OwnersInv, Owners!OwnedForGood
<1>3. ASSUME NEW u \in Users, Owners!Login(u)
      PROVE  Owners!OwnersInv'
  <2> USE <1>3, <1>t DEF Owners!Login
  <2>1. Owners!TypeOK'
    <3>1. roles' \in [Users -> Owners!Roles]
      BY DEF Owners!TypeOK
    <3>2. [pc |-> "promote", owner |-> Owners!HasOwner] \in Owners!Seen /\ Owners!Idle \in Owners!Seen
      BY DEF Owners!Seen, Owners!HasOwner
    <3>3. logins' \in [Users -> Owners!Seen]
      BY <3>2 DEF Owners!TypeOK
    <3> QED BY <3>1, <3>3 DEF Owners!TypeOK
  <2>2. owned' => Owners!HasOwner'
    BY DEF Owners!TypeOK, Owners!OwnedForGood, Owners!HasOwner, Owners!Is
  <2>3. done' <= 1 /\ (done' = 1 => installed')
    BY DEF Owners!TypeOK, Owners!OwnedForGood
  <2> QED BY <2>1, <2>2, <2>3 DEF Owners!OwnersInv, Owners!OwnedForGood
<1>4. ASSUME NEW u \in Users, Owners!PromoteAdminEmail(u)
      PROVE  Owners!OwnersInv'
  <2> USE <1>4, <1>t DEF Owners!PromoteAdminEmail, Owners!SetRoles
  <2>1. Owners!TypeOK'
    BY DEF Owners!TypeOK, Owners!Seen, Owners!ChangeType
  <2>2. owned' => Owners!HasOwner'
    BY DEF Owners!TypeOK, Owners!OwnedForGood, Owners!HasOwner, Owners!Is
  <2>3. done' <= 1 /\ (done' = 1 => installed')
    BY DEF Owners!TypeOK, Owners!OwnedForGood
  <2> QED BY <2>1, <2>2, <2>3 DEF Owners!OwnersInv, Owners!OwnedForGood
<1>5. ASSUME Owners!StartServer
      PROVE  Owners!OwnersInv'
  <2> USE <1>5, <1>t DEF Owners!StartServer
  <2>1. Owners!TypeOK'
    <3>1. boot' \in Owners!Seen
      BY DEF Owners!Seen, Owners!HasOwner
    <3>2. boots' \in 0 .. MaxBoots
      BY DEF Owners!TypeOK
    <3> QED BY <3>1, <3>2 DEF Owners!TypeOK
  <2>2. owned' => Owners!HasOwner'
    BY DEF Owners!TypeOK, Owners!OwnedForGood, Owners!HasOwner, Owners!Is
  <2>3. done' <= 1 /\ (done' = 1 => installed')
    BY DEF Owners!TypeOK, Owners!OwnedForGood
  <2> QED BY <2>1, <2>2, <2>3 DEF Owners!OwnersInv, Owners!OwnedForGood
<1>6. ASSUME Owners!SyncAdminEmails
      PROVE  Owners!OwnersInv'
  <2> USE <1>6, <1>t DEF Owners!SyncAdminEmails, Owners!SetRoles
  <2>1. Owners!TypeOK'
    BY DEF Owners!TypeOK, Owners!Seen, Owners!ChangeType
  <2>2. owned' => Owners!HasOwner'
    BY DEF Owners!TypeOK, Owners!OwnedForGood, Owners!HasOwner, Owners!Is
  <2>3. done' <= 1 /\ (done' = 1 => installed')
    BY DEF Owners!TypeOK, Owners!OwnedForGood
  <2> QED BY <2>1, <2>2, <2>3 DEF Owners!OwnersInv, Owners!OwnedForGood
<1>7. ASSUME Owners!EnsureOwner
      PROVE  Owners!OwnersInv'
  <2> USE <1>7, <1>t DEF Owners!EnsureOwner, Owners!SetRoles
  <2>1. Owners!TypeOK'
    BY DEF Owners!TypeOK, Owners!Seen, Owners!ChangeType
  <2>2. owned' => Owners!HasOwner'
    BY DEF Owners!TypeOK, Owners!OwnedForGood, Owners!HasOwner, Owners!Is
  <2>3. done' <= 1 /\ (done' = 1 => installed')
    BY DEF Owners!TypeOK, Owners!OwnedForGood
  <2> QED BY <2>1, <2>2, <2>3 DEF Owners!OwnersInv, Owners!OwnedForGood
<1>8. ASSUME NEW c \in Calls, Owners!SetRoleAtomic(c)
      PROVE  Owners!OwnersInv'
  <2> USE <1>8, <1>t DEF Owners!SetRoleAtomic, Owners!SetRoles, Owners!Allowed
  <2> DEFINE ch == changes[c]
  <2>0. ch \in Owners!ChangeType
    BY DEF Owners!TypeOK
  <2>1. Owners!TypeOK'
    <3>1. [ch EXCEPT !.pc = "done"] \in Owners!ChangeType /\ ch.role \in Owners!Roles
      BY <2>0 DEF Owners!ChangeType
    <3>2. changes' \in [Calls -> Owners!ChangeType] /\ roles' \in [Users -> Owners!Roles] /\ owned' \in BOOLEAN
      BY <3>1 DEF Owners!TypeOK
    <3> QED BY <3>2 DEF Owners!TypeOK
  <2>2. owned' => Owners!HasOwner'
    <3>1. CASE ~Owners!Allowed(ch)
      BY <3>1 DEF Owners!OwnedForGood, Owners!HasOwner, Owners!Is
    <3>2. CASE Owners!Allowed(ch) /\ ch.role = "owner"
      <4>1. roles'[ch.target] = "owner" /\ ch.target \in Users
        BY <2>0, <3>2 DEF Owners!TypeOK, Owners!ChangeType
      <4> QED BY <4>1 DEF Owners!HasOwner, Owners!Is
    <3>3. CASE Owners!Allowed(ch) /\ ch.role # "owner"
      <4>1. PICK u \in Owners!Is("owner") : u # ch.target
        <5>1. CASE roles[ch.target] = "owner"
          BY <3>3, <5>1, AnotherOne DEF Owners!Allowed
        <5>2. CASE roles[ch.target] # "owner"
          \* The actor is an owner.
          BY <2>0, <3>3, <5>2 DEF Owners!Allowed, Owners!Is, Owners!ChangeType
        <5> QED BY <5>1, <5>2
      <4>2. u \in Users /\ roles'[u] = "owner"
        BY <4>1, <3>3 DEF Owners!Is, Owners!TypeOK
      <4> QED BY <4>2 DEF Owners!HasOwner, Owners!Is
    <3> QED BY <3>1, <3>2, <3>3
  <2>3. done' <= 1 /\ (done' = 1 => installed')
    BY DEF Owners!TypeOK, Owners!OwnedForGood
  <2> QED BY <2>1, <2>2, <2>3 DEF Owners!OwnersInv, Owners!OwnedForGood
<1>9. ASSUME NEW c \in Calls, NEW a \in Users, NEW t \in Users, Owners!RemoveTeamMember(c, a, t)
      PROVE  Owners!OwnersInv'
  <2> USE <1>9, <1>t DEF Owners!RemoveTeamMember, Owners!Asks
  <2>1. Owners!TypeOK'
    BY DEF Owners!TypeOK, Owners!Seen, Owners!ChangeType
  <2>2. owned' => Owners!HasOwner'
    BY DEF Owners!TypeOK, Owners!OwnedForGood, Owners!HasOwner, Owners!Is
  <2>3. done' <= 1 /\ (done' = 1 => installed')
    BY DEF Owners!TypeOK, Owners!OwnedForGood
  <2> QED BY <2>1, <2>2, <2>3 DEF Owners!OwnersInv, Owners!OwnedForGood
<1>10. ASSUME NEW c \in Calls, NEW a \in Users, NEW t \in Users, NEW role \in {"admin", "owner"}, Owners!InviteTeamMember(c, a, t, role)
      PROVE  Owners!OwnersInv'
  <2> USE <1>10, <1>t DEF Owners!InviteTeamMember, Owners!Asks
  <2>1. Owners!TypeOK'
    BY DEF Owners!TypeOK, Owners!Seen, Owners!ChangeType
  <2>2. owned' => Owners!HasOwner'
    BY DEF Owners!TypeOK, Owners!OwnedForGood, Owners!HasOwner, Owners!Is
  <2>3. done' <= 1 /\ (done' = 1 => installed')
    BY DEF Owners!TypeOK, Owners!OwnedForGood
  <2> QED BY <2>1, <2>2, <2>3 DEF Owners!OwnersInv, Owners!OwnedForGood
<1>11. ASSUME UNCHANGED Owners!vars
      PROVE  Owners!OwnersInv'
  <2> USE <1>11, <1>t DEF Owners!vars
  <2>1. Owners!TypeOK'
    BY DEF Owners!TypeOK, Owners!Seen, Owners!ChangeType
  <2>2. owned' => Owners!HasOwner'
    BY DEF Owners!TypeOK, Owners!OwnedForGood, Owners!HasOwner, Owners!Is
  <2>3. done' <= 1 /\ (done' = 1 => installed')
    BY DEF Owners!TypeOK, Owners!OwnedForGood
  <2> QED BY <2>1, <2>2, <2>3 DEF Owners!OwnersInv, Owners!OwnedForGood
<1> QED
  BY <1>1, <1>2, <1>3, <1>4, <1>5, <1>6, <1>7, <1>8, <1>9, <1>10, <1>11 DEF Owners!Next

-----------------------------------------------------------------------------
(***************************************************************************)
(* Free licences                                                           *)
(***************************************************************************)

\* The copies of the library operators in Signup are the operators.
LEMMA SignupCardinality == \A S : Signup!Cardinality(S) = Cardinality(S)
  BY DEF Signup!Cardinality, Cardinality

\* The same for finite sets.
LEMMA SignupFinite == \A S : Signup!IsFiniteSet(S) = IsFiniteSet(S)
  BY DEF Signup!IsFiniteSet, IsFiniteSet

\* A set with an upper bound of its own has a maximum.
LEMMA SignupMax == ASSUME NEW S, NEW m \in S, \A x \in S : m >= x
                   PROVE  Signup!Max(S) \in S /\ \A x \in S : Signup!Max(S) >= x
  BY DEF Signup!Max

Today == {l \in v4 : l.day = v1}

\* No licence was claimed yet.
LEMMA SignupInit == Signup!Init => Signup!SignupInv
<1> SUFFICES ASSUME Signup!Init PROVE Signup!SignupInv
  OBVIOUS
<1> USE AccountsAssumption DEF Signup!SignupAssumption, Signup!Init
<1>1. PICK c \in Caps : v2 = [open |-> TRUE, cap |-> c]
  OBVIOUS
<1>2. c \in Nat /\ v6 = {c}
  BY <1>1
<1>3. Signup!TypeOK
  <2>1. v1 \in 0 .. MaxDay /\ v7 \in 0 .. MaxPlanEdits
    OBVIOUS
  <2>2. v2 \in Signup!PlanType /\ v6 \subseteq Caps
    BY <1>1 DEF Signup!PlanType
  <2>3. v3 \in [Claims -> [pc : {"new", "find", "create", "login", "done"}, email : Clients, count : Nat]]
    OBVIOUS
  <2> QED BY <2>1, <2>2, <2>3 DEF Signup!TypeOK
<1>4. Signup!Claimed
  BY <1>1, <1>2, FS_EmptySet, SignupFinite DEF Signup!Claimed
<1>5. Signup!CountSelfSignupsToday = 0
  <2>1. {l \in v4 : l.day = v1} = {}
    OBVIOUS
  <2> QED BY <2>1, FS_EmptySet, SignupCardinality DEF Signup!CountSelfSignupsToday
<1>6. Signup!Max(v6) \in Nat
  BY <1>2, SignupMax
<1>7. Signup!ClaimsAreLimited
  BY <1>5, <1>6 DEF Signup!ClaimsAreLimited
<1> QED BY <1>3, <1>4, <1>7 DEF Signup!SignupInv

\* A claim counts the licences of the day before it adds one, under the lock of the
\* plan; the cap and the day change at any time.
LEMMA SignupStep ==
  ASSUME Signup!SignupInv, [Signup!Next]_(Signup!vars)
  PROVE  Signup!SignupInv'
<1> DEFINE day == v1  plan == v2  claims == v3  licences == v4  accounts == v5  caps == v6  edits == v7
<1> USE AccountsAssumption DEF Signup!SignupAssumption, Signup!ClaimTo
<1>t. Signup!TypeOK /\ Signup!ClaimsAreLimited /\ Signup!Claimed
  BY DEF Signup!SignupInv
<1>f. IsFiniteSet(licences)
  BY SignupFinite, <1>t DEF Signup!Claimed
<1>n. Cardinality(Today) \in Nat /\ IsFiniteSet(Today)
  <2>1. Today \in SUBSET licences
    BY DEF Today
  <2> QED BY <2>1, <1>f, FS_Subset, FS_CardinalityType
<1>i. plan.cap \in Nat /\ caps \subseteq Nat
  BY <1>t DEF Signup!TypeOK, Signup!PlanType
<1>m. PICK m \in caps : \A x \in caps : m >= x
  <2>1. \E m \in caps : \A x \in caps : x <= m
    BY <1>t DEF Signup!Claimed
  <2> QED BY <2>1, <1>i
<1>x. Signup!Max(caps) \in caps /\ \A x \in caps : Signup!Max(caps) >= x
  BY <1>m, SignupMax
<1>c. Signup!CountSelfSignupsToday = Cardinality(Today) /\ Signup!CountSelfSignupsToday' = Cardinality(Today')
  BY SignupCardinality DEF Signup!CountSelfSignupsToday, Today
<1>1. ASSUME NEW c \in Claims, NEW e \in Clients, Signup!OpenPlan(c, e)
      PROVE  Signup!SignupInv'
  <2> USE <1>1, <1>t DEF Signup!OpenPlan
  <2>1. Signup!TypeOK'
    BY <1>n, <1>c DEF Signup!TypeOK
  <2>2. Signup!Claimed'
    BY DEF Signup!TypeOK, Signup!Claimed, Signup!Holds
  <2>3. Today' = Today /\ caps' = caps
    BY DEF Today
  <2>4. Signup!ClaimsAreLimited'
    BY <1>c, <2>3 DEF Signup!TypeOK, Signup!ClaimsAreLimited, Signup!Holds
  <2> QED BY <2>1, <2>2, <2>4 DEF Signup!SignupInv
<1>2. ASSUME NEW c \in Claims, Signup!FindSelfSignupLicense(c)
      PROVE  Signup!SignupInv'
  <2> USE <1>2, <1>t DEF Signup!FindSelfSignupLicense
  <2>1. Signup!TypeOK'
    BY DEF Signup!TypeOK, Signup!PlanType, Signup!LicenceType
  <2>2. Signup!Claimed'
    BY DEF Signup!TypeOK, Signup!Claimed, Signup!Holds
  <2>3. Today' = Today /\ caps' = caps
    BY DEF Today
  <2>4. Signup!ClaimsAreLimited'
    BY <1>c, <2>3 DEF Signup!TypeOK, Signup!ClaimsAreLimited, Signup!Holds
  <2> QED BY <2>1, <2>2, <2>4 DEF Signup!SignupInv
<1>3. ASSUME NEW c \in Claims, Signup!CreateSelfSignupLicense(c)
      PROVE  Signup!SignupInv'
  <2> USE <1>3, <1>t DEF Signup!CreateSelfSignupLicense
  <2>1. Signup!TypeOK'
    BY DEF Signup!TypeOK, Signup!PlanType, Signup!LicenceType
  <2> DEFINE e == claims[c].email  new == [email |-> e, day |-> day, of |-> c]
  <2>p. \A d \in Claims : claims'[d].email = claims[d].email /\ (d # c => claims'[d] = claims[d])
    BY DEF Signup!TypeOK
  <2>h. \A d \in Claims : claims[d].pc = "login" => \E l \in licences : l.email = claims[d].email
    BY DEF Signup!Claimed, Signup!Holds
  <2>n. claims'[c].pc = "login" => \E l \in licences' : l.email = e
    <3>1. claims' = [claims EXCEPT ![c].pc = "done"] => claims'[c].pc # "login"
      BY DEF Signup!TypeOK
    <3>2. new.email = e
      OBVIOUS
    <3> HIDE DEF new, e
    <3>3. CASE licences' = licences \cup {new}
      BY <3>2, <3>3
    <3>4. CASE Signup!Holds(e) /\ licences' = licences
      BY <3>4 DEF Signup!Holds
    <3> QED BY <3>1, <3>3, <3>4 DEF e, new
  <2>l. \A d \in Claims : claims'[d].pc = "login" => Signup!Holds(claims[d].email)'
    <3> SUFFICES ASSUME NEW d \in Claims, claims'[d].pc = "login"
                 PROVE  \E l \in licences' : l.email = claims'[d].email
      BY <2>p DEF Signup!Holds
    <3>1. CASE d = c
      BY <2>n, <2>p, <3>1
    <3>2. CASE d # c
      BY <2>h, <2>p, <3>2
    <3> QED BY <3>1, <3>2
  <2>2. CASE licences' = licences
    <3>1. Signup!Claimed'
      <4>1. \A d \in Claims : claims'[d].pc = "login" => Signup!Holds(claims[d].email)'
        BY <2>l
      <4> QED BY <2>2, <4>1 DEF Signup!Claimed, Signup!Holds
    <3>2. Signup!ClaimsAreLimited'
      BY <2>2, <1>c DEF Signup!TypeOK, Signup!ClaimsAreLimited, Signup!Holds, Today
    <3> QED BY <2>1, <3>1, <3>2 DEF Signup!SignupInv
  <2>3. CASE licences' = licences \cup {new} /\ ~Signup!Holds(e) /\ Signup!Room(c)
    <3>1. IsFiniteSet(licences') /\ \A l \in licences' : l.day <= day
      <4>1. day <= day
        BY DEF Signup!TypeOK
      <4>2. IsFiniteSet(licences')
        BY <2>3, <1>f, FS_AddElement
      <4>3. \A l \in licences : l.day <= day
        BY DEF Signup!Claimed
      <4>4. new.day = day
        OBVIOUS
      <4> HIDE DEF new
      <4> QED BY <2>3, <4>1, <4>2, <4>3, <4>4
    <3>3. Signup!Claimed'
      <4>1. Signup!IsFiniteSet(licences')
        BY <3>1, SignupFinite
      <4>2. plan' = plan /\ caps' = caps /\ day' = day
        OBVIOUS
      <4> QED BY <3>1, <2>l, <4>1, <4>2 DEF Signup!Claimed, Signup!Holds
    <3>4. \A l, k \in licences' : l.email = k.email => l = k
      BY <2>3 DEF Signup!ClaimsAreLimited, Signup!Holds
    <3>5. \A a \in accounts' : Signup!Holds(a)'
      BY <2>3 DEF Signup!ClaimsAreLimited, Signup!Holds
    <3>6. Cardinality(Today') <= Cardinality(Today) + 1
      <4>1. Today' = Today \cup {new}
        <5>1. day' = day /\ new.day = day
          OBVIOUS
        <5> QED BY <2>3, <5>1 DEF Today
      <4> HIDE DEF new
      <4>2. CASE new \in Today
        <5>1. Today' = Today
          BY <4>1, <4>2
        <5> QED BY <5>1, <1>n
      <4>3. CASE new \notin Today
        <5>1. Cardinality(Today \cup {new}) = Cardinality(Today) + 1
          BY <4>3, <1>n, FS_AddElement
        <5> HIDE DEF Signup!CreateSelfSignupLicense
        <5> QED BY <4>1, <5>1, <1>n
      <4> QED BY <4>2, <4>3
    <3>7. 0 \notin caps' => Signup!CountSelfSignupsToday' <= Signup!Max(caps')
      <4> SUFFICES ASSUME 0 \notin caps PROVE Signup!CountSelfSignupsToday' <= Signup!Max(caps)
        OBVIOUS
      <4>1. plan.cap \in Nat /\ plan.cap > 0 /\ plan.cap <= Signup!Max(caps) /\ Signup!Max(caps) \in Nat
        BY <1>x DEF Signup!Claimed, Signup!TypeOK
      <4>2. Cardinality(Today) < plan.cap
        BY <4>1, <2>3, <1>c DEF Signup!Room
      <4>3. Cardinality(Today') \in Nat
        BY <3>1, FS_Subset, FS_CardinalityType DEF Today
      <4> QED BY <4>1, <4>2, <4>3, <3>6, <1>n, <1>c
    <3>8. Signup!ClaimsAreLimited'
      BY <3>4, <3>5, <3>7 DEF Signup!ClaimsAreLimited
    <3> QED BY <2>1, <3>3, <3>8 DEF Signup!SignupInv
  <2> QED BY <2>2, <2>3
<1>4. ASSUME NEW c \in Claims, Signup!LoginUser(c)
      PROVE  Signup!SignupInv'
  <2> USE <1>4, <1>t DEF Signup!LoginUser
  <2>1. Signup!TypeOK'
    BY DEF Signup!TypeOK, Signup!PlanType, Signup!LicenceType
  <2>2. Signup!Claimed'
    BY DEF Signup!TypeOK, Signup!Claimed, Signup!Holds
  <2>3. Today' = Today /\ caps' = caps
    BY DEF Today
  <2>4. Signup!ClaimsAreLimited'
    <3>1. \A e \in accounts' : Signup!Holds(e)'
      BY DEF Signup!ClaimsAreLimited, Signup!Holds, Signup!Claimed
    <3> QED BY <3>1, <1>c, <2>3 DEF Signup!ClaimsAreLimited
  <2> QED BY <2>1, <2>2, <2>4 DEF Signup!SignupInv
<1>5. ASSUME NEW open \in BOOLEAN, NEW cap \in Caps, Signup!EditPlan(open, cap)
      PROVE  Signup!SignupInv'
  <2> USE <1>5, <1>t DEF Signup!EditPlan
  <2>1. Signup!TypeOK'
    BY DEF Signup!TypeOK, Signup!PlanType, Signup!LicenceType
  <2>m. PICK top \in caps' : \A x \in caps' : top >= x
    <3>1. CASE m >= cap
      BY <1>m, <3>1
    <3>2. CASE ~(m >= cap)
      <4>1. m \in Nat /\ cap \in Nat /\ caps \subseteq Nat
        BY <1>m DEF Signup!TypeOK
      <4>2. \A x \in caps' : cap >= x
        BY <4>1, <3>2, <1>m
      <4> QED BY <4>2
    <3> QED BY <3>1, <3>2
  <2>x. Signup!Max(caps') \in caps' /\ \A x \in caps' : Signup!Max(caps') >= x
    BY <2>m, SignupMax
  <2>2. Signup!Claimed'
    <3>1. plan'.cap \in caps' /\ licences' = licences /\ claims' = claims /\ day' = day
      OBVIOUS
    <3>2. \E n \in caps' : \A x \in caps' : x <= n
      <4>1. caps' \subseteq Nat
        BY DEF Signup!TypeOK
      <4> QED BY <2>m, <4>1
    <3> QED BY <3>1, <3>2 DEF Signup!Claimed, Signup!Holds
  <2>3. Today' = Today
    BY DEF Today
  <2>4. 0 \notin caps' => Signup!CountSelfSignupsToday' <= Signup!Max(caps')
    <3>1. Signup!Max(caps') >= Signup!Max(caps) /\ Signup!Max(caps') \in Nat /\ Signup!Max(caps) \in Nat
      BY <1>x, <2>x DEF Signup!TypeOK
    <3>2. 0 \notin caps' => Cardinality(Today) <= Signup!Max(caps)
      BY <1>c DEF Signup!ClaimsAreLimited
    <3> QED BY <1>c, <1>n, <2>3, <3>1, <3>2
  <2>5. Signup!ClaimsAreLimited'
    BY <2>4 DEF Signup!ClaimsAreLimited, Signup!Holds
  <2> QED BY <2>1, <2>2, <2>5 DEF Signup!SignupInv
<1>6. ASSUME Signup!Midnight
      PROVE  Signup!SignupInv'
  <2> USE <1>6, <1>t DEF Signup!Midnight
  <2>1. Signup!TypeOK'
    BY DEF Signup!TypeOK, Signup!PlanType, Signup!LicenceType
  <2>c. plan.cap \in Nat /\ day \in Nat
    BY <1>i DEF Signup!TypeOK
  <2>2. Signup!Claimed'
    <3>1. plan' = plan /\ caps' = {plan.cap} /\ licences' = licences /\ claims' = claims
      OBVIOUS
    <3>2. \A l \in licences' : l.day <= day'
      BY <2>c DEF Signup!Claimed, Signup!TypeOK, Signup!LicenceType
    <3>3. \E n \in caps' : \A x \in caps' : x <= n
      BY <2>c
    <3> QED BY <3>1, <3>2, <3>3 DEF Signup!Claimed, Signup!Holds
  <2>3. Cardinality(Today') = 0
    <3>1. Today' = {}
      BY <2>c DEF Today, Signup!Claimed
    <3> QED BY <3>1, FS_EmptySet
  <2>4. Signup!Max(caps') \in Nat
    <3>1. plan.cap \in caps' /\ \A x \in caps' : plan.cap >= x
      BY <2>c
    <3>2. Signup!Max(caps') \in caps'
      BY <3>1, SignupMax
    <3> QED BY <3>2, <2>c
  <2>5. Signup!ClaimsAreLimited'
    BY <2>3, <2>4, <1>c DEF Signup!ClaimsAreLimited, Signup!Holds
  <2> QED BY <2>1, <2>2, <2>5 DEF Signup!SignupInv
<1>7. ASSUME UNCHANGED Signup!vars
      PROVE  Signup!SignupInv'
  <2> USE <1>7, <1>t DEF Signup!vars
  <2>1. Signup!TypeOK'
    BY DEF Signup!TypeOK, Signup!PlanType, Signup!LicenceType
  <2>2. Signup!Claimed'
    BY DEF Signup!TypeOK, Signup!Claimed, Signup!Holds
  <2>3. Today' = Today /\ caps' = caps
    BY DEF Today
  <2>4. Signup!ClaimsAreLimited'
    BY <1>c, <2>3 DEF Signup!TypeOK, Signup!ClaimsAreLimited, Signup!Holds
  <2> QED BY <2>1, <2>2, <2>4 DEF Signup!SignupInv
<1> QED
  BY <1>1, <1>2, <1>3, <1>4, <1>5, <1>6, <1>7 DEF Signup!Next

-----------------------------------------------------------------------------
(***************************************************************************)
(* The parts together                                                      *)
(***************************************************************************)

\* Idempotency keys: a claim in flight has one running request, and the slot
\* remembers what its handler answered (Idempotency).
THEOREM IdempotencyInvHolds == Spec => [](part = "idempotency" => Idempotency!IdempotencyInv)
<1>1. Init => (part = "idempotency" => Idempotency!IdempotencyInv)
  BY IdempotencyInit DEF Init
<1>2. (part = "idempotency" => Idempotency!IdempotencyInv) /\ [Next]_vars => (part = "idempotency" => Idempotency!IdempotencyInv)'
  <2> SUFFICES ASSUME part = "idempotency" => Idempotency!IdempotencyInv, [Next]_vars, part' = "idempotency"
               PROVE  Idempotency!IdempotencyInv'
    OBVIOUS
  <2>1. part = "idempotency" /\ [Idempotency!Next]_(Idempotency!vars)
    BY DEF Next, vars, Idempotency!vars
  <2> QED BY <2>1, IdempotencyStep
<1> QED BY <1>1, <1>2, PTL DEF Spec

\* Floating sessions: every lease is on a working licence and on a key its
\* holder still has (Floating).
THEOREM FloatingInvHolds == Spec => [](part = "floating" => Floating!FloatingInv)
<1>1. Init => (part = "floating" => Floating!FloatingInv)
  BY FloatingInit DEF Init
<1>2. (part = "floating" => Floating!FloatingInv) /\ [Next]_vars => (part = "floating" => Floating!FloatingInv)'
  <2> SUFFICES ASSUME part = "floating" => Floating!FloatingInv, [Next]_vars, part' = "floating"
               PROVE  Floating!FloatingInv'
    OBVIOUS
  <2>1. part = "floating" /\ [Floating!Next]_(Floating!vars)
    BY DEF Next, vars, Floating!vars
  <2> QED BY <2>1, FloatingStep DEF FloatingKeeps
<1> QED BY <1>1, <1>2, PTL DEF Spec

\* Metered usage: a counter is bounded by the highest quota read, and the call
\* that crossed the threshold has warned or still owes the warning (Usage).
THEOREM UsageInvHolds == Spec => [](part = "usage" => Usage!UsageInv)
<1>1. Init => (part = "usage" => Usage!UsageInv)
  BY UsageInit DEF Init
<1>2. (part = "usage" => Usage!UsageInv) /\ [Next]_vars => (part = "usage" => Usage!UsageInv)'
  <2> SUFFICES ASSUME part = "usage" => Usage!UsageInv, [Next]_vars, part' = "usage"
               PROVE  Usage!UsageInv'
    OBVIOUS
  <2>1. part = "usage" /\ [Usage!Next]_(Usage!vars)
    BY DEF Next, vars, Usage!vars
  <2> QED BY <2>1, UsageStep
<1> QED BY <1>1, <1>2, PTL DEF Spec

\* Sign-in codes: a guess has its attempt before it is compared, and a code is
\* marked used before it signs anyone in (Codes).
THEOREM CodesInvHolds == Spec => [](part = "codes" => Codes!CodesInv)
<1>1. Init => (part = "codes" => Codes!CodesInv)
  BY CodesInit DEF Init
<1>2. (part = "codes" => Codes!CodesInv) /\ [Next]_vars => (part = "codes" => Codes!CodesInv)'
  <2> SUFFICES ASSUME part = "codes" => Codes!CodesInv, [Next]_vars, part' = "codes"
               PROVE  Codes!CodesInv'
    OBVIOUS
  <2>1. part = "codes" /\ [Codes!Next]_(Codes!vars)
    BY DEF Next, vars, Codes!vars
  <2> QED BY <2>1, CodesStep
<1> QED BY <1>1, <1>2, PTL DEF Spec

\* Refresh tokens: while the browser holds a rotated token, a renewal under way
\* is about to replace it, well within the grace (Tokens).
THEOREM TokensInvHolds == Spec => [](part = "tokens" => Tokens!TokensInv)
<1>1. Init => (part = "tokens" => Tokens!TokensInv)
  BY TokensInit DEF Init
<1>2. (part = "tokens" => Tokens!TokensInv) /\ [Next]_vars => (part = "tokens" => Tokens!TokensInv)'
  <2> SUFFICES ASSUME part = "tokens" => Tokens!TokensInv, [Next]_vars, part' = "tokens"
               PROVE  Tokens!TokensInv'
    OBVIOUS
  <2>1. part = "tokens" /\ [Tokens!Next]_(Tokens!vars)
    BY DEF Next, vars, Tokens!vars
  <2> QED BY <2>1, TokensStep
<1> QED BY <1>1, <1>2, PTL DEF Spec

\* Owners: an install that has one keeps one, and setup goes through once
\* (Owners).
THEOREM OwnersInvHolds == Spec => [](part = "owners" => Owners!OwnersInv)
<1>1. Init => (part = "owners" => Owners!OwnersInv)
  BY OwnersInit DEF Init
<1>2. (part = "owners" => Owners!OwnersInv) /\ [Next]_vars => (part = "owners" => Owners!OwnersInv)'
  <2> SUFFICES ASSUME part = "owners" => Owners!OwnersInv, [Next]_vars, part' = "owners"
               PROVE  Owners!OwnersInv'
    OBVIOUS
  <2>1. part = "owners" /\ [Owners!Next]_(Owners!vars)
    BY DEF Next, vars, Owners!vars
  <2> QED BY <2>1, OwnersStep
<1> QED BY <1>1, <1>2, PTL DEF Spec

\* Free licences: one per address, and no more in a day than the highest cap of
\* that day (Signup).
THEOREM SignupInvHolds == Spec => [](part = "signup" => Signup!SignupInv)
<1>1. Init => (part = "signup" => Signup!SignupInv)
  BY SignupInit DEF Init
<1>2. (part = "signup" => Signup!SignupInv) /\ [Next]_vars => (part = "signup" => Signup!SignupInv)'
  <2> SUFFICES ASSUME part = "signup" => Signup!SignupInv, [Next]_vars, part' = "signup"
               PROVE  Signup!SignupInv'
    OBVIOUS
  <2>1. part = "signup" /\ [Signup!Next]_(Signup!vars)
    BY DEF Next, vars, Signup!vars
  <2> QED BY <2>1, SignupStep
<1> QED BY <1>1, <1>2, PTL DEF Spec

\* One request with an idempotency key runs the handler at a time, and a slot in
\* flight has its request, short of a crash (IdempotencyClaim).
THEOREM OneClaimantRunsHolds == Spec => []OneClaimantRuns
<1>1. (part = "idempotency" => Idempotency!IdempotencyInv) => OneClaimantRuns
  BY DEF OneClaimantRuns, Idempotency!IdempotencyInv
<1> QED BY <1>1, IdempotencyInvHolds, PTL

\* An answered handler does not run again while the slot lives, and a replay is
\* the answer it gave to that body (middleware/idempotency.go).
THEOREM RunsOncePerLifetimeHolds == Spec => RunsOncePerLifetime
<1>1. (part = "idempotency" => Idempotency!IdempotencyInv) /\ [Next]_vars
      => [part = "idempotency" => Idempotency!RunsOncePerLifetime]_vars
  <2> SUFFICES ASSUME part = "idempotency" => Idempotency!IdempotencyInv, [Next]_vars, part = "idempotency"
               PROVE  Idempotency!RunsOncePerLifetime
    OBVIOUS
  <2>1. [Idempotency!Next]_(Idempotency!vars)
    BY DEF Next, vars, Idempotency!vars
  <2> QED BY <2>1, IdempotencyStep
<1> QED BY <1>1, IdempotencyInvHolds, PTL DEF Spec, RunsOncePerLifetime

\* A stop, a rotation or a removal ends a floating session for good: a lease is on
\* a working licence and on a key its holder still has (store/floating.go).
THEOREM SessionsOnWorkingKeysHolds == Spec => []SessionsOnWorkingKeys
<1>1. (part = "floating" => Floating!FloatingInv) => SessionsOnWorkingKeys
  BY DEF SessionsOnWorkingKeys, Floating!FloatingInv
<1> QED BY <1>1, FloatingInvHolds, PTL

\* However long a checkout waits for the licence row after its BEGIN, checkouts
\* and heartbeats that race never bring the running sessions over the limit, but
\* where a checkout revives its own machine's lease; nor is a running session
\* handed to another holder (CheckOutFloatingWithLimit, CheckOutFloatingForKey).
THEOREM SessionsWithinCapHolds == Spec => SessionsWithinCap
<1>1. (part = "floating" => Floating!FloatingInv) /\ [Next]_vars
      => [part = "floating" => Floating!StaysWithinCap]_vars
  <2> SUFFICES ASSUME part = "floating" => Floating!FloatingInv, [Next]_vars, part = "floating"
               PROVE  Floating!StaysWithinCap
    OBVIOUS
  <2>1. [Floating!Next]_(Floating!vars)
    BY DEF Next, vars, Floating!vars
  <2> QED BY <2>1, FloatingStep DEF FloatingKeeps
<1> QED BY <1>1, FloatingInvHolds, PTL DEF Spec, SessionsWithinCap

\* Calls that count at once keep a period's counter within the quota and its
\* width, and warn of the threshold once (IncrementUsageCounterWithLimit, RecordUsage).
THEOREM QuotaHoldsHolds == Spec => []QuotaHolds
<1>1. (part = "usage" => Usage!UsageInv) => QuotaHolds
  <2> SUFFICES ASSUME Usage!UsageInv PROVE Usage!TypeOK /\ Usage!QuotaHolds /\ Usage!WarnsOnce
    BY DEF QuotaHolds
  <2>1. Usage!TypeOK /\ Usage!QuotaHolds /\ Usage!Crossed
    BY DEF Usage!UsageInv
  <2>2. Usage!WarnsOnce
    BY <2>1, UsageConstants DEF Usage!WarnsOnce, Usage!Crossed, Usage!CrossedAt, Usage!Reached, Usage!Owes, Usage!TypeOK
  <2> QED BY <2>1, <2>2
<1> QED BY <1>1, UsageInvHolds, PTL

\* A one-time code is compared with no more guesses than it allows, and signs in
\* one (ClaimOTPAttempt, ConsumeOTPCode).
THEOREM CodesAreSpentHolds == Spec => []CodesAreSpent
<1>1. (part = "codes" => Codes!CodesInv) => CodesAreSpent
  <2> SUFFICES ASSUME Codes!CodesInv PROVE Codes!TypeOK /\ Codes!CodesAreSpent
    BY DEF CodesAreSpent
  <2>1. Codes!TypeOK /\ Codes!Spent
    BY DEF Codes!CodesInv
  <2>2. ASSUME NEW k \in DOMAIN v1 PROVE v1[k].compared <= MaxOTPAttempts /\ v1[k].sessions <= 1
    <3>1. IsFiniteSet(Guesses) /\ MaxOTPAttempts \in Nat
      BY AccountsAssumption, CodesFinite DEF Codes!CodesAssumption
    <3>2. Codes!Comparing(k) \in SUBSET Guesses
      BY DEF Codes!Comparing
    <3>3. Codes!Cardinality(Codes!Comparing(k)) \in Nat
      BY <3>1, <3>2, FS_Subset, FS_CardinalityType, CodesCardinality
    <3>4. v1[k] \in Codes!CodeType
      BY <2>1 DEF Codes!TypeOK
    <3>5. v1[k].compared \in Nat /\ v1[k].attempts \in 0 .. MaxOTPAttempts
      BY <3>4 DEF Codes!CodeType
    <3>6. v1[k].compared + Codes!Cardinality(Codes!Comparing(k)) <= v1[k].attempts /\ v1[k].sessions <= 1
      BY <2>1 DEF Codes!Spent, Codes!SpentAt
    <3> QED BY <3>1, <3>3, <3>5, <3>6
  <2> QED BY <2>1, <2>2 DEF Codes!CodesAreSpent
<1> QED BY <1>1, CodesInvHolds, PTL

\* Tabs that renew together, lost answers and retries never look like theft, nor
\* leave the browser with a cookie that no longer renews (RefreshReuseGrace).
THEOREM RidesOutLossesHolds == Spec => []RidesOutLosses
<1>1. (part = "tokens" => Tokens!TokensInv) => RidesOutLosses
  <2> SUFFICES ASSUME Tokens!TokensInv PROVE Tokens!TypeOK /\ Tokens!RidesOutLosses
    BY DEF RidesOutLosses
  <2>1. Tokens!TypeOK
    BY DEF Tokens!TokensInv
  <2>2. ASSUME Tokens!Riding, \A t \in Clients : Tokens!At(t, "idle") PROVE \A t \in Clients : ~Tokens!Replaces(t)
    BY <2>2 DEF Tokens!Replaces, Tokens!At
  <2> QED BY <2>1, <2>2 DEF Tokens!TokensInv, Tokens!RidesOutLosses, Tokens!Riding
<1> QED BY <1>1, TokensInvHolds, PTL

\* An install keeps an owner and is set up once (SetRoleAtomic, ErrLastOwner).
THEOREM OwnedForGoodHolds == Spec => []OwnedForGood
<1>1. (part = "owners" => Owners!OwnersInv) => OwnedForGood
  BY DEF OwnedForGood, Owners!OwnersInv
<1> QED BY <1>1, OwnersInvHolds, PTL

\* Free licences stay within one per address and the cap of the day
\* (CreateSelfSignupLicense).
THEOREM ClaimsAreLimitedHolds == Spec => []ClaimsAreLimited
<1>1. (part = "signup" => Signup!SignupInv) => ClaimsAreLimited
  BY DEF ClaimsAreLimited, Signup!SignupInv
<1> QED BY <1>1, SignupInvHolds, PTL
=============================================================================
