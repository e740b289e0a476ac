----------------------------- MODULE MailProofs -----------------------------
(***************************************************************************)
(* Proofs about Mail, for any number of reminder passes and processors,    *)
(* any batch and number of attempts, and any leases, as long as a send     *)
(* ends before its lease does.                                             *)
(***************************************************************************)
EXTENDS Mail, TLAPS

Busy(p) == procs[p].pc \in {"sending", "marking"}

\* A processor has a mail that was queued, and resolved settings that send.
Sends ==
  \A p \in Processors :
    /\ procs[p].pc # "idle" => procs[p].setup # "none"
    /\ Busy(p) => mails[procs[p].mail].status # "none"
    /\ procs[p].heldUp => procs[p].pc = "marking"

\* While a processor holds a mail, nobody else has marked it; and it holds it
\* for as long as it sends it.
Holds ==
  \A p \in Processors :
    /\ Busy(p) /\ HeldBy(p) => mails[procs[p].mail].status = "pending"
    /\ procs[p].pc = "sending" => /\ HeldBy(p)
                                  /\ procs[p].age <= SendTime
                                  /\ mails[procs[p].mail].due = Lease - procs[p].age

\* A mail still queued has an attempt left.
Tries == \A n \in Mails : mails[n].status = "pending" => mails[n].attempts < MaxAttempts

\* A claim's number is given once, and its mail is not queued before the pass
\* that won it queues it.
Claims ==
  /\ claim.token <= serial
  /\ \A n \in Tokens : n > serial => mails[n].status = "none"
  /\ \A q \in Passes : passes[q].pc = "claimed" =>
       /\ passes[q].token \in Tokens /\ passes[q].token <= serial
       /\ mails[passes[q].token].status = "none"
  /\ \A q, r \in Passes :
       passes[q].pc = "claimed" /\ passes[r].pc = "claimed" /\ q # r => passes[q].token # passes[r].token

\* The reminder's claim is closed, and is its live mail's.
LiveIsClaimed == \A n \in Tokens : Live(n) => claim.token = n /\ claim.sent

\* A send that is about to be marked as one was one.
Took ==
  \A p \in Processors :
    procs[p].pc = "marking" /\ procs[p].result = "sent" => mails[procs[p].mail].out > 0

\* A mail that is still queued and went out is being marked.
Settling(n) ==
  \E p \in Processors : /\ procs[p].pc = "marking" /\ procs[p].mail = n /\ procs[p].result = "sent"
                        /\ mails[n].holder = p
Once ==
  ~doubtful => \A n \in Mails : /\ mails[n].out <= 1
                                /\ mails[n].out = 1 /\ mails[n].status = "pending" => Settling(n)

MailInv == TypeOK /\ Sends /\ Holds /\ Tries /\ Claims /\ LiveIsClaimed /\ Took /\ Once
           /\ SentMeansAccepted

-----------------------------------------------------------------------------
(***************************************************************************)
(* Types                                                                   *)
(***************************************************************************)

\* The constants are natural numbers, and token 0 and the claims number mails.
LEMMA Bounds ==
  /\ Lease \in Nat /\ ClaimLease \in Nat /\ SendTime \in Nat /\ MaxClaims \in Nat /\ MaxFaults \in Nat
  /\ MaxAttempts \in Nat /\ MaxAttempts > 0 /\ Batch \in Nat
  /\ SendTime < Lease /\ Nobody \notin Processors
  /\ 0 \in Mails /\ \A n \in Tokens : n \in Mails /\ n # 0
<1>1. /\ Lease \in Nat /\ ClaimLease \in Nat /\ SendTime \in Nat /\ MaxClaims \in Nat /\ MaxFaults \in Nat
  BY MailAssumption, Zenon
<1>2. MaxAttempts \in Nat /\ MaxAttempts > 0 /\ Batch \in Nat
  BY MailAssumption
<1>3. 0 \in Mails /\ \A n \in Tokens : n \in Mails /\ n # 0
  BY <1>1 DEF Mails, Tokens
<1> QED
  BY <1>1, <1>2, <1>3, MailAssumption

\* The constant records have their types.
LEMMA ConstantRecords ==
  /\ NoClaim \in ClaimType /\ IdlePass \in PassType
  /\ NoMail \in MailType /\ Queued \in MailType /\ IdleProc \in ProcType
<1>1. 0 \in 0 .. ClaimLease + 1 /\ 0 \in 0 .. MaxAttempts /\ 0 \in 0 .. Batch /\ 0 \in 0 .. Lease + 1
  BY Bounds
<1>2. NoClaim \in ClaimType /\ IdlePass \in PassType
  BY <1>1, Bounds DEF NoClaim, ClaimType, IdlePass, PassType
<1>3. NoMail \in MailType
  BY <1>1, Bounds DEF NoMail, MailType
<1>4. Queued \in MailType
  BY <1>1, <1>3 DEF NoMail, Queued, MailType
<1>5. IdleProc \in ProcType
  BY <1>1, Bounds DEF IdleProc, ProcType, Setups, Results
<1> QED
  BY <1>2, <1>3, <1>4, <1>5

\* Marking a mail leaves a mail: its attempts stay within the maximum.
LEMMA MarkedType ==
  ASSUME NEW m \in MailType, NEW result \in Results, m.attempts < MaxAttempts
  PROVE  Marked(m, result) \in MailType
<1>1. m.attempts + 1 \in 0 .. MaxAttempts
  BY Bounds DEF MailType
<1>2. MarkedSent(m) \in MailType /\ GivenUp(m) \in MailType
  BY <1>1, Bounds DEF MailType, MarkedSent, GivenUp
<1>3. MarkedDeferred(m) \in MailType
  <2>1. m \in [status : {"none", "pending", "sent", "failed"}, attempts : 0 .. MaxAttempts,
             due : Int, holder : Processors \cup {Nobody}, body : BOOLEAN, out : 0 .. 2,
             bounced : BOOLEAN]
    BY DEF MailType
  <2>2. Lease \in Int
    BY Bounds
  <2> QED
    BY <2>1, <2>2 DEF MailType, MarkedDeferred
<1>4. 2 ^ m.attempts \in Int
  BY DEF MailType
<1>5. MarkedFailed(m) \in MailType
  BY <1>1, <1>2, <1>4, Bounds DEF MailType, MarkedFailed
<1> QED
  BY <1>2, <1>3, <1>5 DEF Marked, Results

\* A mail and a processor keep their types when fields are given values of theirs.
LEMMA MailUpdates ==
  ASSUME NEW m \in MailType
  PROVE  /\ \A h \in Processors \cup {Nobody} : [m EXCEPT !.due = Lease, !.holder = h] \in MailType
         /\ [m EXCEPT !.due = IF @ = 0 THEN 0 ELSE @ - 1] \in MailType
         /\ [m EXCEPT !.out = IF @ = 2 THEN 2 ELSE @ + 1] \in MailType
         /\ [m EXCEPT !.bounced = TRUE] \in MailType
<1> DEFINE Fields == [status : {"none", "pending", "sent", "failed"}, attempts : 0 .. MaxAttempts,
                      due : Int, holder : Processors \cup {Nobody}, body : BOOLEAN, out : 0 .. 2,
                      bounced : BOOLEAN]
<1>1. m \in Fields /\ MailType = Fields
  BY DEF MailType
<1> HIDE DEF Fields
<1>2. Lease \in Int
  BY Bounds
<1>3. ASSUME NEW h \in Processors \cup {Nobody} PROVE [m EXCEPT !.due = Lease, !.holder = h] \in Fields
  BY <1>1, <1>2 DEF Fields
<1>4. [m EXCEPT !.due = IF @ = 0 THEN 0 ELSE @ - 1] \in Fields
  <2>1. m.due \in Int
    BY <1>1 DEF Fields
  <2>2. (IF m.due = 0 THEN 0 ELSE m.due - 1) \in Int
    BY <2>1
  <2> QED
    BY <1>1, <2>2 DEF Fields
<1>5. [m EXCEPT !.out = IF @ = 2 THEN 2 ELSE @ + 1] \in Fields
  BY <1>1 DEF Fields
<1>6. [m EXCEPT !.bounced = TRUE] \in Fields
  BY <1>1 DEF Fields
<1> QED
  BY <1>1, <1>3, <1>4, <1>5, <1>6

\* The process records the actions write are of the process's type.
LEMMA ProcUpdates ==
  ASSUME NEW k \in ProcType
  PROVE  /\ \A x \in Setups : [IdleProc EXCEPT !.pc = "ready", !.setup = x, !.left = Batch] \in ProcType
         /\ \A n \in Mails : k.left > 0 =>
              [k EXCEPT !.pc = "sending", !.mail = n, !.left = @ - 1, !.age = 0] \in ProcType
         /\ \A r \in Results : [k EXCEPT !.pc = "marking", !.result = r, !.age = 0] \in ProcType
         /\ [IdleProc EXCEPT !.pc = "ready", !.setup = k.setup, !.left = k.left] \in ProcType
         /\ [k EXCEPT !.heldUp = TRUE] \in ProcType
<1>1. 0 \in 0 .. Lease + 1 /\ Batch \in 0 .. Batch /\ 0 \in Mails /\ Batch \in Nat
  BY Bounds
<1>2. ASSUME NEW x \in Setups
      PROVE  [IdleProc EXCEPT !.pc = "ready", !.setup = x, !.left = Batch] \in ProcType
  BY <1>1 DEF ProcType, IdleProc, Results
<1>3. ASSUME NEW n \in Mails, k.left > 0
      PROVE  [k EXCEPT !.pc = "sending", !.mail = n, !.left = @ - 1, !.age = 0] \in ProcType
  <2>1. k.left - 1 \in 0 .. Batch
    BY <1>1, <1>3 DEF ProcType
  <2> QED
    BY <1>1, <2>1 DEF ProcType
<1>4. ASSUME NEW r \in Results PROVE [k EXCEPT !.pc = "marking", !.result = r, !.age = 0] \in ProcType
  BY <1>1 DEF ProcType
<1>5. [IdleProc EXCEPT !.pc = "ready", !.setup = k.setup, !.left = k.left] \in ProcType
  BY <1>1 DEF ProcType, IdleProc, Results
<1>6. [k EXCEPT !.heldUp = TRUE] \in ProcType
  BY DEF ProcType
<1> QED
  BY <1>2, <1>3, <1>4, <1>5, <1>6

\* Every step keeps the types.
LEMMA TypeNext == TypeOK /\ Tries /\ Holds /\ [Next]_vars => TypeOK'
<1> SUFFICES ASSUME TypeOK, Tries, Holds, [Next]_vars PROVE TypeOK'
  OBVIOUS
<1>0. Fault => faults' \in 0 .. MaxFaults
  BY Bounds DEF TypeOK, Fault
<1> USE Bounds, ConstantRecords DEF TypeOK
<1>1. ASSUME NEW q \in Passes, ClaimNotification(q) PROVE TypeOK'
  <2>1. serial + 1 \in Mails
    BY <1>1 DEF ClaimNotification, Mails
  <2>2. claim' \in ClaimType
    BY <1>1, <2>1 DEF ClaimNotification, ClaimType
  <2>3. [IdlePass EXCEPT !.pc = "claimed", !.token = serial + 1] \in PassType
    BY <2>1 DEF PassType, IdlePass
  <2> QED
    BY <1>1, <2>1, <2>2, <2>3 DEF ClaimNotification
<1>3. ASSUME NEW q \in Passes, Enqueue(q) \/ EnqueueFails(q) PROVE TypeOK'
  <2>1. [claim EXCEPT !.sent = TRUE] \in ClaimType
    BY DEF ClaimType
  <2>2. [passes[q] EXCEPT !.pc = "failed"] \in PassType
    BY DEF PassType
  <2>3. [mails EXCEPT ![passes[q].token] = Queued] \in [Mails -> MailType]
    BY DEF PassType
  <2>4. mails' \in [Mails -> MailType] /\ claim' \in ClaimType
    BY <1>3, <2>1, <2>3 DEF Enqueue, EnqueueFails
  <2>5. passes' \in [Passes -> PassType]
    BY <1>3, <2>2 DEF Enqueue, EnqueueFails, PassEnds
  <2> QED
    BY <1>0, <1>3, <2>4, <2>5 DEF Enqueue, EnqueueFails
<1>4. ASSUME NEW q \in Passes, ReleaseNotification(q) PROVE TypeOK'
  BY <1>4 DEF ReleaseNotification, PassEnds
<1>2. ASSUME NEW q \in Passes, LosePass(q) PROVE TypeOK'
  BY <1>0, <1>2 DEF LosePass, PassEnds
<1>5. ASSUME NEW q \in Passes, HoldUpPass(q) PROVE TypeOK'
  <2>1. [passes[q] EXCEPT !.heldUp = TRUE] \in PassType
    BY DEF PassType
  <2> QED
    BY <1>5, <2>1 DEF HoldUpPass, Fault
<1>6. ASSUME NEW p \in Processors, StartQueue(p) \/ EndQueue(p) PROVE TypeOK'
  <2>1. [IdleProc EXCEPT !.pc = "ready", !.setup = setup, !.left = Batch] \in ProcType
    BY ProcUpdates
  <2> QED
    BY <1>6, <2>1 DEF StartQueue, EndQueue
<1>7. ASSUME NEW p \in Processors, NEW n \in Mails, ClaimNextEmail(p, n) PROVE TypeOK'
  <2>1. [mails[n] EXCEPT !.due = Lease, !.holder = p] \in MailType
    BY MailUpdates
  <2>2. [procs[p] EXCEPT !.pc = "sending", !.mail = n, !.left = @ - 1, !.age = 0] \in ProcType
    BY <1>7, ProcUpdates DEF ClaimNextEmail
  <2>3. /\ mails' = [mails EXCEPT ![n] = [mails[n] EXCEPT !.due = Lease, !.holder = p]]
        /\ procs' = [procs EXCEPT ![p] = [procs[p] EXCEPT !.pc = "sending", !.mail = n, !.left = @ - 1, !.age = 0]]
    BY <1>7 DEF ClaimNextEmail
  <2>4. mails' \in [Mails -> MailType] /\ procs' \in [Processors -> ProcType]
    BY <2>1, <2>2, <2>3
  <2> QED
    BY <1>7, <2>4 DEF ClaimNextEmail
<1>8. ASSUME NEW p \in Processors, Deliver(p) \/ Bounce(p) \/ Hiccup(p) \/ Reject(p) PROVE TypeOK'
  <2> DEFINE n == procs[p].mail
  <2>1. n \in Mails
    BY DEF ProcType
  <2>2. Accepted(n) \in [Mails -> MailType]
    BY <2>1, MailUpdates DEF Accepted
  <2>3. [mails EXCEPT ![n].bounced = TRUE] \in [Mails -> MailType]
    BY <2>1, MailUpdates
  <2>4. ASSUME NEW r \in Results, SendsAs(p, r) PROVE procs' \in [Processors -> ProcType]
    <3>1. [procs[p] EXCEPT !.pc = "marking", !.result = r, !.age = 0] \in ProcType
      BY ProcUpdates
    <3>2. procs' = [procs EXCEPT ![p] = [procs[p] EXCEPT !.pc = "marking", !.result = r, !.age = 0]]
      BY <2>4 DEF SendsAs
    <3> QED
      BY <3>1, <3>2
  <2>5. /\ procs' \in [Processors -> ProcType]
        /\ mails' \in [Mails -> MailType]
    BY <1>8, <2>2, <2>3, <2>4 DEF Deliver, Bounce, Hiccup, Reject, Results
  <2>6. /\ setup' = setup /\ open' = open /\ claim' = claim /\ passes' = passes /\ serial' = serial
        /\ faults' = faults \/ Fault
        /\ doubtful' = doubtful \/ doubtful' = TRUE
    BY <1>8 DEF Deliver, Bounce, Hiccup, Reject
  <2> QED
    BY <1>0, <2>5, <2>6
<1>9. ASSUME NEW p \in Processors, Mark(p) PROVE TypeOK'
  <2> DEFINE n == procs[p].mail
  <2>1. n \in Mails /\ procs[p].result \in Results
    BY DEF ProcType
  <2>2. [IdleProc EXCEPT !.pc = "ready", !.setup = procs[p].setup, !.left = procs[p].left] \in ProcType
    BY ProcUpdates
  <2>3. Reopened(p) \in ClaimType
    <3>1. [claim EXCEPT !.sent = FALSE, !.age = ClaimLease + 1] \in ClaimType
      <4>1. ClaimLease + 1 \in 0 .. ClaimLease + 1
        OBVIOUS
      <4> QED
        BY <4>1 DEF ClaimType
    <3> QED
      BY <3>1 DEF Reopened
  <2>4. mails[n].status = "pending" =>
          [mails EXCEPT ![n] = Marked(@, procs[p].result)] \in [Mails -> MailType]
    BY <2>1, MarkedType DEF Tries
  <2>5. HeldBy(p) => mails[n].status = "pending"
    BY <1>9 DEF Holds, Busy, Mark
  <2>6. procs' \in [Processors -> ProcType]
    BY <1>9, <2>2 DEF Mark
  <2>7. mails' \in [Mails -> MailType] /\ claim' \in ClaimType
    BY <1>9, <2>3, <2>4, <2>5 DEF Mark
  <2>8. UNCHANGED <<setup, open, passes, serial, faults, doubtful>>
    BY <1>9 DEF Mark
  <2> QED
    BY <2>6, <2>7, <2>8
<1>10. ASSUME NEW p \in Processors, LoseProc(p) PROVE TypeOK'
  BY <1>0, <1>10 DEF LoseProc
<1>14. ASSUME NEW p \in Processors, HoldUpProc(p) PROVE TypeOK'
  <2>1. [procs[p] EXCEPT !.heldUp = TRUE] \in ProcType
    BY ProcUpdates
  <2> QED
    BY <1>0, <1>14, <2>1 DEF HoldUpProc
<1>11. CASE ChangeSetup
  BY <1>11 DEF ChangeSetup, Fault
<1>15. CASE WindowCloses
  BY <1>15 DEF WindowCloses
<1>12. CASE Tick
  <2>1. claim' \in ClaimType
    BY <1>12 DEF Tick, ClaimType
  <2>2. ASSUME NEW q \in Passes PROVE passes'[q] \in PassType
    <3>1. CASE passes[q].pc = "idle"
      BY <1>12, <3>1 DEF Tick
    <3>2. CASE passes[q].pc # "idle"
      <4>1. passes[q].age < ClaimLease + 1 /\ passes[q] \in PassType
        BY <1>12, <3>2 DEF Tick, PassLimit, PassType
      <4> QED
        BY <1>12, <3>2, <4>1 DEF Tick, PassType
    <3> QED
      BY <3>1, <3>2
  <2>3. ASSUME NEW p \in Processors PROVE procs'[p] \in ProcType
    <3>1. CASE procs[p].pc = "idle"
      BY <1>12, <3>1 DEF Tick
    <3>2. CASE procs[p].pc # "idle"
      <4>1. procs[p] \in ProcType /\ procs[p].age \in 0 .. Lease + 1
        BY DEF ProcType
      <4>2. procs[p].age < ProcLimit(p) /\ ProcLimit(p) \in 0 .. Lease + 1
        BY <1>12, <3>2 DEF Tick, ProcLimit
      <4>3. [procs[p] EXCEPT !.age = @ + 1] \in ProcType
        <5>1. procs[p].age + 1 \in 0 .. Lease + 1
          BY <4>1, <4>2
        <5> QED
          BY <4>1, <5>1 DEF ProcType
      <4> QED
        BY <1>12, <3>2, <4>3 DEF Tick
    <3> QED
      BY <3>1, <3>2
  <2>4. ASSUME NEW n \in Mails PROVE mails'[n] \in MailType
    BY <1>12, MailUpdates DEF Tick
  <2> QED
    BY <1>12, <2>1, <2>2, <2>3, <2>4 DEF Tick
<1>13. CASE UNCHANGED vars
  BY <1>13 DEF vars
<1> QED
  BY <1>1, <1>2, <1>3, <1>4, <1>5, <1>6, <1>7, <1>8, <1>9, <1>10, <1>11, <1>12, <1>13,
     <1>14, <1>15 DEF Next

-----------------------------------------------------------------------------
(***************************************************************************)
(* The invariant: queueing                                                 *)
(***************************************************************************)

\* The processors' side of the invariant.
Sending == Sends /\ Holds /\ Tries /\ Took /\ Once /\ SentMeansAccepted

\* It holds initially.
LEMMA MailInit == Init => MailInv
<1> SUFFICES ASSUME Init PROVE MailInv
  OBVIOUS
<1> USE Bounds DEF Init
<1>1. TypeOK
  <2>1. mails \in [Mails -> MailType]
    BY ConstantRecords
  <2>2. passes \in [Passes -> PassType] /\ procs \in [Processors -> ProcType] /\ claim \in ClaimType
    BY ConstantRecords
  <2>3. serial \in Mails /\ faults \in 0 .. MaxFaults /\ doubtful \in BOOLEAN /\ setup \in Setups
    <3>1. faults = 0 /\ 0 \in 0 .. MaxFaults
      OBVIOUS
    <3> QED
      BY <3>1
  <2> QED
    BY <2>1, <2>2, <2>3 DEF TypeOK
<1>2. \A p \in Processors : procs[p].pc = "idle" /\ ~procs[p].heldUp
  BY DEF IdleProc
<1>3. \A n \in Mails : /\ mails[n].out = 0 /\ mails[n].attempts = 0
                       /\ mails[n].body <=> mails[n].status = "pending"
                       /\ mails[n].status \in {"none", "pending"}
                       /\ n # 0 => mails[n].status = "none"
  BY DEF NoMail, Queued
<1>4. Sends /\ Holds /\ Took
  BY <1>2 DEF Sends, Holds, Took, Busy
<1>5. Tries /\ Once /\ SentMeansAccepted
  BY <1>3 DEF Tries, Once, SentMeansAccepted
<1>6. Claims /\ LiveIsClaimed
  BY <1>3 DEF Claims, LiveIsClaimed, Live, IdlePass, NoClaim
<1> QED
  BY <1>1, <1>4, <1>5, <1>6 DEF MailInv

\* A step that at most queues a mail not queued before disturbs no processor.
LEMMA QueueStep ==
  ASSUME MailInv, procs' = procs, doubtful' = doubtful,
         \/ mails' = mails
         \/ \E t \in Mails : mails[t].status = "none" /\ mails' = [mails EXCEPT ![t] = Queued]
  PROVE  Sending'
<1>1. CASE mails' = mails
  BY <1>1 DEF MailInv, Sending, Sends, Holds, Tries, Took, Once, SentMeansAccepted, Busy, HeldBy, Settling
<1>2. ASSUME NEW t \in Mails, mails[t].status = "none", mails' = [mails EXCEPT ![t] = Queued]
      PROVE  Sending'
  <2>1. /\ mails'[t] = Queued
        /\ \A n \in Mails : n # t => mails'[n] = mails[n]
    BY <1>2 DEF MailInv, TypeOK
  <2>2. Queued.status = "pending" /\ Queued.attempts = 0 /\ Queued.out = 0 /\ Queued.body = TRUE
    BY DEF Queued, NoMail
  <2>3. \A p \in Processors : Busy(p) => procs[p].mail # t
    BY <1>2 DEF MailInv, Sends
  <2>4. \A p \in Processors : procs[p].mail \in Mails
    BY DEF MailInv, TypeOK, ProcType
  <2>5. Sends' /\ Holds' /\ Took'
    BY <2>1, <2>3, <2>4 DEF MailInv, Sends, Holds, Took, Busy, HeldBy
  <2>6. Tries' /\ SentMeansAccepted'
    BY <2>1, <2>2, Bounds DEF MailInv, Tries, SentMeansAccepted
  <2>7. Once'
    BY <2>1, <2>2 DEF MailInv, Once, Settling
  <2> QED
    BY <2>5, <2>6, <2>7 DEF Sending
<1> QED
  BY <1>1, <1>2

\* What a reminder pass does keeps the invariant.
LEMMA PassStep ==
  ASSUME MailInv, NEW q \in Passes,
         \/ ClaimNotification(q) \/ Enqueue(q) \/ EnqueueFails(q)
         \/ ReleaseNotification(q) \/ LosePass(q) \/ HoldUpPass(q)
  PROVE  Sending' /\ Claims' /\ LiveIsClaimed'
<1> USE DEF MailInv
<1>0. /\ passes \in [Passes -> PassType] /\ mails \in [Mails -> MailType] /\ serial \in Nat
      /\ claim \in ClaimType /\ Tokens \subseteq Mails
  BY Bounds DEF TypeOK, Mails, Tokens
<1>1. CASE ClaimNotification(q)
  <2>1. /\ claim'.token = serial + 1 /\ serial' = serial + 1 /\ mails' = mails
        /\ passes'[q].token = serial + 1
        /\ \A r \in Passes : r # q => passes'[r] = passes[r]
    BY <1>0, <1>1 DEF ClaimNotification, PassType, IdlePass
  <2>2. serial + 1 \in Tokens
    BY <1>0, <1>1, Bounds DEF ClaimNotification, Tokens
  <2>3. ~claim.sent \/ claim.token = 0
    BY <1>1 DEF ClaimNotification, Winnable
  <2>4. \A n \in Tokens : ~Live(n)
    BY <2>3, Bounds DEF LiveIsClaimed
  <2>5. LiveIsClaimed'
    BY <2>1, <2>4 DEF LiveIsClaimed, Live
  <2>6. \A n \in Tokens : n > serial + 1 => n > serial
    BY <1>0, Bounds DEF Tokens
  <2>7. Claims'
    <3>1. claim'.token <= serial' /\ \A n \in Tokens : n > serial' => mails'[n].status = "none"
      BY <1>0, <2>1, <2>6 DEF Claims
    <3>2. ASSUME NEW r \in Passes, passes'[r].pc = "claimed"
          PROVE  /\ passes'[r].token \in Tokens /\ passes'[r].token <= serial'
                 /\ mails'[passes'[r].token].status = "none"
                 /\ r # q => passes'[r].token <= serial
      BY <1>0, <2>1, <2>2, <3>2 DEF Claims, PassType, Tokens
    <3>3. ASSUME NEW r1 \in Passes, NEW r2 \in Passes, r1 # r2,
                 passes'[r1].pc = "claimed", passes'[r2].pc = "claimed"
          PROVE  passes'[r1].token # passes'[r2].token
      BY <1>0, <2>1, <3>2, <3>3 DEF Claims, PassType
    <3> QED
      BY <3>1, <3>2, <3>3 DEF Claims
  <2>8. Sending'
    BY <1>1, QueueStep DEF ClaimNotification
  <2> QED
    BY <2>5, <2>7, <2>8
<1>2. CASE Enqueue(q) \/ EnqueueFails(q)
  <2> DEFINE t == passes[q].token
  <2>1. t \in Tokens /\ t <= serial /\ mails[t].status = "none"
    BY <1>2 DEF Claims, Enqueue, EnqueueFails
  <2>2. /\ serial' = serial /\ passes'[q].pc # "claimed"
        /\ \A r \in Passes : r # q => passes'[r] = passes[r]
    BY <1>0, <1>2 DEF Enqueue, EnqueueFails, PassEnds, IdlePass, PassType
  <2>3. CASE mails' = mails /\ claim' = claim
    <3>1. Claims' /\ LiveIsClaimed'
      BY <2>2, <2>3 DEF Claims, LiveIsClaimed, Live
    <3>2. Sending'
      BY <1>2, <2>3, QueueStep DEF Enqueue, EnqueueFails
    <3> QED
      BY <3>1, <3>2
  <2>4. CASE /\ StillClaimed(q)
             /\ mails' = [mails EXCEPT ![t] = Queued]
             /\ claim' = [claim EXCEPT !.sent = TRUE]
    <3>1. /\ \A n \in Mails : n # t => mails'[n] = mails[n]
          /\ claim'.token = t /\ claim.token = t /\ claim'.sent
      BY <1>0, <2>4 DEF StillClaimed, ClaimType
    <3>2. \A n \in Tokens : n # t => ~Live(n)
      BY <3>1 DEF LiveIsClaimed
    <3>3. LiveIsClaimed'
      BY <1>0, <3>1, <3>2 DEF LiveIsClaimed, Live
    <3>4. Claims'
      <4>1. claim'.token <= serial'
        BY <2>1, <2>2, <3>1
      <4>2. \A n \in Tokens : n > serial => n # t
        BY <1>0, <2>1, Bounds DEF Tokens
      <4>3. \A r \in Passes : passes'[r].pc = "claimed" => r # q /\ passes[r].token # t
        BY <1>2, <2>2 DEF Claims, Enqueue, EnqueueFails
      <4> QED
        BY <1>0, <2>2, <3>1, <4>1, <4>2, <4>3 DEF Claims
    <3>5. Sending'
      BY <1>0, <1>2, <2>1, <2>4, QueueStep DEF Enqueue, EnqueueFails
    <3> QED
      BY <3>3, <3>4, <3>5
  <2> QED
    BY <1>2, <2>3, <2>4 DEF Enqueue, EnqueueFails
<1>3. CASE ReleaseNotification(q) \/ LosePass(q) \/ HoldUpPass(q)
  <2>1. /\ serial' = serial /\ mails' = mails
        /\ \A r \in Passes : passes'[r].pc = "claimed" =>
              passes[r].pc = "claimed" /\ passes'[r].token = passes[r].token
    BY <1>0, <1>3 DEF ReleaseNotification, LosePass, HoldUpPass, PassEnds, IdlePass, PassType
  <2>2. claim' = claim \/ (claim'.token = 0 /\ ~claim.sent)
    BY <1>3 DEF ReleaseNotification, LosePass, HoldUpPass, StillClaimed, NoClaim
  <2>3. Claims'
    BY <1>0, <2>1, <2>2 DEF Claims
  <2>4. LiveIsClaimed'
    BY <2>1, <2>2 DEF LiveIsClaimed, Live
  <2>5. Sending'
    BY <1>3, QueueStep DEF ReleaseNotification, LosePass, HoldUpPass
  <2> QED
    BY <2>3, <2>4, <2>5
<1> QED
  BY <1>1, <1>2, <1>3

-----------------------------------------------------------------------------
(***************************************************************************)
(* The invariant: sending                                                  *)
(***************************************************************************)

\* A step that leaves mails and claim as they are, and starts no send and
\* loses no mark, disturbs nothing.
LEMMA IdleStep ==
  ASSUME MailInv, UNCHANGED <<claim, passes, serial, mails, doubtful>>, procs' \in [Processors -> ProcType],
         \A x \in Processors :
           \/ procs'[x] = procs[x]
           \/ /\ procs[x].pc # "marking" /\ procs'[x].pc \in {"idle", "ready"}
              /\ procs'[x].pc = "ready" => procs'[x].setup # "none"
              /\ ~procs'[x].heldUp
           \/ /\ procs[x].pc = "marking" /\ procs'[x].pc = "marking"
              /\ procs'[x].mail = procs[x].mail /\ procs'[x].result = procs[x].result
              /\ procs'[x].setup = procs[x].setup
  PROVE  Sending' /\ Claims' /\ LiveIsClaimed'
<1> USE DEF MailInv
<1>1. Claims' /\ LiveIsClaimed' /\ Tries' /\ SentMeansAccepted'
  BY DEF Claims, LiveIsClaimed, Live, Tries, SentMeansAccepted
<1>2. Sends' /\ Holds' /\ Took'
  BY DEF Sends, Holds, Took, Busy, HeldBy
<1>3. Once'
  BY DEF Once, Settling
<1> QED
  BY <1>1, <1>2, <1>3 DEF Sending

\* Sending a mail and noting the outcome: only the mail's history changes.
LEMMA SendStep ==
  ASSUME MailInv, NEW p \in Processors, Deliver(p) \/ Bounce(p) \/ Hiccup(p) \/ Reject(p)
  PROVE  Sending' /\ Claims' /\ LiveIsClaimed'
<1> USE DEF MailInv
<1>n. PICK n \in Mails : n = procs[p].mail
  BY DEF TypeOK, ProcType
<1>0. /\ mails \in [Mails -> MailType] /\ procs \in [Processors -> ProcType]
      /\ setup \in Setups /\ procs[p].setup \in Setups /\ procs[p].pc = "sending"
      /\ Tokens \subseteq Mails /\ doubtful \in BOOLEAN /\ mails[n].out \in 0 .. 2
  BY Bounds DEF TypeOK, ProcType, MailType, Mails, Tokens, Deliver, Bounce, Hiccup, Reject
<1>1. HeldBy(p) /\ mails[n].status = "pending"
  BY <1>n, <1>0 DEF Holds, Busy
<1>2. PICK r \in Results :
        /\ SendsAs(p, r)
        /\ \/ r = "sent" /\ Deliver(p)
           \/ r # "sent" /\ (doubtful' \/ (doubtful' = doubtful /\ mails'[n].out = mails[n].out))
  <2>1. CASE Deliver(p)
    BY <2>1 DEF Deliver, Results
  <2>2. CASE Bounce(p)
    <3>1. mails'[n].out = mails[n].out
      BY <1>n, <1>0, <2>2 DEF Bounce, MailType
    <3> QED
      BY <2>2, <3>1 DEF Bounce, Results
  <2>3. CASE Hiccup(p)
    BY <2>3 DEF Hiccup, Results
  <2>4. CASE Reject(p)
    BY <2>4 DEF Reject, Results
  <2> QED
    BY <2>1, <2>2, <2>3, <2>4
<1>3. /\ procs'[p].pc = "marking" /\ procs'[p].result = r /\ procs'[p].mail = n
      /\ procs'[p].setup = procs[p].setup
      /\ \A x \in Processors : x # p => procs'[x] = procs[x]
  BY <1>n, <1>0, <1>2 DEF SendsAs, ProcType
<1>4. /\ \A k \in Mails : k # n => mails'[k] = mails[k]
      /\ mails'[n].status = mails[n].status /\ mails'[n].holder = mails[n].holder
      /\ mails'[n].attempts = mails[n].attempts /\ mails'[n].body = mails[n].body
      /\ mails'[n].due = mails[n].due
      /\ \/ mails'[n].out = mails[n].out
         \/ mails'[n].out = (IF mails[n].out = 2 THEN 2 ELSE mails[n].out + 1)
  BY <1>n, <1>0 DEF Deliver, Bounce, Hiccup, Reject, Accepted, MailType
<1>5. UNCHANGED <<claim, passes, serial>>
  BY DEF Deliver, Bounce, Hiccup, Reject
<1>6. r = "sent" => mails'[n].out > 0
  <2>1. ASSUME r = "sent" PROVE Deliver(p) /\ procs[p].setup = "good"
    <3>1. Deliver(p)
      BY <1>2, <2>1
    <3> QED
      BY <1>0, <3>1 DEF Deliver, SetupFor, Sends, Setups
  <2> QED
    BY <1>n, <1>0, <2>1 DEF Deliver, SetupFor, Accepted, MailType
<1>7. \/ doubtful'
      \/ doubtful' = doubtful /\ mails'[n].out = mails[n].out
      \/ doubtful' = doubtful /\ r = "sent"
  BY <1>2 DEF Deliver
<1>8. \A k \in Mails : /\ mails'[k].status = mails[k].status
                       /\ mails'[k].body = mails[k].body
                       /\ mails'[k].attempts = mails[k].attempts
                       /\ mails'[k].holder = mails[k].holder
                       /\ mails'[k].due = mails[k].due
                       /\ mails[k].out > 0 => mails'[k].out > 0
  BY <1>0, <1>4
<1>9. \A x \in Processors : procs[x].mail \in Mails
  BY <1>0 DEF ProcType
<1>10. Claims' /\ LiveIsClaimed'
  <2>1. \A x \in Passes : passes[x].token \in Mails
    BY DEF TypeOK, PassType
  <2> QED
    BY <1>0, <1>5, <1>8, <2>1 DEF Claims, LiveIsClaimed, Live
<1>11. Tries' /\ SentMeansAccepted'
  BY <1>8 DEF Tries, SentMeansAccepted
<1>12. Sends' /\ Holds' /\ Took'
  <2>1. Sends'
    BY <1>n, <1>0, <1>3, <1>8, <1>9 DEF Sends, Busy
  <2>2. Holds'
    BY <1>n, <1>0, <1>1, <1>3, <1>8, <1>9 DEF Holds, Busy, HeldBy
  <2>3. Took'
    BY <1>n, <1>0, <1>3, <1>6, <1>8, <1>9 DEF Took
  <2> QED
    BY <2>1, <2>2, <2>3
<1>13. Once'
  <2> SUFFICES ASSUME ~doubtful', NEW k \in Mails
               PROVE  /\ mails'[k].out <= 1
                      /\ mails'[k].out = 1 /\ mails'[k].status = "pending" => Settling(k)'
    BY DEF Once
  <2>1. ~doubtful /\ doubtful' = doubtful
    BY <1>7
  <2>2. ~Settling(n)
    BY <1>n, <1>0, <1>1 DEF Settling, HeldBy
  <2>3. mails[n].out = 0
    BY <1>0, <1>1, <2>1, <2>2 DEF Once
  <2>4. CASE k = n
    <3>1. mails'[n].out = 0 \/ (mails'[n].out = 1 /\ r = "sent")
      BY <1>4, <1>7, <2>3, <2>1
    <3>2. r = "sent" => Settling(n)'
      BY <1>n, <1>1, <1>3, <1>8 DEF Settling, HeldBy
    <3> QED
      BY <2>4, <3>1, <3>2
  <2>5. CASE k # n
    <3>1. mails'[k] = mails[k] /\ mails[k].out <= 1
      BY <1>4, <2>1, <2>5 DEF Once
    <3>2. Settling(k) => Settling(k)'
      BY <1>0, <1>3, <3>1 DEF Settling
    <3> QED
      BY <2>1, <3>1, <3>2 DEF Once
  <2> QED
    BY <2>4, <2>5
<1> QED
  BY <1>10, <1>11, <1>12, <1>13 DEF Sending

\* Claiming a mail that is due: nobody is sending it, and a processor still
\* marking it as sent leaves a doubt.
LEMMA ClaimStep ==
  ASSUME MailInv, NEW p \in Processors, NEW n \in Mails, ClaimNextEmail(p, n)
  PROVE  Sending' /\ Claims' /\ LiveIsClaimed'
<1> USE DEF MailInv
<1>0. /\ mails \in [Mails -> MailType] /\ procs \in [Processors -> ProcType] /\ Tokens \subseteq Mails
      /\ procs[p].pc = "ready" /\ mails[n].status = "pending" /\ mails[n].due = 0
  BY Bounds DEF TypeOK, Mails, Tokens, ClaimNextEmail, Due
<1>1. /\ procs'[p].pc = "sending" /\ procs'[p].mail = n /\ procs'[p].age = 0
      /\ procs'[p].setup = procs[p].setup /\ procs'[p].heldUp = procs[p].heldUp
      /\ \A x \in Processors : x # p => procs'[x] = procs[x]
  BY <1>0 DEF ClaimNextEmail, ProcType
<1>2. /\ mails'[n].due = Lease /\ mails'[n].holder = p
      /\ \A k \in Mails : k # n => mails'[k] = mails[k]
      /\ \A k \in Mails : /\ mails'[k].status = mails[k].status
                          /\ mails'[k].attempts = mails[k].attempts
                          /\ mails'[k].body = mails[k].body /\ mails'[k].out = mails[k].out
  BY <1>0 DEF ClaimNextEmail, MailType
<1>3. UNCHANGED <<claim, passes, serial>>
  BY DEF ClaimNextEmail
<1>4. \A x \in Processors : procs[x].mail \in Mails
  BY <1>0 DEF ProcType
<1>5. Claims' /\ LiveIsClaimed' /\ Tries' /\ SentMeansAccepted'
  <2>1. \A x \in Passes : passes[x].token \in Mails
    BY DEF TypeOK, PassType
  <2> QED
    BY <1>0, <1>2, <1>3, <2>1 DEF Claims, LiveIsClaimed, Live, Tries, SentMeansAccepted
<1>6. \A x \in Processors : procs[x].pc = "sending" => procs[x].mail # n
  <2>1. \A x \in Processors : procs[x].age \in Int
    BY <1>0, Bounds DEF ProcType
  <2> QED
    BY <1>0, <2>1, Bounds DEF Holds
<1>7. Sends' /\ Took'
  BY <1>0, <1>1, <1>2, <1>4 DEF Sends, Took, Busy
<1>8. Holds'
  BY <1>0, <1>1, <1>2, <1>4, <1>6, Bounds DEF Holds, Busy, HeldBy
<1>9. Once'
  <2> SUFFICES ASSUME ~doubtful', NEW k \in Mails
               PROVE  /\ mails'[k].out <= 1
                      /\ mails'[k].out = 1 /\ mails'[k].status = "pending" => Settling(k)'
    BY DEF Once
  <2>1. ~doubtful /\ ~Settling(n)
    BY DEF ClaimNextEmail, Settling
  <2>2. mails[k].out <= 1 /\ (mails[k].out = 1 /\ mails[k].status = "pending" => Settling(k))
    BY <2>1 DEF Once
  <2>3. k # n /\ Settling(k) => Settling(k)'
    BY <1>0, <1>1, <1>2 DEF Settling
  <2> QED
    BY <1>2, <2>1, <2>2, <2>3
<1> QED
  BY <1>5, <1>7, <1>8, <1>9 DEF Sending

\* Marking a mail: only its holder does, and a mail that went out and is not
\* marked sent was held by another.
LEMMA MarkStep ==
  ASSUME MailInv, NEW p \in Processors, Mark(p)
  PROVE  Sending' /\ Claims' /\ LiveIsClaimed'
<1> USE DEF MailInv
<1>n. PICK n \in Mails : n = procs[p].mail
  BY DEF TypeOK, ProcType
<1>0. /\ mails \in [Mails -> MailType] /\ procs \in [Processors -> ProcType] /\ Tokens \subseteq Mails
      /\ procs[p].pc = "marking" /\ procs[p].result \in Results /\ mails[n].attempts \in Nat
      /\ claim \in ClaimType
  <2>1. /\ mails \in [Mails -> MailType] /\ procs \in [Processors -> ProcType] /\ Tokens \subseteq Mails
        /\ procs[p].pc = "marking" /\ claim \in ClaimType
    BY Bounds DEF TypeOK, Mails, Tokens, Mark
  <2>2. mails[n].attempts \in Nat
    BY <2>1, Bounds DEF MailType
  <2>3. procs[p].result \in Results
    BY <2>1 DEF ProcType
  <2> QED
    BY <2>1, <2>2, <2>3
<1>1. /\ procs'[p].pc = "ready" /\ procs'[p].setup = procs[p].setup /\ ~procs'[p].heldUp
      /\ \A x \in Processors : x # p => procs'[x] = procs[x]
  BY <1>0 DEF Mark, IdleProc
<1>2. UNCHANGED <<passes, serial, doubtful>>
  BY DEF Mark
<1>3. \A x \in Processors : procs[x].mail \in Mails
  BY <1>0 DEF ProcType
<1>4. CASE ~HeldBy(p)
  <2>1. mails' = mails /\ claim' = claim
    BY <1>4 DEF Mark
  <2>2. Claims' /\ LiveIsClaimed' /\ Tries' /\ SentMeansAccepted'
    BY <1>2, <2>1 DEF Claims, LiveIsClaimed, Live, Tries, SentMeansAccepted
  <2>3. Sends' /\ Holds' /\ Took'
    BY <1>1, <2>1, <1>0 DEF Sends, Holds, Took, Busy, HeldBy
  <2>4. Once'
    BY <1>n, <1>0, <1>1, <1>2, <1>4, <2>1 DEF Once, Settling, HeldBy
  <2> QED
    BY <2>2, <2>3, <2>4 DEF Sending
<1>5. CASE HeldBy(p)
  <2>1. /\ mails[n].status = "pending" /\ mails[n].holder = p
        /\ mails[n].attempts < MaxAttempts
    BY <1>n, <1>0, <1>5 DEF Holds, Busy, Tries, HeldBy
  <2>2. /\ mails'[n] = Marked(mails[n], procs[p].result)
        /\ \A k \in Mails : k # n => mails'[k] = mails[k]
        /\ claim' = Reopened(p)
    BY <1>n, <1>0, <1>5 DEF Mark
  <2>3. /\ mails'[n].out = mails[n].out
        /\ mails'[n].holder \in {p, Nobody}
        /\ mails'[n].status # "none"
        /\ mails'[n].body <=> mails'[n].status = "pending"
        /\ mails'[n].status = "pending" =>
             procs[p].result \in {"retry", "defer"} /\ mails'[n].attempts < MaxAttempts
        /\ mails'[n].status = "sent" => procs[p].result = "sent"
    BY <1>0, <2>1, <2>2, Bounds
       DEF Marked, MarkedSent, GivenUp, MarkedFailed, MarkedDeferred, Results, MailType, SentMeansAccepted
  <2>4. /\ claim'.token = claim.token
        /\ claim'.sent = claim.sent \/ (claim.token = n /\ mails'[n].status = "failed")
    BY <1>n, <1>0, <2>2 DEF Reopened, ClaimType, Marked
  <2>5. Tries'
    BY <2>2, <2>3 DEF Tries
  <2>6. SentMeansAccepted'
    <3>1. mails'[n].status = "sent" => mails'[n].out > 0
      BY <1>n, <1>0, <2>3 DEF Took
    <3> QED
      BY <2>2, <2>3, <3>1 DEF SentMeansAccepted
  <2>7. Claims'
    <3>1. \A x \in Passes : passes[x].token \in Mails
      BY DEF TypeOK, PassType
    <3>2. \A k \in Mails : mails[k].status = "none" => mails'[k].status = "none"
      BY <2>1, <2>2
    <3> QED
      BY <1>0, <1>2, <2>4, <3>1, <3>2 DEF Claims
  <2>8. LiveIsClaimed'
    <3>1. ASSUME NEW k \in Tokens, Live(k)' PROVE claim'.token = k /\ claim'.sent
      <4>1. Live(k)
        BY <1>0, <2>1, <2>2, <3>1 DEF Live
      <4>2. claim.token = k /\ claim.sent
        BY <4>1 DEF LiveIsClaimed
      <4> QED
        BY <2>4, <3>1, <4>2 DEF Live
    <3> QED
      BY <3>1 DEF LiveIsClaimed
  <2>9. Sends' /\ Took'
    BY <1>0, <1>1, <1>3, <2>2, <2>3 DEF Sends, Took, Busy
  <2>10. Holds'
    BY <1>0, <1>1, <1>3, <2>1, <2>2, <2>3, Bounds DEF Holds, Busy, HeldBy
  <2>11. Once'
    <3> SUFFICES ASSUME ~doubtful', NEW k \in Mails
                 PROVE  /\ mails'[k].out <= 1
                        /\ mails'[k].out = 1 /\ mails'[k].status = "pending" => Settling(k)'
      BY DEF Once
    <3>1. mails[k].out <= 1 /\ (mails[k].out = 1 /\ mails[k].status = "pending" => Settling(k))
      BY <1>2 DEF Once
    <3>2. CASE k = n
      <4>1. Settling(n) => procs[p].result = "sent"
        BY <2>1 DEF Settling
      <4> QED
        BY <2>1, <2>3, <3>1, <3>2, <4>1
    <3>3. CASE k # n
      <4>1. mails'[k] = mails[k]
        BY <2>2, <3>3
      <4>2. Settling(k) => Settling(k)'
        BY <1>n, <1>0, <1>1, <3>3, <4>1 DEF Settling
      <4> QED
        BY <3>1, <4>1, <4>2
    <3> QED
      BY <3>2, <3>3
  <2> QED
    BY <2>5, <2>6, <2>7, <2>8, <2>9, <2>10, <2>11 DEF Sending
<1> QED
  BY <1>4, <1>5

\* A processor lost leaves a doubt, and its mail to the lease.
LEMMA LoseStep ==
  ASSUME MailInv, NEW p \in Processors, LoseProc(p)
  PROVE  Sending' /\ Claims' /\ LiveIsClaimed'
<1> USE DEF MailInv
<1>1. /\ procs \in [Processors -> ProcType] /\ procs'[p].pc = "idle" /\ doubtful'
      /\ ~procs'[p].heldUp
      /\ \A x \in Processors : x # p => procs'[x] = procs[x]
      /\ UNCHANGED <<claim, passes, mails, serial>>
  BY DEF TypeOK, LoseProc, IdleProc
<1>2. Claims' /\ LiveIsClaimed' /\ Tries' /\ SentMeansAccepted'
  BY <1>1 DEF Claims, LiveIsClaimed, Live, Tries, SentMeansAccepted
<1>3. Sends' /\ Holds' /\ Took' /\ Once'
  BY <1>1 DEF Sends, Holds, Took, Once, Busy, HeldBy
<1> QED
  BY <1>2, <1>3 DEF Sending

\* Time passes: a send under way still has its mail's lease.
LEMMA TickStep ==
  ASSUME MailInv, Tick
  PROVE  Sending' /\ Claims' /\ LiveIsClaimed'
<1> USE DEF MailInv
<1>0. /\ mails \in [Mails -> MailType] /\ procs \in [Processors -> ProcType] /\ Tokens \subseteq Mails
      /\ passes \in [Passes -> PassType] /\ claim \in ClaimType
  BY Bounds DEF TypeOK, Mails, Tokens
<1>1. \A k \in Mails : /\ mails'[k].status = mails[k].status /\ mails'[k].attempts = mails[k].attempts
                       /\ mails'[k].body = mails[k].body /\ mails'[k].out = mails[k].out
                       /\ mails'[k].holder = mails[k].holder
                       /\ mails'[k].due = IF mails[k].due = 0 THEN 0 ELSE mails[k].due - 1
  BY <1>0 DEF Tick, MailType
<1>2. \A x \in Processors : /\ procs'[x].pc = procs[x].pc
                            /\ procs'[x].heldUp => procs[x].heldUp
                            /\ procs[x].pc # "idle" =>
                                 /\ procs'[x].mail = procs[x].mail /\ procs'[x].result = procs[x].result
                                 /\ procs'[x].setup = procs[x].setup /\ procs'[x].age = procs[x].age + 1
                            /\ procs[x].mail \in Mails
  BY <1>0 DEF Tick, ProcType, IdleProc
<1>3. \A q \in Passes : /\ passes'[q].pc = passes[q].pc
                        /\ passes[q].pc # "idle" => passes'[q].token = passes[q].token
                        /\ passes[q].token \in Mails
  BY <1>0 DEF Tick, PassType, IdlePass
<1>4. claim'.token = claim.token /\ claim'.sent = claim.sent /\ serial' = serial /\ doubtful' = doubtful
  BY <1>0 DEF Tick, ClaimType
<1>5. Claims' /\ LiveIsClaimed' /\ Tries' /\ SentMeansAccepted'
  <2>1. Claims'
    BY <1>0, <1>1, <1>3, <1>4 DEF Claims
  <2>2. LiveIsClaimed' /\ Tries' /\ SentMeansAccepted'
    BY <1>0, <1>1, <1>4 DEF LiveIsClaimed, Live, Tries, SentMeansAccepted
  <2> QED
    BY <2>1, <2>2
<1>6. Sends' /\ Took' /\ Once'
  <2>1. Sends' /\ Took'
    BY <1>1, <1>2 DEF Sends, Took, Busy
  <2>2. \A k \in Mails : Settling(k) => Settling(k)'
    BY <1>1, <1>2 DEF Settling
  <2> QED
    BY <1>1, <1>4, <2>1, <2>2 DEF Once
<1>7. Holds'
  <2>1. ASSUME NEW x \in Processors, Busy(x)', HeldBy(x)'
        PROVE  mails'[procs'[x].mail].status = "pending"
    BY <1>1, <1>2, <2>1 DEF Holds, Busy, HeldBy
  <2>2. ASSUME NEW x \in Processors, procs'[x].pc = "sending"
        PROVE  /\ HeldBy(x)' /\ procs'[x].age <= SendTime
               /\ mails'[procs'[x].mail].due = Lease - procs'[x].age
    <3>1. /\ procs[x].pc = "sending" /\ procs'[x].mail = procs[x].mail /\ procs[x].age \in Nat
          /\ procs'[x].age = procs[x].age + 1
      BY <1>0, <1>2, <2>2, Bounds DEF ProcType
    <3>2. procs[x].age < SendTime
      <4>1. ProcLimit(x) = SendTime
        BY <3>1 DEF ProcLimit, Sends
      <4>2. procs[x].age < ProcLimit(x)
        BY <3>1 DEF Tick
      <4> QED
        BY <4>1, <4>2
    <3>3. HeldBy(x) /\ mails[procs[x].mail].due = Lease - procs[x].age
      BY <3>1 DEF Holds
    <3> QED
      BY <1>1, <1>2, <3>1, <3>2, <3>3, Bounds DEF HeldBy
  <2> QED
    BY <2>1, <2>2 DEF Holds
<1> QED
  BY <1>5, <1>6, <1>7 DEF Sending

\* The invariant is kept by every step.
LEMMA MailNext == MailInv /\ [Next]_vars => MailInv'
<1> SUFFICES ASSUME MailInv, [Next]_vars PROVE MailInv'
  OBVIOUS
<1>1. TypeOK'
  BY TypeNext DEF MailInv
<1>2. TypeOK /\ procs' \in [Processors -> ProcType]
  BY <1>1 DEF MailInv, TypeOK
<1>3. ASSUME NEW q \in Passes,
             \/ ClaimNotification(q) \/ Enqueue(q) \/ EnqueueFails(q)
             \/ ReleaseNotification(q) \/ LosePass(q) \/ HoldUpPass(q)
      PROVE  Sending' /\ Claims' /\ LiveIsClaimed'
  BY <1>3, PassStep
<1>4. ASSUME NEW p \in Processors, StartQueue(p) \/ EndQueue(p) \/ HoldUpProc(p)
      PROVE  Sending' /\ Claims' /\ LiveIsClaimed'
  <2>1. UNCHANGED <<claim, passes, serial, mails, doubtful>>
    BY <1>4 DEF StartQueue, EndQueue, HoldUpProc
  <2>2. \A x \in Processors : x # p => procs'[x] = procs[x]
    BY <1>2, <1>4 DEF TypeOK, StartQueue, EndQueue, HoldUpProc
  <2>3. CASE StartQueue(p)
    <3>1. procs[p].pc = "idle" /\ procs'[p].pc = "ready" /\ procs'[p].setup # "none"
          /\ ~procs'[p].heldUp
      BY <1>2, <2>3 DEF TypeOK, StartQueue, IdleProc
    <3> QED
      BY <1>2, <2>1, <2>2, <3>1, IdleStep
  <2>4. CASE EndQueue(p)
    <3>1. procs[p].pc = "ready" /\ procs'[p].pc = "idle" /\ ~procs'[p].heldUp
      BY <1>2, <2>4 DEF TypeOK, EndQueue, IdleProc
    <3> QED
      BY <1>2, <2>1, <2>2, <3>1, IdleStep
  <2>5. CASE HoldUpProc(p)
    <3>1. /\ procs[p].pc = "marking" /\ procs'[p].pc = "marking" /\ procs'[p].mail = procs[p].mail
          /\ procs'[p].result = procs[p].result /\ procs'[p].setup = procs[p].setup
      BY <1>2, <2>5 DEF TypeOK, HoldUpProc, ProcType
    <3> QED
      BY <1>2, <2>1, <2>2, <3>1, IdleStep
  <2> QED
    BY <1>4, <2>3, <2>4, <2>5
<1>5. ASSUME NEW p \in Processors, NEW n \in Mails, ClaimNextEmail(p, n)
      PROVE  Sending' /\ Claims' /\ LiveIsClaimed'
  BY <1>5, ClaimStep
<1>6. ASSUME NEW p \in Processors, Deliver(p) \/ Bounce(p) \/ Hiccup(p) \/ Reject(p)
      PROVE  Sending' /\ Claims' /\ LiveIsClaimed'
  BY <1>6, SendStep
<1>7. ASSUME NEW p \in Processors, Mark(p)
      PROVE  Sending' /\ Claims' /\ LiveIsClaimed'
  BY <1>7, MarkStep
<1>8. ASSUME NEW p \in Processors, LoseProc(p)
      PROVE  Sending' /\ Claims' /\ LiveIsClaimed'
  BY <1>8, LoseStep
<1>9. ASSUME ChangeSetup \/ WindowCloses \/ UNCHANGED vars
      PROVE  Sending' /\ Claims' /\ LiveIsClaimed'
  <2>1. UNCHANGED <<claim, passes, serial, mails, doubtful, procs>>
    BY <1>9 DEF ChangeSetup, WindowCloses, vars
  <2> QED
    BY <1>2, <2>1, IdleStep
<1>10. ASSUME Tick PROVE Sending' /\ Claims' /\ LiveIsClaimed'
  BY <1>10, TickStep
<1>11. Sending' /\ Claims' /\ LiveIsClaimed'
  BY <1>3, <1>4, <1>5, <1>6, <1>7, <1>8, <1>9, <1>10 DEF Next
<1> QED
  BY <1>1, <1>11 DEF MailInv, Sending

-----------------------------------------------------------------------------
(***************************************************************************)
(* The theorems                                                            *)
(***************************************************************************)

\* MailInv holds in every state of the queue.
THEOREM MailInvHolds == Spec => []MailInv
  BY MailInit, MailNext, PTL DEF Spec

\* A reminder has one mail queued or sent, and a mail goes out once unless a
\* sender was lost, stalled or never learnt the outcome (ClaimNotification,
\* EnqueueEmailAndCloseNotification, ClaimNextEmail and its claim token).
THEOREM MailedOnceHolds == Spec => []MailedOnce
<1>1. MailInv => MailedOnce
  BY DEF MailInv, LiveIsClaimed, Once, MailedOnce
<1> QED
  BY <1>1, MailInvHolds, PTL

\* A mail marked sent was accepted by a provider, and its text is there exactly
\* while it waits (sendResolved, MarkEmailSent, MarkEmailFailed).
THEOREM SentMeansAcceptedHolds == Spec => []SentMeansAccepted
<1>1. MailInv => SentMeansAccepted
  BY DEF MailInv
<1> QED
  BY <1>1, MailInvHolds, PTL
=============================================================================
