-------------------------------- MODULE Mail --------------------------------
(***************************************************************************)
(* One reminder to one customer: the claim that makes it go out once (the  *)
(* notifications row of a licence and tag), the mails it queues, and the   *)
(* processors that send them (internal/store/store.go, service/email.go,   *)
(* service/expiry.go, service/expiry_reminders.go).  Mail number 0 is one  *)
(* queued without a reminder: a licence key after a sale.  Mail n is the   *)
(* one that claim n queued; claim numbers stand for the random ids.        *)
(*                                                                         *)
(* Every replica runs the reminder pass and a processor.  Times are ticks: *)
(* until a mail's next_retry, and since a claim or a step began.           *)
(***************************************************************************)
EXTENDS Integers, FiniteSets

CONSTANTS
  Passes,       \* reminder passes, one per replica
  Processors,   \* queue processors, one per replica
  Batch,        \* mails a processor sends in one pass (emailQueueBatch)
  MaxAttempts,  \* max_attempts of a mail
  Lease,        \* emailClaimLease, and the delay of a deferred mail
  ClaimLease,   \* notificationLease
  SendTime,     \* ticks one send lasts at most
  MaxClaims,    \* bound: claims of the reminder
  MaxFaults     \* bound: crashes, failed statements and sends, hold-ups and
                \* changes of the mail settings

Nobody == "nobody"
Tokens == 1 .. MaxClaims
Mails == 0 .. MaxClaims

ASSUME MailAssumption ==
  /\ IsFiniteSet(Passes)
  /\ IsFiniteSet(Processors)
  /\ Nobody \notin Processors
  /\ MaxAttempts \in Nat \ {0}
  /\ Batch \in Nat \ {0}
  /\ {Lease, ClaimLease, SendTime, MaxClaims, MaxFaults} \subseteq Nat
  /\ SendTime < Lease

VARIABLES
  setup,        \* the mail settings: "none", "wrong" or "good"
  open,         \* the licence is inside the window the reminder is for
  claim,        \* the notifications row; token 0: there is none
  passes,       \* what each reminder pass is doing
  mails,        \* the email_queue rows
  procs,        \* what each processor is doing
  serial,       \* claims so far
  faults,       \* faults and changes of the settings so far
  doubtful      \* history: a sender was lost, or stalled, or never learnt the outcome

vars == <<setup, open, claim, passes, mails, procs, serial, faults, doubtful>>

Setups == {"none", "wrong", "good"}
ClaimType == [token : Mails, sent : BOOLEAN, age : 0 .. ClaimLease + 1]
NoClaim == [token |-> 0, sent |-> FALSE, age |-> 0]

PassType == [pc : {"idle", "claimed", "failed"}, token : Mails, age : 0 .. ClaimLease + 1,
             heldUp : BOOLEAN]
IdlePass == [pc |-> "idle", token |-> 0, age |-> 0, heldUp |-> FALSE]

\* History: out is how often a provider accepted the mail, up to two; bounced,
\* whether one refused it for good.
MailType == [status : {"none", "pending", "sent", "failed"}, attempts : 0 .. MaxAttempts,
             due : Int, holder : Processors \cup {Nobody}, body : BOOLEAN, out : 0 .. 2,
             bounced : BOOLEAN]
NoMail == [status |-> "none", attempts |-> 0, due |-> 0, holder |-> Nobody, body |-> FALSE, out |-> 0,
           bounced |-> FALSE]
Queued == [NoMail EXCEPT !.status = "pending", !.body = TRUE]

Results == {"sent", "bounced", "retry", "defer"}
ProcType == [pc : {"idle", "ready", "sending", "marking"}, setup : Setups, mail : Mails,
             result : Results, left : 0 .. Batch, age : 0 .. Lease + 1, heldUp : BOOLEAN]
IdleProc == [pc |-> "idle", setup |-> "none", mail |-> 0, result |-> "sent", left |-> 0,
             age |-> 0, heldUp |-> FALSE]

TypeOK ==
  /\ setup \in Setups
  /\ open \in BOOLEAN
  /\ claim \in ClaimType
  /\ passes \in [Passes -> PassType]
  /\ mails \in [Mails -> MailType]
  /\ procs \in [Processors -> ProcType]
  /\ serial \in Mails
  /\ faults \in 0 .. MaxFaults
  /\ doubtful \in BOOLEAN

\* A key is queued; mail may not be set up yet, or wrongly.  The licence has
\* come into the reminder's window.
Init ==
  /\ setup \in Setups
  /\ open = TRUE
  /\ claim = NoClaim
  /\ passes = [q \in Passes |-> IdlePass]
  /\ mails = [n \in Mails |-> IF n = 0 THEN Queued ELSE NoMail]
  /\ procs = [p \in Processors |-> IdleProc]
  /\ serial = 0
  /\ faults = 0
  /\ doubtful = FALSE

PassEnds(q) == passes' = [passes EXCEPT ![q] = IdlePass]

Fault ==
  /\ faults < MaxFaults
  /\ faults' = faults + 1

-----------------------------------------------------------------------------
(***************************************************************************)
(* Queueing the reminder                                                   *)
(***************************************************************************)

\* The claim is won: there is none, or it is unsent and its lease has run out.
Winnable == claim.token = 0 \/ (~claim.sent /\ claim.age > ClaimLease)

\* remindExpiring, or a renewal pass: the licence's end is in the window, no
\* window inside it has been reminded of, and the claim is to be had.  (The look
\* at the licence and the claim after it are taken as one step.)
ClaimNotification(q) ==
  /\ passes[q].pc = "idle"
  /\ open
  /\ serial < MaxClaims
  /\ Winnable
  /\ serial' = serial + 1
  /\ claim' = [token |-> serial + 1, sent |-> FALSE, age |-> 0]
  /\ passes' = [passes EXCEPT ![q] = [IdlePass EXCEPT !.pc = "claimed", !.token = serial + 1]]
  /\ UNCHANGED <<setup, open, mails, procs, faults, doubtful>>

StillClaimed(q) == claim.token = passes[q].token /\ ~claim.sent

\* EnqueueEmailAndCloseNotification: one transaction, rolled back when the
\* claim was taken over.
Enqueue(q) ==
  /\ passes[q].pc = "claimed"
  /\ IF StillClaimed(q)
     THEN /\ mails' = [mails EXCEPT ![passes[q].token] = Queued]
          /\ claim' = [claim EXCEPT !.sent = TRUE]
     ELSE UNCHANGED <<mails, claim>>
  /\ PassEnds(q)
  /\ UNCHANGED <<setup, open, procs, serial, faults, doubtful>>

\* The transaction fails, or commits and the pass does not learn it.
EnqueueFails(q) ==
  /\ passes[q].pc = "claimed"
  /\ Fault
  /\ \/ UNCHANGED <<mails, claim>>
     \/ /\ StillClaimed(q)
        /\ mails' = [mails EXCEPT ![passes[q].token] = Queued]
        /\ claim' = [claim EXCEPT !.sent = TRUE]
  /\ passes' = [passes EXCEPT ![q].pc = "failed"]
  /\ UNCHANGED <<setup, open, procs, serial, doubtful>>

ReleaseNotification(q) ==
  /\ passes[q].pc = "failed"
  /\ claim' = IF StillClaimed(q) THEN NoClaim ELSE claim
  /\ PassEnds(q)
  /\ UNCHANGED <<setup, open, mails, procs, serial, faults, doubtful>>

LosePass(q) ==
  /\ passes[q].pc # "idle"
  /\ Fault
  /\ PassEnds(q)
  /\ UNCHANGED <<setup, open, claim, mails, procs, serial, doubtful>>

-----------------------------------------------------------------------------
(***************************************************************************)
(* Sending the queue                                                       *)
(***************************************************************************)

\* MUTANT: a mail is taken whether or not its next_retry has passed.
Due_Pending(n) == mails[n].status = "pending"

Due(n) == mails[n].status = "pending" /\ mails[n].due = 0

\* processQueue resolves the settings once for the whole pass.  (One that finds
\* nothing due changes nothing.)
StartQueue(p) ==
  /\ procs[p].pc = "idle"
  /\ setup # "none"
  /\ \E n \in Mails : Due(n)
  /\ procs' = [procs EXCEPT ![p] = [IdleProc EXCEPT !.pc = "ready", !.setup = setup, !.left = Batch]]
  /\ UNCHANGED <<setup, open, claim, passes, mails, serial, faults, doubtful>>

\* Nothing is due any more, or the batch is done.
EndQueue(p) ==
  /\ procs[p].pc = "ready"
  /\ procs[p].left = 0 \/ \A n \in Mails : ~Due(n)
  /\ procs' = [procs EXCEPT ![p] = IdleProc]
  /\ UNCHANGED <<setup, open, claim, passes, mails, serial, faults, doubtful>>

ClaimNextEmail(p, n) ==
  /\ procs[p].pc = "ready"
  /\ procs[p].left > 0
  /\ Due(n)
  /\ mails' = [mails EXCEPT ![n].due = Lease, ![n].holder = p]
  /\ procs' = [procs EXCEPT ![p].pc = "sending", ![p].mail = n, ![p].left = @ - 1, ![p].age = 0]
  /\ doubtful' = (doubtful \/ \E x \in Processors :
                     procs[x].pc = "marking" /\ procs[x].mail = n /\ mails[n].holder = x)
  /\ UNCHANGED <<setup, open, claim, passes, serial, faults>>

\* MUTANT: the settings are resolved again for each mail, and none configured
\* looks like a send.
SetupFor_ReadAgain(p) == setup

\* sendResolved uses the settings the pass began with.
SetupFor(p) == procs[p].setup

SendsAs(p, result) ==
  procs' = [procs EXCEPT ![p].pc = "marking", ![p].result = result, ![p].age = 0]

Accepted(n) == [mails EXCEPT ![n].out = IF @ = 2 THEN 2 ELSE @ + 1]

\* The provider takes the mail.  With no provider at all Send reports success
\* and nothing leaves, which is why the queue must not go through it.
Deliver(p) ==
  /\ procs[p].pc = "sending"
  /\ SetupFor(p) # "wrong"
  /\ SendsAs(p, "sent")
  /\ mails' = IF SetupFor(p) = "good" THEN Accepted(procs[p].mail) ELSE mails
  /\ UNCHANGED <<setup, open, claim, passes, serial, faults, doubtful>>

\* It bounces for good.
Bounce(p) ==
  /\ procs[p].pc = "sending"
  /\ SetupFor(p) = "good"
  /\ SendsAs(p, "bounced")
  /\ mails' = [mails EXCEPT ![procs[p].mail].bounced = TRUE]
  /\ UNCHANGED <<setup, open, claim, passes, serial, faults, doubtful>>

\* A network error, a host that does not answer or a 5xx, at both tries (the
\* immediate retry after three seconds is part of the step); the provider may
\* have taken the mail all the same.
Hiccup(p) ==
  /\ procs[p].pc = "sending"
  /\ SetupFor(p) # "none"
  /\ Fault
  /\ SendsAs(p, "retry")
  /\ \/ UNCHANGED <<mails, doubtful>>
     \/ /\ SetupFor(p) = "good"
        /\ mails' = Accepted(procs[p].mail)
        /\ doubtful' = TRUE
  /\ UNCHANGED <<setup, open, claim, passes, serial>>

\* Wrong credentials, or a sender the provider does not allow: nothing the mail
\* can help, and no attempt of it is used up.  (Wrong settings whose host does
\* not answer are a Hiccup.)
Reject(p) ==
  /\ procs[p].pc = "sending"
  /\ SetupFor(p) = "wrong"
  /\ SendsAs(p, "defer")
  /\ UNCHANGED <<setup, open, claim, passes, mails, serial, faults, doubtful>>

\* The marking statements are keyed by the claim token.
HeldBy(p) == mails[procs[p].mail].holder = p

\* MarkEmailSent, MarkEmailFailedPermanent, MarkEmailFailed, MarkEmailDeferred.
MarkedSent(m) == [m EXCEPT !.status = "sent", !.attempts = @ + 1, !.body = FALSE]

GivenUp(m) == [m EXCEPT !.status = "failed", !.attempts = @ + 1, !.holder = Nobody, !.body = FALSE]

MarkedFailed(m) ==
  IF m.attempts + 1 >= MaxAttempts
  THEN GivenUp(m)
  ELSE [m EXCEPT !.status = "pending", !.attempts = @ + 1, !.due = 2 ^ m.attempts, !.holder = Nobody]

MarkedDeferred(m) == [m EXCEPT !.status = "pending", !.due = Lease, !.holder = Nobody]

Marked(m, result) ==
  CASE result = "sent" -> MarkedSent(m)
    [] result = "bounced" -> GivenUp(m)
    [] result = "retry" -> MarkedFailed(m)
    [] result = "defer" -> MarkedDeferred(m)

\* MUTANT: the claim stays closed.
Reopened_Never(p) == claim

\* MarkEmailFailed opens the claim of a reminder it gives up on, if it still
\* is the one that queued the mail.
Reopened(p) ==
  LET n == procs[p].mail
  IN  IF /\ procs[p].result = "retry"
         /\ MarkedFailed(mails[n]).status = "failed"
         /\ n # 0
         /\ claim.token = n
      THEN [claim EXCEPT !.sent = FALSE, !.age = ClaimLease + 1]
      ELSE claim

Mark(p) ==
  /\ procs[p].pc = "marking"
  /\ IF HeldBy(p)
     THEN /\ mails' = [mails EXCEPT ![procs[p].mail] = Marked(@, procs[p].result)]
          /\ claim' = Reopened(p)
     ELSE UNCHANGED <<mails, claim>>
  /\ procs' = [procs EXCEPT ![p] = [IdleProc EXCEPT !.pc = "ready", !.setup = procs[p].setup,
                                                     !.left = procs[p].left]]
  /\ UNCHANGED <<setup, open, passes, serial, faults, doubtful>>

\* The replica stops, or the marking fails: the mail is left to its lease.
LoseProc(p) ==
  /\ procs[p].pc \in {"sending", "marking"}
  /\ Fault
  /\ procs' = [procs EXCEPT ![p] = IdleProc]
  /\ doubtful' = TRUE
  /\ UNCHANGED <<setup, open, claim, passes, mails, serial>>

-----------------------------------------------------------------------------
(***************************************************************************)
(* The settings, and time                                                  *)
(***************************************************************************)

ChangeSetup ==
  /\ Fault
  /\ setup' \in Setups \ {setup}
  /\ UNCHANGED <<open, claim, passes, mails, procs, serial, doubtful>>

\* The licence ends, is extended to another date or stopped, or a window inside
\* this one is reached.  Only a pass that could claim looks (ClaimNotification), so
\* a window that closes while the claim is taken closes when it is to be had again.
WindowCloses ==
  /\ open
  /\ Winnable
  /\ open' = FALSE
  /\ UNCHANGED <<setup, claim, passes, mails, procs, serial, faults, doubtful>>

\* A pass, or a processor with a result to write, is held up past its lease.
HoldUpPass(q) ==
  /\ passes[q].pc # "idle"
  /\ ~passes[q].heldUp
  /\ Fault
  /\ passes' = [passes EXCEPT ![q].heldUp = TRUE]
  /\ UNCHANGED <<setup, open, claim, mails, procs, serial, doubtful>>

HoldUpProc(p) ==
  /\ procs[p].pc = "marking"
  /\ ~procs[p].heldUp
  /\ Fault
  /\ procs' = [procs EXCEPT ![p].heldUp = TRUE]
  /\ UNCHANGED <<setup, open, claim, passes, mails, serial, doubtful>>

PassLimit(q) == IF passes[q].heldUp THEN ClaimLease + 1 ELSE 0

ProcLimit(p) ==
  CASE procs[p].pc = "sending" -> SendTime
    [] procs[p].heldUp -> Lease + 1
    [] OTHER -> 0

Tick ==
  /\ \A q \in Passes : passes[q].pc # "idle" => passes[q].age < PassLimit(q)
  /\ \A p \in Processors : procs[p].pc # "idle" => procs[p].age < ProcLimit(p)
  /\ claim' = IF claim.token = 0 \/ claim.age > ClaimLease THEN claim ELSE [claim EXCEPT !.age = @ + 1]
  /\ passes' = [q \in Passes |->
       IF passes[q].pc = "idle" THEN IdlePass ELSE [passes[q] EXCEPT !.age = @ + 1]]
  /\ mails' = [n \in Mails |-> [mails[n] EXCEPT !.due = IF @ = 0 THEN 0 ELSE @ - 1]]
  /\ procs' = [p \in Processors |->
       IF procs[p].pc = "idle" THEN IdleProc ELSE [procs[p] EXCEPT !.age = @ + 1]]
  /\ UNCHANGED <<setup, open, serial, faults, doubtful>>

Next ==
  \/ \E q \in Passes :
       \/ ClaimNotification(q) \/ Enqueue(q) \/ EnqueueFails(q)
       \/ ReleaseNotification(q) \/ LosePass(q) \/ HoldUpPass(q)
  \/ \E p \in Processors :
       \/ StartQueue(p) \/ EndQueue(p) \/ \E n \in Mails : ClaimNextEmail(p, n)
       \/ Deliver(p) \/ Bounce(p) \/ Hiccup(p) \/ Reject(p) \/ Mark(p) \/ LoseProc(p)
       \/ HoldUpProc(p)
  \/ ChangeSetup
  \/ WindowCloses
  \/ Tick

\* Each replica's loops go on: the pass every hour, the queue every 30 seconds,
\* and a step once begun ends.
Fairness ==
  /\ WF_vars(Tick)
  /\ \A q \in Passes :
       WF_vars(ClaimNotification(q) \/ Enqueue(q) \/ ReleaseNotification(q))
  /\ \A p \in Processors :
       /\ WF_vars(StartQueue(p) \/ EndQueue(p) \/ \E n \in Mails : ClaimNextEmail(p, n))
       /\ WF_vars(Deliver(p) \/ Bounce(p) \/ Reject(p))
       /\ WF_vars(Mark(p))

Spec == Init /\ [][Next]_vars /\ Fairness

-----------------------------------------------------------------------------
(***************************************************************************)
(* Properties                                                              *)
(***************************************************************************)

Live(n) == mails[n].status \in {"pending", "sent"}

\* A reminder has one mail that is queued or sent: two replicas, a crash
\* between claim and queue, or a commit nobody learnt of never make two.  And
\* a mail goes out once, unless a sender was lost or stalled, or the provider
\* took it without saying so.
MailedOnce ==
  /\ TypeOK
  /\ \A m, n \in Tokens : Live(m) /\ Live(n) => m = n
  /\ ~doubtful => \A n \in Mails : mails[n].out <= 1

\* A mail marked sent was accepted by a provider, whatever happened to the
\* settings while the queue was being worked through; and its text, which may
\* carry a licence key, is there for every attempt and gone once nobody will
\* send it again.
SentMeansAccepted ==
  \A n \in Mails : /\ mails[n].status = "sent" => mails[n].out > 0
                   /\ mails[n].body <=> mails[n].status = "pending"

\* A reminder reaches the customer, or bounces for good, when the settings are
\* right in the end and stops, failed sends and hosts that do not answer are
\* finitely many.  It is given up only with the window: no pass claims it once
\* that has closed, but a mail queued by then still goes out, or is given up
\* after its attempts.
ReminderGoesOut ==
  <>[](setup = "good") =>
    <>(\/ \E n \in Tokens : mails[n].bounced \/ mails[n].out > 0
       \/ ~open /\ \A n \in Tokens : mails[n].status # "pending")
=============================================================================
