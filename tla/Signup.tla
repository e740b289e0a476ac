-------------------------------- MODULE Signup --------------------------------
(***************************************************************************)
(* Self sign-up (handler/self_signup.go, store/self_signup.go): visitors    *)
(* with a checked login code claim a licence on a free plan, one for each   *)
(* address and so many a day, while operators close and reopen the plan,    *)
(* change its cap and midnight passes.  The code itself is in Codes.        *)
(***************************************************************************)
EXTENDS Naturals, FiniteSets, FiniteSetsExt

CONSTANTS
  Claims,     \* calls of SignupVerify
  Emails,
  Caps,       \* signup_daily_cap values; 0 is no cap
  MaxDay,     \* bound: midnights
  MaxEdits    \* bound: plan edits

SignupAssumption == Caps \subseteq Nat /\ MaxDay \in Nat /\ MaxEdits \in Nat

VARIABLES
  day,
  plan,       \* the plan: open to self sign-up, its cap
  claims,     \* call -> where it stands, its address, the count it was shown
  licences,   \* licences claimed: one record each
  accounts,   \* addresses with an account
  caps,       \* history: caps in force today
  edits

vars == <<day, plan, claims, licences, accounts, caps, edits>>

PlanType == [open : BOOLEAN, cap : Caps]
LicenceType == [email : Emails, day : 0..MaxDay, of : Claims]

TypeOK ==
  /\ day \in 0..MaxDay /\ plan \in PlanType /\ licences \subseteq LicenceType
  /\ claims \in [Claims -> [pc : {"new", "find", "create", "login", "done"}, email : Emails, count : Nat]]
  /\ accounts \subseteq Emails /\ caps \subseteq Caps /\ edits \in 0..MaxEdits

Init ==
  /\ day = 0 /\ plan \in {[open |-> TRUE, cap |-> c] : c \in Caps}
  /\ \E e \in Emails : claims = [c \in Claims |-> [pc |-> "new", email |-> e, count |-> 0]]
  /\ licences = {} /\ accounts = {} /\ caps = {plan.cap} /\ edits = 0

-----------------------------------------------------------------------------
CountSelfSignupsToday == Cardinality({l \in licences : l.day = day})
Holds(e) == \E l \in licences : l.email = e
ClaimTo(c, pc) == claims' = [claims EXCEPT ![c].pc = pc]

\* signupPlan, and the count SignupSend took as a hint: a code mailed for a
\* login serves as well, so it refuses nobody for certain.
OpenPlan(c, e) ==
  /\ claims[c].pc = "new"
  /\ claims' = [claims EXCEPT ![c] = [pc |-> IF plan.open THEN "find" ELSE "done", email |-> e, count |-> CountSelfSignupsToday]]
  /\ UNCHANGED <<day, plan, licences, accounts, caps, edits>>

\* A second claim signs in to the first one's licence.
FindSelfSignupLicense(c) ==
  /\ claims[c].pc = "find"
  /\ ClaimTo(c, IF Holds(claims[c].email) THEN "login" ELSE "create")
  /\ UNCHANGED <<day, plan, licences, accounts, caps, edits>>

\* MUTANT: the count read before the lock decides.
Room_Hint(c) == plan.cap > 0 => claims[c].count < plan.cap

Room(c) == plan.cap > 0 => CountSelfSignupsToday < plan.cap

\* One transaction under the product's lock, which holds the plan: still open,
\* the address's first, and within the cap.
CreateSelfSignupLicense(c) ==
  LET e == claims[c].email IN
  /\ claims[c].pc = "create"
  /\ \/ /\ plan.open /\ ~Holds(e) /\ Room(c)
        /\ licences' = licences \cup {[email |-> e, day |-> day, of |-> c]}
        /\ ClaimTo(c, "login")
     \/ plan.open /\ Holds(e) /\ ClaimTo(c, "login") /\ UNCHANGED licences        \* signInExisting
     \/ (plan.open => ~Holds(e) /\ ~Room(c)) /\ ClaimTo(c, "done") /\ UNCHANGED licences
  /\ UNCHANGED <<day, plan, accounts, caps, edits>>

\* The account is made once the address holds a licence; a sign-in that fails
\* leaves the licence.
LoginUser(c) ==
  /\ claims[c].pc = "login"
  /\ ClaimTo(c, "done")
  /\ \E in \in BOOLEAN : accounts' = IF in THEN accounts \cup {claims[c].email} ELSE accounts
  /\ UNCHANGED <<day, plan, licences, caps, edits>>

-----------------------------------------------------------------------------
EditPlan(open, cap) ==
  /\ edits < MaxEdits /\ [open |-> open, cap |-> cap] # plan
  /\ plan' = [open |-> open, cap |-> cap]
  /\ caps' = caps \cup {cap} /\ edits' = edits + 1
  /\ UNCHANGED <<day, claims, licences, accounts>>

Midnight ==
  /\ day < MaxDay
  /\ day' = day + 1 /\ caps' = {plan.cap}
  /\ UNCHANGED <<plan, claims, licences, accounts, edits>>

Next ==
  \/ \E c \in Claims : (\E e \in Emails : OpenPlan(c, e)) \/ FindSelfSignupLicense(c) \/ CreateSelfSignupLicense(c) \/ LoginUser(c)
  \/ \E open \in BOOLEAN, cap \in Caps : EditPlan(open, cap)
  \/ Midnight

Spec == Init /\ [][Next]_vars

-----------------------------------------------------------------------------
\* However many confirmations arrive at once, beside a plan edited or closed
\* meanwhile: an address claims one licence, a day takes no more claims than
\* the largest cap it had, and a refused claim leaves no account behind
\* (CreateSelfSignupLicense, SignupVerify).
ClaimsAreLimited ==
  /\ \A l, m \in licences : l.email = m.email => l = m
  /\ 0 \notin caps => CountSelfSignupsToday <= Max(caps)
  /\ \A e \in accounts : Holds(e)

-----------------------------------------------------------------------------
\* The plan's cap is one of the day's, which have a largest; no licence is
\* from a day to come; and a visitor signs in to a licence that is there.
Claimed ==
  /\ plan.cap \in caps /\ \E m \in caps : \A c \in caps : c <= m
  /\ IsFiniteSet(licences) /\ \A l \in licences : l.day <= day
  /\ \A c \in Claims : claims[c].pc = "login" => Holds(claims[c].email)

SignupInv == TypeOK /\ ClaimsAreLimited /\ Claimed
=============================================================================
