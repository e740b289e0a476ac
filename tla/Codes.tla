-------------------------------- MODULE Codes --------------------------------
(***************************************************************************)
(* Login codes of one address (handler/otp.go, store.go's OTP codes):      *)
(* requests for a code, and bursts of guesses at the newest one.  Each     *)
(* database call of a request is a step, so that requests interleave.      *)
(***************************************************************************)
EXTENDS Naturals, Sequences, FiniteSets, FiniteSetsExt

CONSTANTS
  Sends,            \* requests for a code
  Guesses,          \* requests that present one
  MaxOTPAttempts,   \* guesses one code allows
  MaxRecent         \* codes asked for in ten minutes

CodesAssumption == IsFiniteSet(Guesses) /\ MaxOTPAttempts \in Nat

VARIABLES
  codes,     \* otp_codes, oldest first; a code's place stands for its digits
  sends,     \* request -> where it stands
  guesses,   \* request -> where it stands, the code it found, the digits it presents
  open       \* signup_mode lets this address sign up, or it is known

vars == <<codes, sends, guesses, open>>

\* compared and sessions are history: guesses compared with the code, and
\* sign-ins it gave.
CodeType == [real : BOOLEAN, used : BOOLEAN, expired : BOOLEAN, attempts : 0..MaxOTPAttempts,
             compared : Nat, sessions : Nat]
NoCode == 0

GuessType == [pc : {"new", "claim", "compare", "consume", "gate", "done"}, code : Nat, digits : Nat]

TypeOK ==
  /\ codes \in Seq(CodeType)
  /\ sends \in [Sends -> {"new", "gate", "real", "blocked", "done"}]
  /\ guesses \in [Guesses -> GuessType]
  /\ \A g \in Guesses : {guesses[g].code, guesses[g].digits} \subseteq {NoCode} \cup DOMAIN codes
  /\ open \in BOOLEAN

Init ==
  /\ codes = <<>> /\ sends = [s \in Sends |-> "new"]
  /\ guesses = [g \in Guesses |-> [pc |-> "new", code |-> NoCode, digits |-> NoCode]]
  /\ open \in BOOLEAN

-----------------------------------------------------------------------------
(* sendCode.  An address that may not sign up leaves a code no digits      *)
(* match.                                                                  *)

CountRecentOTPCodes(s) ==
  /\ sends[s] = "new"
  /\ sends' = [sends EXCEPT ![s] = IF Len(SelectSeq(codes, LAMBDA c : ~c.expired)) >= MaxRecent THEN "done" ELSE "gate"]
  /\ UNCHANGED <<codes, guesses, open>>

SignupAllowed(s) ==
  /\ sends[s] = "gate"
  /\ sends' = [sends EXCEPT ![s] = IF open THEN "real" ELSE "blocked"]
  /\ UNCHANGED <<codes, guesses, open>>

CreateOTPCode(s) ==
  /\ sends[s] \in {"real", "blocked"}
  /\ codes' = Append(codes, [real |-> sends[s] = "real", used |-> FALSE, expired |-> FALSE, attempts |-> 0, compared |-> 0, sessions |-> 0])
  /\ sends' = [sends EXCEPT ![s] = "done"]
  /\ UNCHANGED <<guesses, open>>

-----------------------------------------------------------------------------
(* OTPVerify and checkCode.                                                *)

Valid(c) == ~c.used /\ ~c.expired /\ c.attempts < MaxOTPAttempts

\* The digits are those of a code mailed earlier, or wrong.
FindLatestValidOTPCode(g, digits) ==
  LET valid == {k \in DOMAIN codes : Valid(codes[k])} IN
  /\ guesses[g].pc = "new"
  /\ guesses' = [guesses EXCEPT ![g] = [pc |-> IF valid = {} THEN "done" ELSE "claim",
                                        code |-> IF valid = {} THEN NoCode ELSE Max(valid), digits |-> digits]]
  /\ UNCHANGED <<codes, sends, open>>

\* MUTANT: the claim relies on what the search saw.
Claimable_Found(c) == TRUE

\* ClaimOTPAttempt's condition, in the statement that counts.
Claimable(c) == Valid(c)

ClaimOTPAttempt(g) ==
  LET k == guesses[g].code IN
  /\ guesses[g].pc = "claim"
  /\ \/ /\ Claimable(codes[k])
        /\ codes' = [codes EXCEPT ![k].attempts = Min({@ + 1, MaxOTPAttempts})]
        /\ guesses' = [guesses EXCEPT ![g].pc = "compare"]
     \/ ~Claimable(codes[k]) /\ guesses' = [guesses EXCEPT ![g].pc = "done"] /\ UNCHANGED codes
  /\ UNCHANGED <<sends, open>>

CompareCode(g) ==
  LET k == guesses[g].code
      match == codes[k].real /\ guesses[g].digits = k
  IN
  /\ guesses[g].pc = "compare"
  /\ codes' = [codes EXCEPT ![k].compared = @ + 1]
  /\ guesses' = [guesses EXCEPT ![g].pc = IF match THEN "consume" ELSE "done"]
  /\ UNCHANGED <<sends, open>>

ConsumeOTPCode(g) ==
  LET k == guesses[g].code IN
  /\ guesses[g].pc = "consume"
  /\ codes' = [codes EXCEPT ![k].used = TRUE]
  /\ guesses' = [guesses EXCEPT ![g].pc = IF codes[k].used THEN "done" ELSE "gate"]
  /\ UNCHANGED <<sends, open>>

\* The gate again, then loginUser and startSession.
StartSession(g) ==
  /\ guesses[g].pc = "gate"
  /\ codes' = IF open THEN [codes EXCEPT ![guesses[g].code].sessions = @ + 1] ELSE codes
  /\ guesses' = [guesses EXCEPT ![g].pc = "done"]
  /\ UNCHANGED <<sends, open>>

-----------------------------------------------------------------------------
\* Ten minutes pass for a code.
Expires(k) ==
  /\ k \in DOMAIN codes /\ ~codes[k].expired
  /\ codes' = [codes EXCEPT ![k].expired = TRUE]
  /\ UNCHANGED <<sends, guesses, open>>

\* The operator switches signup_mode.
SwitchSignupMode == open' = ~open /\ UNCHANGED <<codes, sends, guesses>>

Next ==
  \/ \E s \in Sends : CountRecentOTPCodes(s) \/ SignupAllowed(s) \/ CreateOTPCode(s)
  \/ \E g \in Guesses :
       \/ \E digits \in {NoCode} \cup DOMAIN codes : FindLatestValidOTPCode(g, digits)
       \/ ClaimOTPAttempt(g) \/ CompareCode(g) \/ ConsumeOTPCode(g) \/ StartSession(g)
  \/ \E k \in DOMAIN codes : Expires(k)
  \/ SwitchSignupMode

Spec == Init /\ [][Next]_vars

-----------------------------------------------------------------------------
\* However many guesses arrive at once, a code is compared with at most
\* MaxOTPAttempts of them and signs in one of those that carry it
\* (ClaimOTPAttempt, ConsumeOTPCode).
CodesAreSpent == \A k \in DOMAIN codes : codes[k].compared <= MaxOTPAttempts /\ codes[k].sessions <= 1

-----------------------------------------------------------------------------
At(g, pc, k) == guesses[g].pc = pc /\ guesses[g].code = k
Comparing(k) == {g \in Guesses : At(g, "compare", k)}

\* Each guess compared, or about to be, has its attempt; a code that is not
\* used has signed nobody in, and one guess at most is about to sign in with
\* it.
SpentAt(k) ==
  /\ codes[k].compared + Cardinality(Comparing(k)) <= codes[k].attempts
  /\ ~codes[k].used => codes[k].sessions = 0 /\ \A g \in Guesses : ~At(g, "gate", k)
  /\ \A g \in Guesses : At(g, "gate", k) => codes[k].sessions = 0
  /\ \A g, h \in Guesses : At(g, "gate", k) /\ At(h, "gate", k) => g = h
  /\ codes[k].sessions <= 1
Spent ==
  /\ \A g \in Guesses : guesses[g].pc \notin {"new", "done"} => guesses[g].code # NoCode
  /\ \A k \in DOMAIN codes : SpentAt(k)

CodesInv == TypeOK /\ Spent
=============================================================================
