-------------------------------- MODULE Tokens --------------------------------
(***************************************************************************)
(* Refresh tokens (store.go's RenewRefreshToken, handler/oauth.go's        *)
(* Refresh): the tabs of one browser share a cookie and renew it, each one *)
(* at a time, retrying when no answer came (web/src/lib/api.ts, useAuth).  *)
(* Requests and answers are slow, lost, and arrive in any order.           *)
(***************************************************************************)
EXTENDS Naturals, Sequences, FiniteSetsExt

CONSTANTS
  Tabs,
  Grace,       \* RefreshReuseGrace
  Delay,       \* the longest a request, an answer or the wait before a retry takes
  MaxLosses,   \* bound: answers lost, and failed retries of one that was
  MaxTime,     \* bound: the clock
  MaxTokens    \* bound: tokens issued

\* The grace covers the answers and retries that may be lost: each loss costs
\* three delays, and another tab's renewal two more.
TokensAssumption ==
  /\ Delay \in Nat /\ MaxLosses \in Nat /\ MaxTime \in Nat /\ Grace \in Nat
  /\ (3 * MaxLosses + 2) * Delay < Grace

VARIABLES
  now,        \* the database clock
  tokens,     \* refresh_tokens in the order they were issued
  jar,        \* the browser's refresh cookie
  tabs,       \* tab -> its renewal
  alarm,      \* a token was taken for stolen: every token of the user goes
  losses,     \* history: answers lost, and failed retries
  closed      \* history: the browser was closed on a renewal and never retried it

vars == <<now, tokens, jar, tabs, alarm, losses, closed>>

None == 0
Never == MaxTime + 1

TokenType == [deleted : BOOLEAN, rotatedAt : 0..Never]
TabType == [pc : {"idle", "sent", "reuse", "answered", "retry"}, token : Nat, answer : Nat, since : 0..MaxTime]

TypeOK ==
  /\ now \in 0..MaxTime
  /\ tokens \in Seq(TokenType)
  /\ jar \in {None} \cup DOMAIN tokens
  /\ tabs \in [Tabs -> TabType]
  /\ \A t \in Tabs : /\ {tabs[t].token, tabs[t].answer} \subseteq {None} \cup DOMAIN tokens
                     /\ tabs[t].pc = "sent" => tabs[t].token # None
  /\ alarm \in BOOLEAN /\ losses \in 0..MaxLosses /\ closed \in BOOLEAN

IdleTab == [pc |-> "idle", token |-> None, answer |-> None, since |-> 0]

\* The browser has just signed in (issueSession).
Init ==
  /\ now = 0 /\ tokens = <<[deleted |-> FALSE, rotatedAt |-> Never]>> /\ jar = 1
  /\ tabs = [t \in Tabs |-> IdleTab] /\ alarm = FALSE /\ losses = 0 /\ closed = FALSE

-----------------------------------------------------------------------------
At(t, pc) == tabs[t].pc = pc
TabTo(t, pc, token, answer) ==
  tabs' = [tabs EXCEPT ![t] = [pc |-> pc, token |-> token, answer |-> answer, since |-> now]]

\* A call answered 401: the page renews its session (refreshSession).
Send(t) ==
  /\ At(t, "idle") /\ jar # None /\ Len(tokens) < MaxTokens
  /\ TabTo(t, "sent", jar, None)
  /\ UNCHANGED <<now, tokens, jar, alarm, losses, closed>>

Rotated(k) == tokens[k].rotatedAt # Never
InGrace(k) == now - tokens[k].rotatedAt < Grace

\* MUTANT: a renewal within the grace gets a session and no new token.
Issued_Session(k) == IF Rotated(k) THEN tokens ELSE Append([tokens EXCEPT ![k].rotatedAt = now], [deleted |-> FALSE, rotatedAt |-> Never])

\* The token presented is rotated, unless it was, and a new one is issued.
Issued(k) ==
  Append(IF Rotated(k) THEN tokens ELSE [tokens EXCEPT ![k].rotatedAt = now],
         [deleted |-> FALSE, rotatedAt |-> Never])

\* RenewRefreshToken, one transaction; no row is a plain 401 that leaves the
\* cookie.
RenewRefreshToken(t) ==
  LET k == tabs[t].token IN
  /\ At(t, "sent") /\ UNCHANGED <<now, jar, losses, closed>>
  /\ \/ /\ ~tokens[k].deleted /\ (Rotated(k) => InGrace(k))
        /\ tokens' = Issued(k)
        /\ TabTo(t, "answered", None, IF Len(tokens') > Len(tokens) THEN Len(tokens') ELSE k)
        /\ UNCHANGED alarm
     \/ /\ ~tokens[k].deleted /\ Rotated(k) /\ ~InGrace(k)
        /\ alarm' = TRUE /\ TabTo(t, "reuse", None, None)
        /\ UNCHANGED tokens
     \/ /\ tokens[k].deleted
        /\ tabs' = [tabs EXCEPT ![t] = IdleTab]
        /\ UNCHANGED <<tokens, alarm>>

\* Refresh after a reuse: every token of the user goes, and so does the cookie.
DeleteUserRefreshTokens(t) ==
  /\ At(t, "reuse")
  /\ tokens' = [k \in DOMAIN tokens |-> [tokens[k] EXCEPT !.deleted = TRUE]]
  /\ TabTo(t, "answered", None, None)
  /\ UNCHANGED <<now, jar, alarm, losses, closed>>

\* The request was lost, or the database failed (5xx): nothing changed.
RenewalFails(t) ==
  /\ At(t, "sent")
  /\ \/ ~Rotated(tabs[t].token) /\ UNCHANGED losses
     \/ Rotated(tabs[t].token) /\ losses < MaxLosses /\ losses' = losses + 1
  /\ TabTo(t, "retry", None, None)
  /\ UNCHANGED <<now, tokens, jar, alarm, closed>>

\* The answer arrives and sets the cookie.
Answered(t) ==
  /\ At(t, "answered")
  /\ jar' = tabs[t].answer
  /\ tabs' = [tabs EXCEPT ![t] = IdleTab]
  /\ UNCHANGED <<now, tokens, alarm, losses, closed>>

AnswerLost(t) ==
  /\ At(t, "answered") /\ losses < MaxLosses
  /\ losses' = losses + 1
  /\ TabTo(t, "retry", None, None)
  /\ UNCHANGED <<now, tokens, jar, alarm, closed>>

\* AuthProvider, whose page asks who is signed in, tries again after a while
\* (2 s, 4 s, ... 30 s), with the cookie the browser has by then.  A call of
\* any other page is not tried again (Close).
Retry(t) ==
  /\ At(t, "retry")
  /\ IF jar = None THEN tabs' = [tabs EXCEPT ![t] = IdleTab] ELSE TabTo(t, "sent", jar, None)
  /\ UNCHANGED <<now, tokens, jar, alarm, losses, closed>>

\* The page goes away, or gives up, before an answer came; the cookie stays.
Close(t) ==
  /\ tabs[t].pc \in {"answered", "retry"}
  /\ tabs' = [tabs EXCEPT ![t] = IdleTab]
  /\ closed' = TRUE
  /\ UNCHANGED <<now, tokens, jar, alarm, losses>>

\* Time passes; what is under way is done within its delay.
Tick ==
  /\ now < MaxTime
  /\ \A t \in Tabs : At(t, "idle") \/ now < tabs[t].since + Delay
  /\ now' = now + 1
  /\ UNCHANGED <<tokens, jar, tabs, alarm, losses, closed>>

\* Logout, from any tab: the user's tokens and the cookie go.
Logout ==
  /\ jar # None
  /\ tokens' = [k \in DOMAIN tokens |-> [tokens[k] EXCEPT !.deleted = TRUE]]
  /\ jar' = None
  /\ UNCHANGED <<now, tabs, alarm, losses, closed>>

Next ==
  \/ \E t \in Tabs : \/ Send(t) \/ RenewRefreshToken(t) \/ DeleteUserRefreshTokens(t) \/ RenewalFails(t)
                     \/ Answered(t) \/ AnswerLost(t) \/ Retry(t) \/ Close(t)
  \/ Tick \/ Logout

Spec == Init /\ [][Next]_vars

-----------------------------------------------------------------------------
\* Tabs that renew together, renewals that fail and answers that are lost and
\* retried never look like theft (RefreshReuseGrace), and leave the browser a
\* cookie that a quiet day later still renews, unless it was closed meanwhile.
RidesOutLosses ==
  ~closed =>
    /\ ~alarm
    /\ (\A t \in Tabs : At(t, "idle")) /\ jar # None => ~Rotated(jar)

-----------------------------------------------------------------------------
\* The time losses have cost so far.
Lost == 3 * Delay * losses

\* t's renewal still replaces the cookie, which was rotated at its time: soon,
\* for the losses there were.
Replaces(t) ==
  LET rotated == tokens[jar].rotatedAt IN
  \/ At(t, "answered") /\ tabs[t].since <= rotated + Lost
  \/ At(t, "retry") /\ tabs[t].since + 2 * Delay <= rotated + Lost
  \/ At(t, "sent") /\ tabs[t].token = jar /\ tabs[t].since + Delay <= rotated + Lost

Timely(t) == At(t, "idle") \/ (tabs[t].since <= now /\ now <= tabs[t].since + Delay)

\* A token presented was rotated not long before the request, or after it.
Fresh(t) ==
  Rotated(tabs[t].token) => tabs[t].since <= tokens[tabs[t].token].rotatedAt + Lost + Delay

\* A token on its way to the browser is nowhere else yet.
Unseen(t) ==
  /\ tabs[t].answer # None /\ ~Rotated(tabs[t].answer) /\ tabs[t].answer # jar
  /\ \A s \in Tabs : /\ At(s, "sent") => tabs[s].token # tabs[t].answer
                     /\ s # t /\ At(s, "answered") => tabs[s].answer # tabs[t].answer

Riding ==
  /\ ~alarm
  /\ \A t \in Tabs : /\ ~At(t, "reuse") /\ Timely(t)
                     /\ At(t, "sent") => Fresh(t)
                     /\ At(t, "answered") => Unseen(t)
  /\ jar # None /\ Rotated(jar) => ~tokens[jar].deleted /\ \E t \in Tabs : Replaces(t)

TokensInv == TypeOK /\ (~closed => Riding)
=============================================================================
