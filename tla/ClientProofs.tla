---------------------------- MODULE ClientProofs ----------------------------
(***************************************************************************)
(* Proofs about the web client: its sessions (Sessions) and dragging on the *)
(* board (BoardDrag), for any number of tabs, calls, cards and drags.      *)
(***************************************************************************)
EXTENDS Sessions, BoardDrag, FiniteSetTheorems, TLAPS

-----------------------------------------------------------------------------
(* Sessions: one that was logged out stays out.                            *)

\* Tokens and secrets are numbered as they are issued, and no row is of a session
\* still to come.
Numbered ==
    /\ made \in Nat
    /\ \E n \in Nat : DOMAIN tokens = 1..n
    /\ DOMAIN rows \subseteq 1..made

\* A list numbered from 1 on is as long as it has numbers.
LEMMA LengthOfNumbered ==
    ASSUME NEW f, NEW n \in Nat, DOMAIN f = 1..n
    PROVE  LenOf(f) = n
BY FS_Interval DEF LenOf

\* Extending adds one number, and leaves what is there.
LEMMA ExtendedByOne ==
    ASSUME NEW f, NEW n \in Nat, DOMAIN f = 1..n, NEW x
    PROVE  DOMAIN Extended(f, x) = 1..(n + 1) /\ Extended(f, x)[n + 1] = x
BY LengthOfNumbered DEF Extended

LEMMA NumberedAtFirst == SessionsInit => Numbered
<1> SUFFICES ASSUME SessionsInit PROVE Numbered
  OBVIOUS
<1>1. DOMAIN tokens = 1..0
  BY DEF SessionsInit
<1>2. DOMAIN rows = {}
  BY DEF SessionsInit
<1> QED
  BY <1>1, <1>2 DEF SessionsInit, Numbered

\* A step that issues a token for session s.
LEMMA IssueNumbers ==
    ASSUME Numbered, NEW s, Issue(s)
    PROVE  /\ \E n \in Nat : DOMAIN tokens' = 1..n
           /\ \A k \in DOMAIN tokens' \ DOMAIN tokens : tokens'[k] = s
<1> PICK n \in Nat : DOMAIN tokens = 1..n
  BY DEF Numbered
<1>1. tokens' = Extended(tokens, s)
  BY DEF Issue
<1>2. DOMAIN tokens' = 1..(n + 1) /\ tokens'[n + 1] = s
  BY <1>1, ExtendedByOne
<1> QED
  BY <1>2

\* What a step does to rows and tokens: it adds the session that comes next, or
\* rotates one that is there, or removes some, and issues at most one token, for
\* the session it wrote.
StaysOut == \A s \in 1..made : s \notin DOMAIN rows =>
                s \notin DOMAIN rows' /\ ~\E k \in DOMAIN tokens' \ DOMAIN tokens : tokens'[k] = s

LEMMA LoginStaysOut ==
    ASSUME Numbered, NEW t \in Tabs, Login(t)
    PROVE  Numbered' /\ StaysOut
<1>1. Issue(made + 1) /\ made' = made + 1 /\ DOMAIN rows' = DOMAIN rows \cup {made + 1}
  BY DEF Login
<1>2. /\ \E n \in Nat : DOMAIN tokens' = 1..n
      /\ \A k \in DOMAIN tokens' \ DOMAIN tokens : tokens'[k] = made + 1
  BY <1>1, IssueNumbers
<1> QED
  BY <1>1, <1>2 DEF Numbered, StaysOut

LEMMA RenewalStaysOut ==
    ASSUME Numbered, NEW t \in Tabs, RefreshWrites(t)
    PROVE  Numbered' /\ StaysOut
<1>1. CASE /\ StillThere(refresh[t].sid)
           /\ Issue(refresh[t].sid) /\ rows' = Rotated(refresh[t].sid)
  <2>1. refresh[t].sid \in DOMAIN rows /\ DOMAIN rows' = DOMAIN rows /\ made' = made
    BY <1>1 DEF StillThere, Rotated, RefreshWrites
  <2>2. /\ \E n \in Nat : DOMAIN tokens' = 1..n
        /\ \A k \in DOMAIN tokens' \ DOMAIN tokens : tokens'[k] = refresh[t].sid
    BY <1>1, IssueNumbers
  <2> QED
    BY <2>1, <2>2 DEF Numbered, StaysOut
<1>2. CASE UNCHANGED <<rows, secrets, tokens>>
  BY <1>2 DEF RefreshWrites, Numbered, StaysOut
<1> QED
  BY <1>1, <1>2 DEF RefreshWrites

LEMMA OthersStayOut ==
    ASSUME Numbered, UNCHANGED <<made, tokens>>, DOMAIN rows' \subseteq DOMAIN rows
    PROVE  Numbered' /\ StaysOut
BY DEF Numbered, StaysOut

LEMMA StepStaysOut ==
    ASSUME Numbered, [SessionsNext]_sessionVars
    PROVE  Numbered' /\ StaysOut
<1>1. ASSUME NEW t \in Tabs, Login(t) PROVE Numbered' /\ StaysOut
  BY <1>1, LoginStaysOut
<1>2. ASSUME NEW t \in Tabs, RefreshWrites(t) PROVE Numbered' /\ StaysOut
  BY <1>2, RenewalStaysOut
<1>3. ASSUME NEW t \in Tabs, Logout(t) PROVE Numbered' /\ StaysOut
  <2>1. UNCHANGED <<made, tokens>> /\ DOMAIN rows' \subseteq DOMAIN rows
    BY <1>3 DEF Logout
  <2> QED
    BY <2>1, OthersStayOut
<1>4. ASSUME NEW t \in Tabs,
             \/ Reload(t) \/ RefreshReads(t) \/ RefreshArrives(t) \/ RefreshRefused(t) \/ Lost(t)
      PROVE  Numbered' /\ StaysOut
  <2>1. UNCHANGED <<made, tokens, rows>>
    BY <1>4 DEF Reload, RefreshReads, RefreshArrives, RefreshRefused, Lost
  <2> QED
    BY <2>1, OthersStayOut
<1>5. ASSUME NEW t \in Tabs, NEW c \in Calls, Send(t, c) \/ Answer(t, c)
      PROVE  Numbered' /\ StaysOut
  <2>1. UNCHANGED <<made, tokens, rows>>
    BY <1>5 DEF Send, Answer
  <2> QED
    BY <2>1, OthersStayOut
<1>6. ASSUME NEW k, Expire(k) PROVE Numbered' /\ StaysOut
  <2>1. UNCHANGED <<made, tokens, rows>>
    BY <1>6 DEF Expire
  <2> QED
    BY <2>1, OthersStayOut
<1>7. CASE UNCHANGED sessionVars
  <2>1. UNCHANGED <<made, tokens, rows>>
    BY <1>7 DEF sessionVars
  <2> QED
    BY <2>1, OthersStayOut
<1> QED
  BY <1>1, <1>2, <1>3, <1>4, <1>5, <1>6, <1>7 DEF SessionsNext, Renewal

\* Logging out is for good: whatever renewals had read the row before it went, and
\* however many clients share its cookie, no session comes back and no token is
\* issued for one that is gone.
THEOREM LoggedOutForGood == SessionsSpec => LoggedOutStaysOut
<1>1. Numbered /\ [SessionsNext]_sessionVars => Numbered' /\ [StaysOut]_sessionVars
  BY StepStaysOut
<1> QED
  BY <1>1, NumberedAtFirst, PTL DEF SessionsSpec, LoggedOutStaysOut, StaysOut

-----------------------------------------------------------------------------
(* Sessions: nobody is logged out without a reason.                        *)

Handed(k) == k = None \/ k \in DOMAIN tokens
Phases == {"none", "sent", "read", "granted", "refused"}

\* What holds whatever happens: secrets lead to their rows, and tokens were issued.
TokensInv ==
    /\ \E n \in Nat : DOMAIN secrets = 1..n
    /\ \A s \in DOMAIN rows : rows[s] \in DOMAIN secrets /\ secrets[rows[s]] = s
    /\ expired \subseteq DOMAIN tokens
    /\ Handed(stored) /\ \A t \in Tabs : Handed(held[t])
    /\ DOMAIN held = Tabs /\ DOMAIN refresh = Tabs
    /\ DOMAIN calls = Tabs /\ \A t \in Tabs : DOMAIN calls[t] = Calls
    /\ \A t \in Tabs : refresh[t].phase \in Phases /\ (refresh[t].phase = "none" => refresh[t] = NoRefresh)
    /\ \A t \in Tabs : refresh[t].phase = "granted" => refresh[t].token \in DOMAIN tokens

\* What holds as long as nothing has disturbed the tabs: they share one session, which
\* is there, whose secret is the cookie's unless the answer that brings it is under way.
OneSession ==
    /\ stored # None => tokens[stored] \in DOMAIN rows
    /\ \A t \in Tabs : held[t] # None => stored # None /\ tokens[held[t]] = tokens[stored]
OneRenewal == \A t, o \in Tabs : refresh[t] # NoRefresh /\ refresh[o] # NoRefresh => t = o
CookieFits ==
    stored # None /\ (\A t \in Tabs : refresh[t].phase # "granted") => rows[tokens[stored]] = jar
Renewing(t) ==
    /\ refresh[t].phase # "refused"
    /\ refresh[t] # NoRefresh => held[t] # None
    /\ refresh[t].phase = "sent" => refresh[t].secret = jar
    /\ refresh[t].phase = "read" => refresh[t].sid = tokens[stored]
    /\ refresh[t].phase = "granted" =>
         /\ refresh[t].token \notin expired /\ tokens[refresh[t].token] = tokens[stored]
         /\ rows[tokens[stored]] = refresh[t].secret
Retrying(call) ==
    call.phase = "sent" /\ call.retried => call.token \in DOMAIN tokens \ expired
Calm ==
    /\ OneSession /\ OneRenewal /\ CookieFits
    /\ \A t \in Tabs : Renewing(t) /\ \A c \in Calls : Retrying(calls[t][c])

LoginInv == Numbered /\ TokensInv /\ (~disturbed => Calm)

Longer(f, k, x, g) ==
    /\ k \notin DOMAIN f /\ k # None /\ DOMAIN g = DOMAIN f \cup {k} /\ g[k] = x
    /\ \A i \in DOMAIN f : g[i] = f[i]

LEMMA ListExtended ==
    ASSUME NEW f, NEW n \in Nat, DOMAIN f = 1..n, NEW x, NEW g, g = Extended(f, x)
    PROVE  Longer(f, LenOf(f) + 1, x, g)
<1>1. LenOf(f) = n
  BY LengthOfNumbered
<1>2. g = [i \in 1..(n + 1) |-> IF i > n THEN x ELSE f[i]]
  BY <1>1 DEF Extended
<1> QED
  BY <1>1, <1>2 DEF None, Longer

\* A new secret and a new token for session s.
Issued(s) ==
    /\ NewToken \notin DOMAIN tokens /\ NewToken # None /\ DOMAIN tokens' = DOMAIN tokens \cup {NewToken}
    /\ tokens'[NewToken] = s /\ \A k \in DOMAIN tokens : tokens'[k] = tokens[k]
    /\ NewSecret \notin DOMAIN secrets /\ DOMAIN secrets' = DOMAIN secrets \cup {NewSecret}
    /\ secrets'[NewSecret] = s /\ \A k \in DOMAIN secrets : secrets'[k] = secrets[k]
    /\ \E n \in Nat : DOMAIN secrets' = 1..n

LEMMA IssueIsNew ==
    ASSUME LoginInv, NEW s, Issue(s)
    PROVE  Issued(s)
<1> PICK n \in Nat : DOMAIN tokens = 1..n
  BY DEF LoginInv, Numbered
<1> PICK m \in Nat : DOMAIN secrets = 1..m
  BY DEF LoginInv, TokensInv
<1>1. tokens' = Extended(tokens, s) /\ secrets' = Extended(secrets, s)
  BY DEF Issue
<1>2. PICK g, h : g = tokens' /\ h = secrets'
  OBVIOUS
<1>3. Longer(tokens, NewToken, s, g) /\ Longer(secrets, NewSecret, s, h)
  BY <1>1, <1>2, ListExtended DEF NewToken, NewSecret
<1>4. DOMAIN secrets' = 1..(m + 1)
  BY <1>1, ExtendedByOne
<1> QED
  BY <1>2, <1>3, <1>4 DEF Issued, Longer

LEMMA LoginAtFirst == SessionsInit => LoginInv
<1> SUFFICES ASSUME SessionsInit PROVE LoginInv
  OBVIOUS
<1>1. DOMAIN secrets = 1..0 /\ DOMAIN rows = {} /\ expired = {} /\ stored = None /\ jar = None
  BY DEF SessionsInit
<1>2. /\ DOMAIN held = Tabs /\ DOMAIN refresh = Tabs /\ DOMAIN calls = Tabs
      /\ \A t \in Tabs : held[t] = None /\ refresh[t] = NoRefresh /\ DOMAIN calls[t] = Calls
      /\ \A t \in Tabs : \A c \in Calls : calls[t][c] = Idle
  BY DEF SessionsInit
<1>3. NoRefresh.phase = "none" /\ Idle.phase = "idle"
  BY DEF NoRefresh, Idle
<1>4. TokensInv
  <2>1. \E n \in Nat : DOMAIN secrets = 1..n
    BY <1>1
  <2> QED
    BY <1>1, <1>2, <1>3, <2>1 DEF TokensInv, Handed, Phases
<1>5. Calm
  BY <1>1, <1>2, <1>3 DEF Calm, OneSession, OneRenewal, CookieFits, Renewing, Retrying
<1> QED
  BY <1>4, <1>5, NumberedAtFirst DEF LoginInv

\* Each step keeps both parts.
Kept == TokensInv' /\ (~disturbed' => Calm')

LEMMA ExpireKeeps ==
    ASSUME LoginInv, NEW k, Expire(k)
    PROVE  Kept
<1>1. /\ k \in DOMAIN tokens \ expired /\ expired' = expired \cup {k} /\ disturbed' = (disturbed \/ InFlight(k))
      /\ UNCHANGED <<rows, made, secrets, tokens, jar, stored, held, calls, refresh>>
  BY DEF Expire
<1>2. TokensInv'
  BY <1>1 DEF LoginInv, TokensInv, Handed
<1>3. ASSUME ~disturbed' PROVE Calm'
  <2>1. Calm /\ ~InFlight(k)
    BY <1>1, <1>3 DEF LoginInv
  <2>2. \A t \in Tabs : refresh[t].phase = "granted" => refresh[t].token # k
    BY <2>1 DEF InFlight
  <2>3. \A t \in Tabs : \A c \in Calls : calls[t][c].phase = "sent" /\ calls[t][c].retried => calls[t][c].token # k
    BY <2>1 DEF InFlight
  <2>4. \A t \in Tabs : Renewing(t)'
    BY <1>1, <2>1, <2>2 DEF Calm, Renewing
  <2>5. \A t \in Tabs : \A c \in Calls : Retrying(calls[t][c])'
    BY <1>1, <2>1, <2>3 DEF Calm, Retrying
  <2>6. OneSession' /\ OneRenewal' /\ CookieFits'
    BY <1>1, <2>1 DEF Calm, OneSession, OneRenewal, CookieFits
  <2> QED
    BY <2>4, <2>5, <2>6 DEF Calm
<1> QED
  BY <1>2, <1>3 DEF Kept

LEMMA ReloadKeeps ==
    ASSUME LoginInv, NEW t \in Tabs, Reload(t)
    PROVE  Kept
<1>1. /\ TabQuiet(t) /\ held' = [held EXCEPT ![t] = stored]
      /\ UNCHANGED <<rows, made, secrets, tokens, expired, jar, stored, calls, refresh, disturbed>>
  BY DEF Reload
<1>2. DOMAIN held' = Tabs /\ held'[t] = stored /\ \A o \in Tabs : held'[o] = held[o] \/ o = t
  BY <1>1 DEF LoginInv, TokensInv
<1>3. refresh[t] = NoRefresh
  BY <1>1 DEF TabQuiet
<1>4. TokensInv'
  BY <1>1, <1>2 DEF LoginInv, TokensInv, Handed
<1>5. ASSUME ~disturbed' PROVE Calm'
  <2>1. Calm
    BY <1>1, <1>5 DEF LoginInv
  <2>2. \A o \in Tabs : Renewing(o)'
    BY <1>1, <1>2, <1>3, <2>1 DEF Calm, Renewing
  <2>3. \A o \in Tabs : \A c \in Calls : Retrying(calls[o][c])'
    BY <1>1, <2>1 DEF Calm, Retrying
  <2>4. OneSession' /\ OneRenewal' /\ CookieFits'
    BY <1>1, <1>2, <2>1 DEF Calm, OneSession, OneRenewal, CookieFits
  <2> QED
    BY <2>2, <2>3, <2>4 DEF Calm
<1> QED
  BY <1>4, <1>5 DEF Kept

LEMMA LoginKeeps ==
    ASSUME LoginInv, NEW t \in Tabs, Login(t)
    PROVE  Kept
<1>1. /\ held[t] = None /\ TabQuiet(t) /\ made' = made + 1
      /\ rows' = [s \in DOMAIN rows \cup {made + 1} |-> IF s = made + 1 THEN NewSecret ELSE rows[s]]
      /\ jar' = NewSecret /\ held' = [held EXCEPT ![t] = NewToken] /\ stored' = NewToken
      /\ disturbed' = (disturbed \/ SharesCookie(t))
      /\ UNCHANGED <<expired, calls, refresh>>
  BY DEF Login, Keep
<1>2. Issued(made + 1)
  BY IssueIsNew DEF Login
<1>3. DOMAIN held' = Tabs /\ held'[t] = NewToken /\ \A o \in Tabs : held'[o] = held[o] \/ o = t
  BY <1>1 DEF LoginInv, TokensInv
<1>4. made + 1 \notin DOMAIN rows
  BY DEF LoginInv, Numbered
<1>5. TokensInv'
  <2>1. \A s \in DOMAIN rows' : rows'[s] \in DOMAIN secrets' /\ secrets'[rows'[s]] = s
    BY <1>1, <1>2, <1>4 DEF LoginInv, TokensInv, Issued
  <2> QED
    BY <1>1, <1>2, <1>3, <2>1 DEF LoginInv, TokensInv, Handed, Issued
<1>6. ASSUME ~disturbed' PROVE Calm'
  <2>1. Calm /\ \A o \in Tabs : held[o] = None
    BY <1>1, <1>6 DEF LoginInv, SharesCookie
  <2>2. \A o \in Tabs : refresh[o] = NoRefresh
    BY <2>1 DEF Calm, Renewing
  <2>3. NoRefresh.phase = "none"
    BY DEF NoRefresh
  <2>4. \A o \in Tabs : Renewing(o)'
    BY <1>1, <2>2, <2>3 DEF Renewing
  <2>5. \A o \in Tabs : \A c \in Calls : Retrying(calls[o][c])'
    BY <1>1, <1>2, <2>1 DEF Calm, Retrying, Issued
  <2>6. OneSession' /\ OneRenewal' /\ CookieFits'
    BY <1>1, <1>2, <1>3, <2>1, <2>2 DEF OneSession, OneRenewal, CookieFits, Issued
  <2> QED
    BY <2>4, <2>5, <2>6 DEF Calm
<1> QED
  BY <1>5, <1>6 DEF Kept

LEMMA LogoutKeeps ==
    ASSUME LoginInv, NEW t \in Tabs, Logout(t)
    PROVE  Kept
<1>1. /\ TabQuiet(t) /\ held' = [held EXCEPT ![t] = None] /\ stored' = None
      /\ disturbed' = (disturbed \/ SharesCookie(t))
      /\ UNCHANGED <<made, secrets, tokens, expired, calls, refresh>>
  BY DEF Logout, Keep
<1>2. DOMAIN held' = Tabs /\ held'[t] = None /\ \A o \in Tabs : held'[o] = held[o] \/ o = t
  BY <1>1 DEF LoginInv, TokensInv
<1>3. DOMAIN rows' \subseteq DOMAIN rows /\ \A s \in DOMAIN rows' : rows'[s] = rows[s]
  BY DEF Logout
<1>4. TokensInv'
  BY <1>1, <1>2, <1>3 DEF LoginInv, TokensInv, Handed
<1>5. ASSUME ~disturbed' PROVE Calm'
  <2>1. Calm /\ \A o \in Tabs \ {t} : held[o] = None
    BY <1>1, <1>5 DEF LoginInv, SharesCookie
  <2>2. refresh[t] = NoRefresh
    BY <1>1 DEF TabQuiet
  <2>3. \A o \in Tabs : refresh[o] = NoRefresh
    BY <2>1, <2>2 DEF Calm, Renewing
  <2>4. NoRefresh.phase = "none"
    BY DEF NoRefresh
  <2>5. \A o \in Tabs : Renewing(o)'
    BY <1>1, <2>3, <2>4 DEF Renewing
  <2>6. \A o \in Tabs : \A c \in Calls : Retrying(calls[o][c])'
    BY <1>1, <2>1 DEF Calm, Retrying
  <2>7. OneSession' /\ OneRenewal' /\ CookieFits'
    BY <1>1, <1>2, <2>1, <2>3 DEF OneSession, OneRenewal, CookieFits
  <2> QED
    BY <2>5, <2>6, <2>7 DEF Calm
<1> QED
  BY <1>4, <1>5 DEF Kept

\* One call of one tab changes.
LEMMA OneCall ==
    ASSUME LoginInv, NEW t \in Tabs, NEW c \in Calls, NEW x, calls' = [calls EXCEPT ![t][c] = x]
    PROVE  /\ DOMAIN calls' = Tabs /\ \A o \in Tabs : DOMAIN calls'[o] = Calls
           /\ \A o \in Tabs : \A d \in Calls : calls'[o][d] = calls[o][d] \/ calls'[o][d] = x
BY DEF LoginInv, TokensInv

LEMMA SendKeeps ==
    ASSUME LoginInv, NEW t \in Tabs, NEW c \in Calls, Send(t, c)
    PROVE  Kept
<1>1. /\ UNCHANGED <<rows, made, secrets, tokens, expired, jar, stored, held, refresh, disturbed>>
      /\ calls' = [calls EXCEPT ![t][c] = Sent(held[t], FALSE)]
  BY DEF Send
<1>2. /\ DOMAIN calls' = Tabs /\ \A o \in Tabs : DOMAIN calls'[o] = Calls
      /\ \A o \in Tabs : \A d \in Calls : calls'[o][d] = calls[o][d] \/ calls'[o][d] = Sent(held[t], FALSE)
  BY <1>1, OneCall
<1>3. TokensInv'
  BY <1>1, <1>2 DEF LoginInv, TokensInv, Handed
<1>4. ASSUME ~disturbed' PROVE Calm'
  <2>1. Calm
    BY <1>1, <1>4 DEF LoginInv
  <2>2. \A o \in Tabs : \A d \in Calls : Retrying(calls'[o][d])
    BY <1>2, <2>1 DEF Calm, Retrying, Sent
  <2>3. \A o \in Tabs : \A d \in Calls : Retrying(calls[o][d])'
    BY <1>1, <2>2 DEF Retrying
  <2>4. \A o \in Tabs : Renewing(o)'
    BY <1>1, <2>1 DEF Calm, Renewing
  <2>5. OneSession' /\ OneRenewal' /\ CookieFits'
    BY <1>1, <2>1 DEF Calm, OneSession, OneRenewal, CookieFits
  <2> QED
    BY <2>3, <2>4, <2>5 DEF Calm
<1> QED
  BY <1>3, <1>4 DEF Kept

\* A call of t ends, or waits; the renewal of t begins, unless one is in flight.
LEMMA AnswerKeeps ==
    ASSUME LoginInv, NEW t \in Tabs, NEW c \in Calls, Answer(t, c)
    PROVE  Kept /\ (~disturbed' => held' = held)
<1>1. calls[t][c].phase = "sent" /\ UNCHANGED <<rows, made, secrets, tokens, expired, jar>>
  BY DEF Answer
<1>2. PICK x : calls' = [calls EXCEPT ![t][c] = x] /\ x \in {Idle, [phase |-> "waiting"]}
  <2>1. calls' = [calls EXCEPT ![t][c] = Idle] \/ calls' = [calls EXCEPT ![t][c] = [phase |-> "waiting"]]
    BY DEF Answer
  <2> QED
    BY <2>1
<1>3. /\ DOMAIN calls' = Tabs /\ \A o \in Tabs : DOMAIN calls'[o] = Calls
      /\ \A o \in Tabs : \A d \in Calls : calls'[o][d] = calls[o][d] \/ calls'[o][d] = x
  <2>1. calls' = [calls EXCEPT ![t][c] = x]
    BY <1>2
  <2> QED
    BY <2>1, OneCall
<1>4. x.phase # "sent"
  BY <1>2 DEF Idle
<1>5. disturbed => disturbed'
  BY DEF Answer
<1>6. ASSUME ~disturbed PROVE ~(~Accepted(calls[t][c]) /\ ~Retriable(t, calls[t][c]) /\ calls[t][c].retried)
  <2> SUFFICES ASSUME calls[t][c].retried PROVE Accepted(calls[t][c])
    OBVIOUS
  <2>1. calls[t][c].token \in DOMAIN tokens \ expired
    BY <1>1, <1>6 DEF LoginInv, Calm, Retrying
  <2>2. None \notin DOMAIN tokens
    BY DEF LoginInv, Numbered, None
  <2> QED
    BY <2>1, <2>2 DEF Accepted
<1>7. ASSUME ~disturbed' PROVE UNCHANGED <<stored, held>>
  BY <1>5, <1>6, <1>7 DEF Answer
<1>8. Handed(stored') /\ DOMAIN held' = Tabs /\ \A o \in Tabs : Handed(held'[o])
  <2>1. UNCHANGED <<stored, held>> \/ Keep(t, None)
    BY DEF Answer
  <2> QED
    BY <2>1 DEF Keep, Handed, LoginInv, TokensInv
<1>9. \/ UNCHANGED refresh
      \/ /\ refresh[t] = NoRefresh /\ refresh' = [refresh EXCEPT ![t] = [phase |-> "sent", secret |-> jar]]
         /\ held[t] # None /\ (~disturbed' => ~Overlaps(t))
  BY DEF Answer, RefreshOnce, Retriable
<1>10. DOMAIN refresh' = Tabs /\ \A o \in Tabs \ {t} : refresh'[o] = refresh[o]
  BY <1>9 DEF LoginInv, TokensInv
<1>11. \/ refresh'[t] = refresh[t]
       \/ /\ refresh[t] = NoRefresh /\ refresh'[t] = [phase |-> "sent", secret |-> jar]
          /\ held[t] # None /\ (~disturbed' => ~Overlaps(t))
  BY <1>9 DEF LoginInv, TokensInv
<1>12. NoRefresh.phase = "none"
  BY DEF NoRefresh
<1>13. refresh'[t].phase \in Phases /\ (refresh'[t].phase = "none" => refresh'[t] = NoRefresh)
       /\ (refresh'[t].phase = "granted" => refresh'[t] = refresh[t])
  BY <1>11 DEF LoginInv, TokensInv, Phases
<1>14. TokensInv'
  BY <1>1, <1>3, <1>8, <1>10, <1>13 DEF LoginInv, TokensInv, Handed
<1>15. ASSUME ~disturbed' PROVE Calm'
  <2>1. Calm /\ UNCHANGED <<stored, held>>
    BY <1>5, <1>7, <1>15 DEF LoginInv
  <2>2. \A o \in Tabs : \A d \in Calls : Retrying(calls'[o][d])
    BY <1>3, <1>4, <2>1 DEF Calm, Retrying
  <2>3. \A o \in Tabs : \A d \in Calls : Retrying(calls[o][d])'
    BY <1>1, <2>2 DEF Retrying
  <2>4. \A o \in Tabs : refresh'[o].phase = "granted" <=> refresh[o].phase = "granted"
    BY <1>10, <1>11, <1>12
  <2>5. OneSession' /\ CookieFits'
    BY <1>1, <2>1, <2>4 DEF Calm, OneSession, CookieFits
  <2>6. CASE refresh'[t] = refresh[t]
    <3>1. \A o \in Tabs : refresh'[o] = refresh[o]
      BY <1>10, <2>6
    <3> QED
      BY <1>1, <2>1, <2>3, <2>5, <3>1 DEF Calm, Renewing, OneRenewal
  <2>7. CASE /\ refresh[t] = NoRefresh /\ refresh'[t] = [phase |-> "sent", secret |-> jar]
             /\ held[t] # None /\ ~Overlaps(t)
    <3>1. \A o \in Tabs \ {t} : refresh'[o] = NoRefresh
      BY <1>10, <2>7 DEF Overlaps
    <3>2. OneRenewal'
      BY <3>1 DEF OneRenewal
    <3>3. \A o \in Tabs : Renewing(o)'
      BY <1>1, <1>12, <2>1, <2>7, <3>1 DEF Renewing
    <3> QED
      BY <2>3, <2>5, <3>2, <3>3 DEF Calm
  <2> QED
    BY <1>11, <1>15, <2>6, <2>7
<1> QED
  BY <1>7, <1>14, <1>15 DEF Kept

\* The server looks the secret up: undisturbed, it finds the row of the session.
LEMMA ReadKeeps ==
    ASSUME LoginInv, NEW t \in Tabs, RefreshReads(t)
    PROVE  Kept
<1>1. /\ refresh[t].phase = "sent"
      /\ UNCHANGED <<rows, made, secrets, tokens, expired, jar, stored, held, calls, disturbed>>
  BY DEF RefreshReads
<1>2. PICK x : /\ refresh' = [refresh EXCEPT ![t] = x]
               /\ x = IF Owning(refresh[t].secret) = {} THEN [phase |-> "refused"]
                      ELSE [phase |-> "read", secret |-> refresh[t].secret,
                            sid |-> CHOOSE s \in Owning(refresh[t].secret) : TRUE]
  BY DEF RefreshReads
<1>3. DOMAIN refresh' = Tabs /\ refresh'[t] = x /\ \A o \in Tabs \ {t} : refresh'[o] = refresh[o]
  BY <1>2 DEF LoginInv, TokensInv
<1>4. x.phase \in {"refused", "read"}
  BY <1>2
<1>5. TokensInv'
  BY <1>1, <1>3, <1>4 DEF LoginInv, TokensInv, Handed, Phases
<1>6. NoRefresh.phase = "none"
  BY DEF NoRefresh
<1>7. ASSUME ~disturbed' PROVE Calm'
  <2>1. Calm
    BY <1>1, <1>7 DEF LoginInv
  <2>2. refresh[t] # NoRefresh /\ held[t] # None /\ stored # None /\ refresh[t].secret = jar
    BY <1>1, <1>6, <2>1 DEF Calm, Renewing, OneSession
  <2>3. \A o \in Tabs \ {t} : refresh[o] = NoRefresh
    BY <2>1, <2>2 DEF Calm, OneRenewal
  <2>4. tokens[stored] \in DOMAIN rows /\ rows[tokens[stored]] = jar
    BY <1>1, <1>6, <2>1, <2>2, <2>3 DEF Calm, OneSession, CookieFits
  <2>5. tokens[stored] \in Owning(jar)
    BY <2>4 DEF Owning
  <2>6. \A s \in Owning(jar) : s = tokens[stored]
    BY <2>4 DEF Owning, LoginInv, TokensInv
  <2>7. x.phase = "read" /\ x.sid = tokens[stored]
    <3>1. x = [phase |-> "read", secret |-> jar, sid |-> CHOOSE s \in Owning(jar) : TRUE]
      BY <1>2, <2>2, <2>5
    <3>2. (CHOOSE s \in Owning(jar) : TRUE) \in Owning(jar)
      BY <2>5
    <3> QED
      BY <2>6, <3>1, <3>2
  <2>8. \A o \in Tabs : Renewing(o)'
    BY <1>1, <1>3, <1>6, <2>2, <2>3, <2>7 DEF Renewing
  <2>9. \A o \in Tabs : \A c \in Calls : Retrying(calls[o][c])'
    BY <1>1, <2>1 DEF Calm, Retrying
  <2>10. OneSession' /\ OneRenewal' /\ CookieFits'
    BY <1>1, <1>3, <2>1, <2>3, <2>4 DEF Calm, OneSession, OneRenewal, CookieFits
  <2> QED
    BY <2>8, <2>9, <2>10 DEF Calm
<1> QED
  BY <1>5, <1>7 DEF Kept

\* The server writes the row: it is there, unless the tabs were disturbed.
LEMMA WriteKeeps ==
    ASSUME LoginInv, NEW t \in Tabs, RefreshWrites(t)
    PROVE  Kept
<1>1. refresh[t].phase = "read" /\ UNCHANGED <<made, expired, jar, stored, held, calls>>
  BY DEF RefreshWrites
<1>2. NoRefresh.phase = "none"
  BY DEF NoRefresh
<1>3. ASSUME ~disturbed
      PROVE  /\ Calm /\ held[t] # None /\ stored # None /\ refresh[t].sid = tokens[stored]
             /\ StillThere(refresh[t].sid) /\ \A o \in Tabs \ {t} : refresh[o] = NoRefresh
  <2>1. Calm
    BY <1>3 DEF LoginInv
  <2>2. refresh[t] # NoRefresh /\ held[t] # None /\ stored # None /\ refresh[t].sid = tokens[stored]
    BY <1>1, <1>2, <2>1 DEF Calm, Renewing, OneSession
  <2>3. \A o \in Tabs \ {t} : refresh[o] = NoRefresh
    BY <2>1, <2>2 DEF Calm, OneRenewal
  <2>4. StillThere(refresh[t].sid)
    BY <2>1, <2>2 DEF Calm, OneSession, StillThere
  <2> QED
    BY <2>1, <2>2, <2>3, <2>4
<1>4. CASE /\ StillThere(refresh[t].sid)
           /\ Issue(refresh[t].sid) /\ rows' = Rotated(refresh[t].sid)
           /\ refresh' = [refresh EXCEPT ![t] = [phase |-> "granted", secret |-> NewSecret, token |-> NewToken]]
           /\ UNCHANGED disturbed
  <2>1. PICK sid : sid = refresh[t].sid
    OBVIOUS
  <2>2. Issued(sid)
    BY <1>4, <2>1, IssueIsNew
  <2>3. /\ sid \in DOMAIN rows /\ DOMAIN rows' = DOMAIN rows /\ rows'[sid] = NewSecret
        /\ \A s \in DOMAIN rows \ {sid} : rows'[s] = rows[s]
    BY <1>4, <2>1 DEF StillThere, Rotated
  <2>4. PICK x : x = [phase |-> "granted", secret |-> NewSecret, token |-> NewToken]
    OBVIOUS
  <2>5. DOMAIN refresh' = Tabs /\ refresh'[t] = x /\ \A o \in Tabs \ {t} : refresh'[o] = refresh[o]
    BY <1>4, <2>4 DEF LoginInv, TokensInv
  <2>6. x.phase = "granted" /\ x.secret = NewSecret /\ x.token = NewToken
    BY <2>4
  <2>7. \A s \in DOMAIN rows' : rows'[s] \in DOMAIN secrets' /\ secrets'[rows'[s]] = s
    BY <2>2, <2>3 DEF LoginInv, TokensInv, Issued
  <2>8. \A o \in Tabs : /\ refresh'[o].phase \in Phases /\ (refresh'[o].phase = "none" => refresh'[o] = NoRefresh)
                        /\ refresh'[o].phase = "granted" => refresh'[o].token \in DOMAIN tokens'
    BY <2>2, <2>5, <2>6 DEF LoginInv, TokensInv, Issued, Phases
  <2>9. TokensInv'
    BY <1>1, <2>2, <2>5, <2>7, <2>8 DEF LoginInv, TokensInv, Handed, Issued
  <2>10. ASSUME ~disturbed' PROVE Calm'
    <3>1. Calm /\ held[t] # None /\ stored # None /\ sid = tokens[stored] /\ \A o \in Tabs \ {t} : refresh[o] = NoRefresh
      BY <1>3, <1>4, <2>1, <2>10
    <3>2. stored \in DOMAIN tokens /\ (\A o \in Tabs : Handed(held[o])) /\ expired \subseteq DOMAIN tokens
      BY <3>1 DEF LoginInv, TokensInv, Handed
    <3>3. tokens'[stored] = tokens[stored] /\ \A o \in Tabs : held[o] # None => tokens'[held[o]] = tokens[held[o]]
      BY <2>2, <3>2 DEF Issued, Handed
    <3>4. OneSession'
      BY <1>1, <2>3, <3>1, <3>3 DEF Calm, OneSession
    <3>5. OneRenewal' /\ CookieFits'
      BY <2>5, <2>6, <3>1 DEF OneRenewal, CookieFits
    <3>6. Renewing(t)'
      BY <1>1, <1>2, <2>2, <2>3, <2>5, <2>6, <3>1, <3>2, <3>3 DEF Renewing, Issued
    <3>7. \A o \in Tabs \ {t} : Renewing(o)'
      BY <1>2, <2>5, <3>1 DEF Renewing
    <3>8. \A o \in Tabs : \A c \in Calls : Retrying(calls[o][c])'
      BY <1>1, <2>2, <3>1 DEF Calm, Retrying, Issued
    <3> QED
      BY <3>4, <3>5, <3>6, <3>7, <3>8 DEF Calm
  <2> QED
    BY <2>9, <2>10 DEF Kept
<1>5. CASE /\ ~StillThere(refresh[t].sid) \/ Exhausted
           /\ refresh' = [refresh EXCEPT ![t] = [phase |-> "refused"]]
           /\ disturbed' = (disturbed \/ Exhausted)
           /\ UNCHANGED <<rows, secrets, tokens>>
  <2>1. /\ DOMAIN refresh' = Tabs /\ refresh'[t] = [phase |-> "refused"]
        /\ \A o \in Tabs \ {t} : refresh'[o] = refresh[o]
    BY <1>5 DEF LoginInv, TokensInv
  <2>2. TokensInv'
    BY <1>1, <1>5, <2>1 DEF LoginInv, TokensInv, Handed, Phases
  <2>3. disturbed'
    BY <1>3, <1>5
  <2> QED
    BY <2>2, <2>3 DEF Kept
<1> QED
  BY <1>4, <1>5 DEF RefreshWrites

\* The answer brings the cookie up to date, and the calls that wait their token.
LEMMA ArrivalKeeps ==
    ASSUME LoginInv, NEW t \in Tabs, RefreshArrives(t)
    PROVE  Kept /\ held'[t] # None /\ \A o \in Tabs \ {t} : held'[o] = held[o]
<1>1. PICK k : k = refresh[t].token
  OBVIOUS
<1>2. /\ refresh[t].phase = "granted" /\ jar' = refresh[t].secret
      /\ held' = [held EXCEPT ![t] = k] /\ stored' = k
      /\ calls' = [calls EXCEPT ![t] = [c \in Calls |-> IF c \in Waiting(t) THEN Sent(k, TRUE) ELSE calls[t][c]]]
      /\ refresh' = [refresh EXCEPT ![t] = NoRefresh]
      /\ UNCHANGED <<rows, made, secrets, tokens, expired, disturbed>>
  BY <1>1 DEF RefreshArrives, Keep
<1>3. k \in DOMAIN tokens /\ k # None
  BY <1>1, <1>2 DEF LoginInv, TokensInv, Numbered, None
<1>4. DOMAIN held' = Tabs /\ held'[t] = k /\ \A o \in Tabs \ {t} : held'[o] = held[o]
  BY <1>2 DEF LoginInv, TokensInv
<1>5. DOMAIN refresh' = Tabs /\ refresh'[t] = NoRefresh /\ \A o \in Tabs \ {t} : refresh'[o] = refresh[o]
  BY <1>2 DEF LoginInv, TokensInv
<1>6. /\ DOMAIN calls' = Tabs /\ \A o \in Tabs : DOMAIN calls'[o] = Calls
      /\ \A o \in Tabs : \A c \in Calls : calls'[o][c] = calls[o][c] \/ calls'[o][c] = Sent(k, TRUE)
  BY <1>2 DEF LoginInv, TokensInv
<1>7. NoRefresh.phase = "none"
  BY DEF NoRefresh
<1>8. TokensInv'
  BY <1>2, <1>3, <1>4, <1>5, <1>6, <1>7 DEF LoginInv, TokensInv, Handed, Phases
<1>9. ASSUME ~disturbed' PROVE Calm'
  <2>1. Calm
    BY <1>2, <1>9 DEF LoginInv
  <2>2. refresh[t] # NoRefresh /\ stored # None
    BY <1>2, <1>7, <2>1 DEF Calm, Renewing, OneSession
  <2>3. \A o \in Tabs : refresh'[o] = NoRefresh
    BY <1>5, <2>1, <2>2 DEF Calm, OneRenewal
  <2>4. /\ k \notin expired /\ tokens[k] = tokens[stored] /\ tokens[stored] \in DOMAIN rows
        /\ rows[tokens[stored]] = refresh[t].secret
    BY <1>1, <1>2, <2>1, <2>2 DEF Calm, Renewing, OneSession
  <2>5. OneSession'
    BY <1>2, <1>3, <1>4, <2>1, <2>4 DEF Calm, OneSession
  <2>6. OneRenewal' /\ CookieFits'
    BY <1>2, <2>3, <2>4 DEF OneRenewal, CookieFits
  <2>7. \A o \in Tabs : Renewing(o)'
    BY <1>7, <2>3 DEF Renewing
  <2>8. \A o \in Tabs : \A c \in Calls : Retrying(calls'[o][c])
    BY <1>3, <1>6, <2>1, <2>4 DEF Calm, Retrying, Sent
  <2>9. \A o \in Tabs : \A c \in Calls : Retrying(calls[o][c])'
    BY <1>2, <2>8 DEF Retrying
  <2> QED
    BY <2>5, <2>6, <2>7, <2>9 DEF Calm
<1> QED
  BY <1>3, <1>4, <1>8, <1>9 DEF Kept

\* Only a renewal that failed ends a login: its tabs were disturbed.
LEMMA GivingUpKeeps ==
    ASSUME LoginInv, NEW t \in Tabs, RefreshRefused(t) \/ Lost(t)
    PROVE  Kept /\ disturbed'
<1>1. /\ held' = [held EXCEPT ![t] = None] /\ stored' = None
      /\ calls' = [calls EXCEPT ![t] = [c \in Calls |-> IF c \in Waiting(t) THEN Idle ELSE calls[t][c]]]
      /\ refresh' = [refresh EXCEPT ![t] = NoRefresh]
      /\ UNCHANGED <<rows, made, secrets, tokens, expired>>
  BY DEF RefreshRefused, Lost, GiveUp, Keep
<1>2. DOMAIN held' = Tabs /\ held'[t] = None /\ \A o \in Tabs \ {t} : held'[o] = held[o]
  BY <1>1 DEF LoginInv, TokensInv
<1>3. DOMAIN refresh' = Tabs /\ refresh'[t] = NoRefresh /\ \A o \in Tabs \ {t} : refresh'[o] = refresh[o]
  BY <1>1 DEF LoginInv, TokensInv
<1>4. DOMAIN calls' = Tabs /\ \A o \in Tabs : DOMAIN calls'[o] = Calls
  BY <1>1 DEF LoginInv, TokensInv
<1>5. NoRefresh.phase = "none"
  BY DEF NoRefresh
<1>6. TokensInv'
  BY <1>1, <1>2, <1>3, <1>4, <1>5 DEF LoginInv, TokensInv, Handed, Phases
<1>7. disturbed'
  <2>1. CASE RefreshRefused(t)
    BY <2>1 DEF RefreshRefused, LoginInv, Calm, Renewing
  <2>2. CASE Lost(t)
    BY <2>2 DEF Lost
  <2> QED
    BY <2>1, <2>2
<1> QED
  BY <1>6, <1>7 DEF Kept

\* The tabs whose login ends against the user's will.
Loses(t) == held[t] # None /\ held'[t] = None /\ ~TabQuiet(t)

LEMMA StepKeepsLogin ==
    ASSUME LoginInv, [SessionsNext]_sessionVars
    PROVE  LoginInv' /\ \A t \in Tabs : Loses(t) => disturbed'
<1>1. ASSUME NEW t \in Tabs, Login(t) PROVE Kept /\ \A o \in Tabs : Loses(o) => disturbed'
  <2>1. \A o \in Tabs : held'[o] = held[o] \/ o = t
    BY <1>1 DEF Login, Keep, LoginInv, TokensInv
  <2>2. TabQuiet(t)
    BY <1>1 DEF Login
  <2> QED
    BY <1>1, <2>1, <2>2, LoginKeeps DEF Loses
<1>2. ASSUME NEW t \in Tabs, Logout(t) PROVE Kept /\ \A o \in Tabs : Loses(o) => disturbed'
  <2>1. \A o \in Tabs : held'[o] = held[o] \/ o = t
    BY <1>2 DEF Logout, Keep, LoginInv, TokensInv
  <2>2. TabQuiet(t)
    BY <1>2 DEF Logout
  <2> QED
    BY <1>2, <2>1, <2>2, LogoutKeeps DEF Loses
<1>3. ASSUME NEW t \in Tabs, Reload(t) PROVE Kept /\ \A o \in Tabs : Loses(o) => disturbed'
  <2>1. \A o \in Tabs : held'[o] = held[o] \/ o = t
    BY <1>3 DEF Reload, LoginInv, TokensInv
  <2>2. TabQuiet(t)
    BY <1>3 DEF Reload
  <2> QED
    BY <1>3, <2>1, <2>2, ReloadKeeps DEF Loses
<1>4. ASSUME NEW t \in Tabs, RefreshReads(t) \/ RefreshWrites(t) PROVE Kept /\ \A o \in Tabs : Loses(o) => disturbed'
  <2>1. held' = held
    BY <1>4 DEF RefreshReads, RefreshWrites
  <2> QED
    BY <1>4, <2>1, ReadKeeps, WriteKeeps DEF Loses
<1>5. ASSUME NEW t \in Tabs, RefreshArrives(t) PROVE Kept /\ \A o \in Tabs : Loses(o) => disturbed'
  <2>1. Kept /\ held'[t] # None /\ \A o \in Tabs \ {t} : held'[o] = held[o]
    BY <1>5, ArrivalKeeps
  <2> QED
    BY <2>1 DEF Loses
<1>6. ASSUME NEW t \in Tabs, RefreshRefused(t) \/ Lost(t) PROVE Kept /\ \A o \in Tabs : Loses(o) => disturbed'
  BY <1>6, GivingUpKeeps
<1>7. ASSUME NEW t \in Tabs, NEW c \in Calls, Send(t, c) PROVE Kept /\ \A o \in Tabs : Loses(o) => disturbed'
  <2>1. held' = held
    BY <1>7 DEF Send
  <2> QED
    BY <1>7, <2>1, SendKeeps DEF Loses
<1>8. ASSUME NEW t \in Tabs, NEW c \in Calls, Answer(t, c) PROVE Kept /\ \A o \in Tabs : Loses(o) => disturbed'
  <2>1. Kept /\ (~disturbed' => held' = held)
    BY <1>8, AnswerKeeps
  <2> QED
    BY <2>1 DEF Loses
<1>9. ASSUME NEW k, Expire(k) PROVE Kept /\ \A o \in Tabs : Loses(o) => disturbed'
  <2>1. held' = held
    BY <1>9 DEF Expire
  <2> QED
    BY <1>9, <2>1, ExpireKeeps DEF Loses
<1>10. ASSUME UNCHANGED sessionVars PROVE Kept /\ \A o \in Tabs : Loses(o) => disturbed'
  BY <1>10 DEF sessionVars, LoginInv, Kept, Loses, TokensInv, Handed, Calm, OneSession, OneRenewal, CookieFits,
               Renewing, Retrying
<1>11. Kept /\ \A o \in Tabs : Loses(o) => disturbed'
  BY <1>1, <1>2, <1>3, <1>4, <1>5, <1>6, <1>7, <1>8, <1>9, <1>10 DEF SessionsNext, Renewal
<1>12. Numbered'
  BY StepStaysOut DEF LoginInv
<1> QED
  BY <1>11, <1>12 DEF Kept, LoginInv

\* However calls are refused, wait and are sent again, and whenever tokens expire: as
\* long as the network holds and the tabs leave one another's cookie alone, nobody is
\* logged out while a call of his is under way.
THEOREM LoggedOutForAReason == SessionsSpec => LoggedOutWithReason
<1> DEFINE Reasoned == \A t \in Tabs : held[t] # None /\ held'[t] = None /\ ~TabQuiet(t) => disturbed'
<1>1. LoginInv /\ [SessionsNext]_sessionVars => LoginInv' /\ [Reasoned]_sessionVars
  BY StepKeepsLogin DEF Loses
<1> QED
  BY <1>1, LoginAtFirst, PTL DEF SessionsSpec, LoggedOutWithReason

-----------------------------------------------------------------------------
(* Dragging: a page at rest shows the server's board.                      *)

NoneFlying == \A d \in 1..MaxDrags : drags[d].at # "flying"

\* Once the drags have settled, what the page shows, or is about to be shown, is the
\* server's board, unless it waits for a fetch that the server has still to read.
DragInv ==
    /\ DOMAIN drags = 1..MaxDrags
    /\ \A d \in 1..MaxDrags : "at" \in DOMAIN drags[d] /\ drags[d].at \in {"idle", "flying", "settled"}
                              /\ (drags[d].at = "idle" => drags[d] = NotMade)
    /\ fetch = NoFetch \/ fetch = FetchAsked \/ fetch.at = "read"
    /\ NoneFlying /\ ~late =>
         /\ fetch = NoFetch /\ ~pageFailed => shown = BoardOf(onServer)
         /\ fetch.at = "read" => fetch.board = BoardOf(onServer)

LEMMA DragAtFirst == DragInit => DragInv
BY DEF DragInit, DragInv, NotMade, NoFetch

\* What the server does for a drag that is flying leaves it flying, and what it does
\* for one that has settled is late.
LEMMA ServerKeepsDragInv ==
    ASSUME DragInv, NEW d \in 1..MaxDrags, drags[d] # NotMade,
           UNCHANGED <<fetch, pageFailed>>, late' = Overtaken(d),
           DOMAIN drags' = 1..MaxDrags,
           \A e \in 1..MaxDrags : /\ "at" \in DOMAIN drags'[e] /\ drags'[e].at = drags[e].at
                                  /\ e # d => drags'[e] = drags[e]
    PROVE  DragInv'
<1>1. drags[d].at = "flying" \/ drags[d].at = "settled"
  BY DEF DragInv
<1>2. CASE drags[d].at = "flying"
  BY <1>2 DEF DragInv, NoneFlying
<1>3. CASE drags[d].at = "settled"
  BY <1>3 DEF DragInv, Overtaken, NoneFlying
<1> QED
  BY <1>1, <1>2, <1>3

LEMMA StepKeepsDragInv ==
    ASSUME DragInv, [DragNext]_dragVars
    PROVE  DragInv'
<1>1. ASSUME NEW d \in 1..MaxDrags, MakeDrag(d) PROVE DragInv'
  <2>1. PICK m : drags' = [drags EXCEPT ![d] = [at |-> "flying", move |-> m, previous |-> shown,
                                                 column |-> "sent", place |-> "sent"]]
    BY <1>1 DEF MakeDrag
  <2>2. drags'[d].at = "flying"
    BY <2>1 DEF DragInv
  <2>3. \A e \in 1..MaxDrags : /\ "at" \in DOMAIN drags'[e]
                               /\ drags'[e].at = "flying" \/ drags'[e] = drags[e]
    BY <2>1 DEF DragInv
  <2>4. DOMAIN drags' = 1..MaxDrags /\ fetch' = NoFetch
    BY <1>1, <2>1 DEF DragInv, MakeDrag
  <2> QED
    BY <2>2, <2>3, <2>4 DEF DragInv, NoneFlying
<1>2. ASSUME NEW d \in 1..MaxDrags, Settle(d), drags[d].at = "flying", fetch' = Refetch PROVE DragInv'
  <2>1. \A e \in 1..MaxDrags : /\ "at" \in DOMAIN drags'[e]
                               /\ drags'[e].at = "settled" \/ drags'[e] = drags[e]
    BY <1>2 DEF Settle, DragInv
  <2>2. DOMAIN drags' = 1..MaxDrags /\ fetch' = FetchAsked /\ FetchAsked # NoFetch /\ FetchAsked.at # "read"
    BY <1>2 DEF DragInv, Settle, Refetch, FetchAsked, NoFetch
  <2> QED
    BY <2>1, <2>2 DEF DragInv
<1>3. ASSUME NEW d \in 1..MaxDrags, ServerMoves(d) PROVE DragInv'
  BY <1>3, ServerKeepsDragInv DEF ServerMoves, DragInv
<1>4. ASSUME NEW d \in 1..MaxDrags, ServerPlaces(d) PROVE DragInv'
  BY <1>4, ServerKeepsDragInv DEF ServerPlaces, DragInv
<1>5. ASSUME NEW d \in 1..MaxDrags, CallAnswered(d) PROVE DragInv'
  <2>1. UNCHANGED <<onServer, shown, fetch, pageFailed, late>>
    BY <1>5 DEF CallAnswered
  <2>2. \A e \in 1..MaxDrags : /\ "at" \in DOMAIN drags'[e] /\ drags'[e].at = drags[e].at
                               /\ e # d => drags'[e] = drags[e]
    BY <1>5 DEF CallAnswered, DragInv
  <2>3. DOMAIN drags' = 1..MaxDrags /\ drags[d] # NotMade
    BY <1>5 DEF CallAnswered, DragInv
  <2>4. \A e \in 1..MaxDrags : drags'[e].at = "idle" => drags'[e] = NotMade
    BY <2>2, <2>3 DEF DragInv
  <2>5. NoneFlying' <=> NoneFlying
    BY <2>2 DEF NoneFlying
  <2> QED
    BY <2>1, <2>2, <2>3, <2>4, <2>5 DEF DragInv
<1>6. ASSUME Remount PROVE DragInv'
  <2>1. FetchAsked # NoFetch /\ FetchAsked.at # "read"
    BY DEF FetchAsked, NoFetch
  <2> QED
    BY <1>6, <2>1 DEF Remount, DragInv, NoneFlying
<1>7. ASSUME ServeFetch PROVE DragInv'
  <2>1. fetch'.at = "read" /\ fetch'.board = BoardOf(onServer) /\ fetch' # NoFetch
    BY <1>7 DEF ServeFetch, NoFetch
  <2> QED
    BY <1>7, <2>1 DEF ServeFetch, DragInv, NoneFlying
<1>8. ASSUME FetchLands \/ FetchFails PROVE DragInv'
  <2>1. NoFetch.at # "read"
    BY DEF NoFetch
  <2> QED
    BY <1>8, <2>1 DEF FetchLands, FetchFails, DragInv, NoneFlying
<1>9. ASSUME UNCHANGED dragVars PROVE DragInv'
  BY <1>9 DEF dragVars, DragInv, NoneFlying
<1>10. ASSUME NEW d \in 1..MaxDrags, Succeed(d) \/ RollBack(d) PROVE DragInv'
  <2>1. Settle(d) /\ drags[d].at = "flying" /\ fetch' = Refetch
    BY <1>10 DEF Succeed, RollBack
  <2> QED
    BY <1>2, <2>1
<1> QED
  BY <1>1, <1>3, <1>4, <1>5, <1>6, <1>7, <1>8, <1>9, <1>10 DEF DragNext

\* However drags overlap, roll one another back, land elsewhere or lose their answers,
\* and whatever fetches are cancelled or fail: a page at rest shows the server's board,
\* unless the server carried out a request after its drag had settled.
THEOREM RestingPageIsTrue == DragSpec => []CaughtUp
<1>1. DragInv /\ [DragNext]_dragVars => DragInv'
  BY StepKeepsDragInv
<1>2. DragInv => CaughtUp
  <2> SUFFICES ASSUME DragInv, AtRest, ~late PROVE shown = BoardOf(onServer)
    BY DEF CaughtUp
  <2>1. NoneFlying
    BY DEF AtRest, NoneFlying, NotMade
  <2> QED
    BY <2>1 DEF AtRest, DragInv
<1> QED
  BY <1>1, <1>2, DragAtFirst, PTL DEF DragSpec
=============================================================================
