------------------------------ MODULE Sessions ------------------------------
(***************************************************************************)
(* A login: the session row with its refresh secret, the access tokens     *)
(* issued for it, and the web client that renews them.  The tabs of a      *)
(* browser share its cookies; each tab has a client of its own, which lets *)
(* the calls that were refused wait for a single renewal.                  *)
(*                                                                         *)
(* A renewal looks its row up by the secret and later writes it by its id; *)
(* another request may commit in between.  Access tokens are checked by    *)
(* their signature and expiry alone.                                       *)
(***************************************************************************)
EXTENDS Integers, FiniteSets

CONSTANTS
    Tabs,       \* the tabs that are open
    Calls,      \* the calls a tab has under way at a time (bound)
    LastSecret, \* how many refresh secrets are handed out, and sessions (bound)
    LastToken   \* how many access tokens are issued (bound)

ASSUME SessionsAssumption == LastSecret \in Nat /\ LastToken \in Nat

None == 0

VARIABLES
    rows,       \* sessions: the current secret of each session that is not revoked
    made,       \* how many sessions there have been
    secrets,    \* the session of each refresh secret issued
    tokens,     \* the session of each access token issued
    expired,    \* the access tokens that have expired
    jar,        \* the refresh cookie of the browser
    stored,     \* the access token in the local storage of the browser
    held,       \* by tab: the access token it has cached
    calls,      \* by tab and call: where it stands
    refresh,    \* by tab: its renewal in flight
    disturbed   \* what no client can help has happened (history): the network
                \* failed, or another tab replaced the cookie

sessionVars == <<rows, made, secrets, tokens, expired, jar, stored, held, calls, refresh, disturbed>>

Idle == [phase |-> "idle"]
NoRefresh == [phase |-> "none"]

SessionsInit ==
    /\ rows = [s \in {} |-> None] /\ made = 0
    /\ secrets = <<>> /\ tokens = <<>> /\ expired = {}
    /\ jar = None /\ stored = None /\ held = [t \in Tabs |-> None]
    /\ calls = [t \in Tabs |-> [c \in Calls |-> Idle]]
    /\ refresh = [t \in Tabs |-> NoRefresh]
    /\ disturbed = FALSE

-----------------------------------------------------------------------------
(* Tokens.                                                                 *)

LenOf(f) == Cardinality(DOMAIN f)
Extended(f, x) == [i \in 1..(LenOf(f) + 1) |-> IF i > LenOf(f) THEN x ELSE f[i]]

\* A new secret for session s, and an access token for it.
Issue(s) ==
    /\ LenOf(secrets) < LastSecret /\ LenOf(tokens) < LastToken
    /\ secrets' = Extended(secrets, s) /\ tokens' = Extended(tokens, s)
NewSecret == LenOf(secrets) + 1
NewToken == LenOf(tokens) + 1

\* The answer that brings token k, or a call that was retried with it, is still
\* under way.
InFlight(k) == \E t \in Tabs : \/ refresh[t].phase = "granted" /\ refresh[t].token = k
                               \/ \E c \in Calls : /\ calls[t][c].phase = "sent" /\ calls[t][c].retried
                                                  /\ calls[t][c].token = k

\* Time passes for one token; the network may be slower than that.
Expire(k) ==
    /\ k \in DOMAIN tokens \ expired
    /\ expired' = expired \cup {k}
    /\ disturbed' = (disturbed \/ InFlight(k))
    /\ UNCHANGED <<rows, made, secrets, tokens, jar, stored, held, calls, refresh>>

\* tokens.set: what one tab caches, and what the next one to load will find.
Keep(t, token) == held' = [held EXCEPT ![t] = token] /\ stored' = token

TabQuiet(t) == refresh[t] = NoRefresh /\ \A c \in Calls : calls[t][c] = Idle

\* A page is loaded again.
Reload(t) == /\ TabQuiet(t) /\ held[t] # stored /\ held' = [held EXCEPT ![t] = stored]
             /\ UNCHANGED <<rows, made, secrets, tokens, expired, jar, stored, calls, refresh, disturbed>>

\* Another tab is logged in, by the cookie that t is about to replace.
SharesCookie(t) == \E o \in Tabs \ {t} : held[o] # None

\* login: a row of its own, whatever rows the user has.
Login(t) ==
    /\ held[t] = None /\ TabQuiet(t)
    /\ Issue(made + 1) /\ made' = made + 1
    /\ rows' = [s \in DOMAIN rows \cup {made'} |-> IF s = made' THEN NewSecret ELSE rows[s]]
    /\ jar' = NewSecret /\ Keep(t, NewToken)
    /\ disturbed' = (disturbed \/ SharesCookie(t))
    /\ UNCHANGED <<expired, calls, refresh>>

\* logout: the session that the bearer names is dropped, not the cookie's, and the
\* cookie is cleared.  The client forgets its token even when the server refuses.
Logout(t) ==
    /\ held[t] # None /\ TabQuiet(t)
    /\ IF held[t] \in expired THEN UNCHANGED <<rows, jar>>
       ELSE /\ rows' = [s \in DOMAIN rows \ {tokens[held[t]]} |-> rows[s]]
            /\ jar' = None
    /\ Keep(t, None)
    /\ disturbed' = (disturbed \/ SharesCookie(t))
    /\ UNCHANGED <<made, secrets, tokens, expired, calls, refresh>>

-----------------------------------------------------------------------------
(* The client.                                                             *)

Sent(token, retried) == [phase |-> "sent", token |-> token, retried |-> retried]

Send(t, c) ==
    /\ held[t] # None /\ calls[t][c] = Idle
    /\ calls' = [calls EXCEPT ![t][c] = Sent(held[t], FALSE)]
    /\ UNCHANGED <<rows, made, secrets, tokens, expired, jar, stored, held, refresh, disturbed>>

Accepted(call) == call.token # None /\ call.token \notin expired

\* MUTANT of RefreshOnce: every refused call renews for itself.
RefreshAgain(t) == [refresh EXCEPT ![t] = [phase |-> "sent", secret |-> jar]]
\* refreshOnce: whoever finds a renewal in flight waits for it.
RefreshOnce(t) ==
    IF refresh[t] = NoRefresh THEN [refresh EXCEPT ![t] = [phase |-> "sent", secret |-> jar]] ELSE refresh

\* A renewal of another tab is in flight.
Overlaps(t) == \E o \in Tabs \ {t} : refresh[o] # NoRefresh

Retriable(t, call) == ~call.retried /\ held[t] # None

\* The answer to a call arrives: 200, or 401 and what send makes of it.
Answer(t, c) ==
    LET call == calls[t][c]
    IN  /\ call.phase = "sent"
        /\ UNCHANGED <<rows, made, secrets, tokens, expired, jar>>
        /\ \/ /\ Accepted(call)
              /\ calls' = [calls EXCEPT ![t][c] = Idle]
              /\ UNCHANGED <<stored, held, refresh, disturbed>>
           \/ /\ ~Accepted(call) /\ Retriable(t, call)
              /\ calls' = [calls EXCEPT ![t][c] = [phase |-> "waiting"]]
              /\ refresh' = RefreshOnce(t)
              /\ disturbed' = (disturbed \/ Overlaps(t))
              /\ UNCHANGED <<stored, held>>
           \/ /\ ~Accepted(call) /\ ~Retriable(t, call)
              /\ calls' = [calls EXCEPT ![t][c] = Idle]
              /\ IF call.retried THEN Keep(t, None) ELSE UNCHANGED <<stored, held>>
              /\ UNCHANGED <<refresh, disturbed>>

Waiting(t) == {c \in Calls : calls[t][c].phase = "waiting"}

\* The renewal came back: the browser keeps the cookie, the waiting calls go out again.
RefreshArrives(t) ==
    /\ refresh[t].phase = "granted"
    /\ jar' = refresh[t].secret /\ Keep(t, refresh[t].token)
    /\ calls' = [calls EXCEPT ![t] = [c \in Calls |-> IF c \in Waiting(t) THEN Sent(refresh[t].token, TRUE)
                                                      ELSE calls[t][c]]]
    /\ refresh' = [refresh EXCEPT ![t] = NoRefresh]
    /\ UNCHANGED <<rows, made, secrets, tokens, expired, disturbed>>

\* MUTANT of GiveUp: the calls that wait are not told.
GiveUpSilently(t) == refresh' = [refresh EXCEPT ![t] = NoRefresh] /\ Keep(t, None) /\ UNCHANGED calls
\* A renewal that failed ends the login for every call that waits.
GiveUp(t) ==
    /\ calls' = [calls EXCEPT ![t] = [c \in Calls |-> IF c \in Waiting(t) THEN Idle ELSE calls[t][c]]]
    /\ refresh' = [refresh EXCEPT ![t] = NoRefresh]
    /\ Keep(t, None)

RefreshRefused(t) ==
    /\ refresh[t].phase = "refused" /\ GiveUp(t)
    /\ UNCHANGED <<rows, made, secrets, tokens, expired, jar, disturbed>>

\* The network fails before or after the server has done its part; the client
\* cannot tell, and gives up.
Lost(t) ==
    /\ refresh[t].phase \in {"sent", "granted"} /\ GiveUp(t) /\ disturbed' = TRUE
    /\ UNCHANGED <<rows, made, secrets, tokens, expired, jar>>

-----------------------------------------------------------------------------
(* The server's part in a renewal.                                         *)

Owning(secret) == {s \in DOMAIN rows : rows[s] = secret}

RefreshReads(t) ==
    /\ refresh[t].phase = "sent"
    /\ refresh' = [refresh EXCEPT ![t] =
          IF Owning(refresh[t].secret) = {} THEN [phase |-> "refused"]
          ELSE [phase |-> "read", secret |-> refresh[t].secret,
                sid |-> CHOOSE s \in Owning(refresh[t].secret) : TRUE]]
    /\ UNCHANGED <<rows, made, secrets, tokens, expired, jar, stored, held, calls, disturbed>>

\* rotate_session updates the row that it read, and keeps its id.
Rotated(s) == [x \in DOMAIN rows |-> IF x = s THEN NewSecret ELSE rows[x]]

\* MUTANT of StillThere: the number of rows updated is not looked at.
NeverMissed(s) == TRUE
\* An update that finds no row raises, and the request fails.
StillThere(s) == s \in DOMAIN rows

\* The bound on tokens and secrets is reached: the server fails.
Exhausted == LenOf(secrets) = LastSecret \/ LenOf(tokens) = LastToken

RefreshWrites(t) ==
    /\ refresh[t].phase = "read"
    /\ UNCHANGED <<made, expired, jar, stored, held, calls>>
    /\ \/ /\ StillThere(refresh[t].sid)
          /\ Issue(refresh[t].sid) /\ rows' = Rotated(refresh[t].sid)
          /\ refresh' = [refresh EXCEPT ![t] = [phase |-> "granted", secret |-> NewSecret, token |-> NewToken]]
          /\ UNCHANGED disturbed
       \/ /\ ~StillThere(refresh[t].sid) \/ Exhausted
          /\ refresh' = [refresh EXCEPT ![t] = [phase |-> "refused"]]
          /\ disturbed' = (disturbed \/ Exhausted)
          /\ UNCHANGED <<rows, secrets, tokens>>

-----------------------------------------------------------------------------
Renewal(t) == RefreshReads(t) \/ RefreshWrites(t) \/ RefreshArrives(t) \/ RefreshRefused(t)

SessionsNext ==
    \/ \E t \in Tabs : Login(t) \/ Logout(t) \/ Reload(t) \/ Renewal(t) \/ Lost(t)
    \/ \E t \in Tabs, c \in Calls : Send(t, c) \/ Answer(t, c)
    \/ \E k \in 1..LastToken : Expire(k)

\* The server handles every request and its answer arrives, or the network fails.
SessionsFairness ==
    /\ \A t \in Tabs : WF_sessionVars(Renewal(t))
    /\ \A t \in Tabs, c \in Calls : WF_sessionVars(Answer(t, c))

SessionsSpec == SessionsInit /\ [][SessionsNext]_sessionVars /\ SessionsFairness

-----------------------------------------------------------------------------
(* Properties.                                                             *)

\* A session that was logged out stays out: no renewal revives it, although it
\* may have read the row before (the row is written by its id, not inserted).
LoggedOutStaysOut ==
    [][\A s \in 1..made : s \notin DOMAIN rows =>
          s \notin DOMAIN rows' /\ ~\E k \in DOMAIN tokens' \ DOMAIN tokens : tokens'[k] = s]_sessionVars

\* A tab loses its login against the user's will only when the network failed, or
\* another tab logged in or out or was renewing at the same time: the calls of one
\* tab that are refused together, early or late, never spend the cookie twice.
LoggedOutWithReason ==
    [][\A t \in Tabs : held[t] # None /\ held'[t] = None /\ ~TabQuiet(t) => disturbed']_sessionVars

\* Every call ends, whatever fails: renewing is not repeated for ever.
CallsEnd == \A t \in Tabs, c \in Calls : calls[t][c] # Idle ~> calls[t][c] = Idle

=============================================================================
