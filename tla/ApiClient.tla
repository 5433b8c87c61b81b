------------------------------- MODULE ApiClient -------------------------------
(***************************************************************************)
(* How the web app keeps its access token: the token in memory, which      *)
(* every request carries, the two cookies, which only the browser and the  *)
(* server see, and the clients of a page - one for each component that     *)
(* calls useApi -, which answer a 401 by a refresh and a retry.  The       *)
(* server's layout hands the cookie's token to the page when it renders.   *)
(*                                                                         *)
(* The n-th refresh issues the refresh token n and the access token n.     *)
(* Tokens expire in the order they were issued.  Sessions has the refresh  *)
(* of several browsers, logout and the switch of the workspace.            *)
(***************************************************************************)
EXTENDS Naturals, FiniteSets

CONSTANTS
  ApiClients,       \* one for each component of the page that calls useApi
  Calls,            \* bound: requests of the page
  MaxIssued,        \* bound: tokens issued
  MaxExpiries,      \* bound: times at which tokens expire
  MaxRefreshFaults  \* bound: refreshes without an answer

ASSUME ApiClientAssumption ==
  /\ ApiClients # {} /\ IsFiniteSet(Calls) /\ Calls \subseteq Nat
  /\ MaxIssued \in Nat \ {0} /\ MaxExpiries \in Nat /\ MaxRefreshFaults \in Nat

VARIABLES
  issued,     \* tokens issued so far
  unrevoked,  \* refresh tokens
  expired,    \* access tokens up to this one
  jar,        \* the cookies; 0: none
  memory,     \* accessToken of lib/auth
  seeded,     \* initialAccessToken of the last render
  render,     \* a render of the server's layout
  call,       \* the requests
  refresh,    \* refreshInFlight, by the call it began with
  parted,     \* only observes: refreshes of two clients overlapped, or one was lost
  expiries, refreshFaults

authVars == <<issued, unrevoked, expired, jar, memory, seeded, render, call, refresh, parted,
              expiries, refreshFaults>>

Tokens == 0 .. MaxIssued
NotCalled == [step |-> "idle", by |-> CHOOSE a \in ApiClients : TRUE, token |-> 0,
              refused |-> 0, retried |-> FALSE, joined |-> {}]
Ended(how) == [NotCalled EXCEPT !.step = how]
NoRefresh == [step |-> "none", carries |-> 0, brings |-> 0]

ApiClientTypeOK ==
  /\ issued \in Tokens /\ expired \in Tokens /\ memory \in Tokens /\ seeded \in Tokens
  /\ unrevoked \in SUBSET Tokens
  /\ jar \in [refresh : Tokens, access : Tokens]
  /\ render \in [step : {"none", "asked", "answered"}, token : Tokens]
  /\ call \in [Calls -> [step : {"idle", "sent", "refused", "waiting", "ok", "failed"},
                         by : ApiClients, token : Tokens, refused : Tokens,
                         retried : BOOLEAN, joined : SUBSET Calls]]
  /\ refresh \in [Calls -> [step : {"none", "sent", "found", "denied", "rotated"},
                            carries : Tokens, brings : Tokens]]
  /\ parted \in BOOLEAN
  /\ expiries \in 0 .. MaxExpiries /\ refreshFaults \in 0 .. MaxRefreshFaults

\* A page that was just loaded: nothing is in memory until its first effects have run,
\* those of the components before the provider's.  The access cookie may have expired.
ApiClientInit ==
  /\ issued = 1 /\ unrevoked = {1} /\ expired \in {0, 1}
  /\ jar = [refresh |-> 1, access |-> 1 - expired]
  /\ memory = 0 /\ seeded = 0 /\ render = [step |-> "answered", token |-> 1 - expired]
  /\ call = [c \in Calls |-> NotCalled]
  /\ refresh = [c \in Calls |-> NoRefresh]
  /\ parted = FALSE /\ expiries = 0 /\ refreshFaults = 0

tokenVars == <<issued, unrevoked, expired, expiries>>
memoryVars == <<memory, seeded, render>>

Kept(token) == IF token > expired THEN token ELSE 0

\* ACCESS_TOKEN_TTL_SECONDS: a token and the cookie that holds it expire together.
TokensExpire ==
  /\ expiries < MaxExpiries /\ expiries' = expiries + 1
  /\ expired' \in expired + 1 .. issued
  /\ jar' = [jar EXCEPT !.access = IF @ > expired' THEN @ ELSE 0]
  /\ UNCHANGED <<issued, unrevoked, memoryVars, call, refresh, parted, refreshFaults>>

-----------------------------------------------------------------------------
\* apiFetch

CallApi(c) ==
  /\ call[c].step = "idle" /\ \A d \in Calls : d < c => call[d].step # "idle"
  /\ \E a \in ApiClients :
       call' = [call EXCEPT ![c].step = "sent", ![c].by = a, ![c].token = memory]
  /\ UNCHANGED <<tokenVars, jar, memoryVars, refresh, parted, refreshFaults>>

\* resolveAuthIdentity looks at the header alone, not at the cookie.
AnswerCall(c) ==
  /\ call[c].step = "sent"
  /\ call' = IF Kept(call[c].token) # 0 THEN [call EXCEPT ![c] = Ended("ok")]
             ELSE [call EXCEPT ![c].step = "refused"]
  /\ UNCHANGED <<tokenVars, jar, memoryVars, refresh, parted, refreshFaults>>

Refreshing == {f \in Calls : refresh[f].step # "none"}
SameClient(c) == {f \in Refreshing : call[f].by = call[c].by}

\* POST /auth/refresh carries the cookies of the moment it is sent at.
SendRefresh(c) ==
  /\ refresh' = [refresh EXCEPT ![c] = [step |-> "sent", carries |-> jar.refresh, brings |-> 0]]
  /\ parted' = (parted \/ Refreshing \ SameClient(c) # {})

\* Mutant: every call that is refused refreshes by itself.
EnsureRefreshed_ByItself(c) ==
  /\ call[c].step = "refused" /\ ~call[c].retried
  /\ call' = [call EXCEPT ![c].step = "waiting", ![c].joined = {c}]
  /\ SendRefresh(c)
  /\ UNCHANGED <<tokenVars, jar, memoryVars, refreshFaults>>

\* ensureRefreshed: the calls of a client share one refresh.
EnsureRefreshed(c) ==
  /\ call[c].step = "refused" /\ ~call[c].retried
  /\ IF SameClient(c) # {}
       THEN /\ call' = [call EXCEPT ![c].step = "waiting", ![c].joined = SameClient(c)]
            /\ UNCHANGED <<refresh, parted>>
       ELSE /\ call' = [call EXCEPT ![c].step = "waiting", ![c].joined = {c}]
            /\ SendRefresh(c)
  /\ UNCHANGED <<tokenVars, jar, memoryVars, refreshFaults>>

\* A call is not retried twice.
RefusedAgain(c) ==
  /\ call[c].step = "refused" /\ call[c].retried
  /\ call' = [call EXCEPT ![c] = Ended("failed")]
  /\ UNCHANGED <<tokenVars, jar, memoryVars, refresh, parted, refreshFaults>>

-----------------------------------------------------------------------------
\* POST /auth/refresh at the API.

\* requireActiveRefreshToken, and rotateRefreshToken again: only the last look counts.
LookUp(f) ==
  /\ refresh[f].step = "sent"
  /\ refresh' = [refresh EXCEPT ![f].step =
                   IF refresh[f].carries \in unrevoked THEN "found" ELSE "denied"]
  /\ UNCHANGED <<tokenVars, jar, memoryVars, call, parted, refreshFaults>>

\* It revokes what it found and issues the next pair.
Exchange(f) ==
  /\ refresh[f].step = "found" /\ issued < MaxIssued
  /\ issued' = issued + 1
  /\ unrevoked' = (unrevoked \ {refresh[f].carries}) \cup {issued + 1}
  /\ refresh' = [refresh EXCEPT ![f].step = "rotated", ![f].brings = issued + 1]
  /\ UNCHANGED <<expired, expiries, jar, memoryVars, call, parted, refreshFaults>>

-----------------------------------------------------------------------------
\* The answer to a refresh, and the calls that wait for it.

Waiting(f) == {c \in Calls : call[c].step = "waiting" /\ f \in call[c].joined}

\* Every call that waits is sent once more, with what is in memory, or fails.
Resume(f, refreshed) ==
  call' = [c \in Calls |->
    IF c \notin Waiting(f) THEN call[c]
    ELSE IF refreshed
      THEN [call[c] EXCEPT !.step = "sent", !.retried = TRUE, !.joined = {},
                           !.refused = call[c].token, !.token = memory]
      ELSE Ended("failed")]

\* Mutant: the server's layout is not asked for the new token.
Refreshed_Silently(f) ==
  /\ refresh[f].step = "rotated"
  /\ jar' = [refresh |-> refresh[f].brings, access |-> Kept(refresh[f].brings)]
  /\ Resume(f, memory # 0)
  /\ refresh' = [refresh EXCEPT ![f] = NoRefresh]
  /\ UNCHANGED <<tokenVars, memoryVars, parted, refreshFaults>>

\* The browser takes the cookies and hides them from the page, which asks for a render
\* (onAuthRefreshed) but does not wait for it.
Refreshed(f) ==
  /\ refresh[f].step = "rotated"
  /\ jar' = [refresh |-> refresh[f].brings, access |-> Kept(refresh[f].brings)]
  /\ Resume(f, memory # 0)
  /\ refresh' = [refresh EXCEPT ![f] = NoRefresh]
  /\ render' = [step |-> "asked", token |-> 0]
  /\ UNCHANGED <<tokenVars, memory, seeded, parted, refreshFaults>>

\* The refresh token was revoked: nothing is changed, the cookies neither.
RefreshDenied(f) ==
  /\ refresh[f].step = "denied"
  /\ Resume(f, FALSE)
  /\ refresh' = [refresh EXCEPT ![f] = NoRefresh]
  /\ UNCHANGED <<tokenVars, jar, memoryVars, parted, refreshFaults>>

\* The request does not arrive, or its answer does not: the fetch throws.
RefreshLost(f) ==
  /\ refresh[f].step \in {"sent", "rotated"}
  /\ refreshFaults < MaxRefreshFaults /\ refreshFaults' = refreshFaults + 1
  /\ Resume(f, FALSE)
  /\ refresh' = [refresh EXCEPT ![f] = NoRefresh]
  /\ parted' = TRUE
  /\ UNCHANGED <<tokenVars, jar, memoryVars>>

-----------------------------------------------------------------------------
\* The server's layout reads the access cookie; ApiAuthProvider puts it into memory
\* when it is another than before.

ReadCookie ==
  /\ render.step = "asked"
  /\ render' = [step |-> "answered", token |-> jar.access]
  /\ UNCHANGED <<tokenVars, jar, memory, seeded, call, refresh, parted, refreshFaults>>

Seed ==
  /\ render.step = "answered"
  /\ seeded' = render.token
  /\ memory' = IF render.token \notin {0, seeded} THEN render.token ELSE memory
  /\ render' = [step |-> "none", token |-> 0]
  /\ UNCHANGED <<tokenVars, jar, call, refresh, parted, refreshFaults>>

ApiClientStep ==
  \/ \E c \in Calls : \/ AnswerCall(c) \/ EnsureRefreshed(c) \/ RefusedAgain(c)
                      \/ LookUp(c) \/ Exchange(c) \/ Refreshed(c) \/ RefreshDenied(c)
  \/ ReadCookie \/ Seed

ApiClientNext ==
  \/ ApiClientStep
  \/ TokensExpire
  \/ \E c \in Calls : CallApi(c) \/ RefreshLost(c)

ApiClientSpec == ApiClientInit /\ [][ApiClientNext]_authVars /\ WF_authVars(ApiClientStep)

-----------------------------------------------------------------------------

\* Through expiry, refusals and refreshes the session stays one and usable: no refresh
\* is denied, and of its refresh tokens the one that was not revoked is in the cookie, or
\* in an answer on its way - as long as no two clients refreshed at a time and no refresh
\* was lost.
SessionKept ==
  ~parted => /\ \A f \in Calls : refresh[f].step # "denied"
             /\ \E t \in Tokens :
                  /\ unrevoked = {t}
                  /\ jar.refresh = t \/ \E f \in Calls : refresh[f].step = "rotated" /\ refresh[f].brings = t

\* No call waits for ever, also when the refresh it shares fails; and the token in memory
\* is in the end the one of the cookie, if that has not expired.
TokenSettles ==
  <>[](/\ \A c \in Calls : call[c].step \in {"idle", "ok", "failed"}
       /\ jar.access \in {0, memory})

\* api-client.test.ts: "refreshes once on 401 and retries the original request", with the
\* token of the refresh.  A retry carries another token than the one that was refused.
RetryCarriesNewToken == \A c \in Calls : call[c].retried => call[c].token # call[c].refused

=============================================================================
