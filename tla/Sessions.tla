------------------------------ MODULE Sessions ------------------------------
(***************************************************************************)
(* The sessions of one user: the refresh_tokens rows, the two cookies of    *)
(* each browser, and the calls that join them - sign-in, refresh, logout,   *)
(* logout-all and switch-workspace.                                        *)
(*                                                                         *)
(* Every call looks its refresh token up in one statement and acts on it   *)
(* in a later one, and a browser sends several at once: each component of  *)
(* the web client refreshes through a client of its own.  The cookies      *)
(* change only when the answer arrives, which it may not.                  *)
(***************************************************************************)
EXTENDS Naturals, FiniteSets

CONSTANTS
  Browsers,
  Workspaces,        \* the user is a member of all of them
  Primary,           \* the workspace the user was invited to last
  SessionCalls,      \* calls that may be in progress at the same time
  MaxTokens,         \* bound: rows of refresh_tokens
  MaxSessionFaults   \* bound: calls that die or lose their answer

None == 0
Tokens == 1 .. MaxTokens

ASSUME SessionAssumption ==
  /\ MaxTokens \in Nat /\ MaxSessionFaults \in Nat
  /\ Primary \in Workspaces /\ None \notin Workspaces
  /\ IsFiniteSet(SessionCalls)

VARIABLES
  token,     \* each row: not stored yet, live, or revoked or expired
  chain,     \* the sign-in each row descends from, as the row it stored
  issued,    \* rows stored so far
  refresh,   \* refresh cookie of each browser
  access,    \* workspace claim of its access cookie
  call,      \* calls in progress
  \* observation and bound
  disturbed, \* sign-ins something befell that may split or end the session
  overlaps,  \* refreshes of each sign-in that passed the lookup another had passed
  chosen,    \* workspace each browser switched to
  cleared,   \* logout-all ran beside no rotation, and nobody signed in since
  callFaults

cookieVars == <<refresh, access>>
sessionVars ==
  <<token, chain, issued, refresh, access, call, disturbed, overlaps, chosen, cleared,
    callFaults>>

Kinds == {"signin", "refresh", "logout", "logoutAll", "switch"}
NoCall == [step |-> "idle", kind |-> "refresh", browser |-> None, sent |-> None,
           claim |-> None, got |-> None]

SessionTypeOK ==
  /\ token \in [Tokens -> {"unused", "live", "dead"}]
  /\ chain \in [Tokens -> Tokens \cup {None}]
  /\ issued \in 0 .. MaxTokens
  /\ refresh \in [Browsers -> Tokens \cup {None}]
  /\ access \in [Browsers -> Workspaces \cup {None}]
  /\ call \in [SessionCalls ->
                 [step : {"idle", "lookup", "act", "reply"}, kind : Kinds,
                  browser : Browsers \cup {None}, sent : Tokens \cup {None},
                  claim : Workspaces \cup {None}, got : Tokens \cup {None}]]
  /\ disturbed \in SUBSET Tokens
  /\ overlaps \in [Tokens -> Nat]
  /\ chosen \in [Browsers -> Workspaces \cup {None}]
  /\ cleared \in BOOLEAN
  /\ callFaults \in 0 .. MaxSessionFaults

SessionInit ==
  /\ token = [t \in Tokens |-> "unused"]
  /\ chain = [t \in Tokens |-> None]
  /\ issued = 0
  /\ refresh = [b \in Browsers |-> None]
  /\ access = [b \in Browsers |-> None]
  /\ call = [q \in SessionCalls |-> NoCall]
  /\ disturbed = {}
  /\ overlaps = [t \in Tokens |-> 0]
  /\ chosen = [b \in Browsers |-> None]
  /\ cleared = FALSE
  /\ callFaults = 0

-----------------------------------------------------------------------------

At(q, step, kinds) == call[q].step = step /\ call[q].kind \in kinds

\* The sign-in of the token a call carries.
Root(q) == chain[call[q].sent]

\* A refresh looks up a token that another one is about to rotate.
Overlapping(q) ==
  /\ call[q].kind = "refresh"
  /\ \E p \in SessionCalls : At(p, "act", {"refresh"}) /\ call[p].sent = call[q].sent

Goto(q, step) == call' = [call EXCEPT ![q].step = step]
EndCall(q) == call' = [call EXCEPT ![q] = NoCall]

\* Mutant: a row is stored beyond the one the token names.
Store_Twice(t, root) == chain' = [chain EXCEPT ![t] = root] /\ issued' = t + 1

\* storeRefreshToken: the next row, of the sign-in root.
Store(t, root) == chain' = [chain EXCEPT ![t] = root] /\ issued' = t

\* A browser calls with its cookies.  Two calls with one token at the same time
\* are what disturbs a session.
Send(q) ==
  /\ call[q].step = "idle"
  /\ \E b \in Browsers, kind \in Kinds, w \in Workspaces :
       /\ kind = "signin" \/ refresh[b] # None
       /\ kind # "switch" => w = Primary
       /\ call' = [call EXCEPT ![q] =
            [step |-> IF kind = "signin" THEN "act" ELSE "lookup", kind |-> kind,
             browser |-> b,
             sent |-> IF kind = "signin" THEN None ELSE refresh[b],
             claim |-> CASE kind = "switch" -> w
                         [] kind = "refresh" -> access[b]
                         [] OTHER -> None,
             got |-> None]]
       /\ disturbed' = disturbed \cup
            {chain[t] : t \in {u \in Tokens : /\ kind # "signin" /\ u = refresh[b]
                                              /\ \E p \in SessionCalls \ {q} : call[p].sent = u}}
  /\ UNCHANGED <<token, chain, issued, cookieVars, overlaps, chosen, cleared, callFaults>>

\* requireActiveRefreshToken: 401 unless the row is live.  A refresh looks twice;
\* as a row never becomes live again, the second time is the one that counts.
Lookup(q) ==
  /\ call[q].step = "lookup"
  /\ IF token[call[q].sent] = "live"
       THEN /\ Goto(q, "act")
            /\ overlaps' = IF Overlapping(q)
                 THEN [overlaps EXCEPT ![Root(q)] = @ + 1] ELSE overlaps
       ELSE EndCall(q) /\ UNCHANGED overlaps
  /\ UNCHANGED <<token, chain, issued, cookieVars, disturbed, chosen, cleared, callFaults>>

\* The callback of GitHub stores the first token of a session.
SignIn(q) ==
  /\ At(q, "act", {"signin"})
  /\ issued < MaxTokens
  /\ LET t == issued + 1 IN
       /\ token' = [token EXCEPT ![t] = "live"]
       /\ Store(t, t)
       /\ call' = [call EXCEPT ![q].step = "reply", ![q].got = t, ![q].claim = Primary]
  /\ cleared' = FALSE
  /\ UNCHANGED <<cookieVars, disturbed, overlaps, chosen, callFaults>>

\* Mutant: the old row is left live.
Rotate_KeepsOld(q) ==
  /\ At(q, "act", {"refresh"})
  /\ issued < MaxTokens
  /\ LET t == issued + 1 IN
       /\ token' = [token EXCEPT ![t] = "live"]
       /\ Store(t, Root(q))
       /\ call' = [call EXCEPT ![q].step = "reply", ![q].got = t]
  /\ UNCHANGED <<cookieVars, disturbed, overlaps, chosen, cleared, callFaults>>

\* rotateRefreshToken: one transaction revokes the old row, whatever its state by
\* now, and stores the new one.
Rotate(q) ==
  /\ At(q, "act", {"refresh"})
  /\ issued < MaxTokens
  /\ LET t == issued + 1 IN
       /\ token' = [token EXCEPT ![call[q].sent] = "dead", ![t] = "live"]
       /\ Store(t, Root(q))
       /\ call' = [call EXCEPT ![q].step = "reply", ![q].got = t]
  /\ UNCHANGED <<cookieVars, disturbed, overlaps, chosen, cleared, callFaults>>

\* revokeRefreshTokenById
Logout(q) ==
  /\ At(q, "act", {"logout"})
  /\ token' = [token EXCEPT ![call[q].sent] = IF @ = "live" THEN "dead" ELSE @]
  /\ Goto(q, "reply")
  /\ UNCHANGED <<chain, issued, cookieVars, disturbed, overlaps, chosen, cleared, callFaults>>

\* Mutant: only the token of the calling session is revoked.
LogoutAll_Own(q) ==
  /\ At(q, "act", {"logoutAll"})
  /\ token' = [token EXCEPT ![call[q].sent] = IF @ = "live" THEN "dead" ELSE @]
  /\ disturbed' = disturbed \cup {chain[t] : t \in {u \in Tokens : token[u] = "live"}}
  /\ cleared' = ~ \E p \in SessionCalls : At(p, "act", {"refresh"})
  /\ Goto(q, "reply")
  /\ UNCHANGED <<chain, issued, cookieVars, overlaps, chosen, callFaults>>

\* revokeAllUserRefreshTokens: every row that is live at this moment.
LogoutAll(q) ==
  /\ At(q, "act", {"logoutAll"})
  /\ token' = [t \in Tokens |-> IF token[t] = "live" THEN "dead" ELSE token[t]]
  /\ disturbed' = disturbed \cup {chain[t] : t \in {u \in Tokens : token[u] = "live"}}
  /\ cleared' = ~ \E p \in SessionCalls : At(p, "act", {"refresh"})
  /\ Goto(q, "reply")
  /\ UNCHANGED <<chain, issued, cookieVars, overlaps, chosen, callFaults>>

\* switch-workspace writes nothing: the token answers for the new claim.
SwitchWorkspace(q) ==
  /\ At(q, "act", {"switch"})
  /\ Goto(q, "reply")
  /\ UNCHANGED <<token, chain, issued, cookieVars, disturbed, overlaps, chosen, cleared, callFaults>>

\* Mutant: the refresh cookie is not set again.
Reply_KeepsCookie(q) ==
  /\ call[q].step = "reply"
  /\ LET c == call[q] IN
       /\ refresh' = [refresh EXCEPT ![c.browser] =
            IF c.kind = "signin" THEN c.got
            ELSE IF c.kind \in {"logout", "logoutAll"} THEN None ELSE @]
       /\ access' = access
       /\ chosen' = chosen
  /\ EndCall(q)
  /\ UNCHANGED <<token, chain, issued, disturbed, overlaps, cleared, callFaults>>

\* The answer arrives: its Set-Cookie headers replace what the browser holds by
\* then.  A refresh copies the workspace of the access cookie it came with, or
\* resolves the primary one (resolveWorkspaceClaims).
Reply(q) ==
  /\ call[q].step = "reply"
  /\ LET c == call[q]
         out == c.kind \in {"logout", "logoutAll"}
     IN
       /\ refresh' = [refresh EXCEPT ![c.browser] =
            IF out THEN None ELSE IF c.kind = "switch" THEN @ ELSE c.got]
       /\ access' = [access EXCEPT ![c.browser] =
            IF out THEN None ELSE IF c.claim = None THEN Primary ELSE c.claim]
       /\ chosen' = [chosen EXCEPT ![c.browser] =
            CASE c.kind = "switch" -> c.claim
              [] c.kind = "refresh" -> @
              [] OTHER -> None]
  /\ EndCall(q)
  /\ UNCHANGED <<token, chain, issued, disturbed, overlaps, cleared, callFaults>>

\* The call fails or its process dies after the lookup, or its answer is lost:
\* what it wrote stays written.
Drop(q) ==
  /\ call[q].step \in {"act", "reply"}
  /\ callFaults < MaxSessionFaults
  /\ callFaults' = callFaults + 1
  /\ disturbed' = disturbed \cup {chain[t] : t \in Tokens \cap {call[q].sent, call[q].got}}
  /\ EndCall(q)
  /\ UNCHANGED <<token, chain, issued, cookieVars, overlaps, chosen, cleared>>

\* Fifteen minutes pass: the browser drops the access cookie, whose maxAge is the
\* lifetime of the token in it.
AccessExpires(b) ==
  /\ access[b] # None
  /\ access' = [access EXCEPT ![b] = None]
  /\ UNCHANGED <<token, chain, issued, refresh, call, disturbed, overlaps, chosen, cleared, callFaults>>

\* Thirty days pass.
TokenExpires(t) ==
  /\ token[t] = "live"
  /\ token' = [token EXCEPT ![t] = "dead"]
  /\ disturbed' = disturbed \cup {chain[t]}
  /\ UNCHANGED <<chain, issued, cookieVars, call, overlaps, chosen, cleared, callFaults>>

SessionNext ==
  \/ \E q \in SessionCalls :
       \/ Send(q) \/ Lookup(q) \/ SignIn(q) \/ Rotate(q) \/ Logout(q) \/ LogoutAll(q)
       \/ SwitchWorkspace(q) \/ Reply(q) \/ Drop(q)
  \/ \E b \in Browsers : AccessExpires(b)
  \/ \E t \in Tokens : TokenExpires(t)

SessionSpec == SessionInit /\ [][SessionNext]_sessionVars

-----------------------------------------------------------------------------

LiveOf(root) == {t \in Tokens : token[t] = "live" /\ chain[t] = root}

\* "One row per active session": however refreshes, logouts, logout-all, expiry,
\* dead calls and lost answers follow one another, a sign-in has one live token at
\* most, and one more for each refresh that looked its token up between another's
\* lookup and its rotation: two statements may split a session, nothing else does.
OneLivePerSession ==
  \A root \in Tokens : Cardinality(LiveOf(root)) <= 1 + overlaps[root]

\* A session does not end by itself: when no call of the browser is under way and
\* nothing befell its session, the token in its cookie is live.
CookieStaysLive ==
  \A b \in Browsers :
    /\ refresh[b] # None /\ chain[refresh[b]] \notin disturbed
    /\ \A q \in SessionCalls : call[q].step # "idle" => call[q].browser # b
    => token[refresh[b]] = "live"

\* Logout-all leaves no token alive, and no call that could bring one to life,
\* unless a rotation had passed its lookup when it ran.
LogoutAllHolds == cleared => \A t \in Tokens : token[t] # "live"

\* "preserve active workspace context after switch-workspace": a browser that
\* switched workspace carries a claim for that workspace or none.
SwitchedWorkspaceKept ==
  \A b \in Browsers : chosen[b] # None => access[b] \in {None, chosen[b]}

=============================================================================
