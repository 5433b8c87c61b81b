--------------------------- MODULE Sessions_proofs ---------------------------
(***************************************************************************)
(* For any number of browsers, workspaces, calls and tokens: the types, the *)
(* live tokens of a session, the cookie that stays live, and logout-all.    *)
(*                                                                         *)
(* A call acts on a token it looked up earlier, so the invariant follows a *)
(* token through the calls that carry it: two calls with one token have    *)
(* disturbed its session, and a token on its way to a browser is nobody    *)
(* else's yet.                                                             *)
(***************************************************************************)
EXTENDS Sessions, FiniteSetTheorems, TLAPS

USE SessionAssumption DEF Tokens, None

Steps == {"idle", "lookup", "act", "reply"}
Calls == [step : Steps, kind : Kinds, browser : Browsers \cup {None},
          sent : Tokens \cup {None}, claim : Workspaces \cup {None}, got : Tokens \cup {None}]

\* A call with n rows stored: what it carries and what it was given.
Shaped(c, n) ==
  /\ c.sent \in 0 .. n /\ c.got \in 0 .. n
  /\ c.step = "idle" => c.sent = None /\ c.got = None
  /\ c.step # "idle" => c.browser \in Browsers
  /\ c.kind = "signin" => c.sent = None
  /\ c.step # "idle" /\ c.kind # "signin" => c.sent # None
  /\ c.step = "lookup" => c.kind # "signin"
  /\ c.got # None => c.step = "reply"
  /\ c.step = "reply" /\ c.kind \in {"signin", "refresh"} => c.got # None

TokenRows ==
  \A t \in Tokens :
    IF t <= issued THEN chain[t] \in 1 .. issued /\ token[t] # "unused"
                   ELSE chain[t] = None /\ token[t] = "unused"

Shape ==
  /\ SessionTypeOK
  /\ TokenRows
  /\ \A q \in SessionCalls : Shaped(call[q], issued)
  /\ \A b \in Browsers : refresh[b] \in 0 .. issued

\* A token is in one browser's cookie, calls or answers.
OneHolder ==
  /\ \A b, c \in Browsers : refresh[b] # None /\ refresh[b] = refresh[c] => b = c
  /\ \A q \in SessionCalls, b \in Browsers :
       call[q].sent # None /\ call[q].sent = refresh[b] => call[q].browser = b
  /\ \A q \in SessionCalls : call[q].got # None =>
       /\ \A p \in SessionCalls : call[p].sent # call[q].got
       /\ \A p \in SessionCalls \ {q} : call[p].got # call[q].got
       /\ \A b \in Browsers : refresh[b] # call[q].got

\* Two calls with one token disturb its session.
OverlapDisturbs ==
  \A p, q \in SessionCalls :
    p # q /\ call[p].sent # None /\ call[p].sent = call[q].sent => chain[call[p].sent] \in disturbed

\* The tokens of an undisturbed session: what a call looked up, or was given, is
\* live.
TokensLive ==
  \A q \in SessionCalls :
    /\ call[q].step = "act" /\ call[q].sent # None /\ chain[call[q].sent] \notin disturbed
         => token[call[q].sent] = "live"
    /\ call[q].got # None /\ chain[call[q].got] \notin disturbed => token[call[q].got] = "live"

\* A cookie is live, or an answer is on its way that replaces it.
Replaced(b) ==
  \E q \in SessionCalls :
    /\ call[q].step = "reply" /\ call[q].kind \in {"refresh", "logout"}
    /\ call[q].browser = b /\ call[q].sent = refresh[b]

CookiesLive ==
  \A b \in Browsers :
    refresh[b] # None /\ chain[refresh[b]] \notin disturbed => token[refresh[b]] = "live" \/ Replaced(b)

Inv == Shape /\ OneHolder /\ OverlapDisturbs /\ TokensLive /\ CookiesLive

-----------------------------------------------------------------------------

LEMMA NoCallShape == NoCall \in Calls /\ NoCall.step = "idle" /\ \A n \in Nat : Shaped(NoCall, n)
BY DEF NoCall, Calls, Kinds, Steps, Shaped

LEMMA TypeFacts ==
  ASSUME SessionTypeOK
  PROVE  /\ token \in [Tokens -> {"unused", "live", "dead"}]
         /\ chain \in [Tokens -> Tokens \cup {None}]
         /\ issued \in 0 .. MaxTokens
         /\ refresh \in [Browsers -> Tokens \cup {None}]
         /\ access \in [Browsers -> Workspaces \cup {None}]
         /\ call \in [SessionCalls -> Calls]
         /\ disturbed \in SUBSET Tokens
         /\ overlaps \in [Tokens -> Nat]
         /\ chosen \in [Browsers -> Workspaces \cup {None}]
         /\ cleared \in BOOLEAN
         /\ callFaults \in 0 .. MaxSessionFaults
BY DEF SessionTypeOK, Calls, Steps

LEMMA InitShape == SessionInit => Shape
<1> SUFFICES ASSUME SessionInit PROVE Shape
  OBVIOUS
<1>1. call \in [SessionCalls -> Calls] /\ \A q \in SessionCalls : Shaped(call[q], 0)
  BY NoCallShape DEF SessionInit
<1>2. /\ token \in [Tokens -> {"unused", "live", "dead"}]
      /\ chain \in [Tokens -> Tokens \cup {None}]
  BY DEF SessionInit
<1>3. issued \in 0 .. MaxTokens /\ callFaults \in 0 .. MaxSessionFaults
  BY DEF SessionInit
<1>4. /\ refresh \in [Browsers -> Tokens \cup {None}]
      /\ access \in [Browsers -> Workspaces \cup {None}]
      /\ chosen \in [Browsers -> Workspaces \cup {None}]
  BY DEF SessionInit
<1>5. disturbed \in SUBSET Tokens /\ overlaps \in [Tokens -> Nat]
  BY DEF SessionInit
<1>6. cleared \in BOOLEAN
  BY DEF SessionInit
<1>7. SessionTypeOK
  BY <1>1, <1>2, <1>3, <1>4, <1>5, <1>6 DEF SessionTypeOK, Calls, Steps
<1>8. TokenRows
  BY DEF SessionInit, TokenRows
<1>9. \A b \in Browsers : refresh[b] \in 0 .. issued
  BY DEF SessionInit
<1>10. \A q \in SessionCalls : Shaped(call[q], issued)
  BY <1>1 DEF SessionInit
<1> QED BY <1>7, <1>8, <1>9, <1>10 DEF Shape

\* What a step of one call does to the calls.
LEMMA OneCall ==
  ASSUME call \in [SessionCalls -> Calls], NEW q \in SessionCalls, NEW v \in Calls,
         call' = [call EXCEPT ![q] = v]
  PROVE  /\ call' \in [SessionCalls -> Calls]
         /\ call'[q] = v
         /\ \A p \in SessionCalls \ {q} : call'[p] = call[p]
OBVIOUS

\* A step of one call that stores no row keeps the shape.
LEMMA CallKeepsShape ==
  ASSUME Shape, NEW q \in SessionCalls, NEW v \in Calls, call' = [call EXCEPT ![q] = v],
         Shaped(v, issued), UNCHANGED <<chain, issued>>,
         token' \in [Tokens -> {"unused", "live", "dead"}],
         \A t \in Tokens : token[t] = "unused" <=> token'[t] = "unused",
         refresh' \in [Browsers -> Tokens \cup {None}],
         \A b \in Browsers : refresh'[b] \in 0 .. issued,
         access' \in [Browsers -> Workspaces \cup {None}],
         chosen' \in [Browsers -> Workspaces \cup {None}],
         disturbed' \in SUBSET Tokens, overlaps' \in [Tokens -> Nat], cleared' \in BOOLEAN,
         callFaults' \in 0 .. MaxSessionFaults
  PROVE  Shape'
<1> USE TypeFacts DEF Shape
<1>1. /\ call' \in [SessionCalls -> Calls]
      /\ call'[q] = v
      /\ \A p \in SessionCalls \ {q} : call'[p] = call[p]
  BY OneCall
<1>2. SessionTypeOK'
  BY <1>1 DEF SessionTypeOK, Calls, Steps
<1>3. \A p \in SessionCalls : Shaped(call[p], issued)
  OBVIOUS
<1>4. \A p \in SessionCalls : Shaped(call'[p], issued')
  BY <1>1, <1>3
<1>5. TokenRows'
  BY DEF TokenRows
<1> QED BY <1>2, <1>4, <1>5

\* A step that stores the next row, of the sign-in root, and answers with it.
LEMMA StoreKeepsShape ==
  ASSUME Shape, NEW q \in SessionCalls, NEW v \in Calls, call' = [call EXCEPT ![q] = v],
         Shaped(v, issued + 1), issued < MaxTokens,
         NEW root \in 1 .. issued + 1, Store(issued + 1, root),
         token' \in [Tokens -> {"unused", "live", "dead"}],
         \A t \in Tokens : t # issued + 1 => (token[t] = "unused" <=> token'[t] = "unused"),
         token'[issued + 1] # "unused",
         cleared' \in BOOLEAN,
         UNCHANGED <<refresh, access, disturbed, overlaps, chosen, callFaults>>
  PROVE  Shape'
<1> USE TypeFacts DEF Shape
<1>1. /\ call' \in [SessionCalls -> Calls]
      /\ call'[q] = v
      /\ \A p \in SessionCalls \ {q} : call'[p] = call[p]
  BY OneCall
<1>2. issued' = issued + 1 /\ chain' = [chain EXCEPT ![issued + 1] = root]
  BY DEF Store
<1>3. issued + 1 \in Tokens /\ issued' \in 0 .. MaxTokens
  BY <1>2
<1>4. chain' \in [Tokens -> Tokens \cup {None}]
  BY <1>2, <1>3
<1>5. SessionTypeOK'
  BY <1>1, <1>3, <1>4 DEF SessionTypeOK, Calls, Steps
<1>6. \A p \in SessionCalls : Shaped(call[p], issued + 1)
  BY DEF Shaped
<1>7. \A p \in SessionCalls : Shaped(call'[p], issued')
  BY <1>1, <1>2, <1>6
<1>8. TokenRows'
  BY <1>2, <1>3 DEF TokenRows
<1>9. \A b \in Browsers : refresh'[b] \in 0 .. issued'
  BY <1>2
<1> QED BY <1>5, <1>7, <1>8, <1>9

-----------------------------------------------------------------------------
\* What each step does, token by token and call by call.

Others(q) == \A p \in SessionCalls \ {q} : call'[p] = call[p]

\* The row of a call's token, and its chain, when it is stored.
LEMMA ChainFacts ==
  ASSUME Shape
  PROVE  /\ \A t \in Tokens : t <= issued => chain[t] \in 1 .. issued /\ chain[t] \in Tokens
         /\ \A t \in Tokens : token[t] # "unused" => t <= issued
         /\ \A t \in Tokens : t > issued => chain[t] = None
BY TypeFacts DEF Shape, TokenRows

SendEffect(q) ==
  /\ Shape' /\ Others(q) /\ call[q].step = "idle"
  /\ \E b \in Browsers :
       /\ call'[q].browser = b /\ call'[q].got = None
       /\ \/ call'[q].step = "act" /\ call'[q].sent = None
          \/ call'[q].step = "lookup" /\ call'[q].sent = refresh[b] /\ refresh[b] # None
  /\ \A p \in SessionCalls \ {q} :
       call'[q].sent # None /\ call[p].sent = call'[q].sent => chain[call'[q].sent] \in disturbed'
  /\ disturbed \subseteq disturbed'
  /\ UNCHANGED <<token, chain, issued, refresh, overlaps, cleared>>

LEMMA SendDoes == ASSUME Shape, NEW q \in SessionCalls, Send(q) PROVE SendEffect(q)
<1> USE TypeFacts DEF Shape
<1>1. PICK b \in Browsers, kind \in Kinds, w \in Workspaces :
       /\ kind = "signin" \/ refresh[b] # None
       /\ kind # "switch" => w = Primary
       /\ call' = [call EXCEPT ![q] =
            [step |-> IF kind = "signin" THEN "act" ELSE "lookup", kind |-> kind,
             browser |-> b,
             sent |-> IF kind = "signin" THEN None ELSE refresh[b],
             claim |-> CASE kind = "switch" -> w
                         [] kind = "refresh" -> access[b]
                         [] OTHER -> None,
             got |-> None]]
       /\ disturbed' = disturbed \cup
            {chain[t] : t \in {u \in Tokens : /\ kind # "signin" /\ u = refresh[b]
                                              /\ \E p \in SessionCalls \ {q} : call[p].sent = u}}
  BY Zenon DEF Send
<1> DEFINE claim == CASE kind = "switch" -> w [] kind = "refresh" -> access[b] [] OTHER -> None
           v == [step |-> IF kind = "signin" THEN "act" ELSE "lookup", kind |-> kind,
                 browser |-> b,
                 sent |-> IF kind = "signin" THEN None ELSE refresh[b],
                 claim |-> claim, got |-> None]
<1>2. call[q].step = "idle" /\ UNCHANGED <<token, chain, issued, cookieVars, overlaps, chosen, cleared, callFaults>>
  BY DEF Send
<1>3. claim \in Workspaces \cup {None}
  <2>1. CASE kind = "switch"
    BY <2>1
  <2>2. CASE kind = "refresh"
    BY <2>2
  <2>3. CASE kind # "switch" /\ kind # "refresh"
    BY <2>3
  <2> QED BY <2>1, <2>2, <2>3
<1> HIDE DEF claim
<1>4. v \in Calls /\ Shaped(v, issued)
  BY <1>1, <1>3 DEF Calls, Steps, Kinds, Shaped
<1>5. call' = [call EXCEPT ![q] = v]
  BY <1>1 DEF claim
<1>6. disturbed' \in SUBSET Tokens
  <2>1. \A t \in Tokens : t = refresh[b] => chain[t] \in Tokens
    BY ChainFacts
  <2> QED BY <1>1, <2>1
<1>7. v.step = (IF kind = "signin" THEN "act" ELSE "lookup") /\ v.browser = b /\ v.got = None
      /\ v.sent = (IF kind = "signin" THEN None ELSE refresh[b])
  OBVIOUS
<1> HIDE DEF v
<1>8. Shape'
  BY <1>2, <1>4, <1>5, <1>6, CallKeepsShape DEF cookieVars
<1>9. call'[q] = v /\ Others(q)
  BY <1>4, <1>5 DEF Others
<1>10. \A p \in SessionCalls \ {q} :
         call'[q].sent # None /\ call[p].sent = call'[q].sent => chain[call'[q].sent] \in disturbed'
  <2> SUFFICES ASSUME NEW p \in SessionCalls \ {q}, v.sent # None, call[p].sent = v.sent
               PROVE  chain[v.sent] \in disturbed'
    BY <1>9
  <2>1. kind # "signin" /\ v.sent = refresh[b] /\ v.sent \in Tokens
    BY <1>7
  <2> QED BY <1>1, <2>1
<1>11. \/ call'[q].step = "act" /\ call'[q].sent = None
       \/ call'[q].step = "lookup" /\ call'[q].sent = refresh[b] /\ refresh[b] # None
  BY <1>1, <1>7, <1>9
<1> QED BY <1>1, <1>2, <1>7, <1>8, <1>9, <1>10, <1>11 DEF SendEffect, cookieVars

LookupEffect(q) ==
  /\ Shape' /\ Others(q) /\ call[q].step = "lookup"
  /\ \/ /\ token[call[q].sent] = "live"
        /\ call'[q] = [call[q] EXCEPT !.step = "act"]
     \/ token[call[q].sent] # "live" /\ call'[q] = NoCall
  /\ overlaps' = IF token[call[q].sent] = "live" /\ Overlapping(q)
                  THEN [overlaps EXCEPT ![chain[call[q].sent]] = @ + 1] ELSE overlaps
  /\ UNCHANGED <<token, chain, issued, refresh, disturbed, cleared>>

LEMMA LookupDoes == ASSUME Shape, NEW q \in SessionCalls, Lookup(q) PROVE LookupEffect(q)
<1> USE TypeFacts, NoCallShape DEF Shape
<1> DEFINE v == IF token[call[q].sent] = "live" THEN [call[q] EXCEPT !.step = "act"] ELSE NoCall
<1>1. call[q] \in Calls /\ Shaped(call[q], issued) /\ call[q].step = "lookup"
  BY DEF Lookup
<1>2. v \in Calls
  BY <1>1 DEF Calls, Steps
<1>3. Shaped(v, issued)
  BY <1>1 DEF Calls, Steps, Shaped
<1>4. call' = [call EXCEPT ![q] = v]
  BY DEF Lookup, Goto, EndCall
<1>5. /\ UNCHANGED <<token, chain, issued, cookieVars, disturbed, chosen, cleared, callFaults>>
      /\ overlaps' = IF token[call[q].sent] = "live" /\ Overlapping(q)
                     THEN [overlaps EXCEPT ![chain[call[q].sent]] = @ + 1] ELSE overlaps
  BY DEF Lookup, Root
<1>6. Shape'
  <2> HIDE DEF v
  <2>1. overlaps' \in [Tokens -> Nat]
    <3>1. call[q].sent \in Tokens => chain[call[q].sent] \in Tokens \cup {None}
      OBVIOUS
    <3>2. \A n \in Nat : n + 1 \in Nat
      OBVIOUS
    <3> QED BY <1>5, <3>2
  <2> QED BY <1>2, <1>3, <1>4, <1>5, <2>1, CallKeepsShape DEF cookieVars
<1>7. call'[q] = v /\ Others(q)
  BY <1>2, <1>4 DEF Others
<1> QED BY <1>1, <1>5, <1>6, <1>7 DEF LookupEffect, cookieVars

StoreEffect(q, root, rotated) ==
  /\ Shape' /\ Others(q) /\ call[q].step = "act" /\ issued + 1 \in Tokens
  /\ call'[q] = [call[q] EXCEPT !.step = "reply", !.got = issued + 1, !.claim = call'[q].claim]
  /\ \A t \in Tokens :
       token'[t] = IF t = issued + 1 THEN "live" ELSE IF t = rotated THEN "dead" ELSE token[t]
  /\ \A t \in Tokens : chain'[t] = IF t = issued + 1 THEN root ELSE chain[t]
  /\ issued' = issued + 1
  /\ UNCHANGED <<refresh, disturbed, overlaps>>

SignInEffect(q) ==
  StoreEffect(q, issued + 1, None) /\ call[q].kind = "signin" /\ cleared' = FALSE

LEMMA SignInDoes == ASSUME Shape, NEW q \in SessionCalls, SignIn(q) PROVE SignInEffect(q)
<1> USE TypeFacts DEF Shape
<1> DEFINE v == [call[q] EXCEPT !.step = "reply", !.got = issued + 1, !.claim = Primary]
<1>1. /\ call[q] \in Calls /\ Shaped(call[q], issued) /\ call[q].step = "act"
      /\ call[q].kind = "signin" /\ issued < MaxTokens /\ issued + 1 \in Tokens /\ issued \in Nat
  BY DEF SignIn, At
<1>2. v \in Calls /\ Shaped(v, issued + 1) /\ v.claim = Primary
  <2>1. v \in Calls
    BY <1>1 DEF Calls, Steps
  <2>2. /\ v.step = "reply" /\ v.got = issued + 1 /\ v.claim = Primary /\ v.kind = call[q].kind
        /\ v.sent = call[q].sent /\ v.browser = call[q].browser
    BY <1>1 DEF Calls
  <2> HIDE DEF v
  <2>3. Shaped(v, issued + 1)
    BY <1>1, <2>2 DEF Shaped
  <2> QED BY <2>1, <2>2, <2>3
<1>3. call' = [call EXCEPT ![q] = v]
  BY <1>1 DEF SignIn
<1>4. /\ token' = [token EXCEPT ![issued + 1] = "live"]
      /\ Store(issued + 1, issued + 1)
      /\ cleared' = FALSE
      /\ UNCHANGED <<cookieVars, disturbed, overlaps, chosen, callFaults>>
  BY DEF SignIn
<1>5. /\ token' \in [Tokens -> {"unused", "live", "dead"}]
      /\ \A t \in Tokens : token'[t] = IF t = issued + 1 THEN "live" ELSE token[t]
  BY <1>1, <1>4
<1>6. Shape'
  <2>1. issued + 1 \in 1 .. issued + 1
    BY <1>1
  <2>2. token'[issued + 1] # "unused" /\ cleared' \in BOOLEAN
    BY <1>1, <1>4, <1>5
  <2>3. \A t \in Tokens : t # issued + 1 => (token[t] = "unused" <=> token'[t] = "unused")
    BY <1>5
  <2> HIDE DEF v
  <2> QED BY <1>1, <1>2, <1>3, <1>4, <1>5, <2>1, <2>2, <2>3, StoreKeepsShape DEF cookieVars
<1>7. call'[q] = v /\ Others(q)
  BY <1>2, <1>3 DEF Others
<1>8. call'[q] = [call[q] EXCEPT !.step = "reply", !.got = issued + 1, !.claim = call'[q].claim]
  BY <1>2, <1>7
<1>9. \A t \in Tokens : chain'[t] = IF t = issued + 1 THEN issued + 1 ELSE chain[t]
  BY <1>1, <1>4 DEF Store
<1>10. \A t \in Tokens : t # None
  OBVIOUS
<1> QED BY <1>1, <1>4, <1>5, <1>6, <1>7, <1>8, <1>9, <1>10 DEF SignInEffect, StoreEffect, cookieVars, Store

RotateEffect(q) ==
  /\ StoreEffect(q, chain[call[q].sent], call[q].sent)
  /\ call[q].kind = "refresh" /\ call[q].sent \in Tokens /\ call[q].sent <= issued
  /\ cleared' = cleared

LEMMA RotateDoes == ASSUME Shape, NEW q \in SessionCalls, Rotate(q) PROVE RotateEffect(q)
<1> USE TypeFacts DEF Shape
<1> DEFINE v == [call[q] EXCEPT !.step = "reply", !.got = issued + 1]
<1>1. /\ call[q] \in Calls /\ Shaped(call[q], issued) /\ call[q].step = "act"
      /\ call[q].kind = "refresh" /\ issued < MaxTokens /\ issued + 1 \in Tokens /\ issued \in Nat
  BY DEF Rotate, At
<1>2. call[q].sent \in Tokens /\ call[q].sent <= issued
  BY <1>1 DEF Shaped
<1>3. v \in Calls /\ Shaped(v, issued + 1) /\ v.claim = call[q].claim
  <2>1. v \in Calls
    BY <1>1 DEF Calls, Steps
  <2>2. /\ v.step = "reply" /\ v.got = issued + 1 /\ v.claim = call[q].claim /\ v.kind = call[q].kind
        /\ v.sent = call[q].sent /\ v.browser = call[q].browser
    BY <1>1 DEF Calls
  <2> HIDE DEF v
  <2>3. Shaped(v, issued + 1)
    BY <1>1, <2>2 DEF Shaped
  <2> QED BY <2>1, <2>2, <2>3
<1>4. call' = [call EXCEPT ![q] = v]
  BY <1>1 DEF Rotate
<1>5. /\ token' = [token EXCEPT ![call[q].sent] = "dead", ![issued + 1] = "live"]
      /\ Store(issued + 1, chain[call[q].sent])
      /\ UNCHANGED <<cookieVars, disturbed, overlaps, chosen, cleared, callFaults>>
  BY DEF Rotate, Root
<1>6. /\ token' \in [Tokens -> {"unused", "live", "dead"}]
      /\ \A t \in Tokens :
           token'[t] = IF t = issued + 1 THEN "live" ELSE IF t = call[q].sent THEN "dead" ELSE token[t]
  BY <1>1, <1>2, <1>5
<1>7. chain[call[q].sent] \in 1 .. issued + 1
  BY <1>2, ChainFacts
<1>8. \A t \in Tokens : t # issued + 1 => (token[t] = "unused" <=> token'[t] = "unused")
  BY <1>2, <1>6 DEF TokenRows
<1>9. Shape'
  <2> HIDE DEF v
  <2> QED BY <1>1, <1>3, <1>4, <1>5, <1>6, <1>7, <1>8, StoreKeepsShape DEF cookieVars
<1>10. call'[q] = v /\ Others(q)
  BY <1>3, <1>4 DEF Others
<1>11. call'[q] = [call[q] EXCEPT !.step = "reply", !.got = issued + 1, !.claim = call'[q].claim]
  BY <1>1, <1>3, <1>10 DEF Calls
<1>12. \A t \in Tokens : chain'[t] = IF t = issued + 1 THEN chain[call[q].sent] ELSE chain[t]
  BY <1>1, <1>5 DEF Store
<1> QED BY <1>1, <1>2, <1>5, <1>6, <1>9, <1>10, <1>11, <1>12 DEF RotateEffect, StoreEffect, cookieVars, Store

EndEffect(q) ==
  /\ Shape' /\ Others(q) /\ call[q].step = "act"
  /\ call'[q] = [call[q] EXCEPT !.step = "reply"]
  /\ \A t \in Tokens : token'[t] \in {token[t], "dead"}
  /\ UNCHANGED <<chain, issued, refresh, overlaps>>

LogoutEffect(q) ==
  /\ EndEffect(q) /\ call[q].kind = "logout" /\ call[q].sent \in Tokens
  /\ \A t \in Tokens : t # call[q].sent => token'[t] = token[t]
  /\ UNCHANGED <<disturbed, cleared>>

LEMMA LogoutDoes == ASSUME Shape, NEW q \in SessionCalls, Logout(q) PROVE LogoutEffect(q)
<1> USE TypeFacts DEF Shape
<1> DEFINE v == [call[q] EXCEPT !.step = "reply"]
<1>1. /\ call[q] \in Calls /\ Shaped(call[q], issued) /\ call[q].step = "act" /\ call[q].kind = "logout"
  BY DEF Logout, At
<1>2. v \in Calls /\ Shaped(v, issued)
  BY <1>1 DEF Calls, Steps, Shaped
<1>3. call' = [call EXCEPT ![q] = v]
  BY <1>1 DEF Logout, Goto
<1>4. UNCHANGED <<chain, issued, cookieVars, disturbed, overlaps, chosen, cleared, callFaults>>
  BY DEF Logout
<1>5. call[q].sent \in Tokens
  BY <1>1 DEF Shaped, Calls
<1>6. /\ token' \in [Tokens -> {"unused", "live", "dead"}]
      /\ \A t \in Tokens : token'[t] = IF t = call[q].sent /\ token[t] = "live" THEN "dead" ELSE token[t]
  BY <1>5 DEF Logout
<1>7. Shape'
  <2> HIDE DEF v
  <2> QED BY <1>2, <1>3, <1>4, <1>6, CallKeepsShape DEF cookieVars
<1>8. call'[q] = v /\ Others(q)
  BY <1>2, <1>3 DEF Others
<1> QED BY <1>1, <1>4, <1>5, <1>6, <1>7, <1>8 DEF LogoutEffect, EndEffect, cookieVars

LogoutAllEffect(q) ==
  /\ EndEffect(q) /\ call[q].kind = "logoutAll"
  /\ \A t \in Tokens : token'[t] # "live"
  /\ disturbed \subseteq disturbed'
  /\ \A t \in Tokens : token[t] = "live" => chain[t] \in disturbed'
  /\ cleared' => \A p \in SessionCalls : ~At(p, "act", {"refresh"})

LEMMA LogoutAllDoes == ASSUME Shape, NEW q \in SessionCalls, LogoutAll(q) PROVE LogoutAllEffect(q)
<1> USE TypeFacts DEF Shape
<1> DEFINE v == [call[q] EXCEPT !.step = "reply"]
<1>1. /\ call[q] \in Calls /\ Shaped(call[q], issued) /\ call[q].step = "act" /\ call[q].kind = "logoutAll"
  BY DEF LogoutAll, At
<1>2. v \in Calls /\ Shaped(v, issued)
  BY <1>1 DEF Calls, Steps, Shaped
<1>3. call' = [call EXCEPT ![q] = v]
  BY <1>1 DEF LogoutAll, Goto
<1>4. UNCHANGED <<chain, issued, cookieVars, overlaps, chosen, callFaults>>
  BY DEF LogoutAll
<1>5. /\ token' \in [Tokens -> {"unused", "live", "dead"}]
      /\ \A t \in Tokens : token'[t] = IF token[t] = "live" THEN "dead" ELSE token[t]
  BY DEF LogoutAll
<1>6. /\ disturbed' \in SUBSET Tokens /\ disturbed \subseteq disturbed'
      /\ \A t \in Tokens : token[t] = "live" => chain[t] \in disturbed'
  BY ChainFacts DEF LogoutAll
<1>7. cleared' \in BOOLEAN /\ (cleared' => \A p \in SessionCalls : ~At(p, "act", {"refresh"}))
  <2>1. (~ \E p \in SessionCalls : At(p, "act", {"refresh"})) \in BOOLEAN
    OBVIOUS
  <2> QED BY <2>1, Zenon DEF LogoutAll
<1>8. Shape'
  <2> HIDE DEF v
  <2> QED BY <1>2, <1>3, <1>4, <1>5, <1>6, <1>7, CallKeepsShape DEF cookieVars
<1>9. call'[q] = v /\ Others(q)
  BY <1>2, <1>3 DEF Others
<1> QED BY <1>1, <1>4, <1>5, <1>6, <1>7, <1>8, <1>9 DEF LogoutAllEffect, EndEffect, cookieVars

SwitchEffect(q) == EndEffect(q) /\ call[q].kind = "switch" /\ UNCHANGED <<token, disturbed, cleared>>

LEMMA SwitchDoes == ASSUME Shape, NEW q \in SessionCalls, SwitchWorkspace(q) PROVE SwitchEffect(q)
<1> USE TypeFacts DEF Shape
<1> DEFINE v == [call[q] EXCEPT !.step = "reply"]
<1>1. /\ call[q] \in Calls /\ Shaped(call[q], issued) /\ call[q].step = "act" /\ call[q].kind = "switch"
  BY DEF SwitchWorkspace, At
<1>2. v \in Calls /\ Shaped(v, issued)
  BY <1>1 DEF Calls, Steps, Shaped
<1>3. call' = [call EXCEPT ![q] = v]
  BY <1>1 DEF SwitchWorkspace, Goto
<1>4. UNCHANGED <<token, chain, issued, cookieVars, disturbed, overlaps, chosen, cleared, callFaults>>
  BY DEF SwitchWorkspace
<1>5. Shape'
  <2> HIDE DEF v
  <2> QED BY <1>2, <1>3, <1>4, CallKeepsShape DEF cookieVars
<1>6. call'[q] = v /\ Others(q)
  BY <1>2, <1>3 DEF Others
<1> QED BY <1>1, <1>4, <1>5, <1>6 DEF SwitchEffect, EndEffect, cookieVars

ReplyEffect(q) ==
  /\ Shape' /\ Others(q) /\ call[q].step = "reply" /\ call'[q] = NoCall /\ call[q].browser \in Browsers
  /\ \A b \in Browsers :
       refresh'[b] = IF b # call[q].browser THEN refresh[b]
                     ELSE IF call[q].kind \in {"logout", "logoutAll"} THEN None
                     ELSE IF call[q].kind = "switch" THEN refresh[b] ELSE call[q].got
  /\ call[q].kind \in {"signin", "refresh"} => call[q].got \in Tokens
  /\ UNCHANGED <<token, chain, issued, disturbed, overlaps, cleared>>

LEMMA ReplyDoes == ASSUME Shape, NEW q \in SessionCalls, Reply(q) PROVE ReplyEffect(q)
<1> USE TypeFacts, NoCallShape DEF Shape
<1> DEFINE c == call[q]
           claim == IF c.kind \in {"logout", "logoutAll"} THEN None
                    ELSE IF c.claim = None THEN Primary ELSE c.claim
           kept == CASE c.kind = "switch" -> c.claim
                     [] c.kind = "refresh" -> chosen[c.browser]
                     [] OTHER -> None
           cookie == IF c.kind \in {"logout", "logoutAll"} THEN None
                     ELSE IF c.kind = "switch" THEN refresh[c.browser] ELSE c.got
<1>1. /\ c \in Calls /\ Shaped(c, issued) /\ c.step = "reply"
  BY DEF Reply
<1>2. /\ c.browser \in Browsers /\ c.claim \in Workspaces \cup {None}
      /\ c.got \in 0 .. issued /\ c.got \in Tokens \cup {None} /\ c.kind \in Kinds
  BY <1>1 DEF Shaped, Calls
<1>3. c.kind \in {"signin", "refresh"} => c.got \in Tokens
  BY <1>1, <1>2 DEF Shaped
<1>4. /\ refresh' = [refresh EXCEPT ![c.browser] = cookie]
      /\ access' = [access EXCEPT ![c.browser] = claim]
      /\ call' = [call EXCEPT ![q] = NoCall]
      /\ UNCHANGED <<token, chain, issued, disturbed, overlaps, cleared, callFaults>>
  BY DEF Reply, EndCall
<1>5. chosen' = [chosen EXCEPT ![c.browser] = kept]
  BY Zenon DEF Reply
<1>6. kept \in Workspaces \cup {None}
  <2>1. CASE c.kind = "switch"
    BY <1>2, <2>1
  <2>2. CASE c.kind = "refresh"
    BY <1>2, <2>2
  <2>3. CASE c.kind # "switch" /\ c.kind # "refresh"
    BY <2>3
  <2> QED BY <2>1, <2>2, <2>3
<1>7. claim \in Workspaces \cup {None}
  BY <1>2
<1>8. cookie \in 0 .. issued /\ cookie \in Tokens \cup {None}
  BY <1>2
<1> HIDE DEF kept, claim
<1>9. access' \in [Browsers -> Workspaces \cup {None}] /\ chosen' \in [Browsers -> Workspaces \cup {None}]
  BY <1>2, <1>4, <1>5, <1>6, <1>7
<1>10. /\ refresh' \in [Browsers -> Tokens \cup {None}]
       /\ \A b \in Browsers : refresh'[b] \in 0 .. issued
       /\ \A b \in Browsers : refresh'[b] = IF b = c.browser THEN cookie ELSE refresh[b]
  <2> HIDE DEF cookie, c
  <2> QED BY <1>2, <1>4, <1>8
<1>11. Shape'
  <2> HIDE DEF c, cookie
  <2>1. issued \in Nat
    OBVIOUS
  <2> QED BY <1>4, <1>9, <1>10, <2>1, CallKeepsShape
<1>12. call'[q] = NoCall /\ Others(q)
  <2> HIDE DEF c, cookie
  <2> QED BY <1>4 DEF Others
<1> QED BY <1>1, <1>2, <1>3, <1>4, <1>10, <1>11, <1>12 DEF ReplyEffect

DropEffect(q) ==
  /\ Shape' /\ Others(q) /\ call[q].step \in {"act", "reply"} /\ call'[q] = NoCall
  /\ disturbed \subseteq disturbed'
  /\ call[q].sent # None => chain[call[q].sent] \in disturbed'
  /\ call[q].got # None => chain[call[q].got] \in disturbed'
  /\ UNCHANGED <<token, chain, issued, refresh, overlaps, cleared>>

LEMMA DropDoes == ASSUME Shape, NEW q \in SessionCalls, Drop(q) PROVE DropEffect(q)
<1> USE TypeFacts, NoCallShape DEF Shape
<1>1. call[q] \in Calls /\ Shaped(call[q], issued) /\ call[q].step \in {"act", "reply"}
  BY DEF Drop
<1>2. /\ call' = [call EXCEPT ![q] = NoCall]
      /\ callFaults' = callFaults + 1 /\ callFaults < MaxSessionFaults
      /\ disturbed' = disturbed \cup {chain[t] : t \in Tokens \cap {call[q].sent, call[q].got}}
      /\ UNCHANGED <<token, chain, issued, cookieVars, overlaps, chosen, cleared>>
  BY DEF Drop, EndCall
<1>3. /\ call[q].sent # None => call[q].sent \in Tokens /\ call[q].sent <= issued
      /\ call[q].got # None => call[q].got \in Tokens /\ call[q].got <= issued
  BY <1>1 DEF Shaped, Calls
<1>4. \A t \in Tokens \cap {call[q].sent, call[q].got} : chain[t] \in Tokens
  BY <1>3, ChainFacts
<1>5. disturbed' \in SUBSET Tokens /\ callFaults' \in 0 .. MaxSessionFaults
  BY <1>2, <1>4
<1>6. Shape'
  <2>1. issued \in Nat
    OBVIOUS
  <2> QED BY <1>2, <1>5, <2>1, CallKeepsShape DEF cookieVars
<1>7. call'[q] = NoCall /\ Others(q)
  BY <1>2 DEF Others
<1>8. /\ call[q].sent # None => chain[call[q].sent] \in disturbed'
      /\ call[q].got # None => chain[call[q].got] \in disturbed'
  BY <1>2, <1>3
<1> QED BY <1>1, <1>2, <1>6, <1>7, <1>8 DEF DropEffect, cookieVars

LEMMA AccessExpiresDoes ==
  ASSUME Shape, NEW b \in Browsers, AccessExpires(b)
  PROVE  Shape' /\ UNCHANGED <<token, chain, issued, refresh, call, disturbed, overlaps, cleared>>
<1> USE TypeFacts DEF Shape
<1>1. /\ access' = [access EXCEPT ![b] = None]
      /\ UNCHANGED <<token, chain, issued, refresh, call, disturbed, overlaps, chosen, cleared, callFaults>>
  BY DEF AccessExpires
<1>2. SessionTypeOK'
  BY <1>1 DEF SessionTypeOK
<1> QED BY <1>1, <1>2 DEF TokenRows

ExpireEffect(t) ==
  /\ Shape' /\ token[t] = "live"
  /\ \A u \in Tokens : token'[u] = IF u = t THEN "dead" ELSE token[u]
  /\ disturbed' = disturbed \cup {chain[t]}
  /\ UNCHANGED <<chain, issued, refresh, call, overlaps, cleared>>

LEMMA TokenExpiresDoes == ASSUME Shape, NEW t \in Tokens, TokenExpires(t) PROVE ExpireEffect(t)
<1> USE TypeFacts DEF Shape
<1>1. /\ token' = [token EXCEPT ![t] = "dead"] /\ token[t] = "live"
      /\ disturbed' = disturbed \cup {chain[t]}
      /\ UNCHANGED <<chain, issued, cookieVars, call, overlaps, chosen, cleared, callFaults>>
  BY DEF TokenExpires
<1>2. chain[t] \in Tokens
  BY <1>1, ChainFacts
<1>3. SessionTypeOK'
  BY <1>1, <1>2 DEF SessionTypeOK, cookieVars
<1>4. TokenRows'
  BY <1>1 DEF TokenRows
<1> QED BY <1>1, <1>3, <1>4 DEF ExpireEffect, cookieVars

NoEffect == Shape' /\ UNCHANGED <<token, chain, issued, refresh, call, disturbed, overlaps, cleared>>

\* What a step may do.
LEMMA StepDoes ==
  Shape /\ [SessionNext]_sessionVars =>
    \/ \E q \in SessionCalls :
         \/ SendEffect(q) \/ LookupEffect(q) \/ SignInEffect(q) \/ RotateEffect(q)
         \/ LogoutEffect(q) \/ LogoutAllEffect(q) \/ SwitchEffect(q) \/ ReplyEffect(q) \/ DropEffect(q)
    \/ \E t \in Tokens : ExpireEffect(t)
    \/ NoEffect
<1> SUFFICES ASSUME Shape, [SessionNext]_sessionVars
             PROVE  StepDoes!2
  OBVIOUS
<1>1. CASE \E q \in SessionCalls :
             \/ Send(q) \/ Lookup(q) \/ SignIn(q) \/ Rotate(q) \/ Logout(q) \/ LogoutAll(q)
             \/ SwitchWorkspace(q) \/ Reply(q) \/ Drop(q)
  BY <1>1, SendDoes, LookupDoes, SignInDoes, RotateDoes, LogoutDoes, LogoutAllDoes, SwitchDoes,
     ReplyDoes, DropDoes, Zenon
<1>2. CASE \E b \in Browsers : AccessExpires(b)
  BY <1>2, AccessExpiresDoes DEF NoEffect
<1>3. CASE \E t \in Tokens : TokenExpires(t)
  BY <1>3, TokenExpiresDoes
<1>4. CASE UNCHANGED sessionVars
  <2>1. Shape'
    BY <1>4 DEF sessionVars, cookieVars, Shape, TokenRows, SessionTypeOK
  <2> QED BY <1>4, <2>1 DEF sessionVars, cookieVars, NoEffect
<1> QED BY <1>1, <1>2, <1>3, <1>4, Zenon DEF SessionNext

LEMMA NextShape == Shape /\ [SessionNext]_sessionVars => Shape'
BY StepDoes, Zenon
   DEF SendEffect, LookupEffect, SignInEffect, RotateEffect, StoreEffect, LogoutEffect, LogoutAllEffect,
       SwitchEffect, EndEffect, ReplyEffect, DropEffect, ExpireEffect, NoEffect

\* Every variable keeps its type.
THEOREM TypeCorrect == SessionSpec => []SessionTypeOK
<1>1. Shape => SessionTypeOK
  BY DEF Shape
<1> QED BY InitShape, NextShape, <1>1, PTL DEF SessionSpec

-----------------------------------------------------------------------------

\* No live token, and no rotation past its lookup.
Cleared ==
  cleared => /\ \A t \in Tokens : token[t] # "live"
             /\ \A q \in SessionCalls : ~At(q, "act", {"refresh"})

LEMMA ClearedKept == Shape /\ Cleared /\ [SessionNext]_sessionVars => Cleared'
<1> SUFFICES ASSUME Shape, Cleared, [SessionNext]_sessionVars, cleared' PROVE Cleared'
  BY DEF Cleared
<1> USE TypeFacts DEF Cleared, At
<1>a. \A q \in SessionCalls : call[q] \in Calls /\ Shaped(call[q], issued)
  BY DEF Shape
<1>1. ASSUME NEW q \in SessionCalls, SendEffect(q) PROVE Cleared'
  BY <1>1 DEF SendEffect, Others, Shape, Shaped
<1>2. ASSUME NEW q \in SessionCalls, LookupEffect(q) PROVE Cleared'
  <2>1. call[q].sent \in Tokens
    BY <1>2, <1>a DEF LookupEffect, Shaped, Calls
  <2>2. CASE cleared
    BY <1>2, <2>1, <2>2, NoCallShape DEF LookupEffect, Others
  <2> QED BY <1>2, <2>2 DEF LookupEffect
<1>3. ASSUME NEW q \in SessionCalls, RotateEffect(q) PROVE Cleared'
  BY <1>3 DEF RotateEffect, StoreEffect
<1>4. ASSUME NEW q \in SessionCalls, EndEffect(q),
             cleared' => \A p \in SessionCalls : ~At(p, "act", {"refresh"}),
             \A t \in Tokens : token'[t] # "live"
      PROVE  Cleared'
  <2>1. call'[q].step = "reply"
    BY <1>4, <1>a DEF EndEffect, Calls
  <2> QED BY <1>4, <2>1 DEF EndEffect, Others
<1>5. ASSUME NEW q \in SessionCalls, LogoutEffect(q) \/ SwitchEffect(q) PROVE Cleared'
  <2>1. EndEffect(q) /\ cleared' = cleared
    BY <1>5 DEF LogoutEffect, SwitchEffect
  <2>2. \A t \in Tokens : token'[t] # "live"
    BY <2>1 DEF EndEffect
  <2> QED BY <1>4, <2>1, <2>2
<1>6. ASSUME NEW q \in SessionCalls, LogoutAllEffect(q) PROVE Cleared'
  BY <1>4, <1>6 DEF LogoutAllEffect
<1>7. ASSUME NEW q \in SessionCalls, ReplyEffect(q) \/ DropEffect(q) PROVE Cleared'
  BY <1>7, NoCallShape DEF ReplyEffect, DropEffect, Others
<1>8. ASSUME NEW t \in Tokens, ExpireEffect(t) PROVE Cleared'
  BY <1>8 DEF ExpireEffect
<1>9. CASE NoEffect
  BY <1>9 DEF NoEffect
<1>10. ASSUME NEW q \in SessionCalls, SignInEffect(q) PROVE FALSE
  BY <1>10 DEF SignInEffect
<1> QED BY StepDoes, <1>1, <1>2, <1>3, <1>5, <1>6, <1>7, <1>8, <1>9, <1>10

\* Logout-all leaves no token alive, and nothing that could bring one to life but a
\* sign-in or a rotation that had looked its token up before.
THEOREM LogoutAllEndsAll == SessionSpec => []LogoutAllHolds
<1>1. SessionInit => Cleared
  BY DEF SessionInit, Cleared
<1>2. Cleared => LogoutAllHolds
  BY DEF Cleared, LogoutAllHolds
<1> QED BY InitShape, NextShape, ClearedKept, <1>1, <1>2, PTL DEF SessionSpec

-----------------------------------------------------------------------------
\* Tokens and those who carry them.

\* The facts of a call that the lemmas below need.
LEMMA CallFacts ==
  ASSUME Shape, NEW q \in SessionCalls
  PROVE  /\ call[q] \in Calls /\ issued \in Nat
         /\ call[q].sent \in 0 .. issued /\ call[q].got \in 0 .. issued
         /\ call[q].sent # None => call[q].sent \in Tokens /\ chain[call[q].sent] \in 1 .. issued
         /\ call[q].got # None => call[q].got \in Tokens /\ chain[call[q].got] \in 1 .. issued
<1>1. call[q] \in Calls /\ Shaped(call[q], issued) /\ issued \in Nat
  BY TypeFacts DEF Shape
<1>2. /\ call[q].sent \in 0 .. issued /\ call[q].got \in 0 .. issued
      /\ call[q].sent \in Tokens \cup {None} /\ call[q].got \in Tokens \cup {None}
  BY <1>1 DEF Shaped, Calls
<1> QED BY <1>1, <1>2, ChainFacts

\* Calls that keep what they carry, or end.
Fewer ==
  \A p \in SessionCalls :
    /\ call'[p].sent = None \/ (call'[p].sent = call[p].sent /\ call'[p].browser = call[p].browser)
    /\ call'[p].got \in {call[p].got, None}

LEMMA FewerAfter ==
  ASSUME NEW q \in SessionCalls, Shape, Shape',
         LookupEffect(q) \/ EndEffect(q) \/ ReplyEffect(q) \/ DropEffect(q)
  PROVE  Fewer
<1>1. call[q] \in Calls
  BY CallFacts
<1>2. Others(q) /\ (\/ call'[q] = NoCall \/ call'[q] = [call[q] EXCEPT !.step = "act"]
                    \/ call'[q] = [call[q] EXCEPT !.step = "reply"])
  BY DEF LookupEffect, EndEffect, ReplyEffect, DropEffect
<1>3. /\ call'[q].sent = None \/ (call'[q].sent = call[q].sent /\ call'[q].browser = call[q].browser)
      /\ call'[q].got \in {call[q].got, None}
  <2>1. CASE call'[q] = NoCall
    BY <2>1 DEF NoCall
  <2>2. CASE call'[q] = [call[q] EXCEPT !.step = "act"]
    BY <1>1, <2>2 DEF Calls
  <2>3. CASE call'[q] = [call[q] EXCEPT !.step = "reply"]
    BY <1>1, <2>3 DEF Calls
  <2> QED BY <1>2, <2>1, <2>2, <2>3
<1> QED BY <1>2, <1>3 DEF Others, Fewer

LEMMA HolderKeptByFewer ==
  ASSUME OneHolder, Fewer, \A b \in Browsers : refresh'[b] \in {refresh[b], None}
  PROVE  OneHolder'
BY DEF OneHolder, Fewer

LEMMA HolderKept == Shape /\ OneHolder /\ [SessionNext]_sessionVars => OneHolder'
<1> SUFFICES ASSUME Shape, OneHolder, [SessionNext]_sessionVars PROVE OneHolder'
  OBVIOUS
<1> USE TypeFacts
<1>1. ASSUME NEW q \in SessionCalls, SendEffect(q) PROVE OneHolder'
  BY <1>1 DEF SendEffect, Others, OneHolder
<1>2. ASSUME NEW q \in SessionCalls, NEW root, NEW rotated, StoreEffect(q, root, rotated) PROVE OneHolder'
  <2>1. /\ call'[q].sent = call[q].sent /\ call'[q].browser = call[q].browser
        /\ call'[q].got = issued + 1
    BY <1>2, CallFacts DEF StoreEffect, Calls
  <2>2. issued \in Nat /\ \A b \in Browsers : refresh[b] \in 0 .. issued
    BY DEF Shape
  <2>3. \A p \in SessionCalls : call[p].sent # issued + 1 /\ call[p].got # issued + 1
    BY <2>2, CallFacts
  <2>4. \A b \in Browsers : refresh[b] # issued + 1
    BY <2>2
  <2>5. Others(q) /\ refresh' = refresh
    BY <1>2 DEF StoreEffect
  <2> DEFINE t == issued + 1
  <2> HIDE DEF t
  <2>6. /\ \A p \in SessionCalls : call'[p].sent = call[p].sent /\ call'[p].browser = call[p].browser
        /\ \A p \in SessionCalls \ {q} : call'[p].got = call[p].got
        /\ call'[q].got = t
        /\ \A p \in SessionCalls : call[p].sent # t /\ call[p].got # t
        /\ \A b \in Browsers : refresh[b] # t
    BY <2>1, <2>3, <2>4, <2>5 DEF Others, t
  <2>7. \A p \in SessionCalls : call'[p].got # None =>
            /\ \A r \in SessionCalls : call'[r].sent # call'[p].got
            /\ \A r \in SessionCalls \ {p} : call'[r].got # call'[p].got
            /\ \A b \in Browsers : refresh'[b] # call'[p].got
    <3>1. ASSUME NEW p \in SessionCalls, p # q, call'[p].got # None
          PROVE  /\ \A r \in SessionCalls : call'[r].sent # call'[p].got
                 /\ \A r \in SessionCalls \ {p} : call'[r].got # call'[p].got
                 /\ \A b \in Browsers : refresh'[b] # call'[p].got
      BY <2>5, <2>6, <3>1 DEF OneHolder
    <3>2. /\ \A r \in SessionCalls : call'[r].sent # call'[q].got
          /\ \A r \in SessionCalls \ {q} : call'[r].got # call'[q].got
          /\ \A b \in Browsers : refresh'[b] # call'[q].got
      BY <2>5, <2>6
    <3> QED BY <3>1, <3>2
  <2> QED BY <2>5, <2>6, <2>7 DEF OneHolder
<1>3. ASSUME NEW q \in SessionCalls, ReplyEffect(q) PROVE OneHolder'
  <2>1. Fewer
    BY <1>3, FewerAfter DEF ReplyEffect
  <2>2. CASE call[q].kind \in {"logout", "logoutAll", "switch"}
    <3>1. \A b \in Browsers : refresh'[b] \in {refresh[b], None}
      BY <1>3, <2>2 DEF ReplyEffect
    <3> QED BY <2>1, <3>1, HolderKeptByFewer
  <2>3. CASE call[q].kind \notin {"logout", "logoutAll", "switch"}
    <3> DEFINE a == call[q].browser
               t == call[q].got
    <3>1. \A b \in Browsers : refresh'[b] = IF b = a THEN t ELSE refresh[b]
      BY <1>3, <2>3 DEF ReplyEffect
    <3>2. t # None
      <4>1. call[q].kind \in {"signin", "refresh"}
        BY <2>3, CallFacts DEF Calls, Kinds
      <4> QED BY <1>3, <4>1 DEF ReplyEffect
    <3>3. /\ \A p \in SessionCalls : call[p].sent # t
          /\ \A p \in SessionCalls \ {q} : call[p].got # t
          /\ \A b \in Browsers : refresh[b] # t
      BY <3>2 DEF OneHolder
    <3>4. call'[q].got = None /\ call'[q].sent = None /\ Others(q)
      BY <1>3 DEF ReplyEffect, NoCall
    <3> HIDE DEF a, t
    <3>5. \A b, c \in Browsers : refresh'[b] # None /\ refresh'[b] = refresh'[c] => b = c
      BY <3>1, <3>3 DEF OneHolder
    <3>6. \A p \in SessionCalls, b \in Browsers :
            call'[p].sent # None /\ call'[p].sent = refresh'[b] => call'[p].browser = b
      BY <2>1, <3>1, <3>3 DEF OneHolder, Fewer
    <3>7. \A p \in SessionCalls : call'[p].got # None =>
            /\ \A r \in SessionCalls : call'[r].sent # call'[p].got
            /\ \A r \in SessionCalls \ {p} : call'[r].got # call'[p].got
            /\ \A b \in Browsers : refresh'[b] # call'[p].got
      BY <3>1, <3>3, <3>4 DEF OneHolder, Others
    <3> QED BY <3>5, <3>6, <3>7 DEF OneHolder
  <2> QED BY <2>2, <2>3
<1>4. ASSUME NEW q \in SessionCalls, LookupEffect(q) \/ EndEffect(q) \/ DropEffect(q) PROVE OneHolder'
  <2>1. Shape' /\ refresh' = refresh
    BY <1>4 DEF LookupEffect, EndEffect, DropEffect
  <2> QED BY <1>4, <2>1, FewerAfter, HolderKeptByFewer
<1>5. ASSUME NEW t \in Tokens, ExpireEffect(t) PROVE OneHolder'
  BY <1>5 DEF ExpireEffect, OneHolder
<1>6. CASE NoEffect
  BY <1>6 DEF NoEffect, OneHolder
<1> QED
  <2>1. \A q \in SessionCalls :
          /\ SignInEffect(q) => StoreEffect(q, issued + 1, None)
          /\ RotateEffect(q) => StoreEffect(q, chain[call[q].sent], call[q].sent)
          /\ LogoutEffect(q) \/ LogoutAllEffect(q) \/ SwitchEffect(q) => EndEffect(q)
    BY DEF SignInEffect, RotateEffect, LogoutEffect, LogoutAllEffect, SwitchEffect
  <2> QED BY StepDoes, <1>1, <1>2, <1>3, <1>4, <1>5, <1>6, <2>1

\* Chains of stored rows stay, and disturbed sessions stay disturbed.
LEMMA ChainsKept ==
  ASSUME Shape, [SessionNext]_sessionVars
  PROVE  /\ \A t \in Tokens : t <= issued => chain'[t] = chain[t]
         /\ disturbed \subseteq disturbed'
<1>1. issued \in Nat
  BY TypeFacts DEF Shape
<1>2. ASSUME NEW q \in SessionCalls, SignInEffect(q) \/ RotateEffect(q)
      PROVE  /\ \A t \in Tokens : t <= issued => chain'[t] = chain[t]
             /\ disturbed \subseteq disturbed'
  <2>1. disturbed' = disturbed /\ \A t \in Tokens : t # issued + 1 => chain'[t] = chain[t]
    BY <1>2 DEF SignInEffect, RotateEffect, StoreEffect
  <2> QED BY <1>1, <2>1
<1>3. ASSUME NEW q \in SessionCalls,
             \/ SendEffect(q) \/ LookupEffect(q) \/ LogoutEffect(q) \/ LogoutAllEffect(q)
             \/ SwitchEffect(q) \/ ReplyEffect(q) \/ DropEffect(q)
      PROVE  chain' = chain /\ disturbed \subseteq disturbed'
  BY <1>3 DEF SendEffect, LookupEffect, LogoutEffect, LogoutAllEffect, SwitchEffect, EndEffect,
              ReplyEffect, DropEffect
<1>4. ASSUME NEW t \in Tokens, ExpireEffect(t) PROVE chain' = chain /\ disturbed \subseteq disturbed'
  BY <1>4 DEF ExpireEffect
<1> QED BY StepDoes, <1>2, <1>3, <1>4 DEF NoEffect

LEMMA OverlapKept == Shape /\ OverlapDisturbs /\ [SessionNext]_sessionVars => OverlapDisturbs'
<1> SUFFICES ASSUME Shape, OverlapDisturbs, [SessionNext]_sessionVars PROVE OverlapDisturbs'
  OBVIOUS
<1>a. \A t \in Tokens : t <= issued => chain'[t] = chain[t]
  BY ChainsKept
<1>b. disturbed \subseteq disturbed'
  BY ChainsKept
<1>c. \A q \in SessionCalls : call[q].sent # None => chain'[call[q].sent] = chain[call[q].sent]
  BY <1>a, CallFacts
<1>1. ASSUME NEW q \in SessionCalls, SendEffect(q) PROVE OverlapDisturbs'
  BY <1>b, <1>1 DEF SendEffect, Others, OverlapDisturbs
<1>2. ASSUME \A p \in SessionCalls : call'[p].sent \in {call[p].sent, None} PROVE OverlapDisturbs'
  BY <1>b, <1>c, <1>2 DEF OverlapDisturbs
<1>3. ASSUME NEW q \in SessionCalls, NEW root, NEW rotated, StoreEffect(q, root, rotated)
      PROVE  OverlapDisturbs'
  <2>1. call'[q].sent = call[q].sent
    BY <1>3, CallFacts DEF StoreEffect, Calls
  <2> QED BY <1>2, <1>3, <2>1 DEF StoreEffect, Others
<1>4. ASSUME NEW q \in SessionCalls,
             LookupEffect(q) \/ EndEffect(q) \/ ReplyEffect(q) \/ DropEffect(q) PROVE OverlapDisturbs'
  <2>1. Shape'
    BY <1>4 DEF LookupEffect, EndEffect, ReplyEffect, DropEffect
  <2>2. Fewer
    BY <1>4, <2>1, FewerAfter
  <2> QED BY <1>2, <2>2 DEF Fewer
<1>5. ASSUME NEW t \in Tokens, ExpireEffect(t) PROVE OverlapDisturbs'
  BY <1>2, <1>5 DEF ExpireEffect
<1>6. CASE NoEffect
  BY <1>2, <1>6 DEF NoEffect
<1> QED
  <2>1. \A q \in SessionCalls :
          /\ SignInEffect(q) => StoreEffect(q, issued + 1, None)
          /\ RotateEffect(q) => StoreEffect(q, chain[call[q].sent], call[q].sent)
          /\ LogoutEffect(q) \/ LogoutAllEffect(q) \/ SwitchEffect(q) => EndEffect(q)
    BY DEF SignInEffect, RotateEffect, LogoutEffect, LogoutAllEffect, SwitchEffect
  <2> QED BY StepDoes, <1>1, <1>3, <1>4, <1>5, <1>6, <2>1

-----------------------------------------------------------------------------

\* The parts of TokensLive.
ActsLive ==
  \A q \in SessionCalls :
    call[q].step = "act" /\ call[q].sent # None /\ chain[call[q].sent] \notin disturbed
      => token[call[q].sent] = "live"
GotLive ==
  \A q \in SessionCalls :
    call[q].got # None /\ chain[call[q].got] \notin disturbed => token[call[q].got] = "live"

LEMMA TokensLiveParts == TokensLive <=> ActsLive /\ GotLive
BY DEF TokensLive, ActsLive, GotLive

\* A step after which no call acts that did not act before, no answer is new, and
\* a token that is no longer live took its session with it, or was only the
\* call's own.
LEMMA TokensKeptBy ==
  ASSUME TokensLive, UNCHANGED chain, disturbed \subseteq disturbed',
         \A p \in SessionCalls : call'[p].got \in {call[p].got, None},
         \A p \in SessionCalls :
           call'[p].step = "act" /\ call'[p].sent # None
             => call'[p].sent = call[p].sent /\ (call[p].step = "act" \/ token[call[p].sent] = "live"),
         \A p \in SessionCalls : call[p].sent \in Tokens \cup {None} /\ call[p].got \in Tokens \cup {None},
         \A t \in Tokens : token'[t] = "live" => token[t] = "live",
         \A t \in Tokens : token[t] = "live" /\ token'[t] # "live" =>
           \/ chain[t] \in disturbed'
           \/ /\ \A p \in SessionCalls : call'[p].step = "act" => call'[p].sent # t
              /\ \A p \in SessionCalls : call[p].got # t
  PROVE  TokensLive'
<1> USE DEF ActsLive, GotLive
<1>1. ActsLive /\ GotLive
  BY TokensLiveParts
<1>2. ActsLive'
  <2> SUFFICES ASSUME NEW p \in SessionCalls, call'[p].step = "act", call'[p].sent # None,
                      chain[call'[p].sent] \notin disturbed'
               PROVE  token'[call'[p].sent] = "live"
    OBVIOUS
  <2> QED BY <1>1
<1>3. GotLive'
  BY <1>1
<1>4. (TokensLive <=> ActsLive /\ GotLive)'
  BY TokensLiveParts, PTL
<1> QED BY <1>2, <1>3, <1>4

\* What a sign-in or a rotation stores is live, and a rotation revokes only what no
\* other call of an undisturbed session carries.
LEMMA TokensKeptByStore ==
  ASSUME Shape, OneHolder, OverlapDisturbs, TokensLive, NEW q \in SessionCalls,
         SignInEffect(q) \/ RotateEffect(q)
  PROVE  TokensLive'
<1> DEFINE t == issued + 1
           root == IF SignInEffect(q) THEN issued + 1 ELSE chain[call[q].sent]
           rotated == IF SignInEffect(q) THEN None ELSE call[q].sent
<1>1. StoreEffect(q, root, rotated)
  <2>1. CASE SignInEffect(q)
    BY <2>1 DEF SignInEffect
  <2>2. CASE ~SignInEffect(q)
    BY <2>2 DEF RotateEffect
  <2> QED BY <2>1, <2>2
<1>2. ActsLive /\ GotLive
  BY TokensLiveParts
<1>3. /\ t \in Tokens /\ Others(q)
      /\ \A u \in Tokens : token'[u] = IF u = t THEN "live" ELSE IF u = rotated THEN "dead" ELSE token[u]
      /\ \A u \in Tokens : chain'[u] = IF u = t THEN root ELSE chain[u]
      /\ disturbed' = disturbed
  BY <1>1 DEF StoreEffect
<1>4. call'[q].step = "reply" /\ call'[q].got = t
  BY <1>1, CallFacts DEF StoreEffect, Calls
<1>5. \A p \in SessionCalls : call[p].sent # t /\ call[p].got # t
  BY CallFacts
<1>6. \A p \in SessionCalls \ {q} : call[p].sent # None /\ call[p].sent = rotated => chain[rotated] \in disturbed
  BY DEF OverlapDisturbs
<1>7. \A p \in SessionCalls : call[p].got # None => call[p].got # rotated
  BY DEF OneHolder
<1>8. \A p \in SessionCalls : call[p].sent \in Tokens \cup {None} /\ call[p].got \in Tokens \cup {None}
  BY CallFacts
<1> HIDE DEF t, root, rotated
<1>9. ActsLive'
  <2> SUFFICES ASSUME NEW p \in SessionCalls, call'[p].step = "act", call'[p].sent # None,
                      chain'[call'[p].sent] \notin disturbed'
               PROVE  token'[call'[p].sent] = "live"
    BY DEF ActsLive
  <2>1. p # q /\ call'[p] = call[p]
    BY <1>3, <1>4 DEF Others
  <2>2. call[p].sent \in Tokens /\ chain[call[p].sent] \notin disturbed
    BY <1>3, <1>5, <1>8, <2>1
  <2> QED BY <1>2, <1>3, <1>6, <2>1, <2>2 DEF ActsLive
<1>10. GotLive'
  <2> SUFFICES ASSUME NEW p \in SessionCalls, p # q, call'[p].got # None,
                      chain'[call'[p].got] \notin disturbed'
               PROVE  token'[call'[p].got] = "live"
    BY <1>3, <1>4 DEF GotLive
  <2>1. call'[p] = call[p]
    BY <1>3 DEF Others
  <2>2. call[p].got \in Tokens /\ chain[call[p].got] \notin disturbed /\ call[p].got # t
    BY <1>3, <1>5, <1>8, <2>1
  <2> QED BY <1>2, <1>3, <1>7, <2>1, <2>2 DEF GotLive
<1>11. (TokensLive <=> ActsLive /\ GotLive)'
  BY TokensLiveParts, PTL
<1> QED BY <1>9, <1>10, <1>11

LEMMA TokensKept ==
  Shape /\ OneHolder /\ OverlapDisturbs /\ TokensLive /\ [SessionNext]_sessionVars => TokensLive'
<1> SUFFICES ASSUME Shape, OneHolder, OverlapDisturbs, TokensLive, [SessionNext]_sessionVars
             PROVE  TokensLive'
  OBVIOUS
<1>a. \A p \in SessionCalls : call[p].sent \in Tokens \cup {None} /\ call[p].got \in Tokens \cup {None}
  BY CallFacts
<1>b. \A p \in SessionCalls : call[p] \in Calls
  BY CallFacts
<1>c. NoCall.step = "idle" /\ NoCall.got = None /\ NoCall.sent = None
  BY DEF NoCall
<1>d. disturbed \subseteq disturbed'
  BY ChainsKept
<1>1. ASSUME NEW q \in SessionCalls, SendEffect(q) PROVE TokensLive'
  <2>1. /\ UNCHANGED <<token, chain>> /\ Others(q) /\ call'[q].got = None
        /\ call'[q].step = "act" => call'[q].sent = None
    BY <1>1 DEF SendEffect
  <2> QED BY <1>a, <1>d, <2>1, TokensKeptBy DEF Others
<1>2. ASSUME NEW q \in SessionCalls, LookupEffect(q) PROVE TokensLive'
  <2>1. UNCHANGED <<token, chain>> /\ Others(q)
    BY <1>2 DEF LookupEffect
  <2>2. /\ call'[q].got \in {call[q].got, None}
        /\ call'[q].step = "act" => call'[q].sent = call[q].sent /\ token[call[q].sent] = "live"
    <3>1. CASE call'[q] = NoCall
      BY <1>c, <3>1
    <3>2. CASE call'[q] # NoCall
      BY <1>2, <1>b, <3>2 DEF LookupEffect, Calls
    <3> QED BY <3>1, <3>2
  <2> QED BY <1>a, <1>d, <2>1, <2>2, TokensKeptBy DEF Others
<1>3. ASSUME NEW q \in SessionCalls, EndEffect(q),
             \A t \in Tokens : token[t] = "live" /\ token'[t] # "live" =>
               \/ chain[t] \in disturbed'
               \/ /\ \A p \in SessionCalls \ {q} : call[p].sent # t
                  /\ \A p \in SessionCalls : call[p].got # t
      PROVE  TokensLive'
  <2>1. /\ UNCHANGED chain /\ Others(q)
        /\ \A t \in Tokens : token'[t] = "live" => token[t] = "live"
    BY <1>3 DEF EndEffect
  <2>2. call'[q].step = "reply" /\ call'[q].got = call[q].got
    BY <1>3, <1>b DEF EndEffect, Calls
  <2> QED BY <1>3, <1>a, <1>d, <2>1, <2>2, TokensKeptBy DEF Others
<1>4. ASSUME NEW q \in SessionCalls, LogoutEffect(q) PROVE TokensLive'
  <2>1. /\ EndEffect(q) /\ call[q].sent \in Tokens /\ disturbed' = disturbed
        /\ \A t \in Tokens : t # call[q].sent => token'[t] = token[t]
    BY <1>4 DEF LogoutEffect
  <2>2. \A p \in SessionCalls \ {q} : call[p].sent = call[q].sent => chain[call[q].sent] \in disturbed
    BY <2>1 DEF OverlapDisturbs
  <2>3. \A p \in SessionCalls : call[p].got # call[q].sent
    BY <2>1 DEF OneHolder
  <2> QED BY <1>3, <2>1, <2>2, <2>3
<1>5. ASSUME NEW q \in SessionCalls, LogoutAllEffect(q) PROVE TokensLive'
  BY <1>3, <1>5 DEF LogoutAllEffect
<1>6. ASSUME NEW q \in SessionCalls, SwitchEffect(q) PROVE TokensLive'
  BY <1>3, <1>6 DEF SwitchEffect
<1>7. ASSUME NEW q \in SessionCalls, ReplyEffect(q) \/ DropEffect(q) PROVE TokensLive'
  <2>1. UNCHANGED <<token, chain>> /\ Others(q) /\ call'[q] = NoCall
    BY <1>7 DEF ReplyEffect, DropEffect
  <2> QED BY <1>a, <1>c, <1>d, <2>1, TokensKeptBy DEF Others
<1>8. ASSUME NEW t \in Tokens, ExpireEffect(t) PROVE TokensLive'
  BY <1>8, <1>a, <1>d, TokensKeptBy DEF ExpireEffect
<1>9. CASE NoEffect
  BY <1>9, <1>a, <1>d, TokensKeptBy DEF NoEffect
<1> QED BY StepDoes, TokensKeptByStore, <1>1, <1>2, <1>4, <1>5, <1>6, <1>7, <1>8, <1>9

-----------------------------------------------------------------------------

\* A step that changes no stored row's token, no cookie, and no answer on its way.
LEMMA CookiesKeptBy ==
  ASSUME CookiesLive, refresh' = refresh, disturbed \subseteq disturbed',
         \A b \in Browsers : refresh[b] # None =>
           /\ chain'[refresh[b]] = chain[refresh[b]]
           /\ chain[refresh[b]] \notin disturbed' /\ token[refresh[b]] = "live"
                => token'[refresh[b]] = "live" \/ Replaced(b)'
           /\ chain[refresh[b]] \notin disturbed' /\ Replaced(b) => Replaced(b)'
  PROVE  CookiesLive'
<1> SUFFICES ASSUME NEW b \in Browsers, refresh[b] # None, chain'[refresh[b]] \notin disturbed'
             PROVE  token'[refresh[b]] = "live" \/ Replaced(b)'
  BY DEF CookiesLive
<1> QED BY DEF CookiesLive

LEMMA ReplacedKept ==
  ASSUME NEW q \in SessionCalls, Others(q), refresh' = refresh, call[q].step # "reply",
         NEW b \in Browsers, Replaced(b)
  PROVE  Replaced(b)'
BY DEF Replaced, Others

LEMMA CookiesKept == Inv /\ [SessionNext]_sessionVars => CookiesLive'
<1> SUFFICES ASSUME Inv, [SessionNext]_sessionVars PROVE CookiesLive'
  OBVIOUS
<1> USE DEF Inv
<1>a. \A b \in Browsers : refresh[b] # None =>
        refresh[b] \in Tokens /\ refresh[b] <= issued /\ chain'[refresh[b]] = chain[refresh[b]]
  <2>1. refresh \in [Browsers -> Tokens \cup {None}] /\ issued \in Nat
    BY TypeFacts DEF Shape
  <2> QED BY <2>1, ChainsKept DEF Shape
<1>b. disturbed \subseteq disturbed'
  BY ChainsKept
<1>c. \A p \in SessionCalls : call[p] \in Calls
  BY CallFacts
<1>1. ASSUME NEW q \in SessionCalls, SendEffect(q) \/ LookupEffect(q) \/ SwitchEffect(q) PROVE CookiesLive'
  <2>1. UNCHANGED <<token, refresh>> /\ Others(q) /\ call[q].step # "reply"
    BY <1>1 DEF SendEffect, LookupEffect, SwitchEffect, EndEffect
  <2> QED BY <1>a, <1>b, <2>1, ReplacedKept, CookiesKeptBy
<1>2. ASSUME NEW q \in SessionCalls, SignInEffect(q) PROVE CookiesLive'
  <2>1. /\ Others(q) /\ call[q].step # "reply" /\ refresh' = refresh
        /\ \A t \in Tokens : token[t] = "live" => token'[t] = "live"
    BY <1>2 DEF SignInEffect, StoreEffect
  <2> QED BY <1>a, <1>b, <2>1, ReplacedKept, CookiesKeptBy
<1>3. ASSUME NEW q \in SessionCalls, RotateEffect(q) \/ LogoutEffect(q) PROVE CookiesLive'
  <2>1. /\ Others(q) /\ call[q].step # "reply" /\ refresh' = refresh /\ call[q].sent \in Tokens
        /\ \A t \in Tokens : token[t] = "live" /\ t # call[q].sent => token'[t] = "live"
    BY <1>3 DEF RotateEffect, LogoutEffect, EndEffect, StoreEffect
  <2>2. /\ call'[q].step = "reply" /\ call'[q].kind \in {"refresh", "logout"}
        /\ call'[q].browser = call[q].browser /\ call'[q].sent = call[q].sent
    BY <1>3, <1>c DEF RotateEffect, LogoutEffect, EndEffect, StoreEffect, Calls
  <2>3. \A b \in Browsers : refresh[b] = call[q].sent => Replaced(b)'
    BY <2>1, <2>2 DEF Replaced, OneHolder
  <2> QED BY <1>a, <1>b, <2>1, <2>3, ReplacedKept, CookiesKeptBy
<1>4. ASSUME NEW q \in SessionCalls, LogoutAllEffect(q) PROVE CookiesLive'
  <2>1. /\ Others(q) /\ call[q].step # "reply" /\ refresh' = refresh
        /\ \A t \in Tokens : token[t] = "live" => chain[t] \in disturbed'
    BY <1>4 DEF LogoutAllEffect, EndEffect
  <2> QED BY <1>a, <1>b, <2>1, ReplacedKept, CookiesKeptBy
<1>5. ASSUME NEW q \in SessionCalls, ReplyEffect(q) PROVE CookiesLive'
  <2>1. /\ UNCHANGED <<token, chain, disturbed>> /\ Others(q)
        /\ \A b \in Browsers :
             refresh'[b] = IF b # call[q].browser THEN refresh[b]
                           ELSE IF call[q].kind \in {"logout", "logoutAll"} THEN None
                           ELSE IF call[q].kind = "switch" THEN refresh[b] ELSE call[q].got
    BY <1>5 DEF ReplyEffect
  <2> SUFFICES ASSUME NEW b \in Browsers, refresh'[b] # None, chain[refresh'[b]] \notin disturbed
               PROVE  token[refresh'[b]] = "live" \/ Replaced(b)'
    BY <2>1 DEF CookiesLive
  <2>2. CASE b = call[q].browser /\ call[q].kind # "switch"
    <3>1. refresh'[b] = call[q].got
      BY <2>1, <2>2
    <3> QED BY <3>1 DEF TokensLive
  <2>3. CASE b # call[q].browser \/ call[q].kind = "switch"
    <3>1. refresh'[b] = refresh[b]
      BY <2>1, <2>3
    <3>2. Replaced(b) => Replaced(b)'
      BY <2>1, <2>3, <3>1 DEF Replaced, Others
    <3> QED BY <3>1, <3>2 DEF CookiesLive
  <2> QED BY <2>2, <2>3
<1>6. ASSUME NEW q \in SessionCalls, DropEffect(q) PROVE CookiesLive'
  <2>1. UNCHANGED <<token, refresh>> /\ Others(q)
    BY <1>6 DEF DropEffect
  <2>2. \A b \in Browsers : refresh[b] # None /\ refresh[b] = call[q].sent => chain[refresh[b]] \in disturbed'
    BY <1>6 DEF DropEffect
  <2>3. \A b \in Browsers :
          refresh[b] # None /\ chain[refresh[b]] \notin disturbed' /\ Replaced(b) => Replaced(b)'
    BY <2>1, <2>2 DEF Replaced, Others
  <2> QED BY <1>a, <1>b, <2>1, <2>3, CookiesKeptBy
<1>7. ASSUME NEW t \in Tokens, ExpireEffect(t) PROVE CookiesLive'
  <2>1. /\ UNCHANGED <<refresh, call>> /\ chain[t] \in disturbed'
        /\ \A u \in Tokens : u # t => token'[u] = token[u]
    BY <1>7 DEF ExpireEffect
  <2>2. \A b \in Browsers : Replaced(b) => Replaced(b)'
    BY <2>1 DEF Replaced
  <2> QED BY <1>a, <1>b, <2>1, <2>2, CookiesKeptBy
<1>8. CASE NoEffect
  BY <1>8 DEF NoEffect, CookiesLive, Replaced
<1> QED BY StepDoes, <1>1, <1>2, <1>3, <1>4, <1>5, <1>6, <1>7, <1>8

-----------------------------------------------------------------------------

LEMMA InitInv == SessionInit => Inv
<1> SUFFICES ASSUME SessionInit PROVE Inv
  OBVIOUS
<1>1. \A q \in SessionCalls : call[q].sent = None /\ call[q].got = None /\ call[q].step = "idle"
  BY DEF SessionInit, NoCall
<1>2. /\ \A b \in Browsers : refresh[b] = None
      /\ \A t \in Tokens : token[t] = "unused"
  BY DEF SessionInit
<1> QED BY InitShape, <1>1, <1>2 DEF Inv, OneHolder, OverlapDisturbs, TokensLive, CookiesLive

LEMMA NextInv == Inv /\ [SessionNext]_sessionVars => Inv'
BY NextShape, HolderKept, OverlapKept, TokensKept, CookiesKept DEF Inv

-----------------------------------------------------------------------------
\* How many tokens of a sign-in may be live: each refresh that is past its lookup
\* will store one, and what none of them rotates stays.

Rotating(root) == {q \in SessionCalls : At(q, "act", {"refresh"}) /\ Root(q) = root}
Loose(root) == {t \in LiveOf(root) : \A q \in Rotating(root) : call[q].sent # t}

SplitsCounted(root) == Cardinality(Rotating(root)) + Cardinality(Loose(root)) <= 1 + overlaps[root]

LEMMA CountedSets ==
  ASSUME SessionTypeOK, NEW root \in Tokens
  PROVE  /\ IsFiniteSet(Rotating(root)) /\ IsFiniteSet(Loose(root))
         /\ Cardinality(Rotating(root)) \in Nat /\ Cardinality(Loose(root)) \in Nat
         /\ overlaps[root] \in Nat
<1>1. Rotating(root) \subseteq SessionCalls /\ Loose(root) \subseteq 1 .. MaxTokens
  BY DEF Rotating, Loose, LiveOf
<1>2. IsFiniteSet(SessionCalls) /\ IsFiniteSet(1 .. MaxTokens)
  BY FS_Interval
<1>3. IsFiniteSet(Rotating(root)) /\ IsFiniteSet(Loose(root))
  BY <1>1, <1>2, FS_Subset
<1> QED BY <1>3, FS_CardinalityType, TypeFacts

\* The live tokens of a sign-in are as many as counted.
LEMMA CountedBounds == ASSUME Shape, NEW root \in Tokens, SplitsCounted(root)
                       PROVE  Cardinality(LiveOf(root)) <= 1 + overlaps[root]
<1> USE DEF Shape
<1>1. /\ IsFiniteSet(Rotating(root)) /\ IsFiniteSet(Loose(root))
      /\ Cardinality(Rotating(root)) \in Nat /\ Cardinality(Loose(root)) \in Nat
      /\ overlaps[root] \in Nat
  BY CountedSets
<1> DEFINE carried == {call[q].sent : q \in Rotating(root)}
<1>2. IsFiniteSet(carried) /\ Cardinality(carried) <= Cardinality(Rotating(root))
  <2> DEFINE sent == [q \in Rotating(root) |-> call[q].sent]
  <2>1. sent \in Surjection(Rotating(root), carried)
    BY DEF Surjection
  <2> QED BY <1>1, <2>1, FS_Surjection
<1>3. LiveOf(root) \subseteq carried \cup Loose(root)
  BY DEF Loose
<1> HIDE DEF carried
<1>4. /\ IsFiniteSet(carried \cup Loose(root))
      /\ Cardinality(carried \cup Loose(root)) <= Cardinality(carried) + Cardinality(Loose(root))
  <2>1. /\ IsFiniteSet(carried \cup Loose(root))
        /\ Cardinality(carried \cup Loose(root))
             = Cardinality(carried) + Cardinality(Loose(root)) - Cardinality(carried \cap Loose(root))
    BY <1>1, <1>2, FS_Union
  <2>2. Cardinality(carried \cap Loose(root)) \in Nat /\ Cardinality(carried) \in Nat
    BY <1>2, FS_Subset, FS_CardinalityType
  <2>3. Cardinality(carried \cup Loose(root)) \in Nat
    BY <2>1, FS_CardinalityType
  <2> QED BY <1>1, <2>1, <2>2, <2>3
<1>5. /\ IsFiniteSet(LiveOf(root))
      /\ Cardinality(LiveOf(root)) <= Cardinality(carried \cup Loose(root))
  BY <1>3, <1>4, FS_Subset
<1>6. Cardinality(LiveOf(root)) \in Nat /\ Cardinality(carried \cup Loose(root)) \in Nat /\ Cardinality(carried) \in Nat
  BY <1>2, <1>4, <1>5, FS_CardinalityType
<1> QED BY <1>1, <1>2, <1>4, <1>5, <1>6 DEF SplitsCounted

\* No more to count, or one more on both sides.
LEMMA CountedSame ==
  ASSUME SessionTypeOK, SessionTypeOK', NEW root \in Tokens, SplitsCounted(root),
         Rotating(root)' \subseteq Rotating(root), Loose(root)' \subseteq Loose(root),
         overlaps'[root] = overlaps[root]
  PROVE  SplitsCounted(root)'
<1>1. /\ IsFiniteSet(Rotating(root)) /\ IsFiniteSet(Loose(root))
      /\ Cardinality(Rotating(root)) \in Nat /\ Cardinality(Loose(root)) \in Nat
      /\ overlaps[root] \in Nat
  BY CountedSets
<1>2. /\ Cardinality(Rotating(root)') <= Cardinality(Rotating(root))
      /\ Cardinality(Loose(root)') <= Cardinality(Loose(root))
  BY <1>1, FS_Subset
<1>3. Cardinality(Rotating(root)') \in Nat /\ Cardinality(Loose(root)') \in Nat
  BY <1>1, FS_Subset, FS_CardinalityType
<1> QED BY <1>1, <1>2, <1>3 DEF SplitsCounted

\* A refresh passes its lookup: the token is no longer loose, or another refresh
\* has it, too.
LEMMA CountedLookup ==
  ASSUME SessionTypeOK, SessionTypeOK', NEW root \in Tokens, SplitsCounted(root), NEW q \in SessionCalls,
         Rotating(root)' \subseteq Rotating(root) \cup {q}, Loose(root)' \subseteq Loose(root),
         \/ overlaps'[root] = overlaps[root] + 1
         \/ /\ overlaps'[root] = overlaps[root]
            /\ \E t \in Loose(root) : t \notin Loose(root)'
  PROVE  SplitsCounted(root)'
<1>1. /\ IsFiniteSet(Rotating(root)) /\ IsFiniteSet(Loose(root))
      /\ Cardinality(Rotating(root)) \in Nat /\ Cardinality(Loose(root)) \in Nat
      /\ overlaps[root] \in Nat
  BY CountedSets
<1>2. /\ IsFiniteSet(Rotating(root) \cup {q})
      /\ Cardinality(Rotating(root) \cup {q}) \in Nat
      /\ Cardinality(Rotating(root) \cup {q}) <= Cardinality(Rotating(root)) + 1
  <2>1. /\ IsFiniteSet(Rotating(root) \cup {q})
        /\ Cardinality(Rotating(root) \cup {q})
             = IF q \in Rotating(root) THEN Cardinality(Rotating(root)) ELSE Cardinality(Rotating(root)) + 1
    BY <1>1, FS_AddElement
  <2> QED BY <1>1, <2>1
<1>3. Cardinality(Rotating(root)') \in Nat /\ Cardinality(Rotating(root)') <= Cardinality(Rotating(root)) + 1
  <2>1. /\ IsFiniteSet(Rotating(root)')
        /\ Cardinality(Rotating(root)') <= Cardinality(Rotating(root) \cup {q})
    BY <1>2, FS_Subset
  <2>2. Cardinality(Rotating(root)') \in Nat
    BY <2>1, FS_CardinalityType
  <2> QED BY <1>1, <1>2, <2>1, <2>2
<1>4. /\ Cardinality(Loose(root)') \in Nat /\ Cardinality(Loose(root)') <= Cardinality(Loose(root))
      /\ (\E t \in Loose(root) : t \notin Loose(root)') => Cardinality(Loose(root)') < Cardinality(Loose(root))
  <2>1. IsFiniteSet(Loose(root)') /\ Cardinality(Loose(root)') <= Cardinality(Loose(root))
    BY <1>1, FS_Subset
  <2>2. Cardinality(Loose(root)') \in Nat
    BY <2>1, FS_CardinalityType
  <2>3. ASSUME NEW t \in Loose(root), t \notin Loose(root)'
        PROVE  Cardinality(Loose(root)') < Cardinality(Loose(root))
    <3>1. Loose(root)' # Loose(root)
      BY <2>3
    <3>2. Cardinality(Loose(root)') = Cardinality(Loose(root)) => Loose(root)' = Loose(root)
      BY <1>1, FS_Subset
    <3> QED BY <1>1, <2>1, <2>2, <3>1, <3>2
  <2> QED BY <2>1, <2>2, <2>3
<1> QED BY <1>1, <1>3, <1>4 DEF SplitsCounted

\* A refresh is done or dead, and leaves one more loose token at most.
LEMMA CountedDone ==
  ASSUME SessionTypeOK, SessionTypeOK', NEW root \in Tokens, SplitsCounted(root), NEW q \in Rotating(root), NEW t,
         Rotating(root)' \subseteq Rotating(root) \ {q}, Loose(root)' \subseteq Loose(root) \cup {t},
         overlaps'[root] = overlaps[root]
  PROVE  SplitsCounted(root)'
<1>1. /\ IsFiniteSet(Rotating(root)) /\ IsFiniteSet(Loose(root))
      /\ Cardinality(Rotating(root)) \in Nat /\ Cardinality(Loose(root)) \in Nat
      /\ overlaps[root] \in Nat
  BY CountedSets
<1>2. /\ IsFiniteSet(Rotating(root) \ {q})
      /\ Cardinality(Rotating(root) \ {q}) = Cardinality(Rotating(root)) - 1
  BY <1>1, FS_RemoveElement
<1>3. Cardinality(Rotating(root)') \in Nat /\ Cardinality(Rotating(root)') <= Cardinality(Rotating(root)) - 1
  <2>1. /\ IsFiniteSet(Rotating(root)')
        /\ Cardinality(Rotating(root)') <= Cardinality(Rotating(root) \ {q})
    BY <1>2, FS_Subset
  <2> QED BY <1>2, <2>1, FS_CardinalityType
<1>4. Cardinality(Loose(root)') \in Nat /\ Cardinality(Loose(root)') <= Cardinality(Loose(root)) + 1
  <2>1. /\ IsFiniteSet(Loose(root) \cup {t})
        /\ Cardinality(Loose(root) \cup {t})
             = IF t \in Loose(root) THEN Cardinality(Loose(root)) ELSE Cardinality(Loose(root)) + 1
    BY <1>1, FS_AddElement
  <2>2. Cardinality(Loose(root) \cup {t}) <= Cardinality(Loose(root)) + 1
    BY <1>1, <2>1
  <2>3. IsFiniteSet(Loose(root)') /\ Cardinality(Loose(root)') <= Cardinality(Loose(root) \cup {t})
    BY <2>1, FS_Subset
  <2>4. Cardinality(Loose(root)') \in Nat /\ Cardinality(Loose(root) \cup {t}) \in Nat
    BY <2>1, <2>3, FS_CardinalityType
  <2> QED BY <1>1, <2>2, <2>3, <2>4
<1> QED BY <1>1, <1>3, <1>4 DEF SplitsCounted

\* A refresh carries a stored token.
LEMMA RotatingFacts ==
  ASSUME Shape, NEW q \in SessionCalls, At(q, "act", {"refresh"})
  PROVE  call[q].sent \in Tokens /\ call[q].sent <= issued
<1>1. call[q] \in Calls /\ Shaped(call[q], issued)
  BY TypeFacts DEF Shape
<1> QED BY <1>1 DEF At, Shaped, Calls

\* What the other calls count stays as it was.
LEMMA OthersRotate ==
  ASSUME Shape, NEW q \in SessionCalls, Others(q), NEW root \in Tokens, NEW p \in SessionCalls \ {q},
         \A t \in Tokens : t <= issued => chain'[t] = chain[t]
  PROVE  /\ call'[p].sent = call[p].sent
         /\ p \in Rotating(root)' <=> p \in Rotating(root)
<1>1. call'[p] = call[p]
  BY DEF Others
<1>2. At(p, "act", {"refresh"}) => chain'[call[p].sent] = chain[call[p].sent]
  BY RotatingFacts
<1> QED BY <1>1, <1>2 DEF Rotating, At, Root

LEMMA CountedKept ==
  ASSUME Shape, [SessionNext]_sessionVars, NEW root \in Tokens, SplitsCounted(root) PROVE SplitsCounted(root)'
<1>a. SessionTypeOK /\ SessionTypeOK'
  BY NextShape DEF Shape
<1>b. \A t \in Tokens : t <= issued => chain'[t] = chain[t]
  BY ChainsKept
<1>c. \A t \in Tokens : token[t] = "live" => t <= issued /\ chain'[t] = chain[t]
  BY <1>b, ChainFacts
\* a call that was no refresh past its lookup, nor is one now, in a step that
\* brings no token to life
<1>d. ASSUME NEW q \in SessionCalls, Others(q), ~At(q, "act", {"refresh"}), ~At(q, "act", {"refresh"})',
             \A t \in Tokens : token'[t] = "live" => token[t] = "live",
             UNCHANGED <<chain, overlaps>>
      PROVE  SplitsCounted(root)'
  <2>1. Rotating(root)' = Rotating(root)
    <3>1. q \notin Rotating(root) /\ q \notin Rotating(root)'
      BY <1>d DEF Rotating
    <3>2. Rotating(root) \subseteq SessionCalls /\ Rotating(root)' \subseteq SessionCalls
      BY DEF Rotating
    <3> QED BY <1>b, <1>d, <3>1, <3>2, OthersRotate
  <2>2. \A p \in Rotating(root) : call'[p].sent = call[p].sent
    BY <1>b, <1>d, OthersRotate DEF Rotating
  <2>3. LiveOf(root)' \subseteq LiveOf(root)
    BY <1>d DEF LiveOf
  <2>4. Loose(root)' \subseteq Loose(root)
    BY <2>1, <2>2, <2>3 DEF Loose
  <2> QED BY <1>a, <1>d, <2>1, <2>4, CountedSame
<1>1. ASSUME NEW q \in SessionCalls, SendEffect(q) PROVE SplitsCounted(root)'
  <2>1. /\ Others(q) /\ ~At(q, "act", {"refresh"}) /\ UNCHANGED <<token, chain, overlaps>>
    BY <1>1 DEF SendEffect, At
  <2>2. ~At(q, "act", {"refresh"})'
    <3>1. Shape' /\ (call'[q].step = "act" => call'[q].sent = None)
      BY <1>1 DEF SendEffect
    <3>2. Shaped(call'[q], issued')
      BY <3>1 DEF Shape
    <3> QED BY <3>1, <3>2 DEF At, Shaped
  <2> QED BY <1>d, <2>1, <2>2
<1>2. ASSUME NEW q \in SessionCalls, LookupEffect(q) PROVE SplitsCounted(root)'
  <2> DEFINE t == call[q].sent
  <2>0. call[q] \in Calls /\ Shaped(call[q], issued)
    BY CallFacts DEF Shape
  <2>1. /\ Others(q) /\ ~At(q, "act", {"refresh"}) /\ UNCHANGED <<token, chain>>
        /\ t \in Tokens /\ call[q].step = "lookup"
    BY <1>2, <2>0 DEF LookupEffect, At, Shaped, Calls
  <2>2. CASE call'[q] = NoCall
    <3>1. ~At(q, "act", {"refresh"})' /\ overlaps' = overlaps
      <4>1. call'[q].step = "idle"
        BY <2>2 DEF NoCall
      <4>2. token[t] # "live"
        BY <1>2, <2>0, <4>1 DEF LookupEffect, Calls
      <4> QED BY <1>2, <4>1, <4>2 DEF LookupEffect, At
    <3> QED BY <1>d, <2>1, <3>1
  <2>3. CASE call'[q] # NoCall
    <3>1. /\ call'[q] = [call[q] EXCEPT !.step = "act"] /\ token[t] = "live"
          /\ overlaps' = IF Overlapping(q) THEN [overlaps EXCEPT ![chain[t]] = @ + 1] ELSE overlaps
      BY <1>2, <2>3 DEF LookupEffect
    <3>2. call'[q].step = "act" /\ call'[q].sent = t /\ call'[q].kind = call[q].kind
      BY <2>0, <3>1 DEF Calls
    <3>3. CASE call[q].kind # "refresh"
      <4>1. ~At(q, "act", {"refresh"})' /\ overlaps' = overlaps
        BY <3>1, <3>2, <3>3 DEF At, Overlapping
      <4> QED BY <1>d, <2>1, <4>1
    <3>4. CASE call[q].kind = "refresh" /\ chain[t] # root
      <4>1. overlaps'[root] = overlaps[root]
        BY <1>a, <3>1, <3>4, TypeFacts
      <4>2. Rotating(root)' = Rotating(root)
        <5>1. q \notin Rotating(root) /\ q \notin Rotating(root)'
          BY <2>1, <3>2, <3>4 DEF Rotating, Root
        <5>2. Rotating(root) \subseteq SessionCalls /\ Rotating(root)' \subseteq SessionCalls
          BY DEF Rotating
        <5>3. ASSUME NEW p \in SessionCalls \ {q}
              PROVE  p \in Rotating(root)' <=> p \in Rotating(root)
          BY <1>b, <2>1, OthersRotate
        <5> QED BY <5>1, <5>2, <5>3
      <4>3. \A p \in Rotating(root) : call'[p].sent = call[p].sent
        BY <1>b, <2>1, OthersRotate DEF Rotating
      <4>4. Loose(root)' \subseteq Loose(root)
        BY <2>1, <4>2, <4>3 DEF Loose, LiveOf
      <4> QED BY <1>a, <4>1, <4>2, <4>4, CountedSame
    <3>5. CASE call[q].kind = "refresh" /\ chain[t] = root
      <4>1. q \in Rotating(root)' /\ q \notin Rotating(root)
        BY <2>1, <3>2, <3>5 DEF Rotating, At, Root
      <4>2. Rotating(root)' = Rotating(root) \cup {q}
        <5>1. Rotating(root) \subseteq SessionCalls /\ Rotating(root)' \subseteq SessionCalls
          BY DEF Rotating
        <5> QED BY <1>b, <2>1, <4>1, <5>1, OthersRotate
      <4>3. \A p \in Rotating(root) : call'[p].sent = call[p].sent
        BY <1>b, <2>1, OthersRotate DEF Rotating
      <4>4. Loose(root)' \subseteq Loose(root) /\ t \notin Loose(root)'
        <5>1. LiveOf(root)' = LiveOf(root)
          BY <2>1 DEF LiveOf
        <5> QED BY <3>2, <4>2, <4>3, <5>1 DEF Loose
      <4>5. CASE Overlapping(q)
        <5>1. overlaps'[root] = overlaps[root] + 1
          BY <1>a, <3>1, <3>5, <4>5, TypeFacts
        <5> QED BY <1>a, <4>2, <4>4, <5>1, CountedLookup
      <4>6. CASE ~Overlapping(q)
        <5>1. overlaps' = overlaps
          BY <3>1, <4>6
        <5>2. \A p \in Rotating(root) : call[p].sent # t
          BY <3>5, <4>6 DEF Overlapping, Rotating
        <5>3. t \in Loose(root)
          BY <2>1, <3>1, <3>5, <5>2 DEF Loose, LiveOf
        <5> QED BY <1>a, <4>2, <4>4, <5>1, <5>3, CountedLookup
      <4> QED BY <4>5, <4>6
    <3> QED BY <3>3, <3>4, <3>5
  <2> QED BY <2>2, <2>3
<1>3. ASSUME NEW q \in SessionCalls, SignInEffect(q) PROVE SplitsCounted(root)'
  <2>1. /\ StoreEffect(q, issued + 1, None) /\ call[q].kind = "signin" /\ issued \in Nat
    BY <1>3, CallFacts DEF SignInEffect
  <2> DEFINE t == issued + 1
  <2>2. /\ Others(q) /\ t \in Tokens /\ call'[q].step = "reply" /\ overlaps' = overlaps
        /\ ~At(q, "act", {"refresh"}) /\ ~At(q, "act", {"refresh"})'
    BY <2>1, CallFacts DEF StoreEffect, At, Calls
  <2>3. /\ \A u \in Tokens : token'[u] = IF u = t THEN "live" ELSE token[u]
        /\ \A u \in Tokens : chain'[u] = IF u = t THEN t ELSE chain[u]
    BY <2>1 DEF StoreEffect
  <2>4. Rotating(root)' = Rotating(root)
    <3>1. q \notin Rotating(root) /\ q \notin Rotating(root)'
      BY <2>2 DEF Rotating
    <3>2. Rotating(root) \subseteq SessionCalls /\ Rotating(root)' \subseteq SessionCalls
      BY DEF Rotating
    <3>3. \A p \in SessionCalls \ {q} : p \in Rotating(root)' <=> p \in Rotating(root)
      BY <1>b, <2>2, OthersRotate
    <3> QED BY <3>1, <3>2, <3>3
  <2>5. \A p \in Rotating(root) : call'[p].sent = call[p].sent
    BY <1>b, <2>2, OthersRotate DEF Rotating
  <2>6. CASE root # t
    <3>1. LiveOf(root)' \subseteq LiveOf(root)
      BY <2>3, <2>6 DEF LiveOf
    <3>2. Loose(root)' \subseteq Loose(root)
      BY <2>4, <2>5, <3>1 DEF Loose
    <3> QED BY <1>a, <2>2, <2>4, <3>2, CountedSame
  <2>7. CASE root = t
    <3>1. Rotating(root) = {}
      <4>1. ASSUME NEW p \in SessionCalls, At(p, "act", {"refresh"}) PROVE Root(p) # t
        <5>1. call[p].sent \in Tokens /\ call[p].sent <= issued
          BY <4>1, RotatingFacts
        <5>2. chain[call[p].sent] \in 1 .. issued
          BY <5>1, ChainFacts
        <5> QED BY <2>1, <5>2 DEF Root
      <4> QED BY <2>7, <4>1 DEF Rotating
    <3>2. LiveOf(root)' \subseteq {t}
      <4>1. \A u \in Tokens : token[u] = "live" => chain[u] \in 1 .. issued
        BY ChainFacts
      <4> QED BY <2>1, <2>3, <2>7, <4>1 DEF LiveOf
    <3>3. Loose(root)' \subseteq {t}
      BY <3>2 DEF Loose
    <3>4. Cardinality(Rotating(root)') = 0
      BY <2>4, <3>1, FS_EmptySet
    <3>5. Cardinality(Loose(root)') \in Nat /\ Cardinality(Loose(root)') <= 1
      <4>1. IsFiniteSet({t}) /\ Cardinality({t}) = 1
        BY FS_Singleton
      <4>2. IsFiniteSet(Loose(root)') /\ Cardinality(Loose(root)') <= Cardinality({t})
        BY <3>3, <4>1, FS_Subset
      <4> QED BY <4>1, <4>2, FS_CardinalityType
    <3>6. overlaps'[root] \in Nat
      BY <1>a, <2>2, TypeFacts
    <3> QED BY <3>4, <3>5, <3>6 DEF SplitsCounted
  <2> QED BY <2>6, <2>7
<1>4. ASSUME NEW q \in SessionCalls, RotateEffect(q) PROVE SplitsCounted(root)'
  <2> DEFINE t == issued + 1
             old == call[q].sent
  <2>1. /\ StoreEffect(q, chain[old], old) /\ call[q].kind = "refresh" /\ issued \in Nat
        /\ old \in Tokens /\ old <= issued
    BY <1>4, CallFacts DEF RotateEffect
  <2>2. /\ Others(q) /\ t \in Tokens /\ call'[q].step = "reply" /\ overlaps' = overlaps
        /\ At(q, "act", {"refresh"}) /\ ~At(q, "act", {"refresh"})'
    BY <2>1, CallFacts DEF StoreEffect, At, Calls
  <2>3. /\ \A u \in Tokens : token'[u] = IF u = t THEN "live" ELSE IF u = old THEN "dead" ELSE token[u]
        /\ \A u \in Tokens : chain'[u] = IF u = t THEN chain[old] ELSE chain[u]
    BY <2>1 DEF StoreEffect
  <2>4. Rotating(root)' = Rotating(root) \ {q}
    <3>1. q \notin Rotating(root)'
      BY <2>2 DEF Rotating
    <3>2. Rotating(root) \subseteq SessionCalls /\ Rotating(root)' \subseteq SessionCalls
      BY DEF Rotating
    <3> QED BY <1>b, <2>2, <3>1, <3>2, OthersRotate
  <2>5. \A p \in Rotating(root) \ {q} : call'[p].sent = call[p].sent
    BY <1>b, <2>2, OthersRotate DEF Rotating
  <2>6. CASE root # chain[old]
    <3>1. q \notin Rotating(root)
      BY <2>6 DEF Rotating, Root
    <3>2. LiveOf(root)' \subseteq LiveOf(root)
      BY <2>3, <2>6 DEF LiveOf
    <3>3. Loose(root)' \subseteq Loose(root)
      BY <2>4, <2>5, <3>1, <3>2 DEF Loose
    <3> QED BY <1>a, <2>2, <2>4, <3>3, CountedSame
  <2>7. CASE root = chain[old]
    <3>1. q \in Rotating(root)
      BY <2>2, <2>7 DEF Rotating, Root
    <3>2. LiveOf(root)' \subseteq (LiveOf(root) \ {old}) \cup {t}
      BY <2>1, <2>3, <2>7 DEF LiveOf
    <3>3. Loose(root)' \subseteq Loose(root) \cup {t}
      BY <2>4, <2>5, <3>2 DEF Loose
    <3> HIDE DEF t
    <3> QED BY <1>a, <2>2, <2>4, <3>1, <3>3, CountedDone
  <2> QED BY <2>6, <2>7
<1>5. ASSUME NEW q \in SessionCalls, LogoutEffect(q) \/ LogoutAllEffect(q) \/ SwitchEffect(q)
      PROVE  SplitsCounted(root)'
  <2>1. EndEffect(q) /\ call[q].kind # "refresh"
    BY <1>5 DEF LogoutEffect, LogoutAllEffect, SwitchEffect
  <2>2. /\ Others(q) /\ call'[q].step = "reply" /\ UNCHANGED <<chain, overlaps>>
        /\ \A u \in Tokens : token'[u] = "live" => token[u] = "live"
    BY <2>1, CallFacts DEF EndEffect, Calls
  <2>3. ~At(q, "act", {"refresh"}) /\ ~At(q, "act", {"refresh"})'
    BY <2>1, <2>2 DEF At
  <2> QED BY <1>d, <2>2, <2>3
<1>6. ASSUME NEW q \in SessionCalls, ReplyEffect(q) PROVE SplitsCounted(root)'
  <2>1. /\ Others(q) /\ UNCHANGED <<token, chain, overlaps>>
        /\ ~At(q, "act", {"refresh"}) /\ ~At(q, "act", {"refresh"})'
    BY <1>6 DEF ReplyEffect, At, NoCall
  <2> QED BY <1>d, <2>1
<1>7. ASSUME NEW q \in SessionCalls, DropEffect(q) PROVE SplitsCounted(root)'
  <2>1. /\ Others(q) /\ UNCHANGED <<token, chain, overlaps>> /\ ~At(q, "act", {"refresh"})'
    BY <1>7 DEF DropEffect, At, NoCall
  <2>2. CASE ~At(q, "act", {"refresh"})
    BY <1>d, <2>1, <2>2
  <2>3. CASE At(q, "act", {"refresh"})
    <3>1. Rotating(root)' = Rotating(root) \ {q}
      <4>1. q \notin Rotating(root)'
        BY <2>1 DEF Rotating
      <4>2. Rotating(root) \subseteq SessionCalls /\ Rotating(root)' \subseteq SessionCalls
        BY DEF Rotating
      <4> QED BY <1>b, <2>1, <4>1, <4>2, OthersRotate
    <3>2. \A p \in Rotating(root) \ {q} : call'[p].sent = call[p].sent
      BY <1>b, <2>1, OthersRotate DEF Rotating
    <3>3. LiveOf(root)' = LiveOf(root)
      BY <2>1 DEF LiveOf
    <3>4. CASE q \in Rotating(root)
      <4>1. Loose(root)' \subseteq Loose(root) \cup {call[q].sent}
        BY <3>1, <3>2, <3>3 DEF Loose
      <4> QED BY <1>a, <2>1, <3>1, <3>4, <4>1, CountedDone
    <3>5. CASE q \notin Rotating(root)
      <4>1. Loose(root)' \subseteq Loose(root)
        BY <3>1, <3>2, <3>3, <3>5 DEF Loose
      <4> QED BY <1>a, <2>1, <3>1, <4>1, CountedSame
    <3> QED BY <3>4, <3>5
  <2> QED BY <2>2, <2>3
<1>8. ASSUME UNCHANGED <<chain, call, overlaps>>,
             \A t \in Tokens : token'[t] = "live" => token[t] = "live"
      PROVE  SplitsCounted(root)'
  <2>1. Rotating(root)' = Rotating(root)
    BY <1>8 DEF Rotating, At, Root
  <2>2. LiveOf(root)' \subseteq LiveOf(root)
    BY <1>8 DEF LiveOf
  <2>3. Loose(root)' \subseteq Loose(root)
    BY <1>8, <2>1, <2>2 DEF Loose
  <2> QED BY <1>a, <1>8, <2>1, <2>3, CountedSame
<1>9. ASSUME NEW t \in Tokens, ExpireEffect(t) PROVE SplitsCounted(root)'
  BY <1>8, <1>9 DEF ExpireEffect
<1>10. CASE NoEffect
  BY <1>8, <1>10 DEF NoEffect
<1> QED BY StepDoes, <1>1, <1>2, <1>3, <1>4, <1>5, <1>6, <1>7, <1>9, <1>10

\* A sign-in has one live token, and one more for each refresh that looked its
\* token up while another was about to rotate it: through any number of browsers,
\* calls, failures, lost answers, expired tokens, logouts and logouts everywhere.
THEOREM OneLive == SessionSpec => []OneLivePerSession
<1> DEFINE AllCounted == \A root \in Tokens : SplitsCounted(root)
<1>1. SessionInit => AllCounted
  <2> SUFFICES ASSUME SessionInit, NEW root \in Tokens PROVE SplitsCounted(root)
    OBVIOUS
  <2>1. Rotating(root) = {} /\ LiveOf(root) = {}
    BY DEF SessionInit, NoCall, Rotating, At, LiveOf
  <2>2. Loose(root) = {}
    BY <2>1 DEF Loose
  <2>3. overlaps[root] = 0
    BY DEF SessionInit
  <2> QED BY <2>1, <2>2, <2>3, FS_EmptySet DEF SplitsCounted
<1>2. Shape /\ AllCounted /\ [SessionNext]_sessionVars => AllCounted'
  BY CountedKept
<1>3. Shape /\ AllCounted => OneLivePerSession
  BY CountedBounds DEF OneLivePerSession
<1> HIDE DEF AllCounted
<1> QED BY InitShape, NextShape, <1>1, <1>2, <1>3, PTL DEF SessionSpec

\* The cookie of a browser with no call under way holds a live token, unless
\* something befell its session.
THEOREM CookieLive == SessionSpec => []CookieStaysLive
<1>1. Inv => CookieStaysLive
  BY DEF Inv, CookiesLive, CookieStaysLive, Replaced
<1> QED BY InitInv, NextInv, <1>1, PTL DEF SessionSpec

HIDE SessionAssumption DEF Tokens, None

=============================================================================
