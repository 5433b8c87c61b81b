----------------------------- MODULE LiveStream ------------------------------
(***************************************************************************)
(* The live stream of one repository: a browser fetches a one-time token,  *)
(* opens an EventSource with it, and reconnects a second after any error;  *)
(* the API consumes the token, checks the membership, subscribes to Redis  *)
(* and forwards what is published until the request is aborted.            *)
(*                                                                         *)
(* Each page that mounts makes a client of its own and disconnects it when *)
(* it unmounts, which may be in the middle of any await.                   *)
(***************************************************************************)
EXTENDS Naturals, Sequences, FiniteSets

CONSTANTS
  Clients,         \* pages mounted one after the other or side by side
  MaxGrants,       \* bound: one-time tokens
  MaxPublished,    \* bound: events
  MaxDrops         \* bound: connections, fetches and tokens that fail

ASSUME LiveStreamAssumption ==
  MaxGrants \in Nat /\ MaxPublished \in Nat /\ MaxDrops \in Nat

NoGrant == 0
Grants == 1 .. MaxGrants

VARIABLES
  page,       \* each client: its life, where its connecting is, the token it holds, the
              \* event sources it has open, its status
  grant,      \* one-time tokens in Redis
  stream,     \* the request made with each token, at the API
  aborted,    \* requests whose client has gone
  wire,       \* events written to each stream and not yet received
  belongs,    \* the user is a member of the workspace
  published,  \* events published so far
  \* observation and bound
  opened,     \* streams each token has opened
  latest,     \* latest event each page was given
  drops

liveStreamVars ==
  <<page, grant, stream, aborted, wire, belongs, published, opened, latest, drops>>

NewPage == [life |-> "new", conn |-> "idle", grant |-> NoGrant, sources |-> {},
            status |-> "offline"]

LiveStreamTypeOK ==
  /\ page \in [Clients -> [life : {"new", "mounted", "gone"},
                           conn : {"idle", "fetch", "arriving", "open", "wait"},
                           grant : Grants \cup {NoGrant}, sources : SUBSET Grants,
                           status : {"connected", "reconnecting", "offline"}]]
  /\ grant \in [Grants -> {"none", "live", "used", "expired"}]
  /\ stream \in [Grants -> {"none", "request", "check", "subscribe", "attached", "ended"}]
  /\ aborted \in SUBSET Grants
  /\ \A t \in Grants : wire[t] \in Seq(1 .. MaxPublished)
  /\ belongs \in BOOLEAN
  /\ published \in 0 .. MaxPublished
  /\ opened \in [Grants -> 0 .. 2]
  /\ latest \in [Clients -> 0 .. MaxPublished]
  /\ drops \in 0 .. MaxDrops

LiveStreamInit ==
  /\ page = [c \in Clients |-> NewPage]
  /\ grant = [t \in Grants |-> "none"]
  /\ stream = [t \in Grants |-> "none"]
  /\ aborted = {}
  /\ wire = [t \in Grants |-> <<>>]
  /\ belongs = TRUE
  /\ published = 0
  /\ opened = [t \in Grants |-> 0]
  /\ latest = [c \in Clients |-> 0]
  /\ drops = 0

apiVars == <<grant, stream, aborted, wire, opened>>
restVars == <<belongs, published, latest>>

Mounted(c) == page[c].life = "mounted"
Issued == {t \in Grants : grant[t] # "none"}

\* Page c has an EventSource open on the stream of t.
Listens(c, t) == t \in page[c].sources

-----------------------------------------------------------------------------
\* The browser.

\* The effect creates a client and connects it: openConnection fetches a token.
Mount(c) ==
  /\ page[c].life = "new"
  /\ page' = [page EXCEPT ![c] =
       [NewPage EXCEPT !.life = "mounted", !.conn = "fetch", !.status = "reconnecting"]]
  /\ UNCHANGED <<apiVars, restVars, drops>>

\* The token arrives: a page that is gone by now does nothing with it.
TokenArrives(c) ==
  /\ page[c].conn = "arriving"
  /\ IF Mounted(c)
       THEN /\ page' = [page EXCEPT ![c].conn = "open", ![c].sources = @ \cup {page[c].grant}]
            /\ stream' = [stream EXCEPT ![page[c].grant] = "request"]
       ELSE /\ page' = [page EXCEPT ![c].conn = "idle", ![c].grant = NoGrant]
            /\ UNCHANGED stream
  /\ UNCHANGED <<grant, aborted, wire, opened, restVars, drops>>

\* onopen: the API has answered, whether or not it has subscribed yet.
Opened(c) ==
  /\ \E t \in Grants : Listens(c, t) /\ stream[t] \in {"subscribe", "attached"} /\ t \notin aborted
  /\ page[c].status # "connected"
  /\ page' = [page EXCEPT ![c].status = "connected"]
  /\ UNCHANGED <<apiVars, restVars, drops>>

\* onmessage
Receive(c) ==
  \E t \in Grants :
    /\ Listens(c, t) /\ wire[t] # <<>> /\ t \notin aborted
    /\ latest' = [latest EXCEPT ![c] = Head(wire[t])]
    /\ wire' = [wire EXCEPT ![t] = Tail(@)]
    /\ UNCHANGED <<page, grant, stream, aborted, opened, belongs, published, drops>>

\* scheduleReconnect, if the page is still there, with these sources open.
Later(c, sources) ==
  page' = [page EXCEPT ![c] =
    IF Mounted(c) THEN [@ EXCEPT !.conn = "wait", !.grant = NoGrant, !.sources = sources,
                                 !.status = "reconnecting"]
    ELSE [@ EXCEPT !.conn = "idle", !.grant = NoGrant, !.sources = sources]]

\* onerror: the API refused the request or ended the stream, or the connection
\* broke.  The source is closed and another connection is made later.
OnError(c) ==
  \E t \in Grants :
    /\ Listens(c, t)
    /\ \/ stream[t] = "ended" /\ UNCHANGED drops
       \/ drops < MaxDrops /\ drops' = drops + 1
    /\ Later(c, page[c].sources \ {t})
    /\ aborted' = aborted \cup {t}
    /\ wire' = [wire EXCEPT ![t] = <<>>]
    /\ UNCHANGED <<grant, stream, opened, restVars>>

\* The fetch of the token fails, or its answer is lost.
FetchFails(c) ==
  /\ page[c].conn \in {"fetch", "arriving"}
  /\ drops < MaxDrops /\ drops' = drops + 1
  /\ Later(c, page[c].sources)
  /\ UNCHANGED <<apiVars, restVars>>

\* Mutant: a page that was connected before does not try again.
Reconnect_Once(c) ==
  /\ page[c].conn = "wait" /\ latest[c] = 0
  /\ page' = [page EXCEPT ![c].conn = "fetch"]
  /\ UNCHANGED <<apiVars, restVars, drops>>

\* A second later.
Reconnect(c) ==
  /\ page[c].conn = "wait"
  /\ page' = [page EXCEPT ![c].conn = "fetch"]
  /\ UNCHANGED <<apiVars, restVars, drops>>

\* disconnect: the timer is cleared and the source closed; a fetch goes on.
Unmount(c) ==
  /\ Mounted(c)
  /\ page' = [page EXCEPT ![c] =
       [@ EXCEPT !.life = "gone", !.status = "offline", !.sources = {},
                 !.conn = IF page[c].conn \in {"fetch", "arriving"} THEN page[c].conn ELSE "idle",
                 !.grant = IF page[c].conn = "arriving" THEN page[c].grant ELSE NoGrant]]
  /\ aborted' = aborted \cup {t \in Grants : Listens(c, t)}
  /\ wire' = [t \in Grants |-> IF Listens(c, t) THEN <<>> ELSE wire[t]]
  /\ UNCHANGED <<grant, stream, opened, restVars, drops>>

-----------------------------------------------------------------------------
\* The API.

\* createSseToken
IssueToken(c) ==
  /\ page[c].conn = "fetch"
  /\ \E t \in Grants :
       /\ t = Cardinality(Issued) + 1
       /\ grant' = [grant EXCEPT ![t] = "live"]
       /\ page' = [page EXCEPT ![c].conn = "arriving", ![c].grant = t]
  /\ UNCHANGED <<stream, aborted, wire, opened, restVars, drops>>

\* Sixty seconds pass.
GrantExpires(t) ==
  /\ grant[t] = "live"
  /\ drops < MaxDrops /\ drops' = drops + 1
  /\ grant' = [grant EXCEPT ![t] = "expired"]
  /\ UNCHANGED <<page, stream, aborted, wire, opened, restVars>>

\* consumeSseToken: get and delete in one transaction; 401 without it.
Consume(t) ==
  /\ stream[t] = "request"
  /\ IF grant[t] = "live"
       THEN /\ grant' = [grant EXCEPT ![t] = "used"]
            /\ stream' = [stream EXCEPT ![t] = "check"]
            /\ opened' = [opened EXCEPT ![t] = IF @ < 2 THEN @ + 1 ELSE @]
       ELSE stream' = [stream EXCEPT ![t] = "ended"] /\ UNCHANGED <<grant, opened>>
  /\ UNCHANGED <<page, aborted, wire, restVars, drops>>

\* The same request is made once more, by the browser or a proxy, and its answer
\* reaches nobody.
RepeatRequest(t) ==
  /\ stream[t] # "none" /\ grant[t] = "live"
  /\ drops < MaxDrops /\ drops' = drops + 1
  /\ grant' = [grant EXCEPT ![t] = "used"]
  /\ opened' = [opened EXCEPT ![t] = IF @ < 2 THEN @ + 1 ELSE @]
  /\ UNCHANGED <<page, stream, aborted, wire, restVars>>

\* The membership is checked once, 403 without it; then the stream is answered.
CheckMember(t) ==
  /\ stream[t] = "check"
  /\ stream' = [stream EXCEPT ![t] = IF belongs THEN "subscribe" ELSE "ended"]
  /\ UNCHANGED <<page, grant, aborted, wire, opened, restVars, drops>>

\* subscribeSseBroadcaster: from here on what is published is forwarded.
Subscribed(t) ==
  /\ stream[t] = "subscribe"
  /\ stream' = [stream EXCEPT ![t] = "attached"]
  /\ UNCHANGED <<page, grant, aborted, wire, opened, restVars, drops>>

\* Mutant: that the request was aborted shows when the next event is written.
Release_OnNextEvent(t) ==
  /\ stream[t] = "attached" /\ t \in aborted
  /\ published < MaxPublished
  /\ stream' = [stream EXCEPT ![t] = "ended"]
  /\ UNCHANGED <<page, grant, aborted, wire, opened, restVars, drops>>

\* waitForAbort returns, at once if the request was aborted while it subscribed,
\* and the subscriber is closed.
Release(t) ==
  /\ stream[t] = "attached" /\ t \in aborted
  /\ stream' = [stream EXCEPT ![t] = "ended"]
  /\ UNCHANGED <<page, grant, aborted, wire, opened, restVars, drops>>

\* The API restarts: its streams end with it.
ApiRestarts ==
  /\ drops < MaxDrops /\ drops' = drops + 1
  /\ \E t \in Grants : stream[t] \in {"check", "subscribe", "attached"}
  /\ stream' = [t \in Grants |->
       IF stream[t] \in {"check", "subscribe", "attached"} THEN "ended" ELSE stream[t]]
  /\ UNCHANGED <<page, grant, aborted, wire, opened, restVars>>

\* A worker publishes an event: Redis gives it to those that listen, nobody else
\* ever gets it.
Publish ==
  /\ published < MaxPublished
  /\ published' = published + 1
  /\ wire' = [t \in Grants |->
       IF stream[t] = "attached" /\ t \notin aborted THEN Append(wire[t], published') ELSE wire[t]]
  /\ UNCHANGED <<page, grant, stream, aborted, opened, belongs, latest, drops>>

\* The user is removed from the workspace: open streams stay open.
LoseMembership ==
  /\ belongs /\ belongs' = FALSE
  /\ UNCHANGED <<page, apiVars, published, latest, drops>>

LiveStreamNext ==
  \/ \E c \in Clients :
       \/ Mount(c) \/ TokenArrives(c) \/ Opened(c) \/ Receive(c) \/ OnError(c)
       \/ FetchFails(c) \/ Reconnect(c) \/ Unmount(c) \/ IssueToken(c)
  \/ \E t \in Grants :
       \/ GrantExpires(t) \/ Consume(t) \/ RepeatRequest(t) \/ CheckMember(t)
       \/ Subscribed(t) \/ Release(t)
  \/ ApiRestarts \/ Publish \/ LoseMembership

\* Requests are answered, timers fire, and a source whose stream has ended fails.
LiveStreamStep ==
  \/ \E c \in Clients :
       TokenArrives(c) \/ Reconnect(c) \/ IssueToken(c) \/ (OnError(c) /\ drops' = drops)
  \/ \E t \in Grants : Consume(t) \/ CheckMember(t) \/ Subscribed(t) \/ Release(t)

LiveStreamFairness == WF_liveStreamVars(LiveStreamStep)

LiveStreamSpec == LiveStreamInit /\ [][LiveStreamNext]_liveStreamVars /\ LiveStreamFairness

-----------------------------------------------------------------------------

\* A token opens one stream at most; a page has one connection at most, and one that
\* is gone has none, wherever in its connecting it was; and every stream the API
\* still has without a page behind it is on its way to be closed.
OneConnection ==
  /\ \A t \in Grants : opened[t] <= 1
  /\ \A c \in Clients :
       /\ Cardinality(page[c].sources) <= 1
       /\ page[c].life = "gone" => page[c].sources = {} /\ page[c].status = "offline"
  /\ \A t \in Grants : stream[t] \in {"check", "subscribe", "attached"} =>
       t \in aborted \/ \E c \in Clients : Mounted(c) /\ Listens(c, t)

\* Nothing outlives the page: what it cannot be closed with is released by the API
\* in the end, which keeps no subscriber whose page has gone.
NothingOutlivesThePage ==
  /\ []OneConnection
  /\ \A t \in Grants : (stream[t] = "attached" /\ t \in aborted) ~> (stream[t] = "ended")

\* Across reconnections a page never sees an event after a later one, since the
\* stream it left is closed before the next is opened; and a page that stays is
\* connected again after any failure, as long as its user may see the repository.
StreamResumes ==
  /\ [][\A c \in Clients : latest'[c] >= latest[c]]_liveStreamVars
  /\ \A c \in Clients :
       (Mounted(c) /\ page[c].conn # "open") ~>
         \/ \E t \in Grants : Listens(c, t) /\ stream[t] = "attached"
         \/ ~Mounted(c) \/ ~belongs \/ Cardinality(Issued) = MaxGrants

=============================================================================
