------------------------------- MODULE LiveView -------------------------------
(***************************************************************************)
(* What a page of the web app shows of one repository's runs, against what *)
(* the database holds: the card of the dashboard, the list of runs, or one *)
(* run.  A page loads its data and applies the live events on top; a       *)
(* response replaces what is shown, events applied meanwhile included.     *)
(*                                                                         *)
(* useApi makes a new workspace client at every render and the loading     *)
(* callbacks depend on it, so every change of a page's state loads its     *)
(* data once more.  See LiveStream for the stream; here it is open or not. *)
(***************************************************************************)
EXTENDS Naturals, FiniteSets, Sequences

CONSTANTS
  ViewRuns,       \* runs, numbered in the order of their starts
  Slots,          \* requests a browser has under way at a time
  MaxReports,     \* bound: changes GitHub reports
  MaxViewFaults   \* bound: lost events, failed loads, streams that come and go

ASSUME LiveViewAssumption ==
  /\ ViewRuns \subseteq Nat \ {0} /\ ViewRuns # {}
  /\ MaxReports \in Nat /\ MaxViewFaults \in Nat

\* "in_progress" stands for the statuses of a run that is not over ("queued",
\* "waiting", ...), and a conclusion for those that are treated the same.
Pages == {"card", "list", "detail"}
Filters == {"all", "failed"}
RawStatuses == {"in_progress", "completed", "unheard_of"}
RawConclusions == {"none", "success", "timed_out"}
Statuses == {"in_progress", "completed"}
Conclusions == {"null", "success", "failure"}
RunRows == [status : Statuses, conclusion : Conclusions]

Shown == 1   \* the run of the detail page

VARIABLES
  pageKind,
  filter,      \* of the list
  stored,      \* the database: a row of each run, or none
  events,      \* published and not delivered: run and row; two workers, so in any order
  streaming,   \* the page's stream is open
  view,        \* what the page shows, or that it has loaded nothing yet
  loading, failed, \* the spinner; the error with its retry button
  dirty,       \* a render is due
  request,     \* loads under way
  \* observation and bounds
  succeeded,   \* runs GitHub reported a success of
  unheard,     \* runs GitHub reported in a status the code does not know
  reports, viewFaults

liveViewVars == <<pageKind, filter, stored, events, streaming, view, loading, failed, dirty,
                  request, succeeded, unheard, reports, viewFaults>>

NoViewRow == [status |-> "none", conclusion |-> "none"]
NothingYet == [loaded |-> FALSE, running |-> FALSE, rows |-> [r \in ViewRuns |-> NoViewRow]]
Unasked == [state |-> "idle", filter |-> "all", answer |-> NothingYet]

-----------------------------------------------------------------------------
\* What the server and the browser make of rows.

\* mapGitHubStatus: what it does not know is completed.
mapGitHubStatus(raw) == IF raw = "unheard_of" THEN "completed" ELSE raw

\* mapGitHubConclusion: no conclusion before the run is completed, and failure for
\* all it does not know.
mapGitHubConclusion(conclusion, raw) ==
  IF raw # "completed" \/ conclusion = "none" THEN "null"
  ELSE IF conclusion = "timed_out" THEN "failure" ELSE conclusion

Active(row) == row.status = "in_progress"

\* mapRunToBadgeStatus, mapPipelineRunToBadgeStatus
Badge(row) ==
  IF Active(row) THEN "running"
  ELSE IF row.status # "completed" THEN "queued"
  ELSE IF row.conclusion = "failure" THEN "failure" ELSE "success"

\* applyConclusionFilter, in the browser
Matches(row, f) == f = "all" \/ (row.status = "completed" /\ row.conclusion = "failure")

Held == {r \in ViewRuns : stored[r] # NoViewRow}

\* getWorkspaceDashboard: the run that started last, and whether any is active.
CardOf ==
  LET latest == IF Held = {} THEN 0 ELSE CHOOSE r \in Held : \A s \in Held : s <= r
  IN [loaded |-> TRUE, running |-> \E r \in Held : Active(stored[r]),
      rows |-> [r \in ViewRuns |-> IF r = latest THEN stored[r] ELSE NoViewRow]]

\* What a load answers: the card, the runs listed, or the run - which is not found
\* before it is stored.
Answer(f) ==
  CASE pageKind = "card" -> CardOf
    [] pageKind = "list" ->
         [loaded |-> TRUE, running |-> FALSE,
          rows |-> [r \in ViewRuns |-> IF Matches(stored[r], f) THEN stored[r] ELSE NoViewRow]]
    [] pageKind = "detail" ->
         IF stored[Shown] = NoViewRow THEN NothingYet
         ELSE [loaded |-> TRUE, running |-> FALSE,
               rows |-> [r \in ViewRuns |-> IF r = Shown THEN stored[r] ELSE NoViewRow]]

\* applySseEventToDashboard shows the run of the event, whichever it is;
\* applySseEventToRuns whatever the filter; applySseEventToRunDetail its own.
Patched(e) ==
  CASE pageKind = "card" ->
         [view EXCEPT !.rows = [r \in ViewRuns |-> IF r = e.run THEN e.row ELSE NoViewRow],
                      !.running = Active(e.row)]
    [] pageKind = "list" -> [view EXCEPT !.rows[e.run] = e.row]
    [] pageKind = "detail" -> IF e.run = Shown THEN [view EXCEPT !.rows[e.run] = e.row] ELSE view

LiveViewTypeOK ==
  /\ pageKind \in Pages /\ filter \in Filters
  /\ stored \in [ViewRuns -> RunRows \cup {NoViewRow}]
  /\ events \subseteq [run : ViewRuns, row : RunRows]
  /\ streaming \in BOOLEAN /\ loading \in BOOLEAN /\ failed \in BOOLEAN /\ dirty \in BOOLEAN
  /\ view \in [loaded : BOOLEAN, running : BOOLEAN, rows : [ViewRuns -> RunRows \cup {NoViewRow}]]
  /\ \A s \in Slots : request[s].state \in {"idle", "asked", "answered"}
                      /\ request[s].filter \in Filters
  /\ succeeded \in SUBSET ViewRuns /\ unheard \in SUBSET ViewRuns
  /\ reports \in 0 .. MaxReports /\ viewFaults \in 0 .. MaxViewFaults

LiveViewInit ==
  /\ pageKind \in Pages
  /\ filter \in IF pageKind = "list" THEN Filters ELSE {"all"}
  /\ stored = [r \in ViewRuns |-> NoViewRow]
  /\ events = {} /\ streaming = FALSE
  /\ view = NothingYet
  /\ loading = TRUE /\ failed = FALSE /\ dirty = TRUE
  /\ request = [s \in Slots |-> Unasked]
  /\ succeeded = {} /\ unheard = {} /\ reports = 0 /\ viewFaults = 0

pageVars == <<view, loading, failed, dirty, request>>
seen == <<succeeded, unheard>>
bounds == <<reports, viewFaults>>

-----------------------------------------------------------------------------
\* The server.

\* A run is stored as GitHub reports it, and the row published once it is.
Report(r) ==
  /\ reports < MaxReports /\ reports' = reports + 1
  /\ \E raw \in RawStatuses, conclusion \in RawConclusions :
       LET row == [status |-> mapGitHubStatus(raw),
                   conclusion |-> mapGitHubConclusion(conclusion, raw)]
       IN /\ raw = "completed" <=> conclusion # "none"
          /\ stored' = [stored EXCEPT ![r] = row]
          /\ events' = events \cup {[run |-> r, row |-> row]}
          /\ succeeded' = IF conclusion = "success" THEN succeeded \cup {r} ELSE succeeded
          /\ unheard' = IF raw = "unheard_of" THEN unheard \cup {r} ELSE unheard
  /\ UNCHANGED <<pageKind, filter, streaming, pageVars, viewFaults>>

\* An event reaches the page, if it listens; a page that has loaded nothing has
\* nothing to apply it to, except the list.
Deliver ==
  \E e \in events :
    /\ events' = events \ {e}
    /\ IF streaming /\ (view.loaded \/ pageKind = "list")
         THEN view' = Patched(e) /\ dirty' = TRUE
         ELSE UNCHANGED <<view, dirty>>
    /\ UNCHANGED <<pageKind, filter, stored, streaming, loading, failed, request, seen, bounds>>

\* The stream opens, or breaks: its status is part of the page's state.
StreamOpens ==
  /\ ~streaming
  /\ pageKind # "card" \/ view.loaded
  /\ streaming' = TRUE /\ dirty' = TRUE
  /\ UNCHANGED <<pageKind, filter, stored, events, view, loading, failed, request, seen, bounds>>

StreamBreaks ==
  /\ streaming
  /\ viewFaults < MaxViewFaults /\ viewFaults' = viewFaults + 1
  /\ streaming' = FALSE /\ dirty' = TRUE
  /\ UNCHANGED <<pageKind, filter, stored, events, view, loading, failed, request, seen, reports>>

-----------------------------------------------------------------------------
\* The page.

\* Mutant: the client stays the same from one render to the next, so a page loads
\* when it is mounted and when its filter changes.
StartLoad_Memoized(s) ==
  /\ dirty /\ request[s].state = "idle"
  /\ dirty' = FALSE /\ loading' = TRUE /\ failed' = FALSE
  /\ request' = IF ~view.loaded \/ \E t \in Slots : request[t].filter # filter
       THEN [request EXCEPT ![s] = [Unasked EXCEPT !.state = "asked", !.filter = filter]]
       ELSE request
  /\ UNCHANGED <<pageKind, filter, stored, events, streaming, view, seen, bounds>>

\* The effect of a render: loadDashboard or loadData.  Showing the spinner is a
\* render of its own.
StartLoad(s) ==
  /\ dirty /\ request[s].state = "idle"
  /\ dirty' = ~loading /\ loading' = TRUE /\ failed' = FALSE
  /\ request' = [request EXCEPT ![s] = [Unasked EXCEPT !.state = "asked", !.filter = filter]]
  /\ UNCHANGED <<pageKind, filter, stored, events, streaming, view, seen, bounds>>

\* The API reads the database, in one statement.
AnswerLoad(s) ==
  /\ request[s].state = "asked"
  /\ request' = [request EXCEPT ![s].state = "answered", ![s].answer = Answer(request[s].filter)]
  /\ UNCHANGED <<pageKind, filter, stored, events, streaming, view, loading, failed, dirty, seen, bounds>>

\* The response is shown, whatever was asked for or shown since; an answer of 404
\* as an error, beside what was loaded before.
ShowLoad(s) ==
  /\ request[s].state = "answered"
  /\ IF request[s].answer.loaded
       THEN view' = request[s].answer /\ UNCHANGED failed
       ELSE failed' = TRUE /\ UNCHANGED view
  /\ loading' = FALSE /\ dirty' = TRUE
  /\ request' = [request EXCEPT ![s] = Unasked]
  /\ UNCHANGED <<pageKind, filter, stored, events, streaming, seen, bounds>>

\* The load fails: an error is shown, and that is a render too.
LoadFails(s) ==
  /\ request[s].state # "idle"
  /\ viewFaults < MaxViewFaults /\ viewFaults' = viewFaults + 1
  /\ loading' = FALSE /\ failed' = TRUE /\ dirty' = TRUE
  /\ request' = [request EXCEPT ![s] = Unasked]
  /\ UNCHANGED <<pageKind, filter, stored, events, streaming, view, seen, reports>>

\* The user chooses another filter.
SetFilter ==
  /\ pageKind = "list"
  /\ viewFaults < MaxViewFaults /\ viewFaults' = viewFaults + 1
  /\ \E f \in Filters \ {filter} : filter' = f
  /\ dirty' = TRUE
  /\ UNCHANGED <<pageKind, stored, events, streaming, view, loading, failed, request, seen, reports>>

\* Renders run their effects, requests are answered and shown; and events come.
LoadStep == \E s \in Slots : StartLoad(s) \/ AnswerLoad(s) \/ ShowLoad(s)

LiveViewNext ==
  \/ \E r \in ViewRuns : Report(r)
  \/ Deliver \/ StreamOpens \/ StreamBreaks \/ SetFilter
  \/ LoadStep
  \/ \E s \in Slots : LoadFails(s)

LiveViewFairness == WF_liveViewVars(Deliver) /\ WF_liveViewVars(LoadStep)

LiveViewSpec == LiveViewInit /\ [][LiveViewNext]_liveViewVars /\ LiveViewFairness

-----------------------------------------------------------------------------

\* A run that no success was reported of is shown as passed for one reason only:
\* GitHub reported it in a status the code does not know.  That is taken for
\* completed and has no conclusion, which the badge paints green.
GreenIsEarned ==
  \A r \in ViewRuns \ unheard :
    view.rows[r] # NoViewRow /\ Badge(view.rows[r]) = "success" => r \in succeeded

\* What the page holds: what a load would answer now, and no error; or, when there
\* is no such run, nothing, and the error when it does not load.
UpToDate ==
  IF Answer(filter).loaded THEN view = Answer(filter) /\ ~failed
                           ELSE view = NothingYet /\ (failed \/ loading)

\* Of the statuses the code knows, only a success is shown as passed; and once
\* anything has run, a page in the end holds what the database holds, whatever
\* events were lost, came in the wrong order or were overwritten by a response, and
\* whatever loads failed: it loads again.  It never stops doing so, as each answer is
\* a render that loads: the spinner comes back every time, but it always goes again.
ViewSettles ==
  /\ []GreenIsEarned
  /\ <>[](reports > 0 => UpToDate)
  /\ []<>(reports > 0 => ~loading)

=============================================================================
