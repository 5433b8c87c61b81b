------------------------------ MODULE Onboarding ------------------------------
(***************************************************************************)
(* The onboarding wizard, of a user of at most one workspace: the step in  *)
(* the URL, what loads make of the database (workspace, integration, count *)
(* of enabled repositories), and the selection of repositories, which is   *)
(* stored by one PATCH for each of them, sent together.                    *)
(*                                                                         *)
(* The install callback starts the discovery of repositories, which go on  *)
(* being found, and enabled, behind the wizard's back.                     *)
(***************************************************************************)
EXTENDS Naturals, FiniteSets

CONSTANTS
  Offered,          \* repositories of the installation
  OfferLimit,       \* how many the plan lets be enabled
  ContextLoads,     \* loads of the context under way at a time
  ListLoads,        \* loads of the list under way at a time
  MaxStarts,        \* bound: clicks on "Start syncing"
  MaxTroubles       \* bound: page loads beside that of the callback, clicks on "Back", and
                    \* requests refused or without an answer

ASSUME OnboardingAssumption ==
  /\ IsFiniteSet(Offered) /\ OfferLimit \in Nat
  /\ 1 \in ContextLoads /\ ContextLoads \subseteq Nat /\ ListLoads \subseteq Nat
  /\ MaxStarts \in Nat /\ MaxTroubles \in Nat

Starts == 1 .. MaxStarts
WizardSteps == 1 .. 4   \* workspace, installation, repositories, done

VARIABLES
  created,    \* the workspace exists
  connected,  \* ... and has the integration
  tracking,   \* each repository: not found yet, enabled or disabled
  url,        \* the step in the URL
  known,      \* WizardContext
  booting,    \* bootstrapping
  claimed,    \* the last render's token names the workspace
  fetch,      \* loads of the context
  picker,     \* SelectReposStep, while it is mounted; observed: a load failed beside another
  poll,       \* its loads of the list
  start,      \* the clicks on "Start syncing"
  troubles

serverVars == <<created, connected, tracking>>
wizardVars == <<url, known, booting, claimed, fetch>>
pickerVars == <<picker, poll>>
onboardingVars == <<serverVars, wizardVars, pickerVars, start, troubles>>

Nothing == [space |-> FALSE, linked |-> FALSE, count |-> 0]
NoFetch == [step |-> "idle", context |-> Nothing]
FirstLoad == [[s \in ContextLoads |-> NoFetch] EXCEPT ![1].step = "list"]
NoPoll == [step |-> "idle", rows |-> {}]
NoPicker == [rows |-> {}, chosen |-> {}, loading |-> TRUE, failed |-> FALSE, beside |-> FALSE,
             submitting |-> 0]
NoStart == [state |-> "none", rows |-> {}, chosen |-> {}, alone |-> TRUE,
            patch |-> [r \in Offered |-> "none"]]

Contexts == [space : BOOLEAN, linked : BOOLEAN, count : 0 .. Cardinality(Offered)]

OnboardingTypeOK ==
  /\ created \in BOOLEAN /\ connected \in BOOLEAN
  /\ tracking \in [Offered -> {"absent", "on", "off"}]
  /\ url \in WizardSteps /\ known \in Contexts
  /\ booting \in BOOLEAN /\ claimed \in BOOLEAN
  /\ fetch \in [ContextLoads -> [step : {"idle", "list", "rows", "answered"}, context : Contexts]]
  /\ picker \in [rows : SUBSET Offered, chosen : SUBSET Offered, loading : BOOLEAN,
                  failed : BOOLEAN, beside : BOOLEAN, submitting : 0 .. MaxStarts]
  /\ poll \in [ListLoads -> [step : {"idle", "asked", "answered"}, rows : SUBSET Offered]]
  /\ start \in [Starts -> [state : {"none", "sent", "done", "failed", "left"},
                           rows : SUBSET Offered, chosen : SUBSET Offered, alone : BOOLEAN,
                           patch : [Offered -> {"none", "sent", "stored", "failed"}]]]
  /\ troubles \in 0 .. MaxTroubles

-----------------------------------------------------------------------------
\* Which step is shown.

\* minimumOnboardingStep
MinimumStep(context) ==
  CASE ~context.space -> 1
    [] context.space /\ ~context.linked -> 2
    [] context.space /\ context.linked /\ context.count = 0 -> 3
    [] OTHER -> 4

\* resolveOnboardingStep
ResolvedStep(step, context) ==
  IF step > MinimumStep(context) THEN step ELSE MinimumStep(context)

ActiveStep == ResolvedStep(url, known)

\* Steps 3 and 4 are blank without a workspace.
StepShown(n) == ~booting /\ ActiveStep = n /\ (n > 2 => known.space)

\* A step that is no longer shown is unmounted and its state lost.
PickerFollows ==
  IF StepShown(3)' THEN UNCHANGED pickerVars
  ELSE picker' = NoPicker /\ poll' = [p \in ListLoads |-> NoPoll]

OnboardingInit ==
  /\ created = FALSE /\ connected = FALSE
  /\ tracking = [r \in Offered |-> "absent"]
  /\ url = 1 /\ known = Nothing /\ booting = TRUE /\ claimed = FALSE
  /\ fetch = FirstLoad
  /\ picker = NoPicker /\ poll = [p \in ListLoads |-> NoPoll]
  /\ start = [a \in Starts |-> NoStart]
  /\ troubles = 0

\* The first slot that is idle.
FreeSlot(s, slots) == slots[s].step = "idle" /\ \A t \in DOMAIN slots : t < s => slots[t].step # "idle"

Trouble == troubles < MaxTroubles /\ troubles' = troubles + 1

\* The browser loads the page at a step; answers to the page before are not awaited.
PageLoad(step) ==
  /\ url' = step /\ known' = Nothing /\ booting' = TRUE /\ claimed' = FALSE
  /\ fetch' = FirstLoad
  /\ PickerFollows
  /\ start' = [a \in Starts |-> IF start[a].state = "sent" THEN [start[a] EXCEPT !.state = "left"]
                                ELSE start[a]]

VisitPage(step) ==
  /\ Trouble
  /\ PageLoad(step)
  /\ UNCHANGED <<serverVars>>

-----------------------------------------------------------------------------
\* loadContext

\* GET /workspaces.
ListWorkspaces(s) ==
  /\ fetch[s].step = "list"
  /\ fetch' = [fetch EXCEPT ![s].step = IF created THEN "rows" ELSE "answered"]
  /\ UNCHANGED <<serverVars, url, known, booting, claimed, pickerVars, start, troubles>>

ListWorkspacesFails(s) ==
  /\ fetch[s].step = "list"
  /\ Trouble
  /\ fetch' = [fetch EXCEPT ![s].step = "answered"]
  /\ UNCHANGED <<serverVars, url, known, booting, claimed, pickerVars, start>>

Enabled == {r \in Offered : tracking[r] = "on"}

\* GET /integrations and GET /repositories; each of them that fails counts as empty.
ReadContext(s) ==
  /\ fetch[s].step = "rows"
  /\ \E linked \in {connected, FALSE}, counted \in {Enabled, {}} :
       /\ IF linked = connected /\ counted = Enabled THEN UNCHANGED troubles ELSE Trouble
       /\ fetch' = [fetch EXCEPT ![s] = [step |-> "answered",
                      context |-> [space |-> TRUE, linked |-> linked, count |-> Cardinality(counted)]]]
  /\ UNCHANGED <<serverVars, url, known, booting, claimed, pickerVars, start>>

ShowContext(s) ==
  /\ fetch[s].step = "answered"
  /\ known' = fetch[s].context
  /\ booting' = FALSE
  /\ fetch' = [fetch EXCEPT ![s] = NoFetch]
  /\ UNCHANGED <<url, claimed>>
  /\ PickerFollows
  /\ UNCHANGED <<serverVars, start, troubles>>

\* The first render with a token that names the workspace - loadContext switches the
\* session to it and refreshes the page - is one with another loadContext: it loads
\* again, beside the load before or after it.
ClaimsArrive(s) ==
  /\ created /\ ~claimed
  /\ known.space \/ \E t \in ContextLoads : fetch[t].step \in {"rows", "answered"}
  /\ FreeSlot(s, fetch)
  /\ claimed' = TRUE
  /\ booting' = TRUE
  /\ fetch' = [fetch EXCEPT ![s].step = "list"]
  /\ UNCHANGED <<url, known>>
  /\ PickerFollows
  /\ UNCHANGED <<serverVars, start, troubles>>

\* The effect that brings the URL to the step that is shown.
PushStep ==
  /\ ~booting /\ url # ActiveStep
  /\ url' = ActiveStep
  /\ UNCHANGED <<serverVars, known, booting, claimed, fetch, pickerVars, start, troubles>>

\* goToStep of the buttons "Back".
GoBack ==
  /\ Trouble
  /\ \E n \in {3, 4} : StepShown(n) /\ url' = n - 1
  /\ UNCHANGED <<known, booting, claimed, fetch>>
  /\ PickerFollows
  /\ UNCHANGED <<serverVars, start>>

-----------------------------------------------------------------------------
\* Steps 1 and 2.

\* handleSubmit of CreateWorkspaceStep and onCreated; without an answer the wizard
\* stays where it is.
CreateWorkspace ==
  /\ StepShown(1) /\ ~created
  /\ created' = TRUE
  /\ \/ /\ known' = [Nothing EXCEPT !.space = TRUE] /\ url' = 2
        /\ UNCHANGED troubles
     \/ Trouble /\ UNCHANGED <<known, url>>
  /\ UNCHANGED <<booting, claimed, fetch>>
  /\ PickerFollows
  /\ UNCHANGED <<connected, tracking, start>>

\* The callback of the installation, which opens the wizard at step 3 in its own tab.
InstallCallback ==
  /\ StepShown(2) /\ created /\ ~connected
  /\ connected' = TRUE
  /\ PageLoad(3)
  /\ UNCHANGED <<created, tracking, troubles>>

\* The job it queues: upsertDiscoveredRepository.
FindRepository(r) ==
  /\ connected /\ tracking[r] = "absent"
  /\ tracking' = [tracking EXCEPT ![r] = "on"]
  /\ UNCHANGED <<created, connected, wizardVars, pickerVars, start, troubles>>

-----------------------------------------------------------------------------
\* Step 3: the list.

AskList(p) ==
  /\ FreeSlot(p, poll)
  /\ poll' = [poll EXCEPT ![p].step = "asked"]
  /\ UNCHANGED <<serverVars, wizardVars, start, troubles>>

\* Mutant: a list that failed to load is not asked for again but by the user.
StartPoll_NotAfterError(p) ==
  /\ StepShown(3) /\ picker.rows = {} /\ ~picker.failed
  /\ picker.loading => \A q \in ListLoads : poll[q].step = "idle"
  /\ picker' = [picker EXCEPT !.failed = FALSE, !.beside = FALSE]
  /\ AskList(p)

\* loadRepos, when the step is mounted and at every interval as long as the list is
\* empty.
StartPoll(p) ==
  /\ StepShown(3) /\ picker.rows = {}
  /\ picker.loading => \A q \in ListLoads : poll[q].step = "idle"
  /\ picker' = [picker EXCEPT !.failed = FALSE, !.beside = FALSE]
  /\ AskList(p)

\* ErrorRetry
RetryList(p) ==
  /\ StepShown(3) /\ picker.failed
  /\ picker' = [picker EXCEPT !.loading = TRUE, !.failed = FALSE, !.beside = FALSE]
  /\ AskList(p)

AnswerPoll(p) ==
  /\ poll[p].step = "asked"
  /\ poll' = [poll EXCEPT ![p] = [step |-> "answered", rows |-> {r \in Offered : tracking[r] # "absent"}]]
  /\ UNCHANGED <<serverVars, wizardVars, picker, start, troubles>>

\* Everything is selected to begin with.
ShowPoll(p) ==
  /\ poll[p].step = "answered"
  /\ picker' = [picker EXCEPT !.rows = poll[p].rows, !.loading = FALSE,
                              !.chosen = IF @ = {} THEN poll[p].rows ELSE @]
  /\ poll' = [poll EXCEPT ![p] = NoPoll]
  /\ UNCHANGED <<serverVars, wizardVars, start, troubles>>

\* The error takes the place of the list, whatever another load has found or finds.
PollFails(p) ==
  /\ poll[p].step # "idle"
  /\ Trouble
  /\ picker' = [picker EXCEPT !.failed = TRUE, !.loading = FALSE,
       !.beside = picker.rows # {} \/ \E q \in ListLoads \ {p} : poll[q].step # "idle"]
  /\ poll' = [poll EXCEPT ![p] = NoPoll]
  /\ UNCHANGED <<serverVars, wizardVars, start>>

\* toggleRepo
ToggleRepo(r) ==
  /\ StepShown(3) /\ ~picker.loading /\ ~picker.failed /\ r \in picker.rows
  /\ IF r \in picker.chosen
       THEN picker' = [picker EXCEPT !.chosen = @ \ {r}]
       ELSE /\ Cardinality(picker.chosen) < OfferLimit
            /\ picker' = [picker EXCEPT !.chosen = @ \cup {r}]
  /\ UNCHANGED <<serverVars, wizardVars, poll, start, troubles>>

-----------------------------------------------------------------------------
\* Step 3: "Start syncing".

UnderWay(a) == \E r \in Offered : start[a].patch[r] = "sent"

\* handleStartSync: one PATCH for each repository of the list.
StartSync(a) ==
  /\ StepShown(3) /\ picker.chosen # {} /\ ~picker.loading /\ picker.submitting = 0
  /\ start[a].state = "none" /\ \A b \in 1 .. a - 1 : start[b].state # "none"
  /\ start' = [start EXCEPT ![a] =
       [state |-> "sent", rows |-> picker.rows, chosen |-> picker.chosen,
        alone |-> \A b \in 1 .. a - 1 : ~UnderWay(b),
        patch |-> [r \in Offered |-> IF r \in picker.rows THEN "sent" ELSE "none"]]]
  /\ picker' = [picker EXCEPT !.submitting = a]
  /\ UNCHANGED <<serverVars, wizardVars, poll, troubles>>

\* PATCH /repositories/:id.  A repository that is disabled and to be enabled is held
\* against the limit.
ServePatch(a, r) ==
  /\ start[a].patch[r] = "sent"
  /\ LET enable == r \in start[a].chosen
         refused == enable /\ tracking[r] = "off" /\ Cardinality(Enabled) >= OfferLimit
     IN /\ tracking' = IF refused THEN tracking
                       ELSE [tracking EXCEPT ![r] = IF enable THEN "on" ELSE "off"]
        /\ start' = [start EXCEPT ![a].patch[r] = IF refused THEN "failed" ELSE "stored"]
  /\ UNCHANGED <<created, connected, wizardVars, pickerVars, troubles>>

\* It fails before the update, or its answer is lost after it.
PatchFails(a, r) ==
  /\ start[a].patch[r] \in {"sent", "stored"} /\ start[a].state = "sent"
  /\ Trouble
  /\ start' = [start EXCEPT ![a].patch[r] = "failed"]
  /\ UNCHANGED <<serverVars, wizardVars, pickerVars>>

SubmitEnds(a) == IF picker.submitting = a THEN [picker EXCEPT !.submitting = 0] ELSE picker

\* onComplete
Complete(a) ==
  /\ start' = [start EXCEPT ![a].state = "done"]
  /\ known' = [known EXCEPT !.count = Cardinality(start[a].chosen)]
  /\ url' = 4
  /\ UNCHANGED <<booting, claimed, fetch>>
  /\ PickerFollows
  /\ UNCHANGED <<serverVars, troubles>>

\* Mutant: the wizard moves on when every PATCH has an answer, whatever it is.
SyncStarted_Settled(a) ==
  /\ start[a].state = "sent" /\ ~UnderWay(a)
  /\ Complete(a)

\* Every PATCH has succeeded: the wizard moves on to step 4.
SyncStarted(a) ==
  /\ start[a].state = "sent"
  /\ \A r \in start[a].rows : start[a].patch[r] = "stored"
  /\ Complete(a)

\* The first that fails ends the attempt; the others are still under way.
SyncRefused(a) ==
  /\ start[a].state = "sent"
  /\ \E r \in start[a].rows : start[a].patch[r] = "failed"
  /\ start' = [start EXCEPT ![a].state = "failed"]
  /\ picker' = SubmitEnds(a)
  /\ UNCHANGED <<serverVars, wizardVars, poll, troubles>>

-----------------------------------------------------------------------------

LoadContextStep ==
  \/ \E s \in ContextLoads : ListWorkspaces(s) \/ ReadContext(s) \/ ShowContext(s) \/ ClaimsArrive(s)
  \/ PushStep

ListStep == \E p \in ListLoads : StartPoll(p) \/ AnswerPoll(p) \/ ShowPoll(p)

UserStep ==
  \/ CreateWorkspace \/ InstallCallback \/ GoBack
  \/ \E n \in WizardSteps : VisitPage(n)
  \/ \E p \in ListLoads : RetryList(p)
  \/ \E r \in Offered : ToggleRepo(r)
  \/ \E a \in Starts : StartSync(a)

OnboardingNext ==
  \/ LoadContextStep \/ ListStep \/ UserStep
  \/ \E s \in ContextLoads : ListWorkspacesFails(s)
  \/ \E p \in ListLoads : PollFails(p)
  \/ \E r \in Offered : FindRepository(r)
  \/ \E a \in Starts : \/ SyncStarted(a) \/ SyncRefused(a)
                      \/ \E r \in Offered : ServePatch(a, r) \/ PatchFails(a, r)

OnboardingSpec ==
  /\ OnboardingInit /\ [][OnboardingNext]_onboardingVars
  /\ WF_onboardingVars(LoadContextStep) /\ WF_onboardingVars(ListStep)

-----------------------------------------------------------------------------

\* What the user selected is what is stored: when the wizard moves on by the last
\* "Start syncing", each repository of the list is enabled if and only if it was
\* selected - unless a PATCH of an attempt before was still under way, which may come
\* last.
SelectionStored ==
  \A a \in Starts :
    (start[a].state = "done" /\ start[a].alone /\ \A b \in a + 1 .. MaxStarts : start[b].state = "none") =>
      \A r \in start[a].rows : (tracking[r] = "on") <=> r \in start[a].chosen

\* The wizard settles: its loads end, the URL names the step that is shown, and the
\* list of step 3 has repositories once some are found, whatever loads failed or
\* overtook each other.  It is shown, too, unless a load failed beside another or
\* after one that found repositories: then its error stays in front of the list until
\* the user clicks "Retry", because nothing polls any more.
WizardSettles ==
  <>[](/\ ~booting /\ url = ActiveStep
       /\ StepShown(3) /\ (\E r \in Offered : tracking[r] # "absent") =>
            /\ picker.rows # {} /\ ~picker.loading
            /\ picker.failed => picker.beside)

=============================================================================
