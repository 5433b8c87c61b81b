----------------------------- MODULE MCDashboard -----------------------------
(***************************************************************************)
(* What lies between GitHub and a page of the web app, in one run:         *)
(* discovery, who polls a repository, the live stream, the page on top of  *)
(* it, the pages of the list of runs, the settings pages, the progress of  *)
(* a re-sync, the onboarding wizard, and how a page keeps its token.       *)
(*                                                                         *)
(* They share no variable; "focus" says which of them a behaviour is       *)
(* about, and the others keep their initial state.  The fairness of each   *)
(* is asked of the behaviours that are about it.                           *)
(***************************************************************************)
EXTENDS Discovery, PollingLifecycle, LiveStream, LiveView, RunPages, SettingsPage, SyncProgress,
        Onboarding, ApiClient

VARIABLE focus

dashboardVars ==
  <<focus, discoveryVars, vars, liveStreamVars, liveViewVars, runPagesVars, settingsVars,
    syncProgressVars, onboardingVars, authVars>>

DashboardInit ==
  /\ focus \in {"discovery", "polling", "stream", "view", "pages", "settings", "resync",
                "onboarding", "token"}
  /\ DiscoveryInit /\ Init /\ LiveStreamInit /\ LiveViewInit /\ RunPagesInit
  /\ SettingsInit /\ SyncProgressInit /\ OnboardingInit /\ ApiClientInit
  \* one initial state of each component that a behaviour is not about
  /\ focus = "discovery" \/ Len(installed) = 0
  /\ focus = "view" \/ (pageKind = "card" /\ filter = "all")
  /\ focus = "pages" \/ \A r \in RunIds : startedAt[r] = Absent
  /\ focus = "settings" \/ sheet = "repo"
  /\ focus = "token" \/ expired = 0

About(component, Step, others) == focus = component /\ Step /\ UNCHANGED <<focus, others>>

DashboardNext ==
  \/ About("discovery", DiscoveryNext,
           <<vars, liveStreamVars, liveViewVars, runPagesVars,
             settingsVars, syncProgressVars, onboardingVars, authVars>>)
  \/ About("polling", Next,
           <<discoveryVars, liveStreamVars, liveViewVars, runPagesVars,
             settingsVars, syncProgressVars, onboardingVars, authVars>>)
  \/ About("stream", LiveStreamNext,
           <<discoveryVars, vars, liveViewVars, runPagesVars,
             settingsVars, syncProgressVars, onboardingVars, authVars>>)
  \/ About("view", LiveViewNext,
           <<discoveryVars, vars, liveStreamVars, runPagesVars,
             settingsVars, syncProgressVars, onboardingVars, authVars>>)
  \/ About("pages", RunPagesNext,
           <<discoveryVars, vars, liveStreamVars, liveViewVars,
             settingsVars, syncProgressVars, onboardingVars, authVars>>)
  \/ About("settings", SettingsNext,
           <<discoveryVars, vars, liveStreamVars, liveViewVars,
             runPagesVars, syncProgressVars, onboardingVars, authVars>>)
  \/ About("resync", SyncProgressNext,
           <<discoveryVars, vars, liveStreamVars, liveViewVars,
             runPagesVars, settingsVars, onboardingVars, authVars>>)
  \/ About("onboarding", OnboardingNext,
           <<discoveryVars, vars, liveStreamVars, liveViewVars,
             runPagesVars, settingsVars, syncProgressVars, authVars>>)
  \/ About("token", ApiClientNext,
           <<discoveryVars, vars, liveStreamVars, liveViewVars,
             runPagesVars, settingsVars, syncProgressVars, onboardingVars>>)

DashboardFairness ==
  /\ WF_discoveryVars(focus = "discovery" /\ DiscoveryStep)
  /\ WF_liveStreamVars(focus = "stream" /\ LiveStreamStep)
  /\ WF_liveViewVars(focus = "view" /\ Deliver)
  /\ WF_liveViewVars(focus = "view" /\ LoadStep)
  /\ WF_settingsVars(focus = "settings" /\ SheetLoadStep)
  /\ WF_settingsVars(focus = "settings" /\ AskStep)
  /\ WF_syncProgressVars(focus = "resync" /\ StatusStep)
  /\ WF_syncProgressVars(focus = "resync" /\ TaskStep)
  /\ WF_onboardingVars(focus = "onboarding" /\ LoadContextStep)
  /\ WF_onboardingVars(focus = "onboarding" /\ ListStep)
  /\ WF_authVars(focus = "token" /\ ApiClientStep)

DashboardSpec == DashboardInit /\ [][DashboardNext]_dashboardVars /\ DashboardFairness

-----------------------------------------------------------------------------

\* Every variable keeps its type (that of Discovery is checked by MCAccounts).
DashboardTypeOK ==
  /\ TypeOK /\ LiveStreamTypeOK /\ LiveViewTypeOK /\ RunPagesTypeOK
  /\ SettingsTypeOK /\ SyncProgressTypeOK /\ OnboardingTypeOK /\ ApiClientTypeOK

\* The wizard settles (Onboarding): its loads end, its URL names its step, its list
\* has repositories once some are found, and hides them behind an error only when a
\* load failed beside or after one that found them.
OnboardingSettles == focus = "onboarding" => WizardSettles

\* Calls end and the token in memory follows the cookie (ApiClient).
MemorySettles == focus = "token" => TokenSettles

=============================================================================
