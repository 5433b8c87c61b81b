---------------------------- MODULE SettingsPage ----------------------------
(***************************************************************************)
(* A settings page of the web app and the rows it shows: the API keys, the *)
(* members and invites of a workspace, one repository, or the workspace    *)
(* itself.  Buttons send a request and patch what is shown by its answer;  *)
(* the page of a repository shows the change before it is answered and     *)
(* takes it back if it is refused.                                         *)
(*                                                                         *)
(* As in LiveView, useApi makes a new workspace client at every render and *)
(* so every change of a page's state loads its data once more: the spinner *)
(* takes the place of the page and of the dialogs on it, whose state is    *)
(* lost.                                                                   *)
(***************************************************************************)
EXTENDS Naturals, FiniteSets, Sequences

CONSTANTS
  Entries,        \* rows of the page; of a workspace, only the first
  SheetLoads,     \* loads a browser has under way at a time
  MaxAsks,        \* bound: requests of this page and of other administrators
  MaxSheetFaults  \* bound: failed requests and loads

ASSUME SettingsAssumption ==
  /\ 1 \in Entries /\ Entries \subseteq Nat /\ SheetLoads \subseteq Nat
  /\ MaxAsks \in Nat /\ MaxSheetFaults \in Nat

\* "on" and "off": a key that is active or revoked, a member with one role or
\* another (an invite is "on" until it is revoked), a setting and its alternative.
Sheets == {"keys", "members", "repo", "workspace"}
EntryStates == {"absent", "on", "off", "gone"}

FormEntry == 1   \* the row that a form edits, on the pages of one object

\* What an administrator may make of a row.
MayBecome(kind, from) ==
  CASE from = "absent" -> IF kind \in {"keys", "members"} THEN {"on"} ELSE {}
    [] from = "on" -> IF kind = "members" THEN {"off", "gone"} ELSE {"off"}
    [] from = "off" -> CASE kind = "keys" -> {} [] kind = "members" -> {"on", "gone"}
                         [] OTHER -> {"on"}
    [] from = "gone" -> {}

VARIABLES
  sheet,     \* which page it is
  entry,     \* the database
  listed,    \* the rows shown of each entry
  draft,     \* the form has been edited
  modal,     \* the dialog that creates a key
  spinning, broken, rerender,  \* the spinner, the error, a render is due
  load,      \* loads under way
  ask,       \* the request about each row
  asks, sheetFaults

settingsVars == <<sheet, entry, listed, draft, modal, spinning, broken, rerender, load, ask,
                  asks, sheetFaults>>

Listing == [i \in Entries |-> IF entry[i] \in {"on", "off"} THEN <<entry[i]>> ELSE <<>>]
NoRows == [i \in Entries |-> <<>>]
NotLoading == [state |-> "idle", answer |-> NoRows]
NotAsked == [state |-> "idle", to |-> "on", before |-> NoRows, answer |-> NoRows,
             creates |-> FALSE, seen |-> FALSE]
ModalClosed == [open |-> FALSE, key |-> FALSE, submitting |-> FALSE]

SettingsTypeOK ==
  /\ sheet \in Sheets /\ entry \in [Entries -> EntryStates]
  /\ \A i \in Entries : Len(listed[i]) <= 2 /\ \A n \in DOMAIN listed[i] : listed[i][n] \in {"on", "off"}
  /\ draft \in BOOLEAN /\ modal \in [open : BOOLEAN, key : BOOLEAN, submitting : BOOLEAN]
  /\ {spinning, broken, rerender} \subseteq BOOLEAN
  /\ \A s \in SheetLoads : load[s].state \in {"idle", "asked", "answered"}
  /\ \A i \in Entries : ask[i].state \in {"idle", "sent", "done", "failed"}
  /\ asks \in 0 .. MaxAsks /\ sheetFaults \in 0 .. MaxSheetFaults

SettingsInit ==
  /\ sheet \in Sheets
  /\ entry \in [Entries -> IF sheet \in {"keys", "members"} THEN {"absent", "on"} ELSE {"on"}]
  /\ listed = NoRows /\ draft = FALSE /\ modal = ModalClosed
  /\ spinning = TRUE /\ broken = FALSE /\ rerender = TRUE
  /\ load = [s \in SheetLoads |-> NotLoading]
  /\ ask = [i \in Entries |-> NotAsked]
  /\ asks = 0 /\ sheetFaults = 0

Displayed == ~spinning /\ ~broken

\* The page is replaced by the spinner or by an error: the dialog is unmounted, and
\* mounted anew, as an empty form, with the page.
ModalLost == [modal EXCEPT !.key = FALSE, !.submitting = FALSE]
Unseen == [i \in Entries |-> [ask[i] EXCEPT !.seen = FALSE]]

-----------------------------------------------------------------------------
\* The page and its loads.

\* Loads are alike: one takes the first slot that is free.
FirstIdle(s) == load[s].state = "idle" /\ \A t \in SheetLoads : t < s => load[t].state # "idle"

\* Mutant: the client stays the same from one render to the next, so a page loads
\* when it is mounted.
StartSheetLoad_Memoized(s) ==
  /\ rerender /\ FirstIdle(s)
  /\ rerender' = FALSE
  /\ IF listed = NoRows
       THEN /\ spinning' = TRUE /\ broken' = FALSE
            /\ load' = [load EXCEPT ![s].state = "asked"]
       ELSE UNCHANGED <<spinning, broken, load>>
  /\ UNCHANGED <<sheet, entry, listed, draft, modal, ask, asks, sheetFaults>>

\* The effect of a render: loadData, loadSettings or loadWorkspace.  Showing the
\* spinner is a render of its own.
StartSheetLoad(s) ==
  /\ rerender /\ FirstIdle(s)
  /\ rerender' = (~spinning \/ broken)
  /\ spinning' = TRUE /\ broken' = FALSE
  /\ modal' = ModalLost /\ ask' = Unseen
  /\ load' = [load EXCEPT ![s].state = "asked"]
  /\ UNCHANGED <<sheet, entry, listed, draft, asks, sheetFaults>>

\* The API reads the rows.
AnswerSheetLoad(s) ==
  /\ load[s].state = "asked"
  /\ load' = [load EXCEPT ![s] = [state |-> "answered", answer |-> Listing]]
  /\ UNCHANGED <<sheet, entry, listed, draft, modal, spinning, broken, rerender, ask, asks, sheetFaults>>

\* The answer is shown, whatever was changed since, and overwrites the form.
ShowSheetLoad(s) ==
  /\ load[s].state = "answered"
  /\ listed' = load[s].answer
  /\ draft' = FALSE /\ spinning' = FALSE /\ rerender' = TRUE
  /\ load' = [load EXCEPT ![s] = NotLoading]
  /\ UNCHANGED <<sheet, entry, modal, broken, ask, asks, sheetFaults>>

SheetLoadFails(s) ==
  /\ load[s].state # "idle"
  /\ sheetFaults < MaxSheetFaults /\ sheetFaults' = sheetFaults + 1
  /\ broken' = TRUE /\ spinning' = FALSE /\ rerender' = TRUE
  /\ modal' = ModalLost /\ ask' = Unseen
  /\ load' = [load EXCEPT ![s] = NotLoading]
  /\ UNCHANGED <<sheet, entry, listed, draft, asks>>

-----------------------------------------------------------------------------
\* The administrator.

EditForm ==
  /\ Displayed /\ sheet \in {"repo", "workspace"} /\ ~draft
  /\ draft' = TRUE /\ rerender' = TRUE
  /\ UNCHANGED <<sheet, entry, listed, modal, spinning, broken, load, ask, asks, sheetFaults>>

OpenModal ==
  /\ Displayed /\ sheet = "keys" /\ ~modal.open
  /\ modal' = [modal EXCEPT !.open = TRUE] /\ rerender' = TRUE
  /\ UNCHANGED <<sheet, entry, listed, draft, spinning, broken, load, ask, asks, sheetFaults>>

\* Cancel, or Done below the key.
CloseModal ==
  /\ Displayed /\ modal.open
  /\ modal' = ModalClosed /\ rerender' = TRUE
  /\ UNCHANGED <<sheet, entry, listed, draft, spinning, broken, load, ask, asks, sheetFaults>>

Resting(i) == ask[i].state = "idle"

\* Only a form goes back to what it showed, or takes over the answer's row.
OfForm(rows) == IF sheet \in {"repo", "workspace"} THEN rows ELSE NoRows

\* The buttons of one row, while no other of their kind waits for its answer.
Sends(i, to, creates) ==
  /\ Displayed /\ asks < MaxAsks /\ asks' = asks + 1
  /\ Resting(i)
  /\ ask' = [ask EXCEPT ![i] = [NotAsked EXCEPT !.state = "sent", !.to = to, !.before = OfForm(listed),
                                                !.creates = creates, !.seen = creates]]
  /\ rerender' = TRUE

\* handleSubmit of the dialog, handleInvite.
AskCreate(i) ==
  /\ entry[i] = "absent"
  /\ "on" \in MayBecome(sheet, "absent")
  /\ sheet = "keys" => modal.open /\ ~modal.key /\ ~modal.submitting
  /\ Sends(i, "on", TRUE)
  /\ modal' = IF sheet = "keys" THEN [modal EXCEPT !.submitting = TRUE] ELSE modal
  /\ UNCHANGED <<sheet, entry, listed, draft, spinning, broken, load, sheetFaults>>

\* handleRevoke, handleRoleSave, handleConfirm: behind a dialog.
AskRow(i) ==
  /\ sheet \in {"keys", "members"} /\ ~modal.open
  /\ \A j \in Entries : Resting(j) \/ ask[j].creates
  /\ \E n \in DOMAIN listed[i] : \E to \in MayBecome(sheet, listed[i][n]) : Sends(i, to, FALSE)
  /\ UNCHANGED <<sheet, entry, listed, draft, modal, spinning, broken, load, sheetFaults>>

\* handleSave and handleToggleEnabled; the page of a repository shows the change at
\* once.
AskSetting(i) ==
  /\ sheet = "repo" \/ (sheet = "workspace" /\ i = FormEntry)
  /\ i = FormEntry => draft
  /\ \E n \in DOMAIN listed[i] : \E to \in MayBecome(sheet, listed[i][n]) :
       /\ Sends(i, to, FALSE)
       /\ listed' = IF sheet = "repo" THEN [listed EXCEPT ![i] = <<to>>] ELSE listed
  /\ UNCHANGED <<sheet, entry, draft, modal, spinning, broken, load, sheetFaults>>

\* Another administrator.
OtherAdmin(i) ==
  /\ asks < MaxAsks /\ asks' = asks + 1
  /\ Resting(i) \/ ~ask[i].creates
  /\ \E to \in MayBecome(sheet, entry[i]) : entry' = [entry EXCEPT ![i] = to]
  /\ UNCHANGED <<sheet, listed, draft, modal, spinning, broken, rerender, load, ask, sheetFaults>>

-----------------------------------------------------------------------------
\* Requests and their answers.

\* The API: what is gone is not found, a revoked key stays revoked; a PATCH answers
\* with the whole row.
Serve(i) ==
  /\ ask[i].state = "sent"
  /\ IF entry[i] = "gone"
       THEN UNCHANGED entry /\ ask' = [ask EXCEPT ![i].state = "failed"]
       ELSE /\ entry' = [entry EXCEPT ![i] = ask[i].to]
            /\ ask' = [ask EXCEPT ![i].state = "done", ![i].answer = OfForm(Listing')]
  /\ UNCHANGED <<sheet, listed, draft, modal, spinning, broken, rerender, load, asks, sheetFaults>>

\* It is refused, or its answer is lost.
AskFails(i) ==
  /\ ask[i].state \in {"sent", "done"}
  /\ sheetFaults < MaxSheetFaults /\ sheetFaults' = sheetFaults + 1
  /\ ask' = [ask EXCEPT ![i].state = "failed"]
  /\ UNCHANGED <<sheet, entry, listed, draft, modal, spinning, broken, rerender, load, asks>>

\* How the page is patched by an answer: a new row at the end, the row of a change
\* replaced or filtered out, an object as a whole.
Patch(i) ==
  CASE ask[i].creates -> [listed EXCEPT ![i] = Append(@, "on")]
    [] ~ask[i].creates /\ sheet \in {"keys", "members"} ->
         [listed EXCEPT ![i] = IF ask[i].to = "gone" THEN <<>>
                               ELSE [n \in DOMAIN @ |-> ask[i].to]]
    [] OTHER -> ask[i].answer

\* The key is shown by the dialog that asked for it, if it is still mounted.
ShowDone(i) ==
  /\ ask[i].state = "done"
  /\ listed' = Patch(i)
  /\ draft' = IF i = FormEntry THEN FALSE ELSE draft
  /\ modal' = IF sheet = "keys" /\ ask[i].seen
                THEN [modal EXCEPT !.key = TRUE, !.submitting = FALSE] ELSE modal
  /\ rerender' = TRUE
  /\ ask' = [ask EXCEPT ![i] = NotAsked]
  /\ UNCHANGED <<sheet, entry, spinning, broken, load, asks, sheetFaults>>

\* The page of a repository goes back to what it showed before.
ShowFailed(i) ==
  /\ ask[i].state = "failed"
  /\ listed' = IF sheet = "repo" THEN ask[i].before ELSE listed
  /\ draft' = IF sheet = "repo" /\ i = FormEntry THEN FALSE ELSE draft
  /\ modal' = IF ask[i].seen THEN [modal EXCEPT !.submitting = FALSE] ELSE modal
  /\ rerender' = TRUE
  /\ ask' = [ask EXCEPT ![i] = NotAsked]
  /\ UNCHANGED <<sheet, entry, spinning, broken, load, asks, sheetFaults>>

SheetLoadStep == \E s \in SheetLoads : StartSheetLoad(s) \/ AnswerSheetLoad(s) \/ ShowSheetLoad(s)
AskStep == \E i \in Entries : Serve(i) \/ ShowDone(i) \/ ShowFailed(i)

SettingsNext ==
  \/ SheetLoadStep \/ AskStep
  \/ \E s \in SheetLoads : SheetLoadFails(s)
  \/ EditForm \/ OpenModal \/ CloseModal
  \/ \E i \in Entries : AskCreate(i) \/ AskRow(i) \/ AskSetting(i) \/ OtherAdmin(i) \/ AskFails(i)

SettingsFairness == WF_settingsVars(SheetLoadStep) /\ WF_settingsVars(AskStep)

SettingsSpec == SettingsInit /\ [][SettingsNext]_settingsVars /\ SettingsFairness

-----------------------------------------------------------------------------

\* Once anything was changed, by this page or by somebody else, the page in the end
\* shows what the database holds, each row once: whatever answers overtook each
\* other, whatever was shown too early, taken back or added to a list that had it.
SettingsSettle == <>[](asks > 0 => listed = Listing)

\* CreateApiKeyModal: a "one-time full key reveal".  A key that is shown stays on the
\* screen until its dialog is closed.
KeyStaysUntilDone == [][modal.open /\ modal.key => modal'.key \/ ~modal'.open]_settingsVars

=============================================================================
