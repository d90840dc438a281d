------------------------------ MODULE Settings ------------------------------
(***************************************************************************)
(* Account settings: services/api/src/settings-service.ts with diffSettings *)
(* of packages/shared/src/settings.ts, and the settings page of            *)
(* apps/web/src/features/frontend-shell.tsx with its calls in              *)
(* api-client.ts.                                                          *)
(*                                                                         *)
(* One user in one window, as the shell has it; one mount of the page      *)
(* follows the other, and calls of an earlier one may still be on their    *)
(* way.  Which section is shown is left out: it may be any at any time.    *)
(***************************************************************************)
EXTENDS Null, Integers, Sequences, FiniteSets, FiniteSetsExt, SequencesExt

CONSTANTS
    Fields,         \* the settings, flattened
    Values,         \* what each may be
    Default,        \* defaultUserSettings
    MaxCalls        \* bound: calls made

UserSettings == [Fields -> Values]

Kind == {"load", "save", "audit", "action"}

\* Page is the number of the mount that waits for the answer, 0 when none does.
Call == [id : 1..MaxCalls, kind : Kind, page : 0..MaxCalls,
         at : {"sent", "answered"}, body : UserSettings]

\* Doubtful is a history variable: what the page knows of the stored settings
\* may be out of date, because its load failed, because a save it gave up or
\* one of an earlier mount may have come through.
Page == [mount : 1..MaxCalls, settings : UserSettings,
         savedSettings : UserSettings, isLoading : BOOLEAN,
         isSaving : BOOLEAN, entries : Nat, doubtful : BOOLEAN]

Entry == [field : Fields \union {"account"}, oldValue : Values \union {NULL},
          newValue : Values \union {NULL}]

SettingsConstants ==
    /\ MaxCalls \in Nat
    /\ IsFiniteSet(Fields)
    /\ Default \in UserSettings
    /\ NULL \notin UserSettings
    /\ NULL \notin Page
    /\ "account" \notin Fields

VARIABLES
    settingsByDid,  \* what the service stores of the user, or NULL
    auditLog,       \* its audit log
    settingsPage,   \* the mounted page, or NULL
    calls,          \* calls under way
    issued          \* number of calls made

settingsVars == <<settingsByDid, auditLog, settingsPage, calls, issued>>

SettingsTypeOK ==
    /\ settingsByDid \in UserSettings \union {NULL}
    /\ auditLog \in Seq(Entry)
    /\ settingsPage \in Page \union {NULL}
    /\ calls \subseteq Call
    /\ issued \in 0..MaxCalls

SettingsInit ==
    /\ settingsByDid = NULL
    /\ auditLog = <<>>
    /\ settingsPage = NULL
    /\ calls = {}
    /\ issued = 0

-----------------------------------------------------------------------------
(* The service *)

Stored == IF settingsByDid = NULL THEN Default ELSE settingsByDid

\* Faulty variant: against the defaults.
diffDefault(previous, next) ==
    LET changed == SetToSeq({f \in Fields : Default[f] # next[f]})
    IN [k \in DOMAIN changed |->
           [field |-> changed[k], oldValue |-> Default[changed[k]],
            newValue |-> next[changed[k]]]]

\* An entry for every setting that changes.
diffSettings(previous, next) ==
    LET changed == SetToSeq({f \in Fields : previous[f] # next[f]})
    IN [k \in DOMAIN changed |->
           [field |-> changed[k], oldValue |-> previous[changed[k]],
            newValue |-> next[changed[k]]]]

Answered(c) == (calls \ {c}) \union {[c EXCEPT !.at = "answered"]}

getSettings(c) ==
    /\ c.kind = "load" /\ c.at = "sent"
    /\ calls' = (calls \ {c}) \union {[c EXCEPT !.at = "answered", !.body = Stored]}
    /\ UNCHANGED <<settingsByDid, auditLog, settingsPage, issued>>

updateSettings(c) ==
    /\ c.kind = "save" /\ c.at = "sent"
    /\ auditLog' = auditLog \o diffSettings(Stored, c.body)
    /\ settingsByDid' = c.body
    /\ calls' = Answered(c)
    /\ UNCHANGED <<settingsPage, issued>>

getAuditTrail(c) ==
    /\ c.kind = "audit" /\ c.at = "sent"
    /\ calls' = Answered(c)
    /\ UNCHANGED <<settingsByDid, auditLog, settingsPage, issued>>

\* Deactivation and export are noted and nothing else.
handleAccountAction(c) ==
    /\ c.kind = "action" /\ c.at = "sent"
    /\ auditLog' = Append(auditLog,
          [field |-> "account", oldValue |-> NULL, newValue |-> NULL])
    /\ calls' = Answered(c)
    /\ UNCHANGED <<settingsByDid, settingsPage, issued>>

-----------------------------------------------------------------------------
(* The page *)

Open == settingsPage # NULL

IssueCall(kind, mount, body) ==
    /\ issued < MaxCalls
    /\ issued' = issued + 1
    /\ calls' = calls \union {[id |-> issued + 1, kind |-> kind, page |-> mount,
                               at |-> "sent", body |-> body]}

dirty == settingsPage.settings # settingsPage.savedSettings

\* The sections and the bar below them wait for the load.
formShown == Open /\ ~settingsPage.isLoading

\* The page shows the defaults until its load is answered.
MountSettings ==
    /\ ~Open
    /\ IssueCall("load", issued + 1, Default)
    /\ settingsPage' = [mount |-> issued + 1, settings |-> Default,
          savedSettings |-> Default, isLoading |-> TRUE, isSaving |-> FALSE,
          entries |-> 0, doubtful |-> \E c \in calls : c.kind = "save"]
    /\ UNCHANGED <<settingsByDid, auditLog>>

\* Only the load is aborted.  Nobody waits for the other calls any more; a
\* save or an account action may still reach the service.
UnmountSettings ==
    /\ Open
    /\ settingsPage' = NULL
    /\ calls' = {[c EXCEPT !.page = 0] :
                    c \in {d \in calls : d.kind \in {"save", "action"} /\ d.at = "sent"}}
    /\ UNCHANGED <<settingsByDid, auditLog, issued>>

handlePatch(f, v) ==
    /\ formShown
    /\ settingsPage' = [settingsPage EXCEPT !.settings[f] = v]
    /\ UNCHANGED <<settingsByDid, auditLog, calls, issued>>

handleSave ==
    /\ formShown /\ ~settingsPage.isSaving /\ dirty
    /\ IssueCall("save", settingsPage.mount, settingsPage.settings)
    /\ settingsPage' = [settingsPage EXCEPT !.isSaving = TRUE]
    /\ UNCHANGED <<settingsByDid, auditLog>>

handleCancel ==
    /\ formShown /\ dirty
    /\ settingsPage' = [settingsPage EXCEPT !.settings = settingsPage.savedSettings]
    /\ UNCHANGED <<settingsByDid, auditLog, calls, issued>>

\* handleLoadAudit, one at a time, handleDeactivate and handleExport.
Ask(kind) ==
    /\ kind \in {"audit", "action"}
    /\ formShown
    /\ kind = "audit" =>
          \A c \in calls : c.kind = "audit" => c.page # settingsPage.mount
    /\ IssueCall(kind, settingsPage.mount, Default)
    /\ UNCHANGED <<settingsByDid, auditLog, settingsPage>>

\* Faulty variant: what is on the screen by now counts as saved.
screenSaved(p, c) ==
    CASE c.kind = "load" -> [p EXCEPT !.settings = c.body,
                                !.savedSettings = c.body, !.isLoading = FALSE]
      [] c.kind = "save" -> [p EXCEPT !.savedSettings = p.settings, !.isSaving = FALSE]
      [] c.kind = "audit" -> [p EXCEPT !.entries = Len(auditLog)]
      [] OTHER -> p

\* What an answer makes of the page: a save answers with what it stored, and
\* that takes the place of what the user has changed since.
shows(p, c) ==
    CASE c.kind = "load" -> [p EXCEPT !.settings = c.body,
                                !.savedSettings = c.body, !.isLoading = FALSE]
      [] c.kind = "save" -> [p EXCEPT !.settings = c.body,
                                !.savedSettings = c.body, !.isSaving = FALSE]
      [] c.kind = "audit" -> [p EXCEPT !.entries = Len(auditLog)]
      [] OTHER -> p

Answer(c) ==
    /\ Open /\ c.page = settingsPage.mount /\ c.at = "answered"
    /\ settingsPage' = shows(settingsPage, c)
    /\ calls' = calls \ {c}
    /\ UNCHANGED <<settingsByDid, auditLog, issued>>

\* The call fails or runs into REQUEST_TIMEOUT_MS: the page goes on as it is,
\* after a failed load with the defaults.  The service may still be reached.
Fail(c) ==
    /\ Open /\ c.page = settingsPage.mount
    /\ settingsPage' = [settingsPage EXCEPT
          !.isLoading = @ /\ c.kind # "load",
          !.isSaving = @ /\ c.kind # "save",
          !.doubtful = @ \/ c.kind \in {"load", "save"}]
    /\ \/ calls' = calls \ {c}
       \/ /\ c.at = "sent" /\ c.kind \in {"save", "action"}
          /\ calls' = (calls \ {c}) \union {[c EXCEPT !.page = 0]}
    /\ UNCHANGED <<settingsByDid, auditLog, issued>>

\* A call that nobody waits for ends, before or after it reached the service.
Lost(c) ==
    /\ c.page = 0
    /\ calls' = calls \ {c}
    /\ UNCHANGED <<settingsByDid, auditLog, settingsPage, issued>>

SettingsNext ==
    \/ \E c \in calls :
          \/ getSettings(c) \/ updateSettings(c)
          \/ getAuditTrail(c) \/ handleAccountAction(c)
          \/ Answer(c) \/ Fail(c) \/ Lost(c)
    \/ MountSettings \/ UnmountSettings
    \/ \E f \in Fields, v \in Values : handlePatch(f, v)
    \/ handleSave \/ handleCancel
    \/ \E kind \in {"audit", "action"} : Ask(kind)

SettingsSpec == SettingsInit /\ [][SettingsNext]_settingsVars

-----------------------------------------------------------------------------
\* The entries of a field lead from its default to its value of now.
Explains(log, f, now) ==
    LET about == {k \in DOMAIN log : log[k].field = f}
    IN /\ \A k \in about :
             /\ log[k].oldValue # log[k].newValue
             /\ (\A j \in about : j >= k) => log[k].oldValue = Default[f]
             /\ (\A j \in about : j <= k) => log[k].newValue = now
             /\ \A j \in about :
                   j < k /\ (\A i \in about : i <= j \/ i >= k) =>
                       log[k].oldValue = log[j].newValue
       /\ about = {} => now = Default[f]

(* The audit log tells how the stored settings came about: the entries of a  *)
(* field lead from its default to its stored value, each from where the one  *)
(* before ended, whatever saves come through late or after newer ones        *)
(* (updateSettings and diffSettings).                                        *)
AuditExplainsSettings == \A f \in Fields : Explains(auditLog, f, Stored[f])

(* Unless a call failed or a save of an earlier visit was under way, the     *)
(* page takes for saved what the service has stored: 'Unsaved changes' and   *)
(* Cancel can be trusted, also after edits made while a save was under way   *)
(* (SettingsRoute: handleSave, handleCancel and the load effect).            *)
SavedIsStored ==
    formShown /\ ~settingsPage.isSaving /\ ~settingsPage.doubtful
    => settingsPage.savedSettings = Stored

(* The page takes for saved what is stored, and the audit log explains it.  *)
SettingsAgree == AuditExplainsSettings /\ SavedIsStored
=============================================================================
