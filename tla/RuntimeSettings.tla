----------------------------- MODULE RuntimeSettings -----------------------------
(***************************************************************************)
(* The settings an administrator edits while the system runs               *)
(* (services/runtime_settings.py, api/routes/admin.py).  Overrides are rows *)
(* of app_settings; every process patches its own settings object with     *)
(* them: the API when it starts, after an edit and on the routes that need *)
(* them fresh, the scheduler before each job and the feed on every turn.   *)
(***************************************************************************)
EXTENDS Integers

CONSTANTS Processes,  \* with a settings object each
          Settings,   \* the editable keys
          Editable,   \* of a key: [type, among] and, of a number, [type, min, max]
          Default,    \* from .env or the code
          Entries,    \* what an administrator may send for a key
          NoOverride,
          NoEdit

VARIABLES
    overrides,  \* app_settings, committed: a value by key, or NoOverride
    settings,   \* settings[p][k]: the settings object of process p
    edit        \* the request that edits, with its uncommitted rows: [by, rows], or NoEdit

settingVars == <<overrides, settings, edit>>

SettingsInit ==
    /\ overrides = [k \in Settings |-> NoOverride]
    /\ settings = [p \in Processes |-> Default]
    /\ edit = NoEdit

\* coerce: a number out of its range, a choice or a list entry not offered is refused.
Accepted(k, v) ==
    CASE Editable[k].type = "int"    -> v \in Editable[k].min .. Editable[k].max
      [] Editable[k].type = "list"   -> v \subseteq Editable[k].among
      [] Editable[k].type = "choice" -> v \in Editable[k].among

\* apply, over the rows a session sees.
Effective(rows) == [k \in Settings |-> IF rows[k] = NoOverride THEN Default[k] ELSE rows[k]]

\* set_many: all values or none.  A value equal to the default takes its override away.  The
\* editing process works under the new values before they are committed.
SetMany(p, values) ==
    LET rows == [k \in Settings |-> IF k \notin DOMAIN values THEN overrides[k]
                                    ELSE IF values[k] = Default[k] THEN NoOverride ELSE values[k]]
    IN  /\ edit = NoEdit
        /\ \A k \in DOMAIN values : Accepted(k, values[k])
        /\ rows # overrides
        /\ edit' = [by |-> p, rows |-> rows]
        /\ settings' = [settings EXCEPT ![p] = Effective(rows)]
        /\ UNCHANGED overrides

\* The request ends: committed, or rolled back by a failure after set_many.
EndEdit ==
    /\ edit # NoEdit
    /\ overrides' \in {edit.rows, overrides}
    /\ edit' = NoEdit
    /\ UNCHANGED settings

\* apply, in a session other than the editing one.
Apply(p) ==
    /\ settings' = [settings EXCEPT ![p] = Effective(overrides)]
    /\ UNCHANGED <<overrides, edit>>

EditSettings ==
    \/ \E p \in Processes, k \in Settings : \E v \in Entries[k] : SetMany(p, [x \in {k} |-> v])
    \/ EndEdit
=============================================================================
