---------------------------- MODULE RuntimeSettings ----------------------------
(***************************************************************************)
(* Which models a room uses: the default setting, the room's own setting,  *)
(* and what a generation or a compression makes of them while the catalog  *)
(* of models changes underneath.                                           *)
(***************************************************************************)
EXTENDS ProviderCatalog

Scopes == {"default", "room"}
Fields == {"model", "fallback", "compression", "compression_fallback"}
CapabilityOf == [f \in Fields |-> IF f \in {"model", "fallback"} THEN "chat" ELSE "compression"]
NoModels == [f \in Fields |-> None]

\* The compression fallback a row stands for.
Inherited(row) == IF row["compression_fallback"] # None THEN row["compression_fallback"] ELSE row["fallback"]
\* What apply_update asks of a row: a fallback is another model than the one it stands in for.
Apart(row) ==
    /\ row["fallback"] = None \/ row["fallback"] # row["model"]
    /\ Inherited(row) = None \/ Inherited(row) # row["compression"]

CONSTANTS
    FirstRef, FirstSecret,  \* of the accounts an installation starts with
    FirstRows,              \* its default settings explored, empty or left by earlier updates
    Payloads                \* the updates of a setting explored: some fields to their values

ASSUME SettingsAssumption ==
    /\ FirstRef \in [Accounts -> Refs] /\ FirstSecret \in Secrets
    /\ \A a, b \in Accounts : FirstRef[a] = FirstRef[b] => a = b
    /\ Absent \notin [Fields -> Keys \union {None}]
    /\ \A row \in FirstRows : row \in [Fields -> Keys \union {None}] /\ Apart(row)
    /\ \A p \in Payloads :
          /\ DOMAIN p \subseteq Fields /\ \A f \in DOMAIN p : p[f] \in Keys \union {None}
          /\ \A f \in {"model", "compression"} \intersect DOMAIN p : p[f] # None

VARIABLES
    settings,   \* RuntimeSetting rows: "default", and "room" once it has its own
    edits,      \* the updates of settings that are being served, or Absent
    met         \* scopes whose updates have overlapped

vars == <<accounts, options, file, jobs, left, given, spoiled, crossed, chosen, settings, edits, met>>

SettingsTypeOK ==
    /\ TypeOK
    /\ settings["default"] \in [Fields -> Keys \union {None}]
    /\ settings["room"] = Absent \/ settings["room"] \in [Fields -> Keys \union {None}]
    /\ met \subseteq Scopes

\* get_effective_setting
Effective(scope) == IF settings[scope] # Absent THEN settings[scope] ELSE settings["default"]

\* update_global_setting, update_conversation_setting: the row is loaded, or copied from
\* the default one.
StartUpdate(w, scope, payload) ==
    /\ edits[w] = Absent
    /\ LET new == settings[scope] = Absent
       IN  edits' = [edits EXCEPT ![w] =
                         [scope |-> scope, new |-> new, row |-> Effective(scope), payload |-> payload]]
    /\ met' = met \union {scope : v \in {v \in Workers : edits[v] # Absent /\ edits[v].scope = scope}}
    /\ Spend("setting")
    /\ UNCHANGED <<catalog, jobs, settings>>

Updated(edit) == [f \in Fields |-> IF f \in DOMAIN edit.payload THEN edit.payload[f] ELSE edit.row[f]]

\* Faulty variant of Acceptable: only what the payload sets is compared.
AcceptableParts(edit) ==
    LET row == Updated(edit) IN
    /\ \A f \in DOMAIN edit.payload : edit.payload[f] = None \/ Active(edit.payload[f], CapabilityOf[f])
    /\ "fallback" \in DOMAIN edit.payload => row["fallback"] = None \/ row["fallback"] # row["model"]
    /\ "compression_fallback" \in DOMAIN edit.payload =>
          row["compression_fallback"] = None \/ row["compression_fallback"] # row["compression"]
\* apply_update
Acceptable(edit) ==
    /\ \A f \in DOMAIN edit.payload : edit.payload[f] = None \/ Active(edit.payload[f], CapabilityOf[f])
    /\ Apart(Updated(edit))

\* Only what differs from the loaded row is written; a row of the room that has come to be
\* meanwhile is an IntegrityError.
CommitUpdate(w) ==
    /\ edits[w] # Absent
    /\ LET edit == edits[w]  row == Updated(edit)  now == settings[edit.scope] IN
       IF ~Acceptable(edit) \/ (edit.new /\ now # Absent) THEN UNCHANGED settings
       ELSE settings' = [settings EXCEPT ![edit.scope] =
                IF edit.new THEN row
                ELSE [f \in Fields |-> IF row[f] = edit.row[f] THEN now[f] ELSE row[f]]]
    /\ edits' = [edits EXCEPT ![w] = Absent]
    /\ UNCHANGED <<catalog, jobs, left, met>>

\* An installation that has just begun, or one that has been in use: some accounts are set
\* up, their models enabled, and the default setting names some of them.
KeysOf(there) == {KeyOf[a][m] : a \in there, m \in Models}
FirstOption(there, key) ==
    LET owner == CHOOSE a \in there : \E m \in Models : KeyOf[a][m] = key
    IN  [account |-> owner, model |-> CHOOSE m \in Models : KeyOf[owner][m] = key,
         manual |-> FALSE, enabled |-> TRUE, supports |-> Capabilities]

Init ==
    \E there \in SUBSET Accounts :
        /\ accounts = [a \in Accounts |-> IF a \in there THEN [enabled |-> TRUE, ref |-> FirstRef[a]] ELSE Absent]
        /\ options = [k \in Keys |-> IF k \in KeysOf(there) THEN FirstOption(there, k) ELSE Absent]
        /\ given = [a \in Accounts |-> IF a \in there THEN FirstSecret ELSE None]
        /\ file = [r \in Refs |-> IF \E a \in there : FirstRef[a] = r THEN FirstSecret ELSE None]
        /\ jobs = [w \in Workers |-> Idle] /\ left \in Mixes
        /\ spoiled = FALSE /\ crossed = {} /\ chosen = KeysOf(there)
        /\ \E row \in FirstRows :
              /\ \A f \in Fields : row[f] \in KeysOf(there) \union {None}
              /\ settings = [s \in Scopes |-> IF s = "default" THEN row ELSE Absent]
        /\ edits = [w \in Workers |-> Absent] /\ met = {}

Updating ==
    \E w \in Workers :
        \/ \E scope \in Scopes, payload \in Payloads : StartUpdate(w, scope, payload)
        \/ CommitUpdate(w)

Next ==
    \/ CatalogNext /\ UNCHANGED <<settings, edits, met>>
    \/ Updating

Spec == Init /\ [][Next]_vars

-----------------------------------------------------------------------------
(* What the models of a room are.                                          *)

\* compression_fallback_llm_overrides_for_setting, where it raises no error.
UsedCompressionFallback(row) ==
    LET key == Inherited(row) IN
    IF key = None \/ key = row["compression"] \/ ~Active(key, "compression") THEN None ELSE key

\* serialize_setting: the first of the two that is active.
ShownCompressionFallback(row) ==
    LET IsActive(key) == key # None /\ Active(key, "compression") IN
    IF IsActive(row["compression_fallback"]) THEN row["compression_fallback"]
    ELSE IF IsActive(row["fallback"]) THEN row["fallback"]
    ELSE None

\* A room's fallback is another model than its primary, whatever updates of the default
\* setting, first updates of the room and losses of models come in between; only two
\* updates of one setting at once can make them the same.
FallbackDiffers ==
    \A s \in Scopes \ met : settings[s] # Absent =>
        settings[s]["fallback"] = None \/ settings[s]["fallback"] # settings[s]["model"]

\* The settings page names the model a compression falls back to, through every change of
\* the catalog, except that a dedicated one that is inactive is an error for the compression
\* where the page already names the one of the chat.
ShownIsUsed ==
    \A s \in Scopes \ met : settings[s] # Absent =>
        LET dedicated == settings[s]["compression_fallback"] IN
        \/ dedicated # None /\ ~Active(dedicated, "compression")
        \/ ShownCompressionFallback(settings[s]) = UsedCompressionFallback(settings[s])

\* A room that has a fallback has another model to fall back to, and it is the one it shows.
FallbackIsSound == SettingsTypeOK /\ FallbackDiffers /\ ShownIsUsed
=============================================================================
