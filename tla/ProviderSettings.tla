-------------------------- MODULE ProviderSettings --------------------------
(***************************************************************************)
(* The settings of one kind of provider (images) and the runs that use     *)
(* them: the settings dialogs of several tabs, the configitem rows, the    *)
(* Settings object the Gateway changes in place, the check before a full   *)
(* run and the snapshot pinned into it, and the engine, which reads the    *)
(* snapshot, the rows and its own environment.                             *)
(*                                                                         *)
(* Two programs resolve the same settings in two languages: the Gateway    *)
(* from its Settings object (provider_resolution.py), the engine from the  *)
(* rows (configValue, resolveMediaSettings). A provider may be spelled     *)
(* with capitals, a switch in more than one way, an address set to nothing *)
(* by the environment: each program reads these in its own way. A switch   *)
(* the Settings class refuses is stored all the same.                      *)
(*                                                                         *)
(* Four fields stand for all: the provider, an address, a secret, a        *)
(* switch. Secrets have more than eight characters, so that each has a     *)
(* mask of its own. Gateway and engine have one environment, and it is one *)
(* the Settings class accepts. The text provider is also probed; the       *)
(* verdict is left open, a cached one may be old.                          *)
(***************************************************************************)
EXTENDS Naturals, FiniteSets

CONSTANTS
    Tabs,
    FullRuns, TargetedRuns,
    Bases, DefaultBase,
    Secrets,
    None,          \* no value: an empty field, no row, no variable
    Blank,         \* a row or a variable that is there and holds nothing
    MaxEdits       \* changes typed into a dialog

ASSUME BaseAssumption == DefaultBase \in Bases
ASSUME RunAssumption == FullRuns \cap TargetedRuns = {}
ASSUME BoundAssumption == MaxEdits \in Nat

VARIABLES
    env,        \* the environment
    row,        \* configitem: what was saved or seeded
    runtime,    \* the Gateway's Settings object
    up,         \* the Gateway has started: a start may fail
    loose,      \* since its start a value was cleared or two saves overlapped
    dialog,     \* dialog[t]: the settings dialog of tab t
    save,       \* save[t]: its save under way
    start,      \* start[r]: the request that starts full run r
    pinned,     \* pinned[r]: the provider settings in the snapshot of run r
    exec,       \* exec[r]: the settings its execution resolved
    edits

gateway == <<row, runtime, up, loose>>
tabs == <<dialog, save, edits>>
runs == <<start, pinned, exec>>
vars == <<env, row, runtime, up, loose, dialog, save, start, pinned, exec, edits>>

Runs == FullRuns \cup TargetedRuns
Keys == {"provider", "base", "secret", "switch"}
Supported == {"real", "fake"}
Providers == Supported \cup {"Real", "unknown"}
Switches == {"true", "false", "yes", "maybe"}
ASSUME NoneAssumption ==
    /\ None \notin Providers \cup Switches \cup Bases \cup Secrets \cup {Blank}
    /\ Blank \notin Providers \cup Switches \cup Bases \cup Secrets

Values(k) == CASE k = "provider" -> Providers [] k = "base" -> Bases \cup {Blank}
               [] k = "secret" -> Secrets [] OTHER -> Switches

\* A text in a field: the value itself, or the mask that is shown for it.
Plain(v) == [of |-> v, masked |-> FALSE]
Empty == Plain(None)
Text(k) == [of : Values(k), masked : BOOLEAN] \cup {Empty}
Texts == {f \in [Keys -> UNION {Text(k) : k \in Keys}] : \A k \in Keys : f[k] \in Text(k)}

NoTexts == [k \in Keys |-> Empty]
Default == [NoTexts EXCEPT !["provider"] = Plain("real"), !["base"] = Plain(DefaultBase),
                           !["switch"] = Plain("true")]

Or(a, b) == [k \in Keys |-> IF a[k] # Empty THEN a[k] ELSE b[k]]

\* `if value`, `value not in (None, "")`: what holds nothing is not there.
Told(x) == [k \in Keys |-> IF x[k] = Plain(Blank) THEN Empty ELSE x[k]]

NoSave == [at |-> "none", sent |-> NoTexts, keys |-> {}, read |-> NoTexts]
Save == [at : {"none", "committed", "read", "applied"}, sent : Texts, keys : SUBSET Keys, read : Texts]
Dialog == [form : Texts, initial : Texts]

NoStart == [at |-> "none", verdict |-> "unknown", provider |-> "none"]
\* A degraded provider counts as a valid one.
Verdicts == {"unknown", "valid", "invalid"}
Start == [at : {"none", "asked", "resolved", "done"}, verdict : Verdicts,
          provider : Providers \cup {"none"}]

\* What an execution works with, what a snapshot pins of it
Bool == {"true", "false"}
NoExec == [on |-> FALSE, provider |-> "none", base |-> Empty, secret |-> Empty, switch |-> "true"]
Exec == [on : BOOLEAN, provider : Providers \cup {"none"}, base : Text("base"),
         secret : Text("secret"), switch : Bool]
NoSnapshot == [made |-> FALSE, provider |-> "none", base |-> Empty, switch |-> Empty]
Snapshot == [made : BOOLEAN, provider : Providers \cup {"none"}, base : Text("base"),
             switch : Text("switch")]

TypeOK ==
    /\ env \in Texts
    /\ row \in Texts
    /\ runtime \in Texts
    /\ up \in BOOLEAN
    /\ loose \in BOOLEAN
    /\ dialog \in [Tabs -> Dialog]
    /\ save \in [Tabs -> Save]
    /\ start \in [FullRuns -> Start]
    /\ pinned \in [Runs -> Snapshot]
    /\ exec \in [Runs -> Exec]
    /\ edits \in 0..MaxEdits

-----------------------------------------------------------------------------
(* The rows and the Settings object *)

\* ensure_initialized and ensure_provider_configs_initialized: what has no row
\* gets one, from the environment, be it blank, then from the defaults.
Seeded == Or(row, Or(env, Default))

\* _parse_value and the fields of Settings: a switch is a boolean.
Parsed(x) == [k \in Keys |-> IF k = "switch" /\ x[k].of = "yes" THEN Plain("true") ELSE x[k]]

\* Settings.model_validate raises on a switch that is none.
Accepted(rows) == rows["switch"].of # "maybe"

\* Mutant: what the environment has set is not overlaid
OverlaidKeeps(object, rows) == Parsed(Or(object, rows))

\* build_settings_overrides, laid over the object
Overlaid(object, rows) == Parsed(Or(rows, object))

\* list_effective: rows, then the environment, then the defaults; secrets
\* masked, and what is blank looks empty.
Mask(x) == IF x = Empty THEN Empty ELSE [of |-> x.of, masked |-> TRUE]
Listed == [k \in Keys |-> LET x == Told(Or(row, Or(env, Default)))[k]
                          IN IF k = "secret" THEN Mask(x) ELSE x]

\* .env and the process environment: nothing is set, or a secret and another
\* provider than the default, or a secret with the other settings spelled in
\* ways of their own and no address.
Environments ==
    {NoTexts} \cup
    {[NoTexts EXCEPT !["provider"] = Plain("fake"), !["secret"] = Plain(x)] : x \in Secrets} \cup
    {[k \in Keys |-> CASE k = "provider" -> Plain("Real") [] k = "base" -> Plain(Blank)
                       [] k = "secret" -> Plain(x) [] OTHER -> Plain("yes")] : x \in Secrets}

Init ==
    /\ env \in Environments
    /\ row = Or(env, Default)
    /\ runtime = Parsed(Or(env, Default))
    /\ up = TRUE
    /\ loose = FALSE
    /\ dialog = [t \in Tabs |-> [form |-> Listed, initial |-> Listed]]
    /\ save = [t \in Tabs |-> NoSave]
    /\ start = [r \in FullRuns |-> NoStart]
    /\ pinned = [r \in Runs |-> NoSnapshot]
    /\ exec = [r \in Runs |-> NoExec]
    /\ edits = 0

\* The Gateway dies at any moment and starts again: init_db. The rows are seeded
\* and laid over a new object; a row it refuses ends the start. Requests that
\* were under way get an error; what they committed stays.
Boot ==
    /\ row' = Seeded
    /\ up' = Accepted(Seeded)
    /\ runtime' = IF up' THEN Overlaid(Or(env, Default), Seeded) ELSE Parsed(Or(env, Default))
    /\ loose' = FALSE
    /\ save' = [t \in Tabs |-> NoSave]
    /\ start' = [r \in FullRuns |-> IF start[r].at \in {"asked", "resolved"} THEN NoStart ELSE start[r]]
    /\ UNCHANGED <<env, dialog, pinned, exec, edits>>

-----------------------------------------------------------------------------
(* The dialog *)

\* Opened, or the list was asked for again: what was typed is gone.
Show(t) ==
    /\ up
    /\ dialog' = [dialog EXCEPT ![t] = [form |-> Listed, initial |-> Listed]]
    /\ UNCHANGED <<env, save, edits>> /\ UNCHANGED gateway /\ UNCHANGED runs

Edit(t, k, x) ==
    /\ edits < MaxEdits /\ edits' = edits + 1
    /\ dialog' = [dialog EXCEPT ![t].form[k] = x]
    /\ UNCHANGED <<env, save>> /\ UNCHANGED gateway /\ UNCHANGED runs

\* A switch that is on or off is only turned; everything else is a text field.
Typable(t, k) == IF k = "switch" /\ dialog[t].form[k].of \in Bool THEN Bool
                 ELSE (Values(k) \ {Blank}) \cup {None}

Type(t) == \E k \in Keys : \E v \in Typable(t, k) :
               dialog[t].form[k] # Plain(v) /\ Edit(t, k, Plain(v))

\* The eye: get_raw_value is put into the field like something typed.
Reveal(t) ==
    LET x == Or(row, env)["secret"]
    IN up /\ dialog[t].form["secret"].masked /\ x # Empty /\ Edit(t, "secret", x)

\* Only the fields that differ from what the dialog takes for saved are sent.
Changed(d) == {k \in Keys : d.form[k] # d.initial[k]}

-----------------------------------------------------------------------------
(* PUT /config *)

\* The mask of the secret that is stored: the field was not changed.
IsMaskedInput(k, x) ==
    k = "secret" /\ x.masked /\ x = Mask(Or(row, env)[k])

Skipped(k, x) == IsMaskedInput(k, x) \/ (x = Empty /\ row[k] = Empty)

\* Sent, and committed by upsert_configs
Upsert(t) ==
    /\ up /\ save[t] = NoSave /\ Changed(dialog[t]) # {}
    /\ LET sent == dialog[t].form
           written == {k \in Changed(dialog[t]) : ~Skipped(k, sent[k])}
       IN /\ row' = [k \in Keys |-> IF k \in written THEN sent[k] ELSE row[k]]
          /\ loose' = (\/ loose
                       \/ \E k \in written : sent[k] = Empty
                       \/ \E u \in Tabs \ {t} : save[u].at \in {"committed", "read"})
          /\ save' = [save EXCEPT ![t] =
                 [at |-> "committed", sent |-> sent, keys |-> Changed(dialog[t]), read |-> NoTexts]]
    /\ UNCHANGED <<env, runtime, up, dialog, edits>> /\ UNCHANGED runs

\* apply_settings_overrides: the rows are read, then laid over the object.
ReadRows(t) ==
    /\ save[t].at = "committed"
    /\ save' = [save EXCEPT ![t].at = "read", ![t].read = row]
    /\ UNCHANGED <<env, dialog, edits>> /\ UNCHANGED gateway /\ UNCHANGED runs

Apply(t) ==
    /\ save[t].at = "read" /\ Accepted(save[t].read)
    /\ runtime' = Overlaid(runtime, save[t].read)
    /\ save' = [save EXCEPT ![t].at = "applied", ![t].read = NoTexts]
    /\ UNCHANGED <<env, row, up, loose, dialog, edits>> /\ UNCHANGED runs

\* A row is refused, whoever saved it: nothing is set in the object, what was
\* committed stays, and the dialog gets an error.
ApplyFails(t) ==
    /\ save[t].at = "read" /\ ~Accepted(save[t].read)
    /\ save' = [save EXCEPT ![t] = NoSave]
    /\ UNCHANGED <<env, dialog, edits>> /\ UNCHANGED gateway /\ UNCHANGED runs

\* onSuccess: what was sent is taken for saved, until the list comes again.
Saved(t) ==
    /\ save[t].at = "applied"
    /\ dialog' = [dialog EXCEPT ![t].initial =
           [k \in Keys |-> IF k \in save[t].keys THEN save[t].sent[k] ELSE @[k]]]
    /\ save' = [save EXCEPT ![t] = NoSave]
    /\ UNCHANGED <<env, edits>> /\ UNCHANGED gateway /\ UNCHANGED runs

-----------------------------------------------------------------------------
(* The start of a full run *)

\* Mutant: a provider is taken without its secret
AnyCredential(settings, p) == TRUE

CredentialOk(settings, p) == p = "real" => settings["secret"] # Empty

\* _normalize_provider_key
Spelled(p) == IF p = "Real" THEN "real" ELSE p

Selected == Spelled(runtime["provider"].of)

\* Only a provider that could work is probed. The settings may change while the
\* probe is awaited, and the verdict may come from the cache.
Ask(r) ==
    /\ up /\ start[r] = NoStart
    /\ \E v \in (IF Selected \in Supported /\ CredentialOk(runtime, Selected)
                 THEN Verdicts ELSE {"unknown"}) :
          start' = [start EXCEPT ![r] = [NoStart EXCEPT !.at = "asked", !.verdict = v]]
    /\ UNCHANGED <<env, pinned, exec>> /\ UNCHANGED gateway /\ UNCHANGED tabs

\* resolve_project_provider_settings and the decision
Valid(verdict) ==
    /\ Selected \in Supported
    /\ CredentialOk(runtime, Selected)
    /\ verdict # "invalid"

Resolve(r) ==
    /\ start[r].at = "asked"
    /\ start' = [start EXCEPT ![r] =
           IF Valid(start[r].verdict) THEN [NoStart EXCEPT !.at = "resolved", !.provider = Selected]
           ELSE NoStart]
    /\ UNCHANGED <<env, pinned, exec>> /\ UNCHANGED gateway /\ UNCHANGED tabs

\* _effective_provider_config: the row as it is written, else the object
Picked(k) == Or(Told(row), runtime)[k]

\* build_run_context_snapshot, some awaits later: the provider as resolved, the
\* other settings as they are by now.
Pin(r) ==
    /\ start[r].at = "resolved"
    /\ pinned' = [pinned EXCEPT ![r] =
           [made |-> TRUE, provider |-> start[r].provider,
            base |-> Picked("base"), switch |-> Picked("switch")]]
    /\ start' = [start EXCEPT ![r] = [NoStart EXCEPT !.at = "done"]]
    /\ UNCHANGED <<env, exec>> /\ UNCHANGED gateway /\ UNCHANGED tabs

-----------------------------------------------------------------------------
(* The engine *)

EngineDefault == [Default EXCEPT !["provider"] = Plain("fake")]

\* configValue
EngineValue == Or(Told(row), Or(Told(env), EngineDefault))

\* asBoolean, for what a snapshot holds, and the comparison with "true" without one
AsBoolean(x) == IF x.of = "false" THEN "false" ELSE "true"
IsTrue(x) == IF x.of = "true" THEN "true" ELSE "false"

\* Mutant: a run reads the settings of the day
SnapshotIgnored(r) == FALSE

HasSnapshot(r) == pinned[r].made

\* What the engine does not know, as it is written, it takes for the provider
\* without a vendor.
KnownProvider(p) == IF p = "real" THEN "real" ELSE "fake"

\* resolveMediaSettings, once per execution: the settings of a snapshot, the
\* secret always as it is now.
Resolved(r) ==
    LET p == IF HasSnapshot(r) THEN pinned[r].provider ELSE KnownProvider(EngineValue["provider"].of)
    IN [on |-> TRUE, provider |-> p,
        base |-> IF HasSnapshot(r) THEN pinned[r].base ELSE EngineValue["base"],
        secret |-> IF HasSnapshot(r) /\ p = "fake" THEN Empty ELSE EngineValue["secret"],
        switch |-> IF HasSnapshot(r) THEN AsBoolean(pinned[r].switch)
                   ELSE IsTrue(EngineValue["switch"])]

\* A pinned vendor without an address: resolveMediaSettings throws.
Throws(r) ==
    /\ HasSnapshot(r) /\ pinned[r].provider # "fake"
    /\ pinned[r].base \in {Empty, Plain(Blank)}

\* A full run when its row is there, a targeted run as soon as it is asked for;
\* again after an interruption. What a full run worked with before is remembered.
Execute(r) ==
    /\ ~exec[r].on
    /\ r \in FullRuns => pinned[r].made
    /\ ~Throws(r)
    /\ exec' = [exec EXCEPT ![r] = Resolved(r)]
    /\ UNCHANGED <<env, start, pinned>> /\ UNCHANGED gateway /\ UNCHANGED tabs

Interrupt(r) ==
    /\ exec[r].on
    /\ exec' = [exec EXCEPT ![r] = IF r \in FullRuns THEN [@ EXCEPT !.on = FALSE] ELSE NoExec]
    /\ UNCHANGED <<env, start, pinned>> /\ UNCHANGED gateway /\ UNCHANGED tabs

-----------------------------------------------------------------------------
DialogStep(t) ==
    Show(t) \/ Type(t) \/ Reveal(t) \/ Saved(t)

PutStep(t) == Upsert(t) \/ ReadRows(t) \/ Apply(t) \/ ApplyFails(t)

StartStep(r) == Ask(r) \/ Resolve(r) \/ Pin(r)

EngineStep(r) == Execute(r) \/ Interrupt(r)

Next ==
    \/ Boot
    \/ \E t \in Tabs : DialogStep(t) \/ PutStep(t)
    \/ \E r \in FullRuns : StartStep(r)
    \/ \E r \in Runs : EngineStep(r)

Spec == Init /\ [][Next]_vars

-----------------------------------------------------------------------------
(* Properties *)

Settling == \E t \in Tabs : save[t].at \in {"committed", "read"}

\* What each program makes of a setting when it has no snapshot
GatewayReads(k) == IF k = "provider" THEN Selected ELSE runtime[k].of
EngineReads(k) ==
    CASE k = "provider" -> KnownProvider(EngineValue[k].of)
      [] k = "switch" -> IsTrue(EngineValue[k])
      [] OTHER -> EngineValue[k].of

\* The spellings the two programs read apart: a provider nobody knows or with
\* capitals, a switch in other words, a row that holds nothing.
Misread == {"unknown", "Real", "yes", Blank}

\* Gateway and engine make the same of every setting that is spelled as both
\* read it, when no save is between its commit and the Settings object, no row
\* is one the Settings class refuses, and nothing was cleared and no saves
\* overlapped since the Gateway started: after every seeding, every save, every
\* save that failed at the object and every crash between the two.
BothSeeTheSame ==
    up /\ ~Settling /\ ~loose /\ Accepted(row) =>
        \A k \in Keys : row[k].of \in Misread \/ GatewayReads(k) = EngineReads(k)

\* A full run that passes the check finds the secret of its provider when it is
\* executed at that moment, be a save half done or refused, unless a value was
\* cleared or saves overlapped since the Gateway started.
AdmittedCanPay ==
    [][\A r \in FullRuns :
          start[r].at = "asked" /\ start'[r].at = "resolved" /\ ~loose
          => (start'[r].provider = "fake" \/ EngineValue["secret"] # Empty)]_vars

\* A full run keeps the provider, the address and the switch it was admitted
\* with, over saves, starts of the Gateway, interruptions and resumes.
KeepsItsProvider ==
    [][\A r \in FullRuns :
          exec[r].provider # "none" =>
             /\ exec'[r].provider = exec[r].provider
             /\ exec'[r].base = exec[r].base
             /\ exec'[r].switch = exec[r].switch]_vars

=============================================================================
