----------------------- MODULE ProviderSettingsProofs -----------------------
(***************************************************************************)
(* Proofs about ProviderSettings, for every number of tabs, runs, values   *)
(* and edits. Only a secret can be without a row, and then the Settings    *)
(* object has it from the environment; a save that nobody overlapped has   *)
(* read the rows as they are, and one that fails has met a row that is     *)
(* refused: so the Gateway's overlay and the engine's lookup meet once a   *)
(* save is through. A snapshot is made once.                               *)
(***************************************************************************)
EXTENDS ProviderSettings, TLAPS

\* Only a secret is without a row, and then both sides have the environment's.
EmptyRows ==
    ~loose => \A k \in Keys : row[k] = Empty => k = "secret" /\ runtime[k] = env[k]

\* What a save has read is what is stored.
ReadIsCurrent ==
    ~loose => \A t \in Tabs : save[t].at = "read" => save[t].read = row

\* At rest the object holds the rows.
Laid ==
    up /\ ~Settling /\ ~loose /\ Accepted(row) =>
        \A k \in Keys : row[k] # Empty => runtime[k] = Parsed(row)[k]

\* A snapshot ends the request that makes it; executions of a full run work
\* with its snapshot.
SnapshotRules ==
    \A r \in FullRuns :
        /\ pinned[r].made => start[r].at = "done"
        /\ exec[r].provider # "none" =>
              /\ pinned[r].made
              /\ exec[r].provider = pinned[r].provider
              /\ exec[r].base = pinned[r].base
              /\ exec[r].switch = AsBoolean(pinned[r].switch)

IInv == TypeOK /\ EmptyRows /\ ReadIsCurrent /\ Laid /\ SnapshotRules

-----------------------------------------------------------------------------
(* Texts *)

LEMMA PlainType ==
    ASSUME NEW k \in Keys, NEW v \in Values(k) \cup {None}
    PROVE  Plain(v) \in Text(k)
BY DEF Plain, Text, Empty

LEMMA TextsMade ==
    ASSUME NEW f, DOMAIN f = Keys, f = [k \in Keys |-> f[k]], \A k \in Keys : f[k] \in Text(k)
    PROVE  f \in Texts
<1>1. \A k \in Keys : f[k] \in UNION {Text(q) : q \in Keys}
  OBVIOUS
<1> QED BY <1>1 DEF Texts

LEMMA TextsAt == ASSUME NEW f \in Texts, NEW k \in Keys PROVE f[k] \in Text(k)
BY DEF Texts

LEMMA EmptyType == (\A k \in Keys : Empty \in Text(k)) /\ NoTexts \in Texts
<1>1. \A k \in Keys : Empty \in Text(k)
  BY DEF Text
<1>2. DOMAIN NoTexts = Keys /\ NoTexts = [k \in Keys |-> NoTexts[k]] /\ \A k \in Keys : NoTexts[k] = Empty
  BY DEF NoTexts
<1> QED BY <1>1, <1>2, TextsMade

LEMMA DefaultAt ==
    /\ Default["provider"] = Plain("real") /\ Default["base"] = Plain(DefaultBase)
    /\ Default["secret"] = Empty /\ Default["switch"] = Plain("true")
    /\ DOMAIN Default = Keys /\ Default = [k \in Keys |-> Default[k]]
    /\ EngineDefault["provider"] = Plain("fake") /\ EngineDefault["base"] = Plain(DefaultBase)
    /\ EngineDefault["secret"] = Empty /\ EngineDefault["switch"] = Plain("true")
    /\ DOMAIN EngineDefault = Keys /\ EngineDefault = [k \in Keys |-> EngineDefault[k]]
BY DEF Default, EngineDefault, NoTexts, Keys

LEMMA DefaultsType == Default \in Texts /\ EngineDefault \in Texts
<1>1. /\ Plain("real") \in Text("provider") /\ Plain("fake") \in Text("provider")
      /\ Plain(DefaultBase) \in Text("base") /\ Plain("true") \in Text("switch")
      /\ Empty \in Text("secret")
  BY EmptyType, BaseAssumption DEF Plain, Text, Values, Keys, Providers, Supported, Switches
<1>2. \A k \in Keys : Default[k] \in Text(k) /\ EngineDefault[k] \in Text(k)
  BY <1>1, DefaultAt DEF Keys
<1> QED BY <1>2, DefaultAt, TextsMade

LEMMA OrAt ==
    ASSUME NEW a, NEW b
    PROVE  /\ \A k \in Keys : Or(a, b)[k] = IF a[k] # Empty THEN a[k] ELSE b[k]
           /\ DOMAIN Or(a, b) = Keys /\ Or(a, b) = [k \in Keys |-> Or(a, b)[k]]
BY DEF Or

LEMMA OrType == ASSUME NEW a \in Texts, NEW b \in Texts PROVE Or(a, b) \in Texts
<1>1. \A k \in Keys : Or(a, b)[k] \in Text(k)
  BY OrAt, TextsAt
<1> QED BY <1>1, OrAt, TextsMade

LEMMA ToldAt ==
    ASSUME NEW x
    PROVE  /\ \A k \in Keys : Told(x)[k] = IF x[k] = Plain(Blank) THEN Empty ELSE x[k]
           /\ DOMAIN Told(x) = Keys /\ Told(x) = [k \in Keys |-> Told(x)[k]]
BY DEF Told

LEMMA ToldType == ASSUME NEW x \in Texts PROVE Told(x) \in Texts
<1>1. \A k \in Keys : Told(x)[k] \in Text(k)
  BY ToldAt, TextsAt, EmptyType
<1> QED BY <1>1, ToldAt, TextsMade

LEMMA ParsedAt ==
    ASSUME NEW x
    PROVE  /\ \A k \in Keys :
                 Parsed(x)[k] = IF k = "switch" /\ x[k].of = "yes" THEN Plain("true") ELSE x[k]
           /\ DOMAIN Parsed(x) = Keys /\ Parsed(x) = [k \in Keys |-> Parsed(x)[k]]
BY DEF Parsed

LEMMA ParsedType == ASSUME NEW x \in Texts PROVE Parsed(x) \in Texts
<1>1. Plain("true") \in Text("switch")
  BY DEF Plain, Text, Values, Switches
<1>2. \A k \in Keys : Parsed(x)[k] \in Text(k)
  BY <1>1, ParsedAt, TextsAt
<1> QED BY <1>2, ParsedAt, TextsMade

\* Where a row stands its value is overlaid, elsewhere the object is kept.
LEMMA OverlaidAt ==
    ASSUME NEW object, NEW rows, NEW k \in Keys
    PROVE  /\ rows[k] # Empty => Overlaid(object, rows)[k] = Parsed(rows)[k]
           /\ rows[k] = Empty /\ k = "secret" => Overlaid(object, rows)[k] = object[k]
BY OrAt, ParsedAt DEF Overlaid

LEMMA PlainNotEmpty ==
    ASSUME NEW v, v # None PROVE Plain(v) # Empty
BY DEF Plain, Empty

\* Only the secret may be without a default.
LEMMA DefaultsDiffer ==
    ASSUME NEW k \in Keys, Default[k] = Empty
    PROVE  k = "secret"
<1>1. Plain("real") # Empty /\ Plain(DefaultBase) # Empty /\ Plain("true") # Empty
  BY PlainNotEmpty, NoneAssumption, BaseAssumption DEF Providers, Supported, Switches
<1> QED BY <1>1, DefaultAt DEF Keys

LEMMA MaskType == ASSUME NEW k \in Keys, NEW x \in Text(k) PROVE Mask(x) \in Text(k)
BY DEF Mask, Text

LEMMA ListedType == ASSUME row \in Texts, env \in Texts PROVE Listed \in Texts
<1> DEFINE shown == Told(Or(row, Or(env, Default)))
<1>1. shown \in Texts
  BY OrType, ToldType, DefaultsType
<1>2. /\ \A k \in Keys : Listed[k] = IF k = "secret" THEN Mask(shown[k]) ELSE shown[k]
      /\ DOMAIN Listed = Keys /\ Listed = [k \in Keys |-> Listed[k]]
  BY DEF Listed
<1> HIDE DEF shown
<1>3. \A k \in Keys : Listed[k] \in Text(k)
  BY <1>1, <1>2, MaskType, TextsAt
<1> QED BY <1>2, <1>3, TextsMade

-----------------------------------------------------------------------------
(* The settings: rows, object and saves *)

SettingsType ==
    /\ env \in Texts /\ row \in Texts /\ runtime \in Texts
    /\ up \in BOOLEAN /\ loose \in BOOLEAN /\ save \in [Tabs -> Save]

Settings == SettingsType /\ EmptyRows /\ ReadIsCurrent /\ Laid

\* A Gateway that starts: what is still without a row, and the object it lays
\* the rows over.
LEMMA BootFits ==
    ASSUME NEW e \in Texts, NEW r \in Texts, NEW k \in Keys,
           NEW seeded, seeded = Or(r, Or(e, Default)), seeded[k] = Empty
    PROVE  /\ k = "secret" /\ e[k] = Empty
           /\ Overlaid(Or(e, Default), seeded)[k] = e[k]
           /\ Parsed(Or(e, Default))[k] = e[k]
<1>1. /\ seeded[k] = IF r[k] # Empty THEN r[k] ELSE Or(e, Default)[k]
      /\ Or(e, Default)[k] = IF e[k] # Empty THEN e[k] ELSE Default[k]
  BY OrAt
<1>2. e[k] = Empty /\ Default[k] = Empty /\ Or(e, Default)[k] = Empty
  BY <1>1
<1>3. k = "secret"
  BY <1>2, DefaultsDiffer
<1>4. Overlaid(Or(e, Default), seeded)[k] = Or(e, Default)[k]
  BY <1>3, OverlaidAt
<1>5. Parsed(Or(e, Default))[k] = Or(e, Default)[k]
  BY <1>3, ParsedAt
<1> QED BY <1>2, <1>3, <1>4, <1>5

LEMMA EnvironmentsType == ASSUME NEW e \in Environments PROVE e \in Texts
<1>1. CASE e = NoTexts
  BY <1>1, EmptyType
<1>2. ASSUME NEW x \in Secrets,
             e = [NoTexts EXCEPT !["provider"] = Plain("fake"), !["secret"] = Plain(x)]
      PROVE  e \in Texts
  <2>1. Plain("fake") \in Text("provider") /\ Plain(x) \in Text("secret")
    BY DEF Plain, Text, Values, Providers, Supported
  <2>2. /\ DOMAIN e = Keys /\ e = [k \in Keys |-> e[k]]
        /\ \A k \in Keys : e[k] = IF k = "provider" THEN Plain("fake")
                                  ELSE IF k = "secret" THEN Plain(x) ELSE Empty
    BY <1>2 DEF NoTexts, Keys
  <2>3. \A k \in Keys : e[k] \in Text(k)
    BY <2>1, <2>2, EmptyType
  <2> QED BY <2>2, <2>3, TextsMade
<1>3. ASSUME NEW x \in Secrets,
             e = [k \in Keys |-> CASE k = "provider" -> Plain("Real") [] k = "base" -> Plain(Blank)
                                   [] k = "secret" -> Plain(x) [] OTHER -> Plain("yes")]
      PROVE  e \in Texts
  <2>1. /\ Plain("Real") \in Text("provider") /\ Plain(Blank) \in Text("base")
        /\ Plain(x) \in Text("secret") /\ Plain("yes") \in Text("switch")
    BY DEF Plain, Text, Values, Providers, Switches
  <2>2. DOMAIN e = Keys /\ e = [k \in Keys |-> e[k]]
    BY <1>3
  <2>3. /\ e["provider"] = Plain("Real") /\ e["base"] = Plain(Blank)
        /\ e["secret"] = Plain(x) /\ e["switch"] = Plain("yes")
    BY <1>3 DEF Keys
  <2>4. \A k \in Keys : e[k] \in Text(k)
    BY <2>1, <2>3 DEF Keys
  <2> QED BY <2>2, <2>4, TextsMade
<1> QED BY <1>1, <1>2, <1>3 DEF Environments

LEMMA SettingsInit == Init => Settings
<1> SUFFICES ASSUME Init PROVE Settings
  OBVIOUS
<1>1. env \in Texts
  BY EnvironmentsType DEF Init
<1>2. row = Or(env, Default) /\ runtime = Parsed(row) /\ row \in Texts /\ runtime \in Texts
  BY <1>1, OrType, ParsedType, DefaultsType DEF Init
<1>3. NoSave \in Save
  BY EmptyType DEF NoSave, Save
<1>4. SettingsType
  BY <1>1, <1>2, <1>3 DEF SettingsType, Init
<1>5. ASSUME NEW k \in Keys, row[k] = Empty PROVE k = "secret" /\ runtime[k] = env[k]
  <2>1. row[k] = IF env[k] # Empty THEN env[k] ELSE Default[k]
    BY <1>2, OrAt
  <2>2. env[k] = Empty /\ k = "secret"
    BY <1>5, <2>1, DefaultsDiffer
  <2>3. runtime[k] = row[k]
    BY <1>2, <2>2, ParsedAt
  <2> QED BY <1>5, <2>2, <2>3
<1>6. \A t \in Tabs : save[t].at = "none"
  BY DEF Init, NoSave
<1> QED BY <1>2, <1>4, <1>5, <1>6 DEF Settings, EmptyRows, ReadIsCurrent, Laid

LEMMA SettingsBoot == Settings /\ Boot => Settings'
<1> SUFFICES ASSUME Settings, Boot PROVE Settings'
  OBVIOUS
<1>1. env \in Texts /\ row \in Texts /\ env' = env
  BY DEF Settings, SettingsType, Boot
<1>2. /\ row' = Or(row, Or(env, Default)) /\ up' = Accepted(row')
      /\ runtime' = IF up' THEN Overlaid(Or(env, Default), row') ELSE Parsed(Or(env, Default))
  BY DEF Boot, Seeded
<1>3. row' \in Texts /\ runtime' \in Texts
  BY <1>1, <1>2, OrType, ParsedType, DefaultsType DEF Overlaid
<1>4. NoSave \in Save
  BY EmptyType DEF NoSave, Save
<1>5. SettingsType'
  BY <1>1, <1>2, <1>3, <1>4 DEF SettingsType, Boot, Accepted
<1>6. ASSUME NEW k \in Keys, row'[k] = Empty PROVE k = "secret" /\ runtime'[k] = env'[k]
  BY <1>1, <1>2, <1>6, BootFits
<1>7. ASSUME NEW k \in Keys, up', row'[k] # Empty PROVE runtime'[k] = Parsed(row')[k]
  BY <1>2, <1>7, OverlaidAt
<1>8. \A t \in Tabs : save'[t].at = "none"
  BY DEF Boot, NoSave
<1>9. Laid'
  BY <1>7 DEF Laid
<1> QED BY <1>5, <1>6, <1>8, <1>9 DEF Settings, EmptyRows, ReadIsCurrent

\* A save commits: rows are filled while it is under way.
LEMMA SettingsUpsert ==
    ASSUME Settings, NEW t \in Tabs, dialog[t] \in Dialog, Upsert(t)
    PROVE  Settings'
<1> DEFINE sent == dialog[t].form
           written == {k \in Changed(dialog[t]) : ~Skipped(k, sent[k])}
<1>1. /\ row' = [k \in Keys |-> IF k \in written THEN sent[k] ELSE row[k]]
      /\ loose' = (\/ loose
                   \/ \E k \in written : sent[k] = Empty
                   \/ \E u \in Tabs \ {t} : save[u].at \in {"committed", "read"})
      /\ save' = [save EXCEPT ![t] =
             [at |-> "committed", sent |-> sent, keys |-> Changed(dialog[t]), read |-> NoTexts]]
      /\ env' = env /\ runtime' = runtime /\ up' = up
  BY DEF Upsert
<1>2. sent \in Texts /\ Changed(dialog[t]) \in SUBSET Keys
  BY DEF Dialog, Changed
<1>3. SettingsType'
  <2>1. row' \in Texts
    <3>1. row \in Texts
      BY DEF Settings, SettingsType
    <3>2. \A k \in Keys : row'[k] = sent[k] \/ row'[k] = row[k]
      BY <1>1
    <3>3. \A k \in Keys : row'[k] \in Text(k)
      BY <1>2, <3>1, <3>2, TextsAt
    <3>4. DOMAIN row' = Keys /\ row' = [k \in Keys |-> row'[k]]
      BY <1>1
    <3> QED BY <3>3, <3>4, TextsMade
  <2>2. [at |-> "committed", sent |-> sent, keys |-> Changed(dialog[t]), read |-> NoTexts] \in Save
    BY <1>2, EmptyType DEF Save
  <2> QED BY <1>1, <2>1, <2>2 DEF Settings, SettingsType
<1>4. EmptyRows'
  <2>1. ASSUME ~loose', NEW k \in Keys, row'[k] = Empty
        PROVE  row[k] = Empty /\ ~loose
    BY <1>1, <2>1
  <2> QED BY <1>1, <2>1 DEF Settings, EmptyRows
<1>5. ReadIsCurrent'
  <2>1. ASSUME ~loose', NEW u \in Tabs PROVE save'[u].at # "read"
    <3>1. CASE u = t
      BY <1>1, <3>1 DEF Settings, SettingsType
    <3>2. CASE u # t
      BY <1>1, <2>1, <3>2 DEF Settings, SettingsType
    <3> QED BY <3>1, <3>2
  <2> QED BY <2>1 DEF ReadIsCurrent
<1>6. Settling'
  BY <1>1 DEF Settling, Settings, SettingsType
<1> QED BY <1>3, <1>4, <1>5, <1>6 DEF Settings, Laid

LEMMA SettingsReadRows == ASSUME Settings, NEW t \in Tabs, ReadRows(t) PROVE Settings'
<1>1. /\ save' = [save EXCEPT ![t].at = "read", ![t].read = row]
      /\ UNCHANGED <<env, row, runtime, up, loose>>
  BY DEF ReadRows, gateway
<1>2. SettingsType'
  <2>1. save[t] \in Save /\ row \in Texts
    BY DEF Settings, SettingsType
  <2>2. [save[t] EXCEPT !.at = "read", !.read = row] \in Save
    BY <2>1 DEF Save
  <2>3. save' = [save EXCEPT ![t] = [save[t] EXCEPT !.at = "read", !.read = row]]
    BY <1>1
  <2> QED BY <1>1, <2>2, <2>3 DEF Settings, SettingsType
<1>3. EmptyRows'
  BY <1>1 DEF Settings, EmptyRows
<1>4. ReadIsCurrent'
  <2>1. save \in [Tabs -> Save]
    BY DEF Settings, SettingsType
  <2>2. ASSUME ~loose, NEW u \in Tabs, save'[u].at = "read" PROVE save'[u].read = row
    <3>1. CASE u = t
      BY <1>1, <2>1, <3>1 DEF Save
    <3>2. CASE u # t
      BY <1>1, <2>1, <2>2, <3>2 DEF Settings, ReadIsCurrent
    <3> QED BY <3>1, <3>2
  <2> QED BY <1>1, <2>2 DEF ReadIsCurrent
<1>5. Settling'
  BY <1>1 DEF Settling, Settings, SettingsType, Save
<1> QED BY <1>2, <1>3, <1>4, <1>5 DEF Settings, Laid

\* A save is through: what it overlaid is what is stored.
LEMMA SettingsApply == ASSUME Settings, NEW t \in Tabs, Apply(t) PROVE Settings'
<1>1. /\ save[t].at = "read"
      /\ runtime' = Overlaid(runtime, save[t].read)
      /\ save' = [save EXCEPT ![t].at = "applied", ![t].read = NoTexts]
      /\ UNCHANGED <<env, row, up, loose>>
  BY DEF Apply
<1>2. save[t] \in Save /\ save \in [Tabs -> Save] /\ runtime \in Texts /\ row \in Texts
  BY DEF Settings, SettingsType
<1>3. SettingsType'
  <2>1. [save[t] EXCEPT !.at = "applied", !.read = NoTexts] \in Save
    BY <1>2, EmptyType DEF Save
  <2>2. save' = [save EXCEPT ![t] = [save[t] EXCEPT !.at = "applied", !.read = NoTexts]]
    BY <1>1
  <2>3. Overlaid(runtime, save[t].read) \in Texts
    BY <1>2, OrType, ParsedType DEF Save, Overlaid
  <2> QED BY <1>1, <2>1, <2>2, <2>3 DEF Settings, SettingsType
<1>4. ASSUME ~loose, NEW k \in Keys
      PROVE  /\ row[k] = Empty => k = "secret" /\ runtime'[k] = env[k]
             /\ row[k] # Empty => runtime'[k] = Parsed(row)[k]
  <2>1. save[t].read = row
    BY <1>1, <1>4 DEF Settings, ReadIsCurrent
  <2>2. row[k] = Empty => k = "secret" /\ runtime[k] = env[k]
    BY <1>4 DEF Settings, EmptyRows
  <2> QED BY <1>1, <2>1, <2>2, OverlaidAt
<1>5. EmptyRows'
  BY <1>1, <1>4 DEF EmptyRows
<1>6. ReadIsCurrent'
  BY <1>1, <1>2 DEF Settings, ReadIsCurrent
<1>7. Laid'
  BY <1>1, <1>4 DEF Laid
<1> QED BY <1>3, <1>5, <1>6, <1>7 DEF Settings

\* The settings are left alone.
LEMMA SettingsLeft ==
    ASSUME Settings, UNCHANGED <<env, row, runtime, up, loose, save>>
    PROVE  Settings'
BY DEF Settings, SettingsType, EmptyRows, ReadIsCurrent, Laid, Settling

\* A save is over and forgotten.
LEMMA SettingsForgotten ==
    ASSUME Settings, NEW t \in Tabs, save' = [save EXCEPT ![t] = NoSave],
           UNCHANGED <<env, row, runtime, up, loose>>
    PROVE  SettingsType' /\ EmptyRows' /\ ReadIsCurrent'
<1>1. NoSave \in Save /\ NoSave.at = "none" /\ save \in [Tabs -> Save]
  BY EmptyType DEF NoSave, Save, Settings, SettingsType
<1>2. \A u \in Tabs : save'[u] = save[u] \/ save'[u].at = "none"
  BY <1>1
<1> QED BY <1>1, <1>2 DEF Settings, SettingsType, EmptyRows, ReadIsCurrent

\* A save fails at the object: a row it has read is refused, and still stands.
LEMMA SettingsApplyFails == ASSUME Settings, NEW t \in Tabs, ApplyFails(t) PROVE Settings'
<1>1. /\ save[t].at = "read" /\ ~Accepted(save[t].read) /\ save' = [save EXCEPT ![t] = NoSave]
      /\ UNCHANGED <<env, row, runtime, up, loose>>
  BY DEF ApplyFails, gateway
<1>2. ~loose => ~Accepted(row)
  BY <1>1 DEF Settings, ReadIsCurrent
<1>3. Laid'
  BY <1>1, <1>2 DEF Laid, Accepted
<1> QED BY <1>1, <1>3, SettingsForgotten DEF Settings

LEMMA SettingsSaved == ASSUME Settings, NEW t \in Tabs, Saved(t) PROVE Settings'
<1>1. /\ save[t].at = "applied" /\ save' = [save EXCEPT ![t] = NoSave]
      /\ UNCHANGED <<env, row, runtime, up, loose>>
  BY DEF Saved, gateway
<1>2. Settling => Settling'
  BY <1>1 DEF Settling, Settings, SettingsType
<1> QED BY <1>1, <1>2, SettingsForgotten DEF Settings, Laid

-----------------------------------------------------------------------------
(* Dialogs, requests, snapshots and executions *)

DialogsType == dialog \in [Tabs -> Dialog] /\ edits \in 0..MaxEdits
RunsType == start \in [FullRuns -> Start] /\ pinned \in [Runs -> Snapshot] /\ exec \in [Runs -> Exec]
RunsFit == RunsType /\ SnapshotRules

LEMMA DialogsInit == Init => DialogsType
<1> SUFFICES ASSUME Init PROVE DialogsType
  OBVIOUS
<1>1. row \in Texts /\ env \in Texts
  BY SettingsInit DEF Settings, SettingsType
<1>2. Listed \in Texts
  BY <1>1, ListedType
<1> QED BY <1>2, BoundAssumption DEF Init, DialogsType, Dialog

LEMMA DialogsNext == TypeOK /\ [Next]_vars => DialogsType'
<1> SUFFICES ASSUME TypeOK, [Next]_vars PROVE DialogsType'
  OBVIOUS
<1>1. dialog \in [Tabs -> Dialog] /\ edits \in 0..MaxEdits /\ edits \in Nat
  BY BoundAssumption DEF TypeOK
<1>2. CASE UNCHANGED <<dialog, edits>>
  BY <1>1, <1>2 DEF DialogsType
<1>3. ASSUME NEW t \in Tabs, Show(t) PROVE DialogsType'
  <2>1. [form |-> Listed, initial |-> Listed] \in Dialog
    BY ListedType DEF Dialog, TypeOK
  <2> QED BY <1>1, <1>3, <2>1 DEF Show, DialogsType
<1>4. ASSUME NEW t \in Tabs, NEW k \in Keys, NEW x \in Text(k), Edit(t, k, x)
      PROVE  DialogsType'
  <2>1. [dialog[t].form EXCEPT ![k] = x] \in Texts /\ dialog[t] \in Dialog
    <3> DEFINE f == [dialog[t].form EXCEPT ![k] = x]
    <3>1. dialog[t] \in Dialog /\ dialog[t].form \in Texts
      BY <1>1 DEF Dialog
    <3>2. \A q \in Keys : dialog[t].form[q] \in Text(q)
      BY <3>1, TextsAt
    <3>3. DOMAIN f = Keys /\ f = [q \in Keys |-> f[q]] /\ \A q \in Keys : f[q] \in Text(q)
      BY <3>1, <3>2 DEF Texts
    <3> QED BY <3>1, <3>3, TextsMade
  <2>2. [dialog[t] EXCEPT !.form = [dialog[t].form EXCEPT ![k] = x]] \in Dialog
    BY <2>1 DEF Dialog
  <2>3. dialog' = [dialog EXCEPT ![t] = [dialog[t] EXCEPT !.form = [dialog[t].form EXCEPT ![k] = x]]]
    BY <1>4 DEF Edit
  <2>4. edits' \in 0..MaxEdits
    BY <1>1, <1>4, BoundAssumption DEF Edit
  <2> QED BY <1>1, <2>2, <2>3, <2>4 DEF DialogsType
<1>5. ASSUME NEW t \in Tabs, Type(t) PROVE DialogsType'
  <2>1. PICK k \in Keys : \E v \in Typable(t, k) : Edit(t, k, Plain(v))
    BY <1>5 DEF Type
  <2>2. PICK v \in Typable(t, k) : Edit(t, k, Plain(v))
    BY <2>1
  <2>3. v \in Values(k) \cup {None}
    <3>1. CASE k = "switch" /\ dialog[t].form[k].of \in Bool
      BY <2>2, <3>1 DEF Typable, Values, Bool, Switches
    <3> QED BY <2>2, <3>1 DEF Typable
  <2> QED BY <1>4, <2>2, <2>3, PlainType
<1>6. ASSUME NEW t \in Tabs, Reveal(t) PROVE DialogsType'
  <2>1. Or(row, env)["secret"] \in Text("secret")
    BY OrType, TextsAt DEF TypeOK, Keys
  <2> QED BY <1>4, <1>6, <2>1 DEF Reveal, Keys
<1>7. ASSUME NEW t \in Tabs, Saved(t) PROVE DialogsType'
  <2>1. dialog[t] \in Dialog /\ save[t] \in Save
    BY DEF TypeOK
  <2> DEFINE now == [k \in Keys |-> IF k \in save[t].keys THEN save[t].sent[k] ELSE dialog[t].initial[k]]
  <2>2. now \in Texts
    <3>1. \A k \in Keys : now[k] \in Text(k)
      BY <2>1, TextsAt DEF Dialog, Save
    <3>2. DOMAIN now = Keys /\ now = [k \in Keys |-> now[k]]
      OBVIOUS
    <3> QED BY <3>1, <3>2, TextsMade
  <2>3. [dialog[t] EXCEPT !.initial = now] \in Dialog
    BY <2>1, <2>2 DEF Dialog
  <2>4. dialog' = [dialog EXCEPT ![t] = [dialog[t] EXCEPT !.initial = now]] /\ edits' = edits
    BY <1>7 DEF Saved
  <2> QED BY <1>1, <2>3, <2>4 DEF DialogsType
<1>8. CASE Boot
  BY <1>2, <1>8 DEF Boot
<1>9. ASSUME NEW t \in Tabs, PutStep(t) PROVE DialogsType'
  BY <1>2, <1>9 DEF PutStep, Upsert, ReadRows, Apply, ApplyFails
<1>10. ASSUME NEW r \in FullRuns, StartStep(r) PROVE DialogsType'
  BY <1>2, <1>10 DEF StartStep, Ask, Resolve, Pin, tabs
<1>11. ASSUME NEW r \in Runs, EngineStep(r) PROVE DialogsType'
  BY <1>2, <1>11 DEF EngineStep, Execute, Interrupt, tabs
<1>12. CASE UNCHANGED vars
  BY <1>2, <1>12 DEF vars
<1> QED BY <1>3, <1>5, <1>6, <1>7, <1>8, <1>9, <1>10, <1>11, <1>12 DEF Next, DialogStep

\* What an execution resolves is a provider with an address and a secret.
LEMMA ResolvedType == ASSUME TypeOK, NEW r \in Runs PROVE Resolved(r) \in Exec
<1>1. EngineValue \in Texts
  BY OrType, ToldType, DefaultsType DEF EngineValue, TypeOK
<1>2. pinned[r] \in Snapshot
  BY DEF TypeOK
<1>3. \A p : KnownProvider(p) \in Providers
  BY DEF KnownProvider, Providers, Supported
<1>4. EngineValue["base"] \in Text("base") /\ EngineValue["secret"] \in Text("secret")
  BY <1>1, TextsAt DEF Keys
<1>5. \A x : AsBoolean(x) \in Bool /\ IsTrue(x) \in Bool
  BY DEF AsBoolean, IsTrue, Bool
<1>6. Empty \in Text("secret")
  BY EmptyType DEF Keys
<1> QED BY <1>2, <1>3, <1>4, <1>5, <1>6 DEF Resolved, Exec, Snapshot

LEMMA RunsInit == Init => RunsFit
BY EmptyType DEF Init, RunsFit, RunsType, SnapshotRules, NoStart, Start, Verdicts, NoSnapshot,
   Snapshot, NoExec, Exec, Runs, Bool, Keys

LEMMA RunsNext == TypeOK /\ SnapshotRules /\ [Next]_vars => RunsFit'
<1> SUFFICES ASSUME TypeOK, SnapshotRules, [Next]_vars PROVE RunsFit'
  OBVIOUS
<1>1. /\ start \in [FullRuns -> Start] /\ pinned \in [Runs -> Snapshot] /\ exec \in [Runs -> Exec]
      /\ FullRuns \subseteq Runs
  BY DEF TypeOK, Runs
<1>2. NoStart \in Start /\ NoExec \in Exec /\ NoExec.provider = "none"
  BY EmptyType DEF NoStart, Start, Verdicts, NoExec, Exec, Bool, Keys
<1>3. CASE UNCHANGED runs
  BY <1>1, <1>3 DEF runs, RunsFit, RunsType, SnapshotRules
<1>4. CASE Boot
  <2>1. /\ start' = [r \in FullRuns |->
               IF start[r].at \in {"asked", "resolved"} THEN NoStart ELSE start[r]]
        /\ UNCHANGED <<pinned, exec>>
    BY <1>4 DEF Boot
  <2> QED BY <1>1, <1>2, <2>1 DEF RunsFit, RunsType, SnapshotRules
<1>5. ASSUME NEW r \in FullRuns, start[r].at # "done", NEW s \in Start,
             start' = [start EXCEPT ![r] = s], UNCHANGED <<pinned, exec>>
      PROVE  RunsFit'
  <2>1. start' \in [FullRuns -> Start]
    BY <1>1, <1>5
  <2>2. ~pinned[r].made
    BY <1>5 DEF SnapshotRules
  <2>3. \A q \in FullRuns : pinned[q].made => start'[q].at = "done"
    BY <1>1, <1>5, <2>2 DEF SnapshotRules
  <2> QED BY <1>1, <1>5, <2>1, <2>3 DEF RunsFit, RunsType, SnapshotRules
<1>6. ASSUME NEW r \in FullRuns, Ask(r) PROVE RunsFit'
  <2>1. PICK v \in Verdicts : start' = [start EXCEPT ![r] = [NoStart EXCEPT !.at = "asked", !.verdict = v]]
    BY <1>6 DEF Ask, Verdicts
  <2>2. [NoStart EXCEPT !.at = "asked", !.verdict = v] \in Start
    BY DEF NoStart, Start
  <2>3. start[r].at # "done" /\ UNCHANGED <<pinned, exec>>
    BY <1>6 DEF Ask, NoStart
  <2> QED BY <1>5, <2>1, <2>2, <2>3
<1>7. ASSUME NEW r \in FullRuns, Resolve(r) PROVE RunsFit'
  <2> DEFINE s == IF Valid(start[r].verdict) THEN [NoStart EXCEPT !.at = "resolved", !.provider = Selected]
                  ELSE NoStart
  <2>1. s \in Start
    <3>1. CASE Valid(start[r].verdict)
      <4>1. Selected \in Providers
        BY <3>1 DEF Valid, Providers
      <4> QED BY <3>1, <4>1 DEF Start, NoStart, Verdicts
    <3> QED BY <1>2, <3>1
  <2>2. start' = [start EXCEPT ![r] = s] /\ start[r].at # "done" /\ UNCHANGED <<pinned, exec>>
    BY <1>7 DEF Resolve
  <2> QED BY <1>5, <2>1, <2>2
<1>8. ASSUME NEW r \in FullRuns, Pin(r) PROVE RunsFit'
  <2> DEFINE p == [made |-> TRUE, provider |-> start[r].provider,
                    base |-> Picked("base"), switch |-> Picked("switch")]
             s == [NoStart EXCEPT !.at = "done"]
  <2>1. p \in Snapshot /\ s \in Start /\ s.at = "done"
    <3>1. \A k \in Keys : Picked(k) \in Text(k)
      BY OrType, ToldType, TextsAt DEF Picked, TypeOK
    <3> QED BY <1>1, <3>1 DEF Snapshot, Start, NoStart, Verdicts, Keys
  <2>2. /\ start[r].at = "resolved" /\ exec' = exec
        /\ pinned' = [pinned EXCEPT ![r] = p] /\ start' = [start EXCEPT ![r] = s]
    BY <1>8 DEF Pin
  <2>3. ~pinned[r].made /\ exec[r].provider = "none"
    BY <2>2 DEF SnapshotRules
  <2>4. RunsType'
    BY <1>1, <2>1, <2>2 DEF RunsType
  <2>5. ASSUME NEW q \in FullRuns
        PROVE  /\ pinned'[q].made => start'[q].at = "done"
               /\ exec'[q].provider # "none" =>
                     /\ pinned'[q].made
                     /\ exec'[q].provider = pinned'[q].provider
                     /\ exec'[q].base = pinned'[q].base
                     /\ exec'[q].switch = AsBoolean(pinned'[q].switch)
    <3>1. CASE q = r
      BY <1>1, <2>1, <2>2, <2>3, <3>1
    <3>2. CASE q # r
      BY <1>1, <2>2, <3>2 DEF SnapshotRules
    <3> QED BY <3>1, <3>2
  <2> QED BY <2>4, <2>5 DEF RunsFit, SnapshotRules
<1>9. ASSUME NEW r \in Runs, Execute(r) PROVE RunsFit'
  <2>1. exec' = [exec EXCEPT ![r] = Resolved(r)] /\ UNCHANGED <<start, pinned>>
        /\ (r \in FullRuns => pinned[r].made)
    BY <1>9 DEF Execute
  <2>2. Resolved(r) \in Exec
    BY ResolvedType
  <2>3. r \in FullRuns =>
           /\ Resolved(r).provider = pinned[r].provider /\ Resolved(r).base = pinned[r].base
           /\ Resolved(r).switch = AsBoolean(pinned[r].switch)
    BY <2>1 DEF Resolved, HasSnapshot
  <2> QED BY <1>1, <2>1, <2>2, <2>3 DEF RunsFit, RunsType, SnapshotRules
<1>10. ASSUME NEW r \in Runs, Interrupt(r) PROVE RunsFit'
  <2>1. UNCHANGED <<start, pinned>>
    BY <1>10 DEF Interrupt
  <2>2. CASE r \in FullRuns
    <3>1. exec' = [exec EXCEPT ![r] = [exec[r] EXCEPT !.on = FALSE]]
      BY <1>10, <2>2 DEF Interrupt
    <3>2. [exec[r] EXCEPT !.on = FALSE] \in Exec
      BY <1>1 DEF Exec
    <3>3. exec' \in [Runs -> Exec] /\ \A q \in Runs :
             /\ exec'[q].provider = exec[q].provider /\ exec'[q].base = exec[q].base
             /\ exec'[q].switch = exec[q].switch
      BY <1>1, <3>1, <3>2 DEF Exec
    <3> QED BY <1>1, <2>1, <3>3 DEF RunsFit, RunsType, SnapshotRules
  <2>3. CASE r \notin FullRuns
    <3>1. exec' = [exec EXCEPT ![r] = NoExec]
      BY <1>10, <2>3 DEF Interrupt
    <3> QED BY <1>1, <1>2, <2>1, <2>3, <3>1 DEF RunsFit, RunsType, SnapshotRules
  <2> QED BY <2>2, <2>3
<1>11. ASSUME NEW t \in Tabs, DialogStep(t) \/ PutStep(t) PROVE RunsFit'
  <2>1. UNCHANGED runs
    BY <1>11 DEF DialogStep, PutStep, Show, Type, Edit, Reveal, Saved, Upsert, ReadRows, Apply, ApplyFails
  <2> QED BY <1>3, <2>1
<1>12. CASE UNCHANGED vars
  BY <1>3, <1>12 DEF vars, runs
<1> QED BY <1>4, <1>6, <1>7, <1>8, <1>9, <1>10, <1>11, <1>12 DEF Next, StartStep, EngineStep

-----------------------------------------------------------------------------
(* The theorems *)

LEMMA Initially == Init => IInv
BY SettingsInit, DialogsInit, RunsInit
   DEF IInv, TypeOK, Settings, SettingsType, DialogsType, RunsFit, RunsType

LEMMA Inductive == IInv /\ [Next]_vars => IInv'
<1> SUFFICES ASSUME IInv, [Next]_vars PROVE IInv'
  OBVIOUS
<1>1. Settings /\ TypeOK /\ SnapshotRules
  BY DEF IInv, Settings, SettingsType, TypeOK
<1>2. Settings'
  <2>1. CASE Boot
    BY <1>1, <2>1, SettingsBoot
  <2>2. ASSUME NEW t \in Tabs, DialogStep(t) PROVE Settings'
    <3>1. CASE Saved(t)
      BY <1>1, <3>1, SettingsSaved
    <3>2. CASE Show(t) \/ Type(t) \/ Reveal(t)
      BY <1>1, <3>2, SettingsLeft DEF Show, Type, Edit, Reveal, gateway
    <3> QED BY <2>2, <3>1, <3>2 DEF DialogStep
  <2>3. ASSUME NEW t \in Tabs, PutStep(t) PROVE Settings'
    <3>1. dialog[t] \in Dialog
      BY <1>1 DEF TypeOK
    <3> QED BY <1>1, <2>3, <3>1, SettingsUpsert, SettingsReadRows, SettingsApply,
      SettingsApplyFails DEF PutStep
  <2>4. ASSUME NEW r \in FullRuns, StartStep(r) PROVE Settings'
    BY <1>1, <2>4, SettingsLeft DEF StartStep, Ask, Resolve, Pin, gateway, tabs
  <2>5. ASSUME NEW r \in Runs, EngineStep(r) PROVE Settings'
    BY <1>1, <2>5, SettingsLeft DEF EngineStep, Execute, Interrupt, gateway, tabs
  <2>6. CASE UNCHANGED vars
    BY <1>1, <2>6, SettingsLeft DEF vars
  <2> QED BY <2>1, <2>2, <2>3, <2>4, <2>5, <2>6 DEF Next
<1>3. DialogsType' /\ RunsFit'
  BY <1>1, DialogsNext, RunsNext
<1> QED BY <1>2, <1>3 DEF IInv, TypeOK, Settings, SettingsType, DialogsType, RunsFit, RunsType

LEMMA Always == Spec => []IInv
BY Initially, Inductive, PTL DEF Spec

\* Type correctness: a text in a row, the Settings object, a dialog or a
\* request is a value of its field or the mask of one, and what a request for
\* a run resolves is a provider the engine knows.
THEOREM TypeCorrect == Spec => []TypeOK
<1>1. IInv => TypeOK
  BY DEF IInv
<1> QED BY <1>1, Always, PTL

\* At rest, what the Gateway holds of a setting and what the engine looks up.
LEMMA AtRest ==
    ASSUME TypeOK, EmptyRows, Laid, up, ~Settling, ~loose, Accepted(row),
           NEW k \in Keys, row[k].of \notin Misread
    PROVE  GatewayReads(k) = EngineReads(k)
<1>1. row \in Texts /\ env \in Texts /\ row[k] \in Text(k) /\ env[k] \in Text(k)
  BY TextsAt DEF TypeOK
<1>2. EngineValue[k] = IF Told(row)[k] # Empty THEN Told(row)[k]
                       ELSE IF Told(env)[k] # Empty THEN Told(env)[k] ELSE EngineDefault[k]
  BY OrAt DEF EngineValue
<1>3. CASE row[k] = Empty
  <2>1. k = "secret" /\ runtime[k] = env[k]
    BY <1>3 DEF EmptyRows
  <2>2. Plain(Blank) \notin Text("secret") /\ Plain(Blank) # Empty
    BY NoneAssumption DEF Plain, Empty, Text, Values
  <2>3. Told(row)[k] = Empty /\ Told(env)[k] = env[k]
    BY <1>1, <1>3, <2>1, <2>2, ToldAt
  <2>4. EngineValue[k] = env[k]
    BY <1>2, <2>1, <2>3, DefaultAt
  <2> QED BY <2>1, <2>4 DEF GatewayReads, EngineReads
<1>4. CASE row[k] # Empty
  <2>1. row[k].of # Blank /\ row[k] # Plain(Blank)
    BY DEF Misread, Plain
  <2>2. EngineValue[k] = row[k]
    BY <1>2, <1>4, <2>1, ToldAt
  <2>3. runtime[k] = Parsed(row)[k]
    BY <1>4 DEF Laid
  <2>4. row[k].of # "yes"
    BY DEF Misread
  <2>5. runtime[k] = row[k]
    BY <2>3, <2>4, ParsedAt
  <2>6. row[k].of \in Values(k)
    BY <1>1, <1>4 DEF Text
  <2>7. CASE k = "provider"
    <3>1. row[k].of \in {"real", "fake"}
      BY <2>6, <2>7 DEF Values, Providers, Supported, Misread
    <3>2. Selected = row[k].of
      BY <2>5, <2>7, <3>1 DEF Selected, Spelled
    <3> QED BY <2>2, <2>7, <3>1, <3>2 DEF GatewayReads, EngineReads, KnownProvider
  <2>8. CASE k = "switch"
    <3>1. row[k].of \in {"true", "false"}
      BY <2>6, <2>8, <2>4 DEF Values, Switches, Accepted
    <3> QED BY <2>2, <2>5, <2>8, <3>1 DEF GatewayReads, EngineReads, IsTrue
  <2>9. CASE k \in {"base", "secret"}
    BY <2>2, <2>5, <2>9 DEF GatewayReads, EngineReads
  <2> QED BY <2>7, <2>8, <2>9 DEF Keys
<1> QED BY <1>3, <1>4

\* Gateway and engine make the same of what both can read, while nothing is
\* under way.
THEOREM Agreement == Spec => []BothSeeTheSame
<1>1. IInv => BothSeeTheSame
  BY AtRest DEF IInv, BothSeeTheSame
<1> QED BY <1>1, Always, PTL

\* A secret the Gateway has, the engine finds.
LEMMA SecretFound ==
    ASSUME TypeOK, EmptyRows, ~loose, runtime["secret"] # Empty
    PROVE  EngineValue["secret"] # Empty
<1> DEFINE k == "secret"
<1>1. k \in Keys
  BY DEF Keys
<1>2. row[k] \in Text(k) /\ env[k] \in Text(k)
  BY <1>1, TextsAt DEF TypeOK
<1>3. Plain(Blank) \notin Text("secret")
  BY NoneAssumption DEF Plain, Empty, Text, Values
<1>4. Told(row)[k] = row[k] /\ Told(env)[k] = env[k]
  BY <1>1, <1>2, <1>3, ToldAt
<1>5. EngineValue[k] = IF row[k] # Empty THEN row[k]
                       ELSE IF env[k] # Empty THEN env[k] ELSE EngineDefault[k]
  BY <1>1, <1>4, OrAt DEF EngineValue
<1>6. row[k] = Empty => runtime[k] = env[k]
  BY <1>1 DEF EmptyRows
<1> QED BY <1>5, <1>6

\* The check of the Gateway is a check of what the engine would use.
THEOREM CheckedIsUsed == Spec => AdmittedCanPay
<1> DEFINE A == \A r \in FullRuns :
                  start[r].at = "asked" /\ start'[r].at = "resolved" /\ ~loose
                  => (start'[r].provider = "fake" \/ EngineValue["secret"] # Empty)
<1>1. ASSUME IInv, [Next]_vars, NEW r \in FullRuns, start[r].at = "asked",
             start'[r].at = "resolved", ~loose
      PROVE  start'[r].provider = "fake" \/ EngineValue["secret"] # Empty
  <2>1. start \in [FullRuns -> Start] /\ TypeOK /\ EmptyRows
    BY <1>1 DEF IInv, TypeOK
  <2>2. Resolve(r)
    <3>1. start' # start
      BY <1>1
    <3>2. ~Boot
      BY <1>1, <2>1 DEF Boot, NoStart
    <3>3. PICK q \in FullRuns : StartStep(q)
      BY <1>1, <3>1, <3>2 DEF Next, vars, DialogStep, PutStep, Show, Type, Edit, Reveal, Saved,
           Upsert, ReadRows, Apply, ApplyFails, EngineStep, Execute, Interrupt, runs
    <3>4. q = r
      <4>1. CASE q # r
        BY <1>1, <2>1, <3>3, <4>1 DEF StartStep, Ask, Resolve, Pin
      <4> QED BY <4>1
    <3> QED BY <1>1, <2>1, <3>3, <3>4 DEF StartStep, Ask, Pin, NoStart
  <2>3. Valid(start[r].verdict) /\ start'[r].provider = Selected
    BY <1>1, <2>1, <2>2 DEF Resolve, NoStart, Start
  <2>4. Selected = "real" => runtime["secret"] # Empty
    BY <2>3 DEF Valid, CredentialOk
  <2>5. Selected \in {"real", "fake"}
    BY <2>3 DEF Valid, Supported
  <2> QED BY <1>1, <2>1, <2>3, <2>4, <2>5, SecretFound
<1>2. IInv /\ [Next]_vars => A
  BY <1>1
<1>3. IInv /\ [Next]_vars => [A]_vars
  BY <1>2
<1> QED BY <1>3, Always, PTL DEF Spec, AdmittedCanPay

\* What a full run was admitted with it keeps.
THEOREM SnapshotHolds == Spec => KeepsItsProvider
<1> DEFINE Kept(r) == /\ exec'[r].provider = exec[r].provider
                      /\ exec'[r].base = exec[r].base
                      /\ exec'[r].switch = exec[r].switch
<1> DEFINE A == \A r \in FullRuns :
                  exec[r].provider # "none" =>
                     /\ exec'[r].provider = exec[r].provider
                     /\ exec'[r].base = exec[r].base
                     /\ exec'[r].switch = exec[r].switch
<1>1. ASSUME IInv, [Next]_vars, NEW r \in FullRuns, exec[r].provider # "none"
      PROVE  Kept(r)
  <2>1. /\ r \in Runs /\ exec \in [Runs -> Exec] /\ pinned[r].made
        /\ exec[r].provider = pinned[r].provider /\ exec[r].base = pinned[r].base
        /\ exec[r].switch = AsBoolean(pinned[r].switch)
    BY <1>1 DEF IInv, TypeOK, SnapshotRules, Runs
  <2>2. CASE exec' = exec
    BY <2>2
  <2>3. ASSUME NEW q \in Runs, Execute(q)
        PROVE  Kept(r)
    <3>1. exec' = [exec EXCEPT ![q] = Resolved(q)]
      BY <2>3 DEF Execute
    <3>2. /\ Resolved(r).provider = pinned[r].provider /\ Resolved(r).base = pinned[r].base
          /\ Resolved(r).switch = AsBoolean(pinned[r].switch)
      BY <2>1 DEF Resolved, HasSnapshot
    <3> QED BY <2>1, <3>1, <3>2
  <2>4. ASSUME NEW q \in Runs, Interrupt(q)
        PROVE  Kept(r)
    BY <1>1, <2>1, <2>4 DEF Interrupt, Exec
  <2> QED BY <1>1, <2>2, <2>3, <2>4 DEF Next, vars, DialogStep, PutStep, Show, Type, Edit, Reveal,
         Saved, Upsert, ReadRows, Apply, ApplyFails, StartStep, Ask, Resolve, Pin, EngineStep, Boot, runs
<1>2. IInv /\ [Next]_vars => A
  BY <1>1
<1>3. IInv /\ [Next]_vars => [A]_vars
  BY <1>2
<1> QED BY <1>3, Always, PTL DEF Spec, KeepsItsProvider

=============================================================================
